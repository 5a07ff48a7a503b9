----------------------- MODULE ContainerBarrierProofs -----------------------
(***************************************************************************)
(* Proof that container_barrier, for any threads and any distribution of   *)
(* the turns over them, makes the lifecycle calls of one thread.           *)
(***************************************************************************)
EXTENDS ContainerBarrier, SequenceTheorems, TLAPS

InStop == phase[Main] \in {"stop", "stop_turn", "end"}

\* The turns a thread has still to take are its own.
TodoOK == \A t \in Thread : \A i \in DOMAIN todo[t] : todo[t][i] \in Owned(t)

\* A thread leaves the start phase only when all its turns have been passed on.
PassedOK ==
    ~InStop => \A t \in Thread : \A k \in Owned(t) :
        \/ k < m_turn
        \/ /\ phase[t] \in {"begin", "start", "start_turn"}
           /\ \E i \in DOMAIN todo[t] : todo[t][i] = k

\* Nobody is past the stop latch before everybody has counted it down.
LatchOK ==
    /\ \A t \in Thread : t \in m_stop_latch
                            <=> phase[t] \in {"stop_wait", "stop_begin", "stop", "stop_turn", "end"}
    /\ \A t \in Thread : phase[t] \in {"stop_begin", "stop", "stop_turn", "end"}
                            => m_stop_latch = Thread
    /\ \A t \in Thread : phase[t] \in {"begin", "stop_begin"} => t = Main

\* Whoever is in a lifecycle call is the one whose turn it is.
HolderOK ==
    /\ \A t \in Thread : phase[t] = "start_turn" => todo[t] # <<>> /\ m_turn = Head(todo[t])
    /\ \A t \in Thread : phase[t] = "stop_turn" => 
          /\ todo[t] # <<>> /\ m_turn = -Head(todo[t]) /\ InStop
          /\ Head(todo[t]) < m_start_count => life[Head(todo[t])] # "started"
    /\ \A k \in Turn : life[k] = "starting" =>
          k = m_start_count /\ \E t \in Thread : phase[t] = "start_turn" /\ Head(todo[t]) = k
    /\ \A k \in Turn : life[k] = "stopping" =>
          InStop /\ \E t \in Thread : phase[t] = "stop_turn" /\ Head(todo[t]) = k

\* Exactly the first m_start_count startables have been started.
CountOK ==
    \A k \in Turn : k < m_start_count <=> life[k] \in {"started", "stopping", "stopped"}

\* What the turn says of the startables before and after it.
TurnOK ==
    /\ phase[Main] = "begin" => m_turn = INT_MIN
    /\ ~InStop => \A k \in Turn : life[k] # "new" =>
          \/ k < m_turn
          \/ \E t \in Thread : phase[t] = "start_turn" /\ Head(todo[t]) = k
    /\ ~InStop => \A k \in Turn : life[k] \notin {"stopping", "stopped"}
    /\ InStop => \A k \in Turn : k < m_start_count =>
          /\ k > -m_turn => life[k] = "stopped"
          /\ k < -m_turn => life[k] = "started"
          /\ k = -m_turn /\ life[k] # "started" =>
                \E t \in Thread : phase[t] = "stop_turn" /\ Head(todo[t]) = k

IInv == BarrierTypeOK /\ TodoOK /\ PassedOK /\ LatchOK /\ HolderOK /\ CountOK /\ TurnOK

-----------------------------------------------------------------------------
(* Facts about the lists of turns *)

LEMMA TailKeeps ==
    ASSUME NEW O, NEW s \in Seq(Turn), s # <<>>, \A i \in DOMAIN s : s[i] \in O
    PROVE  /\ Head(s) \in O /\ Head(s) \in Turn
           /\ Tail(s) \in Seq(Turn)
           /\ \A i \in DOMAIN Tail(s) : Tail(s)[i] \in O
           /\ \A i \in DOMAIN s : s[i] = Head(s) \/ \E j \in DOMAIN Tail(s) : Tail(s)[j] = s[i]
<1>1. /\ Len(s) \in Nat \ {0} /\ DOMAIN s = 1 .. Len(s) /\ Head(s) = s[1]
      /\ Head(s) \in Turn
  BY EmptySeq, LenProperties, HeadTailProperties
<1>2. /\ Tail(s) \in Seq(Turn) /\ Len(Tail(s)) = Len(s) - 1
      /\ \A i \in 1 .. Len(Tail(s)) : Tail(s)[i] = s[i + 1]
  BY HeadTailProperties
<1>3. DOMAIN Tail(s) = 1 .. Len(s) - 1
  BY <1>2, LenProperties
<1>4. ASSUME NEW i \in DOMAIN Tail(s) PROVE Tail(s)[i] \in O
  <2>1. i + 1 \in DOMAIN s
    BY <1>1, <1>3
  <2>2. Tail(s)[i] = s[i + 1]
    BY <1>2, <1>3
  <2>. QED BY <2>1, <2>2
<1>5. Head(s) \in O
  BY <1>1
<1>6. ASSUME NEW i \in DOMAIN s, i # 1
      PROVE  \E j \in DOMAIN Tail(s) : Tail(s)[j] = s[i]
  <2>1. i - 1 \in DOMAIN Tail(s)
    BY <1>1, <1>3, <1>6
  <2>2. Tail(s)[i - 1] = s[(i - 1) + 1] /\ (i - 1) + 1 = i
    BY <1>1, <1>2, <1>3, <2>1
  <2>. QED BY <2>1, <2>2
<1>. QED BY <1>1, <1>2, <1>4, <1>5, <1>6

LEMMA ReverseKeeps ==
    ASSUME BarrierAssumption, NEW t \in Thread
    PROVE  /\ Reverse(TurnsOf[t]) \in Seq(Turn)
           /\ \A i \in DOMAIN Reverse(TurnsOf[t]) : Reverse(TurnsOf[t])[i] \in Owned(t)
<1>. DEFINE s == TurnsOf[t]
<1>1. /\ s \in Seq(Turn) /\ Len(s) \in Nat /\ DOMAIN s = 1 .. Len(s)
      /\ \A i \in 1 .. Len(s) : s[i] \in Turn /\ s[i] \in Owned(t)
  <2>1. s \in Seq(Turn)
    BY DEF BarrierAssumption, Turn
  <2>. HIDE DEF s
  <2>2. /\ Len(s) \in Nat /\ DOMAIN s = 1 .. Len(s)
        /\ \A i \in 1 .. Len(s) : s[i] \in Turn
    BY <2>1, LenProperties, ElementOfSeq
  <2>. QED BY <2>1, <2>2 DEF Owned, s
<1>. HIDE DEF s
<1>2. \A i \in 1 .. Len(s) : Len(s) - i + 1 \in 1 .. Len(s)
  BY <1>1
<1>3. Reverse(s) = [i \in 1 .. Len(s) |-> s[(Len(s) - i) + 1]]
  BY DEF Reverse
<1>4. Reverse(s) \in [1 .. Len(s) -> Turn]
  BY <1>1, <1>2, <1>3
<1>5. Reverse(s) \in Seq(Turn)
  <2>1. \E n \in Nat : Reverse(s) \in [1 .. n -> Turn]
    BY <1>1, <1>4
  <2>. QED BY <2>1, SeqDef
<1>6. \A i \in DOMAIN Reverse(s) : Reverse(s)[i] \in Owned(t)
  BY <1>1, <1>2, <1>3
<1>. QED BY <1>5, <1>6 DEF s

LEMMA TakeTurn ==
    ASSUME BarrierTypeOK, TodoOK, NEW t \in Thread, todo[t] # <<>>, NEW k, Head(todo[t]) = k
    PROVE  /\ Tail(todo[t]) \in Seq(Turn)
           /\ \A i \in DOMAIN Tail(todo[t]) : Tail(todo[t])[i] \in Owned(t)
           /\ \A i \in DOMAIN todo[t] :
                 todo[t][i] = k \/ \E j \in DOMAIN Tail(todo[t]) : Tail(todo[t])[j] = todo[t][i]
<1>. DEFINE s == todo[t]
            O == Owned(t)
<1>1. s \in Seq(Turn) /\ s # <<>> /\ Head(s) = k /\ \A i \in DOMAIN s : s[i] \in O
  BY DEF BarrierTypeOK, TodoOK
<1>. HIDE DEF s, O
<1>2. /\ Tail(s) \in Seq(Turn) /\ \A i \in DOMAIN Tail(s) : Tail(s)[i] \in O
      /\ \A i \in DOMAIN s : s[i] = Head(s) \/ \E j \in DOMAIN Tail(s) : Tail(s)[j] = s[i]
  BY <1>1, TailKeeps
<1>. QED BY <1>1, <1>2 DEF s, O

\* A turn has one owner.
LEMMA OneOwner ==
    ASSUME BarrierAssumption, BarrierTypeOK, TodoOK, NEW t \in Thread, NEW u \in Thread,
           todo[t] # <<>>, todo[u] # <<>>, Head(todo[t]) = Head(todo[u])
    PROVE  t = u
<1>1. Head(todo[t]) \in Owned(t) /\ Head(todo[u]) \in Owned(u)
  <2>1. todo[t] \in Seq(Turn) /\ \A i \in DOMAIN todo[t] : todo[t][i] \in Owned(t)
    BY DEF BarrierTypeOK, TodoOK
  <2>2. todo[u] \in Seq(Turn) /\ \A i \in DOMAIN todo[u] : todo[u][i] \in Owned(u)
    BY DEF BarrierTypeOK, TodoOK
  <2>. QED BY <2>1, <2>2, TailKeeps
<1>. QED BY <1>1 DEF BarrierAssumption

\* At most one thread is in a lifecycle call.
LEMMA OneHolder ==
    ASSUME BarrierAssumption, IInv, NEW t \in Thread, NEW u \in Thread,
           phase[t] \in {"start_turn", "stop_turn"}, phase[u] \in {"start_turn", "stop_turn"}
    PROVE  t = u
<1>1. phase[t] = phase[u]
  BY DEF IInv, LatchOK
<1>2. todo[t] # <<>> /\ todo[u] # <<>>
  BY DEF IInv, HolderOK
<1>3. Head(todo[t]) \in Int /\ Head(todo[u]) \in Int
  <2>1. todo[t] \in Seq(Turn) /\ todo[u] \in Seq(Turn)
    BY DEF IInv, BarrierTypeOK
  <2>. QED BY <1>2, <2>1, HeadTailProperties DEF Turn
<1>4. Head(todo[t]) = Head(todo[u])
  <2>1. CASE phase[t] = "start_turn"
    BY <1>1, <2>1 DEF IInv, HolderOK
  <2>2. CASE phase[t] = "stop_turn"
    <3>1. m_turn = -Head(todo[t]) /\ m_turn = -Head(todo[u])
      BY <1>1, <2>2 DEF IInv, HolderOK
    <3>. QED BY <1>3, <3>1
  <2>. QED BY <2>1, <2>2
<1>. QED BY <1>2, <1>4, OneOwner DEF IInv

-----------------------------------------------------------------------------
(* The invariant *)

LEMMA InitInv == BarrierAssumption /\ BarrierInit => IInv
<1>. SUFFICES ASSUME BarrierAssumption, BarrierInit PROVE IInv
  OBVIOUS
<1>1. BarrierTypeOK
  BY DEF BarrierAssumption, BarrierInit, BarrierTypeOK, Turn, Phase, INT_MIN
<1>2. TodoOK
  BY DEF BarrierInit, TodoOK, Owned
<1>3. PassedOK
  BY DEF BarrierInit, PassedOK, Owned
<1>4. LatchOK /\ HolderOK /\ CountOK /\ TurnOK
  BY DEF BarrierAssumption, BarrierInit, LatchOK, HolderOK, CountOK, TurnOK, InStop, INT_MIN, Turn
<1>. QED BY <1>1, <1>2, <1>3, <1>4 DEF IInv

LEMMA StepInv == BarrierAssumption /\ IInv /\ [BarrierNext]_barrierVars => IInv'
<1>. SUFFICES ASSUME BarrierAssumption, IInv, [BarrierNext]_barrierVars PROVE IInv'
  OBVIOUS
<1>. USE DEF IInv
<1>1. \A t \in Thread : /\ todo[t] \in Seq(Turn)
                        /\ todo[t] # <<>> => Head(todo[t]) \in Turn
  <2>1. \A t \in Thread : todo[t] \in Seq(Turn)
    BY DEF BarrierTypeOK
  <2>. QED BY <2>1, HeadTailProperties
<1>2. CASE start_begin
  <2>1. BarrierTypeOK'
    BY <1>2 DEF start_begin, BarrierAssumption, Turn, Enter, BarrierTypeOK, Phase
  <2>2. TodoOK'
    BY <1>2 DEF start_begin, BarrierAssumption, Turn, Enter, BarrierTypeOK, TodoOK
  <2>3. LatchOK'
    BY <1>2 DEF start_begin, BarrierAssumption, Turn, Enter, BarrierTypeOK, LatchOK
  <2>0. /\ m_turn = INT_MIN
        /\ \A t \in Thread : phase[t] \notin {"start_turn", "stop_turn"}
        /\ \A k \in Turn : life[k] = "new"
    <3>1. m_turn = INT_MIN /\ ~InStop
      BY <1>2 DEF start_begin, TurnOK, InStop
    <3>2. \A k \in Turn : k # INT_MIN /\ ~(k < INT_MIN)
      BY DEF Turn, INT_MIN, BarrierAssumption
    <3>3. \A t \in Thread : phase[t] \notin {"start_turn", "stop_turn"}
      BY <1>1, <3>1, <3>2 DEF HolderOK
    <3>. QED BY <3>1, <3>2, <3>3 DEF TurnOK
  <2>4. HolderOK'
    BY <1>2, <2>0 DEF start_begin, Enter, BarrierTypeOK, HolderOK
  <2>5. CountOK'
    BY <1>2
       DEF start_begin, BarrierAssumption, Turn, Enter, BarrierTypeOK, HolderOK, CountOK, NextTurn
  <2>6. TurnOK'
    BY <1>2, <2>0 DEF start_begin, Enter, BarrierTypeOK, TurnOK, InStop, BarrierAssumption
  <2>7. PassedOK'
    <3>1. \A t \in Thread : \A k \in Owned(t) : ~(k < m_turn)
      BY <2>0 DEF INT_MIN, Owned, BarrierAssumption
    <3>. QED BY <3>1, <1>2 DEF start_begin, Enter, BarrierTypeOK, PassedOK, InStop
  <2>. QED BY <2>1, <2>2, <2>3, <2>4, <2>5, <2>6, <2>7
<1>3. CASE stop_begin
  <2>1. BarrierTypeOK'
    BY <1>3 DEF stop_begin, BarrierAssumption, Turn, Enter, BarrierTypeOK, Phase
  <2>2. TodoOK'
    BY <1>3 DEF stop_begin, BarrierAssumption, Turn, Enter, BarrierTypeOK, TodoOK
  <2>3. LatchOK'
    BY <1>3 DEF stop_begin, BarrierAssumption, Turn, Enter, BarrierTypeOK, LatchOK
  <2>4. HolderOK'
    BY <1>3
       DEF stop_begin, BarrierAssumption, Turn, Enter, BarrierTypeOK, LatchOK, HolderOK, InStop, NextTurn
  <2>5. CountOK'
    BY <1>3
       DEF stop_begin, BarrierAssumption, Turn, Enter, BarrierTypeOK, HolderOK, CountOK, NextTurn
  <2>6. TurnOK'
    <3>1. /\ ~InStop /\ InStop' /\ m_turn' = 1 - m_turn /\ life' = life
          /\ m_start_count' = m_start_count /\ m_turn \in Int
          /\ phase'[Main] # "begin"
      BY <1>3 DEF stop_begin, InStop, Enter, BarrierTypeOK, BarrierAssumption
    <3>2. \A t \in Thread : phase[t] # "start_turn"
      BY <1>3 DEF stop_begin, LatchOK, BarrierAssumption
    <3>3. ASSUME NEW k \in Turn, k < m_start_count
          PROVE  life[k] = "started" /\ k < m_turn /\ k \in Int
      <4>1. life[k] = "started"
        BY <3>1, <3>3 DEF TurnOK, CountOK
      <4>2. k < m_turn
        BY <3>1, <3>2, <4>1 DEF TurnOK
      <4>. QED BY <4>1, <4>2 DEF Turn
    <3>. QED BY <3>1, <3>3 DEF TurnOK
  <2>7. PassedOK'
    BY <1>3 DEF stop_begin, Enter, BarrierTypeOK, LatchOK, PassedOK, InStop
  <2>. QED BY <2>1, <2>2, <2>3, <2>4, <2>5, <2>6, <2>7
<1>4. ASSUME NEW t \in Thread, NEW k \in Turn, start_turn(t, k)
      PROVE  IInv'
  <2>1. BarrierTypeOK'
    BY <1>4 DEF start_turn, BarrierAssumption, Turn, Enter, BarrierTypeOK, Phase
  <2>2. TodoOK'
    BY <1>4 DEF start_turn, BarrierAssumption, Turn, Enter, BarrierTypeOK, TodoOK
  <2>3. LatchOK'
    BY <1>4 DEF start_turn, BarrierAssumption, Turn, Enter, BarrierTypeOK, LatchOK
  <2>4. HolderOK'
    BY <1>4
       DEF start_turn, BarrierAssumption, Turn, Enter, BarrierTypeOK, LatchOK, HolderOK, InStop, NextTurn
  <2>0. /\ ~InStop /\ life[k] = "new" /\ ~(k < m_start_count)
        /\ todo[t] # <<>> /\ Head(todo[t]) = k /\ phase[t] = "start" /\ m_turn = k
    <3>1. ~InStop
      BY <1>4 DEF start_turn, LatchOK, InStop, BarrierAssumption
    <3>2. \A u \in Thread : ~(phase[u] = "start_turn" /\ Head(todo[u]) = k)
      BY <1>4, OneOwner DEF start_turn, NextTurn, HolderOK
    <3>3. life[k] = "new"
      BY <1>4, <3>1, <3>2 DEF start_turn, TurnOK, Turn
    <3>. QED BY <1>4, <3>1, <3>3 DEF start_turn, NextTurn, CountOK
  <2>5. CountOK'
    BY <1>4, <2>0 DEF start_turn, BarrierTypeOK, CountOK
  <2>6. TurnOK'
    <3>1. /\ ~InStop' /\ phase'[Main] # "begin"
          /\ phase' = [phase EXCEPT ![t] = "start_turn"] /\ todo' = todo /\ m_turn' = m_turn
          /\ m_start_count' = m_start_count
          /\ life' = [life EXCEPT ![k] = IF k = m_start_count THEN "starting" ELSE "skipped"]
      BY <1>4, <2>0 DEF start_turn, Enter, InStop, BarrierTypeOK, TurnOK, BarrierAssumption,
         INT_MIN, Turn
    <3>. QED BY <2>0, <3>1 DEF TurnOK, BarrierTypeOK
  <2>7. PassedOK'
    BY <1>4 DEF start_turn, Enter, BarrierTypeOK, LatchOK, PassedOK, InStop
  <2>. QED BY <2>1, <2>2, <2>3, <2>4, <2>5, <2>6, <2>7
<1>5. ASSUME NEW t \in Thread, NEW k \in Turn, NEW ok \in BOOLEAN, start_result(t, k, ok)
      PROVE  IInv'
  <2>0. k = m_start_count /\ k + 1 \in 0 .. Turns /\ ~InStop
    <3>1. k = m_start_count
      BY <1>5 DEF start_result, HolderOK
    <3>2. ~InStop
      BY <1>5 DEF start_result, LatchOK, InStop, BarrierAssumption
    <3>. QED BY <3>1, <3>2 DEF Turn, BarrierAssumption
  <2>1. BarrierTypeOK'
    BY <1>5, <2>0 DEF start_result, BarrierTypeOK
  <2>2. TodoOK'
    BY <1>5 DEF start_result, BarrierAssumption, Turn, Enter, BarrierTypeOK, TodoOK
  <2>3. LatchOK'
    BY <1>5 DEF start_result, BarrierAssumption, Turn, Enter, BarrierTypeOK, LatchOK
  <2>4. HolderOK'
    <3>1. /\ phase' = phase /\ todo' = todo /\ m_turn' = m_turn
          /\ life'[k] # "starting" /\ life'[k] # "stopping"
          /\ \A j \in Turn : j # k => life'[j] = life[j]
      BY <1>5 DEF start_result, BarrierTypeOK
    <3>2. \A j \in Turn : life[j] = "starting" => j = k
      BY <2>0 DEF HolderOK
    <3>3. \A u \in Thread : phase[u] # "stop_turn"
      BY <2>0 DEF HolderOK
    <3>4. \A j \in Turn : life[j] # "stopping"
      BY <2>0 DEF HolderOK
    <3>. QED BY <3>1, <3>2, <3>3, <3>4 DEF HolderOK
  <2>5. CountOK'
    BY <1>5
       DEF start_result, BarrierAssumption, Turn, Enter, BarrierTypeOK, HolderOK, CountOK, NextTurn
  <2>6. TurnOK'
    BY <1>5, <2>0 DEF start_result, NextTurn, BarrierTypeOK, TurnOK, InStop
  <2>7. PassedOK'
    BY <1>5 DEF start_result, Enter, BarrierTypeOK, LatchOK, PassedOK, InStop
  <2>. QED BY <2>1, <2>2, <2>3, <2>4, <2>5, <2>6, <2>7
<1>6. ASSUME NEW t \in Thread, NEW k \in Turn, start_pass(t, k)
      PROVE  IInv'
  <2>0. /\ todo[t] # <<>> /\ Head(todo[t]) = k /\ m_turn = k /\ m_turn' = k + 1
        /\ phase' = [phase EXCEPT ![t] = "start"] /\ todo' = [todo EXCEPT ![t] = Tail(@)]
        /\ life' = life /\ m_start_count' = m_start_count
        /\ phase[t] = "start_turn" /\ life[k] # "starting"
    BY <1>6 DEF start_pass, NextTurn, Enter, HolderOK
  <2>a. /\ Tail(todo[t]) \in Seq(Turn)
        /\ \A i \in DOMAIN Tail(todo[t]) : Tail(todo[t])[i] \in Owned(t)
        /\ \A i \in DOMAIN todo[t] :
              todo[t][i] = k \/ \E j \in DOMAIN Tail(todo[t]) : Tail(todo[t])[j] = todo[t][i]
    <3>1. todo[t] # <<>> /\ Head(todo[t]) = k
      BY <2>0
    <3>2. BarrierTypeOK /\ TodoOK
      OBVIOUS
    <3>. HIDE DEF IInv
    <3>. QED BY <3>1, <3>2, TakeTurn
  <2>b. /\ \A u \in Thread : phase'[u] \notin {"start_turn", "stop_turn"}
        /\ \A j \in Turn : life[j] \notin {"starting", "stopping"}
    <3>1. \A u \in Thread : phase[u] \in {"start_turn", "stop_turn"} => u = t
      BY <2>0, OneHolder
    <3>. QED BY <2>0, <3>1 DEF HolderOK, BarrierTypeOK
  <2>1. BarrierTypeOK'
    <3>1. m_turn' \in Int
      BY <2>0 DEF Turn
    <3>2. phase' \in [Thread -> Phase] /\ todo' \in [Thread -> Seq(Turn)]
      BY <2>0, <2>a DEF BarrierTypeOK, Phase
    <3>. QED BY <1>6, <2>0, <3>1, <3>2 DEF start_pass, BarrierTypeOK
  <2>2. TodoOK'
    BY <2>0, <2>a DEF BarrierTypeOK, TodoOK
  <2>3. LatchOK'
    BY <1>6 DEF start_pass, BarrierAssumption, Turn, Enter, BarrierTypeOK, LatchOK
  <2>4. HolderOK'
    BY <2>0, <2>b DEF HolderOK
  <2>5. CountOK'
    BY <1>6
       DEF start_pass, BarrierAssumption, Turn, Enter, BarrierTypeOK, HolderOK, CountOK, NextTurn
  <2>6. TurnOK'
    <3>1. ~InStop /\ ~InStop' /\ phase'[Main] # "begin"
      <4>1. ~InStop
        BY <2>0 DEF LatchOK, InStop, BarrierAssumption
      <4>2. m_turn # INT_MIN
        BY <2>0 DEF INT_MIN, Turn, BarrierAssumption
      <4>. QED BY <2>0, <4>1, <4>2 DEF InStop, BarrierTypeOK, BarrierAssumption, TurnOK
    <3>2. ASSUME NEW j \in Turn, life[j] # "new" PROVE j < m_turn'
      <4>1. j < m_turn \/ j = k
        BY <3>1, <3>2, <2>0, OneHolder DEF TurnOK
      <4>. QED BY <4>1, <2>0 DEF Turn
    <3>. QED BY <2>0, <3>1, <3>2 DEF TurnOK
  <2>7. PassedOK'
    <3>1. ~InStop
      BY <2>0 DEF LatchOK, InStop, BarrierAssumption
    <3>2. ASSUME NEW u \in Thread, NEW j \in Owned(u)
          PROVE  \/ j < m_turn'
                 \/ /\ phase'[u] \in {"begin", "start", "start_turn"}
                    /\ \E i \in DOMAIN todo'[u] : todo'[u][i] = j
      <4>1. j \in Int
        BY DEF Owned, BarrierAssumption
      <4>2. CASE j < m_turn
        BY <4>1, <4>2, <2>0 DEF Turn
      <4>3. CASE /\ phase[u] \in {"begin", "start", "start_turn"}
                 /\ \E i \in DOMAIN todo[u] : todo[u][i] = j
        <5>1. CASE u # t
          BY <4>3, <5>1, <2>0 DEF BarrierTypeOK
        <5>2. CASE u = t /\ j # k
          BY <4>3, <5>2, <2>0, <2>a DEF BarrierTypeOK
        <5>3. CASE j = k
          BY <5>3, <4>1, <2>0
        <5>. QED BY <5>1, <5>2, <5>3
      <4>. QED BY <4>2, <4>3, <3>1 DEF PassedOK
    <3>. QED BY <3>2 DEF PassedOK
  <2>. QED BY <2>1, <2>2, <2>3, <2>4, <2>5, <2>6, <2>7
<1>7. ASSUME NEW t \in Thread, start_end(t)
      PROVE  IInv'
  <2>1. BarrierTypeOK'
    BY <1>7 DEF start_end, BarrierAssumption, Turn, Enter, BarrierTypeOK, Phase
  <2>2. TodoOK'
    BY <1>7 DEF start_end, BarrierAssumption, Turn, Enter, BarrierTypeOK, TodoOK
  <2>3. LatchOK'
    BY <1>7 DEF start_end, BarrierAssumption, Turn, Enter, BarrierTypeOK, LatchOK
  <2>4. HolderOK'
    BY <1>7
       DEF start_end, BarrierAssumption, Turn, Enter, BarrierTypeOK, LatchOK, HolderOK, InStop, NextTurn
  <2>5. CountOK'
    BY <1>7
       DEF start_end, BarrierAssumption, Turn, Enter, BarrierTypeOK, HolderOK, CountOK, NextTurn
  <2>6. TurnOK'
    <3>1. /\ ~InStop /\ ~InStop' /\ m_turn' = m_turn /\ life' = life /\ todo' = todo
          /\ phase'[Main] = "begin" => phase[Main] = "begin"
          /\ \A u \in Thread : phase[u] = "start_turn" => phase'[u] = "start_turn"
      BY <1>7 DEF start_end, Enter, BarrierTypeOK, LatchOK, InStop, BarrierAssumption
    <3>. QED BY <3>1 DEF TurnOK
  <2>7. PassedOK'
    BY <1>7 DEF start_end, Enter, BarrierTypeOK, LatchOK, PassedOK, InStop
  <2>. QED BY <2>1, <2>2, <2>3, <2>4, <2>5, <2>6, <2>7
<1>8. ASSUME NEW t \in Thread, start_open(t)
      PROVE  IInv'
  <2>1. BarrierTypeOK'
    BY <1>8, ReverseKeeps DEF start_open, Enter, BarrierTypeOK, Phase
  <2>2. TodoOK'
    BY <1>8, ReverseKeeps DEF start_open, BarrierTypeOK, TodoOK
  <2>3. LatchOK'
    BY <1>8 DEF start_open, BarrierAssumption, Turn, Enter, BarrierTypeOK, LatchOK
  <2>4. HolderOK'
    BY <1>8
       DEF start_open, BarrierAssumption, Turn, Enter, BarrierTypeOK, LatchOK, HolderOK, InStop, NextTurn
  <2>5. CountOK'
    BY <1>8
       DEF start_open, BarrierAssumption, Turn, Enter, BarrierTypeOK, HolderOK, CountOK, NextTurn
  <2>6. TurnOK'
    BY <1>8
       DEF start_open, BarrierAssumption, Turn, Enter, BarrierTypeOK, LatchOK, HolderOK, CountOK, TurnOK, InStop, NextTurn
  <2>7. PassedOK'
    BY <1>8 DEF start_open, Enter, BarrierTypeOK, LatchOK, PassedOK, InStop
  <2>. QED BY <2>1, <2>2, <2>3, <2>4, <2>5, <2>6, <2>7
<1>9. ASSUME NEW t \in Thread, run_end(t)
      PROVE  IInv'
  <2>1. BarrierTypeOK'
    BY <1>9 DEF run_end, BarrierAssumption, Turn, Enter, BarrierTypeOK, Phase
  <2>2. TodoOK'
    BY <1>9 DEF run_end, BarrierAssumption, Turn, Enter, BarrierTypeOK, TodoOK
  <2>3. LatchOK'
    BY <1>9 DEF run_end, BarrierAssumption, Turn, Enter, BarrierTypeOK, LatchOK
  <2>4. HolderOK'
    BY <1>9
       DEF run_end, BarrierAssumption, Turn, Enter, BarrierTypeOK, LatchOK, HolderOK, InStop, NextTurn
  <2>5. CountOK'
    BY <1>9
       DEF run_end, BarrierAssumption, Turn, Enter, BarrierTypeOK, HolderOK, CountOK, NextTurn
  <2>6. TurnOK'
    BY <1>9
       DEF run_end, BarrierAssumption, Turn, Enter, BarrierTypeOK, LatchOK, HolderOK, CountOK, TurnOK, InStop, NextTurn
  <2>7. PassedOK'
    BY <1>9 DEF run_end, Enter, BarrierTypeOK, LatchOK, PassedOK, InStop
  <2>. QED BY <2>1, <2>2, <2>3, <2>4, <2>5, <2>6, <2>7
<1>10. ASSUME NEW t \in Thread, run_open(t)
      PROVE  IInv'
  <2>1. BarrierTypeOK'
    BY <1>10 DEF run_open, BarrierAssumption, Turn, Enter, BarrierTypeOK, Phase
  <2>2. TodoOK'
    BY <1>10 DEF run_open, BarrierAssumption, Turn, Enter, BarrierTypeOK, TodoOK
  <2>3. LatchOK'
    BY <1>10 DEF run_open, BarrierAssumption, Turn, Enter, BarrierTypeOK, LatchOK
  <2>4. HolderOK'
    BY <1>10
       DEF run_open, BarrierAssumption, Turn, Enter, BarrierTypeOK, LatchOK, HolderOK, InStop, NextTurn
  <2>5. CountOK'
    BY <1>10
       DEF run_open, BarrierAssumption, Turn, Enter, BarrierTypeOK, HolderOK, CountOK, NextTurn
  <2>6. TurnOK'
    BY <1>10
       DEF run_open, BarrierAssumption, Turn, Enter, BarrierTypeOK, LatchOK, HolderOK, CountOK, TurnOK, InStop, NextTurn
  <2>7. PassedOK'
    BY <1>10 DEF run_open, Enter, BarrierTypeOK, LatchOK, PassedOK, InStop
  <2>. QED BY <2>1, <2>2, <2>3, <2>4, <2>5, <2>6, <2>7
<1>11. ASSUME NEW t \in Thread, NEW k \in Turn, stop_turn(t, k)
      PROVE  IInv'
  <2>1. BarrierTypeOK'
    BY <1>11 DEF stop_turn, BarrierAssumption, Turn, Enter, BarrierTypeOK, Phase
  <2>2. TodoOK'
    BY <1>11 DEF stop_turn, BarrierAssumption, Turn, Enter, BarrierTypeOK, TodoOK
  <2>3. LatchOK'
    BY <1>11 DEF stop_turn, BarrierAssumption, Turn, Enter, BarrierTypeOK, LatchOK
  <2>0. /\ todo[t] # <<>> /\ Head(todo[t]) = k /\ m_turn = -k /\ m_turn' = m_turn
        /\ phase' = [phase EXCEPT ![t] = "stop_turn"] /\ todo' = todo
        /\ life' = IF k < m_start_count THEN [life EXCEPT ![k] = "stopping"] ELSE life
        /\ m_start_count' = m_start_count /\ phase[t] = "stop"
    BY <1>11 DEF stop_turn, NextTurn, Enter
  <2>a. InStop
    <3>1. k \in Owned(t) /\ k \in Nat
      BY <1>1, <2>0, TailKeeps DEF TodoOK, Turn
    <3>2. ~(k < m_turn)
      BY <2>0, <3>1
    <3>. QED BY <2>0, <3>1, <3>2 DEF PassedOK
  <2>b. InStop' /\ \A u \in Thread : phase[u] # "start_turn"
    BY <2>0, <2>a DEF InStop, LatchOK, BarrierTypeOK, BarrierAssumption
  <2>4. HolderOK'
    BY <2>0, <2>a, <2>b DEF HolderOK, BarrierTypeOK
  <2>5. CountOK'
    BY <1>11
       DEF stop_turn, BarrierAssumption, Turn, Enter, BarrierTypeOK, HolderOK, CountOK, NextTurn
  <2>6. TurnOK'
    <3>1. phase'[Main] # "begin" /\ phase'[t] = "stop_turn"
      BY <2>0, <2>b DEF InStop, BarrierTypeOK
    <3>2. ASSUME NEW j \in Turn, j < m_start_count
          PROVE  /\ j > k => life'[j] = "stopped"
                 /\ j < k => life'[j] = "started"
      <4>1. j \in Int /\ k \in Int /\ -m_turn = k
        BY <2>0 DEF Turn
      <4>2. j # k => life'[j] = life[j]
        BY <2>0 DEF BarrierTypeOK
      <4>. QED BY <2>a, <3>2, <4>1, <4>2 DEF TurnOK
    <3>3. -m_turn' = k
      BY <2>0 DEF Turn
    <3>. QED BY <2>0, <2>b, <3>1, <3>2, <3>3 DEF TurnOK
  <2>7. PassedOK'
    BY <2>b DEF PassedOK
  <2>. QED BY <2>1, <2>2, <2>3, <2>4, <2>5, <2>6, <2>7
<1>12. ASSUME NEW t \in Thread, NEW k \in Turn, stop_result(t, k)
      PROVE  IInv'
  <2>1. BarrierTypeOK'
    BY <1>12 DEF stop_result, BarrierAssumption, Turn, Enter, BarrierTypeOK, Phase
  <2>2. TodoOK'
    BY <1>12 DEF stop_result, BarrierAssumption, Turn, Enter, BarrierTypeOK, TodoOK
  <2>3. LatchOK'
    BY <1>12 DEF stop_result, BarrierAssumption, Turn, Enter, BarrierTypeOK, LatchOK
  <2>4. HolderOK'
    <3>1. /\ phase' = phase /\ todo' = todo /\ m_turn' = m_turn /\ InStop' = InStop
          /\ m_start_count' = m_start_count /\ life'[k] = "stopped"
          /\ \A j \in Turn : j # k => life'[j] = life[j]
      BY <1>12 DEF stop_result, BarrierTypeOK, InStop
    <3>2. ASSUME NEW u \in Thread, phase[u] = "stop_turn", Head(todo[u]) < m_start_count
          PROVE  life'[Head(todo[u])] # "started"
      <4>1. todo[u] # <<>> /\ Head(todo[u]) \in Turn /\ life[Head(todo[u])] # "started"
        BY <1>1, <3>2 DEF HolderOK
      <4>. QED BY <3>1, <4>1
    <3>. QED BY <3>1, <3>2 DEF HolderOK
  <2>5. CountOK'
    BY <1>12
       DEF stop_result, BarrierAssumption, Turn, Enter, BarrierTypeOK, HolderOK, CountOK, NextTurn
  <2>6. TurnOK'
    BY <1>12
       DEF stop_result, BarrierAssumption, Turn, Enter, BarrierTypeOK, LatchOK, HolderOK, CountOK, TurnOK, InStop, NextTurn
  <2>7. PassedOK'
    BY <1>12 DEF stop_result, Enter, BarrierTypeOK, LatchOK, PassedOK, InStop
  <2>. QED BY <2>1, <2>2, <2>3, <2>4, <2>5, <2>6, <2>7
<1>13. ASSUME NEW t \in Thread, NEW k \in Turn, stop_pass(t, k)
      PROVE  IInv'
  <2>0. /\ todo[t] # <<>> /\ Head(todo[t]) = k /\ m_turn = -k /\ m_turn' = -k + 1
        /\ phase' = [phase EXCEPT ![t] = "stop"] /\ todo' = [todo EXCEPT ![t] = Tail(@)]
        /\ life' = life /\ m_start_count' = m_start_count
        /\ phase[t] = "stop_turn" /\ life[k] # "stopping"
    BY <1>13 DEF stop_pass, NextTurn, Enter, HolderOK
  <2>a. /\ Tail(todo[t]) \in Seq(Turn)
        /\ \A i \in DOMAIN Tail(todo[t]) : Tail(todo[t])[i] \in Owned(t)
        /\ \A i \in DOMAIN todo[t] :
              todo[t][i] = k \/ \E j \in DOMAIN Tail(todo[t]) : Tail(todo[t])[j] = todo[t][i]
    <3>1. todo[t] # <<>> /\ Head(todo[t]) = k
      BY <2>0
    <3>2. BarrierTypeOK /\ TodoOK
      OBVIOUS
    <3>. HIDE DEF IInv
    <3>. QED BY <3>1, <3>2, TakeTurn
  <2>b. /\ \A u \in Thread : phase'[u] \notin {"start_turn", "stop_turn"}
        /\ \A j \in Turn : life[j] \notin {"starting", "stopping"}
    <3>1. \A u \in Thread : phase[u] \in {"start_turn", "stop_turn"} => u = t
      BY <2>0, OneHolder
    <3>. QED BY <2>0, <3>1 DEF HolderOK, BarrierTypeOK
  <2>1. BarrierTypeOK'
    <3>1. m_turn' \in Int
      BY <2>0 DEF Turn
    <3>2. phase' \in [Thread -> Phase] /\ todo' \in [Thread -> Seq(Turn)]
      BY <2>0, <2>a DEF BarrierTypeOK, Phase
    <3>. QED BY <1>13, <2>0, <3>1, <3>2 DEF stop_pass, BarrierTypeOK
  <2>2. TodoOK'
    BY <2>0, <2>a DEF BarrierTypeOK, TodoOK
  <2>3. LatchOK'
    BY <1>13 DEF stop_pass, BarrierAssumption, Turn, Enter, BarrierTypeOK, LatchOK
  <2>4. HolderOK'
    BY <2>0, <2>b DEF HolderOK
  <2>5. CountOK'
    BY <1>13
       DEF stop_pass, BarrierAssumption, Turn, Enter, BarrierTypeOK, HolderOK, CountOK, NextTurn
  <2>6. TurnOK'
    <3>1. InStop /\ InStop' /\ phase'[Main] # "begin"
      BY <2>0 DEF HolderOK, InStop, BarrierTypeOK, BarrierAssumption
    <3>2. k < m_start_count => life[k] = "stopped"
      BY <2>0 DEF HolderOK, CountOK
    <3>3. ASSUME NEW j \in Turn, j < m_start_count
          PROVE  /\ j > -m_turn' => life[j] = "stopped"
                 /\ j <= -m_turn' => life[j] = "started"
      <4>1. -m_turn = k /\ -m_turn' = k - 1 /\ j \in Int /\ k \in Int
        BY <2>0 DEF Turn
      <4>2. (j > k => life[j] = "stopped") /\ (j < k => life[j] = "started")
        BY <3>1, <3>3, <4>1 DEF TurnOK
      <4>. QED BY <3>2, <3>3, <4>1, <4>2
    <3>4. \A j \in Turn : j \in Int /\ -m_turn' \in Int
      BY <2>0 DEF Turn
    <3>. QED BY <2>0, <3>1, <3>3, <3>4 DEF TurnOK
  <2>7. PassedOK'
    BY <2>0 DEF HolderOK, PassedOK, InStop, BarrierTypeOK, BarrierAssumption
  <2>. QED BY <2>1, <2>2, <2>3, <2>4, <2>5, <2>6, <2>7
<1>14. ASSUME NEW t \in Thread, stop_end(t)
      PROVE  IInv'
  <2>1. BarrierTypeOK'
    BY <1>14 DEF stop_end, BarrierAssumption, Turn, Enter, BarrierTypeOK, Phase
  <2>2. TodoOK'
    BY <1>14 DEF stop_end, BarrierAssumption, Turn, Enter, BarrierTypeOK, TodoOK
  <2>3. LatchOK'
    BY <1>14 DEF stop_end, BarrierAssumption, Turn, Enter, BarrierTypeOK, LatchOK
  <2>4. HolderOK'
    BY <1>14
       DEF stop_end, BarrierAssumption, Turn, Enter, BarrierTypeOK, LatchOK, HolderOK, InStop, NextTurn
  <2>5. CountOK'
    BY <1>14
       DEF stop_end, BarrierAssumption, Turn, Enter, BarrierTypeOK, HolderOK, CountOK, NextTurn
  <2>6. TurnOK'
    BY <1>14
       DEF stop_end, BarrierAssumption, Turn, Enter, BarrierTypeOK, LatchOK, HolderOK, CountOK, TurnOK, InStop, NextTurn
  <2>7. PassedOK'
    BY <1>14 DEF stop_end, Enter, BarrierTypeOK, LatchOK, PassedOK, InStop
  <2>. QED BY <2>1, <2>2, <2>3, <2>4, <2>5, <2>6, <2>7
<1>15. CASE UNCHANGED barrierVars
    BY <1>15
       DEF barrierVars, BarrierTypeOK, TodoOK, PassedOK, LatchOK, HolderOK, CountOK, TurnOK, InStop
<1>. QED
  BY <1>2, <1>3, <1>4, <1>5, <1>6, <1>7, <1>8, <1>9, <1>10, <1>11, <1>12, <1>13, <1>14, <1>15
     DEF BarrierNext, StartStep, StopStep

-----------------------------------------------------------------------------
(* What the invariant leaves out, for those who run threads through the barrier *)

\* Nobody is at the start any more once everybody has counted the start latch down.
StartLatchOK ==
    /\ \A t \in m_start_latch : phase[t] \notin {"begin", "start", "start_turn"}
    /\ \A t \in Thread : phase[t] \in {"run", "stop_wait", "stop_begin", "stop", "stop_turn", "end"}
                            => m_start_latch = Thread

\* From the start latch on a thread has every turn of its own still to take, or
\* the turn has come and gone; in the end none is left.
LeftOK ==
    /\ \A t \in Thread : phase[t] \in {"run", "stop_wait", "stop_begin", "stop", "stop_turn", "end"}
         => \A k \in Owned(t) : \/ \E i \in DOMAIN todo[t] : todo[t][i] = k
                                \/ InStop /\ k > -m_turn
    /\ \A t \in Thread : phase[t] = "end" => todo[t] = <<>>

\* Turns go up from 0 to Turns, then from 1 - Turns up to 1.
TurnRange == \/ phase[Main] = "begin"
             \/ ~InStop /\ m_turn \in 0 .. Turns
             \/ InStop /\ m_turn \in 1 - Turns .. 1

FullInv == IInv /\ StartLatchOK /\ LeftOK /\ TurnRange

LEMMA FullInit == BarrierAssumption /\ BarrierInit => FullInv
<1>. SUFFICES ASSUME BarrierAssumption, BarrierInit PROVE FullInv
  OBVIOUS
<1>1. IInv
  BY InitInv
<1>2. StartLatchOK /\ LeftOK /\ TurnRange
  BY DEF BarrierAssumption, BarrierInit, StartLatchOK, LeftOK, TurnRange
<1>. QED BY <1>1, <1>2 DEF FullInv

LEMMA StartLatchStep ==
    BarrierAssumption /\ FullInv /\ [BarrierNext]_barrierVars => StartLatchOK'
<1>. SUFFICES ASSUME BarrierAssumption, FullInv, [BarrierNext]_barrierVars PROVE StartLatchOK'
  OBVIOUS
<1>0. /\ phase \in [Thread -> Phase] /\ m_start_latch \subseteq Thread /\ Main \in Thread
      /\ StartLatchOK /\ LatchOK
  BY DEF FullInv, IInv, BarrierTypeOK, BarrierAssumption
<1>1. CASE start_begin \/ stop_begin \/ UNCHANGED barrierVars
  BY <1>0, <1>1 DEF start_begin, stop_begin, barrierVars, Enter, StartLatchOK, LatchOK
<1>2. ASSUME NEW t \in Thread, StartStep(t) PROVE StartLatchOK'
  BY <1>0, <1>2 DEF StartStep, start_turn, start_result, start_pass, start_end, start_open,
                    Enter, StartLatchOK
<1>3. ASSUME NEW t \in Thread, StopStep(t) \/ run_end(t) PROVE StartLatchOK'
  BY <1>0, <1>3 DEF StopStep, run_open, stop_turn, stop_result, stop_pass, stop_end, run_end,
                    Enter, StartLatchOK
<1>. QED BY <1>1, <1>2, <1>3 DEF BarrierNext

\* Turning a list round keeps what is in it.
LEMMA ReverseHasAll ==
    ASSUME BarrierAssumption, NEW t \in Thread, NEW k \in Owned(t)
    PROVE  \E i \in DOMAIN Reverse(TurnsOf[t]) : Reverse(TurnsOf[t])[i] = k
<1>1. PICK s \in Seq(Turn) : s = TurnsOf[t]
  BY DEF BarrierAssumption, Turn
<1>2. Len(s) \in Nat /\ DOMAIN s = 1 .. Len(s)
  BY LenProperties
<1>3. PICK i \in 1 .. Len(s) : s[i] = k
  BY <1>1, <1>2 DEF Owned
<1>4. Len(s) - i + 1 \in 1 .. Len(s) /\ Len(s) - (Len(s) - i + 1) + 1 = i
  BY <1>2
<1>5. Reverse(s) = [j \in 1 .. Len(s) |-> s[(Len(s) - j) + 1]]
  BY DEF Reverse
<1>6. PICK j \in 1 .. Len(s) : (Len(s) - j) + 1 = i
  BY <1>4
<1>7. j \in DOMAIN Reverse(s) /\ Reverse(s)[j] = k
  BY <1>3, <1>5, <1>6
<1>. QED BY <1>1, <1>7

\* In the stop phase no thread is at the start.
LEMMA NoneStarts ==
    ASSUME BarrierAssumption, FullInv, InStop, NEW t \in Thread
    PROVE  phase[t] \notin {"begin", "start", "start_turn", "start_wait", "run"}
BY DEF BarrierAssumption, FullInv, IInv, LatchOK, InStop

LEMMA LeftStep ==
    BarrierAssumption /\ FullInv /\ [BarrierNext]_barrierVars => LeftOK'
<1>. SUFFICES ASSUME BarrierAssumption, FullInv, [BarrierNext]_barrierVars PROVE LeftOK'
  OBVIOUS
<1>0. /\ phase \in [Thread -> Phase] /\ todo \in [Thread -> Seq(Turn)] /\ m_turn \in Int
      /\ Main \in Thread /\ LeftOK /\ \A t \in Thread : Owned(t) \subseteq Int
  <2>1. \A t \in Thread : Owned(t) \subseteq Int
    <3>. SUFFICES ASSUME NEW t \in Thread PROVE Owned(t) \subseteq Int
      OBVIOUS
    <3>1. PICK s \in Seq(Turn) : s = TurnsOf[t]
      BY DEF BarrierAssumption, Turn
    <3>2. \A i \in DOMAIN s : s[i] \in Int
      <4>1. DOMAIN s = 1 .. Len(s) /\ \A i \in 1 .. Len(s) : s[i] \in Turn
        BY LenProperties, ElementOfSeq
      <4>. QED BY <4>1 DEF Turn
    <3>. QED BY <3>1, <3>2 DEF Owned
  <2>. QED BY <2>1 DEF FullInv, IInv, BarrierTypeOK, BarrierAssumption
<1>1. CASE start_begin \/ stop_begin \/ UNCHANGED barrierVars
  BY <1>0, <1>1 DEF start_begin, stop_begin, barrierVars, Enter, LeftOK, InStop
<1>2. ASSUME NEW t \in Thread, StartStep(t) PROVE LeftOK'
  <2>0. ~InStop /\ ~InStop'
    <3>1. ~InStop
      BY <1>2, NoneStarts
         DEF StartStep, start_turn, start_result, start_pass, start_end, start_open
    <3>. QED
      BY <1>0, <1>2, <3>1
         DEF StartStep, start_turn, start_result, start_pass, start_end, start_open, Enter, InStop
  <2>1. CASE start_open(t)
    BY <1>0, <2>0, <2>1, ReverseHasAll DEF start_open, Enter, LeftOK
  <2>2. ASSUME NEW k \in Turn, start_pass(t, k) PROVE LeftOK'
    BY <1>0, <2>0, <2>2 DEF start_pass, Enter, LeftOK
  <2>. QED BY <1>0, <1>2, <2>0, <2>1, <2>2
           DEF StartStep, start_turn, start_result, start_end, Enter, LeftOK
<1>3. ASSUME NEW t \in Thread, NEW k \in Turn, stop_pass(t, k) PROVE LeftOK'
  <2>1. /\ todo' = [todo EXCEPT ![t] = Tail(@)] /\ phase' = [phase EXCEPT ![t] = "stop"]
        /\ m_turn' = -k + 1 /\ phase[t] = "stop_turn" /\ todo[t] # <<>> /\ Head(todo[t]) = k
    BY <1>3 DEF stop_pass, NextTurn, Enter
  <2>2. m_turn = -k /\ InStop /\ k \in Int /\ InStop'
    <3>1. m_turn = -k /\ InStop
      BY <2>1 DEF FullInv, IInv, HolderOK
    <3>. QED BY <1>0, <2>1, <3>1 DEF InStop, Turn
  <2>3. k > -m_turn' /\ \A j \in Int : j > -m_turn => j > -m_turn'
    BY <2>1, <2>2
  <2>4. \A i \in DOMAIN todo[t] :
           todo[t][i] = k \/ \E j \in DOMAIN Tail(todo[t]) : Tail(todo[t])[j] = todo[t][i]
    <3>1. BarrierTypeOK /\ TodoOK
      BY DEF FullInv, IInv
    <3>2. todo[t] # <<>> /\ Head(todo[t]) = k
      BY <2>1
    <3>. QED BY <3>1, <3>2, TakeTurn
  <2>5. phase'[t] = "stop" /\ \A u \in Thread \ {t} : phase'[u] = phase[u] /\ todo'[u] = todo[u]
    BY <1>0, <2>1
  <2>6. todo'[t] = Tail(todo[t])
    BY <1>0, <2>1
  <2>7. \A j \in Owned(t) : (\E i \in DOMAIN todo[t] : todo[t][i] = j) \/ j > -m_turn
    BY <2>1 DEF LeftOK, FullInv
  <2>8. \A j \in Owned(t) : (\E i \in DOMAIN todo'[t] : todo'[t][i] = j) \/ j > -m_turn'
    BY <1>0, <2>3, <2>4, <2>6, <2>7
  <2>9. \A u \in Thread : Owned(u)' = Owned(u)
    BY DEF Owned
  <2>. QED BY <1>0, <2>2, <2>3, <2>5, <2>8, <2>9 DEF LeftOK
<1>4. ASSUME NEW t \in Thread, run_end(t) \/ run_open(t) \/ stop_end(t) PROVE LeftOK'
  BY <1>0, <1>4 DEF run_end, run_open, stop_end, Enter, LeftOK, InStop
<1>5. ASSUME NEW t \in Thread, NEW k \in Turn, stop_turn(t, k) \/ stop_result(t, k) PROVE LeftOK'
  BY <1>0, <1>5 DEF stop_turn, stop_result, Enter, LeftOK, InStop
<1>. QED BY <1>1, <1>2, <1>3, <1>4, <1>5 DEF BarrierNext, StopStep

LEMMA TurnRangeStep ==
    BarrierAssumption /\ FullInv /\ [BarrierNext]_barrierVars => TurnRange'
<1>. SUFFICES ASSUME BarrierAssumption, FullInv, [BarrierNext]_barrierVars PROVE TurnRange'
  OBVIOUS
<1>0. /\ phase \in [Thread -> Phase] /\ m_turn \in Int /\ Main \in Thread /\ Turns \in Nat
      /\ TurnRange
  BY DEF FullInv, IInv, BarrierTypeOK, BarrierAssumption
<1>1. CASE start_begin
  <2>1. phase'[Main] = "start" /\ m_turn' = 0
    BY <1>0, <1>1 DEF start_begin, Enter
  <2>2. ~InStop' /\ m_turn' \in 0 .. Turns
    BY <1>0, <2>1 DEF InStop
  <2>. QED BY <2>2 DEF TurnRange
<1>2. CASE stop_begin
  <2>1. phase[Main] = "stop_begin" /\ phase'[Main] = "stop" /\ m_turn' = 1 - m_turn
    BY <1>0, <1>2 DEF stop_begin, Enter
  <2>2. m_turn \in 0 .. Turns
    BY <1>0, <2>1 DEF TurnRange, InStop
  <2>3. InStop' /\ m_turn' \in 1 - Turns .. 1
    BY <1>0, <2>1, <2>2 DEF InStop
  <2>. QED BY <2>3 DEF TurnRange
<1>3. ASSUME NEW t \in Thread, NEW k \in Turn, start_pass(t, k) PROVE TurnRange'
  <2>1. /\ phase' = [phase EXCEPT ![t] = "start"] /\ m_turn' = k + 1 /\ phase[t] = "start_turn"
    BY <1>3 DEF start_pass, Enter
  <2>2. ~InStop
    BY <2>1, NoneStarts
  <2>3. ~InStop' /\ m_turn' \in 0 .. Turns
    BY <1>0, <2>1, <2>2 DEF InStop, Turn
  <2>. QED BY <2>3 DEF TurnRange
<1>4. ASSUME NEW t \in Thread, NEW k \in Turn, stop_pass(t, k) PROVE TurnRange'
  <2>1. /\ phase' = [phase EXCEPT ![t] = "stop"] /\ m_turn' = -k + 1 /\ phase[t] = "stop_turn"
    BY <1>4 DEF stop_pass, Enter
  <2>2. InStop
    BY <2>1 DEF FullInv, IInv, HolderOK
  <2>3. InStop' /\ m_turn' \in 1 - Turns .. 1
    BY <1>0, <2>1, <2>2 DEF InStop, Turn
  <2>. QED BY <2>3 DEF TurnRange
<1>5. ASSUME m_turn' = m_turn, InStop' <=> InStop, phase'[Main] = "begin" \/ phase[Main] # "begin"
      PROVE  TurnRange'
  BY <1>5, <1>0 DEF TurnRange
<1>6. ASSUME NEW t \in Thread, run_open(t) \/ run_end(t) \/ stop_end(t) PROVE TurnRange'
  BY <1>0, <1>5, <1>6 DEF run_open, run_end, stop_end, Enter, InStop
<1>. QED
  BY <1>0, <1>1, <1>2, <1>3, <1>4, <1>5, <1>6
     DEF BarrierNext, StartStep, StopStep, start_turn, start_result, start_end, start_open,
         stop_turn, stop_result, Enter, InStop, barrierVars

LEMMA FullStep == BarrierAssumption /\ FullInv /\ [BarrierNext]_barrierVars => FullInv'
<1>. SUFFICES ASSUME BarrierAssumption, FullInv, [BarrierNext]_barrierVars PROVE FullInv'
  OBVIOUS
<1>1. IInv'
  BY StepInv DEF FullInv
<1>. QED BY <1>1, StartLatchStep, LeftStep, TurnRangeStep DEF FullInv

\* Nothing has happened before the container's thread opens the start protocol.
LEMMA BeforeBegin ==
    ASSUME BarrierAssumption, FullInv, phase[Main] = "begin", NEW k \in Turn
    PROVE  life[k] = "new"
<1>1. m_turn = INT_MIN /\ ~InStop
  BY DEF FullInv, IInv, TurnOK, InStop
<1>2. \A j \in Turn : j # INT_MIN /\ ~(j < INT_MIN)
  BY DEF Turn, INT_MIN, BarrierAssumption
<1>3. \A t \in Thread : phase[t] = "start_turn" => Head(todo[t]) \in Turn
  <2>1. \A t \in Thread : todo[t] \in Seq(Turn)
    BY DEF FullInv, IInv, BarrierTypeOK
  <2>. QED BY <2>1, HeadTailProperties DEF FullInv, IInv, HolderOK
<1>4. \A t \in Thread : phase[t] # "start_turn"
  BY <1>1, <1>2, <1>3 DEF FullInv, IInv, HolderOK
<1>. QED BY <1>1, <1>2, <1>4 DEF FullInv, IInv, TurnOK

\* While a thread runs, what was started is up, whichever thread started it.
LEMMA UpWhileRunning ==
    ASSUME BarrierAssumption, FullInv, NEW t \in Thread, phase[t] = "run",
           NEW k \in Turn, k < m_start_count
    PROVE  life[k] = "started"
<1>1. ~InStop
  BY NoneStarts
<1>. QED BY <1>1 DEF FullInv, IInv, CountOK, TurnOK

\* When all threads have ended, every turn that a thread owns has been taken and
\* nothing that was started is left.
LEMMA DownInTheEnd ==
    ASSUME BarrierAssumption, FullInv, \A t \in Thread : phase[t] = "end",
           \A k \in Turn : \E t \in Thread : k \in Owned(t), NEW k \in Turn
    PROVE  life[k] \notin {"started", "starting", "stopping"}
<1>1. InStop
  BY DEF BarrierAssumption, InStop
<1>2. k > -m_turn
  <2>1. PICK t \in Thread : k \in Owned(t)
    OBVIOUS
  <2>2. DOMAIN todo[t] = {}
    BY DEF FullInv, LeftOK
  <2>. QED BY <2>1, <2>2 DEF FullInv, LeftOK
<1>3. life[k] \notin {"starting", "stopping"}
  BY DEF FullInv, IInv, HolderOK
<1>4. k < m_start_count => life[k] = "stopped"
  BY <1>1, <1>2 DEF FullInv, IInv, TurnOK
<1>. QED BY <1>3, <1>4 DEF FullInv, IInv, CountOK

-----------------------------------------------------------------------------
(* Theorems *)

\* The induction: whatever the number of startables and threads and however the
\* turns are spread over the threads, IInv is never left.
THEOREM BarrierInvariant == BarrierSpec => []IInv
<1>1. BarrierInit => IInv
  BY InitInv, BarrierAssumption
<1>2. IInv /\ [BarrierNext]_barrierVars => IInv'
  BY StepInv, BarrierAssumption
<1>. QED BY <1>1, <1>2, PTL DEF BarrierSpec

\* Type correctness; in particular a start count never above the number of startables.
THEOREM BarrierTypeCorrect == BarrierSpec => []BarrierTypeOK
<1>1. IInv => BarrierTypeOK
  BY DEF IInv
<1>. QED BY <1>1, BarrierInvariant, PTL

\* Between the latches and the turns, the threads call start() and stop() exactly
\* as one thread would that starts in the order of the turns up to the first
\* failure and stops in the inverse order.
THEOREM BarrierRefinement == BarrierSpec => ImplementsLifecycle
<1>. DEFINE L == [k \in Turn |-> IF life[k] = "skipped" THEN "new" ELSE life[k]]
<1>1. BarrierInit => OneThread!LifeInit
  BY DEF BarrierInit, OneThread!LifeInit, OneThread!Turn, Turn
<1>2. IInv /\ IInv' /\ [BarrierNext]_barrierVars => [OneThread!LifeNext]_L
  <2>. SUFFICES ASSUME IInv, IInv', [BarrierNext]_barrierVars
                PROVE  OneThread!LifeNext \/ L' = L
    OBVIOUS
  <2>. USE DEF IInv
  <2>1. CASE life' = life
    BY <2>1
  <2>2. ASSUME NEW t \in Thread, NEW k \in Turn, start_turn(t, k)
        PROVE  OneThread!LifeNext \/ L' = L
    <3>1. /\ phase[t] = "start" /\ todo[t] # <<>> /\ Head(todo[t]) = k /\ m_turn = k
          /\ life' = [life EXCEPT ![k] = IF k = m_start_count THEN "starting" ELSE "skipped"]
      BY <2>2 DEF start_turn, NextTurn
    <3>2. ~InStop
      BY <3>1, BarrierAssumption DEF LatchOK, InStop, BarrierAssumption
    <3>3. life[k] = "new"
      <4>1. \A u \in Thread : ~(phase[u] = "start_turn" /\ Head(todo[u]) = k)
        BY <3>1, OneOwner, BarrierAssumption DEF HolderOK
      <4>2. ~(k < k)
        BY DEF Turn
      <4>. QED BY <3>1, <3>2, <4>1, <4>2 DEF TurnOK
    <3>4. CASE k # m_start_count
      BY <3>1, <3>3, <3>4 DEF BarrierTypeOK
    <3>5. CASE k = m_start_count
      <4>1. \A j \in Turn : j < k => L[j] = "started"
        BY <3>2, <3>5 DEF CountOK, TurnOK
      <4>2. \A j \in Turn : L[j] \notin OneThread!Busy
        BY <3>2, <3>3, <3>5 DEF HolderOK, OneThread!Busy
      <4>3. L[k] = "new" /\ L' = [L EXCEPT ![k] = "starting"]
        BY <3>1, <3>3, <3>5 DEF BarrierTypeOK
      <4>. QED
        BY <4>1, <4>2, <4>3
           DEF OneThread!LifeNext, OneThread!CallStart, OneThread!Becomes, OneThread!Turn, Turn
    <3>. QED BY <3>4, <3>5
  <2>3. ASSUME NEW t \in Thread, NEW k \in Turn, NEW ok \in BOOLEAN, start_result(t, k, ok)
        PROVE  OneThread!LifeNext
    <3>1. /\ L[k] = "starting"
          /\ L' = [L EXCEPT ![k] = "started"] \/ L' = [L EXCEPT ![k] = "failed"]
      BY <2>3 DEF start_result, BarrierTypeOK
    <3>. QED
      BY <3>1 DEF OneThread!LifeNext, OneThread!EndStart, OneThread!Becomes, OneThread!Turn, Turn
  <2>4. ASSUME NEW t \in Thread, NEW k \in Turn, stop_turn(t, k)
        PROVE  OneThread!LifeNext \/ L' = L
    <3>1. /\ phase[t] = "stop" /\ todo[t] # <<>> /\ Head(todo[t]) = k /\ m_turn = -k
          /\ life' = IF k < m_start_count THEN [life EXCEPT ![k] = "stopping"] ELSE life
          /\ phase'[t] = "stop_turn"
      BY <2>4 DEF stop_turn, NextTurn, Enter, BarrierTypeOK
    <3>2. InStop
      <4>1. InStop' => InStop
        BY <2>4 DEF stop_turn, Enter, InStop, BarrierTypeOK
      <4>. QED BY <2>4, <3>1, <4>1 DEF HolderOK
    <3>3. \A u \in Thread : phase[u] # "start_turn"
      BY <3>2, BarrierAssumption DEF LatchOK, InStop, BarrierAssumption
    <3>4. \A u \in Thread : ~(phase[u] = "stop_turn" /\ Head(todo[u]) = k)
      BY <3>1, OneOwner, BarrierAssumption DEF HolderOK
    <3>5. CASE k < m_start_count
      <4>1. k \in Int /\ -m_turn = k
        BY <3>1 DEF Turn
      <4>2. life[k] = "started"
        BY <3>2, <3>4, <3>5, <4>1 DEF TurnOK
      <4>3. ASSUME NEW j \in Turn PROVE L[j] \notin OneThread!Busy
        <5>1. life[j] # "starting"
          BY <3>3 DEF HolderOK
        <5>2. ASSUME life[j] = "stopping" PROVE FALSE
          <6>1. PICK u \in Thread : phase[u] = "stop_turn" /\ Head(todo[u]) = j
            BY <5>2 DEF HolderOK
          <6>2. j \in Int /\ m_turn = -j
            BY <6>1 DEF HolderOK, Turn
          <6>. QED BY <4>1, <4>2, <5>2, <6>2
        <5>. QED BY <5>1, <5>2 DEF OneThread!Busy
      <4>4. ASSUME NEW j \in Turn, j > k PROVE L[j] \in {"new", "failed", "stopped"}
        <5>1. CASE j < m_start_count
          BY <3>2, <4>1, <4>4, <5>1 DEF TurnOK
        <5>2. CASE ~(j < m_start_count)
          BY <3>3, <5>2 DEF CountOK, HolderOK, BarrierTypeOK
        <5>. QED BY <5>1, <5>2
      <4>5. L[k] = "started" /\ L' = [L EXCEPT ![k] = "stopping"]
        BY <3>1, <3>5, <4>2 DEF BarrierTypeOK
      <4>. QED
        BY <4>3, <4>4, <4>5
           DEF OneThread!LifeNext, OneThread!CallStop, OneThread!Becomes, OneThread!Turn, Turn
    <3>. QED BY <3>1, <3>5
  <2>5. ASSUME NEW t \in Thread, NEW k \in Turn, stop_result(t, k)
        PROVE  OneThread!LifeNext
    <3>1. L[k] = "stopping" /\ L' = [L EXCEPT ![k] = "stopped"]
      BY <2>5 DEF stop_result, BarrierTypeOK
    <3>. QED
      BY <3>1 DEF OneThread!LifeNext, OneThread!EndStop, OneThread!Becomes, OneThread!Turn, Turn
  <2>. QED
    BY <2>1, <2>2, <2>3, <2>4, <2>5
       DEF BarrierNext, StartStep, StopStep, barrierVars, start_begin, stop_begin, start_pass,
           start_end, start_open, run_end, run_open, stop_pass, stop_end
<1>. QED BY <1>1, <1>2, BarrierInvariant, PTL
         DEF BarrierSpec, ImplementsLifecycle, OneThread!LifeSpec

EndsClean ==
    (\A t \in Thread : phase[t] = "end")
        => \A k \in Turn : life[k] \notin {"started", "starting", "stopping"}

\* Once all threads are through the barrier nothing that was started is left up,
\* whoever started it and whatever failed, provided that every turn has an owner.
THEOREM BarrierEndsClean ==
    ASSUME \A k \in Turn : \E t \in Thread : k \in Owned(t)
    PROVE  BarrierSpec => []EndsClean
<1>1. BarrierInit => FullInv
  BY FullInit, BarrierAssumption
<1>2. FullInv /\ [BarrierNext]_barrierVars => FullInv'
  BY FullStep, BarrierAssumption
<1>3. FullInv => EndsClean
  BY DownInTheEnd, BarrierAssumption DEF EndsClean
<1>. QED BY <1>1, <1>2, <1>3, PTL DEF BarrierSpec
=============================================================================

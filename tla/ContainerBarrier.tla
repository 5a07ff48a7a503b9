-------------------------- MODULE ContainerBarrier --------------------------
(***************************************************************************)
(* vr::util::di::container_barrier: every startable is started and stopped *)
(* by the thread that owns it (the container's thread, or the thread of    *)
(* the PU group of a steppable), but in the one order given by its turn.   *)
(* Two latches separate starting, running and stopping.  What a thread     *)
(* does between the latches is of no concern here.                         *)
(*                                                                         *)
(* A wait for a turn holds the mutex while it looks at m_turn and every    *)
(* change of m_turn is made under the mutex and followed by notify_all(),  *)
(* so waiting is a guard on m_turn.                                        *)
(***************************************************************************)
EXTENDS Integers, Sequences, SequencesExt

CONSTANTS Thread,      \* all threads that meet at the barrier
          Main,        \* the container's own thread
          Turns,       \* number of startables
          TurnsOf      \* the turns a thread owns, in the order it takes them

\* The turns a thread owns.
Owned(t) == {TurnsOf[t][i] : i \in DOMAIN TurnsOf[t]}

ASSUME BarrierAssumption ==
    /\ Main \in Thread
    /\ Turns \in Nat
    /\ TurnsOf \in [Thread -> Seq(0 .. Turns - 1)]
    /\ \A t, u \in Thread : t # u => Owned(t) \cap Owned(u) = {}

VARIABLES m_turn,          \* whose turn it is
          m_start_count,   \* start() calls that succeeded
          m_start_latch,   \* threads that counted the start latch down
          m_stop_latch,    \* threads that counted the stop latch down
          phase,           \* where a thread is in the protocol
          todo,            \* turns the thread still has to take in this phase
          life             \* what has happened to each startable

barrierVars == <<m_turn, m_start_count, m_start_latch, m_stop_latch, phase, todo, life>>

Turn == 0 .. Turns - 1
INT_MIN == -2147483647 - 1
Enter(t, p) == phase' = [phase EXCEPT ![t] = p]

BarrierInit ==
    /\ m_turn = INT_MIN /\ m_start_count = 0
    /\ m_start_latch = {} /\ m_stop_latch = {}
    /\ phase = [t \in Thread |-> IF t = Main THEN "begin" ELSE "start"]
    /\ todo = TurnsOf
    /\ life = [k \in Turn |-> "new"]

\* k is the next turn thread t has to take.
NextTurn(t, k) == todo[t] # <<>> /\ Head(todo[t]) = k

-----------------------------------------------------------------------------
(* Faulty variants, for mutation runs only. *)

\* The failure of another startable is not looked at.
start_turn_NoCount(t, k) ==
    /\ phase[t] = "start" /\ NextTurn(t, k) /\ m_turn = k
    /\ Enter(t, "start_turn")
    /\ life' = [life EXCEPT ![k] = "starting"]
    /\ UNCHANGED <<m_turn, m_start_count, m_start_latch, m_stop_latch, todo>>

\* The stop turns start one too low.

\* A success is counted twice.

\* The start turn is passed on to the one after the next.
start_pass_SkipsOne(t, k) ==
    /\ phase[t] = "start_turn" /\ NextTurn(t, k) /\ life[k] # "starting"
    /\ m_turn' = IF k + 2 \in Turn THEN k + 2 ELSE k + 1
    /\ todo' = [todo EXCEPT ![t] = Tail(@)]
    /\ Enter(t, "start")
    /\ UNCHANGED <<m_start_count, m_start_latch, m_stop_latch, life>>

\* stop() is called for all but the last that started.
stop_turn_OffByOne(t, k) ==
    /\ phase[t] = "stop" /\ NextTurn(t, k) /\ m_turn = -k
    /\ Enter(t, "stop_turn")
    /\ life' = IF k < m_start_count - 1 THEN [life EXCEPT ![k] = "stopping"] ELSE life
    /\ UNCHANGED <<m_turn, m_start_count, m_start_latch, m_stop_latch, todo>>

-----------------------------------------------------------------------------
(* Starting *)

start_begin ==
    /\ phase[Main] = "begin"
    /\ m_turn' = 0
    /\ Enter(Main, "start")
    /\ UNCHANGED <<m_start_count, m_start_latch, m_stop_latch, todo, life>>

\* start(): the turn has come; cs.start() is called unless an earlier one failed.
start_turn(t, k) ==
    /\ phase[t] = "start" /\ NextTurn(t, k) /\ m_turn = k
    /\ Enter(t, "start_turn")
    /\ life' = [life EXCEPT ![k] = IF k = m_start_count THEN "starting" ELSE "skipped"]
    /\ UNCHANGED <<m_turn, m_start_count, m_start_latch, m_stop_latch, todo>>

\* start(): cs.start() returns or throws.
start_result(t, k, ok) ==
    /\ phase[t] = "start_turn" /\ NextTurn(t, k) /\ life[k] = "starting"
    /\ life' = [life EXCEPT ![k] = IF ok THEN "started" ELSE "failed"]
    /\ m_start_count' = IF ok THEN m_start_count + 1 ELSE m_start_count
    /\ UNCHANGED <<m_turn, m_start_latch, m_stop_latch, phase, todo>>

\* start(): the turn is passed on, whatever happened.
start_pass(t, k) ==
    /\ phase[t] = "start_turn" /\ NextTurn(t, k) /\ life[k] # "starting"
    /\ m_turn' = k + 1
    /\ todo' = [todo EXCEPT ![t] = Tail(@)]
    /\ Enter(t, "start")
    /\ UNCHANGED <<m_start_count, m_start_latch, m_stop_latch, life>>

\* start_end_wait(): counts the latch down, then waits for everyone.
start_end(t) ==
    /\ phase[t] = "start" /\ todo[t] = <<>>
    /\ m_start_latch' = m_start_latch \cup {t}
    /\ Enter(t, "start_wait")
    /\ UNCHANGED <<m_turn, m_start_count, m_stop_latch, todo, life>>

start_open(t) ==
    /\ phase[t] = "start_wait" /\ m_start_latch = Thread
    /\ todo' = [todo EXCEPT ![t] = Reverse(TurnsOf[t])]
    /\ Enter(t, "run")
    /\ UNCHANGED <<m_turn, m_start_count, m_start_latch, m_stop_latch, life>>

-----------------------------------------------------------------------------
(* Stopping *)

\* run_end_wait(): counts the latch down, then waits for everyone.
run_end(t) ==
    /\ phase[t] = "run"
    /\ m_stop_latch' = m_stop_latch \cup {t}
    /\ Enter(t, "stop_wait")
    /\ UNCHANGED <<m_turn, m_start_count, m_start_latch, todo, life>>

run_open(t) ==
    /\ phase[t] = "stop_wait" /\ m_stop_latch = Thread
    /\ Enter(t, IF t = Main THEN "stop_begin" ELSE "stop")
    /\ UNCHANGED <<m_turn, m_start_count, m_start_latch, m_stop_latch, todo, life>>

\* Turns now run from -(Turns - 1) up to 0.
stop_begin ==
    /\ phase[Main] = "stop_begin"
    /\ m_turn' = 1 - m_turn
    /\ Enter(Main, "stop")
    /\ UNCHANGED <<m_start_count, m_start_latch, m_stop_latch, todo, life>>

\* stop(): the turn has come; cs.stop() is called if its start() succeeded.
stop_turn(t, k) ==
    /\ phase[t] = "stop" /\ NextTurn(t, k) /\ m_turn = -k
    /\ Enter(t, "stop_turn")
    /\ life' = IF k < m_start_count THEN [life EXCEPT ![k] = "stopping"] ELSE life
    /\ UNCHANGED <<m_turn, m_start_count, m_start_latch, m_stop_latch, todo>>

\* stop(): cs.stop() returns or throws, which makes no difference here.
stop_result(t, k) ==
    /\ phase[t] = "stop_turn" /\ NextTurn(t, k) /\ life[k] = "stopping"
    /\ life' = [life EXCEPT ![k] = "stopped"]
    /\ UNCHANGED <<m_turn, m_start_count, m_start_latch, m_stop_latch, phase, todo>>

\* stop(): the turn is passed on.
stop_pass(t, k) ==
    /\ phase[t] = "stop_turn" /\ NextTurn(t, k) /\ life[k] # "stopping"
    /\ m_turn' = -k + 1
    /\ todo' = [todo EXCEPT ![t] = Tail(@)]
    /\ Enter(t, "stop")
    /\ UNCHANGED <<m_start_count, m_start_latch, m_stop_latch, life>>

\* The thread has taken all its turns.
stop_end(t) ==
    /\ phase[t] = "stop" /\ todo[t] = <<>>
    /\ Enter(t, "end")
    /\ UNCHANGED <<m_turn, m_start_count, m_start_latch, m_stop_latch, todo, life>>

-----------------------------------------------------------------------------
StartStep(t) ==
    \/ \E k \in Turn : \/ start_turn(t, k)
                       \/ \E ok \in BOOLEAN : start_result(t, k, ok)
                       \/ start_pass(t, k)
    \/ start_end(t)
    \/ start_open(t)

StopStep(t) ==
    \/ run_open(t)
    \/ \E k \in Turn : stop_turn(t, k) \/ stop_result(t, k) \/ stop_pass(t, k)
    \/ stop_end(t)

BarrierNext ==
    \/ start_begin \/ stop_begin
    \/ \E t \in Thread : StartStep(t) \/ run_end(t) \/ StopStep(t)

BarrierSpec == BarrierInit /\ [][BarrierNext]_barrierVars

\* Every thread is scheduled, no start() or stop() blocks, and the threads run to an end.
BarrierFairness ==
    /\ WF_barrierVars(start_begin) /\ WF_barrierVars(stop_begin)
    /\ \A t \in Thread : WF_barrierVars(StartStep(t) \/ run_end(t) \/ StopStep(t))
FairBarrierSpec == BarrierSpec /\ BarrierFairness

-----------------------------------------------------------------------------
(* Properties *)

Phase == {"begin", "start", "start_turn", "start_wait", "run", "stop_wait",
          "stop_begin", "stop", "stop_turn", "end"}

\* The type invariant.
BarrierTypeOK ==
    /\ m_turn \in Int /\ m_start_count \in 0 .. Turns
    /\ m_start_latch \subseteq Thread /\ m_stop_latch \subseteq Thread
    /\ phase \in [Thread -> Phase]
    /\ todo \in [Thread -> Seq(Turn)]
    /\ life \in [Turn -> {"new", "starting", "started", "failed", "skipped",
                          "stopping", "stopped"}]

\* The lifecycle methods, run by different threads, are called as if by one
\* thread: in dependency order up to the first failure, then, for those that
\* started, in inverse order.
OneThread == INSTANCE Lifecycle WITH
    life <- [k \in Turn |-> IF life[k] = "skipped" THEN "new" ELSE life[k]]
ImplementsLifecycle == OneThread!LifeSpec

\* The turns come round to everyone: all threads get through both latches, and
\* what started is stopped by then.
EveryoneEnds ==
    <>(/\ \A t \in Thread : phase[t] = "end"
       /\ \A k \in Turn : life[k] \notin {"starting", "started", "stopping"})
=============================================================================

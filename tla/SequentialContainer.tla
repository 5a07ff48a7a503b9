------------------------ MODULE SequentialContainer ------------------------
(***************************************************************************)
(* vr::util::di::container without steppable components: the thread that   *)
(* calls start() and stop() drives every startable itself, without the     *)
(* barrier.  Components are numbered in dependency order from 0.           *)
(***************************************************************************)
EXTENDS Integers, FiniteSets

CONSTANTS Components,    \* number of components
          Startable      \* those that are startable

Component == 0 .. Components - 1

\* What is assumed of the constants.
ASSUME SequentialAssumption ==
    /\ Components \in Nat
    /\ Startable \subseteq Component

VARIABLES m_state,         \* the container's state
          m_last_started,  \* how far start() got, then how far down stop() is
          call,            \* the lifecycle method in progress
          status           \* [Startable -> what has happened to it]

scvars == <<m_state, m_last_started, call, status>>

SequentialInit ==
    /\ m_state = "configured" /\ m_last_started = 0 /\ call = "none"
    /\ status = [c \in Startable |-> "new"]

SetLife(c, l) == status' = [status EXCEPT ![c] = l]

-----------------------------------------------------------------------------
(* Faulty variants, for mutation runs only. *)

\* The failure does not end start().
start_throws_GoOn ==
    /\ call = "start" /\ m_last_started \in Startable /\ status[m_last_started] = "starting"
    /\ SetLife(m_last_started, "failed")
    /\ m_last_started' = m_last_started + 1
    /\ UNCHANGED <<m_state, call>>

-----------------------------------------------------------------------------
\* start(): binding has put the components in order.
start_called ==
    /\ call = "none" /\ m_state = "configured"
    /\ m_state' = "resolved" /\ call' = "start"
    /\ UNCHANGED <<m_last_started, status>>

\* The next component: nothing to do unless it is startable.
start_next ==
    /\ call = "start" /\ m_last_started < Components
    /\ IF m_last_started \notin Startable
         THEN m_last_started' = m_last_started + 1 /\ UNCHANGED status
         ELSE /\ status[m_last_started] = "new"
              /\ SetLife(m_last_started, "starting")
              /\ UNCHANGED m_last_started
    /\ UNCHANGED <<m_state, call>>

start_succeeds ==
    /\ call = "start" /\ m_last_started \in Startable /\ status[m_last_started] = "starting"
    /\ SetLife(m_last_started, "started")
    /\ m_last_started' = m_last_started + 1
    /\ UNCHANGED <<m_state, call>>

\* The exception leaves the loop before m_last_started is increased.
start_throws ==
    /\ call = "start" /\ m_last_started \in Startable /\ status[m_last_started] = "starting"
    /\ SetLife(m_last_started, "failed")
    /\ call' = "none"
    /\ UNCHANGED <<m_state, m_last_started>>

start_returns ==
    /\ call = "start" /\ m_last_started = Components
    /\ m_state' = "started" /\ call' = "none"
    /\ UNCHANGED <<m_last_started, status>>

\* stop(), by the application or by ~container(); it is idempotent.
stop_called ==
    /\ call = "none" /\ m_state # "stopped"
    /\ m_state' = "stopped" /\ call' = "stop"
    /\ UNCHANGED <<m_last_started, status>>

Below == m_last_started - 1

stop_next ==
    /\ call = "stop" /\ Below >= 0
    /\ IF Below \notin Startable
         THEN m_last_started' = Below /\ UNCHANGED status
         ELSE /\ status[Below] # "stopping"
              /\ SetLife(Below, "stopping")
              /\ UNCHANGED m_last_started
    /\ UNCHANGED <<m_state, call>>

stop_succeeds ==
    /\ call = "stop" /\ Below \in Startable /\ status[Below] = "stopping"
    /\ SetLife(Below, "stopped")
    /\ m_last_started' = Below
    /\ UNCHANGED <<m_state, call>>

\* The failure is logged and ends the loop.
stop_throws ==
    /\ call = "stop" /\ Below \in Startable /\ status[Below] = "stopping"
    /\ SetLife(Below, "stopped")
    /\ call' = "none"
    /\ UNCHANGED <<m_state, m_last_started>>

stop_returns ==
    /\ call = "stop" /\ Below < 0
    /\ call' = "none"
    /\ UNCHANGED <<m_state, m_last_started, status>>

\* stop() has returned: only destruction is left.
Done == call = "none" /\ m_state = "stopped" /\ UNCHANGED scvars

SequentialNext ==
        \/ start_called \/ start_next \/ start_succeeds \/ start_throws \/ start_returns
        \/ stop_called \/ stop_next \/ stop_succeeds \/ stop_throws \/ stop_returns
        \/ Done

SequentialSpec == SequentialInit /\ [][SequentialNext]_scvars

-----------------------------------------------------------------------------
(* Properties *)

\* Without the barrier, too, startables are started in dependency order up to
\* the first failure, and only what started is stopped, in the inverse order.
turn(c) == Cardinality({d \in Startable : d < c})
Startables == Cardinality(Startable)
Direct == INSTANCE Lifecycle WITH
                Turns <- Startables,
                life <- [k \in 0 .. Startables - 1 |-> status[CHOOSE c \in Startable : turn(c) = k]]
SequentialLifecycle == Direct!LifeSpec
=============================================================================

----------------------------- MODULE Container -----------------------------
(***************************************************************************)
(* vr::util::di::container with steppable components: the container's own  *)
(* thread (start(), run_for(), stop()), one thread per PU group running a  *)
(* mc::step_runnable, the barrier between them, and the requests to stop   *)
(* that any of them may make.                                              *)
(*                                                                         *)
(* Components are numbered in the order binding_traversal() gives them:    *)
(* what a component depends on has a lower number.                         *)
(***************************************************************************)
EXTENDS Integers, Sequences, FiniteSets, SequencesExt

CONSTANTS Components,    \* number of components
          Startable,     \* the components that are startable
          Task,          \* the PU groups; each has a thread of its own
          Steps,         \* [Task -> set of steppable components]: a partition of these
          MaxSteps,      \* most steps step_runnable::create() accepts (6 in the code)
          Main           \* the container's thread

Component == 1 .. Components
Steppable == UNION {Steps[g] : g \in Task}

ASSUME ContainerAssumption ==
    /\ Components \in Nat /\ MaxSteps \in Nat
    /\ Startable \subseteq Component
    /\ Task # {} /\ Main \notin Task
    /\ Steps \in [Task -> (SUBSET Component) \ {{}}]
    /\ \A g, h \in Task : g # h => Steps[g] \cap Steps[h] = {}

Thread == Task \cup {Main}
Sorted(S) == CHOOSE s \in [1 .. Cardinality(S) -> S] :
                \A i, j \in 1 .. Cardinality(S) : i < j => s[i] < s[j]

\* Pass 1 of start(): a startable's turn is its position among the startables.
turn(c) == Cardinality({d \in Startable : d < c})

\* Pass 3 of start(): the steps of a group are kept in dependency order; the
\* container's thread drives the startables that are not steppable.
m_steps(g) == Sorted(Steps[g])
Turns == Cardinality(Startable)
TurnsOf == [t \in Thread |->
              Sorted({turn(c) : c \in Startable \cap
                        (IF t = Main THEN Component \ Steppable ELSE Steps[t])})]

VARIABLES m_turn, m_start_count, m_start_latch, m_stop_latch, phase, todo, life,
          m_state,           \* the container's state
          app,               \* where the thread that calls start() and stop() is
          m_PU_tasks,        \* step_runnables created so far
          m_threads,         \* those that were given a thread
          stop_flag,         \* [Task -> BOOLEAN]
          m_signalled,       \* m_run_waitable
          m_start_failure,   \* some start() failed
          m_step_failures,   \* groups whose steps threw, in the order reported
          at,                \* where a task is in its loop
          left,              \* steps left in this round of the loop
          req,               \* where a thread is in request_stop()
          tell,              \* tasks its broadcast still has to reach
          threw              \* history: the groups one of whose steps threw

INSTANCE ContainerBarrier

seqVars == <<m_turn, m_start_count, m_start_latch, m_stop_latch, phase, todo, life>>
appVars == <<m_state, app, m_PU_tasks, m_threads>>
stopVars == <<stop_flag, m_signalled, req, tell>>
failVars == <<m_start_failure, m_step_failures, threw>>
loopVars == <<at, left>>
containerVars == <<seqVars, appVars, stopVars, failVars, loopVars>>

ContainerInit ==
    /\ BarrierInit
    /\ m_state = "configured" /\ app = "idle" /\ m_PU_tasks = {} /\ m_threads = {}
    /\ stop_flag = [g \in Task |-> FALSE] /\ m_signalled = FALSE
    /\ req = [t \in Thread |-> "no"] /\ tell = [t \in Thread |-> {}]
    /\ m_start_failure = FALSE /\ m_step_failures = <<>> /\ threw = {}
    /\ at = [g \in Task |-> "check"] /\ left = [g \in Task |-> <<>>]

SetAt(g, a) == at' = [at EXCEPT ![g] = a]
SetReq(t, r) == req' = [req EXCEPT ![t] = r]

-----------------------------------------------------------------------------
(* request_stop(): a task first raises its own flag; container::request_stop()  *)
(* then signals and broadcasts unless it sees that this has been done already.  *)

\* The part in which t enters; the conjunct of whatever action makes the request.
EnterRequest(t) ==
    /\ stop_flag' = IF t \in Task THEN [stop_flag EXCEPT ![t] = TRUE] ELSE stop_flag
    /\ SetReq(t, "check")
    /\ UNCHANGED <<m_signalled, tell>>

request_check(t) ==
    /\ req[t] = "check"
    /\ SetReq(t, IF m_signalled THEN "no" ELSE "signal")
    /\ UNCHANGED <<stop_flag, m_signalled, tell, seqVars, appVars, failVars, loopVars>>

request_signal_NoBroadcast(t) ==   \* faulty, for mutation runs only
    /\ req[t] = "signal"
    /\ m_signalled' = TRUE
    /\ SetReq(t, "no")
    /\ UNCHANGED <<stop_flag, tell, seqVars, appVars, failVars, loopVars>>

request_signal(t) ==
    /\ req[t] = "signal"
    /\ m_signalled' = TRUE
    /\ tell' = [tell EXCEPT ![t] = m_PU_tasks]
    /\ SetReq(t, "broadcast")
    /\ UNCHANGED <<stop_flag, seqVars, appVars, failVars, loopVars>>

\* A task told to stop raises its flag; its call back into the container returns
\* at the check.
request_broadcast(t) ==
    /\ req[t] = "broadcast"
    /\ IF tell[t] = {}
         THEN SetReq(t, "no") /\ UNCHANGED <<stop_flag, tell>>
         ELSE \E g \in tell[t] : /\ stop_flag' = [stop_flag EXCEPT ![g] = TRUE]
                                 /\ tell' = [tell EXCEPT ![t] = @ \ {g}]
                                 /\ UNCHANGED req
    /\ UNCHANGED <<m_signalled, seqVars, appVars, failVars, loopVars>>

RequestStep(t) == request_check(t) \/ request_signal(t) \/ request_broadcast(t)

-----------------------------------------------------------------------------
(* The barrier, as the threads use it *)

OtherThanBarrier == UNCHANGED <<appVars, stopVars, failVars, loopVars>>

\* start(): report_failure(true, ...) comes before the turn is passed on.
StartAtBarrier(t) ==
    /\ t \in m_threads \cup {Main}
    /\ \/ \E k \in Turn :
            \/ (start_turn(t, k) \/ start_pass(t, k) \/ start_result(t, k, TRUE)) /\ OtherThanBarrier
            \/ /\ start_result(t, k, FALSE)
               /\ m_start_failure' = TRUE
               /\ UNCHANGED <<appVars, stopVars, m_step_failures, threw, loopVars>>
       \/ (start_end(t) \/ start_open(t)) /\ OtherThanBarrier

StopAtBarrier(t) == StopStep(t) /\ OtherThanBarrier

-----------------------------------------------------------------------------
(* step_runnable_::operator() *)

\* start_steps() returned true.
StartOK(g) == \A i \in DOMAIN TurnsOf[g] : TurnsOf[g][i] < m_start_count

\* Faulty variants, for mutation runs only.
loop_check_NoStart(g) ==
    /\ phase[g] = "run" /\ at[g] = "check" /\ req[g] = "no"
    /\ IF ~stop_flag[g]
         THEN SetAt(g, "step") /\ left' = [left EXCEPT ![g] = m_steps(g)]
         ELSE SetAt(g, "leave") /\ UNCHANGED left
    /\ UNCHANGED <<seqVars, appVars, stopVars, failVars>>

loop_check_NoFlag(g) ==
    /\ phase[g] = "run" /\ at[g] = "check" /\ req[g] = "no"
    /\ IF StartOK(g)
         THEN SetAt(g, "step") /\ left' = [left EXCEPT ![g] = m_steps(g)]
         ELSE SetAt(g, "leave") /\ UNCHANGED left
    /\ UNCHANGED <<seqVars, appVars, stopVars, failVars>>

step_throws_NoReport(g) ==
    /\ phase[g] = "run" /\ at[g] = "step" /\ req[g] = "no"
    /\ SetAt(g, "leave") /\ left' = [left EXCEPT ![g] = <<>>]
    /\ threw' = threw \cup {g}
    /\ EnterRequest(g)
    /\ UNCHANGED <<seqVars, appVars, m_start_failure, m_step_failures>>

loop_check(g) ==
    /\ phase[g] = "run" /\ at[g] = "check" /\ req[g] = "no"
    /\ IF StartOK(g) /\ ~stop_flag[g]
         THEN SetAt(g, "step") /\ left' = [left EXCEPT ![g] = m_steps(g)]
         ELSE SetAt(g, "leave") /\ UNCHANGED left
    /\ UNCHANGED <<seqVars, appVars, stopVars, failVars>>

\* The step at hand returns; a round of the loop runs all steps, whatever the flag.
FinishStep(g) ==
    /\ left' = [left EXCEPT ![g] = Tail(@)]
    /\ SetAt(g, IF Len(left[g]) = 1 THEN "check" ELSE "step")

step_returns(g) ==
    /\ phase[g] = "run" /\ at[g] = "step" /\ req[g] = "no"
    /\ FinishStep(g)
    /\ UNCHANGED <<seqVars, appVars, stopVars, failVars>>

\* steppable::request_stop(), called by a step before it returns.
step_requests_stop(g) ==
    /\ phase[g] = "run" /\ at[g] = "step" /\ req[g] = "no"
    /\ FinishStep(g)
    /\ EnterRequest(g)
    /\ UNCHANGED <<seqVars, appVars, failVars>>

\* The failure is reported first, then a stop is requested.
step_throws(g) ==
    /\ phase[g] = "run" /\ at[g] = "step" /\ req[g] = "no"
    /\ SetAt(g, "leave") /\ left' = [left EXCEPT ![g] = <<>>]
    /\ m_step_failures' = Append(m_step_failures, g) /\ threw' = threw \cup {g}
    /\ EnterRequest(g)
    /\ UNCHANGED <<seqVars, appVars, m_start_failure>>

loop_leave(g) ==
    /\ at[g] = "leave" /\ req[g] = "no"
    /\ run_end(g)
    /\ OtherThanBarrier

LoopStep(g) == \/ loop_check(g) \/ step_returns(g) \/ step_requests_stop(g)
               \/ step_throws(g) \/ loop_leave(g)

-----------------------------------------------------------------------------
(* container::start() and container::stop() *)

start ==
    /\ app = "idle" /\ m_state = "configured"
    /\ m_state' = "resolved" /\ app' = "create"
    /\ UNCHANGED <<m_PU_tasks, m_threads, seqVars, stopVars, failVars, loopVars>>

\* step_runnable::create() for one group after the other.
create_task ==
    /\ app = "create"
    /\ \E g \in Task \ m_PU_tasks :
         IF Cardinality(Steps[g]) <= MaxSteps
           THEN m_PU_tasks' = m_PU_tasks \cup {g} /\ UNCHANGED app
           ELSE app' = "create_threw" /\ UNCHANGED m_PU_tasks
    /\ UNCHANGED <<m_state, m_threads, seqVars, stopVars, failVars, loopVars>>

\* The tasks are given their threads.
spawn_task ==
    /\ app = "create" /\ m_PU_tasks = Task
    /\ \E g \in Task \ m_threads : m_threads' = m_threads \cup {g}
    /\ UNCHANGED <<m_state, app, m_PU_tasks, seqVars, stopVars, failVars, loopVars>>

\* The container's thread opens the start protocol and joins it.
start_begins ==
    /\ app = "create" /\ m_threads = Task
    /\ app' = "start"
    /\ start_begin
    /\ UNCHANGED <<m_state, m_PU_tasks, m_threads, stopVars, failVars, loopVars>>

\* A start failure is rethrown, else the container is 'started'.
start_returns ==
    /\ app = "start" /\ phase[Main] = "run"
    /\ IF m_start_failure THEN app' = "start_threw" /\ UNCHANGED m_state
                          ELSE app' = "started" /\ m_state' = "started"
    /\ UNCHANGED <<m_PU_tasks, m_threads, seqVars, stopVars, failVars, loopVars>>

\* The application calls stop(), or ~container() does: after run_for() was signalled or
\* timed out, after start() threw, or without start().
stop ==
    /\ app \in {"idle", "create_threw", "start_threw", "started"} /\ m_state # "stopped"
    /\ m_state' = "stopped"
    /\ IF m_PU_tasks = {}
         THEN app' = "stopped" /\ UNCHANGED stopVars   \* nothing was started
         ELSE app' = "stop" /\ EnterRequest(Main)
    /\ UNCHANGED <<m_PU_tasks, m_threads, seqVars, failVars, loopVars>>

\* run_end_wait() of the container's thread.
stop_run_end ==
    /\ app = "stop" /\ req[Main] = "no" /\ Main \notin m_stop_latch
    /\ m_stop_latch' = m_stop_latch \cup {Main}
    /\ Enter(Main, "stop_wait")
    /\ UNCHANGED <<m_turn, m_start_count, m_start_latch, todo, life>>
    /\ UNCHANGED <<appVars, stopVars, failVars, loopVars>>

stop_begins == stop_begin /\ OtherThanBarrier

\* The threads are joined and the last step failure is rethrown, if any.
stop_returns ==
    /\ app = "stop" /\ \A t \in Thread : phase[t] = "end"
    /\ app' = IF m_step_failures = <<>> THEN "stopped" ELSE "stop_threw"
    /\ m_step_failures' = <<>>
    /\ UNCHANGED <<m_state, m_PU_tasks, m_threads, m_start_failure, threw, seqVars, stopVars, loopVars>>

Starting == start \/ create_task \/ spawn_task \/ start_begins \/ start_returns
Stopping == stop_run_end \/ stop_begins \/ stop_returns

-----------------------------------------------------------------------------
ThreadStep(t) == RequestStep(t) \/ StartAtBarrier(t) \/ StopAtBarrier(t)

\* stop() has returned: nothing is left to do.
Done == app \in {"stopped", "stop_threw"} /\ UNCHANGED containerVars

ContainerNext == \/ Starting \/ stop \/ Stopping
        \/ \E t \in Thread : ThreadStep(t)
        \/ \E g \in Task : LoopStep(g)
        \/ Done

ContainerSpec == ContainerInit /\ [][ContainerNext]_containerVars

\* run_for() was signalled, or there is nothing to run for.
NothingToRunFor == m_signalled \/ app \in {"create_threw", "start_threw"}

\* Threads are scheduled; start(), stop() and step() methods return; the application
\* calls stop() when there is nothing to run for.  No step is bound to throw or to
\* request a stop.
FairContainerSpec ==
    /\ ContainerSpec
    /\ WF_containerVars(Starting) /\ WF_containerVars(NothingToRunFor /\ stop) /\ WF_containerVars(Stopping)
    /\ \A t \in Thread : WF_containerVars(ThreadStep(t))
    /\ \A g \in Task : WF_containerVars(LoopStep(g))

-----------------------------------------------------------------------------
(* Properties *)

\* The type invariant.
ContainerTypeOK ==
    /\ m_turn \in {INT_MIN, 0, 1} \cup (1 - Turns .. Turns) /\ m_start_count \in 0 .. Turns
    /\ m_start_latch \subseteq Thread /\ m_stop_latch \subseteq Thread
    /\ phase \in [Thread -> Phase]
    /\ life \in [Turn -> {"new", "starting", "started", "failed", "skipped",
                          "stopping", "stopped"}]
    /\ m_state \in {"configured", "resolved", "started", "stopped"}
    /\ m_PU_tasks \subseteq Task /\ stop_flag \in [Task -> BOOLEAN]
    /\ m_signalled \in BOOLEAN /\ m_start_failure \in BOOLEAN
    /\ at \in [Task -> {"check", "step", "leave"}]
    /\ req \in [Thread -> {"no", "check", "signal", "broadcast"}]

\* While a startable is stepped by its own thread, everything before it in the
\* dependency order is up, whichever threads started it, and so is it itself.
SteppedWhileUp ==
    \A g \in Task : at[g] = "step" /\ Head(left[g]) \in Startable
        => \A k \in 0 .. turn(Head(left[g])) : life[k] = "started"

\* What started is stopped by the time stop() returns, even after a start, step
\* or stop failure elsewhere.
NothingLeftUp ==
    ContainerTypeOK /\ (app \in {"stopped", "stop_threw"} => \A k \in Turn : life[k] \notin {"started", "starting", "stopping"})

\* No failure is lost: start() throws if the start() of a component did, and
\* stop() throws if any step did.
FailuresReported ==
    /\ app = "started" => \A k \in Turn : life[k] # "failed"
    /\ app = "stopped" => threw = {}

\* A request to stop and a failing step end the loops of all tasks, whoever else
\* makes a request at the same time.
StopReachesAll ==
    \A g \in Task : (threw # {} \/ \E h \in Task : stop_flag[h]) ~> (g \in m_stop_latch)

\* stop() returns.
StopReturns == (app = "stop") ~> (app \in {"stopped", "stop_threw"})
=============================================================================

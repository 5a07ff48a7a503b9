------------------------------ MODULE TimerQueue ------------------------------
(* timer_queue (rt/timer_queue/timer_queue.cpp): a thread that sleeps on a     *)
(* kernel timer until one time point after another and marks the timers of     *)
(* each as expired; stop() closes the descriptor and joins the thread.         *)
(*                                                                             *)
(* The kernel is as Linux has it: closing a descriptor does not wake a thread  *)
(* that is blocked in read() on it.                                            *)
EXTENDS Integers

CONSTANT Points         \* time points 1..Points are scheduled, in this order

ASSUME PointsAssumption == Points \in Nat

VARIABLES
    now,                \* the clock
    m_timer_fd,         \* TRUE while it holds a descriptor
    fd_open,            \* whether that descriptor is open in the kernel
    wpc, next,          \* the worker: where it is, its place in the schedule
    armed,              \* the time point the kernel's timer is set to
    expired,            \* time points whose timers are marked
    spc,                \* the thread that calls start() and stop()
    closing             \* who has read an open descriptor in close()

tqvars == <<now, m_timer_fd, fd_open, wpc, next, armed, expired, spc, closing>>

TimerInit ==
    /\ now = 0 /\ m_timer_fd = FALSE /\ fd_open = FALSE
    /\ wpc = "none" /\ next = 1 /\ armed = 0 /\ expired = {}
    /\ spc = "ready" /\ closing = {}

tick ==
    /\ now < Points
    /\ now' = now + 1
    /\ UNCHANGED <<m_timer_fd, fd_open, wpc, next, armed, expired, spc, closing>>

-------------------------------------------------------------------------------
start ==
    /\ spc = "ready"
    /\ spc' = "started" /\ wpc' = "open"
    /\ UNCHANGED <<now, m_timer_fd, fd_open, next, armed, expired, closing>>

open ==
    /\ wpc = "open"
    /\ m_timer_fd' = TRUE /\ fd_open' = TRUE /\ wpc' = "look"
    /\ UNCHANGED <<now, next, armed, expired, spc, closing>>

(* The top of the loop: the end of the schedule, or a descriptor closed since. *)
look ==
    /\ wpc = "look"
    /\ wpc' = IF next > Points \/ ~m_timer_fd THEN "leave" ELSE "arm"
    /\ UNCHANGED <<now, m_timer_fd, fd_open, next, armed, expired, spc, closing>>

(* timerfd_settime(), which throws on a closed descriptor, then read(), which  *)
(* returns at once on one and blocks on an open one.                           *)
arm ==
    /\ wpc = "arm"
    /\ wpc' = IF fd_open THEN "read" ELSE "leave"
    /\ armed' = IF fd_open THEN next ELSE armed
    /\ UNCHANGED <<now, m_timer_fd, fd_open, next, expired, spc, closing>>

read ==
    /\ wpc = "read"
    /\ wpc' = IF fd_open THEN "blocked" ELSE "leave"
    /\ UNCHANGED <<now, m_timer_fd, fd_open, next, armed, expired, spc, closing>>

(* Faulty variant, for mutation runs only: it does not wait. *)
wake_Early ==
    /\ wpc = "blocked"
    /\ expired' = expired \cup {next} /\ next' = next + 1 /\ wpc' = "look"
    /\ UNCHANGED <<now, m_timer_fd, fd_open, armed, spc, closing>>

(* Faulty variant, for mutation runs only: the schedule never ends. *)
wake_Same ==
    /\ wpc = "blocked" /\ now >= armed
    /\ expired' = expired \cup {next} /\ wpc' = "read"
    /\ UNCHANGED <<now, m_timer_fd, fd_open, next, armed, spc, closing>>

wake ==
    /\ wpc = "blocked" /\ now >= armed
    /\ expired' = expired \cup {next} /\ next' = next + 1 /\ wpc' = "look"
    /\ UNCHANGED <<now, m_timer_fd, fd_open, armed, spc, closing>>

-------------------------------------------------------------------------------
(* close(), of both threads: the descriptor is read; when there is one, the    *)
(* field is cleared and the descriptor closed.  Both may have read it: then it *)
(* is closed twice, and the second time the kernel refuses (and it is logged). *)
close_read(t) ==
    /\ closing' = IF m_timer_fd THEN closing \cup {t} ELSE closing
    /\ UNCHANGED <<now, m_timer_fd, fd_open, next, armed, expired>>

close_call(t) ==
    /\ t \in closing
    /\ closing' = closing \ {t}
    /\ m_timer_fd' = FALSE /\ fd_open' = FALSE
    /\ UNCHANGED <<now, wpc, next, armed, expired, spc>>

leave ==
    /\ wpc = "leave" /\ wpc' = "closing"
    /\ close_read("worker") /\ UNCHANGED spc

end == 
    /\ wpc = "closing" /\ "worker" \notin closing
    /\ wpc' = "done"
    /\ UNCHANGED <<now, m_timer_fd, fd_open, next, armed, expired, spc, closing>>

stop ==
    /\ spc = "started" /\ spc' = "join"
    /\ close_read("stop") /\ UNCHANGED wpc

join ==
    /\ spc = "join" /\ "stop" \notin closing /\ wpc = "done"
    /\ spc' = "stopped"
    /\ UNCHANGED <<now, m_timer_fd, fd_open, wpc, next, armed, expired, closing>>

worker == open \/ look \/ arm \/ read \/ wake \/ leave \/ close_call("worker") \/ end
owner == close_call("stop") \/ join

TimerNext == tick \/ start \/ stop \/ worker \/ owner

(* The clock goes on, and both threads run. *)
TimerFairness == WF_tqvars(tick) /\ WF_tqvars(worker) /\ WF_tqvars(owner)

TimerSpec == TimerInit /\ [][TimerNext]_tqvars /\ TimerFairness

-------------------------------------------------------------------------------
(* A timer is marked when its time has come and not before, in the order of    *)
(* the schedule; without stop() all of them are; once stop() has returned the  *)
(* thread is gone and the descriptor with it, whenever stop() came: before     *)
(* the thread opened it, between two system calls, while it slept.             *)
TimersAreHonest ==
    /\ \A p \in expired : p <= now
    /\ expired = 1..(next - 1)
    /\ wpc = "done" /\ spc = "started" => expired = 1..Points
    /\ spc = "stopped" => wpc = "done" /\ ~fd_open

(* stop() returns, though close() may come too early or wake nobody: the       *)
(* thread then goes on until the time point it waits for, or the last one.     *)
StopJoins == spc = "join" ~> spc = "stopped"

===============================================================================

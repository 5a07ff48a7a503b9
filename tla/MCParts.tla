------------------------------ MODULE MCParts ------------------------------
(* Eleven parts that share no state, in one run of TLC: a behaviour is one of    *)
(* any of them (which), the variables of the others stay as they are.         *)
EXTENDS SpscBuffer, ContainerBarrier, TimerQueue, LoginBarrier, ObjectStore,
        SequentialContainer, EventQueue, FenwickWindow, ScatterTable, MappedBuffers,
        MarketDataBook

CONSTANTS ga, gb, p1, p2

(* SpscBuffer has two slots, two values and five commits: the ring wraps      *)
(* twice, and "empty" and "full" are met with stale cached positions.         *)

(* Five startables whose turns are spread over the container's thread and two *)
(* others, so that most turns change the thread.                              *)
MCThread == {Main, ga, gb}
MCTurnsOf == Main :> <<0, 3>> @@ ga :> <<1, 4>> @@ gb :> <<2>>

(* ObjectStore has three dates and two versions of an object, under two       *)
(* nested guards; callers write under a guard only.                           *)

(* One agent trades on one of two partitions, the other on both. *)
MCMaskOf == [i \in Ifcs |-> IF i = 1 THEN {p1} ELSE {p1, p2}]

-----------------------------------------------------------------------------
(* SequentialContainer has six components; one in the middle and the last are  *)
(* not startable.                                                              *)

(* EventQueue has two chunks of two slots: the pool grows once, and is used up. *)
MCEntries == [key : 1..3, instance : 0..5]

(* MappedBuffers takes twelve bytes through a capacity of four, in pages of    *)
(* two: a ring wraps three times, a window slides and grows.                   *)

(* MarketDataBook has two series that share three slots of each pool. *)

(* ScatterTable has five keys for at most eight slots, of which three collide  *)
(* in any capacity.                                                            *)

(* FenwickWindow has four bins and indices up to the third window: both trees  *)
(* are cleared and used again.                                                 *)
MCIncrements == {1, -1}

-----------------------------------------------------------------------------
VARIABLE which
allvars == <<which, vars, barrierVars, tqvars, lvars, scvars, tvars, qvars, fvars, mbvars, bkvars, ovars>>

(* Where an initial state is a choice, that of the other parts is fixed. *)
PartsInit ==
    /\ which \in {"spsc", "barrier", "timers", "login", "sequential",
                   "table", "events", "fenwick", "buffers", "book", "store"}
    /\ Init /\ BarrierInit /\ TimerInit /\ LoginInit /\ SequentialInit /\ BookInit /\ StoreInit
    /\ TInit /\ (which # "table" => fixed_capacity)
    /\ QueueInit /\ (which # "events" => DOMAIN memory = 0..1)
    /\ FenwickInit /\ (which # "fenwick" => m_time_index = 0)
    /\ BufferInit /\ (which # "buffers" => kind = "ring")

Is(part) ==
    /\ which = part /\ UNCHANGED which
    /\ part # "spsc" => UNCHANGED vars
    /\ part # "barrier" => UNCHANGED barrierVars
    /\ part # "timers" => UNCHANGED tqvars
    /\ part # "login" => UNCHANGED lvars
    /\ part # "sequential" => UNCHANGED scvars
    /\ part # "table" => UNCHANGED tvars
    /\ part # "events" => UNCHANGED qvars
    /\ part # "fenwick" => UNCHANGED fvars
    /\ part # "buffers" => UNCHANGED mbvars
    /\ part # "book" => UNCHANGED bkvars
    /\ part # "store" => UNCHANGED ovars

PartsNext ==
    \/ Is("spsc") /\ Next
    \/ Is("barrier") /\ BarrierNext
    \/ Is("timers") /\ TimerNext
    \/ Is("login") /\ LoginNext
    \/ Is("sequential") /\ SequentialNext
    \/ Is("table") /\ TNext
    \/ Is("events") /\ QueueNext
    \/ Is("fenwick") /\ FenwickNext
    \/ Is("buffers") /\ BufferNext
    \/ Is("book") /\ BookNext
    \/ Is("store") /\ StoreNext

(* PollingConsumer, BarrierFairness, TimerFairness and LoginFairness, each in  *)
(* the behaviours of its part.                                                 *)
PartsSpec ==
    /\ PartsInit /\ [][PartsNext]_allvars
    /\ WF_vars(which = "spsc" /\ try_dequeue) /\ WF_vars(which = "spsc" /\ dequeue_release)
    /\ WF_barrierVars(which = "barrier" /\ start_begin)
    /\ WF_barrierVars(which = "barrier" /\ stop_begin)
    /\ \A t \in Thread : WF_barrierVars(which = "barrier" /\ (StartStep(t) \/ run_end(t) \/ StopStep(t)))
    /\ WF_tqvars(which = "timers" /\ tick) /\ WF_tqvars(which = "timers" /\ worker)
    /\ WF_tqvars(which = "timers" /\ owner)
    /\ WF_lvars(which = "login" /\ link_step)
    /\ \A i \in Ifcs : WF_lvars(which = "login" /\ agent_step(i))
    /\ \A p \in Parts :
          /\ WF_lvars(which = "login" /\ venue_step(p))
          /\ SF_lvars(which = "login" /\ \E rc \in 1..Len(send_buffer[p]) : send_flush(p, rc))

-----------------------------------------------------------------------------
(* Properties, each of one part.                                               *)

(* Everyone gets through start() and stop() of the barrier: no pass of turns   *)
(* leaves a thread waiting for a turn that has gone by.                        *)
BarrierEnds == which = "barrier" => EveryoneEnds

(* Every agent whose login is accepted comes to run, and trades, however many  *)
(* partitions and agents have to answer before it, and whatever the link could *)
(* write in one call.                                                          *)
AgentsRun == which = "login" => EveryAgentRuns
===============================================================================

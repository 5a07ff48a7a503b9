---------------------------- MODULE Reclamation ----------------------------
(***************************************************************************)
(* How market_data_feed and execution_link publish versions of their       *)
(* receive state to the agents, and how the memory of a superseded version *)
(* comes back to its pool: one RCU writer (the thread stepping the feed),  *)
(* RCU readers (the threads stepping agents), the thread that runs the     *)
(* call_rcu() callbacks, and a lock-free stack between it and the writer.  *)
(*                                                                         *)
(* A version is a pool slot (a recv_descriptor).  What a slot carries is   *)
(* left to the modules that extend this one, which pass it to publish().   *)
(* The RCU library (QSBR flavour) is external: a batch of callbacks waits  *)
(* for a quiescent state of every registered thread, then runs in order.   *)
(***************************************************************************)
EXTENDS Integers, Sequences, FiniteSets, Functions

CONSTANTS
    PoolSize,   \* slots of the pool (the code's pool grows: a bound)
    Readers,    \* the registered threads that step agents
    Payload,    \* what a descriptor carries
    Blank       \* the payload of a cleared descriptor

ASSUME ReclamationAssumption ==
    /\ PoolSize \in Nat /\ PoolSize >= 2
    /\ Blank \in Payload

Slots == 0..PoolSize - 1        \* a slot is its number: m_instance
Null == -1                      \* of a link: negative means 'null'
SlotOrNull == Slots \cup {Null}

Writer == "writer"              \* the thread that steps the feed
ASSUME WriterAssumption == Writer \notin Readers
Threads == Readers \cup {Writer}

VARIABLES
    m_published, m_current,     \* the version readers see, and the next one
    data,                       \* the payload of every slot
    free,                       \* m_pds: the slots not allocated, first out first
    retired,                    \* step(): 'published', until call_rcu()
    wpc,                        \* where the writer is in step()
    m_pd_reclaim_head, m_next,  \* the stack of slots to reclaim
    reclaim_i,                  \* step(): the popped slot to release next
    reading, rpc,               \* the version a reader uses; where it is
    callbacks, batch, waiting,  \* the callback thread's queue, the batch it
                                \* took, and who has yet to be quiescent
    pushing                     \* the head a callback loaded for its CAS

writerVars == <<m_published, m_current, data, free, retired, wpc, reclaim_i>>
stackVars  == <<m_pd_reclaim_head, m_next>>
readerVars == <<reading, rpc>>
rcuVars    == <<callbacks, batch, waiting, pushing>>
vars == <<writerVars, stackVars, readerVars, rcuVars>>

(* initialize() allocates the first two slots. *)
Init ==
    /\ m_published = 0
    /\ m_current = 1
    /\ data = [s \in Slots |-> Blank]
    /\ free = [i \in 1..PoolSize - 2 |-> i + 1]
    /\ retired = Null
    /\ wpc = "poll"
    /\ m_pd_reclaim_head = Null
    /\ m_next = [s \in Slots |-> Null]
    /\ reclaim_i = Null
    /\ reading = [r \in Readers |-> Null]
    /\ rpc = [r \in Readers |-> "step"]
    /\ callbacks = <<>>
    /\ batch = <<>>
    /\ waiting = {}
    /\ pushing = [loaded |-> FALSE, head |-> Null]

-----------------------------------------------------------------------------
(* Faulty variants, for mutation runs only. *)

(* push_load that takes its callback without waiting for the grace period. *)
push_load_NoGrace ==
    /\ batch # <<>> /\ ~ pushing.loaded
    /\ m_next' = [m_next EXCEPT ![Head(batch)] = m_pd_reclaim_head]
    /\ pushing' = [loaded |-> TRUE, head |-> m_pd_reclaim_head]
    /\ UNCHANGED <<m_pd_reclaim_head, writerVars, readerVars, callbacks,
                   batch, waiting>>

(* push_cas as a plain store of the head. *)
push_cas_Store ==
    /\ pushing.loaded
    /\ m_pd_reclaim_head' = Head(batch)
    /\ batch' = Tail(batch)
    /\ pushing' = [loaded |-> FALSE, head |-> Null]
    /\ UNCHANGED <<m_next, writerVars, readerVars, callbacks, waiting>>

(* A step loop without its quiescent state: no grace period ever ends. *)
writer_quiescent_Never ==
    /\ wpc = "quiesce"
    /\ wpc' = "poll"
    /\ UNCHANGED <<m_published, m_current, data, free, retired, reclaim_i,
                   stackVars, readerVars, rcuVars>>

-----------------------------------------------------------------------------
(* The writer's step(). *)

(* New bytes: fill the descriptor only the writer can see, then publish it.
   A pool with no slot left stands for a link without news (pool bound). *)
publish(v) ==
    /\ wpc = "poll" /\ free # <<>>
    /\ data' = [data EXCEPT ![m_current] = v]
    /\ retired' = m_published
    /\ m_published' = m_current
    /\ wpc' = "retire"
    /\ UNCHANGED <<m_current, free, reclaim_i, stackVars, readerVars, rcuVars>>

(* call_rcu() on the superseded version, then a slot for the next one, primed
   with a copy of the version just published. *)
retire ==
    /\ wpc = "retire"
    /\ callbacks' = Append(callbacks, retired)
    /\ retired' = Null
    /\ m_current' = Head(free)
    /\ free' = Tail(free)
    /\ data' = [data EXCEPT ![Head(free)] = data[m_published]]
    /\ m_next' = [m_next EXCEPT ![Head(free)] = Null]
    /\ wpc' = "pop"
    /\ UNCHANGED <<m_published, m_pd_reclaim_head, reclaim_i, readerVars,
                   batch, waiting, pushing>>

no_news ==
    /\ wpc = "poll"
    /\ wpc' = "pop"
    /\ UNCHANGED <<m_published, m_current, data, free, retired, reclaim_i,
                   stackVars, readerVars, rcuVars>>

(* One exchange takes the whole stack. *)
pop_all ==
    /\ wpc = "pop"
    /\ reclaim_i' = m_pd_reclaim_head
    /\ m_pd_reclaim_head' = Null
    /\ wpc' = "walk"
    /\ UNCHANGED <<m_published, m_current, data, free, retired, m_next,
                   readerVars, rcuVars>>

release_next ==
    /\ wpc = "walk" /\ reclaim_i # Null
    /\ free' = <<reclaim_i>> \o free
    /\ reclaim_i' = m_next[reclaim_i]
    /\ UNCHANGED <<m_published, m_current, data, retired, wpc, stackVars,
                   readerVars, rcuVars>>

walked ==
    /\ wpc = "walk" /\ reclaim_i = Null
    /\ wpc' = "quiesce"
    /\ UNCHANGED <<m_published, m_current, data, free, retired, reclaim_i,
                   stackVars, readerVars, rcuVars>>

writer_quiescent ==
    /\ wpc = "quiesce"
    /\ wpc' = "poll"
    /\ waiting' = waiting \ {Writer}
    /\ UNCHANGED <<m_published, m_current, data, free, retired, reclaim_i,
                   stackVars, readerVars, callbacks, batch, pushing>>

-----------------------------------------------------------------------------
(* The readers. *)

poll(r) ==
    /\ rpc[r] = "step"
    /\ reading' = [reading EXCEPT ![r] = m_published]
    /\ rpc' = [rpc EXCEPT ![r] = "read"]
    /\ UNCHANGED <<writerVars, stackVars, rcuVars>>

read_unlock(r) ==
    /\ rpc[r] = "read"
    /\ reading' = [reading EXCEPT ![r] = Null]
    /\ rpc' = [rpc EXCEPT ![r] = "quiesce"]
    /\ UNCHANGED <<writerVars, stackVars, rcuVars>>

reader_quiescent(r) ==
    /\ rpc[r] = "quiesce"
    /\ rpc' = [rpc EXCEPT ![r] = "step"]
    /\ waiting' = waiting \ {r}
    /\ UNCHANGED <<reading, writerVars, stackVars, callbacks, batch, pushing>>

-----------------------------------------------------------------------------
(* The callback thread. *)

(* It takes every callback queued so far; their grace period starts. *)
grace_begin ==
    /\ batch = <<>> /\ callbacks # <<>>
    /\ batch' = callbacks
    /\ callbacks' = <<>>
    /\ waiting' = Threads
    /\ UNCHANGED <<writerVars, stackVars, readerVars, pushing>>

(* release_poll_descriptor() on the next slot of a batch whose grace period
   is over: load the head into its link ... *)
push_load ==
    /\ batch # <<>> /\ waiting = {} /\ ~ pushing.loaded
    /\ m_next' = [m_next EXCEPT ![Head(batch)] = m_pd_reclaim_head]
    /\ pushing' = [loaded |-> TRUE, head |-> m_pd_reclaim_head]
    /\ UNCHANGED <<m_pd_reclaim_head, writerVars, readerVars, callbacks,
                   batch, waiting>>

(* ... and swing the head to it if the head is still what was loaded, ... *)
push_cas ==
    /\ pushing.loaded /\ m_pd_reclaim_head = pushing.head
    /\ m_pd_reclaim_head' = Head(batch)
    /\ batch' = Tail(batch)
    /\ pushing' = [loaded |-> FALSE, head |-> Null]
    /\ UNCHANGED <<m_next, writerVars, readerVars, callbacks, waiting>>

(* ... else the failed exchange leaves the new head in the link. *)
push_retry ==
    /\ pushing.loaded /\ m_pd_reclaim_head # pushing.head
    /\ m_next' = [m_next EXCEPT ![Head(batch)] = m_pd_reclaim_head]
    /\ pushing' = [pushing EXCEPT !.head = m_pd_reclaim_head]
    /\ UNCHANGED <<m_pd_reclaim_head, writerVars, readerVars, callbacks,
                   batch, waiting>>

callback == push_load \/ push_cas \/ push_retry

-----------------------------------------------------------------------------
writer_step ==
    \/ \E v \in Payload : publish(v)
    \/ retire \/ no_news \/ pop_all \/ release_next \/ walked
    \/ writer_quiescent
reader_step(r) == poll(r) \/ read_unlock(r) \/ reader_quiescent(r)
rcu_step == grace_begin \/ callback

Next == writer_step \/ (\E r \in Readers : reader_step(r)) \/ rcu_step

Spec == Init /\ [][Next]_vars

(* Every thread spins on its step (step_runnable); the library's thread runs
   the callbacks.  Fair keeps that apart from what news there is. *)
Fairness ==
    /\ WF_vars(writer_step)
    /\ \A r \in Readers : WF_vars(reader_step(r))
    /\ WF_vars(rcu_step)
FairSpec == Spec /\ Fairness

-----------------------------------------------------------------------------
(* The slots linked from s. *)
Linked(s) ==
    LET at[n \in 0..Cardinality(Slots)] ==
            IF n = 0 THEN s
            ELSE IF at[n - 1] = Null THEN Null ELSE m_next[at[n - 1]]
    IN  Range(at) \ {Null}

(* Where a slot can be.  The one filled next is spare; between publishing it
   and allocating its successor the writer has none. *)
Spare == IF wpc = "retire" THEN {} ELSE {m_current}
Places == << Range(free), {m_published}, Spare, {retired} \ {Null},
             Range(callbacks), Range(batch), Linked(m_pd_reclaim_head),
             Linked(reclaim_i) >>

(***************************************************************************)
(* Properties                                                              *)
(***************************************************************************)

TypeOK ==
    /\ m_published \in Slots /\ m_current \in Slots
    /\ data \in [Slots -> Payload]
    /\ free \in Seq(Slots)
    /\ retired \in SlotOrNull
    /\ wpc \in {"poll", "retire", "pop", "walk", "quiesce"}
    /\ m_pd_reclaim_head \in SlotOrNull
    /\ m_next \in [Slots -> SlotOrNull]
    /\ reclaim_i \in SlotOrNull
    /\ reading \in [Readers -> SlotOrNull]
    /\ rpc \in [Readers -> {"step", "read", "quiesce"}]
    /\ callbacks \in Seq(Slots) /\ batch \in Seq(Slots)
    /\ waiting \subseteq Threads
    /\ pushing \in [loaded : BOOLEAN, head : SlotOrNull]

(* A version that a reader polled and has not finished reading is neither
   back in the pool nor the one the writer fills next: what the reader reads
   stays what was published (poll() inside rcu_read_lock()/unlock()). *)
NoUseAfterReclaim ==
    \A r \in Readers :
        reading[r] # Null => reading[r] \notin Range(free) \cup Spare

(* The lock-free hand-over loses no slot and hands none over twice: a slot is
   in exactly one of the pool, the writer's hands, the callback thread's
   hands and the reclaim stack, however a push and a pop interleave.  With
   it m_published # m_current, which step() asserts. *)
SlotInOnePlace ==
    /\ UNION Range(Places) = Slots
    /\ \A i, j \in DOMAIN Places : i # j => Places[i] \cap Places[j] = {}
    /\ IsInjective(free) /\ IsInjective(callbacks) /\ IsInjective(batch)

(* Every superseded version comes back to the pool: no grace period, push or
   pop leaves one behind while the threads keep stepping. *)
SupersededIsReclaimed ==
    \A s \in Slots : retired = s ~> s \in Range(free)
=============================================================================

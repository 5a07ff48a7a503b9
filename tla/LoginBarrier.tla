------------------------------ MODULE LoginBarrier ------------------------------
(* The login of agents: each agent asks execution_link for it once; the link   *)
(* sends one login request into every partition when the last agent has asked, *)
(* and all agents see the venue's answers and run when all of theirs are in.   *)
(*                                                                             *)
(* The send side of execution_link is here as well: requests are polled, one   *)
(* of each agent in a step, and written into the send buffers of partitions,   *)
(* which are flushed as far as the sockets take the bytes, or else a heartbeat *)
(* is written when it is time for one.  A login request has two units of bytes *)
(* (so that a write may cut it), other frames one.                             *)
EXTENDS Integers, Sequences, FiniteSets, SequencesExt

CONSTANTS
    Ifcs,               \* 1..n: the agents, by ifc_index
    Parts,
    MaskOf,             \* [Ifcs -> SUBSET Parts]: m_partition_mask
    LoginQueueCapacity, \* request_buffer_capacity ()
    MaxOrders,          \* an agent's orders (a bound)
    MaxBeats,           \* a partition's heartbeats (a bound)
    Answers             \* the venue's, to a login: "A" (accepted), "J" (rejected)

ASSUME LoginAssumption ==
    /\ IsFiniteSet(Ifcs) /\ Ifcs = 1..Cardinality(Ifcs) /\ Ifcs # {}
    /\ "login" \notin Parts
    /\ MaskOf \in [Ifcs -> (SUBSET Parts) \ {{}}]
    /\ UNION {MaskOf[i] : i \in Ifcs} = Parts
    /\ LoginQueueCapacity \in Nat \ {0}
    /\ Answers \subseteq {"A", "J"}

VARIABLES
    state, m_login_pending_mask,    \* of each agent
    orders,             \* requests an agent has drawn
    m_request_queues,
    polled, tended,     \* ifcs polled, then partitions tended, in this step
    m_agent_login_count,
    m_credentials,      \* FALSE once they are dropped
    send_buffer,        \* [Parts -> units committed, not flushed]
    m_send_committed, m_send_flushed,
    sent,               \* [Parts -> units the socket took]
    v_read,             \* [Parts -> units the venue has read]
    answered,           \* [Parts -> the venue's answers]
    unread              \* [Ifcs -> [Parts -> answers an agent has not visited]]

lagent == <<state, m_login_pending_mask, orders>>
llink == <<polled, tended, m_agent_login_count, m_credentials, send_buffer,
           m_send_committed, m_send_flushed, sent>>
lvenue == <<v_read, answered>>
lvars == <<lagent, m_request_queues, llink, lvenue, unread>>

LoginInit ==
    /\ state = [i \in Ifcs |-> "start"]
    /\ m_login_pending_mask = [i \in Ifcs |-> {}]
    /\ orders = [i \in Ifcs |-> 0]
    /\ m_request_queues = [i \in Ifcs |-> <<>>]
    /\ polled = {} /\ tended = {} /\ m_agent_login_count = 0 /\ m_credentials = TRUE
    /\ send_buffer = [p \in Parts |-> <<>>]
    /\ m_send_committed = [p \in Parts |-> 0] /\ m_send_flushed = [p \in Parts |-> 0]
    /\ sent = [p \in Parts |-> <<>>]
    /\ v_read = [p \in Parts |-> 0] /\ answered = [p \in Parts |-> <<>>]
    /\ unread = [i \in Ifcs |-> [p \in Parts |-> <<>>]]

-------------------------------------------------------------------------------
(* execution_manager::update () and agent::step (): the answers are visited,   *)
(* then the agent's state machine takes a step.                                *)

Fresh(i) == {p \in MaskOf[i] : unread[i][p] # <<>>}
Visited(i) == unread' = [unread EXCEPT ![i] = [p \in Parts |->
                            IF p \in MaskOf[i] THEN <<>> ELSE @[p]]]

(* An answer nobody waits for, and a rejection, throw: the agent's task fails. *)
Throws(i) == \E p \in Fresh(i) : \/ p \notin m_login_pending_mask[i]
                                 \/ unread[i][p] # <<"A">>

Request(i, r) ==
    /\ Len(m_request_queues[i]) < LoginQueueCapacity
    /\ m_request_queues' = [m_request_queues EXCEPT ![i] = Append(@, r)]

visit_failed(i) ==
    /\ state[i] # "failed" /\ Throws(i)
    /\ state' = [state EXCEPT ![i] = "failed"]
    /\ Visited(i)
    /\ UNCHANGED <<m_login_pending_mask, orders, m_request_queues, llink, lvenue>>

login_transition(i) ==
    /\ state[i] \in {"start", "login_barrier"} /\ ~Throws(i)
    /\ Visited(i)
    /\ IF state[i] = "start"
       THEN /\ Request(i, "login")
            /\ m_login_pending_mask' = [m_login_pending_mask EXCEPT ![i] = MaskOf[i]]
            /\ state' = [state EXCEPT ![i] = "login_barrier"]
       ELSE LET rest == m_login_pending_mask[i] \ Fresh(i)
            IN  /\ m_login_pending_mask' = [m_login_pending_mask EXCEPT ![i] = rest]
                /\ state' = [state EXCEPT ![i] = IF rest = {} THEN "running" ELSE @]
                /\ UNCHANGED m_request_queues
    /\ UNCHANGED <<orders, llink, lvenue>>

(* A running agent's evaluate () may send an order, to a partition of its own. *)
evaluate(i, p) ==
    /\ state[i] = "running" /\ ~Throws(i)
    /\ Visited(i)
    /\ orders[i] < MaxOrders /\ p \in MaskOf[i]
    /\ orders' = [orders EXCEPT ![i] = @ + 1]
    /\ Request(i, p)
    /\ UNCHANGED <<state, m_login_pending_mask, llink, lvenue>>

-------------------------------------------------------------------------------
(* execution_link::step (): poll one ifc's queue, or tend one partition. *)

Poll(i) == /\ polled = 1..(i - 1)
           /\ polled' = 1..i /\ UNCHANGED tended
Tend(p) == /\ polled = Ifcs /\ p \notin tended
           /\ IF tended \cup {p} = Parts
              THEN polled' = {} /\ tended' = {}
              ELSE tended' = tended \cup {p} /\ UNCHANGED polled

poll_nothing(i) ==
    /\ Poll(i) /\ m_request_queues[i] = <<>>
    /\ UNCHANGED <<lagent, m_request_queues, m_agent_login_count, m_credentials,
                   send_buffer, m_send_committed, m_send_flushed, sent, lvenue, unread>>

Write(f) == /\ send_buffer' = [p \in Parts |-> send_buffer[p] \o f[p]]
            /\ m_send_committed' = [p \in Parts |-> m_send_committed[p] + Len(f[p])]

emit_login == Write([p \in Parts |-> <<<<"L", 1>>, <<"L", 2>>>>]) /\ m_credentials' = FALSE

(* Faulty variant, for mutation runs only: each agent's request is sent on. *)
start_login_Each(i) ==
    /\ Poll(i) /\ m_request_queues[i] # <<>> /\ Head(m_request_queues[i]) = "login"
    /\ m_request_queues' = [m_request_queues EXCEPT ![i] = Tail(@)]
    /\ m_agent_login_count' = m_agent_login_count + 1
    /\ emit_login
    /\ UNCHANGED <<lagent, m_send_flushed, sent, lvenue, unread>>

start_login(i) ==
    /\ Poll(i) /\ m_request_queues[i] # <<>> /\ Head(m_request_queues[i]) = "login"
    /\ m_request_queues' = [m_request_queues EXCEPT ![i] = Tail(@)]
    /\ m_agent_login_count' = m_agent_login_count + 1
    /\ IF m_agent_login_count' = Cardinality(Ifcs)
       THEN emit_login
       ELSE UNCHANGED <<m_credentials, send_buffer, m_send_committed>>
    /\ UNCHANGED <<lagent, m_send_flushed, sent, lvenue, unread>>

emit_order(i) ==
    /\ Poll(i) /\ m_request_queues[i] # <<>> /\ Head(m_request_queues[i]) # "login"
    /\ m_request_queues' = [m_request_queues EXCEPT ![i] = Tail(@)]
    /\ Write([p \in Parts |-> IF p = Head(m_request_queues[i]) THEN <<<<"U", i>>>> ELSE <<>>])
    /\ UNCHANGED <<lagent, m_agent_login_count, m_credentials, m_send_flushed, sent, lvenue, unread>>

(* Faulty variant, for mutation runs only: a short write counts as a whole one. *)
send_flush_Whole(p, rc) ==
    /\ Tend(p) /\ m_send_committed[p] > m_send_flushed[p]
    /\ sent' = [sent EXCEPT ![p] = @ \o SubSeq(send_buffer[p], 1, rc)]
    /\ send_buffer' = [send_buffer EXCEPT ![p] = SubSeq(@, rc + 1, Len(@))]
    /\ m_send_flushed' = [m_send_flushed EXCEPT ![p] = m_send_committed[p]]
    /\ UNCHANGED <<lagent, m_request_queues, m_agent_login_count, m_credentials, m_send_committed,
                   lvenue, unread>>

(* The socket takes some of the pending bytes, or none. *)
send_flush(p, rc) ==
    /\ Tend(p) /\ m_send_committed[p] > m_send_flushed[p]
    /\ rc \in 0..(m_send_committed[p] - m_send_flushed[p])
    /\ sent' = [sent EXCEPT ![p] = @ \o SubSeq(send_buffer[p], 1, rc)]
    /\ send_buffer' = [send_buffer EXCEPT ![p] = SubSeq(@, rc + 1, Len(@))]
    /\ m_send_flushed' = [m_send_flushed EXCEPT ![p] = @ + rc]
    /\ UNCHANGED <<lagent, m_request_queues, m_agent_login_count, m_credentials, m_send_committed,
                   lvenue, unread>>

Beats(p) == Cardinality({k \in DOMAIN (sent[p] \o send_buffer[p]) : (sent[p] \o send_buffer[p])[k] = <<"R">>})

emit_heartbeat(p) ==
    /\ Tend(p) /\ m_send_committed[p] = m_send_flushed[p]
    /\ Beats(p) < MaxBeats
    /\ Write([q \in Parts |-> IF q = p THEN <<<<"R">>>> ELSE <<>>])
    /\ UNCHANGED <<lagent, m_request_queues, m_agent_login_count, m_credentials, m_send_flushed, sent,
                   lvenue, unread>>

tend_nothing(p) ==
    /\ Tend(p) /\ m_send_committed[p] = m_send_flushed[p]
    /\ UNCHANGED <<lagent, m_request_queues, m_agent_login_count, m_credentials, send_buffer,
                   m_send_committed, m_send_flushed, sent, lvenue, unread>>

-------------------------------------------------------------------------------
(* The venue reads on and answers a login when it has the whole request; every *)
(* agent that visits the partition is to see the answer.                       *)
venue_answer(p, r) ==
    /\ v_read[p] < Len(sent[p])
    /\ v_read' = [v_read EXCEPT ![p] = @ + 1]
    /\ IF sent[p][v_read'[p]] = <<"L", 2>>
       THEN /\ answered' = [answered EXCEPT ![p] = Append(@, r)]
            /\ unread' = [i \in Ifcs |-> [unread[i] EXCEPT ![p] = Append(@, r)]]
       ELSE UNCHANGED <<answered, unread>>
    /\ UNCHANGED <<lagent, m_request_queues, llink>>

agent_step(i) == visit_failed(i) \/ login_transition(i) \/ \E p \in Parts : evaluate(i, p)
link_step == \/ \E i \in Ifcs : poll_nothing(i) \/ start_login(i) \/ emit_order(i)
             \/ \E p \in Parts : \/ \E rc \in 0..Len(send_buffer[p]) : send_flush(p, rc)
                                 \/ emit_heartbeat(p) \/ tend_nothing(p)
venue_step(p) == \E r \in Answers : venue_answer(p, r)

LoginNext == \/ \E i \in Ifcs : agent_step(i)
             \/ link_step
             \/ \E p \in Parts : venue_step(p)

(* Agents and the link step on threads of their own, the venue serves its      *)
(* connections, and a socket that is written to again and again takes bytes.   *)
LoginFairness ==
    /\ \A i \in Ifcs : WF_lvars(agent_step(i))
    /\ WF_lvars(link_step)
    /\ \A p \in Parts : /\ SF_lvars(\E rc \in 1..Len(send_buffer[p]) : send_flush(p, rc))
                        /\ WF_lvars(venue_step(p))

LoginSpec == LoginInit /\ [][LoginNext]_lvars /\ LoginFairness

-------------------------------------------------------------------------------
Stream(p) == sent[p] \o send_buffer[p]
Positions(p, u) == {k \in DOMAIN Stream(p) : Stream(p)[k] = u}

(* What goes down each connection: the login once, when all agents have asked  *)
(* for it, in one piece whatever the socket cut, and no order before the venue *)
(* has accepted it; the count of bytes to flush is that of bytes in the buffer.*)
(* An agent runs only when the venue has accepted it on every partition it     *)
(* trades, and no answer reaches an agent that does not wait for it.           *)
LoginOnceThenOrders ==
    /\ \A p \in Parts :
          LET logins == Positions(p, <<"L", 1>>)
          IN  /\ Cardinality(logins) = IF m_agent_login_count = Cardinality(Ifcs) THEN 1 ELSE 0
              /\ {k + 1 : k \in logins} = Positions(p, <<"L", 2>>)
              /\ m_send_committed[p] - m_send_flushed[p] = Len(send_buffer[p])
              /\ \A i \in Ifcs : Positions(p, <<"U", i>>) # {} => answered[p] = <<"A">>
    /\ \A i \in Ifcs :
          /\ state[i] = "running" => \A p \in MaskOf[i] : answered[p] = <<"A">>
          /\ state[i] = "failed" => \E p \in MaskOf[i] : "J" \in ToSet(answered[p])
          /\ state[i] = "start" => \A p \in MaskOf[i] : answered[p] = <<>>

(* Every agent gets to run, or one is refused. *)
EveryAgentRuns == <>(\/ \A i \in Ifcs : state[i] = "running"
                     \/ \E i \in Ifcs : state[i] = "failed")
===============================================================================

------------------------------ MODULE MockSessions ------------------------------
(* Client sessions of mock_ouch_server, in one partition: a listener thread    *)
(* accepts connections, the server's step evaluates the answers that are due,  *)
(* serves each session and now and then takes over accepted connections;       *)
(* stop() ends the listener and closes everything.  An answer is written in    *)
(* two portions, a step apart; a heartbeat goes through the same queue so that *)
(* it does not get between them.                                               *)
(*                                                                             *)
(* Times are relative to the clock.  A request arrives whole: how partial      *)
(* frames are read is the subject of ExecutionLinkReceive.  A client logs in   *)
(* once and sends orders after it is accepted, as execution_link does.         *)
EXTENDS Integers, Sequences, FiniteSets, SequencesExt

CONSTANTS
    Clients,            \* a set of numbers
    Delays,             \* of an answer: a set of numbers
    client_heartbeat_timeout, server_heartbeat_timeout,
    MaxRequests,        \* [Clients -> orders a client sends] (a bound)
    MaxBeats            \* a session's heartbeats that wait (a bound)

ASSUME SessionsAssumption ==
    /\ Clients \subseteq Nat /\ Delays \subseteq Nat /\ MaxRequests \in [Clients -> Nat] /\ MaxBeats \in Nat
    /\ server_heartbeat_timeout \in Nat \ {0}
    /\ client_heartbeat_timeout \in Nat \ {0}

VARIABLES
    place,          \* of a connection: none, m_accepted, m_sessions, or gone
    m_state, m_data_link,
    m_send_buffer,  \* units allocated in it and not flushed
    m_send_committed,   \* how many of them may go: committed, not flushed
    ts_last_recv, ts_last_send,     \* as ages
    m_action_queue,
    phase,          \* of the server's thread
    todo,           \* sessions left in this step
    m_stop_requested, listener,
    arrived, eof,   \* what the client sent and the session has not read
    last, accepted, asked, told \* the client: the last unit it got, and counts

sess == <<m_state, m_data_link, m_send_buffer, m_send_committed, ts_last_recv, ts_last_send>>
client == <<last, accepted, told>>
server == <<phase, todo>>
msvars == <<place, sess, m_action_queue, server, m_stop_requested, listener, arrived, eof,
            client, asked>>

SessionsInit ==
    /\ place = [s \in Clients |-> "none"]
    /\ m_state = [s \in Clients |-> "login"]
    /\ m_data_link = [s \in Clients |-> FALSE]
    /\ m_send_buffer = [s \in Clients |-> <<>>] /\ m_send_committed = [s \in Clients |-> 0]
    /\ ts_last_recv = [s \in Clients |-> 0]
    /\ ts_last_send = [s \in Clients |-> server_heartbeat_timeout]
    /\ m_action_queue = <<>>
    /\ phase = "idle" /\ todo = {}
    /\ m_stop_requested = FALSE /\ listener = "up"
    /\ arrived = [s \in Clients |-> <<>>] /\ eof = [s \in Clients |-> FALSE]
    /\ last = [s \in Clients |-> <<"H", 0, 2>>]
    /\ accepted = [s \in Clients |-> FALSE]
    /\ asked = [s \in Clients |-> 0] /\ told = [s \in Clients |-> 0]

-------------------------------------------------------------------------------
(* The environment: clients, and the clock. *)

connect(s) ==
    /\ place[s] = "none" /\ listener = "up"
    /\ place' = [place EXCEPT ![s] = "m_accepted"]
    /\ m_data_link' = [m_data_link EXCEPT ![s] = TRUE]
    /\ arrived' = [arrived EXCEPT ![s] = <<"L">>]
    /\ UNCHANGED <<m_state, m_send_buffer, m_send_committed, ts_last_recv, ts_last_send,
                   m_action_queue, server, m_stop_requested, listener, eof, client, asked>>

request(s) ==
    /\ accepted[s] /\ ~eof[s] /\ asked[s] < MaxRequests[s]
    /\ arrived' = [arrived EXCEPT ![s] = Append(@, "U")]
    /\ asked' = [asked EXCEPT ![s] = @ + 1]
    /\ UNCHANGED <<place, sess, m_action_queue, server, m_stop_requested, listener, eof, client>>

disconnect(s) ==
    /\ place[s] \notin {"none", "gone"} /\ ~eof[s]
    /\ eof' = [eof EXCEPT ![s] = TRUE]
    /\ UNCHANGED <<place, sess, m_action_queue, server, m_stop_requested, listener, arrived,
                   client, asked>>

Older(age, limit) == IF age < limit THEN age + 1 ELSE age

(* A step begins with a look at the clock, which may have moved. *)
begin_step(moved) ==
    /\ phase = "idle" /\ phase' = "queue"
    /\ IF moved
       THEN /\ ts_last_recv' = [s \in Clients |-> IF m_state[s] = "serving"
                    THEN Older(ts_last_recv[s], client_heartbeat_timeout) ELSE ts_last_recv[s]]
            /\ ts_last_send' = [s \in Clients |-> IF m_state[s] = "serving"
                    THEN Older(ts_last_send[s], server_heartbeat_timeout) ELSE ts_last_send[s]]
            /\ m_action_queue' = [k \in DOMAIN m_action_queue |->
                    [m_action_queue[k] EXCEPT !.due = IF @ > 0 THEN @ - 1 ELSE 0]]
       ELSE UNCHANGED <<ts_last_recv, ts_last_send, m_action_queue>>
    /\ UNCHANGED <<place, m_state, m_data_link, m_send_buffer, m_send_committed, todo,
                   m_stop_requested, listener, arrived, eof, client, asked>>

-------------------------------------------------------------------------------
(* The first part of a step: answers that are due. *)

Frame(e) == IF e.type = "H" THEN <<<<"H", 0, 2>>>> ELSE <<<<e.type, e.n, 1>>, <<e.type, e.n, 2>>>>

(* send_allocate () for a whole frame, of which so many units may go. *)
Allocate(s, f, n) ==
    /\ m_send_buffer' = [m_send_buffer EXCEPT ![s] = @ \o f]
    /\ m_send_committed' = [m_send_committed EXCEPT ![s] = @ + n]

First == Head(m_action_queue)
Dequeue == m_action_queue' = Tail(m_action_queue)
Evaluating == phase = "queue" /\ m_action_queue # <<>> /\ First.due = 0
Rest == UNCHANGED <<place, m_data_link, ts_last_recv, ts_last_send, m_stop_requested, listener,
                    arrived, eof, client, asked>>
ToSessions == phase' = "io" /\ todo' = {s \in Clients : place[s] = "m_sessions"}

(* ouch_heartbeat::evaluate () looks at nothing. *)
evaluate_heartbeat ==
    /\ Evaluating /\ First.type = "H"
    /\ Dequeue
    /\ IF m_data_link[First.s]
       THEN Allocate(First.s, Frame(First), 1) /\ UNCHANGED phase
       ELSE phase' = "crashed" /\ UNCHANGED <<m_send_buffer, m_send_committed>>
    /\ UNCHANGED <<m_state, todo>> /\ Rest

Disabled(s) == m_state[s] \in {"closing", "closed"}

(* The first portion: the step's evaluations end with it. *)
evaluate_first ==
    /\ Evaluating /\ First.type # "H" /\ ~Disabled(First.s) /\ First.step = 0
    /\ IF m_data_link[First.s]
       THEN /\ Allocate(First.s, Frame(First), 1)
            /\ m_action_queue' = [m_action_queue EXCEPT ![1].step = 1]
            /\ ToSessions
       ELSE /\ phase' = "crashed"
            /\ UNCHANGED <<m_send_buffer, m_send_committed, m_action_queue, todo>>
    /\ UNCHANGED m_state /\ Rest

(* Faulty variant, for mutation runs only: the last portion is not committed.  *)
evaluate_last_Short ==
    /\ Evaluating /\ First.type # "H" /\ (Disabled(First.s) \/ First.step = 1)
    /\ Dequeue
    /\ m_state' = IF First.type = "L" THEN [m_state EXCEPT ![First.s] = "serving"] ELSE m_state
    /\ UNCHANGED <<m_send_buffer, m_send_committed>>
    /\ UNCHANGED server /\ Rest

(* The last portion, or nothing in a session that is being closed; for the     *)
(* answer to a login the session's state is set either way.                    *)
evaluate_last ==
    /\ Evaluating /\ First.type # "H" /\ (Disabled(First.s) \/ First.step = 1)
    /\ Dequeue
    /\ m_state' = IF First.type = "L" THEN [m_state EXCEPT ![First.s] = "serving"] ELSE m_state
    /\ IF Disabled(First.s)
       THEN UNCHANGED <<m_send_buffer, m_send_committed>>
       ELSE Allocate(First.s, <<>>, 1)
    /\ UNCHANGED server /\ Rest

evaluate_none ==
    /\ phase = "queue" /\ ~Evaluating
    /\ ToSessions
    /\ UNCHANGED <<m_state, m_send_buffer, m_send_committed, m_action_queue>> /\ Rest

-------------------------------------------------------------------------------
(* The second part: the I/O of a session; a map has its own order of sessions. *)

Serving(s) == phase = "io" /\ s \in todo /\ (\A r \in todo : s <= r) /\ todo' = todo \ {s}

skip_closed(s) ==
    /\ Serving(s) /\ m_state[s] = "closed"
    /\ UNCHANGED <<place, sess, m_action_queue, phase, m_stop_requested, listener,
                   arrived, eof, client, asked>>

io_null(s) ==
    /\ Serving(s) /\ m_state[s] # "closed" /\ ~m_data_link[s]
    /\ phase' = "crashed"
    /\ UNCHANGED <<place, sess, m_action_queue, m_stop_requested, listener,
                   arrived, eof, client, asked>>

(* close_client_session (); what the buffer holds is gone with the link. *)
Close(s) ==
    /\ m_state' = [m_state EXCEPT ![s] = "closed"]
    /\ m_data_link' = [m_data_link EXCEPT ![s] = FALSE]
    /\ m_send_buffer' = [m_send_buffer EXCEPT ![s] = <<>>]
    /\ m_send_committed' = [m_send_committed EXCEPT ![s] = 0]
    /\ ts_last_recv' = [ts_last_recv EXCEPT ![s] = 0]
    /\ ts_last_send' = [ts_last_send EXCEPT ![s] = 0]

io_eof(s) ==
    /\ Serving(s) /\ m_state[s] # "closed" /\ m_data_link[s]
    /\ arrived[s] = <<>> /\ eof[s]
    /\ Close(s)
    /\ UNCHANGED <<place, m_action_queue, phase, m_stop_requested, listener,
                   arrived, eof, client, asked>>

(* Faulty variant, for mutation runs only: it goes before those of its time.   *)
Enqueue_Before(q, e) == InsertAt(q, Cardinality({k \in DOMAIN q : q[k].due < e.due}) + 1, e)

(* The queue keeps the order of times; an event goes after those of its time.  *)
Enqueue(q, e) == InsertAt(q, Cardinality({k \in DOMAIN q : q[k].due <= e.due}) + 1, e)

Event(s, type, n, due) == [s |-> s, type |-> type, n |-> n, due |-> due, step |-> 0]

(* request_handler::consume (): an answer to each request, with its own delay. *)
Answer(s, k, due) ==
    Event(s, arrived[s][k], IF arrived[s][k] = "L" THEN 0 ELSE asked[s] - Len(arrived[s]) + k, due)
Consumed(s, q, ds) ==
    LET after[k \in 0..Len(arrived[s])] ==
            IF k = 0 THEN q ELSE Enqueue(after[k - 1], Answer(s, k, ds[k]))
    IN  after[Len(arrived[s])]
DelaysOf(s) == [1..Len(arrived[s]) -> Delays]

Beats(s, q) == Cardinality({k \in DOMAIN q : q[k].s = s /\ q[k].type = "H"})
             + Cardinality({k \in DOMAIN m_send_buffer[s] : m_send_buffer[s][k][1] = "H"})

(* The last units of answers to orders in a sequence of units. *)
Answered(out) == {k \in DOMAIN out : out[k][1] = "U" /\ out[k][3] = 2}

(* Requests and the client's heartbeats, which nobody answers, then pending    *)
(* bytes, then the time-outs of both sides.                                    *)
io(s, ds, rc, beat) ==
    /\ Serving(s) /\ m_state[s] # "closed" /\ m_data_link[s]
    /\ ~(arrived[s] = <<>> /\ eof[s])
    /\ ~(m_state[s] = "closing" /\ m_send_committed[s] = 0)
    /\ rc <= m_send_committed[s] /\ (beat => ~eof[s] /\ m_state[s] = "serving")
    /\ LET q == Consumed(s, m_action_queue, ds)
           recv == IF arrived[s] # <<>> \/ beat THEN 0 ELSE ts_last_recv[s]
           send == IF rc > 0 THEN 0 ELSE ts_last_send[s]
           out == SubSeq(m_send_buffer[s], 1, rc)
           silent == m_state[s] = "serving" /\ recv >= client_heartbeat_timeout
           quiet == m_state[s] = "serving" /\ ~silent /\ send >= server_heartbeat_timeout
       IN  /\ ts_last_recv' = [ts_last_recv EXCEPT ![s] = recv]
           /\ ts_last_send' = [ts_last_send EXCEPT ![s] = send]
           /\ m_send_buffer' = [m_send_buffer EXCEPT ![s] = SubSeq(@, rc + 1, Len(@))]
           /\ m_send_committed' = [m_send_committed EXCEPT ![s] = @ - rc]
           /\ last' = IF rc > 0 THEN [last EXCEPT ![s] = out[rc]] ELSE last
           /\ accepted' = [accepted EXCEPT ![s] = @ \/ <<"L", 0, 2>> \in ToSet(out)]
           /\ told' = [told EXCEPT ![s] = @ + Cardinality(Answered(out))]
           /\ m_state' = IF silent THEN [m_state EXCEPT ![s] = "closing"] ELSE m_state
           /\ m_action_queue' = IF quiet /\ Beats(s, q) < MaxBeats
                                THEN Enqueue(q, Event(s, "H", 0, 0)) ELSE q
    /\ arrived' = [arrived EXCEPT ![s] = <<>>]
    /\ UNCHANGED <<place, m_data_link, phase, m_stop_requested, listener, eof, asked>>

io_close(s, ds) ==
    /\ Serving(s) /\ m_state[s] = "closing" /\ m_data_link[s] /\ m_send_committed[s] = 0
    /\ ~(arrived[s] = <<>> /\ eof[s])
    /\ Close(s)
    /\ m_action_queue' = Consumed(s, m_action_queue, ds)
    /\ arrived' = [arrived EXCEPT ![s] = <<>>]
    /\ UNCHANGED <<place, phase, m_stop_requested, listener, eof, client, asked>>

(* The end of a step: every so often accepted connections become sessions.     *)
Taken(take) == place' = [s \in Clients |->
                  IF take /\ place[s] = "m_accepted" THEN "m_sessions" ELSE place[s]]

end_step(take) ==
    /\ phase = "io" /\ todo = {}
    /\ phase' = "idle"
    /\ Taken(take)
    /\ UNCHANGED <<sess, m_action_queue, todo, m_stop_requested, listener,
                   arrived, eof, client, asked>>

-------------------------------------------------------------------------------
(* stop (), after the last step: the listener is asked to end and joined.      *)
stop ==
    /\ phase = "idle" /\ ~m_stop_requested
    /\ m_stop_requested' = TRUE /\ phase' = "join"
    /\ UNCHANGED <<place, sess, m_action_queue, todo, listener, arrived, eof,
                   client, asked>>

Drop(S) ==
    /\ place' = [s \in Clients |-> IF s \in S THEN "gone" ELSE place[s]]
    /\ m_state' = [s \in Clients |-> IF s \in S THEN "closed" ELSE m_state[s]]
    /\ m_data_link' = [s \in Clients |-> m_data_link[s] /\ s \notin S]

listener_end ==
    /\ listener = "up" /\ m_stop_requested
    /\ listener' = "down"
    /\ Drop({s \in Clients : place[s] = "m_accepted"})
    /\ UNCHANGED <<m_send_buffer, m_send_committed, ts_last_recv, ts_last_send, m_action_queue,
                   server, m_stop_requested, arrived, eof, client, asked>>

(* Faulty variant, for mutation runs only: sessions are closed, then the        *)
(* listener is joined.                                                          *)
stop_sessions_NoJoin ==
    /\ phase = "join"
    /\ phase' = "stopped"
    /\ Drop({s \in Clients : place[s] = "m_sessions"})
    /\ UNCHANGED <<m_send_buffer, m_send_committed, ts_last_recv, ts_last_send, m_action_queue,
                   todo, m_stop_requested, listener, arrived, eof, client, asked>>

stop_sessions ==
    /\ phase = "join" /\ listener = "down"
    /\ phase' = "stopped"
    /\ Drop({s \in Clients : place[s] = "m_sessions"})
    /\ UNCHANGED <<m_send_buffer, m_send_committed, ts_last_recv, ts_last_send, m_action_queue,
                   todo, m_stop_requested, listener, arrived, eof, client, asked>>

-------------------------------------------------------------------------------
evaluate == evaluate_heartbeat \/ evaluate_first \/ evaluate_last \/ evaluate_none
serve(s) == skip_closed(s) \/ io_null(s) \/ io_eof(s)
            \/ \E ds \in DelaysOf(s) : \/ io_close(s, ds)
                                      \/ \E rc \in 0..m_send_committed[s], beat \in BOOLEAN :
                                            io(s, ds, rc, beat)

SessionsNext ==
    \/ \E b \in BOOLEAN : begin_step(b) \/ end_step(b)
    \/ evaluate
    \/ \E s \in Clients : connect(s) \/ request(s) \/ disconnect(s) \/ serve(s)
    \/ stop \/ listener_end \/ stop_sessions

(* The server and the listener run, the clock goes on, accepted connections    *)
(* are looked at now and then, and a socket that is written to takes bytes.    *)
SessionsFairness ==
    /\ WF_msvars(evaluate) /\ WF_msvars(\E s \in Clients : serve(s))
    /\ WF_msvars(\E b \in BOOLEAN : begin_step(b) \/ end_step(b))
    /\ SF_msvars(begin_step(TRUE)) /\ SF_msvars(end_step(TRUE))
    /\ WF_msvars(listener_end) /\ WF_msvars(stop_sessions)
    /\ \A s \in Clients : SF_msvars(\E ds \in DelaysOf(s), beat \in BOOLEAN :
                                    \E rc \in 1..m_send_committed[s] : io(s, ds, rc, beat))

SessionsSpec == SessionsInit /\ [][SessionsNext]_msvars /\ SessionsFairness

-------------------------------------------------------------------------------
Outgoing(s) == <<last[s]>> \o SubSeq(m_send_buffer[s], 1, m_send_committed[s])
Half(s) == \E k \in DOMAIN m_action_queue : m_action_queue[k].s = s /\ m_action_queue[k].step = 1
Queued(s) == {k \in DOMAIN m_action_queue : m_action_queue[k].s = s /\ m_action_queue[k].type = "U"}

(* A client gets whole frames: the halves of an answer follow each other with  *)
(* nothing between them, and an answer that lacks its other half is the one    *)
(* being written, at the head of the queue, or its session closes.  What is    *)
(* committed is in the buffer, with at most the rest of that answer behind it. *)
(* Every request is answered once, unless its session closes.                  *)
WholeAnswersOnce == \A s \in Clients :
    LET out == Outgoing(s)
        unread == Cardinality({k \in DOMAIN arrived[s] : arrived[s][k] = "U"})
        written == Cardinality(Answered(Tail(out)))
        rest == Len(m_send_buffer[s]) - m_send_committed[s]
    IN  /\ \A k \in 1..(Len(out) - 1) :
              out[k][3] = 1 <=> out[k + 1][1] # "H" /\ out[k + 1] = <<out[k][1], out[k][2], 2>>
        /\ ~Disabled(s) => /\ rest = (IF Half(s) THEN 1 ELSE 0)
                           /\ out[Len(out)][3] = 1 <=> Half(s)
                           /\ Half(s) => First.s = s /\ First.step = 1
        /\ m_state[s] = "serving" /\ m_data_link[s] =>
              asked[s] = unread + Cardinality(Queued(s)) + written + told[s]

(* After stop() no connection is left, wherever it was when stop() came. *)
NothingConnected == phase = "stopped" => \A s \in Clients : ~m_data_link[s]

(* A request is answered, or its session ends, whatever the order of answers   *)
(* and heartbeats and however little the socket takes at a time; and a session *)
(* that is closing closes.                                                     *)
ServedOrClosed == \A s \in Clients :
    asked[s] > told[s] \/ m_state[s] = "closing"
        ~> \/ m_state[s] = "closed" \/ phase \in {"crashed", "stopped"}
           \/ asked[s] = told[s] /\ m_state[s] # "closing"

(* mock_ouch_server.cpp:250 asserts a link in every session not closed. *)
OpenHasLink == \A s \in Clients :
    place[s] = "m_sessions" /\ m_state[s] # "closed" => m_data_link[s]
===============================================================================

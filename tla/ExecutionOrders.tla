-------------------------- MODULE ExecutionOrders --------------------------
(***************************************************************************)
(* The life of orders: execution_manager in every agent creates an order   *)
(* in its execution_order_book, sends requests through its queue to        *)
(* execution_link, which puts them on the wire of a partition; the venue,  *)
(* as scripted_handler of the mock server plays it, answers each request   *)
(* after a random time; every agent sees the answers to all of them and    *)
(* execution_listener moves its own orders through their states.           *)
(*                                                                         *)
(* A series is an instrument and a side.  A token is an agent's prefix and *)
(* a count.  What execution_link does to the received bytes is the subject *)
(* of ExecutionLinkReceive; here a message sent is in every agent's inbox. *)
(***************************************************************************)
EXTENDS Integers, Sequences, FiniteSets, SequencesExt

CONSTANTS
    Agents, Series, Partitions,
    PartitionOf,        \* [Series -> Partitions]
    Trades,             \* [Agents -> the series an agent trades]
    Prices,
    Slots,              \* of each agent's order pool (a bound)
    MaxTokens,          \* [Agents -> how many tokens it draws] (a bound)
    QueueCapacity,      \* request_buffer_capacity ()
    Amendable,          \* [Agents -> the states in which it amends an order]
    Scenarios,          \* the mock server's answers to submissions
    AcceptStates,       \* of an accepted order; the mock server's are LIVE
    Null

Token == UNION {{a} \X (1..MaxTokens[a]) : a \in Agents}
order_state == {"ERROR", "created", "live", "done"}
pending == {"submit", "replace", "cancel", "finalize"}
PartitionMask(a) == {PartitionOf[s] : s \in Trades[a]}

(* An order in an agent's book, and at the venue. *)
AgentOrders == [otk : Token, oid : Nat, series : Series, price : Prices,
                os : order_state, ps : SUBSET pending, otk_trace : Seq(Token)]
VenueOrders == [series : Series, oid : Nat, state : {"LIVE", "NOT_ON_BOOK", "GONE"},
                price : Prices]

ASSUME OrdersAssumption ==
    /\ IsFiniteSet(Agents)
    /\ Null \notin Slots /\ Null \notin Token
    /\ Null \notin AgentOrders /\ Null \notin VenueOrders
    /\ PartitionOf \in [Series -> Partitions]
    /\ Trades \in [Agents -> SUBSET Series]
    /\ MaxTokens \in [Agents -> Nat \ {0}] /\ QueueCapacity \in Nat \ {0}
    /\ Amendable \in [Agents -> SUBSET (order_state \X SUBSET pending)]
    /\ Scenarios \subseteq {"accept", "reject"}
    /\ AcceptStates \subseteq {"LIVE", "NOT_ON_BOOK"}

VARIABLES
    book,           \* [Agents -> [Slots -> order or Null]]: the pool
    m_otk_map, m_oid_map,       \* of each book: token or oid -> slot or Null
    m_otk_counter,
    queue,          \* [Agents -> requests not dequeued yet]
    wire,           \* [Partitions -> requests the venue has not read yet]
    v_order,        \* the venue's orders, by the token of their submission
    v_otk_map,      \* the venue's tokens: that of the submission, or Null
    m_oid_gen,      \* [Series -> oids drawn]
    action_queue,   \* [Partitions -> answers not due yet]
    inbox           \* [Agents -> [Partitions -> answers not consumed yet]]

agentVars == <<book, m_otk_map, m_oid_map, m_otk_counter>>
venueVars == <<v_order, v_otk_map, m_oid_gen, action_queue>>
vars == <<agentVars, queue, wire, venueVars, inbox>>

Oid == 1..Cardinality(Token)

Init ==
    /\ book = [a \in Agents |-> [s \in Slots |-> Null]]
    /\ m_otk_map = [a \in Agents |-> [t \in Token |-> Null]]
    /\ m_oid_map = [a \in Agents |-> [i \in Oid |-> Null]]
    /\ m_otk_counter = [a \in Agents |-> 0]
    /\ queue = [a \in Agents |-> <<>>]
    /\ wire = [p \in Partitions |-> <<>>]
    /\ v_order = [t \in Token |-> Null]
    /\ v_otk_map = [t \in Token |-> Null]
    /\ m_oid_gen = [x \in Series |-> 0]
    /\ action_queue = [p \in Partitions |-> <<>>]
    /\ inbox = [a \in Agents |-> [p \in Partitions |-> <<>>]]

Entry(a, s) == book[a][s] # Null
Tokens(o) == {o.otk} \cup ToSet(o.otk_trace)
Partition(o) == PartitionOf[o.series]

-----------------------------------------------------------------------------
(* execution_manager: requests of agent a. *)

HasToken(a) == m_otk_counter[a] < MaxTokens[a]
otk_gen(a) == <<a, m_otk_counter[a] + 1>>
DrawToken(a) == m_otk_counter' = [m_otk_counter EXCEPT ![a] = @ + 1]

(* try_enqueue () in a loop: the agent waits while its queue is full. *)
enqueue(a, req) ==
    /\ Len(queue[a]) < QueueCapacity
    /\ queue' = [queue EXCEPT ![a] = Append(@, req)]

submit_unmarked(a, s, x, price) ==
    /\ HasToken(a) /\ ~ Entry(a, s) /\ x \in Trades[a]
    /\ DrawToken(a)
    /\ book' = [book EXCEPT ![a][s] =
            [otk |-> otk_gen(a), oid |-> 0, series |-> x, price |-> price,
             os |-> "created", ps |-> {}, otk_trace |-> <<>>]]
    /\ m_otk_map' = [m_otk_map EXCEPT ![a][otk_gen(a)] = s]
    /\ enqueue(a, [type |-> "submit", otk |-> otk_gen(a), new_otk |-> Null,
                   series |-> x, price |-> price])
    /\ UNCHANGED <<m_oid_map, wire, venueVars, inbox>>

submit_order(a, s, x, price) ==
    /\ HasToken(a) /\ ~ Entry(a, s) /\ x \in Trades[a]
    /\ DrawToken(a)
    /\ book' = [book EXCEPT ![a][s] =
            [otk |-> otk_gen(a), oid |-> 0, series |-> x, price |-> price,
             os |-> "created", ps |-> {"submit"}, otk_trace |-> <<>>]]
    /\ m_otk_map' = [m_otk_map EXCEPT ![a][otk_gen(a)] = s]
    /\ enqueue(a, [type |-> "submit", otk |-> otk_gen(a), new_otk |-> Null,
                   series |-> x, price |-> price])
    /\ UNCHANGED <<m_oid_map, wire, venueVars, inbox>>

(* The code leaves it to the agent to amend an order only when that makes
   sense. *)
MayAmend(a, s) == Entry(a, s) /\ <<book[a][s].os, book[a][s].ps>> \in Amendable[a]

modify_order(a, s, price) ==
    /\ HasToken(a) /\ MayAmend(a, s)
    /\ DrawToken(a)
    /\ book' = [book EXCEPT ![a][s].otk_trace = Append(@, otk_gen(a)),
                            ![a][s].ps = @ \cup {"replace"}]
    /\ m_otk_map' = [m_otk_map EXCEPT ![a][otk_gen(a)] = s]
    /\ enqueue(a, [type |-> "replace", otk |-> book[a][s].otk,
                   new_otk |-> otk_gen(a),
                   series |-> book[a][s].series, price |-> price])
    /\ UNCHANGED <<m_oid_map, wire, venueVars, inbox>>

cancel_order(a, s) ==
    /\ MayAmend(a, s)
    /\ book' = [book EXCEPT ![a][s].ps = @ \cup {"cancel"}]
    /\ enqueue(a, [type |-> "cancel", otk |-> book[a][s].otk, new_otk |-> Null,
                   series |-> book[a][s].series, price |-> book[a][s].price])
    /\ UNCHANGED <<m_otk_map, m_oid_map, m_otk_counter, wire, venueVars, inbox>>

(* Faulty variants, for mutation runs only: the aliases stay mapped; what is
   pending is not looked at. *)
erase_current(a, s) ==
    /\ Entry(a, s)
    /\ book[a][s].ps = {} /\ book[a][s].os # "live"
    /\ m_oid_map' = [m_oid_map EXCEPT ![a] =
            [i \in Oid |-> IF i = book[a][s].oid THEN Null ELSE @[i]]]
    /\ m_otk_map' = [m_otk_map EXCEPT ![a][book[a][s].otk] = Null]
    /\ book' = [book EXCEPT ![a][s] = Null]
    /\ UNCHANGED <<m_otk_counter, queue, wire, venueVars, inbox>>

erase_any(a, s) ==
    /\ Entry(a, s) /\ book[a][s].os # "live"
    /\ m_oid_map' = [m_oid_map EXCEPT ![a] =
            [i \in Oid |-> IF i = book[a][s].oid THEN Null ELSE @[i]]]
    /\ m_otk_map' = [m_otk_map EXCEPT ![a] =
            [t \in Token |-> IF t \in Tokens(book[a][s]) THEN Null ELSE @[t]]]
    /\ book' = [book EXCEPT ![a][s] = Null]
    /\ UNCHANGED <<m_otk_counter, queue, wire, venueVars, inbox>>

(* Nothing is pending and the order is not live, else erase_order () throws
   before it changes anything. *)
erase_order(a, s) ==
    /\ Entry(a, s)
    /\ book[a][s].ps = {} /\ book[a][s].os # "live"
    /\ m_oid_map' = [m_oid_map EXCEPT ![a] =
            [i \in Oid |-> IF i = book[a][s].oid THEN Null ELSE @[i]]]
    /\ m_otk_map' = [m_otk_map EXCEPT ![a] =
            [t \in Token |-> IF t \in Tokens(book[a][s]) THEN Null ELSE @[t]]]
    /\ book' = [book EXCEPT ![a][s] = Null]
    /\ UNCHANGED <<m_otk_counter, queue, wire, venueVars, inbox>>

-----------------------------------------------------------------------------
(* execution_link: requests are dequeued one at a time and emitted on the
   wire of their instrument's partition. *)

emit(a) ==
    /\ queue[a] # <<>>
    /\ wire' = [wire EXCEPT ![PartitionOf[Head(queue[a]).series]] =
                        Append(@, Head(queue[a]))]
    /\ queue' = [queue EXCEPT ![a] = Tail(@)]
    /\ UNCHANGED <<agentVars, venueVars, inbox>>

-----------------------------------------------------------------------------
(* scripted_handler: the venue of partition p reads a request and schedules
   the answer. *)

Reads(p, type) == wire[p] # <<>> /\ Head(wire[p]).type = type
Read(p) == wire' = [wire EXCEPT ![p] = Tail(@)]
Schedule(p, m) == action_queue' = [action_queue EXCEPT ![p] = Append(@, m)]

Answer(type, otk, o) == [type |-> type, otk |-> otk, oid |-> o.oid,
                         state |-> o.state, price |-> o.price]
Home(p) == v_otk_map[Head(wire[p]).otk]

accept(p, state) ==
    /\ Reads(p, "submit") /\ "accept" \in Scenarios /\ state \in AcceptStates
    /\ LET r == Head(wire[p])
           o == [series |-> r.series, oid |-> m_oid_gen[r.series] + 1,
                 state |-> state, price |-> r.price]
       IN  /\ m_oid_gen' = [m_oid_gen EXCEPT ![r.series] = o.oid]
           /\ v_order' = [v_order EXCEPT ![r.otk] = o]
           /\ v_otk_map' = [v_otk_map EXCEPT ![r.otk] = r.otk]
           /\ Schedule(p, Answer("accepted", r.otk, o))
    /\ Read(p)
    /\ UNCHANGED <<agentVars, queue, inbox>>

Rejected(p) == [type |-> "rejected", otk |-> Head(wire[p]).otk, oid |-> 0,
                state |-> "LIVE", price |-> Head(wire[p]).price]

reject(p) ==
    /\ Reads(p, "submit") /\ "reject" \in Scenarios
    /\ Schedule(p, Rejected(p))
    /\ Read(p)
    /\ UNCHANGED <<agentVars, queue, v_order, v_otk_map, m_oid_gen, inbox>>

replace(p) ==
    /\ Reads(p, "replace") /\ Home(p) # Null
    /\ LET r == Head(wire[p])
       IN  /\ v_order' = [v_order EXCEPT ![Home(p)].price = r.price]
           /\ v_otk_map' = [v_otk_map EXCEPT ![r.new_otk] = Home(p)]
           /\ Schedule(p, Answer("replaced", r.otk, v_order'[Home(p)]))
    /\ Read(p)
    /\ UNCHANGED <<agentVars, queue, m_oid_gen, inbox>>

cancel(p) ==
    /\ Reads(p, "cancel") /\ Home(p) # Null
    /\ Schedule(p, Answer("canceled", Head(wire[p]).otk, v_order[Home(p)]))
    /\ Read(p)
    /\ UNCHANGED <<agentVars, queue, v_order, v_otk_map, m_oid_gen, inbox>>

(* A token the venue does not know; the mock server would throw. *)
reject_unknown(p) ==
    /\ Reads(p, "replace") \/ Reads(p, "cancel")
    /\ Home(p) = Null
    /\ Schedule(p, Rejected(p))
    /\ Read(p)
    /\ UNCHANGED <<agentVars, queue, v_order, v_otk_map, m_oid_gen, inbox>>

(* Answers fall due in any order; whoever trades the partition sees them. *)
evaluate(p) ==
    /\ \E i \in DOMAIN action_queue[p] :
        /\ inbox' = [a \in Agents |-> IF p \in PartitionMask(a)
                THEN [inbox[a] EXCEPT ![p] = Append(@, action_queue[p][i])]
                ELSE inbox[a]]
        /\ action_queue' = [action_queue EXCEPT ![p] = RemoveAt(@, i)]
    /\ UNCHANGED <<agentVars, queue, wire, v_order, v_otk_map, m_oid_gen>>

(* An order accepted off the book is cancelled next; the mock server leaves
   that out. *)
follow_up(p, t) ==
    /\ v_order[t] # Null
    /\ v_order[t].state = "NOT_ON_BOOK" /\ PartitionOf[v_order[t].series] = p
    /\ \A i \in DOMAIN action_queue[p] : action_queue[p][i].otk # t
    /\ v_order' = [v_order EXCEPT ![t].state = "GONE"]
    /\ Schedule(p, Answer("canceled", t, v_order[t]))
    /\ UNCHANGED <<agentVars, queue, wire, v_otk_map, m_oid_gen, inbox>>

venue(p) == \/ \E state \in AcceptStates : accept(p, state)
            \/ reject(p) \/ reject_unknown(p) \/ replace(p) \/ cancel(p) \/ evaluate(p)
            \/ \E t \in Token : follow_up(p, t)

-----------------------------------------------------------------------------
(* execution_listener in agent a: the first message of partition p.  Orders
   are looked up by token, those replaced or canceled by the venue's id. *)

Consumes(a, p, type) == inbox[a][p] # <<>> /\ Head(inbox[a][p]).type = type
Consume(a, p) ==
    /\ inbox' = [inbox EXCEPT ![a][p] = Tail(@)]
    /\ UNCHANGED <<m_otk_counter, queue, wire, venueVars>>

ByToken == {"accepted", "rejected"}

Found(a, m) == IF m.type \in ByToken THEN m_otk_map[a][m.otk]
                                     ELSE m_oid_map[a][m.oid]

transition(a, s, os, ps) ==
    book' = [book EXCEPT ![a][s].os = os, ![a][s].ps = ps]

(* The states in which a message about order o is expected. *)
Expected(o, m) ==
    \/ m.type = "accepted" /\ o.os = "created" /\ o.ps = {"submit"}
    \/ m.type = "rejected" /\ o.os = "created" /\ o.ps = {"submit"}
    \/ m.type = "rejected" /\ o.os = "live" /\ o.ps \in {{"replace"}, {"cancel"}}
    \/ m.type \in {"replaced", "canceled"} /\ o.os = "live"

(* The venue's id is recorded whether or not the order is on its book. *)
order_accepted(a, p) ==
    /\ Consumes(a, p, "accepted")
    /\ LET m == Head(inbox[a][p])
           s == Found(a, m)
       IN  /\ s # Null /\ Expected(book[a][s], m)
           /\ m_oid_map' = [m_oid_map EXCEPT ![a][m.oid] = s]
           /\ book' = [book EXCEPT
                ![a][s].oid = m.oid,
                ![a][s].os = IF m.state = "LIVE" THEN "live" ELSE "done",
                ![a][s].ps = IF m.state = "LIVE" THEN {} ELSE {"finalize"}]
    /\ Consume(a, p) /\ UNCHANGED m_otk_map

(* Faulty variant, for mutation runs only: what was pending stays so. *)
order_rejected_kept(a, p) ==
    /\ Consumes(a, p, "rejected")
    /\ LET s == Found(a, Head(inbox[a][p]))
       IN  /\ s # Null /\ Expected(book[a][s], Head(inbox[a][p]))
           /\ transition(a, s, IF book[a][s].os = "created" THEN "done" ELSE "live",
                         book[a][s].ps)
    /\ Consume(a, p) /\ UNCHANGED <<m_otk_map, m_oid_map>>

order_rejected(a, p) ==
    /\ Consumes(a, p, "rejected")
    /\ LET m == Head(inbox[a][p])
           s == Found(a, m)
       IN  /\ s # Null /\ Expected(book[a][s], m)
           /\ transition(a, s, IF book[a][s].os = "created" THEN "done" ELSE "live", {})
    /\ Consume(a, p) /\ UNCHANGED <<m_otk_map, m_oid_map>>

(* Faulty variant, for mutation runs only: the new price is not stored. *)
order_replaced_stale(a, p) ==
    /\ Consumes(a, p, "replaced")
    /\ LET m == Head(inbox[a][p])
           s == Found(a, m)
       IN  /\ s # Null /\ Expected(book[a][s], m)
           /\ transition(a, s, IF m.state = "LIVE" THEN "live" ELSE "done",
                         IF m.state = "LIVE" THEN {} ELSE {"finalize"})
    /\ Consume(a, p) /\ UNCHANGED <<m_otk_map, m_oid_map>>

order_replaced(a, p) ==
    /\ Consumes(a, p, "replaced")
    /\ LET m == Head(inbox[a][p])
           s == Found(a, m)
       IN  /\ s # Null /\ Expected(book[a][s], m)
           /\ IF m.state = "LIVE"
                THEN book' = [book EXCEPT ![a][s].price = m.price,
                                          ![a][s].os = "live", ![a][s].ps = {}]
                ELSE transition(a, s, "done", {"finalize"})
    /\ Consume(a, p) /\ UNCHANGED <<m_otk_map, m_oid_map>>

order_canceled(a, p) ==
    /\ Consumes(a, p, "canceled")
    /\ LET m == Head(inbox[a][p])
           s == Found(a, m)
       IN  /\ s # Null /\ Expected(book[a][s], m)
           /\ transition(a, s, "done", {})
    /\ Consume(a, p) /\ UNCHANGED <<m_otk_map, m_oid_map>>

(* fsm_error_transition (): what was pending stays pending. *)
unexpected(a, p) ==
    /\ inbox[a][p] # <<>>
    /\ LET m == Head(inbox[a][p])
           s == Found(a, m)
       IN  /\ s # Null /\ ~ Expected(book[a][s], m)
           /\ transition(a, s, "ERROR", book[a][s].ps)
    /\ Consume(a, p) /\ UNCHANGED <<m_otk_map, m_oid_map>>

(* Not in the book: taken for another agent's. *)
not_in_book(a, p) ==
    /\ inbox[a][p] # <<>> /\ Found(a, Head(inbox[a][p])) = Null
    /\ Consume(a, p) /\ UNCHANGED <<book, m_otk_map, m_oid_map>>

visit(a, p) == \/ order_accepted(a, p) \/ order_rejected(a, p)
               \/ order_replaced(a, p) \/ order_canceled(a, p)
               \/ unexpected(a, p) \/ not_in_book(a, p)

-----------------------------------------------------------------------------
evaluate_agent(a) ==
    \E s \in Slots :
        \/ \E x \in Series, price \in Prices : submit_order(a, s, x, price)
        \/ \E price \in Prices : modify_order(a, s, price)
        \/ cancel_order(a, s) \/ erase_order(a, s)

(* With nothing on its way the agents may rest. *)
Quiet ==
    /\ \A a \in Agents : queue[a] = <<>>
    /\ \A p \in Partitions : wire[p] = <<>> /\ action_queue[p] = <<>>
    /\ \A a \in Agents, p \in Partitions : inbox[a][p] = <<>>
    /\ UNCHANGED vars

Next == \/ \E a \in Agents : evaluate_agent(a) \/ emit(a)
        \/ \E p \in Partitions : venue(p)
        \/ \E a \in Agents, p \in Partitions : visit(a, p)
        \/ Quiet

Spec == Init /\ [][Next]_vars

(***************************************************************************)
(* Properties                                                              *)
(***************************************************************************)

TypeOK ==
    /\ \A a \in Agents, s \in Slots : Entry(a, s) =>
            /\ book[a][s].otk \in Token /\ book[a][s].oid \in Oid \cup {0}
            /\ book[a][s].series \in Trades[a] /\ book[a][s].price \in Prices
            /\ book[a][s].os \in order_state /\ book[a][s].ps \subseteq pending
            /\ book[a][s].otk_trace \in Seq(Token)
    /\ m_otk_map \in [Agents -> [Token -> Slots \cup {Null}]]
    /\ m_oid_map \in [Agents -> [Oid -> Slots \cup {Null}]]
    /\ \A a \in Agents : m_otk_counter[a] \in 0..MaxTokens[a]
    /\ \A a \in Agents : Len(queue[a]) <= QueueCapacity
    /\ m_oid_gen \in [Series -> Oid \cup {0}]

(* How much is on its way to the venue, or from it to agent a, about order o
   of that agent, by any of its tokens; but for what the venue sends unasked. *)
Asked(m) == ~ (m.type = "canceled" /\ m.state = "NOT_ON_BOOK")
Named(s, o) == Cardinality({i \in DOMAIN s : s[i].otk \in Tokens(o) /\ Asked(s[i])})
Unanswered(a, o) ==
    Named(queue[a], o) + Named(wire[Partition(o)], o)
        + Named(action_queue[Partition(o)], o) + Named(inbox[a][Partition(o)], o)

(* The two maps of a book lead to exactly the orders that are in it: by every
   token an order ever had and by its id; nothing leads to a slot whose order
   was erased, whatever became of the slot since. *)
MapsAgree ==
    TypeOK /\ \A a \in Agents :
        /\ \A t \in Token, s \in Slots :
                m_otk_map[a][t] = s <=> Entry(a, s) /\ t \in Tokens(book[a][s])
        /\ \A i \in Oid, s \in Slots :
                m_oid_map[a][i] = s <=> Entry(a, s) /\ book[a][s].oid = i

(* The code leaves it to the agents to amend only what is live and settled;
   these do. *)
Patient == {a \in Agents : Amendable[a] \subseteq {<<"live", {}>>}}

(* What is pending for an order is what has been asked and not answered: so
   no answer is counted twice, forgotten, or late for an erased order. *)
PendingIsUnanswered ==
    \A a \in Patient, s \in Slots :
        Entry(a, s) => Unanswered(a, book[a][s])
                        = Cardinality(book[a][s].ps \ {"finalize"})

(* The venue knows every token a patient agent asks it to replace or cancel
   by (the mock server checks), also while the answer that told so is not consumed yet. *)
RequestsAreKnown ==
    \A p \in Partitions : \A i \in DOMAIN wire[p] :
        wire[p][i].type \in {"replace", "cancel"} /\ wire[p][i].otk[1] \in Patient
            => v_otk_map[wire[p][i].otk] # Null

(* Every request and answer of a patient agent finds its order: still in the
   agent's book, and by the token it names at the venue. *)
NothingLate ==
    /\ \A a \in Patient, p \in Partitions :
           \A m \in ToSet(wire[p]) \cup ToSet(action_queue[p]) \cup ToSet(inbox[a][p]) :
               m.otk[1] = a => m_otk_map[a][m.otk] # Null
    /\ RequestsAreKnown

(* An order that is live and has nothing pending is as the venue has it. *)
BookIsVenues ==
    \A a \in Patient, s \in Slots :
        Entry(a, s) /\ book[a][s].os = "live" /\ book[a][s].ps = {} =>
            LET o == v_order[v_otk_map[book[a][s].otk]]
            IN  o.oid = book[a][s].oid /\ o.price = book[a][s].price

(* No message finds its order in a state that does not expect it, but for
   what follows the acceptance of an order off the book, whatever an agent
   that does not wait for answers has the venue send to all. *)
NoOrderInError ==
    \A a \in Patient, s \in Slots :
        Entry(a, s) /\ book[a][s].os = "ERROR" => "finalize" \in book[a][s].ps

(* "Not an error since can be another agent's order": a message about an order
   that is not this agent's changes nothing in its book. *)
OthersOrdersIgnored ==
    [][ \A a \in Agents, p \in Partitions :
            (inbox[a][p] # <<>> /\ inbox'[a][p] = Tail(inbox[a][p])
                /\ Head(inbox[a][p]).otk[1] # a)
            => book'[a] = book[a] ]_vars
=============================================================================

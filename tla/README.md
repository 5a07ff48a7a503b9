# Verification of vrt

vrt is a C++ framework for programs that trade on an exchange: threads with
their start and stop, lock-free queues, multicast and TCP links, market data
feeds, execution of orders, agents. This directory holds TLA+ modules that model
its concurrent core and the structures it rests on, TLC configurations that check
them on small instances, and TLAPS proofs of what holds for every size.

Paths below are relative to `src/vr/`; `VC` is `vr_common/src/vr`, `RT` is
`vr_rt/src/vr`.

## 1. Inventory

| part | where | state | operations | hard because of |
|---|---|---|---|---|
| request queue | `VC/mc/lf_spsc_buffer.h` | ring, two positions, two cached positions | try_enqueue, commit, try_dequeue, release | stale cached positions, full and empty, wrap-around |
| container | `VC/util/di/container.cpp` | components in dependency order, tasks, failures | start, run_for, stop, request_stop, destruction | failure of any start, step, stop or task creation; racing requests to stop |
| container_barrier | `VC/util/di/container_barrier.cpp` | turn, start count, two latches | start, stop, latch waits | a global order kept by several threads, failures between turns |
| step_runnable | `VC/mc/step_runnable.h`, `waitable.cpp` | stop flag, steps | thread body, request_stop | thread life against the container's |
| descriptors | `RT/market/rt/defs.h`, `impl/reclamation.cpp` | published and current version, pool, reclaim stack | publish, call_rcu, push, pop all, release | readers of old versions, callbacks on another thread, lock-free stack |
| market_data_feed | `RT/market/rt/market_data_feed.cpp` | account of the link's bytes | step | flush of bytes readers may still need |
| market_data_manager | `RT/market/rt/agents/asx/market_data_manager.h` | position consumed | update | skipped versions |
| execution_link | `RT/market/rt/asx/execution_link.cpp` | per partition: parsed, available, flushed and sent bytes; agents' queues; login count | connect, step | frames cut by TCP on both sides, several partitions in one version, agents' requests merged, one login for all |
| execution_manager | `RT/market/rt/agents/asx/execution_manager.h` | token counter, login state | submit, modify, cancel, erase, update | waits for queue space, answers in flight, acknowledgements of every partition |
| execution_order_book, execution_listener | `RT/market/books/` | orders, token and id maps | create, alias, erase, one handler per answer | tokens change under way, slots are reused, other agents' answers |
| mock_ouch_server | `RT/market/sources/mock/` | orders, timed answers, sessions, listener | step, accept, heartbeat, close, stop | random order of answers, disconnection, fractional writes |
| mapped buffers | `VC/io/mapped_*_buffer.*` | read and write positions, mapping | r_advance, w_advance, windows, close | arithmetic at the ends, a mapping refused |
| timer queues | `VC/rt/timer_queue/`, `VC/util/timer_event_queue.h`, treap | schedule, treap, timer descriptor | enqueue, dequeue, reschedule, start, stop | a thread blocked in the kernel; entries that live in pool slots |
| pools and tables | `VC/util/object_pools.h`, `VC/containers/util/` | free lists, chains, bins | allocate, release, put, remove, rehash, add | free lists under growth, chain surgery, alternating windows |
| market data book | `RT/market/books/limit_order_book.h`, `asx/market_data_listener.h` | levels, order lists, id maps, shared pools | one handler per ITCH message | consistency of three structures |
| object_DAO | `VC/io/dao/object_DAO.cpp`, `VC/io/sql/` | rows with validity dates, transaction, cached statements | find, persist, delete as of a date; begin, commit, roll back | two statements for one change, nested guards, refused statements |
| other | formats, data frames, statistics, capture, tools, `vr_qr` | | | sequential conversion and I/O |

How the parts meet. A *container* starts every component in dependency order and
runs the steps of each group of components on a thread of its own (*step_runnable*),
with the *container_barrier* keeping one order of start() and stop() over all
threads. The feed and the link are steps: each polls its sockets, publishes a new
*descriptor* and reclaims old ones. Agents are steps on other threads: they read the
latest descriptor under RCU and from it the bytes the feed or the link received.
Agents send requests through one *lf_spsc_buffer* each; the link puts them on the
wire of the partition that trades the instrument, after one login for all of them.
All agents see all answers; each one's *execution_listener* finds its own orders in
its *execution_order_book*. The *market_data_listener* keeps the limit order books
of an agent's view, whose orders and levels live in *object pools*. Reference data
come from *object_DAO*.

What makes each part correct is said with the properties in section 3.

## 2. Modules

| module | models | rests on |
|---|---|---|
| `BoundedFifo` | what the request queue promises: a bounded FIFO | |
| `SpscBuffer` | the queue: every load of the other side's position, every use of a cached one | implements `BoundedFifo` |
| `Lifecycle` | what start and stop of all components promise: one order, up to the first failure, and back | |
| `ContainerBarrier` | turns, start count, latches over any distribution of startables to threads | implements `Lifecycle` |
| `Container` | start(), stop(), run_for() and request_stop() of a container with tasks | composes `ContainerBarrier` |
| `SequentialContainer` | the same container without tasks | implements `Lifecycle` |
| `Reclamation` | versions, readers, grace periods, reclaim stack, pool | |
| `MarketDataFeed` | the feed and its readers: bytes and positions | extends `Reclamation` |
| `ExecutionLinkReceive` | the receiving half of the link and its readers: frames, partitions | extends `Reclamation` |
| `ExecutionOrders` | agents, requests, venue, answers, books | |
| `LoginBarrier` | the login of agents and the sending half of the link | |
| `MockSessions` | client sessions of the scripted venue | |
| `MarketDataBook` | limit order books in shared pools | |
| `TimerQueue` | the timer thread, its descriptor, start() and stop() | |
| `ObjectPool`, `EventQueue` | the pool of slots; timer_event_queue over it | `EventQueue` extends `ObjectPool` |
| `ScatterTable` | chained_scatter_table, slot by slot | |
| `FenwickWindow` | the running count over a window of bins | |
| `MappedFile`, `MappedBuffers` | a sliding mapping; ring, tape and window buffers | `MappedBuffers` extends `MappedFile` |
| `ObjectStore` | object_DAO with its transactions | |
| `*Proofs` | theorems about the module they are named after; `MarketDataProofs`: about `MarketDataFeed`, `FenwickWindow` and `ScatterTable`; `PartsProofs`: about the other modules that `MCParts` joins, but for `ContainerBarrier` | section 5 |

`MC*` modules give constants for TLC, nothing else, except `MCParts` and `MCContainerLink` (section 3).

**SpscBuffer.** `m_p_position`, `m_c_position`, `m_p_local`, `m_c_local` are the
code's; `c_result` and `p_result` are the result objects in the hands of the two
threads. `try_enqueue` and `try_dequeue` re-read the other side's position only when
the cached one refuses, as the code does. Positions are unbounded in the code
(64 bits); `MaxPosition` bounds them for TLC only.

**ContainerBarrier, Container.** A thread owns turns (startables); `phase` says where
it is between the latches. `start_turn`/`start_result`/`start_pass` are the three parts
of container_barrier::start(): wait for the turn, call or skip, pass the turn on. In
`Container`, `app` is the thread that calls start(), run_for() and stop(); `at` and
`left` are a task's place in its loop; `req` and `tell` are a request to stop in
progress, split where the code reads a flag and acts on it later. A start, a step and
a creation may fail at any point.

**Reclamation.** A version is a pool slot. `wpc` splits the writer's step at each
access to shared memory; `push_load`, `push_cas` and `push_retry` are
release_poll_descriptor(). liburcu is external: a batch of callbacks waits until every
registered thread has been quiescent since the batch was taken. In `src/` a thread is
quiescent once per step and never goes offline; the reader in
`RT/market/rt/market_data_feed_test.cpp` does, and is outside the model.

**MarketDataFeed, ExecutionLinkReceive.** A byte is its position in the stream, which
is exact for the tape buffer that both links are built with: consumed bytes stay in
place. recv_poll() adds bytes, recv_flush() moves the start. `m_link_*` and the
`account` of a partition are the code's own bookkeeping, kept apart from the link's.

**ExecutionOrders.** A token is an agent and a count. `queue` is the agent's request
queue with the wait for space as a guard; `wire` a partition's TCP stream;
`action_queue` the mock server's answers, which fall due in any order because their
times are random; `inbox` the frames an agent has not consumed. One emit takes one
request of any agent: the link's round over all queues is a sequence of these. The
constant `Amendable` says in which states an agent amends an order, since the code
leaves that to the agent (`TODO` in execution_manager.h:344 and 409). Two actions
stand for the exchange and are external: the cancellation that follows an order
accepted off the book, and the rejection of an unknown token.

**LoginBarrier.** Agents ask for a login once and wait for an answer of each of their
partitions; the link counts the requests and writes one login into each partition when
the last has come. `polled` and `tended` are the link's progress within one step: first
one request of each agent, then each partition is flushed or beats. Frames are units of
bytes, a login two of them, so that a short write may cut it. Every agent sees every
partition's answers.

**MockSessions.** `place` is the list a connection is in: accepted by the listener
thread, taken over by the server, or gone. Answers are in `m_action_queue` with the time
left, its own for each request; each is written in two portions, and a partial one goes
back to the head of the queue so that nothing comes between. `phase` and `todo` are the server's step: answers
that are due, then each session in turn. Short writes, a client that hangs up at any
point, heartbeats and time-outs of both sides, and stop() are actions of their own.

**MarketDataBook.** Orders and levels are slots of two pools that all books of a view
share. `venue` is what the messages said. order_replace sets the order's parent to the
new level and then looks the old level up by that parent, as the code does: this is the
finding of section 4, and `Repricing` says whether it can happen.

**TimerQueue.** The worker sleeps in read() on the timer's descriptor; closing does not
wake it. close() is split into the look at `m_timer_fd` and the two stores, because both
threads call it.

**EventQueue, ObjectPool.** A pool slot is either an object or a link of the free list,
never both; the treap is a sequence of slots with ties in order of arrival.

**ScatterTable.** The array of slots with its chains and the doubly linked free list in
negative links; `contents` is the map it stands for. `Chain` is the set of slots that a
walk along the links passes, a function of the number of steps; `Seek` and `Predecessor`
choose from it where the loops of the code stop. Keys are chosen so that three of five
collide in every capacity and a chain runs into another's address.

**FenwickWindow.** Two trees that alternate; `added` is what was added at every index,
from which the count of the window is recomputed (`SumBefore`). `Touched` is the loop of
an addition, up by the lowest bit; `cumsum` that of a sum, down by it. The code sums both
trees in one loop.

**MappedBuffers.** The stream's bytes are its positions and `content` says which byte was
last written at a place of the ring or the file; a mapping may be refused once it is
asked for, after the old one is gone. A tape takes what `size()` leaves, as the code does;
the client that writes behind the end of its reserve that way is `w_overruns`, after which
nothing is known of the program (a finding of section 4).

**ObjectStore.** `rows` is the table as other connections see it, `working` as the
writer does; `history` and `draft` are what committed calls, and those of the open
transaction, said. sqlite is external and documented: a refused statement changes
nothing and leaves the transaction open; the lock for writing is taken by the first
statement that writes; COMMIT fails while another connection reads; the reset of a
statement returns the error of its last step. `Guarded` says whether callers use the
guard that the interface calls optional. Two rules are the callers': dates of a key are
written in order (`InOrder`, as `op_make_ref.cpp` does), and who rolls back inside
another guard rolls the other back too (`unwinding`, as an exception does).

## 3. Runs

| run | what it asks | bounds | distinct states |
|---|---|---|---|
| `container_link` | of the container: steps run only while their components are up; nothing is left up; no failure is lost; requests reach all tasks; stop() returns. Of the link's receiving half: readers get whole frames in order from each partition; flushing stops at the grace period; all frames are consumed | 5 components (1 not startable), 2 tasks, a failure anywhere; 2 partitions, frames of 2 bytes, 5 and 2 bytes: polls that end inside a frame or hold several, versions with news of one partition | 71,758 |
| `container_create` | refuted: stop() returns when a task could not be created | 5 components, 2 tasks, one step allowed per task | |
| `market_data_feed` | no descriptor is reused under a reader; each slot is in one place; each comes back; no gap and no repetition for a reader; flushing stops at the grace period; readers catch up | 4 slots, 2 readers, 3 bytes in datagrams of 1 or 2: two versions wait in a batch while others are published and current | 133,874 |
| `market_data_feed_contract` | refuted: what is flushed was consumed by some reader | the same | |
| `execution_orders` | maps and pool agree; pending means unanswered; no answer is late; a settled order is as the venue has it; no patient agent's order falls into error | 2 agents (one patient with 2 tokens, one that does not wait), 1 slot each, so that it is reused; queue of 1; 2 prices | 621,947 |
| `execution_orders_partitions` | refuted: other agents' orders are ignored, with two partitions | 2 agents, 2 partitions, 1 order each | |
| `mock_sessions` | answers are whole and come once; after stop() nothing is connected; every session is served or closed | 2 clients (one sends an order), answers after 1 tick, heartbeats after 1, time-out after 2, so that all meet in one step | 224,574 |
| `mock_sessions_links` | refuted: a session that is not closed has a link | the same | |
| `market_data_book` | refuted: a level of a book has orders | 2 series, 2 ids, 2 prices, 3 slots of each pool | |
| `object_store` | refuted: a reader finds one version of an object at most, when the writer uses no guard | 2 keys, 2 objects, 3 dates | |
| `tape_window` | refuted: a tape offers no more than what is mapped behind its write position | 12 bytes, capacity 4, pages of 2 | |
| `parts` | eleven parts, below | below | 84,575 |

`parts` is one run for modules that share no state with each other. `MCParts` joins them
by a variable `which` that picks one part for a whole behaviour, in which the variables
of all others stay as they are; so its states are the sum of the parts' and not their
product, and each property is about one part. What would be eleven runs of a thousand
states each is one, and each part keeps its own fairness. `container_link` joins the
container and the link's receiving half the same way (`MCContainerLink`).

| part | property | says | bounds |
|---|---|---|---|
| `spsc` | `NoSlotRace`, `HonestRefusal`, `ImplementsFifo`, `EveryValueConsumed` | the two sides never hold the same slot; full and empty are true when said; the ring is a bounded FIFO; every value is consumed | 2 slots, 2 values, 5 commits: the ring wraps twice |
| `barrier` | `ImplementsLifecycle`, `BarrierEnds` | the barrier's order is that of one thread; everybody gets through | 3 threads, 5 startables, turns that change the thread at almost every step |
| `sequential` | `SequentialLifecycle` | the same order without threads | 6 components, 2 not startable |
| `timers` | `TimersAreHonest`, `StopJoins` | timers expire in time and in order; stop() leaves neither thread nor descriptor, and returns | 3 time points |
| `login` | `LoginOnceThenOrders`, `AgentsRun` | one login per partition, in one piece, after the last agent has asked; no order before it is accepted; who runs was accepted everywhere; everybody comes to run | 2 agents on 1 and 2 of 2 partitions, queue of 1, 1 order, 1 heartbeat |
| `table` | `TableIsMap` | what a map would hold | 5 keys, capacity 2 to 8, fixed and growing |
| `events` | `EventsInOrder` | the earliest first; pool slots stay distinct | 2 chunks of 2 slots, 3 times |
| `fenwick` | `CountIsWindow` | the count is that of the window | 4 bins, indices to 9: both trees are reused; 4 additions |
| `buffers` | `BuffersKeepBytes` | what is read is what was written; the file ends where it should | 12 bytes, capacity 4, pages of 2 |
| `book` | `BooksAreVenues` | the books are the venue's, pools hold nothing else | as `market_data_book`, without repricing |
| `store` | `AsOfIsHistory` | as of any date a reader finds what the last committed call said | 1 key, 2 objects, 3 dates, 2 guards |

The bounds are enough to meet the cases the properties are about: each property of a
passing run is broken by a plausible fault in one mapped definition on the same
bounds (`mutants` in PROJECT.json; the variants are kept next to the definitions they
replace).

Symmetry is used in `execution_orders` only, over prices, which the model compares but
never orders; that run checks no liveness. CHECK_DEADLOCK is off where the modelled
program ends (the parts, the sessions after stop()), is used up (the books' pools, the
bytes of `tape_window`) or hangs (`container_create`).

**Fairness.** Each thread of the program spins on its step, and none of the modelled
steps blocks; so each thread's next step is weakly fair as a whole, never a choice
inside it. What the outside does is not fair: no datagram need arrive, no agent need
send an order, no start or step need fail, no client need connect or ask. `Container`
assumes that lifecycle methods return. The callbacks of call_rcu are run by their own
thread, which is fair too. In `LoginBarrier` a socket that is written to again and
again takes some bytes in the end (strong fairness: the loop writes in every step, and
a TCP peer that reads opens its window); the venue's serving threads are fair. In
`TimerQueue` time goes on.

## 4. What the refuted claims show

* `container_create`: when the creation of a later task throws, stop() waits for
  threads that were never created, and so does the destructor; `container.cpp:893`
  holds that a container whose start failed may simply be left.
* `market_data_feed_contract`: `market_data_feed.cpp:179-181` holds that the least
  position reclaimed has been consumed by some reader. Two callbacks of one grace
  period may be split by a step of the feed; the second descriptor then stands alone
  for bytes no reader has consumed. With a tape buffer this affects the account and not
  the data. What does hold is `FlushStopsAtGrace`.
* `execution_orders_partitions`: replacements and cancellations are looked up by the
  venue's order id alone. The mock server counts these ids per instrument and side in
  each session, so two agents with orders in two partitions have the same id, and the
  answer about the one's order ends the other's.
* `mock_sessions_links`: a session closed because its client hung up is set to serving
  again by the answer to its login, which was waiting; the next step takes it for
  connected, where `mock_ouch_server.cpp:250` asserts a link.
* `market_data_book`: a replacement at another price leaves the order in the list of
  its old level (`market_data_listener.h:331` reads the parent after it was changed). The
  level of the new price, made for it, stays without orders, with a quantity and a count
  of 0, against the "design invariant" of `limit_order_book_checker.h:39`.
* `object_store`: persist_as_of() inserts the new version and ends the old one in two
  statements. Without the guard that `object_DAO.h:65` calls optional "for batches", a
  reader in between finds two versions, and `object_DAO.cpp:438` asserts one at most.
* `tape_window`: `mapped_tape_buffer.h:101` offers capacity() - size(), and `w_advance`
  (130) checks against the same, so that bytes consumed count as free again. A tape does
  not wrap: what is left behind `w_position()` is less by all that was consumed, and line
  93 says that the window is "available for writing from current w_position()".

Divergences of a line or two that were seen while modelling and have no run of their
own:

* `step_runnable.h:133`: "run steps only if no startup failures". A task looks at the
  start results of its own startables only; the steps of one group run after a start in
  another group failed, until the application calls stop().
* `container.cpp:882` says the state advances to "started" also when start() fails;
  start() rethrows before it does. `container.cpp:473` says the component that possibly
  threw is among those stopped; it is not. The loop of stop() in a container without
  tasks ends at the first stop() that throws (`container.cpp:591` and 596), so components
  below it are destructed without stop(), against `startable.h:22-23`;
  `SequentialLifecycle` is about the order of what is stopped only.
* `execution_manager.h:352` says the token of an order is updated when a replacement
  succeeds and 366 that requests use the most recent alias; no handler ever assigns it.
  `execution_listener.h:116-117` announces further messages after an order is accepted
  off the book; the handler of a cancellation (326-346) puts such an order into ERROR.
  `NoOrderInError` therefore leaves orders with `finalize` pending out.
* `execution_link.cpp:282` compares an interface's index with `>` where `>=` is meant.
* `TCP_link.h:131` asserts a positive window after a read that may have filled the
  buffer exactly.
* `timer_queue.cpp:48` calls close() idempotent; two threads may both read an open
  descriptor and both close it.
* `timer_event_queue.h:125` asserts a strictly later time where 121 says "not earlier".
* `limit_order_book.h:72-88`: the two lookups of a better price return begin() when
  there is none.
* The mock server: the evaluation of a heartbeat uses the link of a session that may
  have been closed while it waited; a heartbeat is queued in every step while the socket
  takes nothing (`mock_ouch_server.cpp:334`); an answer of which half is sent when the
  session closes leaves a cut frame.
* `tx_guard.h:35-43`: commit() lets go of the connection before it commits. When COMMIT
  is refused because another connection reads, the transaction stays open with no guard
  to roll it back and a nest count of 0; the next tx_begin() throws, and the one after it
  joins the old transaction with a count of 2, so that its commit() commits nothing.
* A guard that rolls back inside another resets the nest count; if the outer one then
  commits, the count is -1, and the next guard begins no transaction.
* persist_as_of() of a second change at one date violates the primary key and throws, and
  the next call throws again when the statement is reset, whatever it is about; one at an
  earlier date leaves two versions valid. Neither is documented.

## 5. Proofs

Everything is proved from the assumptions on constants that the modules name, for
every value of the constants; the theorems about orders, the object store and the limit
order books add one hypothesis each, named below.

**ContainerBarrierProofs.** `IInv` joins the types with `TodoOK` (a thread's list holds
its own turns), `PassedOK` (a turn is either ahead in its owner's list or done),
`LatchOK` (who is past which latch, by phase), `HolderOK` (who is inside a turn holds
the one `m_turn` names), `CountOK` (the start count is the number of startables that
started) and `TurnOK` (what `m_turn` says of each startable). From it: at most one
thread is inside a turn (`OneHolder`), `BarrierTypeCorrect`, and `BarrierRefinement`:
for any number of threads and any distribution of startables, start() and stop() are
called as one thread would call them, up to the first failure and back. For those who
run threads through the barrier `FullInv` adds what the latches and lists say of a thread
by its phase (`StartLatchOK`, `LeftOK`, `TurnRange`); from it `BarrierEndsClean`.

**ContainerProofs.** A startable's turn is its rank among the startables (`RankGrows`,
`RankIsBijection`), so the turns the container deals out satisfy the barrier's assumption,
each with one owner (`TurnsAreOwned`), and the barrier's lemmas apply. `FullInv` holds as
long as the container makes steps of the barrier only, which it does but for one case: a
start() that threw before it had made threads leaves a container whose stop() counts a
latch down that it never came to (`Stuck`; the finding of the run container_create). There
the invariant says that nothing moves. Otherwise `ContainerInv` adds that the progress of
start() and stop() tells where the container's thread is in the barrier (`AppOK`), that a
task about to step has made sure that all its startables are up (`LoopOK`) and where
failures wait (`FailOK`). `SteppedWhileUp` alone says nothing of a task that has not
looked yet, nor why no turn of the stop phase can come while one runs. From it, for any
components, groups and failures: `StepsFindAllUp`, `StopLeavesNothing`, `NoFailureLost`.
`Sorted` is a choice and not a sort of the libraries, whose evaluation by TLC the prover
knows nothing of.

**ReclamationProofs.** `IInv` joins the types with `Apart` (free list, callbacks, batch,
published, current and retired slot are disjoint and without repetition), `StackOK` (the
slots that are nowhere else are the stack's; links stay among them and no two lead to the
same one) and `ReadersOK` (a version somebody reads is published, superseded, or its
grace period waits for that reader). `NoUseAfterReclaim` alone is not inductive: it says
nothing of the batch whose grace period is running, and a slot popped twice would break
it. From `IInv`: `ReclamationTypeCorrect` and `ReadersAreSafe`. `Apart` and `StackOK` say
that no slot is in two places, not that each is found: a cycle of slots that no end leads
to would satisfy them. `NoneLost` excludes it: two sequences of slots, linked from the
stack's head and from the slot to release next, share the stacked slots between them
(`Chain`, with `ChainCons` for a push and `ChainTail` for a release). The walk of
`Linked` is a recursive function, and `LinkedIsChain` shows that it finds a chain's slots
and no others, from a least index where it would not (`LeastNumber`; no induction theorem
is needed). From both: `NoSlotLostNorDoubled`. Another set of lemmas
(`Ordered`, `Behind`) says that versions are superseded, called back and reclaimed in
the order they were published, whatever numbers they carry; the two compositions use it.

**MarketDataProofs.** `MarketDataFeed` is written over the actions of `Reclamation`, so the
invariant above carries over (the lemma `FeedFollowsReclamation` says no more).
`FeedInv` adds `LinkOK` (the account), `OrderOK` (positions ordered by the age of
versions, nothing discarded past a live one) and `ConsumedOK` (a reader is never ahead of
what it reads). From it: `FlushIsSafe` and `StreamIsConsumed`, for any stream, any number
of readers and any pool; the order is needed because the feed flushes to a minimum over
what it popped and not to the position of the oldest live version.

Of `FenwickWindow`, `FenwickInv`: the front tree has what was added since its window
began (`FrontTells`), the back one what was added in the window before, from the edge on
(`BackTells`; below it the tree may have been cleared, so its total is not what it
should be, and only the difference that count_impl() takes is right), and nothing was
added after the edge (`NothingAhead`). An addition to a bin counts in exactly the sums
from that bin on: `TouchedIs` shows that the loop upwards meets the bins whose sums pass
by, from the arithmetic of lowest bits, and `CumsumAdded` that the sums are then right. The
recursions are functions on an interval, of which `AccumulationExists` and
`AccumulationIsOne` say that there is one, by least counterexample. From it
`CountsTheWindow`, for any power of two of bins and any sequence of increments.

Of `ScatterTable`, `TableInv`: for some set of used slots, the others form a circle with
the sentinel (`CircleOK`), links between used slots stay within a hash address and never
lead back to it, each slot but the first of a chain has exactly one that links to it, and
no key is there twice (`ChainsOK`); and the entries are those of the map (`Holds`).
`TableIsMap` speaks of walks: of the free slots passed from the sentinel on, and of what
get() finds at the end of a chain. The invariant has none. Circle and chains have instead
a number per slot that rises along the links (`f`, `r`), so a walk cannot come back too
early (`NoLongWalk`), and the least slot that a walk would leave out has a predecessor
that it passed (`ChainIs`, `CircleIsWalked`). Each of the ways put() fills a slot and
remove() empties one says how the numbers change: a displaced entry takes the number of
its old slot with it (`MoveKeeps`), a successor that moves up leaves its number behind
(`PullKeeps`), a slot freed comes first in the circle (`PushKeeps`). A rehash is carried
over slot by slot (`CarriesOn`), and never finds the new array full (`NotFull`). From it
`TableIsAMap`, for any keys, values and capacities and any sequence of calls.

**ExecutionLinkProofs.** The same as of the feed, over frames and partitions. `LinkInv` adds that what is
counted as available ends at a whole frame and lies within what was received, per
partition; its arithmetic (`DivMod` to `FramesBetween`) is about remainders modulo the
frame's size. From it: `LinkReadersAreSafe`, `LinkFlushIsSafe`, `FramesAreWhole`.

**PartsProofs.** Of `SpscBuffer`, `BufferInv`: it joins the types with `PositionsOK`,
consumer cache <= consumer position <= producer's position as the consumer knows it <= producer position <= consumer's position as the producer knows it
+ capacity. The chain is needed because neither `NoSlotRace` nor `HonestRefusal` speaks
of the cached positions the decisions are made with. `SlotsDiffer` is the arithmetic:
positions less than a capacity apart are in different slots. From it follow
`TypeCorrect`, `NoRace`, `RefusalsAreHonest` and `Refinement` (the ring implements
`BoundedFifo`: each step maps to one of its steps or changes nothing there).
Of `TimerQueue`, `TimerInv`: what is behind the worker has expired, the worker
leaves the loop early only after stop(), and whoever passes close() leaves the
descriptor closed. From it `TimersStayHonest` for any schedule.
Of `LoginBarrier`, `LoginInv`: the agents the link has counted are those past their first
step whose request is not queued any more (`Told`), a request for the login is alone in
its queue and orders are queued only for partitions that accepted (`QueuesOK`), an agent
that waits has exactly the venue's answers unread (`AgentsOK`), and each stream, socket
and buffer together, has the two units of the login side by side when everybody is
counted and none before, answered when the venue has read past them (`StreamOK`).
`LoginOnceThenOrders` speaks of neither queues nor unread answers, and without them a
second request or an answer to nobody could break it. That a write cut anywhere leaves
the stream as it was is `Flushed`. From it `LoginComesOnce`, for any number of agents,
any partitions they share and any number of orders and heartbeats.

Of `ObjectStore`, `StoreInv`: a guard that is alive and not being unwound has its
transaction open and is counted (`GuardsOK`), and table and writer's view tell their
histories, also with the new row of a half done persist_as_of taken away (`ViewsOK`).
`AsOfIsHistory` alone says nothing between the two statements, nor why the second cannot
be refused the lock: the transaction has it since the first. `ClosesAt` is the argument
about the rows, for both calls. From it `StoreTellsHistory`, for any calendar and any
depth of guards, from the assumption that callers use a guard (`Guarded`), without which
the run object_store refutes it.

Of `MappedBuffers`, `MappingInv`: beside the types, each byte that was written and not
consumed is at its place, in the ring modulo the capacity (`BytesOK`), and a window's
offsets are from where its file was last asked for, which a mapping that is refused does
not move (`WindowOK`). `BuffersKeepBytes` compares what is read with the stream;
that a window slides by whole pages and reads the same afterwards is in the offsets alone.
A tape that was filled behind its end is left out: nothing is claimed of it (`OverrunKeeps`).
From it `BytesAreKept`, for any capacity, window and page size.

Of `ObjectPool`, `PoolInv`: chunks hold the slots in turn (`ChunksOK`), a slot is live or a
link, and some sequence lists the links from `m_free_list` to the end, each free slot
once (`FreeList`). Of `EventQueue`, `QueueInv`: also, the treap lists each live slot once
(`Lists`), by time (`SortedBy`), and of each time there are as many entries as the client
still has scheduled. Without the free list as a whole a slot might be handed out twice; the
order alone would hold of a treap that had lost an entry. From it `EventsComeInOrder`, for
any growth of the pool and any sequence of events scheduled, served and put off.

Of `MarketDataBook`, `BookInv`: an id leads to one order and an order to one id (`OneId`),
a level is in one book, the only one of its price (`OneBook`), each order is once in the
list of its level (`InLevels`), whose count and quantity are those of the list
(`LevelSums`), and each id has the venue's quantity and price (`AsVenue`).
`BooksAreVenues` follows from the last two but needs the first three to persist: an
order erased from a list that held it twice, or a level freed while another book
led to it, would break it later. From it `BooksHold`, for any books, ids and pools. Its
hypothesis is `~Repricing`: a replacement at another price breaks the books, which is
the finding of the run market_data_book; the instance of `parts` has the hypothesis.

Of `SequentialContainer`, `SequentialInv`: while components start, those below
`m_last_started` are up and those above are new (`UpToHere`), and while they stop what is
from there on is not up (`DownToHere`). `Lifecycle` counts startables only; `TurnsAre` and
`TurnNames` say that the numbering of startables among all components is one to one. From
it `SequentialRefinement`: start() and stop() without tasks implement `Lifecycle`, for any
number of components, startable or not, as `BarrierRefinement` says of the barrier.

**MockSessionsProofs.** `LinksInv`: a link is where a connection is accepted or a session,
nothing is accepted once the listener has ended, and no session is left once stop() is
done. `NothingConnected` alone says nothing of a connection that is accepted while stop()
runs; the order of the two halves of stop() is what the invariant needs. From it:
`StopDisconnectsAll`.
`AnswersInv` is about one session at a time, for any clients, requests, delays, time-outs
and heartbeats that wait. The units from the last one the client got to the last one in the
buffer follow each other (`Linked`), and the last is the end of a whole answer: what comes
next can be written behind it (`BufferOK`). At most the answer at the head of the queue is
half-written, and what is put into the queue does not get before it (`HeadOnly`,
`EnqueueJoins`); all but one unit of its session may go then, and all otherwise. A request
is unread, queued, in what may be sent, or told (`AccountsOK`). `WholeAnswersOnce` says
nothing of a session that is closed, and the answer to a login sets a session to serving
even then (`mock_sessions_links`): the invariant has to follow the login from the connection
on (`LoginOK`: until it is answered there is nothing else in the session, and a client that
hangs up meanwhile leaves it as it was at first), or the accounts would not add up when the
session serves again. Counts of members in a sequence, and of the queue that answers to all
that was read make, are most of the work. From it: `EveryRequestAnsweredOnce`.

**ExecutionOrdersProofs.** Two invariants, for any agents, series, partitions, entries of
a book, queues and numbers of tokens. `BaseInv` speaks of every agent, whatever it amends
and when, if it trades one series (`TradesOne`): a token is drawn by the agent that uses
it and never both submits and replaces (`TokenInv`), a request is in its agent's queue or
on its partition's wire (`Placed`), is a submission once (`SubmitOnce`), the venue's ids
count the orders of a series and name one each (`VenueIds`), an answer names an order of
the venue by its id (`AnswersOK`), and so does an id in a book (`BookIds`). `MapsAgree`
alone is not inductive: that order_accepted() enters an id nothing else has depends on
all of them. From it: `MapsLeadToOrders`.
`PatientInv` speaks of the orders of agents that amend only what is live and settled, if
what an agent hears of is of one series (`HearsOne`). `Awaits` lists, for each kind of
message, the states of the order at the agent and at the venue that await it; each message
on its way (queue, wire, the venue's delays, inbox) finds its order in one of them, and
`Load`, the count of those that settle what is pending, is one or none as the order says.
None of the four properties can be shown without it: each speaks of one end, and a step at
that end consumes what the other sent earlier. From it: `PendingOrdersUnanswered`,
`NothingComesLate`, `BooksAgree`, `NoneInError`. The count of messages along four
sequences (`AppendMsg`, `DropMsg`, `TailMsg`, `LoadParts`) is most of the work.
`HearsOne` is what the instance of the finding `execution_orders_partitions` lacks, and
with it the refuted claim is a theorem (`OthersAreIgnored`); the instance of the run
`execution_orders` has it. An agent of two series is outside these theorems
and outside what holds: the venue counts ids per series, and two of its orders may have
the same one.

**Only model-checked.** Every liveness property (`EveryValueConsumed`, `BarrierEnds`,
`StopReachesAll`, `StopReturns`, `SupersededIsReclaimed`, `ReadersCatchUp`,
`FramesAreConsumed`, `AgentsRun`, `StopJoins`, `ServedOrClosed`): liveness under fairness
is out of the prover's reach. Every invariant that a passing run checks is a theorem.

## 6. Not modelled

* Weak memory. Steps are interleaved on a sequentially consistent memory. The queue
  relies on x86-TSO; the reclaim stack uses atomic operations.
* Contents of messages: prices and tokens only where a property compares them. Fills of
  own orders do not appear because the code has no handler for executions.
* execution_link::connect(): everybody is connected when `LoginBarrier` and
  `ExecutionOrders` start. The two halves of the link and the order traffic are separate
  models, each with what the other does to it as its environment.
* A receive buffer that is full, and the loop that drains a TCP socket
  (`TCP_link.h:131`): the receive models have no capacity.
* An agent's wait for queue space while the link's thread has stopped
  (`execution_manager.h:296`): the queue and the container are separate models.
* Grace periods during start: threads register as readers before they wait at the start
  latch.
* Frames popped together in one reclamation may leave bytes unflushed until the next:
  harmless with a tape, and not counted as an error.
* The shape of the treap; the lookup of prices and the auction in a book; bins of
  `fenwick_window` that overflow their width.
* Pools of database connections, and more than one connection that writes.
* mock_mcast_server, capture and replay, the certification tool's sessions, the other
  applications, configuration, tracing, `vr_qr`, and the formats of `vr_common`: I/O and
  sequential conversion, by far the larger part of the repository's lines. The map
  therefore covers a small share of all lines: the share of the concurrent core
  (`VC/mc`, `VC/util/di`, `RT/market/rt`, the books and the mock venue) is what to look at.

PROJECT.json lists every component with its status.

## 7. What could follow

1. `SpscBufferTSO`: the queue over store buffers, implementing `BoundedFifo`.
2. `connect()` with the link's step, and the full receive buffer.
3. Container and reclamation together: grace periods while threads wait at the latches.

# A TLA+ model of the stock exchange

The program is an in-memory exchange: a TCP gateway, a pre-trade risk check, a
worker pool, one order book per symbol, a write-ahead log and a pipeline that
sends execution reports back. Paths below are relative to `src/` of the
repository. `src/asio` and `src/asio.hpp` are a vendored library, nearly all the
lines of the repository, and outside the model except for what `Gateway` says it
takes from it; the exchange itself is about 2 400 lines.

## The system

| component | state | operations | talks to |
|---|---|---|---|
| `GatewayServer`, `Session` (`gateway/`) | socket, header and body being read, `write_queue_`, `active_` | accept, `read_header`/`read_body`/`process_packet`, `send_execution_report`, `write_next`, `close`; all handlers run on the one io thread | `RiskChecker`, `ThreadPool::submit`, `ConnectionManager` |
| `ConnectionManager` | `sessions_` under a mutex | add, remove, get, clear | called by `Session` and the dispatch thread |
| `RiskChecker` (`engine/`) | allowed symbols, seen order ids, under a mutex | `register_symbol`, `validate_order`, `reset` | called by `process_packet` for orders only |
| `ThreadPool`, `SafeQueue` (`threadpool/`) | bounded queue, `shutdown_`, `stop_`, two condition variables | `start`, `submit`, `shutdown`; workers run `worker_loop` | `BookRegistry`, books, `WAL`, pipeline |
| `BookRegistry` (`registry/`) | symbol -> book under a mutex | `get_order_book` | workers, replay |
| `OrderBook`, `OrderIndex`, `MatchingEngine` (`engine/`) | two maps price -> list, index id -> iterator, under `book_mutex_` | `submitOrder`, `cancelOrder`, `modifyOrder`, `queryOrder`, accessors | `TradeIDGenerator`; the `log_func` of the caller |
| `TradeIDGenerator` (`common/`) | one atomic counter for all books | `next_id`, `reset` | books, replay |
| `MPSCQueue` (`pipeline/`) | linked nodes, `tail_` (atomic), `head_`, `closed_` | `enqueue`, `dequeue`, `empty`, `close` | inside `WAL` and the pipeline |
| `WAL` (`pipeline/`) | queue, `running_`, file stream, flush thread | `start`, `log_*`, `flush_loop`, `stop` | workers (under the book mutex for the request, outside it for the fills) |
| `ReplayEngine` (`engine/`) | none | `replay` | books, generator |
| `ExecutionPipeline` (`pipeline/`) | two `MPSCQueue`s, `running_`, dispatch thread | `publish_*`, `dispatch_loop`, `stop` | `ConnectionManager`, `Session` |

A request travels: io thread (`process_packet`, risk check for orders) -> bounded
queue -> worker -> order book under its mutex (log entry first, then matching) ->
log entries of the fills, reports and trades to the pipeline, after the mutex is
released -> dispatch thread -> io thread -> socket.

What is hard here, and what makes each part correct:

- **Order book.** List iterators are kept in an index while fills, cancels and
  modifies erase nodes and levels. Correct: no iterator dangles, no empty level, the
  book is never crossed, trades go by price and then arrival, the reports tell the
  owner the truth.
- **Bounded queue and pool.** Two condition variables, `notify_one`, a close that
  notifies after the unlock, a `stop_` flag read outside the mutex. Correct: no lost
  wakeup, no sleeper after close, every accepted task runs, shutdown returns.
- **Lock-free queue.** An enqueue is two separate atomic writes, nodes are deleted
  while producers hold pointers. Correct: no access to a freed node, FIFO in the
  order of the exchanges.
- **Log.** Asynchronous; retries under a book mutex; the flush loop tests two things
  one after the other. Correct: the file is a gap-free prefix of the log order at
  any moment, a clean stop loses nothing, nobody waits for ever.
- **Pipeline.** Several workers publish into two queues served by one thread that also
  has to notice a stop. Correct: a client hears its reports in queue order, a clean
  stop delivers everything, nobody spins on a closed queue.
- **Workers and books together.** Requests are logged under the mutex of their book,
  fills and reports after it is released, trade ids come from one counter. Correct:
  each book is serial in the order of the log, a fill in the log has its orders before
  it, the reports together tell the final state.
- **Recovery.** The process can end anywhere, also inside a record, and the next life
  appends to the same file. Correct: replay gives each book a state it really had.
- **Gateway.** One io thread runs all handlers and blocks in `submit` when the queue is
  full; writes take several steps and may fail; the dispatch thread holds sessions that
  close meanwhile; shutdown stops the io context with handlers undone. Correct: a
  client's stream is a prefix of whole reports in order, no buffer of a write is freed,
  nothing is refused by a pool that is gone, every order gets an answer, it ends.

`PROJECT.json` lists the hazards with their lines and the properties that cover them.

## Modules

| module | models | notes |
|---|---|---|
| `BookOps` | data of a book and the pure operations on it | `order_book.cpp`, `order_index.hpp`, `matching_engine.cpp`. Lists are sequences of node addresses, the heap maps an address to an `Order`, so a dangling iterator is representable. The two mirrored halves of `submitOrderInternal` are one operation with the side as parameter |
| `OrderBook` | one book as a state machine | `pc` is the call that holds `book_mutex_`; one action per call and one per iteration of the inner matching loop. Callers are unrestricted (ids may repeat, modify may carry 0) |
| `RiskChecker` | the risk check | `Verdict` keeps the order of the tests; an id is recorded only after all of them |
| `GatedBook` | `process_packet` + worker + book + risk check | extends `OrderBook` and `RiskChecker`. An order is validated first and reaches the book later, in any order. `view` and `arrival` are history: what the last report on each order said, and the list nodes in the order they were linked |
| `PriceTimeBook` | abstract: what a book promises | resting orders in arrival order, and who trades next as a condition; `Deal` is what a trade makes of two orders, `Left` what it leaves of the book; no levels, nodes or index |
| `ThreadPool` | `SafeQueue` and `ThreadPool` | a critical section is a step; waiting, being notified and taking the mutex again are separate; spurious wakeups included |
| `MPSCQueue` | the lock-free queue | at most one access to an atomic per step; `delete` frees an address and `new` may return it again |
| `RelaxedQueue` | abstract: what the lock-free queue promises | an enqueue is one instant; the consumer may find nothing although items are there |
| `WAL` | the log on top of `MPSCQueue` | extends it; the consumer steps return to points of `flush_loop`. A write may fail and then every later write does nothing |
| `ExecutionPipeline` | publishing workers, dispatch thread, start and stop, sessions that close | a queue is a sequence in the order of the exchanges whose first entry is seen once it is linked, the level `ImplementsFifo` justifies. The publish functions test `running_`, then `enqueue` tests `closed_`, exchanges and links; the loop condition is three separate reads. `Send` is the hand-over to the io thread |
| `Exchange` | `worker_loop` x `BookRegistry` x books x log x `TradeIDGenerator` | extends `BookOps`; one action per step of a worker and per iteration of a matching loop, calls on different books interleave. The log is the sequence of its entries with a durable prefix, what `FileIsPrefix` shows of it. `past` is history, one element per log entry and one for the beginning: what each call is going to make of its book, which `Outcome` computes from the book it meets (`Iterations` is the matching loop, `Completed` the loop and what is behind it). The loop is written for at most `Cardinality(Node) + 1` rounds; that it has ended by then is proved |
| `Recovery` | crash, `ReplayEngine::replay`, the next life | extends `Exchange`. A crash keeps the durable entries, and perhaps a cut one; behind a cut record replay reads arbitrary requests or nothing. Replay matches with the same steps as a worker; `past` is cut with the log |
| `Gateway` | `GatewayServer`, `Session`, `ConnectionManager`, the shutdown in `demo_main.cpp` | one action per completion handler; a message is a header and a body, a report goes out in two pieces. `submit`, a worker, the report queue and the dispatch thread appear with the interface their modules give them |
| `BookOpsProofs` | lemmas about the pure operations on a book | used by the next one and by `RecoveryProofs` |
| `OrderBookProofs` | theorems about `OrderBook` and `GatedBook` | see below, as for the next two rows |
| `ThreadPoolProofs`, `MPSCQueueProofs`, `WALProofs` | theorems about the module each is named after | |
| `ExecutionPipelineProofs`, `GatewayProofs`, `RecoveryProofs` | theorems about the module each is named after | |
| `MC*` | instances | constants and symmetry only |

Definitions whose comment starts with "Mutant" are not part of any specification:
each is a wrong variant of the definition after it, and the property paired with it in
`PROJECT.json` fails when the variant takes its place.

Text, symbols, log messages and the clock are left out: no property depends on them.
Prices, quantities and timestamps are small integers; nothing overflows below the
limits of `constants.hpp` (price times quantity stays under 2^50 when it is computed,
after both bounds were tested).

## Runs

| run | checks | shows |
|---|---|---|
| `order_book` | `TypeOK`, `LevelsWellFormed`, `IndexSound`, `NotCrossed`, `TradesConserved` | any calls on one book, also with repeated ids and modifies to price or quantity 0 |
| `gated_book` | `IndexComplete`, `ReportsTruthful`, `LimitsRespected`, refinement `PriceTimePriority` | the book behind the risk check |
| `exec_price` | `ExecAtRestingPrice` (violated) | `README.md:80` says the resting order dictates the price. `matchOrders` compares client timestamps, so an incoming order with the older one dictates it. A market order can even trade at its own nominal price, beyond the limit of the resting order; `LimitsRespected` therefore speaks of limit orders |
| `modify_limits` | `MatchedWithinLimits` (violated) | `README.md:64` says every incoming order is inspected. A modify goes round the risk check |
| `thread_pool` | `TypeOK`, `NoLostWakeup`, `NobodySleepsWhenClosed`, `Drained`, `AcceptedRuns`, `SubmitReturns`, `ShutdownReturns` | safety and liveness of queue and shutdown |
| `mpsc_queue` | `TypeOK`, `NoUseAfterFree`, refinement `FifoAtExchange` | memory safety and linearizability |
| `wal` | `FileIsPrefix`, `CleanStopKeepsAll`, `LoggedIsWritten`, `LogReturns`, `StopReturns` | what a crash or a stop leaves in the file, and that nobody waits for ever |
| `pipeline` | `DeliveredInOrder`, `CleanStopDelivers`, `PublishReturns`, `QueuesDrain`, `PipelineStops` | reports reach a client in queue order, a stop after the workers have ended (the order of `demo_main.cpp:255`) delivers all, and publishing and stopping end even when they overlap |
| `recovery` | `RecoveredIsPast`, `BooksSerial`, `FillsExplained`, `ReportsComplete`, `TradeIdsUnique` | two workers, two books, crashes anywhere. `RecoveredIsPast` compares a recovered book with what the calls in the file had made of the original, client ids apart. It holds unless a life was appended behind a cut record: then every later record is read shifted, which the model has and the property leaves out. `ReportsComplete` says only that the final state is among the reports: two calls on one book can publish in the other order |
| `recovered_ids` | `RecoveredTradeIds` (violated) | `README.md:84` says replay keeps trade ids "matching original execution numbers". Books draw ids in an order the log does not keep, and replay deals them out anew: in the trace a trade drawn as 2, behind the 1 of a call on another book that is not in the file, is replayed as 1 |
| `recovered_owners` | `RecoveredOwners` (violated) | `README.md:84` says replay serves "to reconstruct identical `OrderBook` states". A record has no client, so every recovered order belongs to client 0 and reports on it find no session |
| `gateway` | `StreamWhole`, `BufferAlive`, `PoolTakesAll`, `Answered`, `DisconnectNoticed`, `ShutdownEnds` | sessions, the io thread, the dispatch thread and the shutdown. `PoolTakesAll` rests on the order of `demo_main.cpp:251-255`: the io thread is joined before the pool is shut down. `Answered` says that an order gets a report and that every report a worker publishes for a client that stays arrives. It does not say that a cancel or modify is answered: it reports to the owner of the order (`order_book.cpp:187`, `:203`), whoever asked, and to nobody when there is no such order (`:155`, `:198`) or when the new quantity is 0 (`:51`) |

### Bounds

- `order_book`: 2 ids, 2 prices (and 0), quantities up to 2, 3 list nodes, no call
  starts after the third trade. Two orders at one price, two levels, a repeated id
  and a partial fill all happen; with 3 nodes an address is reused after an erase.
- `gated_book`: 3 orders, so that two can wait at one price, or at two prices, while
  the third matches. `MAX_ORDER_VALUE = 3` makes each test of the risk check refuse
  something except the price bounds. Modify requests carry legal prices and quantity
  1: a modify to quantity 0 takes the order out of the book with no report at all
  (`order_book.cpp:51`), which `ReportsTruthful` would reject.
- `thread_pool`: 3 producers, 2 workers, capacity 2, 2 submits each, so that both
  sides can sleep in number and a task is queued behind another; the proofs cover any
  numbers.
- `mpsc_queue`: 3 producers with 2 items each and 4 addresses, fewer than items, so
  that addresses are reused while producers still hold old pointers. When no address
  is free the exchange waits, which only removes behaviours.
- `wal`: 3 loggers with one entry each: one can be before its link while the others
  are behind theirs, and one can meet the closed queue. There is an address for every
  entry, so that fairness never waits for memory.
- `pipeline`: 2 workers with one result each, of one report, or of two reports and a
  trade, for one client: reports of two workers meet in the queue, and both queues are
  busy at once. Each client has its own history, so a second one adds no new case.
- `recovery`: 36 workloads of three requests (partial fills, market orders, cancels,
  modifies that trade, a second book), two workers, two crashes: the second one hits a
  life that began with a replay, or a file with a cut record in the middle.
  `recovered_ids` and `recovered_owners` have one workload of four requests, two orders
  that meet in each of two books, and one crash.
- `gateway`: two clients and a task queue of one place, so that the io thread blocks in
  `submit` with the task of one session while handlers of the other wait. One workload
  has a malformed packet before an order, the other an order beside a reject and a
  cancel or modify by the other client, which finds the order or does not. A call
  makes at most `MaxReports = 2` reports, one fill or none, to the sender and to the
  owner of an order it meets, so two reports meet in one session. Clients vanish at any point, with any part of what they
  sent lost.

`CHECK_DEADLOCK FALSE` is set where the model may stop: when its bounds are used up,
or when the pool, log or pipeline has been shut down.

### Fairness

Weak fairness of each thread's own steps: an operating system thread that can run
does run. Nobody has to submit, log, stop or shut down, a spurious wakeup never has
to come, and no lock has to be granted fairly: in the bounded instances a thread that
wants the mutex gets it once the others have used up their calls, so the runs do not
exclude that a caller starves behind a stream of others that never ends. In `WAL` and
`ExecutionPipeline` the retry loops yield, and the consumer threads sleep 100
microseconds when idle; these are ordinary steps or stuttering here. In `Gateway`
the io thread gets to every ready handler: asio keeps them in a queue and its reactor
reports every ready socket. Clients owe nothing, and `main` need not shut down, but
goes through with it once it has begun.

## Proofs

All theorems hold for every value of the constants that meets the named assumptions,
so for any number of orders, prices, nodes, threads, clients, items and crashes:
`BoundsAssumption` (limits are natural numbers), `NoOrderAssumption` (a null order is
no order), `InputAssumption`, `PoolAssumption`, `MPSCAssumption`, `ThreadAssumption`,
`NodeAssumption` (there are only finitely many addresses), `WorkloadAssumption`
(requests have the type `process_packet` gives them, so that a new order has its whole
quantity left; client 0, the one a replayed order gets, is a client), `CrashAssumption` and `PipelineAssumption` (a
result has at least one report; the publish loop of `thread_pool.cpp:105` is never
entered for an empty one).

- **`BookOpsProofs`** holds what is true of single operations. `Good(b)` joins types,
  structure (`Struct`) and the uncrossed book. `EraseStruct` (a node leaves its list,
  the heap and the index) and `PushStruct` (a node enters all three) carry the work;
  fills, cancels, modifies and rests are instances of them. The `...Shape` lemmas say
  part by part what an operation changes.
- **`OrderBookProofs`** — `TypeCorrect`, `MemorySafe` (`IndexSound`), `LevelsAlwaysWellFormed`, `NeverCrossed`. None of them is inductive
  alone: that the index stays sound when a level loses its front needs that no node is
  linked twice, that the nodes of a level carry its price, and that an entry names the
  list its node is in. `IInv` joins them. That an order which stops matching crosses
  nothing follows from `BestPriceIsBest`. `FillsAddUp` adds `CallInv`: running totals of
  the fills exist, the last one is what the incoming order has lost, and the reports
  are two per fill. Behind the risk check, `GatedInv` adds `OneOwner` (an accepted id is
  waiting, in a call or resting, and in one of these only), from which
  `EveryOrderIndexed` and `TradesWithinLimits` follow; the first is false of `OrderBook`
  alone, whose callers may repeat an id.
  `BookIsPriceTime` is the refinement of `PriceTimeBook`: the resting orders of the
  abstract book are the heap read in the order of `arrival`. It needs `TimeInv`:
  `arrival` lists every live node once, and each level list is in its order; then the
  front of the best level is the order that precedes all eligible ones, and the erased
  or pushed node is the one the abstract step removes or appends.
  `ReportsTell` has the hypothesis `NoZeroModify`, without which it is false: a modify to
  quantity 0 takes the order out of the book with no report (`order_book.cpp:51`).
  `ReportsTruthful` speaks of the time between calls only; `TruthInv` carries it through
  a call, by what the owners will know once the reports made so far have reached them
  (`Known`): it is right about every resting order, about the incoming one once it has
  traded, and about every accepted order that is nowhere any more.
- **`ThreadPoolProofs`** — `PoolTyped`, `WakeupsSuffice`, `CloseWakesAll`,
  `ShutdownDrains`. The invariant counts: while somebody sleeps there are at least as
  many awake threads of his kind on the way to the queue as there are items (or free
  places). The bound of the queue in `TypeOK` is `Bounded`: a woken producer tests the
  length again. `Drained` needs `Account` (an accepted task is queued, held or processed) and
  that a worker ends only on a closed, empty queue.
- **`MPSCQueueProofs`** — `QueueTyped`, `MemorySafe`, `ImplementsFifo`. The history
  variable `list` is the chain from `head_` to `tail_` in the order of the exchanges;
  the invariant says that a next pointer is null or leads to the following node, and
  that a producer between exchange and link owns a gap of its own. The consumer only
  moves when the first link is there, so it never deletes a node a producer is about
  to write to. The refinement maps an exchange to an enqueue, a take to a dequeue and
  everything else to stuttering. Its step lemmas are stated for single steps of the
  queue, so that the log can use them.
- **`WALProofs`** — `LogMemorySafe`, `LogFifo`, `LogPrefix`, `LogCleanStop`. `LogInv` is
  the queue's invariant and: the file is what was taken, as long as no write has failed,
  less the entry in the flush thread's hands; the flush thread leaves its loop only
  after `stop` has begun; and when `stop` found nobody logging, nobody is from then on,
  so that a flush thread that has ended leaves an empty queue.
- **`ExecutionPipelineProofs`** — `InOrder`, `CleanStop`. `PipeInv` follows the reports
  of one client through the queue: what was sent to it, the one in the dispatch
  thread's hands and the ones in the queue are, in this order, the ones enqueued.
- **`GatewayProofs`** — `StreamsWhole`, `BuffersAlive`, `NoTaskRefused`. `GateInv`: for
  each session the reports received, being written, in `write_queue_` and in posted
  handlers are, in this order, the reports posted; at most one write is outstanding, of
  the report at the front of the queue; the pool is stopped only after the io thread has ended.
- **`RecoveryProofs`** — `NumbersUnique`, `LogExplains`, `CallsSerial`, `ReplayRecovers`,
  `ReportsAll`. They are about all threads, books and lives at once, and rest on three
  invariants, each inductive on top of the ones before it.
  - `RecInv`: the generator is ahead of every number this life has used, in finished
    calls and in those under way, and when a replay resets it there is nothing yet
    (`Numbered`); every fill in the log names orders logged in front of it
    (`LogExplained`), because books, results and calls about to begin hold only orders
    that are in the log (`LiveExplained`). The second part is what makes the first
    inductive, although a fill is logged after the mutex was released.
  - `SerialInv`: for each symbol there is a chain of books, from the empty one, in which
    each log entry takes the book to what its call makes of it (`Chain`); `past` notes
    the content of these books (`Noted`); and the live book, or what the call in progress
    on it is going to leave, is the book of the chain at the position of the log, or of
    the replay (`Agrees`). The mutex makes the last part true of one call at a time
    (`Exclusive`). A replayed order has lost its client, and trade ids differ, so the
    books of the chain are in a normal form (`Strip`): `SameBegin`, `SameMatch` and
    `SameFinish` say that books alike up to clients and results stay alike, and
    `StripContent` that the normal form loses nothing of the content. A call under way
    is compared with the whole call by `CompletedStep`: one iteration now and the rest
    later is the rest, since the loop has ended by its bound (`LoopEnds`: each iteration
    but the last takes a node off the heap, and there are finitely many).
  - `TellInv`: until the first crash every order in a book has been told of by some
    report published, or on its way there (`Told`), and every order of the log is in its
    book, about to get there, or told to have ended. Reports are handed from the call to
    the result and from there to the queue, and none is lost on the way (`ToldBook`,
    `ToldResult`, `ToldPublished`); this is why they are complete although two calls
    can publish in the other order. `ReportsAll` has the hypothesis `AllAsk`, no request
    for quantity 0: `risk_checker.cpp:24` rejects such orders, nothing rejects such
    modifies, and both end without a report.

  Behind a cut record nothing is claimed of the log or of the books: replay may read
  any request there. `Leave` has a bound in its guard, that a list node is free, since
  an order has to rest somewhere.

The loop of a call is a recursive function over its rounds. Its induction is done by
hand: `NatSet` proves that a set with 0 and with each successor is all of `Nat`, from a
least counterexample, and the sets used say of a round what the lemma needs.

Every invariant and every refinement of the runs is proved. Only model-checked is the
liveness (`AcceptedRuns`, `SubmitReturns`, `ShutdownReturns`, `LoggedIsWritten`,
`LogReturns`, `StopReturns`, `PublishReturns`, `QueuesDrain`, `PipelineStops`, `Answered`,
`DisconnectNoticed`, `ShutdownEnds`), since the prover handles neither fairness nor
`ENABLED`. The four violations are counterexamples of TLC.

## Not modelled

- One life of pool, log and pipeline: `ThreadPool::start` after `shutdown` and `WAL::start`
  after `stop` are not called by the program. Reading the code, the second start of a
  log reopens the file but not its queue, and log calls would then retry for ever.
- A second, concurrent caller of `shutdown`, which returns before the workers ended.
- Accessors that only read (`bestBid`, `bestAsk`, `print_book`, sizes), destructors,
  the logger, clock and formatting, the script of the demo client.
- The vendored asio: of the measured lines of the repository all but about 2 400 are
  its headers, which no module translates.
- Exceptions in a worker (`thread_pool.cpp:116`), which nothing in a task is expected to
  throw but memory exhaustion; symbols over 7 characters, which records and messages cut;
  a side or type byte other than 0 and 1, which `from_net` lets through
  (`binary_serializer.hpp:90`) and every later test takes for `Sell` or `Market`.
- `ConnectionManager::clear`, which has no caller, and `~Session`. Sessions that
  `io_context.stop()` leaves in the static registry are destroyed after the io context;
  what their `close()` does then is outside the model.
- The demo deletes its log before it starts; that a new life appends to the file of an
  old one is the use `README.md:84` describes ("on startup") and `WAL::start` is written
  for. `seen_order_ids_` is not rebuilt by a replay; the risk check is not in `Recovery`.

## What could come next

Nothing is left of the safety properties. Further work would be about more of the
program: the replay of a file behind a cut record, if the code learns to find the next
whole one, and a risk check for modify requests, which would remove the hypotheses of
`ReportsTell` and `ReportsAll`.

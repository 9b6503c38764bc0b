# Verification of the UDP matching engine

TLA+ models of the matching engine in `src/`, their TLC runs and machine-checked
proofs. The program is a single-process exchange simulator: commands arrive as
CSV lines in UDP datagrams, one thread applies them to the order books of their
symbols, one thread prints the acknowledgements, trades and top-of-book changes.

To repeat a run: `tlc -workers 2 -config X.cfg M`. To repeat the proofs:
`tlapm M.tla` for each `*_proofs.tla`. `PROJECT.json` lists runs, theorems,
mutants, the source lines behind each definition, findings and hazards.

## 1. The system

| component | state | operations |
|---|---|---|
| `SymbolOrderbook` (`SymbolOrderbook.cpp`) | `bids_`, `asks_` (vectors of levels sorted by price, each with a deque of iterators and a running total), `orders_` (deque of orders, dead ones included), `ordersByKey_`, `nextSequence_`, `currentTopBid_`, `currentTopAsk_` | `processNewOrder` (four matching functions: market/limit x buy/sell), `processCancel`, `updateTopOfBookAndEmitChanges`, `flush` (never called) |
| level search (`findBidLevelIndex`, `findAskLevelIndex`) | locals `left`, `right`, `mid` | a binary search with lower-bound result |
| `OrderSlotPool` | `freeList_`, a stack of dead slots of `orders_` | `allocate`, `release` |
| `MatchingEngine` | `books_`: a book per symbol, created on first use | `processCommand`: route a new order, broadcast a cancel, destroy all books on a flush |
| `ThreadSafeQueue` | `queue_`, `mutex_`, `cv_`, `shutdown_` | `push`, `pop` (blocks), `shutdown` |
| pipeline (`MatchingEngineMain.cpp`) | `g_inputQueue`, `g_outputQueue`, `g_shutdownRequested`, the socket | input thread (socket, bind with 5 attempts, receive, parse, push), processing thread, output thread, SIGTERM handler, `main` (start, join) |
| `commandParser`, `StringUtil` | none | line to `Command`; may throw (`std::stoi`, `std::stoll`) |

**Interactions.** The input thread pushes commands into `g_inputQueue`. The
processing thread alone owns the engine and its books, so a book sees one command
at a time, and pushes the lines of each command into `g_outputQueue`. The output
thread prints them. Shutdown travels down the same way: a thread that ends shuts
down the queue it feeds.

**What is hard, and what makes each part correct.**

* *Book.* One command is a nest of loops that edit five linked structures, through
  iterators that outlive erasures and slots that are recycled. Correct means: the
  ladders stay sorted and hold just the live orders, queues stay in order of
  arrival, every slot is in use at one place or free once, the cancel map leads
  to the right order, totals match, quantities are conserved, matching follows
  price-time priority, the published tops are the true ones, every command ends.
* *Level search.* Boundaries of a half-open interval: it must return the insertion
  point, not probe outside the vector, and end.
* *Slot pool.* A slot must not be given out while something still refers to it, and
  none may be lost.
* *Engine.* A cancel reaches several books, in the order of a hash map; a flush
  destroys books without a line.
* *Queue.* Lost wake-ups; nothing lost, duplicated or reordered; after a shutdown
  what is queued is still delivered and every waiter returns.
* *Pipeline.* The order of shutdown, a bind that fails, a signal while the input
  thread blocks in `recvfrom`, an exception of the parser with commands queued.

`PROJECT.json` "hazards" lists these at their lines, with the properties that
cover them; the two without a property (a library's iterators, the network) say why.

## 2. Modules

```
PriceLadder           ladders of either side, search and insertion point
  LevelSearch         the search loop, probe by probe         MCLevelSearch
  BookTypes           orders, commands, tops, lines, 64-bit wrap-around
    SymbolOrderbook   the book and its slot pool
      SymbolOrderbookRefinement   ... implements PriceTimeBook   MCSymbolOrderbook
      SymbolOrderbookClaims       what documents say of it
    PriceTimeRules    what a command does to a book, in one expression
      PriceTimeBook   the abstract book: one atomic step a command
      EngineRules     what a command does to the books of an engine
        MatchingEngine   routing, and the broadcast of a cancel book by book
          EngineLedger   ... watched by an auditor of orders   MCEngineLedger
          EngineClaims   what documents say of a cancel
        CommandParser    what becomes of a line
          Pipeline       main, three threads, two queues, SIGTERM   MCPipeline
            PipelineClaims            what comments say of it
QueueRules            what a queue with an end holds (used by Pipeline too)
  BlockingFifo        the abstract queue: one atomic step an operation
ThreadSafeQueue       mutex, condition variable, notifications; implements BlockingFifo

Foundations_proofs -> LevelSearch_proofs
                   -> SymbolOrderbook_proofs -> SymbolOrderbookMatching_proofs
                   -> EngineRules_proofs -> SymbolOrderbookMatching_proofs
                                         -> EngineLedger_proofs
                                         -> Pipeline_proofs
ThreadSafeQueue_proofs
```

The parts are joined through abstract specifications. The detailed book implements
`PriceTimeBook`, whose rules (`PriceTimeRules`) serve as the books of the engine.
`OutcomePermitted` shows that the engine's loops do what `EngineRules` says, and the
pipeline's processing thread executes a command by those rules. The detailed queue
implements `BlockingFifo`, and the pipeline's two queues follow the same
`QueueRules`, one atomic step an operation.

### LevelSearch

The state is the locals of the search; `ReturnMid`, `SearchRight`, `SearchLeft` are
the three branches of the loop body, `ReturnLeft` its end. The buy and the sell
search differ by one comparison, which `Better(side, ..)` supplies. Indices count
from 0 as in the code. The book uses the result of a search as the operator
`FindLevelIndex` (counting from 1): `SearchCorrect` is what licenses that.

### SymbolOrderbook

| variable | code |
|---|---|
| `levels["Buy"]`, `levels["Sell"]` | `bids_`, `asks_`; best level first |
| `orders` | `orders_`; an iterator is the index of its slot |
| `ordersByKey` | `ordersByKey_`; 0 stands for no entry |
| `freeList` | `slotPool_.freeList_` |
| `top` | `currentTopBid_`, `currentTopAsk_` |
| `nextSequence` | `nextSequence_` |
| `pc`, `cmd`, `incomingQty`, `it`, `traded` | where the processing stands, and the locals of the matching functions |
| `out` | `outputLines` of the command |

A new order goes through these steps, each an action: `ProcessNewOrder`
(acknowledge), `EnterLevel` or `StopMatching` (the head of the `while`),
`SkipOwnOrder`, `PartialFill`, `FullFill` (one round of the `for` over the deque of
the best level), `DropLevel`, `RescanLevel`, `StopAtLevel` (what follows the `for`),
`RestOrder` (limit orders), `UpdateTopOfBook`, `DeliverOutput`. A cancel is one
action, `CancelKnown` or `CancelUnknown`, then `UpdateTopOfBook`. The mirrored buy
and sell functions are one set of actions over `cmd.side`; `MatchMarketBuy`,
`MatchMarketSell`, `MatchLimitBuy`, `MatchLimitSell` name the four functions.

Points where the model follows the build and not the language standard:

* `std::deque::push_back` on `orders_` invalidates iterators by the standard. The
  model takes what libstdc++ does: an iterator keeps pointing to its element.
* A 64-bit total that overflows wraps around, as the unoptimised and the usual
  optimised build compute it (`Int64`).

### PriceTimeRules, PriceTimeBook

The promise of a book: a book is a set of resting orders; a new order trades with
the *eligible* orders (another user's, within the limit, no own order at a better
price in front), best first, and a limit order rests with what is left. One
command is one step. `SymbolOrderbookRefinement` maps the detailed book to it: the
abstract step is the one that publishes, and a history variable `found` keeps the
book a command started from.

### EngineRules, MatchingEngine, EngineLedger

| variable | code |
|---|---|
| `books` | `books_`: a function from the symbols that have a book; each with its resting orders, cancel map and published tops |
| `command`, `lines` | the argument of `processCommand` and its `outputLines` |
| `pending` | the books the loop of a cancel has still to visit |

`RouteNewOrder` is `books_[symbol].processNewOrder`, creating the book if need be; `Flush`
is `books_.clear()`, which gives no line; `StartCancel` and `CancelInBook`
are the loop over the `unordered_map`, in any order; `Return` hands the lines over.
`EngineRules` says the same in one expression, as the set of `Outcomes` a command may
have. `EngineLedger` adds an auditor who knows the orders sent since the last flush and
reads the trades printed. It assumes what `OrderBook_Guide.txt` 9.7 asks: an id of a user names
one order. Ids may be used again after a flush.

### ThreadSafeQueue, BlockingFifo

| variable | code |
|---|---|
| `queue`, `shutdown` | `queue_`, `shutdown_` |
| `mutex` | the thread that holds `mutex_` |
| `pc` | where a thread stands: outside, before a lock, at a statement under the lock, before a notification, asleep in `cv_.wait`, or after its loop |
| `value` | the argument of `push`, or the `out` of `pop` |

`push` is `CallPush`, `Lock`, `PushBack` (whose end is the unlock), `NotifyOne`: the
notification comes *after* the unlock. `shutdown` is `CallShutdown`, `Lock`, `SetShutdown`,
`NotifyAll`. `pop` is `CallPop`, `Lock`, then `Wait` (unlocks and sleeps in one step, as a
condition variable does), or `Front` and `PopFront`, or `ReturnFalse`. A sleeper is woken by a
notification or for no reason (`WakeSpuriously`), takes the mutex again and tests
again. The queue is modelled for several producers and consumers, as
its interface allows; the program uses one of each. One rule of its callers is
part of the model: nothing is pushed once `shutdown` was called. `Pipeline` proves that
its threads keep that rule (`NoPushAfterShutdown`).

In `BlockingFifo` an operation is a call, one atomic step, and a return. The
refinement mapping puts the atomic step of `pop` at `front()`: between `front()` and
`pop_front()` the abstract queue no longer has the item.

### CommandParser

`ParseLine` says what becomes of a line, given as its trimmed tokens: a command,
`Invalid` (blank, unknown tag, wrong number of tokens), or `Throws`. A
token is its text and the number `stoi` or `stoll` would read at its front, if any:
`IntMax` and `Int64Max` stand for the ranges beyond which they throw. Any text but `S` is the
side buy, as in the code. A flush is recognised by its first token alone.

### Pipeline

| variable | code |
|---|---|
| `input`, `processing`, `output` | where the three threads stand |
| `main` | how many threads `main` has started (up to 3) and joined (up to 6); `Terminated` after `std::terminate` |
| `shutdownRequested` | `g_shutdownRequested` |
| `attempts` | failed attempts to bind |
| `datagram` | the lines of the buffer still to be read |
| `inputQueue`, `outputQueue` | `g_inputQueue`, `g_outputQueue` |
| `books`, `outputs` | the engine of the processing thread; the lines of the command it has still to push |
| `popped`, `stdout` | the line the output thread holds; what is printed |
| `accepted` | history: every command pushed to the input queue |

The input thread opens a socket (`SocketOpens`, `SocketFails`), binds (`BindSucceeds`,
`BindFails`, `GiveUp` after five failures), then loops: `EnterReceive` reads the flag,
`Receive` or `ReceiveNothing` is what `recvfrom` returns, `SkipLine`, `QueueCommand` and
`ParserThrows` are what becomes of a line, `LeaveLoop` ends the thread and shuts its queue
down. `recvfrom` is external: clients' datagrams may arrive any number of times, in any order, or
never, and one that is larger than the buffer arrives cut, in the middle of a line or of a
number. An exception of the parser leaves the thread's function, so that all threads
stop where they stand. The flag may be set at any moment (`Sigterm`).

## 3. Runs

| run | what it shows | bounds |
|---|---|---|
| `level_search` | search result, interval invariant, termination | every ladder over prices 1..5, targets 0..6 |
| `book` | eight invariants, four action properties, `SymbolOrderbook` implements `PriceTimeBook` | 3 users with one id each, prices 0 (market), 1, 2, quantities 0, 1, 3, 3 limit orders |
| `book_two_ids` | a cancel loses an order only to another order of the same user and id; `SymbolOrderbook` implements `PriceTimeBook`; every command completes | 2 users, 2 ids each, one limit price and market orders, quantities 1, 2, 3 limit orders, no symmetry |
| `engine` | loops and routing do what `EngineRules` allows; every order is accounted for from entry to end; trades are legal; a broadcast cancel takes one order | 2 users, 2 ids, 2 symbols, prices 0, 1, 2, quantities 1, 2, 3 orders between two flushes |
| `queue` | no lost wake-up, `ThreadSafeQueue` implements `BlockingFifo`, items keep moving, a shutdown drains | 2 producers, 2 consumers, 2 values, 3 items |
| `pipeline` | the lines are those of a sequential engine; nothing is left at exit; no push after shutdown; the process ends when the input thread does, and after a SIGTERM under traffic | 8 datagrams, 2 users, 2 symbols, receive while fewer than 2 commands were queued |
| `market_walk`, `crossed_book`, `total_overflow` | findings of section 6 | 2 users, 2 ids, prices 0, 1, 2, quantities 1, 2, live ids not reused |
| `cancel_unanswered` | finding of section 6 | 2 users with one id each, 2 symbols, every id used once |
| `sigterm_blocks`, `parser_throws` | findings of section 6 | as `pipeline`, one command |

Bounds, all named: `MaxRested` is the number of limit orders a behaviour lets in
(`nextSequence` counts those that rested). Three are enough for two levels of one
side, a queue of three, a level with own and others' orders, a slot released and
given out again, an id used for two live orders, and a sequence of fills that ends
inside a level; the run fires every action. Market orders and cancels are not
bounded. `Int64Max = 3` stands for the largest 64-bit number: an order of quantity 3 and
one more already wrap. Quantity 0 is a legal input of the parser; 1 and 3 give
fills that end inside an order on either side and sweeps over several orders. Users and ids are
interchangeable in the safety runs (symmetry); the run with liveness uses none.
A user may reuse the id of an order that rests: `OrderBook_Guide.txt` 9.7 takes ids to be unique, but the
code does not check it, so both runs of the book allow it. `CancelLostOnlyByReuse` bounds the damage: an
order is out of reach of its cancel only after another order of the same user and id came (and took over its
entry) or went (and took its entry along). It needs two ids of one user, to see that the other
id is not harmed, hence `book_two_ids`. The findings do not hang on reuse: their runs forbid it (`NewIdIsFree`).

Engine: `MaxOrders = 3` is enough for an order of one symbol that meets another, a third one
of the other symbol, partial fills in either role, the id of a flushed order used again,
and a cancel that meets zero, one or two books. Users, ids and symbols are interchangeable
(symmetry; the run has no liveness).

Queue: two consumers are needed for one to take the item another was woken for, two producers
for two notifications on their way at once, two values to tell the order. Three items is one more
than there are consumers, so that a backlog remains while both are busy. `MaxItems` guards
the start of a push only.

Pipeline: `MaxAccepted = 2` guards the receipt of a datagram, and a datagram may carry two
commands, so up to three are queued. The datagrams hold two orders that trade, an order for
another symbol with a blank line and its cancel, a cancel of either, a flush, too few
tokens, text where a number should be, a number too large, and one longer than the buffer
whose cut gives a shorter id. `IntMax = 50` and `Int64Max = 99` stand for the largest `int` and `long long`.
The five bind attempts are the code's.

Deadlock is not checked where the program may stop: a search that has returned
(`level_search`), threads that have ended with the queue shut down (`queue`), a
process that has exited or waits for a datagram (`pipeline` and its findings). A book and an
engine can always take a further command, so the other runs do check.

**Fairness.** `FairHistSpec` adds weak fairness of `ProcessingStep`: the processing thread
runs, and nothing it does inside a command waits for another thread. Nothing is
assumed about commands arriving. `LevelSearch` likewise assumes only that its loop
goes on. The queue assumes weak fairness of what a thread does inside an operation (and
that a consumer calls `pop` again, as the loops of the threads do), and strong fairness of `Lock`: of
the threads that wait for a mutex that is released again and again, each gets it. Neither calls
of `push` and `shutdown` nor spurious wake-ups are assumed. The pipeline assumes weak fairness of
each of its four threads, none of the network or of signals;
`SigtermEndsUnderTraffic` states in its formula the assumption it needs, that
`recvfrom` goes on returning.

Each property has a mutant, an operator such as `AllocatedSlotBeforeEnd` or
`FullFillSkipsNext` next to the definition it alters, that makes the property fail.

## 4. Proofs

Every invariant and every action property of the passing runs is a theorem, and so are both
refinements, of the book and of the queue: proved with
TLAPS for every value of the constants: any sets of users, ids and symbols, all sets of integer
prices and quantities, any `Int64Max`, any number of orders and books; for the queue any finite
sets of producers and consumers, any values and any `MaxItems`; for the pipeline any datagrams and
any `MaxAccepted`. The assumptions are those of the modules: prices and quantities are
integers, `Int64Max` is positive, ladders given to the search are sorted, the threads of a queue
are finitely many and either produce or consume, and every line of a datagram, cut ones too,
reads as a command of the users, ids, symbols, prices and quantities of the model, as `Invalid` or as
`Throws` (`DatagramsAreCovered`).

* `Foundations_proofs`: in a strictly sorted ladder `FindLevelIndex` is well defined,
  unique, and hits the level of a price that is there; finite sums.
* `LevelSearch_proofs`: `SearchTypeCorrect`, `SearchKeepsAnswer`, `SearchIsCorrect`. The interval invariant is
  inductive with the type invariant; sortedness carries one comparison over to all
  levels before or after the probe.
* `SymbolOrderbook_proofs`: first, without state, the edits of ladders and slots (an order
  reduced, taken out of a deque, appended; a level removed, inserted); then the
  inductive invariant `IInv`, one lemma per action, and from it `TypeCorrect`,
  `LaddersStaySorted`, `QueuesStayFifo`, `SlotsStayPartitioned`, `KeyMapStaysSound`.
* `SymbolOrderbookMatching_proofs`: what steps do and what the book adds up to:
  `TradesFollowPriority`, `StopsAreBlocked`, `StorageGrowsFull`, `TopsStayFresh`,
  `CancelsLoseByReuse`, `CancelsReachEveryOrder`, `QuantitiesAreConserved`, `TotalsAreSums`, `FeedIsFaithful`; then the
  refinement `BookImplementsRules` (`HistSpec => ImplementsPriceTimeBook`).
* `EngineRules_proofs`: lemmas about the rules of one command, for any book: fills are with
  eligible orders in turn, never exceed what the order asks, and leave of each order what
  they did not take; what is acknowledged, printed and kept; and that an order served all at
  once comes to the same as one served maker by maker.
* `EngineLedger_proofs`: `EngineLoops`, `OutcomesArePermitted`, `LedgerAgrees`, `TradesLegal`,
  `CancelTakesItsOrder`, `EveryOrderIsAccounted`.
* `ThreadSafeQueue_proofs`: `QueueTypeCorrect`, `WakeupsAreNotLost`, and the refinement
  `QueueIsFifo` (`Spec => ImplementsBlockingFifo`).
* `Pipeline_proofs`: `PipelineTypeCorrect`, `PipelineIsSequential`, `ExitLeavesNothing`, `ShutdownIsLast`.

**The book.** None of the five state properties is inductive alone; `IInv` joins

* `Consistent(levels, orders)`: sorted ladders, every queued order alive on its side
  at its price, queues in order of sequence, every live order queued. Uniqueness of
  places follows: side, price and sequence tell an order. Without "every live order
  queued" a cancelled order might not be found where its price says;
* `FreeSlots`: the free list holds the dead slots, each once. It makes the slot
  `allocate` gives out a dead one, so that nothing else refers to it;
* `KeysSound`: the cancel map. It needs the sequence numbers, since a reused id must
  lead to the latest order;
* `Numbered`: no order has a sequence number still to be given, so a new order is
  behind all others in its queue;
* `Filled`: only the level being matched may be empty. It is what makes dropping the
  one level enough;
* `ScanInv`: while the loop stands at place `it`, the orders before it are the user's
  own as long as quantity is left. Priority and `StopsOnlyWhenBlocked` rest on it;
* `RestInv`: what rests has positive quantity.

On top of `IInv` stand four smaller invariants:

* `ReachInv`, for `CancelsReachEveryOrder` (`Spec /\ LiveIdsAreUnique => []CancelReachesEveryOrder`: the assumption
  is that no new order has the id of an order of its user that rests): every live order has the
  entry of its key, *and* none has the key of the order being matched. The second half is what
  makes the entry written when that order comes to rest harmless; a fill and a cancel erase
  the entry of one order, which is no other's;
* `QuantityInv`, for `QuantitiesAreConserved`: the property, and that nothing is left over between commands;
* `TotalsInv`, for `TotalsAreSums`: in every level, the one being matched too, the total is the wrapped sum
  of the queue. An edit changes the queue of one level by one order, so the sum changes by one
  summand, and wrapping after each change is wrapping once (`Int64Absorbs`);
* `FeedInv`, for `FeedIsFaithful`: no B line before the end of a command, and an invalid top is the empty
  one, so that tops `TopEqual` cannot tell apart are the same.

**The refinement of the book.** `PriceTimeBook` serves an order at once: it sorts the eligible orders, gives each
what those ahead of it leave, and makes the new book. The code goes from maker to maker. Two things bring
them together.

First the rules alone (`EngineRules_proofs`): if an order leads all that are eligible, then serving a new order is
the same as a trade with that one followed by serving what is left of the new order in the book that
is left (`ServedAfterFill`, `ServedAfterLast`; `Continues` says what "the same" means: the same book in
the end, and the lines of the rest after the line of this trade). Taking the leader away changes what is eligible, what
each of the others is left and the sorting by just that order (`SortedIsUnique`). If nobody is eligible, or nothing
asked, the order rests or goes (`NothingTraded`).

Then the loop. `RefInv` is `IInv`, `TotalsInv`, `NumbersInv` (the number of an order names it, so that the set of
orders the abstract book sees and the slots correspond one to one) and `ServingInv`: while an order is
matched, serving its rest, with the book as it stands, gives the book and the lines that serving the whole
of it gives with the book found at the start (`StillToServe`); before it rests nobody is left to trade with (`Dry`);
before the tops are published the book and the lines are those of the rules (`Served`). The loop keeps this because the order at `it`
leads the eligible ones (`TargetLeads`: the best level is the best price, its queue is in order of arrival, and what was passed is the
user's own), and because the loop stops only when nobody is eligible (`LoopEndsDry`, `OwnOrdersBlock`). `PriceAcceptable` is part of it
during a scan, since the limit is tested at the head of the `while` and not again.

The tops computed from the first level are those of the set of orders (`TopsAreComputed`, which needs
`TotalsInv` and `Filled`). `UpdateTopOfBook` maps to the abstract command, `DeliverOutput` to `Deliver`, and all other steps
leave the abstract book as it was found.

**The engine.** `LoopingInv` types the books and says what the loop of a cancel has done: the books visited are
as the rules leave them, the others as they were, and there is one group of lines for each book
visited, in the order of the visits. When the loop ends, this is `OutcomePermitted`. `LedgerInv` relates
the auditor and the books: every resting order is in the ledger with its side, price and
symbol and what the lines printed left of it, so that a key rests in one book at most; what is owed
to an order rests; the cancel map of a book is true to what rests there (`KeysTrue`); nothing cancelled
rests, but for the order the running broadcast has still to reach; and the trade lines at
hand are legal. The step of a new order needs the
rules: each fill takes from one resting order what its line says, so that ledger and
book stay in step, and no order appears in two fills.

**The queue.** Its invariant is the types (`Typed`) with three parts:

* `MutexHeld`, which `TypeOK` states too: whoever stands in a critical section holds the mutex, nobody else does. Every other
  part rests on it;
* `HeadTaken`: a consumer between `front()` and `pop_front()` has the head of the queue, so the
  item removed is the item delivered. The refinement mapping needs it;
* `NoLostWakeup`: while a consumer sleeps, every queued item has a thread of its own on its way
  (a producer about to notify, a consumer about to test or to take). It counts threads against
  items: each step that leaves the set of attending threads either removes an item or wakes another.

`QueueIsFifo` maps each step to a step of `BlockingFifo` or to a stutter: `PushBack` to `Push`, `Front` to
`Pop`, `SetShutdown` to `Shutdown`, `ReturnFalse` to `PopFails`, the calls to themselves; locks, waits,
notifications and wake-ups, spurious ones too, stutter.

**The pipeline.** `IInv` joins `TypeOK` with `ClosedByFeeder` (a queue is shut down exactly when the thread
that feeds it has ended), `NothingInHand` (a thread that waits or has ended holds no line, and
one that has ended left a drained queue) and `MainKnows` (which threads `main` has started and joined).
"Nothing is left at exit" follows by going back along the joins; it is not inductive
alone, since it says nothing until `main` has returned. `SequentialBehaviour` asks which books a sequential
engine could have after the commands taken so far: its invariant `SeqInv` says that the accepted
commands are those taken followed by those queued, and that the books and the lines printed,
held and queued are one of that engine's runs. Taking a command is the one step that extends the run; the others move a line along.

**Induction over data.** The library's induction theorems cannot be used by the installed provers. Where a
proof needs induction (sums over finite sets, concatenation of lines, runs of commands, fills in turn),
the set of counterexamples is formed and its least member refuted, which needs only that a
nonempty set of naturals has a least member (`LeastNat`).

**Checked by TLC only.** Liveness, which is out of the prover's reach: `Terminates`,
`CommandCompletes`, `ItemsKeepMoving`, `ShutdownDrains`, `EndOfInputEndsAll`, `ServesOrEnds`, `SigtermEndsUnderTraffic`.

## 5. Not modelled

* `SymbolOrderbook::flush`: nothing calls it, the engine destroys the books instead. It
  would leave `slotPool_` with slots of a storage that was cleared.
* Characters: how `trim` and `split_csv` find the tokens of a line, and how a line is worded. The
  pipeline's lines are sequences of tokens, its output lines records.
* The sockets beyond what `socket`, `bind` and `recvfrom` may return; the delay between two attempts to bind.
* The hash of `OrderKey`: `ordersByKey_` is a function of the key.
* Build files, container, test data and reports: no behaviour of the program.

## 6. Where documents and code differ

* `market_walk`: `DESIGN.md:136` has market orders walk levels "until filled or
  exhausted". `matchMarketBuy` and `matchMarketSell` stop at the first level that still
  holds any order, the user's own included, and drop the rest of the quantity
  although another user's order may rest one level on.
* `crossed_book`: `OrderBook_Guide.txt:92` says "A buy trades when buy price >= best
  sell price." A limit order held up by the user's own order at the best price rests
  beyond another user's order: two orders rest that cross.
* `total_overflow`: `SymbolOrderbook.hpp:99` calls `totalQuantity` the "sum of all
  remaining quantities". The addition is not checked: two quantities that each fit in
  64 bits make it wrap. `LevelTotals` shows that the total is still right modulo 2^64,
  so it recovers once orders leave.
* `cancel_unanswered`: `OrderBook_Guide.txt:44` says "If the order is already filled or gone, the cancel
  still produces an acknowledgement." The loop of `processCommand` asks the books, and only a book
  acknowledges: after a flush the order is gone and there is no book, so the cancel gets no line. (With
  several books it gets one from each.)
* `sigterm_blocks`: `MatchingEngineMain.cpp:258` says SIGTERM "Causes input thread to exit recvfrom
  loop". The handler sets a flag that the loop tests before it calls `recvfrom`; installed with
  `std::signal` it does not make the call return, and it may run in another thread. Without a further
  datagram the process stays. `SigtermEndsUnderTraffic` shows that it ends if datagrams come.
* `parser_throws`: `commandParser.hpp:7` says the parser "Returns a Command with type ==
  CommandType::Invalid on parse failure." `std::stoi` and `std::stoll` throw on text that is no number
  or is out of range, nothing catches, and the process is terminated with commands queued and lines
  unprinted. `SequentialBehaviour` shows that what was printed until then is right.

Smaller ones, seen while modelling and followed as the code has them:

* A flush empties both sides of every book but no top-of-book line says so, contrary to
  `DESIGN.md:153-158`; a book created afterwards starts from empty tops, so a reader of the feed learns of the
  change only with the next order.
* `OrderBook_Guide.txt` 9.7 says that a user's id "uniquely identifies an order". Nothing rejects a second order
  with the id of one that rests; `CancelLostOnlyByReuse` says what that costs.
* A datagram larger than 4096 bytes is cut, contrary to the comment "partial reads do not occur"
  (`MatchingEngineMain.cpp:157`).

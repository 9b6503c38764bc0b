---- MODULE SymbolOrderbook ----
(***************************************************************************)
(* The book of one symbol: SymbolOrderbook.cpp, with the slot allocator of *)
(* OrderSlotPool.cpp that recycles the storage of dead orders.             *)
(*                                                                         *)
(* One command at a time is processed, in the steps the loops of the code  *)
(* take: a new order walks the opposite ladder level by level and order by *)
(* order, then rests, then the change of the top of book is published.     *)
(* An iterator into orders_ is the index of its slot.  The buy and sell    *)
(* functions of the code mirror each other: here the side of the command   *)
(* selects the ladder.                                                     *)
(***************************************************************************)
EXTENDS BookTypes, SequencesExt

CONSTANT MaxRested   \* bound: limit orders enter while nextSequence allows it

ASSUME MaxRestedIsNat == MaxRested \in Nat

\* A PriceLevel: orders is the FIFO deque of iterators.
PriceLevel == [price : Int, totalQuantity : Int, orders : Seq(Nat \ {0})]

VARIABLES
    levels,          \* bids_ and asks_: the ladder of each side
    orders,          \* orders_: the slots, dead ones included
    ordersByKey,     \* the slot a cancel of the key reaches; 0: no entry
    freeList,        \* slotPool_.freeList_, a stack
    top,             \* currentTopBid_ and currentTopAsk_
    nextSequence,    \* nextSequence_
    pc,              \* where the processing of the command stands
    cmd,             \* the command
    incomingQty,     \* the local incomingBuyQty / incomingAskQty
    it,              \* the index in the best level's deque
    traded,          \* the local traded
    out              \* outputLines of the command

store == <<levels, orders, ordersByKey, freeList, nextSequence>>
vars == <<levels, orders, ordersByKey, freeList, nextSequence,
          top, pc, cmd, incomingQty, it, traded, out>>

----------------------------------------------------------------------------
(* Helpers. *)

\* computeTopBid, computeTopAsk.
ComputeTop(lv) ==
    IF lv = <<>> THEN NoTop
    ELSE [valid |-> TRUE, price |-> lv[1].price,
          totalQuantity |-> lv[1].totalQuantity]

\* removeEmptyBidLevel, removeEmptyAskLevel.
DropIfEmpty(lv, n) ==
    IF n <= Len(lv) /\ lv[n].orders = <<>> THEN RemoveAt(lv, n) ELSE lv

\* Mutant of WithLevel: a new level always goes to the back.
WithLevelAtBack(sd, lv, p) ==
    IF HasLevel(sd, lv, p) THEN lv
    ELSE Append(lv, [price |-> p, totalQuantity |-> 0, orders |-> <<>>])

\* getOrCreateBidLevel, getOrCreateAskLevel.
WithLevel(sd, lv, p) ==
    IF HasLevel(sd, lv, p) THEN lv
    ELSE InsertAt(lv, FindLevelIndex(sd, lv, p),
                  [price |-> p, totalQuantity |-> 0, orders |-> <<>>])

\* Mutant of Enqueued: the order joins the front of the queue.
EnqueuedInFront(sd, lv, p, slot, qty) ==
    LET n == FindLevelIndex(sd, lv, p)
    IN  [WithLevel(sd, lv, p) EXCEPT
            ![n].orders = <<slot>> \o @,
            ![n].totalQuantity = Int64(@ + qty)]

\* The tail of matchLimitBuy / matchLimitSell: the slot joins the level.
Enqueued(sd, lv, p, slot, qty) ==
    LET n == FindLevelIndex(sd, lv, p)
    IN  [WithLevel(sd, lv, p) EXCEPT
            ![n].orders = Append(@, slot),
            ![n].totalQuantity = Int64(@ + qty)]

\* Mutant of Dequeued: the total of the level keeps the cancelled quantity.
DequeuedNotCounted(lv, n, slot, qty) ==
    IF \E k \in 1..Len(lv[n].orders) : lv[n].orders[k] = slot
    THEN LET k == CHOOSE j \in 1..Len(lv[n].orders) : lv[n].orders[j] = slot
         IN  [lv EXCEPT ![n].orders = RemoveAt(@, k)]
    ELSE lv

\* The loop of processCancel over the level's deque.
Dequeued(lv, n, slot, qty) ==
    IF \E k \in 1..Len(lv[n].orders) : lv[n].orders[k] = slot
    THEN LET k == CHOOSE j \in 1..Len(lv[n].orders) : lv[n].orders[j] = slot
         IN  [lv EXCEPT ![n].orders = RemoveAt(@, k),
                        ![n].totalQuantity = Int64(@ - qty)]
    ELSE lv

\* Mutants of ErasedKey: the entry stays; the user's other entries go too.
KeptKey(key) == ordersByKey
ErasedUser(key) == [k \in Key |-> IF k[1] = key[1] THEN 0 ELSE ordersByKey[k]]

\* ordersByKey_.erase
ErasedKey(key) == [ordersByKey EXCEPT ![key] = 0]

\* Mutant of Released: the slot is forgotten.
NotReleased(slot) == freeList

\* OrderSlotPool::release
Released(slot) == Append(freeList, slot)

Opp == Opposite(cmd.side)
IsMarket == cmd.price = 0
BestLevel == levels[Opp][1]
RestingSlot == BestLevel.orders[it]
Resting == orders[RestingSlot]

----------------------------------------------------------------------------
(* Actions. *)

Init ==
    /\ levels = [sd \in Side |-> <<>>]
    /\ orders = <<>>
    /\ ordersByKey = [key \in Key |-> 0]
    /\ freeList = <<>>
    /\ top = [sd \in Side |-> NoTop]
    /\ nextSequence = 1
    /\ pc = "idle"
    /\ cmd = NoCommand
    /\ incomingQty = 0
    /\ it = 1
    /\ traded = FALSE
    /\ out = <<>>

\* processNewOrder: acknowledge, then start to match.
ProcessNewOrder(c) ==
    /\ pc = "idle"
    /\ c.price # 0 => nextSequence <= MaxRested
    /\ pc' = "level"
    /\ cmd' = c
    /\ incomingQty' = c.quantity
    /\ out' = << AckLine(c) >>
    /\ UNCHANGED <<store, top, it, traded>>

\* Mutant of PriceAcceptable: equal prices do not cross.
PriceInsideLimit == IsMarket \/ Better(Opp, BestLevel.price, cmd.price)

\* The limit of the order lets it trade at the best opposite level.
PriceAcceptable == IsMarket \/ ~Better(cmd.side, BestLevel.price, cmd.price)

CanMatch == incomingQty > 0 /\ levels[Opp] # <<>> /\ PriceAcceptable

\* The head of the while loop lets the order in: iterate the best level.
EnterLevel ==
    /\ pc = "level" /\ CanMatch
    /\ pc' = "scan"
    /\ it' = 1
    /\ traded' = FALSE
    /\ UNCHANGED <<store, top, cmd, incomingQty, out>>

\* A market order never joins the book: what is left of it is dropped.
AfterLoop == IF ~IsMarket /\ incomingQty > 0 THEN "rest" ELSE "publish"

\* The while loop ends, by its condition or at a price beyond the limit.
StopMatching ==
    /\ pc = "level" /\ ~CanMatch
    /\ pc' = AfterLoop
    /\ UNCHANGED <<store, top, cmd, incomingQty, it, traded, out>>

\* The for loop over the best level's deque goes on.
Scanning == pc = "scan" /\ it <= Len(BestLevel.orders) /\ incomingQty > 0

\* No self-matching: the order of the same user is stepped over.
SkipOwnOrder ==
    /\ Scanning
    /\ Resting.userId = cmd.userId
    /\ it' = it + 1
    /\ UNCHANGED <<store, top, pc, cmd, incomingQty, traded, out>>

\* Mutant of TradeQty: the resting order is always taken whole.
TradeWhole == Resting.quantity

TradeQty == SmallerOf(incomingQty, Resting.quantity)

\* What the partial and the full fill of a resting order have in common.
Trade ==
    /\ incomingQty' = incomingQty - TradeQty
    /\ orders' = [orders EXCEPT ![RestingSlot].quantity = @ - TradeQty]
    /\ traded' = TRUE
    /\ out' = Append(out, TradeLine(cmd, Resting, TradeQty))

\* The incoming order is used up first.
PartialFill ==
    /\ Scanning
    /\ Resting.userId # cmd.userId
    /\ TradeQty < Resting.quantity
    /\ Trade
    /\ levels' = [levels EXCEPT ![Opp][1].totalQuantity = Int64(@ - TradeQty)]
    /\ it' = it + 1
    /\ UNCHANGED <<ordersByKey, freeList, nextSequence, top, pc, cmd>>

\* Mutant of FullFill: the iterator also moves on after the erase.
FullFillSkipsNext ==
    /\ Scanning
    /\ Resting.userId # cmd.userId
    /\ TradeQty = Resting.quantity
    /\ Trade
    /\ ordersByKey' = ErasedKey(KeyOf(Resting))
    /\ freeList' = Released(RestingSlot)
    /\ levels' = [levels EXCEPT
          ![Opp][1].orders = RemoveAt(@, it),
          ![Opp][1].totalQuantity = Int64(@ - TradeQty)]
    /\ it' = it + 1
    /\ UNCHANGED <<nextSequence, top, pc, cmd>>

\* The resting order is used up: its key is erased, its slot released, and its
\* iterator taken from the deque, which leaves it at the next order.
FullFill ==
    /\ Scanning
    /\ Resting.userId # cmd.userId
    /\ TradeQty = Resting.quantity
    /\ Trade
    /\ ordersByKey' = ErasedKey(KeyOf(Resting))
    /\ freeList' = Released(RestingSlot)
    /\ levels' = [levels EXCEPT
          ![Opp][1].orders = RemoveAt(@, it),
          ![Opp][1].totalQuantity = Int64(@ - TradeQty)]
    /\ UNCHANGED <<nextSequence, top, pc, cmd, it>>

\* The for loop is over.
LevelDone == pc = "scan" /\ ~(it <= Len(BestLevel.orders) /\ incomingQty > 0)

\* The level has no order left: erase it and look at the next.
DropLevel ==
    /\ LevelDone
    /\ BestLevel.orders = <<>>
    /\ levels' = [levels EXCEPT ![Opp] = Tail(@)]
    /\ pc' = "level"
    /\ it' = 1
    /\ traded' = FALSE
    /\ UNCHANGED <<orders, ordersByKey, freeList, nextSequence, top, cmd, incomingQty, out>>

\* Mutant of RescanLevel: it does not ask whether the order traded here.
RescanAlways ==
    /\ LevelDone
    /\ BestLevel.orders # <<>>
    /\ ~IsMarket
    /\ pc' = "level"
    /\ it' = 1
    /\ traded' = FALSE
    /\ UNCHANGED <<store, top, cmd, incomingQty, out>>

\* A limit order that traded here goes back to the head of the while loop, which
\* finds the same level again.
RescanLevel ==
    /\ LevelDone
    /\ BestLevel.orders # <<>>
    /\ ~IsMarket /\ traded
    /\ pc' = "level"
    /\ it' = 1
    /\ traded' = FALSE
    /\ UNCHANGED <<store, top, cmd, incomingQty, out>>

\* Orders are left on the level: a market order stops, and so does a limit order
\* that did not trade here.
StopAtLevel ==
    /\ LevelDone
    /\ BestLevel.orders # <<>>
    /\ IsMarket \/ ~traded
    /\ pc' = AfterLoop
    /\ it' = 1
    /\ traded' = FALSE
    /\ UNCHANGED <<store, top, cmd, incomingQty, out>>

MatchStep ==
    \/ EnterLevel \/ StopMatching
    \/ SkipOwnOrder \/ PartialFill \/ FullFill
    \/ DropLevel \/ StopAtLevel

MatchMarketBuy == MatchStep /\ IsMarket /\ cmd.side = "Buy"
MatchMarketSell == MatchStep /\ IsMarket /\ cmd.side = "Sell"

\* Mutants of allocate: the end taken before push_back; the slot not popped.
\* OrderSlotPool::allocate: the slot given out and the storage and free list it
\* leaves, the caller's assignment to the slot included.
AllocatedSlotBeforeEnd == IF freeList = <<>> THEN Len(orders) ELSE Last(freeList)
AllocatedSlot == IF freeList = <<>> THEN Len(orders) + 1 ELSE Last(freeList)
FreeListUnpopped == freeList
FreeListAfter == IF freeList = <<>> THEN <<>> ELSE Front(freeList)
StorageAfter(o) ==
    IF freeList = <<>> THEN Append(orders, o)
    ELSE [orders EXCEPT ![AllocatedSlot] = o]

IncomingOrder ==
    [userId |-> cmd.userId, userOrderId |-> cmd.userOrderId, side |-> cmd.side,
     price |-> cmd.price, quantity |-> incomingQty, sequence |-> nextSequence]

\* What is left of a limit order joins its own side of the book.
RestOrder ==
    /\ pc = "rest"
    /\ orders' = StorageAfter(IncomingOrder)
    /\ freeList' = FreeListAfter
    /\ nextSequence' = nextSequence + 1
    /\ levels' = [levels EXCEPT ![cmd.side] =
          Enqueued(cmd.side, @, cmd.price, AllocatedSlot, incomingQty)]
    /\ ordersByKey' = [ordersByKey EXCEPT ![KeyOf(cmd)] = AllocatedSlot]
    /\ pc' = "publish"
    /\ UNCHANGED <<top, cmd, incomingQty, it, traded, out>>

LimitStep == MatchStep \/ RescanLevel \/ RestOrder
MatchLimitBuy == LimitStep /\ ~IsMarket /\ cmd.side = "Buy"
MatchLimitSell == LimitStep /\ ~IsMarket /\ cmd.side = "Sell"

\* processCancel of a key no order has: acknowledged all the same.
CancelUnknown(c) ==
    /\ pc = "idle"
    /\ ordersByKey[KeyOf(c)] = 0
    /\ pc' = "publish"
    /\ cmd' = c
    /\ out' = << AckLine(c) >>
    /\ UNCHANGED <<store, top, incomingQty, it, traded>>

\* processCancel of a key in the map: the order leaves its level, the level the
\* ladder if it is empty, the key the map, and the slot goes back to the pool.
CancelKnown(c) ==
    LET slot == ordersByKey[KeyOf(c)]
        o == orders[slot]
        n == FindLevelIndex(o.side, levels[o.side], o.price)
    IN  /\ pc = "idle"
        /\ slot # 0
        /\ levels' = IF o.quantity > 0 /\ HasLevel(o.side, levels[o.side], o.price)
                     THEN [levels EXCEPT ![o.side] =
                             DropIfEmpty(Dequeued(@, n, slot, o.quantity), n)]
                     ELSE levels
        /\ orders' = [orders EXCEPT ![slot].quantity = 0]
        /\ ordersByKey' = ErasedKey(KeyOf(c))
        /\ freeList' = Released(slot)
        /\ pc' = "publish"
        /\ cmd' = c
        /\ out' = << AckLine(c) >>
        /\ UNCHANGED <<nextSequence, top, incomingQty, it, traded>>

ProcessCancel(c) == CancelUnknown(c) \/ CancelKnown(c)

\* Mutant of UpdateTopOfBook: currentTopAsk_ is not assigned.
UpdateTopBidOnly ==
    /\ pc = "publish"
    /\ top' = [top EXCEPT !["Buy"] = ComputeTop(levels["Buy"])]
    /\ out' = out \o TopLine("Buy", top["Buy"], top'["Buy"])
                  \o TopLine("Sell", top["Sell"], ComputeTop(levels["Sell"]))
    /\ pc' = "done"
    /\ UNCHANGED <<store, cmd, incomingQty, it, traded>>

\* updateTopOfBookAndEmitChanges.
UpdateTopOfBook ==
    /\ pc = "publish"
    /\ top' = [sd \in Side |-> ComputeTop(levels[sd])]
    /\ out' = out \o TopLine("Buy", top["Buy"], top'["Buy"])
                  \o TopLine("Sell", top["Sell"], top'["Sell"])
    /\ pc' = "done"
    /\ UNCHANGED <<store, cmd, incomingQty, it, traded>>

\* The processing thread hands the lines over and is ready for the next command.
DeliverOutput ==
    /\ pc = "done"
    /\ pc' = "idle"
    /\ cmd' = NoCommand
    /\ incomingQty' = 0
    /\ out' = <<>>
    /\ UNCHANGED <<store, top, it, traded>>

\* What the code does by itself once it has a command.
ProcessingStep ==
    \/ MatchMarketBuy \/ MatchMarketSell \/ MatchLimitBuy \/ MatchLimitSell
    \/ UpdateTopOfBook \/ DeliverOutput

Next ==
    \/ \E c \in NewOrder : ProcessNewOrder(c)
    \/ \E c \in Cancel : ProcessCancel(c)
    \/ ProcessingStep

Spec == Init /\ [][Next]_vars

\* A command that was started is processed to its end: the thread runs.
Fairness == WF_vars(ProcessingStep)

----------------------------------------------------------------------------
(* Properties. *)

\* Slot s stands at place k of the deque of level n on side sd.
StandsAt(s, sd, n, k) ==
    /\ n \in 1..Len(levels[sd])
    /\ k \in 1..Len(levels[sd][n].orders)
    /\ levels[sd][n].orders[k] = s

Slots == 1..Len(orders)
Alive(s) == orders[s].quantity > 0

TypeOK ==
    /\ levels \in [Side -> Seq(PriceLevel)]
    /\ orders \in Seq(Order)
    /\ ordersByKey \in [Key -> Nat]
    /\ freeList \in Seq(Nat \ {0})
    /\ top \in [Side -> TopOfBook]
    /\ nextSequence \in Nat \ {0}
    /\ pc \in {"idle", "level", "scan", "rest", "publish", "done"}
    /\ IF pc = "idle" THEN cmd = NoCommand ELSE cmd \in NewOrder \cup Cancel
    /\ pc \in {"level", "scan", "rest"} => cmd \in NewOrder
    /\ incomingQty \in Int
    /\ it \in Nat \ {0}
    /\ traded \in BOOLEAN
    /\ out \in Seq(Line)

\* hpp:150-154, "sorted descending / ascending by price": both ladders stay
\* sorted through insertions, erasures and cancels, no two levels share a
\* price, every order stands alive on the ladder of its side at the level of
\* its price, and no level is empty except the one being matched.
LadderSorted ==
    \A sd \in Side :
        /\ IsLadder(sd, levels[sd])
        /\ \A n \in 1..Len(levels[sd]) :
              levels[sd][n].orders = <<>> => pc = "scan" /\ sd = Opp /\ n = 1
        /\ \A n \in 1..Len(levels[sd]) : \A k \in 1..Len(levels[sd][n].orders) :
              LET s == levels[sd][n].orders[k]
              IN  /\ s \in Slots
                  /\ Alive(s)
                  /\ orders[s].side = sd
                  /\ orders[s].price = levels[sd][n].price

\* Time priority: within a level the deque holds the orders by arrival, though
\* slots are recycled out of order and cancels take orders from the middle.
FifoPriority ==
    /\ \A sd \in Side : \A n \in 1..Len(levels[sd]) :
         \A j, k \in 1..Len(levels[sd][n].orders) :
            j < k => orders[levels[sd][n].orders[j]].sequence
                       < orders[levels[sd][n].orders[k]].sequence
    /\ \A s \in Slots : orders[s].sequence < nextSequence

\* OrderSlotPool: every slot is either free, once, or at one place of one level,
\* so that no slot is handed out while a level refers to it and none is lost.
SlotsPartitioned ==
    /\ \A i, j \in 1..Len(freeList) : freeList[i] = freeList[j] => i = j
    /\ \A i \in 1..Len(freeList) : freeList[i] \in Slots /\ ~Alive(freeList[i])
    /\ \A sd, sd2 \in Side : \A n \in 1..Len(levels[sd]), n2 \in 1..Len(levels[sd2]) :
         \A k \in 1..Len(levels[sd][n].orders), k2 \in 1..Len(levels[sd2][n2].orders) :
            levels[sd][n].orders[k] = levels[sd2][n2].orders[k2]
               => sd = sd2 /\ n = n2 /\ k = k2
    /\ \A s \in Slots :
         IF Alive(s)
         THEN \E sd \in Side : \E n \in 1..Len(levels[sd]) :
                \E k \in 1..Len(levels[sd][n].orders) : levels[sd][n].orders[k] = s
         ELSE \E i \in 1..Len(freeList) : freeList[i] = s

\* ordersByKey_: an entry leads to a live order with that key, the one that came
\* last when the key was used again.  The map never leads a cancel to a slot
\* recycled for another order.
KeyMapSound ==
    \A key \in Key : ordersByKey[key] # 0 =>
        /\ ordersByKey[key] \in Slots
        /\ Alive(ordersByKey[key])
        /\ KeyOf(orders[ordersByKey[key]]) = key
        /\ \A s \in Slots : Alive(s) /\ KeyOf(orders[s]) = key =>
              orders[s].sequence <= orders[ordersByKey[key]].sequence

InBook(s) == s \in Slots /\ Alive(s)
OutOfReach(s) == InBook(s) /\ ordersByKey[KeyOf(orders[s])] # s

LostByReuse ==
    \A s \in Slots' : OutOfReach(s)' /\ ~OutOfReach(s) =>
        \E r \in Slots' \ {s} :
            KeyOf(orders'[r]) = KeyOf(orders'[s]) /\ (InBook(r)' <=> ~InBook(r))

\* An order comes to rest within reach of its cancel, and a cancel loses its way
\* to it only in a step in which another order of the same user and id comes to
\* rest (its entry overwrites the older one's) or leaves (and takes the newer
\* one's entry along): reuse of a live id harms no order of another id or user.
CancelLostOnlyByReuse == [][LostByReuse]_vars

\* What OrderBook_Guide.txt 9.7 takes for granted, and nothing in the code asks:
\* a new order does not have the id of an order of its user that still rests.
NewIdIsFree ==
    pc = "idle" /\ pc' = "level" => \A s \in Slots : Alive(s) => KeyOf(orders[s]) # KeyOf(cmd')

\* What the orders in the slots of a deque have left, of the slots os.
QueuedQty(os, deque) == SumFunction([k \in DOMAIN deque |-> os[deque[k]].quantity])

\* The running total of a level, kept by three separate updates, is the sum of
\* what rests there (as far as 64 bits hold it).
LevelTotals ==
    \A sd \in Side : \A n \in 1..Len(levels[sd]) :
        levels[sd][n].totalQuantity = Int64(QueuedQty(orders, levels[sd][n].orders))

\* What the trades among lines add up to.
TradedQty(lines) ==
    SumFunction([i \in { j \in DOMAIN lines : lines[j].type = "T" } |-> lines[i].quantity])

\* The trades reported and what is left of the order add up to its quantity,
\* no order trades more than it asked for, and no trade is empty.
QuantityConserved ==
    pc # "idle" =>
        /\ cmd.quantity = incomingQty + TradedQty(out)
        /\ incomingQty >= SmallerOf(cmd.quantity, 0)
        /\ \A i \in 1..Len(out) : out[i].type = "T" => out[i].quantity > 0

\* Between commands the cached top of book, which the next command compares
\* with, is the head of the ladders.
TopFresh == pc = "idle" => \A sd \in Side : top[sd] = ComputeTop(levels[sd])

\* What a reader of the feed takes the top of side sd to be after the lines: what
\* the last B line of the side says.
Replayed(sd, lines) ==
    LET news == { i \in DOMAIN lines : lines[i].type = "B" /\ lines[i].side = sd }
    IN  IF news = {} THEN top[sd] ELSE lines[Max(news)].top

\* The B lines of a command tell a reader of the feed the new top of both sides,
\* and none repeats what the reader knows.
FeedFaithful ==
    [][ /\ pc' = "done" => \A sd \in Side : top'[sd] = Replayed(sd, out')
        /\ pc' # "done" => UNCHANGED top
        /\ \A i \in 1..Len(out') : out'[i].type = "B" /\ pc' = "done"
              => out'[i].top # top[out'[i].side] ]_vars

FillsSlot(s) == pc = "scan" /\ orders'[s].quantity < orders[s].quantity

FillsTheFirst ==
    \A s, r \in Slots :
        /\ FillsSlot(s) /\ Alive(r)
        /\ orders[r].side = Opp /\ orders[r].userId # cmd.userId
        => /\ ~Better(Opp, orders[r].price, orders[s].price)
           /\ orders[r].price = orders[s].price =>
                 orders[s].sequence <= orders[r].sequence

\* Price-time priority: a trade is with the best of the orders the incoming one
\* may trade with, the earliest at its price; only its own are passed over.
PriceTimePriority == [][FillsTheFirst]_vars

StopsBlocked ==
    /\ pc \in {"level", "scan"} /\ pc' \in {"rest", "publish"}
    /\ incomingQty > 0 /\ levels[Opp] # <<>>
    /\ IsMarket \/ ~Better(cmd.side, BestLevel.price, cmd.price)
    => \A k \in 1..Len(BestLevel.orders) :
          orders[BestLevel.orders[k]].userId = cmd.userId

\* An order stops with quantity left only if the other side is empty, beyond its
\* limit, or has nothing but the user's own orders at its best price.
StopsOnlyWhenBlocked == [][StopsBlocked]_vars

GrowsFull == Len(orders') > Len(orders) => \A s \in Slots : Alive(s)

\* Slot reuse bounds the memory: the storage grows only when every slot it has
\* holds a live order.
StorageGrowsOnlyWhenFull == [][GrowsFull]_vars

\* Every command is processed to its end; the limit loop, which looks at the
\* same level again after a trade, does not do so for ever.
CommandCompletes == (pc # "idle") ~> (pc = "idle")

====

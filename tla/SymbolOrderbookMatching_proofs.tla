---- MODULE SymbolOrderbookMatching_proofs ----
(***************************************************************************)
(* What the steps of the book do, from the invariant of                    *)
(* SymbolOrderbook_proofs: never trade out of turn, stop early or grow the *)
(* storage while a slot is free; keep the cached tops fresh, every order   *)
(* within reach of its cancel, what is bought equal to what is sold, and   *)
(* the running total of a level equal to the sum of its queue.  From these *)
(* follows that the book implements the abstract one of PriceTimeBook.tla. *)
(* The lemmas on the rules of one book come with those on the engine's, so *)
(* that a constant of the latter, Symbols, is declared here and not used.  *)
(***************************************************************************)
EXTENDS SymbolOrderbook_proofs, SymbolOrderbookRefinement, EngineRules_proofs

\* Inside the scan of a level only the two fills touch the storage.
LEMMA ScanChangesByTrade ==
    ASSUME IInv, [Next]_vars, pc = "scan", orders' # orders
    PROVE  PartialFill \/ FullFill
BY DEF Next, ProcessNewOrder, ProcessCancel, CancelUnknown, CancelKnown, ProcessingStep,
       MatchMarketBuy, MatchMarketSell, MatchLimitBuy, MatchLimitSell, LimitStep, MatchStep,
       EnterLevel, StopMatching, SkipOwnOrder, DropLevel, StopAtLevel, RescanLevel, RestOrder,
       UpdateTopOfBook, DeliverOutput, store, vars

\* And they fill the order the loop stands at, no other.
LEMMA FillsOnlyTarget ==
    ASSUME IInv, [Next]_vars, NEW s \in Slots, FillsSlot(s)
    PROVE  Scanning /\ s = RestingSlot
<1>1. pc = "scan" /\ orders'[s].quantity < orders[s].quantity
    BY DEF FillsSlot
<1>2. orders \in Seq(Order) /\ Len(orders) \in Nat /\ s \in 1..Len(orders)
    BY LenProperties DEF IInv, TypeOK, Slots
<1>3. orders[s].quantity \in Int
    <2>1. orders[s] \in Order
        BY <1>2, ElementOfSeq
    <2> QED BY <2>1 DEF Order
<1>4. orders' # orders
    BY <1>1, <1>3
<1>5. PartialFill \/ FullFill
    BY <1>1, <1>4, ScanChangesByTrade
<1>6. Scanning /\ orders' = [orders EXCEPT ![RestingSlot].quantity = @ - TradeQty]
    BY <1>5 DEF PartialFill, FullFill, Trade
<1>7. s # RestingSlot => orders'[s] = orders[s]
    <2>1. orders \in [1..Len(orders) -> Order]
        BY <1>2, LenProperties
    <2> QED BY <1>2, <1>6, <2>1
<1> QED BY <1>1, <1>3, <1>6, <1>7

LEMMA FillsInTurn == IInv /\ [Next]_vars => FillsTheFirst
<1> SUFFICES ASSUME IInv, [Next]_vars, NEW s \in Slots, NEW r \in Slots, FillsSlot(s), Alive(r),
                    orders[r].side = Opp, orders[r].userId # cmd.userId
             PROVE  /\ ~Better(Opp, orders[r].price, orders[s].price)
                    /\ orders[r].price = orders[s].price =>
                          orders[s].sequence <= orders[r].sequence
    BY DEF FillsTheFirst
<1>1. Scanning /\ s = RestingSlot
    BY FillsOnlyTarget
<1>2. /\ Opp \in Side /\ 1 \in 1..Depth(levels, Opp) /\ it \in 1..Count(levels, Opp, 1)
      /\ s = At(levels, Opp, 1, it)
    BY <1>1, ScanTarget DEF Depth, Count
<1>3. pc = "scan" /\ incomingQty > 0
    BY <1>1 DEF Scanning
<1>4. /\ Typed(levels, orders) /\ SortedLadders(levels) /\ WellPlaced(levels, orders)
      /\ QueuesInOrder(levels, orders) /\ Held(levels, r)
    BY DEF IInv, StoreInv, Consistent, Covered, Slots, Alive
<1>5. PICK n \in 1..Depth(levels, Opp) : \E k \in 1..Count(levels, Opp, n) :
            At(levels, Opp, n, k) = r
    <2>1. PICK sd \in Side : \E n \in 1..Depth(levels, sd) : \E k \in 1..Count(levels, sd, n) :
                At(levels, sd, n, k) = r
        BY <1>4 DEF Held
    <2>2. sd = Opp
        BY <1>4, <2>1 DEF WellPlaced
    <2> QED BY <2>1, <2>2
<1>6. PICK k \in 1..Count(levels, Opp, n) : At(levels, Opp, n, k) = r
    BY <1>5
<1>7. /\ orders[s].price = PriceAt(levels, Opp, 1) /\ orders[r].price = PriceAt(levels, Opp, n)
      /\ PriceAt(levels, Opp, 1) \in Int /\ PriceAt(levels, Opp, n) \in Int
    BY <1>2, <1>4, <1>6 DEF WellPlaced, Typed
<1>8. CASE n = 1
    <2>1. k \in Nat /\ it \in Nat /\ k \in 1..Count(levels, Opp, 1)
        BY <1>2, <1>4, <1>6, <1>8 DEF Typed
    <2>2. ~(k < it)
        BY <1>3, <1>6, <1>8, <2>1 DEF IInv, ScanInv
    <2>3. orders[s].sequence \in Nat /\ orders[r].sequence \in Nat
        BY <1>4 DEF Typed, Slots
    <2>4. it < k => orders[s].sequence < orders[r].sequence
        BY <1>2, <1>4, <1>6, <1>8, <2>1 DEF QueuesInOrder
    <2>5. k = it => r = s
        BY <1>2, <1>6, <1>8
    <2>6. orders[s].sequence <= orders[r].sequence
        BY <2>1, <2>2, <2>3, <2>4, <2>5
    <2>7. ~Better(Opp, orders[r].price, orders[s].price)
        BY <1>2, <1>7, <1>8, BetterTotal
    <2> QED BY <2>6, <2>7
<1>9. CASE n # 1
    <2>1. 1 < n
        BY <1>2, <1>9
    <2>2. Better(Opp, PriceAt(levels, Opp, 1), PriceAt(levels, Opp, n))
        BY <1>2, <1>4, <2>1 DEF SortedLadders
    <2> QED BY <1>2, <1>7, <2>2, BetterTotal
<1> QED BY <1>8, <1>9

\* Price-time priority, for any book: a trade is with the best order of another
\* user, the earliest at its price.
THEOREM TradesFollowPriority == Spec => PriceTimePriority
<1>1. IInv /\ [Next]_vars => [FillsTheFirst]_vars
    BY FillsInTurn
<1> QED BY <1>1, Invariance, PTL DEF Spec, PriceTimePriority

LEMMA StopsInTurn == IInv /\ [Next]_vars => StopsBlocked
<1> SUFFICES ASSUME IInv, [Next]_vars, pc \in {"level", "scan"}, pc' \in {"rest", "publish"},
                    incomingQty > 0, levels[Opp] # <<>>,
                    IsMarket \/ ~Better(cmd.side, BestLevel.price, cmd.price),
                    NEW k \in 1..Len(BestLevel.orders)
             PROVE  orders[BestLevel.orders[k]].userId = cmd.userId
    BY DEF StopsBlocked
<1>1. CanMatch
    BY DEF CanMatch, PriceAcceptable
<1>2. StopAtLevel
    BY <1>1 DEF Next, ProcessNewOrder, ProcessCancel, CancelUnknown, CancelKnown, ProcessingStep,
       MatchMarketBuy, MatchMarketSell, MatchLimitBuy, MatchLimitSell, LimitStep, MatchStep,
       EnterLevel, StopMatching, SkipOwnOrder, PartialFill, FullFill, DropLevel, RescanLevel,
       RestOrder, UpdateTopOfBook, DeliverOutput, Scanning, vars
<1>3. pc = "scan" /\ ~(it <= Len(BestLevel.orders))
    BY <1>2 DEF StopAtLevel, LevelDone
<1>4. /\ Opp \in Side /\ levels[Opp] \in Seq(PriceLevel) /\ 1 \in 1..Len(levels[Opp])
      /\ it \in Nat
    BY <1>3, Matching DEF IInv, TypeOK, ScanInv, Depth
<1>5. Len(BestLevel.orders) \in Nat
    BY <1>4, LevelFacts DEF BestLevel
<1>6. k < it
    BY <1>3, <1>4, <1>5
<1>7. k \in 1..Count(levels, Opp, 1) /\ At(levels, Opp, 1, k) = BestLevel.orders[k]
    BY DEF Count, At, BestLevel
<1> QED BY <1>3, <1>6, <1>7 DEF IInv, ScanInv

\* An order stops with quantity left only when nothing but its user's own orders
\* are at an acceptable best price.
THEOREM StopsAreBlocked == Spec => StopsOnlyWhenBlocked
<1>1. IInv /\ [Next]_vars => [StopsBlocked]_vars
    BY StopsInTurn
<1> QED BY <1>1, Invariance, PTL DEF Spec, StopsOnlyWhenBlocked

LEMMA GrowsWhenFull == IInv /\ [Next]_vars => GrowsFull
<1> SUFFICES ASSUME IInv, [Next]_vars, Len(orders') > Len(orders), freeList # <<>>
             PROVE  FALSE
    <2>1. ASSUME IInv, freeList = <<>>, NEW s \in Slots
          PROVE  Alive(s)
        <3>1. Len(freeList) = 0
            BY <2>1
        <3> QED BY <2>1, <3>1 DEF IInv, StoreInv, FreeSlots, Slots, Alive
    <2> QED BY <2>1 DEF GrowsFull
<1>1. orders \in Seq(Order) /\ Len(orders) \in Nat /\ DOMAIN orders = 1..Len(orders)
    BY LenProperties DEF IInv, TypeOK
<1>2. Len(orders') # Len(orders) /\ orders' # orders
    BY <1>1
<1>3. \A i, o : Len([orders EXCEPT ![i] = o]) = Len(orders)
    BY <1>1
<1>4. PartialFill \/ FullFill \/ RestOrder \/ \E c \in Cancel : CancelKnown(c)
    BY <1>2 DEF Next, ProcessNewOrder, ProcessCancel, CancelUnknown, ProcessingStep,
       MatchMarketBuy, MatchMarketSell, MatchLimitBuy, MatchLimitSell, LimitStep, MatchStep,
       EnterLevel, StopMatching, SkipOwnOrder, DropLevel, StopAtLevel, RescanLevel,
       UpdateTopOfBook, DeliverOutput, store, vars
<1>5. \E i, o : orders' = [orders EXCEPT ![i] = o]
    <2>1. CASE PartialFill \/ FullFill
        <3>1. orders' = [orders EXCEPT ![RestingSlot] =
                            [orders[RestingSlot] EXCEPT !.quantity = @ - TradeQty]]
            BY <2>1 DEF PartialFill, FullFill, Trade
        <3> QED BY <3>1
    <2>2. CASE RestOrder
        BY <2>2 DEF RestOrder, StorageAfter
    <2>3. ASSUME NEW c \in Cancel, CancelKnown(c)
          PROVE  \E i, o : orders' = [orders EXCEPT ![i] = o]
        <3> DEFINE slot == ordersByKey[KeyOf(c)]
        <3>1. orders' = [orders EXCEPT ![slot] = [orders[slot] EXCEPT !.quantity = 0]]
            BY <2>3 DEF CancelKnown
        <3> QED BY <3>1
    <2> QED BY <1>4, <2>1, <2>2, <2>3
<1> QED BY <1>2, <1>3, <1>5

\* OrderSlotPool: the storage of a book grows only when no slot of it is free,
\* so it is never longer than the most orders that ever rested at once.
THEOREM StorageGrowsFull == Spec => StorageGrowsOnlyWhenFull
<1>1. IInv /\ [Next]_vars => [GrowsFull]_vars
    BY GrowsWhenFull
<1> QED BY <1>1, Invariance, PTL DEF Spec, StorageGrowsOnlyWhenFull

----------------------------------------------------------------------------
(* The cached tops. *)

\* The processing of a command ends with fresh tops, and between commands the
\* ladders do not change.
TopInv == pc \in {"idle", "done"} => \A sd \in Side : top[sd] = ComputeTop(levels[sd])

\* updateTopOfBookAndEmitChanges is always called before the next command: the
\* tops it will compare with are those of the ladders.
THEOREM TopsStayFresh == Spec => []TopFresh
<1>1. Init => TopInv
    BY DEF Init, TopInv, ComputeTop
<1>2. TopInv /\ [Next]_vars => TopInv'
    <2> SUFFICES ASSUME TopInv, [Next]_vars PROVE TopInv'
        OBVIOUS
    <2>1. CASE UpdateTopOfBook
        BY <2>1 DEF UpdateTopOfBook, TopInv, store
    <2>2. CASE DeliverOutput
        BY <2>2 DEF DeliverOutput, TopInv, store
    <2>3. CASE UNCHANGED vars
        BY <2>3 DEF TopInv, vars
    <2>4. CASE ~UpdateTopOfBook /\ ~DeliverOutput /\ ~UNCHANGED vars
        <3>1. pc' \in {"level", "scan", "rest", "publish"} \/ UNCHANGED <<pc, levels, top>>
            BY <2>4 DEF Next, ProcessNewOrder, ProcessCancel, CancelUnknown, CancelKnown,
               ProcessingStep, MatchMarketBuy, MatchMarketSell, MatchLimitBuy, MatchLimitSell,
               LimitStep, MatchStep, EnterLevel, StopMatching, SkipOwnOrder, PartialFill,
               FullFill, DropLevel, StopAtLevel, RescanLevel, RestOrder, AfterLoop, Scanning,
               LevelDone
        <3> QED BY <3>1 DEF TopInv
    <2> QED BY <2>1, <2>2, <2>3, <2>4
<1>3. TopInv => TopFresh
    BY DEF TopInv, TopFresh
<1> QED BY <1>1, <1>2, <1>3, PTL DEF Spec

----------------------------------------------------------------------------
(* Which orders a cancel finds. *)

\* Users who keep to the rule of one id for one order.
LiveIdsAreUnique == [][NewIdIsFree]_vars

\* Every resting order can be cancelled.
CancelReachesEveryOrder == \A s \in Slots : ~OutOfReach(s)

\* With unique ids: every live order has the entry of its key, and none has the
\* key of the order being matched, which would take the entry over.
ReachInv ==
    \A s \in 1..Len(orders) : orders[s].quantity > 0 =>
        /\ ordersByKey[KeyOf(orders[s])] = s
        /\ pc \in {"level", "scan", "rest"} => KeyOf(orders[s]) # KeyOf(cmd)

\* A fill takes from the order the loop stands at and keeps its key; another
\* order is not touched.
LEMMA FillKeepsKeys ==
    ASSUME IInv, PartialFill \/ FullFill
    PROVE  /\ Len(orders') = Len(orders) /\ RestingSlot \in 1..Len(orders)
           /\ orders[RestingSlot].quantity > 0 /\ Resting = orders[RestingSlot]
           /\ \A s \in 1..Len(orders) : s # RestingSlot => orders'[s] = orders[s]
           /\ KeyOf(orders'[RestingSlot]) = KeyOf(orders[RestingSlot])
           /\ KeyOf(orders[RestingSlot]) \in Key
           /\ FullFill => orders'[RestingSlot].quantity = 0
<1> DEFINE q == Resting.quantity - TradeQty
<1>1. Scanning
    BY DEF PartialFill, FullFill
<1>2. /\ RestingSlot \in 1..Len(orders) /\ Resting \in Order /\ Resting = orders[RestingSlot]
      /\ Resting.quantity > 0 /\ Resting.quantity \in Int /\ TradeQty \in Int
    BY <1>1, ScanTarget
<1>3. orders' = Requantified(orders, RestingSlot, q)
    BY DEF PartialFill, FullFill, Trade, Requantified, Resting
<1>4. q \in Int /\ (FullFill => q = 0)
    BY <1>2 DEF FullFill
<1> HIDE DEF q
<1>5. /\ Len(orders') = Len(orders)
      /\ \A s \in 1..Len(orders) : s # RestingSlot => orders'[s] = orders[s]
      /\ orders'[RestingSlot].quantity = q
      /\ orders'[RestingSlot].userId = orders[RestingSlot].userId
      /\ orders'[RestingSlot].userOrderId = orders[RestingSlot].userOrderId
    <2>1. orders \in Seq(Order) /\ RestingSlot \in 1..Len(orders) /\ q \in Int
        BY <1>2, <1>4 DEF IInv, TypeOK
    <2> QED BY <1>3, <2>1, RequantifiedProps
<1>6. KeyOf(orders'[RestingSlot]) = KeyOf(orders[RestingSlot])
    BY <1>5 DEF KeyOf
<1>7. KeyOf(orders[RestingSlot]) \in Key
    BY <1>2, KeyOfType
<1> QED BY <1>2, <1>4, <1>5, <1>6, <1>7

\* A fill: a used-up order leaves with its entry, which is no other order's.
LEMMA FillReaches ==
    ASSUME IInv, ReachInv, PartialFill \/ FullFill
    PROVE  ReachInv'
<1> SUFFICES ASSUME NEW s \in 1..Len(orders'), orders'[s].quantity > 0
             PROVE  /\ ordersByKey'[KeyOf(orders'[s])] = s
                    /\ pc' \in {"level", "scan", "rest"} => KeyOf(orders'[s]) # KeyOf(cmd')
    BY DEF ReachInv
<1>1. /\ Len(orders') = Len(orders) /\ RestingSlot \in 1..Len(orders)
      /\ orders[RestingSlot].quantity > 0 /\ Resting = orders[RestingSlot]
      /\ \A r \in 1..Len(orders) : r # RestingSlot => orders'[r] = orders[r]
      /\ KeyOf(orders'[RestingSlot]) = KeyOf(orders[RestingSlot])
      /\ KeyOf(orders[RestingSlot]) \in Key
      /\ FullFill => orders'[RestingSlot].quantity = 0
    BY FillKeepsKeys
<1>2. s \in 1..Len(orders) /\ orders[s].quantity > 0 /\ KeyOf(orders'[s]) = KeyOf(orders[s])
    BY <1>1
<1>3. pc = "scan" /\ UNCHANGED <<pc, cmd>>
    BY DEF PartialFill, FullFill, Scanning
<1>4. ordersByKey[KeyOf(orders[s])] = s /\ KeyOf(orders[s]) # KeyOf(cmd)
    BY <1>2, <1>3 DEF ReachInv
<1>5. CASE PartialFill
    BY <1>2, <1>3, <1>4, <1>5 DEF PartialFill
<1>6. CASE FullFill
    <2>1. s # RestingSlot
        BY <1>1, <1>6
    <2>2. ordersByKey[KeyOf(orders[RestingSlot])] = RestingSlot
        BY <1>1 DEF ReachInv
    <2>3. KeyOf(orders[s]) # KeyOf(orders[RestingSlot])
        BY <1>4, <2>1, <2>2
    <2>4. KeyOf(orders[s]) \in Key
        <3>1. orders[s] \in Order
            BY <1>2, ElementOfSeq DEF IInv, TypeOK
        <3> QED BY <3>1, KeyOfType
    <2>5. ordersByKey' = [ordersByKey EXCEPT ![KeyOf(orders[RestingSlot])] = 0]
        BY <1>1, <1>6 DEF FullFill, ErasedKey
    <2>6. ordersByKey'[KeyOf(orders[s])] = ordersByKey[KeyOf(orders[s])]
        BY <2>3, <2>4, <2>5 DEF IInv, TypeOK
    <2> QED BY <1>2, <1>3, <1>4, <2>6
<1> QED BY <1>5, <1>6

\* A cancel takes the order of its key; every other live order has another key.
LEMMA CancelReaches ==
    ASSUME IInv, ReachInv, NEW c \in Cancel, CancelKnown(c)
    PROVE  ReachInv'
<1> DEFINE slot == ordersByKey[KeyOf(c)]
<1> SUFFICES ASSUME NEW s \in 1..Len(orders'), orders'[s].quantity > 0
             PROVE  /\ ordersByKey'[KeyOf(orders'[s])] = s
                    /\ pc' \in {"level", "scan", "rest"} => KeyOf(orders'[s]) # KeyOf(cmd')
    BY DEF ReachInv
<1>1. KeyOf(c) \in Key /\ slot # 0 /\ pc' = "publish"
    BY DEF CancelKnown, KeyOf, Key, Cancel
<1>2. slot \in 1..Len(orders)
    BY <1>1 DEF IInv, StoreInv, KeysSound
<1>3. orders' = Requantified(orders, slot, 0)
    BY DEF CancelKnown, Requantified
<1>4. ordersByKey' = [ordersByKey EXCEPT ![KeyOf(c)] = 0]
    BY DEF CancelKnown, ErasedKey
<1> HIDE DEF slot
<1>5. /\ Len(orders') = Len(orders) /\ orders'[slot].quantity = 0
      /\ \A r \in 1..Len(orders) : r # slot => orders'[r] = orders[r]
    <2>1. orders \in Seq(Order)
        BY DEF IInv, TypeOK
    <2> QED BY <1>2, <1>3, <2>1, RequantifiedProps
<1>6. s # slot /\ s \in 1..Len(orders) /\ orders'[s] = orders[s]
    BY <1>5
<1>7. ordersByKey[KeyOf(orders[s])] = s
    BY <1>6 DEF ReachInv
<1>8. KeyOf(orders[s]) # KeyOf(c)
    BY <1>6, <1>7 DEF slot
<1>9. KeyOf(orders[s]) \in Key
    <2>1. orders[s] \in Order
        BY <1>6, ElementOfSeq DEF IInv, TypeOK
    <2> QED BY <2>1, KeyOfType
<1>10. ordersByKey'[KeyOf(orders[s])] = ordersByKey[KeyOf(orders[s])]
    BY <1>4, <1>8, <1>9 DEF IInv, TypeOK
<1> QED BY <1>1, <1>6, <1>7, <1>10

\* An order that comes to rest enters the map; no live order had its key.
LEMMA RestReaches ==
    ASSUME IInv, ReachInv, RestOrder
    PROVE  ReachInv'
<1> DEFINE slot == AllocatedSlot
           o == IncomingOrder
<1> SUFFICES ASSUME NEW s \in 1..Len(orders'), orders'[s].quantity > 0
             PROVE  /\ ordersByKey'[KeyOf(orders'[s])] = s
                    /\ pc' \in {"level", "scan", "rest"} => KeyOf(orders'[s]) # KeyOf(cmd')
    BY DEF ReachInv
<1>1. /\ pc = "rest" /\ pc' = "publish" /\ KeyOf(o) = KeyOf(cmd) /\ KeyOf(cmd) \in Key
    BY RestTarget DEF Rests, RestOrder, KeyOf, Key
<1>2. ordersByKey' = [ordersByKey EXCEPT ![KeyOf(cmd)] = slot]
    BY DEF RestOrder
<1>3. Allocates(orders, o, slot, orders', freeList')
    BY RestTarget DEF Rests
<1> HIDE DEF slot, o
<1>4. CASE s = slot
    <2>1. KeyOf(orders'[s]) = KeyOf(cmd)
        BY <1>1, <1>3, <1>4 DEF Allocates
    <2>2. ordersByKey'[KeyOf(cmd)] = slot
        BY <1>1, <1>2 DEF IInv, TypeOK
    <2> QED BY <1>1, <1>4, <2>1, <2>2
<1>5. CASE s # slot
    <2>1. s \in 1..Len(orders) /\ orders'[s] = orders[s]
        BY <1>3, <1>5 DEF Allocates
    <2>2. ordersByKey[KeyOf(orders[s])] = s /\ KeyOf(orders[s]) # KeyOf(cmd)
        BY <1>1, <2>1 DEF ReachInv
    <2>3. KeyOf(orders[s]) \in Key
        <3>1. orders[s] \in Order
            BY <2>1, ElementOfSeq DEF IInv, TypeOK
        <3> QED BY <3>1, KeyOfType
    <2>4. ordersByKey'[KeyOf(orders[s])] = ordersByKey[KeyOf(orders[s])]
        BY <1>2, <2>2, <2>3 DEF IInv, TypeOK
    <2> QED BY <1>1, <2>1, <2>2, <2>4
<1> QED BY <1>4, <1>5

\* The steps that touch neither the storage nor the map.
StoreKept == UNCHANGED <<orders, ordersByKey>>

LEMMA KeptReaches ==
    ASSUME ReachInv, StoreKept,
           pc' \in {"level", "scan", "rest"} => pc \in {"level", "scan", "rest"} /\ cmd' = cmd
    PROVE  ReachInv'
BY DEF ReachInv, StoreKept

LEMMA ReachInvStep == IInv /\ ReachInv /\ [Next]_vars /\ [NewIdIsFree]_vars => ReachInv'
<1> SUFFICES ASSUME IInv, ReachInv, [Next]_vars, [NewIdIsFree]_vars PROVE ReachInv'
    OBVIOUS
<1>1. ASSUME NEW c \in NewOrder, ProcessNewOrder(c)
      PROVE  ReachInv'
    <2>1. UNCHANGED <<orders, ordersByKey>> /\ cmd' = c /\ pc = "idle" /\ pc' = "level"
        BY <1>1 DEF ProcessNewOrder, store
    <2>2. \A s \in 1..Len(orders) : orders[s].quantity > 0 => KeyOf(orders[s]) # KeyOf(c)
        BY <2>1 DEF NewIdIsFree, Slots, Alive, vars
    <2> QED BY <2>1, <2>2 DEF ReachInv
<1>2. ASSUME NEW c \in Cancel, CancelKnown(c)
      PROVE  ReachInv'
    BY <1>2, CancelReaches
<1>3. CASE PartialFill \/ FullFill
    BY <1>3, FillReaches
<1>4. CASE RestOrder
    BY <1>4, RestReaches
<1>5. CASE EnterLevel \/ StopMatching \/ SkipOwnOrder \/ DropLevel \/ StopAtLevel \/ RescanLevel
    <2>1. StoreKept /\ pc \in {"level", "scan", "rest"} /\ cmd' = cmd
        BY <1>5 DEF EnterLevel, StopMatching, SkipOwnOrder, DropLevel, StopAtLevel, RescanLevel,
           Scanning, LevelDone, StoreKept, store
    <2> QED BY <2>1, KeptReaches
<1>6. ASSUME NEW c \in Cancel, CancelUnknown(c)
      PROVE  ReachInv'
    <2>1. StoreKept /\ pc' = "publish"
        BY <1>6 DEF CancelUnknown, StoreKept, store
    <2> QED BY <2>1, KeptReaches
<1>7. CASE UpdateTopOfBook \/ DeliverOutput
    <2>1. StoreKept /\ pc' \in {"done", "idle"}
        BY <1>7 DEF UpdateTopOfBook, DeliverOutput, StoreKept, store
    <2> QED BY <2>1, KeptReaches
<1>8. CASE UNCHANGED vars
    <2>1. StoreKept /\ UNCHANGED <<pc, cmd>>
        BY <1>8 DEF vars, StoreKept
    <2> QED BY <2>1, KeptReaches
<1> QED BY <1>1, <1>2, <1>3, <1>4, <1>5, <1>6, <1>7, <1>8
        DEF Next, ProcessCancel, ProcessingStep, MatchMarketBuy, MatchMarketSell, MatchLimitBuy,
            MatchLimitSell, LimitStep, MatchStep

\* ordersByKey_: if users do not reuse the id of an order that still rests, every
\* resting order can be cancelled, whatever filled, rested or was cancelled before.
THEOREM CancelsReachEveryOrder == Spec /\ LiveIdsAreUnique => []CancelReachesEveryOrder
<1>1. Init => ReachInv
    BY DEF Init, ReachInv
<1>2. IInv /\ ReachInv /\ [Next]_vars /\ [NewIdIsFree]_vars => ReachInv'
    BY ReachInvStep
<1>3. ReachInv => CancelReachesEveryOrder
    BY DEF ReachInv, CancelReachesEveryOrder, OutOfReach, InBook, Slots, Alive
<1> QED BY <1>1, <1>2, <1>3, Invariance, PTL DEF Spec, LiveIdsAreUnique

\* A used-up order takes an entry along: only that of its own key.
LEMMA FillLoses ==
    ASSUME IInv, PartialFill \/ FullFill
    PROVE  LostByReuse
<1> SUFFICES ASSUME NEW s \in Slots', OutOfReach(s)', ~OutOfReach(s)
             PROVE  \E r \in Slots' \ {s} :
                        KeyOf(orders'[r]) = KeyOf(orders'[s]) /\ (InBook(r)' <=> ~InBook(r))
    BY DEF LostByReuse
<1>1. /\ Len(orders') = Len(orders) /\ RestingSlot \in 1..Len(orders)
      /\ orders[RestingSlot].quantity > 0 /\ Resting = orders[RestingSlot]
      /\ \A r \in 1..Len(orders) : r # RestingSlot => orders'[r] = orders[r]
      /\ KeyOf(orders'[RestingSlot]) = KeyOf(orders[RestingSlot])
      /\ KeyOf(orders[RestingSlot]) \in Key
      /\ FullFill => orders'[RestingSlot].quantity = 0
    BY FillKeepsKeys
<1>2. /\ s \in 1..Len(orders) /\ orders'[s].quantity > 0
      /\ ordersByKey'[KeyOf(orders'[s])] # s
    BY <1>1 DEF OutOfReach, InBook, Slots, Alive
<1>3. orders[s].quantity > 0 /\ KeyOf(orders'[s]) = KeyOf(orders[s])
    BY <1>1, <1>2
<1>4. ordersByKey[KeyOf(orders[s])] = s
    BY <1>2, <1>3 DEF OutOfReach, InBook, Slots, Alive
<1>5. FullFill
    BY <1>2, <1>3, <1>4 DEF PartialFill
<1>6. ordersByKey' = [ordersByKey EXCEPT ![KeyOf(orders[RestingSlot])] = 0]
    BY <1>1, <1>5 DEF FullFill, ErasedKey
<1>7. KeyOf(orders[s]) \in Key
    <2>1. orders[s] \in Order
        BY <1>2, ElementOfSeq DEF IInv, TypeOK
    <2> QED BY <2>1, KeyOfType
<1>8. KeyOf(orders[s]) = KeyOf(orders[RestingSlot])
    BY <1>2, <1>3, <1>4, <1>6, <1>7 DEF IInv, TypeOK
<1>9. s # RestingSlot
    BY <1>1, <1>2, <1>5
<1>10. PICK r \in Nat : r = RestingSlot
    BY <1>1
<1>11. KeyOf(orders'[r]) = KeyOf(orders'[s])
    BY <1>1, <1>3, <1>8, <1>10
<1>12. InBook(r) /\ ~InBook(r)' /\ r \in Slots' \ {s}
    BY <1>1, <1>5, <1>9, <1>10 DEF InBook, Slots, Alive
<1> QED BY <1>11, <1>12

\* So does a cancelled one.
LEMMA CancelLoses ==
    ASSUME IInv, NEW c \in Cancel, CancelKnown(c)
    PROVE  LostByReuse
<1> DEFINE slot == ordersByKey[KeyOf(c)]
<1> SUFFICES ASSUME NEW s \in Slots', OutOfReach(s)', ~OutOfReach(s)
             PROVE  \E r \in Slots' \ {s} :
                        KeyOf(orders'[r]) = KeyOf(orders'[s]) /\ (InBook(r)' <=> ~InBook(r))
    BY DEF LostByReuse
<1>1. KeyOf(c) \in Key /\ slot # 0
    BY DEF CancelKnown, KeyOf, Key, Cancel
<1>2. slot \in 1..Len(orders) /\ orders[slot].quantity > 0 /\ KeyOf(orders[slot]) = KeyOf(c)
    BY <1>1 DEF IInv, StoreInv, KeysSound
<1>3. orders' = Requantified(orders, slot, 0)
    BY DEF CancelKnown, Requantified
<1>4. ordersByKey' = [ordersByKey EXCEPT ![KeyOf(c)] = 0]
    BY DEF CancelKnown, ErasedKey
<1> HIDE DEF slot
<1>5. /\ Len(orders') = Len(orders) /\ orders'[slot].quantity = 0
      /\ \A r \in 1..Len(orders) : r # slot => orders'[r] = orders[r]
      /\ orders'[slot].userId = orders[slot].userId
      /\ orders'[slot].userOrderId = orders[slot].userOrderId
    <2>1. orders \in Seq(Order)
        BY DEF IInv, TypeOK
    <2> QED BY <1>2, <1>3, <2>1, RequantifiedProps
<1>6. /\ s # slot /\ s \in 1..Len(orders) /\ orders'[s] = orders[s] /\ orders[s].quantity > 0
      /\ ordersByKey'[KeyOf(orders[s])] # s
    BY <1>5 DEF OutOfReach, InBook, Slots, Alive
<1>7. ordersByKey[KeyOf(orders[s])] = s
    BY <1>6 DEF OutOfReach, InBook, Slots, Alive
<1>8. KeyOf(orders[s]) \in Key
    <2>1. orders[s] \in Order
        BY <1>6, ElementOfSeq DEF IInv, TypeOK
    <2> QED BY <2>1, KeyOfType
<1>9. KeyOf(orders[s]) = KeyOf(c)
    BY <1>4, <1>6, <1>7, <1>8 DEF IInv, TypeOK
<1>10. KeyOf(orders'[slot]) = KeyOf(c)
    BY <1>2, <1>5 DEF KeyOf
<1>11. PICK r \in Nat : r = slot
    BY <1>2
<1>12. KeyOf(orders'[r]) = KeyOf(orders'[s])
    BY <1>6, <1>9, <1>10, <1>11
<1>13. InBook(r) /\ ~InBook(r)' /\ r \in Slots' \ {s}
    BY <1>2, <1>5, <1>6, <1>11 DEF InBook, Slots, Alive
<1> QED BY <1>12, <1>13

\* An order that comes to rest takes over the entry of its key and no other.
LEMMA RestLoses ==
    ASSUME IInv, RestOrder
    PROVE  LostByReuse
<1> DEFINE slot == AllocatedSlot
           o == IncomingOrder
<1> SUFFICES ASSUME NEW s \in Slots', OutOfReach(s)', ~OutOfReach(s)
             PROVE  \E r \in Slots' \ {s} :
                        KeyOf(orders'[r]) = KeyOf(orders'[s]) /\ (InBook(r)' <=> ~InBook(r))
    BY DEF LostByReuse
<1>1. KeyOf(o) = KeyOf(cmd) /\ KeyOf(cmd) \in Key /\ o.quantity > 0
    BY RestTarget DEF Rests, RestOrder, KeyOf, Key
<1>2. ordersByKey' = [ordersByKey EXCEPT ![KeyOf(cmd)] = slot]
    BY DEF RestOrder
<1>3. Allocates(orders, o, slot, orders', freeList')
    BY RestTarget DEF Rests
<1> HIDE DEF slot, o
<1>4. ordersByKey'[KeyOf(cmd)] = slot /\ KeyOf(orders'[slot]) = KeyOf(cmd)
    BY <1>1, <1>2, <1>3 DEF IInv, TypeOK, Allocates
<1>5. /\ s \in 1..Len(orders') /\ orders'[s].quantity > 0
      /\ ordersByKey'[KeyOf(orders'[s])] # s
    BY DEF OutOfReach, InBook, Slots, Alive
<1>6. s # slot
    BY <1>4, <1>5
<1>7. s \in 1..Len(orders) /\ orders'[s] = orders[s]
    BY <1>3, <1>5, <1>6 DEF Allocates
<1>8. ordersByKey[KeyOf(orders[s])] = s
    BY <1>5, <1>7 DEF OutOfReach, InBook, Slots, Alive
<1>9. KeyOf(orders[s]) \in Key
    <2>1. orders[s] \in Order
        BY <1>7, ElementOfSeq DEF IInv, TypeOK
    <2> QED BY <2>1, KeyOfType
<1>10. KeyOf(orders[s]) = KeyOf(cmd)
    BY <1>2, <1>5, <1>7, <1>8, <1>9 DEF IInv, TypeOK
<1>11. PICK r \in Nat : r = slot
    BY <1>3 DEF Allocates
<1>12. KeyOf(orders'[r]) = KeyOf(orders'[s])
    BY <1>4, <1>7, <1>10, <1>11
<1>13. InBook(r)' /\ ~InBook(r) /\ r \in Slots' \ {s}
    BY <1>1, <1>3, <1>6, <1>11 DEF Allocates, InBook, Slots, Alive
<1> QED BY <1>12, <1>13

LEMMA KeptLoses == StoreKept => LostByReuse
BY DEF StoreKept, LostByReuse, OutOfReach, InBook, Slots, Alive

\* ordersByKey_: an order comes to rest within reach, and its cancel loses it only
\* in a step in which another order of the same user and id rests or leaves.
THEOREM CancelsLoseByReuse == Spec => CancelLostOnlyByReuse
<1>1. IInv /\ [Next]_vars => [LostByReuse]_vars
    <2> SUFFICES ASSUME IInv, [Next]_vars PROVE LostByReuse
        OBVIOUS
    <2>1. ASSUME NEW c \in Cancel, CancelKnown(c) PROVE LostByReuse
        BY <2>1, CancelLoses
    <2>2. CASE PartialFill \/ FullFill
        BY <2>2, FillLoses
    <2>3. CASE RestOrder
        BY <2>3, RestLoses
    <2>4. CASE StoreKept
        BY <2>4, KeptLoses
    <2>5. \/ StoreKept \/ PartialFill \/ FullFill \/ RestOrder
          \/ \E c \in Cancel : CancelKnown(c)
        BY DEF Next, ProcessNewOrder, ProcessCancel, CancelUnknown, ProcessingStep,
           MatchMarketBuy, MatchMarketSell, MatchLimitBuy, MatchLimitSell, LimitStep, MatchStep,
           EnterLevel, StopMatching, SkipOwnOrder, DropLevel, StopAtLevel, RescanLevel,
           UpdateTopOfBook, DeliverOutput, store, vars, StoreKept
    <2> QED BY <2>1, <2>2, <2>3, <2>4, <2>5
<1> QED BY <1>1, Invariance, PTL DEF Spec, CancelLostOnlyByReuse

----------------------------------------------------------------------------
(* The quantities of the trades. *)

Trades(lines) == { i \in DOMAIN lines : lines[i].type = "T" }
TradesIn(lines) == [i \in Trades(lines) |-> lines[i].quantity]

LEMMA TradesFacts ==
    ASSUME NEW lines \in Seq(Line)
    PROVE  /\ IsFiniteSet(Trades(lines)) /\ Trades(lines) \subseteq 1..Len(lines)
           /\ \A i \in Trades(lines) : TradesIn(lines)[i] \in Int
           /\ TradedQty(lines) = SumFunctionOnSet(TradesIn(lines), Trades(lines))
           /\ TradedQty(lines) \in Int
<1>1. Len(lines) \in Nat /\ DOMAIN lines = 1..Len(lines) /\ \A i \in 1..Len(lines) : lines[i] \in Line
    BY LenProperties, ElementOfSeq
<1>2. IsFiniteSet(Trades(lines)) /\ Trades(lines) \subseteq 1..Len(lines)
    <2>1. IsFiniteSet(1..Len(lines))
        BY <1>1, FS_Interval
    <2> QED BY <1>1, <2>1, FS_Subset DEF Trades
<1>3. \A i \in Trades(lines) : TradesIn(lines)[i] \in Int
    <2> SUFFICES ASSUME NEW i \in Trades(lines) PROVE lines[i].quantity \in Int
        BY DEF TradesIn
    <2>1. lines[i] \in Line /\ lines[i].type = "T"
        BY <1>1, <1>2 DEF Trades
    <2> QED BY <2>1 DEF Line
<1>4. TradedQty(lines) = SumFunctionOnSet(TradesIn(lines), Trades(lines))
    <2>1. TradedQty(lines) = SumFunction(TradesIn(lines))
        BY DEF TradedQty, TradesIn, Trades
    <2>2. DOMAIN TradesIn(lines) = Trades(lines)
        BY DEF TradesIn
    <2> QED BY <2>1, <2>2 DEF SumFunction
<1> QED BY <1>2, <1>3, <1>4, SumType

\* Lines that are not trades count for nothing.
LEMMA TradedSame ==
    ASSUME NEW lines \in Seq(Line), NEW more \in Seq(Line),
           \A i \in 1..Len(more) : more[i].type # "T"
    PROVE  TradedQty(lines \o more) = TradedQty(lines)
<1> DEFINE all == lines \o more
<1>1. /\ all \in Seq(Line) /\ Len(all) = Len(lines) + Len(more)
      /\ \A i \in 1..Len(all) : all[i] = IF i <= Len(lines) THEN lines[i] ELSE more[i - Len(lines)]
      /\ Len(lines) \in Nat /\ Len(more) \in Nat
    BY ConcatProperties, LenProperties
<1>2. DOMAIN lines = 1..Len(lines) /\ DOMAIN all = 1..Len(all)
    BY <1>1, LenProperties
<1> HIDE DEF all
<1>3. Trades(all) = Trades(lines)
    BY <1>1, <1>2 DEF Trades
<1>4. \A i \in Trades(lines) : TradesIn(all)[i] = TradesIn(lines)[i]
    BY <1>1, <1>2, <1>3 DEF TradesIn, Trades
<1>5. SumFunctionOnSet(TradesIn(all), Trades(lines)) = SumFunctionOnSet(TradesIn(lines), Trades(lines))
    BY <1>4, TradesFacts, SumSame
<1> QED BY <1>1, <1>3, <1>5, TradesFacts DEF all

LEMMA TradedNone ==
    ASSUME NEW lines \in Seq(Line), \A i \in 1..Len(lines) : lines[i].type # "T"
    PROVE  TradedQty(lines) = 0
<1>1. Trades(lines) = {}
    BY LenProperties DEF Trades
<1> QED BY <1>1, TradesFacts, SumEmpty

LEMMA TradedMore ==
    ASSUME NEW lines \in Seq(Line), NEW t \in Line, t.type = "T"
    PROVE  TradedQty(Append(lines, t)) = TradedQty(lines) + t.quantity
<1> DEFINE all == Append(lines, t)
           new == Len(lines) + 1
           q == t.quantity
<1>1. /\ all \in Seq(Line) /\ Len(all) = new /\ Len(lines) \in Nat
      /\ \A i \in 1..Len(lines) : all[i] = lines[i]
      /\ all[new] = t
    BY AppendProperties, LenProperties
<1>2. DOMAIN lines = 1..Len(lines) /\ DOMAIN all = 1..Len(all)
    BY <1>1, LenProperties
<1> HIDE DEF all
<1>3. Trades(all) = Trades(lines) \cup {new} /\ new \notin Trades(lines)
    BY <1>1, <1>2 DEF Trades
<1>4. \A i \in Trades(lines) : TradesIn(all)[i] = TradesIn(lines)[i]
    BY <1>1, <1>2, <1>3 DEF TradesIn, Trades
<1>5. SumFunctionOnSet(TradesIn(all), Trades(lines)) = SumFunctionOnSet(TradesIn(lines), Trades(lines))
    BY <1>4, TradesFacts, SumSame
<1>6. TradesIn(all)[new] = q
    BY <1>1, <1>3 DEF TradesIn
<1>7. Trades(all) \ {new} = Trades(lines)
    BY <1>3
<1>8. SumFunctionOnSet(TradesIn(all), Trades(all))
        = TradesIn(all)[new] + SumFunctionOnSet(TradesIn(all), Trades(all) \ {new})
    <2>1. new \in Trades(all)
        BY <1>3
    <2>2. IsFiniteSet(Trades(all)) /\ \A i \in Trades(all) : TradesIn(all)[i] \in Int
        BY <1>1, TradesFacts
    <2> QED BY <2>1, <2>2, SumRemove
<1>9. q \in Int
    BY DEF Line
<1>10. TradedQty(all) = q + TradedQty(lines) /\ TradedQty(lines) \in Int
    BY <1>1, <1>5, <1>6, <1>7, <1>8, TradesFacts
<1> HIDE DEF q
<1>11. TradedQty(all) = TradedQty(lines) + q
    BY <1>9, <1>10
<1> QED BY <1>11 DEF all, q

QuantityInv ==
    /\ QuantityConserved
    /\ pc = "idle" => incomingQty = 0

LEMMA TradeConserves ==
    ASSUME IInv, QuantityInv, PartialFill \/ FullFill
    PROVE  QuantityInv'
<1> DEFINE t == TradeLine(cmd, Resting, TradeQty)
<1>1. Scanning /\ pc' = pc /\ cmd' = cmd
      /\ out' = Append(out, t) /\ incomingQty' = incomingQty - TradeQty
    BY DEF PartialFill, FullFill, Trade
<1>2. /\ TradeQty \in Int /\ TradeQty > 0 /\ TradeQty <= incomingQty
      /\ t \in Line
    BY <1>1, ScanTarget
<1>3. t.type = "T" /\ t.quantity = TradeQty
    BY DEF TradeLine
<1> HIDE DEF t
<1>4. out \in Seq(Line) /\ incomingQty \in Int
    BY DEF IInv, TypeOK
<1>5. TradedQty(out') = TradedQty(out) + TradeQty /\ TradedQty(out) \in Int
    BY <1>1, <1>2, <1>3, <1>4, TradedMore, TradesFacts
<1>6. pc = "scan" /\ cmd.quantity \in Int
    BY <1>1, Matching, QuantitiesAreInt DEF Scanning, IInv, NewOrder
<1>7. /\ cmd.quantity = incomingQty + TradedQty(out)
      /\ \A i \in 1..Len(out) : out[i].type = "T" => out[i].quantity > 0
    BY <1>6 DEF QuantityInv, QuantityConserved
<1>8. cmd.quantity = incomingQty' + TradedQty(out')
    BY <1>1, <1>2, <1>4, <1>5, <1>7
<1>9. incomingQty' >= SmallerOf(cmd.quantity, 0)
    BY <1>1, <1>2, <1>4, <1>6 DEF SmallerOf
<1>10. \A i \in 1..Len(out') : out'[i].type = "T" => out'[i].quantity > 0
    <2>1. /\ Len(out') = Len(out) + 1 /\ Len(out) \in Nat
          /\ \A i \in 1..Len(out) : out'[i] = out[i]
          /\ out'[Len(out) + 1] = t
        BY <1>1, <1>2, <1>4, AppendProperties, LenProperties
    <2> QED BY <1>2, <1>3, <1>7, <2>1
<1> QED BY <1>1, <1>6, <1>8, <1>9, <1>10 DEF QuantityInv, QuantityConserved

\* The lines of updateTopOfBookAndEmitChanges.
LEMMA TopLineKinds ==
    ASSUME NEW sd \in Side, NEW old, NEW new \in TopOfBook
    PROVE  /\ TopLine(sd, old, new) \in Seq(Line)
           /\ \A i \in 1..Len(TopLine(sd, old, new)) : TopLine(sd, old, new)[i].type = "B"
<1> DEFINE b == [type |-> "B", side |-> sd, top |-> new]
<1>1. b \in Line /\ b.type = "B"
    BY DEF Line
<1>2. TopLine(sd, old, new) = IF TopEqual(old, new) THEN <<>> ELSE << b >>
    BY DEF TopLine
<1> HIDE DEF b
<1>3. << b >> \in Seq(Line) /\ Len(<< b >>) = 1 /\ << b >>[1] = b
    BY <1>1
<1>4. <<>> \in Seq(Line) /\ Len(<<>>) = 0
    OBVIOUS
<1> QED BY <1>1, <1>2, <1>3, <1>4

LEMMA PublishConserves ==
    ASSUME IInv, QuantityInv, UpdateTopOfBook, IInv'
    PROVE  QuantityInv'
<1> DEFINE b == TopLine("Buy", top["Buy"], top'["Buy"])
           s == TopLine("Sell", top["Sell"], top'["Sell"])
<1>1. /\ pc = "publish" /\ pc' = "done" /\ cmd' = cmd /\ incomingQty' = incomingQty
      /\ out' = (out \o b) \o s
    BY DEF UpdateTopOfBook
<1>2. out \in Seq(Line) /\ top' \in [Side -> TopOfBook]
    BY DEF IInv, TypeOK
<1>3. /\ b \in Seq(Line) /\ \A i \in 1..Len(b) : b[i].type # "T"
      /\ s \in Seq(Line) /\ \A i \in 1..Len(s) : s[i].type # "T"
    <2>1. top'["Buy"] \in TopOfBook /\ top'["Sell"] \in TopOfBook
        BY <1>2 DEF Side
    <2>2. b \in Seq(Line) /\ \A i \in 1..Len(b) : b[i].type = "B"
        BY <2>1, TopLineKinds DEF Side
    <2>3. s \in Seq(Line) /\ \A i \in 1..Len(s) : s[i].type = "B"
        BY <2>1, TopLineKinds DEF Side
    <2> QED BY <2>2, <2>3
<1> HIDE DEF b, s
<1>4. out \o b \in Seq(Line) /\ TradedQty(out \o b) = TradedQty(out)
    BY <1>2, <1>3, TradedSame, ConcatProperties
<1>5. TradedQty(out') = TradedQty(out)
    BY <1>1, <1>3, <1>4, TradedSame
<1>6. \A i \in 1..Len(out') : out'[i].type = "T" => out'[i].quantity > 0
    <2>1. \A i \in 1..Len(out) : out[i].type = "T" => out[i].quantity > 0
        BY <1>1 DEF QuantityInv, QuantityConserved
    <2>2. \A i \in 1..Len(out \o b) : (out \o b)[i].type = "T" => (out \o b)[i].quantity > 0
        BY <1>2, <1>3, <2>1, ConcatProperties, LenProperties
    <2> DEFINE ob == out \o b
    <2>3. ob \in Seq(Line) /\ out' = ob \o s
        BY <1>1, <1>4
    <2>4. \A i \in 1..Len(ob) : ob[i].type = "T" => ob[i].quantity > 0
        BY <2>2
    <2> HIDE DEF ob
    <2> QED BY <1>3, <2>3, <2>4, ConcatProperties, LenProperties
<1> QED BY <1>1, <1>5, <1>6 DEF QuantityInv, QuantityConserved

LEMMA CommandConserves ==
    ASSUME IInv, QuantityInv, NEW c \in NewOrder \cup Cancel,
           (c \in NewOrder /\ ProcessNewOrder(c)) \/ (c \in Cancel /\ ProcessCancel(c))
    PROVE  QuantityInv'
<1>1. /\ pc = "idle" /\ pc' # "idle" /\ cmd' = c /\ out' = << AckLine(c) >>
      /\ incomingQty' = c.quantity
    BY DEF ProcessNewOrder, ProcessCancel, CancelUnknown, CancelKnown, QuantityInv, Cancel
<1>2. c.quantity \in Int
    <2>1. c \in NewOrder => c.quantity \in Int
        BY QuantitiesAreInt DEF NewOrder
    <2>2. c \in Cancel => c.quantity = 0
        BY DEF Cancel
    <2> QED BY <2>1, <2>2
<1> DEFINE a == AckLine(c)
<1>3. a \in Line /\ a.type # "T"
    BY AckIsLine DEF AckLine
<1> HIDE DEF a
<1>4. << a >> \in Seq(Line) /\ Len(<< a >>) = 1 /\ << a >>[1] = a
    BY <1>3
<1>5. out' = << a >>
    BY <1>1 DEF a
<1>6. TradedQty(out') = 0
    <2> DEFINE lines == << a >>
    <2>1. lines \in Seq(Line) /\ \A i \in 1..Len(lines) : lines[i].type # "T"
        BY <1>3, <1>4
    <2> HIDE DEF lines
    <2>2. TradedQty(lines) = 0
        BY <2>1, TradedNone
    <2> QED BY <1>5, <2>2 DEF lines
<1> QED BY <1>1, <1>2, <1>3, <1>4, <1>5, <1>6 DEF QuantityInv, QuantityConserved, SmallerOf

LEMMA QuantityInvStep == IInv /\ IInv' /\ QuantityInv /\ [Next]_vars => QuantityInv'
<1> SUFFICES ASSUME IInv, IInv', QuantityInv, [Next]_vars PROVE QuantityInv'
    OBVIOUS
<1>1. ASSUME NEW c \in NewOrder, ProcessNewOrder(c) PROVE QuantityInv'
    BY <1>1, CommandConserves
<1>2. ASSUME NEW c \in Cancel, ProcessCancel(c) PROVE QuantityInv'
    BY <1>2, CommandConserves
<1>3. CASE PartialFill \/ FullFill
    BY <1>3, TradeConserves
<1>4. CASE UpdateTopOfBook
    BY <1>4, PublishConserves
<1>5. CASE DeliverOutput
    BY <1>5 DEF DeliverOutput, QuantityInv, QuantityConserved
<1>6. CASE \/ EnterLevel \/ StopMatching \/ SkipOwnOrder \/ DropLevel \/ StopAtLevel
           \/ RescanLevel \/ RestOrder \/ UNCHANGED vars
    <2>1. UNCHANGED <<cmd, incomingQty, out>> /\ (pc' = "idle" <=> pc = "idle")
        BY <1>6 DEF EnterLevel, StopMatching, SkipOwnOrder, DropLevel, StopAtLevel,
           RescanLevel, RestOrder, vars, AfterLoop, LevelDone, Scanning
    <2> QED BY <2>1 DEF QuantityInv, QuantityConserved
<1> QED BY <1>1, <1>2, <1>3, <1>4, <1>5, <1>6
        DEF Next, ProcessingStep, MatchMarketBuy, MatchMarketSell, MatchLimitBuy,
            MatchLimitSell, LimitStep, MatchStep

\* The trades reported and what is left of the order are its quantity.
THEOREM QuantitiesAreConserved == Spec => []QuantityConserved
<1>1. Init => QuantityInv
    BY DEF Init, QuantityInv, QuantityConserved
<1>2. IInv /\ QuantityInv /\ [Next]_vars => QuantityInv'
    BY IInvStep, QuantityInvStep
<1>3. QuantityInv => QuantityConserved
    BY DEF QuantityInv
<1> QED BY <1>1, <1>2, <1>3, Invariance, PTL DEF Spec

----------------------------------------------------------------------------
(* The running totals of the levels. *)

\* Wrapping an operand does not change a wrapped sum.
LEMMA Int64Absorbs ==
    ASSUME NEW x \in Int, NEW y \in Int
    PROVE  Int64(Int64(x) + y) = Int64(x + y)
<1> DEFINE h == Int64Max + 1
           w == 2 * h
           q == (x + h) \div w
<1>1. h \in Int /\ w \in Int /\ w > 0
    BY Int64MaxIsPositive
<1>2. \A z \in Int : Int64(z) = ((z + h) % w) - h
    BY <1>1, Int64MaxIsPositive DEF Int64
<1> HIDE DEF h, w
<1>3. x + h = w * q + ((x + h) % w) /\ q \in Int /\ (x + h) % w \in Int
    <2>1. x + h \in Int
        BY <1>1
    <2> QED BY <1>1, <2>1, DivMod
<1> HIDE DEF q
<1>4. Int64(x) \in Int /\ Int64(x) = x - w * q
    BY <1>1, <1>2, <1>3
<1>5. w * (-q) = -(w * q) /\ w * q \in Int /\ -q \in Int
    BY <1>1, <1>3
<1>6. (Int64(x) + y) + h = (x + y + h) + w * (-q)
    BY <1>1, <1>3, <1>4, <1>5
<1>7. ((x + y + h) + w * (-q)) % w = (x + y + h) % w
    <2>1. x + y + h \in Int
        BY <1>1
    <2> QED BY <1>1, <1>5, <2>1, ModShift
<1>8. Int64(x) + y \in Int /\ x + y \in Int
    BY <1>4
<1>9. Int64(Int64(x) + y) = (((Int64(x) + y) + h) % w) - h
    BY <1>2, <1>8
<1>10. Int64(x + y) = ((x + y + h) % w) - h
    BY <1>2, <1>8
<1> QED BY <1>6, <1>7, <1>9, <1>10

LEMMA Int64Zero == Int64(0) = 0
<1> DEFINE h == Int64Max + 1
<1>1. h \in Nat /\ h > 0
    BY Int64MaxIsPositive
<1>2. Int64(0) = (h % (2 * h)) - h
    <2>1. 0 + Int64Max + 1 = h
        BY Int64MaxIsPositive
    <2> QED BY <2>1 DEF Int64
<1> HIDE DEF h
<1>3. h % (2 * h) = h
    <2>1. h = (2 * h) * 0 + h /\ h \in 0..(2 * h - 1)
        BY <1>1
    <2>2. h = (2 * h) * (h \div (2 * h)) + (h % (2 * h)) /\ h % (2 * h) \in 0..(2 * h - 1)
          /\ h \div (2 * h) \in Int
        BY <1>1, DivMod
    <2> DEFINE w == 2 * h
               r == h % (2 * h)
               j == h \div (2 * h)
    <2>3. w \in Int /\ w > 0 /\ h \in 0..(w - 1) /\ r \in 0..(w - 1) /\ j \in Int
          /\ w * 0 + h = w * j + r
        BY <1>1, <2>1, <2>2
    <2> HIDE DEF w, r, j
    <2>4. h = r
        BY <2>3, RemainderUnique
    <2> QED BY <2>4 DEF r
<1> QED BY <1>1, <1>2, <1>3

----------------------------------------------------------------------------

QtyAt(O, deque) == [k \in DOMAIN deque |-> O[deque[k]].quantity]

\* The deque has n slots, all of them with a quantity.
Queue(O, deque, n) ==
    /\ n \in Nat
    /\ DOMAIN deque = 1..n
    /\ \A k \in 1..n : O[deque[k]].quantity \in Int

Queued(O, deque, n) ==
    /\ IsFiniteSet(1..n)
    /\ \A k \in 1..n : QtyAt(O, deque)[k] = O[deque[k]].quantity /\ QtyAt(O, deque)[k] \in Int
    /\ QueuedQty(O, deque) = SumFunctionOnSet(QtyAt(O, deque), 1..n)
    /\ QueuedQty(O, deque) \in Int

LEMMA QueuedFacts ==
    ASSUME NEW O, NEW deque, NEW n, Queue(O, deque, n)
    PROVE  Queued(O, deque, n)
<1> USE DEF Queued
<1>1. IsFiniteSet(1..n)
    BY FS_Interval DEF Queue
<1>2. \A k \in 1..n : QtyAt(O, deque)[k] = O[deque[k]].quantity /\ QtyAt(O, deque)[k] \in Int
    BY DEF QtyAt, Queue
<1>3. QueuedQty(O, deque) = SumFunctionOnSet(QtyAt(O, deque), 1..n)
    <2>1. QueuedQty(O, deque) = SumFunction(QtyAt(O, deque))
        BY DEF QueuedQty, QtyAt
    <2>2. DOMAIN QtyAt(O, deque) = 1..n
        BY DEF QtyAt, Queue
    <2> QED BY <2>1, <2>2 DEF SumFunction
<1> QED BY <1>1, <1>2, <1>3, SumType

\* Storages that give the same quantities give the same sum.
LEMMA QueuedSame ==
    ASSUME NEW O, NEW deque, NEW n, Queue(O, deque, n),
           NEW P,
           \A k \in 1..n : P[deque[k]].quantity = O[deque[k]].quantity
    PROVE  QueuedQty(P, deque) = QueuedQty(O, deque)
<1>1. Queue(P, deque, n)
    BY DEF Queue
<1>2. Queued(P, deque, n) /\ Queued(O, deque, n)
    BY <1>1, QueuedFacts
<1> DEFINE f == QtyAt(O, deque)
           g == QtyAt(P, deque)
           D == 1..n
<1>3. /\ \A k \in D : g[k] = f[k]
      /\ IsFiniteSet(D)
      /\ QueuedQty(O, deque) = SumFunctionOnSet(f, D)
      /\ QueuedQty(P, deque) = SumFunctionOnSet(g, D)
    BY <1>2 DEF Queued
<1> HIDE DEF f, g, D
<1>4. SumFunctionOnSet(g, D) = SumFunctionOnSet(f, D)
    BY <1>3, SumSame
<1> QED BY <1>3, <1>4

\* A fill of the order at place k0.
LEMMA QueuedChanged ==
    ASSUME NEW O, NEW deque, NEW n, Queue(O, deque, n),
           NEW P, NEW k0 \in 1..n, P[deque[k0]].quantity \in Int,
           \A k \in 1..n : k # k0 => P[deque[k]].quantity = O[deque[k]].quantity
    PROVE  QueuedQty(P, deque)
             = QueuedQty(O, deque) - O[deque[k0]].quantity + P[deque[k0]].quantity
<1> Queue(P, deque, n)
    BY DEF Queue
<1>1. Queued(P, deque, n) /\ Queued(O, deque, n)
    BY QueuedFacts
<1> DEFINE f == QtyAt(O, deque)
           g == QtyAt(P, deque)
           D == 1..n
<1>2. /\ IsFiniteSet(D) /\ k0 \in D
      /\ \A k \in D : f[k] = O[deque[k]].quantity /\ f[k] \in Int
      /\ QueuedQty(O, deque) = SumFunctionOnSet(f, D)
    BY <1>1 DEF Queued
<1>3. /\ \A k \in D : g[k] = P[deque[k]].quantity /\ g[k] \in Int
      /\ QueuedQty(P, deque) = SumFunctionOnSet(g, D)
    BY <1>1 DEF Queued
<1>4. \A k \in D : k # k0 => g[k] = f[k]
    BY <1>2, <1>3
<1> HIDE DEF f, g, D
<1>5. SumFunctionOnSet(g, D) = SumFunctionOnSet(f, D) - f[k0] + g[k0]
    <2>1. /\ IsFiniteSet(D) /\ k0 \in D
          /\ \A x \in D : f[x] \in Int
          /\ g[k0] \in Int
          /\ \A x \in D : x # k0 => g[x] = f[x]
        BY <1>2, <1>3, <1>4
    <2>2. SumChanges(f, g, D, k0)
        BY <2>1, SumUpdate
    <2> QED BY <2>2 DEF SumChanges
<1> QED BY <1>2, <1>3, <1>5

QueueLoses(O, deque, k0, P, rest) ==
    QueuedQty(P, rest) = QueuedQty(O, deque) - O[deque[k0]].quantity
QueueGains(O, deque, s0, P, more) ==
    QueuedQty(P, more) = QueuedQty(O, deque) + P[s0].quantity

\* The order at place k0 leaves the deque.
LEMMA QueuedRemoved ==
    ASSUME NEW O, NEW deque, NEW n, Queue(O, deque, n),
           NEW k0 \in 1..n, NEW P, NEW rest, DOMAIN rest = 1..(n - 1),
           \A k \in 1..(n - 1) : k < k0 => P[rest[k]].quantity = O[deque[k]].quantity,
           \A k \in 1..(n - 1) : ~(k < k0) => P[rest[k]].quantity = O[deque[k + 1]].quantity
    PROVE  QueueLoses(O, deque, k0, P, rest)
<1>1. n \in Nat /\ n - 1 \in Nat /\ k0 \in Nat
    BY DEF Queue
<1>2. Queued(P, rest, n - 1) /\ Queued(O, deque, n)
    <2>1. \A k \in 1..(n - 1) : k \in 1..n /\ k + 1 \in 1..n
        BY <1>1
    <2>2. \A k \in 1..(n - 1) : P[rest[k]].quantity \in Int
        BY <2>1 DEF Queue
    <2>3. Queue(P, rest, n - 1)
        BY <1>1, <2>2 DEF Queue
    <2> QED BY <2>3, QueuedFacts
<1> DEFINE f == QtyAt(O, deque)
           g == QtyAt(P, rest)
           D == 1..n
           S == 1..(n - 1)
           T == D \ {k0}
           b == [k \in S |-> IF k < k0 THEN k ELSE k + 1]
           q == O[deque[k0]].quantity
<1>3. /\ IsFiniteSet(D) /\ k0 \in D
      /\ \A k \in D : f[k] = O[deque[k]].quantity /\ f[k] \in Int
      /\ QueuedQty(O, deque) = SumFunctionOnSet(f, D)
    BY <1>2 DEF Queued
<1>4. /\ IsFiniteSet(S)
      /\ \A k \in S : g[k] = P[rest[k]].quantity /\ g[k] \in Int
      /\ QueuedQty(P, rest) = SumFunctionOnSet(g, S)
    BY <1>2 DEF Queued
<1> HIDE DEF f, g
<1>5. b \in [S -> T]
    BY <1>1
<1>6. /\ \A x, y \in S : b[x] = b[y] => x = y
      /\ \A t \in T : \E x \in S : b[x] = t
    <2>1. \A x, y \in S : b[x] = b[y] => x = y
        BY <1>1
    <2>2. ASSUME NEW t \in T PROVE \E x \in S : b[x] = t
        <3>1. CASE t < k0
            <4>1. t \in S /\ b[t] = t
                BY <1>1, <3>1
            <4> QED BY <4>1
        <3>2. CASE ~(t < k0)
            <4>1. t - 1 \in S /\ b[t - 1] = t
                BY <1>1, <3>2
            <4> QED BY <4>1
        <3> QED BY <3>1, <3>2
    <2> QED BY <2>1, <2>2
<1>7. \A x \in S : f[b[x]] = g[x]
    <2>1. SUFFICES ASSUME NEW x \in S PROVE f[b[x]] = g[x]
        OBVIOUS
    <2>2. CASE x < k0
        <3>1. b[x] = x /\ x \in D
            BY <1>1, <2>2
        <3> QED BY <1>3, <1>4, <2>2, <3>1
    <2>3. CASE ~(x < k0)
        <3>1. b[x] = x + 1 /\ x + 1 \in D
            BY <1>1, <2>3
        <3> QED BY <1>3, <1>4, <2>3, <3>1
    <2> QED BY <2>2, <2>3
<1> HIDE DEF b, S, D
<1>8. SumFunctionOnSet(g, S) = SumFunctionOnSet(f, T)
    <2> HIDE DEF T
    <2> QED BY <1>4, <1>5, <1>6, <1>7, SumRenamed
<1>9. SumFunctionOnSet(f, D) = f[k0] + SumFunctionOnSet(f, T)
    <2>1. \A k \in D : f[k] \in Int
        BY <1>3
    <2>2. SumFunctionOnSet(f, D) = f[k0] + SumFunctionOnSet(f, D \ {k0})
        BY <1>3, <2>1, SumRemove
    <2> QED BY <2>2
<1>10. f[k0] = q /\ q \in Int /\ SumFunctionOnSet(f, T) \in Int
    <2>1. IsFiniteSet(T) /\ \A k \in T : f[k] \in Int
        BY <1>3, FS_RemoveElement
    <2>2. SumFunctionOnSet(f, T) \in Int
        BY <2>1, SumType
    <2> QED BY <1>3, <2>2
<1> HIDE DEF q, T
<1>11. QueuedQty(P, rest) = QueuedQty(O, deque) - q
    BY <1>3, <1>4, <1>8, <1>9, <1>10
<1> QED BY <1>11 DEF q, QueueLoses

\* A slot joins the end of the deque.
LEMMA QueuedAppended ==
    ASSUME NEW O, NEW deque, NEW n, Queue(O, deque, n),
           NEW P, NEW more, DOMAIN more = 1..(n + 1),
           \A k \in 1..n : P[more[k]].quantity = O[deque[k]].quantity,
           P[more[n + 1]].quantity \in Int
    PROVE  QueueGains(O, deque, more[n + 1], P, more)
<1>1. Queued(P, more, n + 1) /\ Queued(O, deque, n)
    <2>1. n \in Nat /\ n + 1 \in Nat
        BY DEF Queue
    <2>2. \A k \in 1..(n + 1) : k \in 1..n \/ k = n + 1
        BY <2>1
    <2>3. \A k \in 1..(n + 1) : P[more[k]].quantity \in Int
        BY <2>2 DEF Queue
    <2>4. Queue(P, more, n + 1)
        BY <2>1, <2>3 DEF Queue
    <2> QED BY <2>4, QueuedFacts
<1> DEFINE f == QtyAt(O, deque)
           g == QtyAt(P, more)
           S == 1..n
           D == 1..(n + 1)
           m == n + 1
           q == P[more[m]].quantity
<1>2. /\ IsFiniteSet(S)
      /\ \A k \in S : f[k] = O[deque[k]].quantity
      /\ QueuedQty(O, deque) = SumFunctionOnSet(f, S)
      /\ QueuedQty(O, deque) \in Int
    BY <1>1 DEF Queued
<1>3. /\ IsFiniteSet(D)
      /\ \A k \in D : g[k] = P[more[k]].quantity /\ g[k] \in Int
      /\ QueuedQty(P, more) = SumFunctionOnSet(g, D)
    BY <1>1 DEF Queued
<1>4. m \in D /\ D \ {m} = S
    BY DEF Queue
<1>5. \A k \in S : g[k] = f[k]
    BY <1>2, <1>3, <1>4
<1> HIDE DEF f, g, S, D, m
<1>6. SumFunctionOnSet(g, D) = g[m] + SumFunctionOnSet(g, S)
    BY <1>3, <1>4, SumRemove
<1>7. SumFunctionOnSet(g, S) = SumFunctionOnSet(f, S)
    BY <1>2, <1>5, SumSame
<1>8. g[m] = q /\ q \in Int
    BY <1>3, <1>4
<1> HIDE DEF q
<1>9. QueuedQty(P, more) = QueuedQty(O, deque) + q
    BY <1>2, <1>3, <1>6, <1>7, <1>8
<1> QED BY <1>9 DEF q, m, QueueGains

----------------------------------------------------------------------------
(* One level and its total. *)

TotalRight(O, r) == r.totalQuantity = Int64(QueuedQty(O, r.orders))
Quantified(O, r) == \A k \in 1..Len(r.orders) : O[r.orders[k]].quantity \in Int

LEMMA LevelQueue ==
    ASSUME NEW O, NEW r \in PriceLevel, Quantified(O, r)
    PROVE  /\ Queue(O, r.orders, Len(r.orders))
           /\ Len(r.orders) \in Nat
           /\ r.orders \in Seq(Nat \ {0})
           /\ QueuedQty(O, r.orders) \in Int
<1>1. r.orders \in Seq(Nat \ {0})
    BY DEF PriceLevel
<1>2. Len(r.orders) \in Nat /\ DOMAIN r.orders = 1..Len(r.orders)
    BY <1>1, LenProperties
<1>3. Queue(O, r.orders, Len(r.orders))
    BY <1>2 DEF Queue, Quantified
<1>4. QueuedQty(O, r.orders) \in Int
    <2>1. Queued(O, r.orders, Len(r.orders))
        BY <1>3, QueuedFacts
    <2> QED BY <2>1 DEF Queued
<1> QED BY <1>1, <1>2, <1>3, <1>4

LEMMA KeptRight ==
    ASSUME NEW O, NEW r \in PriceLevel, Quantified(O, r), TotalRight(O, r), NEW P,
           \A k \in 1..Len(r.orders) : P[r.orders[k]].quantity = O[r.orders[k]].quantity
    PROVE  TotalRight(P, r)
<1> DEFINE d == r.orders
           n == Len(d)
<1>1. Queue(O, d, n) /\ DOMAIN d = 1..n
    BY LevelQueue DEF Queue
<1>2. \A k \in 1..n : P[d[k]].quantity = O[d[k]].quantity
    OBVIOUS
<1> HIDE DEF d, n
<1>3. QueuedQty(P, d) = QueuedQty(O, d)
    BY ONLY <1>1, <1>2, QueuedSame
<1> QED BY <1>3 DEF TotalRight, d

\* A total that follows a change of the sum, modulo 2^64, stays right.
LEMMA WrappedChange ==
    ASSUME NEW x \in Int, NEW y \in Int, NEW t, t = Int64(x)
    PROVE  Int64(t - y) = Int64(x - y) /\ Int64(t + y) = Int64(x + y)
<1>1. -y \in Int /\ x - y = x + (-y)
    OBVIOUS
<1>2. t \in Int
    BY Int64Type
<1>3. t - y = t + (-y)
    BY <1>2
<1> QED BY <1>1, <1>3, Int64Absorbs

\* Trade: the order at place k0 loses q, and so does the total.
LEMMA FilledRight ==
    ASSUME NEW O, NEW r \in PriceLevel, Quantified(O, r), TotalRight(O, r),
           NEW k0 \in 1..Len(r.orders), NEW q \in Int, NEW P,
           P[r.orders[k0]].quantity = O[r.orders[k0]].quantity - q,
           \A k \in 1..Len(r.orders) : k # k0 =>
               P[r.orders[k]].quantity = O[r.orders[k]].quantity,
           NEW e, e.orders = r.orders, e.totalQuantity = Int64(r.totalQuantity - q)
    PROVE  TotalRight(P, e)
<1> DEFINE d == r.orders
           n == Len(d)
           x == QueuedQty(O, d)
           y == QueuedQty(P, d)
           qo == O[d[k0]].quantity
           qp == P[d[k0]].quantity
<1>1. Queue(O, d, n) /\ x \in Int /\ k0 \in 1..n
    BY LevelQueue
<1>2. qo \in Int /\ qp = qo - q
    BY DEF Quantified
<1>3. \A k \in 1..n : k # k0 => P[d[k]].quantity = O[d[k]].quantity
    OBVIOUS
<1>4. P[d[k0]].quantity \in Int
    BY <1>2
<1> HIDE DEF d, n
<1>5. y = x - qo + qp
    BY <1>1, <1>3, <1>4, QueuedChanged
<1>6. r.totalQuantity = Int64(x)
    BY DEF TotalRight, d
<1> HIDE DEF x, y, qo, qp
<1>7. y = x - q
    BY <1>1, <1>2, <1>5
<1>8. Int64(r.totalQuantity - q) = Int64(x - q)
    BY <1>1, <1>6, WrappedChange
<1> QED BY <1>7, <1>8 DEF TotalRight, y, d

\* FullFill and CancelKnown: the order at place k0 leaves the level.
LEMMA RemovedRight ==
    ASSUME NEW O, NEW r \in PriceLevel, Quantified(O, r), TotalRight(O, r),
           NEW k0 \in 1..Len(r.orders), NEW P,
           \A k \in 1..Len(r.orders) : k # k0 =>
               P[r.orders[k]].quantity = O[r.orders[k]].quantity,
           NEW e, e.orders = RemoveAt(r.orders, k0),
           e.totalQuantity = Int64(r.totalQuantity - O[r.orders[k0]].quantity)
    PROVE  TotalRight(P, e)
<1> DEFINE d == r.orders
           n == Len(d)
           rest == RemoveAt(d, k0)
           x == QueuedQty(O, d)
           y == QueuedQty(P, rest)
           q == O[d[k0]].quantity
<1>1. Queue(O, d, n) /\ x \in Int /\ k0 \in 1..n /\ n \in Nat /\ d \in Seq(Nat \ {0})
    BY LevelQueue
<1>2. q \in Int
    BY DEF Quantified
<1>3. \A k \in 1..n : k # k0 => P[d[k]].quantity = O[d[k]].quantity
    OBVIOUS
<1>4. r.totalQuantity = Int64(x) /\ e.orders = rest /\ e.totalQuantity = Int64(r.totalQuantity - q)
    BY DEF TotalRight
<1> HIDE DEF d
<1>5. /\ rest \in Seq(Nat \ {0}) /\ Len(rest) = n - 1
      /\ \A j \in 1..(n - 1) : rest[j] = IF j < k0 THEN d[j] ELSE d[j + 1]
    BY <1>1, RemoveAtProps
<1> HIDE DEF n, rest
<1>6. DOMAIN rest = 1..(n - 1)
    BY <1>5, LenProperties
<1>7. \A k \in 1..(n - 1) : k < k0 => P[rest[k]].quantity = O[d[k]].quantity
    <2> SUFFICES ASSUME NEW k \in 1..(n - 1), k < k0 PROVE P[rest[k]].quantity = O[d[k]].quantity
        OBVIOUS
    <2>1. k \in 1..n /\ k # k0 /\ rest[k] = d[k]
        BY <1>1, <1>5
    <2> QED BY <1>3, <2>1
<1>8. \A k \in 1..(n - 1) : ~(k < k0) => P[rest[k]].quantity = O[d[k + 1]].quantity
    <2> SUFFICES ASSUME NEW k \in 1..(n - 1), ~(k < k0)
                 PROVE  P[rest[k]].quantity = O[d[k + 1]].quantity
        OBVIOUS
    <2>1. k + 1 \in 1..n /\ k + 1 # k0 /\ rest[k] = d[k + 1]
        BY <1>1, <1>5
    <2> QED BY <1>3, <2>1
<1>9. y = x - q
    <2>1. QueueLoses(O, d, k0, P, rest)
        BY ONLY <1>1, <1>6, <1>7, <1>8, QueuedRemoved
    <2> QED BY <2>1 DEF QueueLoses
<1> HIDE DEF x, q
<1>10. Int64(r.totalQuantity - q) = Int64(x - q)
    BY <1>1, <1>2, <1>4, WrappedChange
<1> QED BY <1>4, <1>9, <1>10 DEF TotalRight

\* RestOrder: the order in slot s0 joins the level.
LEMMA AppendedRight ==
    ASSUME NEW O, NEW r \in PriceLevel, Quantified(O, r), TotalRight(O, r),
           NEW s0 \in Nat \ {0}, NEW P, P[s0].quantity \in Int,
           \A k \in 1..Len(r.orders) : P[r.orders[k]].quantity = O[r.orders[k]].quantity,
           NEW e, e.orders = Append(r.orders, s0),
           e.totalQuantity = Int64(r.totalQuantity + P[s0].quantity)
    PROVE  TotalRight(P, e)
<1> DEFINE d == r.orders
           n == Len(d)
           more == Append(d, s0)
           x == QueuedQty(O, d)
           y == QueuedQty(P, more)
           q == P[s0].quantity
<1>1. Queue(O, d, n) /\ x \in Int /\ n \in Nat /\ d \in Seq(Nat \ {0})
    BY LevelQueue
<1>2. r.totalQuantity = Int64(x) /\ e.orders = more /\ e.totalQuantity = Int64(r.totalQuantity + q)
    BY DEF TotalRight
<1>3. \A k \in 1..n : P[d[k]].quantity = O[d[k]].quantity
    OBVIOUS
<1> HIDE DEF d
<1>4. /\ more \in Seq(Nat \ {0}) /\ Len(more) = n + 1 /\ more[n + 1] = s0
      /\ \A k \in 1..n : more[k] = d[k]
    BY <1>1, AppendProperties
<1> HIDE DEF n, more
<1>5. DOMAIN more = 1..(n + 1)
    BY <1>4, LenProperties
<1>6. \A k \in 1..n : P[more[k]].quantity = O[d[k]].quantity
    BY <1>3, <1>4
<1>7. P[more[n + 1]].quantity \in Int
    BY <1>4
<1>8. y = x + q
    <2>1. QueueGains(O, d, more[n + 1], P, more)
        BY ONLY <1>1, <1>5, <1>6, <1>7, QueuedAppended
    <2> QED BY <2>1, <1>4 DEF QueueGains
<1>9. q \in Int
    OBVIOUS
<1> HIDE DEF x, q
<1>10. Int64(r.totalQuantity + q) = Int64(x + q)
    BY <1>1, <1>2, <1>9, WrappedChange
<1> QED BY <1>2, <1>8, <1>10 DEF TotalRight

----------------------------------------------------------------------------
(* The totals of the ladders under their edits. *)

TotalsRight(L, O) ==
    \A sd \in Side : \A n \in 1..Len(L[sd]) : TotalRight(O, L[sd][n])

\* M is L but for level n0 of side sd0, which is e.
LevelReplaced(L, M, sd0, n0, e) ==
    \A sd \in Side :
        /\ Len(M[sd]) = Len(L[sd])
        /\ \A n \in 1..Len(L[sd]) : M[sd][n] = IF sd = sd0 /\ n = n0 THEN e ELSE L[sd][n]

Replaces(L, M, sd0, n0, o, t) ==
    \E e : e.orders = o /\ e.totalQuantity = t /\ LevelReplaced(L, M, sd0, n0, e)

LEMMA EveryLevel ==
    ASSUME NEW L \in [Side -> Seq(PriceLevel)], NEW O, Consistent(L, O),
           NEW sd \in Side, NEW n \in 1..Len(L[sd])
    PROVE  L[sd][n] \in PriceLevel /\ Quantified(O, L[sd][n])
<1>1. L[sd][n] \in PriceLevel
    BY LevelFacts
<1>2. ASSUME NEW k \in 1..Len(L[sd][n].orders)
      PROVE  O[L[sd][n].orders[k]].quantity \in Int
    <2>1. L[sd][n].orders[k] \in 1..Len(O)
        BY DEF Consistent, WellPlaced, Depth, Count, At
    <2> QED BY <2>1 DEF Consistent, Typed
<1> QED BY <1>1, <1>2 DEF Quantified

\* P keeps the quantities at all places but the one named.
KeptElsewhere(L, O, P, sd0, n0, k0) ==
    \A sd \in Side : \A n \in 1..Len(L[sd]) : \A k \in 1..Len(L[sd][n].orders) :
        ~(sd = sd0 /\ n = n0 /\ k = k0) =>
            P[L[sd][n].orders[k]].quantity = O[L[sd][n].orders[k]].quantity

\* A slot that is written stands at one place only.
LEMMA OtherPlaces ==
    ASSUME NEW L, NEW O, Consistent(L, O),
           NEW sd0 \in Side, NEW n0 \in 1..Len(L[sd0]), NEW k0 \in 1..Len(L[sd0][n0].orders),
           NEW P, \A s \in 1..Len(O) : s # L[sd0][n0].orders[k0] => P[s] = O[s]
    PROVE  KeptElsewhere(L, O, P, sd0, n0, k0)
<1> SUFFICES ASSUME NEW sd \in Side, NEW n \in 1..Len(L[sd]), NEW k \in 1..Len(L[sd][n].orders),
                    ~(sd = sd0 /\ n = n0 /\ k = k0)
             PROVE  P[L[sd][n].orders[k]].quantity = O[L[sd][n].orders[k]].quantity
    BY DEF KeptElsewhere
<1>1. L[sd][n].orders[k] # L[sd0][n0].orders[k0]
    <2>1. Typed(L, O) /\ SortedLadders(L) /\ WellPlaced(L, O) /\ QueuesInOrder(L, O)
        BY DEF Consistent
    <2>2. /\ n \in 1..Depth(L, sd) /\ k \in 1..Count(L, sd, n)
          /\ n0 \in 1..Depth(L, sd0) /\ k0 \in 1..Count(L, sd0, n0)
        BY DEF Depth, Count
    <2>3. At(L, sd, n, k) # At(L, sd0, n0, k0)
        BY <2>1, <2>2, PlaceUnique
    <2> QED BY <2>3 DEF At
<1>2. L[sd][n].orders[k] \in 1..Len(O)
    BY DEF Consistent, WellPlaced, Depth, Count, At
<1> QED BY <1>1, <1>2

KeptOnOthers(L, O, P, sd0, n0) ==
    \A sd \in Side : \A n \in 1..Len(L[sd]) : \A k \in 1..Len(L[sd][n].orders) :
        ~(sd = sd0 /\ n = n0) =>
            P[L[sd][n].orders[k]].quantity = O[L[sd][n].orders[k]].quantity

LEMMA ReplacedRight ==
    ASSUME NEW L \in [Side -> Seq(PriceLevel)], NEW O, Consistent(L, O), TotalsRight(L, O),
           NEW M, NEW sd0 \in Side, NEW n0 \in 1..Len(L[sd0]), NEW e,
           LevelReplaced(L, M, sd0, n0, e), NEW P, TotalRight(P, e),
           KeptOnOthers(L, O, P, sd0, n0)
    PROVE  TotalsRight(M, P)
<1> SUFFICES ASSUME NEW sd \in Side, NEW n \in 1..Len(M[sd])
             PROVE  TotalRight(P, M[sd][n])
    BY DEF TotalsRight
<1>1. n \in 1..Len(L[sd])
    BY DEF LevelReplaced
<1>2. CASE sd = sd0 /\ n = n0
    <2>1. M[sd][n] = e
        BY <1>1, <1>2 DEF LevelReplaced
    <2> QED BY <2>1
<1>3. CASE ~(sd = sd0 /\ n = n0)
    <2> DEFINE r == L[sd][n]
    <2>1. M[sd][n] = r
        BY <1>1, <1>3 DEF LevelReplaced
    <2>2. r \in PriceLevel /\ Quantified(O, r)
        BY <1>1, EveryLevel
    <2>3. TotalRight(O, r)
        BY <1>1 DEF TotalsRight
    <2>4. \A k \in 1..Len(r.orders) : P[r.orders[k]].quantity = O[r.orders[k]].quantity
        BY <1>1, <1>3 DEF KeptOnOthers
    <2> HIDE DEF r
    <2>5. TotalRight(P, r)
        BY <2>2, <2>3, <2>4, KeptRight
    <2> QED BY <2>1, <2>5
<1> QED BY <1>2, <1>3

LEMMA EditReplaces ==
    ASSUME NEW L \in [Side -> Seq(PriceLevel)], NEW sd0 \in Side, NEW n0 \in 1..Len(L[sd0]),
           NEW o \in Seq(Nat \ {0}), NEW t \in Int
    PROVE  Replaces(L, WithSide(L, sd0, EditedLevel(L[sd0], n0, o, t)), sd0, n0, o, t)
<1> DEFINE lv == L[sd0]
           f == [lv[n0] EXCEPT !.orders = o]
           e == [f EXCEPT !.totalQuantity = t]
           lw == EditedLevel(lv, n0, o, t)
           M == WithSide(L, sd0, lw)
<1>1. lv \in Seq(PriceLevel) /\ lv[n0] \in PriceLevel
    BY ElementOfSeq
<1>2. lv \in [1..Len(lv) -> PriceLevel]
    BY LenProperties
<1>3. e \in PriceLevel /\ e.orders = o /\ e.totalQuantity = t
    BY <1>1 DEF PriceLevel
<1>4. [lv EXCEPT ![n0].orders = o] = [lv EXCEPT ![n0] = f]
    OBVIOUS
<1>5. lw = [[lv EXCEPT ![n0].orders = o] EXCEPT ![n0].totalQuantity = t]
    BY DEF EditedLevel
<1> HIDE DEF f, lw
<1>6. [[lv EXCEPT ![n0] = f] EXCEPT ![n0].totalQuantity = t] = [lv EXCEPT ![n0] = e]
    BY <1>2
<1> HIDE DEF e
<1>7. /\ lw \in Seq(PriceLevel) /\ Len(lw) = Len(lv)
      /\ \A n \in 1..Len(lv) : lw[n] = IF n = n0 THEN e ELSE lv[n]
    <2>1. lw = [lv EXCEPT ![n0] = e]
        BY <1>4, <1>5, <1>6
    <2> HIDE DEF lv
    <2> QED BY <1>1, <1>3, <2>1, ExceptSeq DEF lv
<1>8. M[sd0] = lw /\ \A sd \in Side : sd # sd0 => M[sd] = L[sd]
    BY <1>7, WithSideProps
<1> HIDE DEF M
<1>9. LevelReplaced(L, M, sd0, n0, e)
    BY <1>7, <1>8 DEF LevelReplaced
<1> QED BY <1>3, <1>9 DEF Replaces, M, lw

LEMMA RetotalReplaces ==
    ASSUME NEW L \in [Side -> Seq(PriceLevel)], NEW sd0 \in Side, NEW n0 \in 1..Len(L[sd0]),
           NEW t \in Int
    PROVE  Replaces(L, Retotalled(L, sd0, n0, t), sd0, n0, L[sd0][n0].orders, t)
<1> DEFINE e == [L[sd0][n0] EXCEPT !.totalQuantity = t]
           lv == [L[sd0] EXCEPT ![n0] = e]
           M == WithSide(L, sd0, lv)
<1>1. L[sd0] \in Seq(PriceLevel)
    OBVIOUS
<1>2. e \in PriceLevel /\ e.orders = L[sd0][n0].orders /\ e.totalQuantity = t
    <2>1. L[sd0][n0] \in PriceLevel
        BY <1>1, ElementOfSeq
    <2> QED BY <2>1 DEF PriceLevel
<1>3. Retotalled(L, sd0, n0, t) = M
    BY DEF Retotalled, WithSide
<1> HIDE DEF e
<1>4. /\ lv \in Seq(PriceLevel) /\ Len(lv) = Len(L[sd0])
      /\ \A n \in 1..Len(L[sd0]) : lv[n] = IF n = n0 THEN e ELSE L[sd0][n]
    BY <1>1, <1>2, ExceptSeq
<1> HIDE DEF lv
<1>5. M[sd0] = lv /\ \A sd \in Side : sd # sd0 => M[sd] = L[sd]
    BY <1>4, WithSideProps
<1> HIDE DEF M
<1>6. LevelReplaced(L, M, sd0, n0, e)
    BY <1>4, <1>5 DEF LevelReplaced
<1> QED BY <1>2, <1>3, <1>6 DEF Replaces

\* Every level of M is a level of L, or a new one without orders.
LEMMA LevelsRight ==
    ASSUME NEW L, NEW O, TotalsRight(L, O), NEW M,
           \A sd \in Side : \A n \in 1..Len(M[sd]) :
               \/ \E m \in 1..Len(L[sd]) : M[sd][n] = L[sd][m]
               \/ TotalRight(O, M[sd][n])
    PROVE  TotalsRight(M, O)
BY DEF TotalsRight

----------------------------------------------------------------------------
(* The actions keep the totals. *)

\* M and P: the order at place k0 dies and is taken from its level.
Takes(L, O, sd0, n0, k0, M, P) ==
    /\ \A s \in 1..Len(O) : s # L[sd0][n0].orders[k0] => P[s] = O[s]
    /\ M = WithSide(L, sd0,
               EditedLevel(L[sd0], n0, RemoveAt(L[sd0][n0].orders, k0),
                   Int64(L[sd0][n0].totalQuantity - O[L[sd0][n0].orders[k0]].quantity)))

LEMMA TakenRight ==
    ASSUME NEW L \in [Side -> Seq(PriceLevel)], NEW O, Consistent(L, O), TotalsRight(L, O),
           NEW sd0 \in Side, NEW n0 \in 1..Len(L[sd0]), NEW k0 \in 1..Len(L[sd0][n0].orders),
           NEW P, NEW M, Takes(L, O, sd0, n0, k0, M, P)
    PROVE  TotalsRight(M, P)
<1> USE DEF Takes
<1> DEFINE r == L[sd0][n0]
           q == O[r.orders[k0]].quantity
           o == RemoveAt(r.orders, k0)
           t == Int64(r.totalQuantity - q)
<1>1. r \in PriceLevel /\ Quantified(O, r) /\ TotalRight(O, r) /\ k0 \in 1..Len(r.orders)
    BY EveryLevel DEF TotalsRight
<1>2. r.orders \in Seq(Nat \ {0}) /\ r.totalQuantity \in Int /\ q \in Int
    BY <1>1 DEF PriceLevel, Quantified
<1>3. o \in Seq(Nat \ {0})
    <2> DEFINE d == r.orders
    <2>1. d \in Seq(Nat \ {0}) /\ k0 \in 1..Len(d)
        BY <1>1, <1>2
    <2> HIDE DEF d
    <2>2. RemoveAt(d, k0) \in Seq(Nat \ {0})
        BY <2>1, RemoveAtProps
    <2> QED BY <2>2 DEF d
<1>4. t \in Int
    <2>1. r.totalQuantity - q \in Int
        BY <1>2
    <2> QED BY <2>1, Int64Type
<1>5. M = WithSide(L, sd0, EditedLevel(L[sd0], n0, o, t))
    OBVIOUS
<1>6. KeptElsewhere(L, O, P, sd0, n0, k0)
    BY OtherPlaces
<1>7. \A k \in 1..Len(r.orders) : k # k0 => P[r.orders[k]].quantity = O[r.orders[k]].quantity
    BY <1>6 DEF KeptElsewhere
<1>8. q = O[r.orders[k0]].quantity
    OBVIOUS
<1> HIDE DEF o, t
<1>9. PICK e : e.orders = o /\ e.totalQuantity = t /\ LevelReplaced(L, M, sd0, n0, e)
    <2>1. Replaces(L, M, sd0, n0, o, t)
        BY <1>3, <1>4, <1>5, EditReplaces
    <2> QED BY <2>1 DEF Replaces
<1> HIDE DEF r
<1>10. TotalRight(P, e)
    <2>1. e.orders = RemoveAt(r.orders, k0)
          /\ e.totalQuantity = Int64(r.totalQuantity - O[r.orders[k0]].quantity)
        BY <1>8, <1>9 DEF o, t
    <2> QED BY <1>1, <1>7, <2>1, RemovedRight
<1>11. KeptOnOthers(L, O, P, sd0, n0)
    BY <1>6 DEF KeptElsewhere, KeptOnOthers
<1>12. /\ L \in [Side -> Seq(PriceLevel)] /\ Consistent(L, O) /\ TotalsRight(L, O)
       /\ sd0 \in Side /\ n0 \in 1..Len(L[sd0])
       /\ LevelReplaced(L, M, sd0, n0, e)
    BY <1>9
<1> QED BY ONLY <1>10, <1>11, <1>12, ReplacedRight

\* DropLevel, and the end of CancelKnown.
LEMMA DroppedRight ==
    ASSUME NEW L \in [Side -> Seq(PriceLevel)], NEW O, TotalsRight(L, O),
           NEW sd0 \in Side, NEW n0 \in 1..Len(L[sd0]),
           NEW lv, lv = RemoveAt(L[sd0], n0) \/ (lv = Tail(L[sd0]) /\ n0 = 1)
    PROVE  TotalsRight(WithSide(L, sd0, lv), O)
<1> DEFINE M == WithSide(L, sd0, lv)
           lw == L[sd0]
<1>1. lw \in Seq(PriceLevel) /\ Len(lw) \in Nat /\ n0 \in 1..Len(lw)
    BY LenProperties
<1>2. lv = RemoveAt(lw, n0) \/ (lv = Tail(lw) /\ n0 = 1)
    OBVIOUS
<1>3. lv \in Seq(PriceLevel)
    BY RemovedFromLadder
<1> HIDE DEF lw
<1>4. \A n \in 1..Len(lv) : \E m \in 1..Len(lw) : lv[n] = lw[m]
    <2>1. CASE lv = RemoveAt(lw, n0)
        <3>1. /\ Len(lv) = Len(lw) - 1
              /\ \A n \in 1..(Len(lw) - 1) : lv[n] = IF n < n0 THEN lw[n] ELSE lw[n + 1]
            BY <1>1, <2>1, RemoveAtProps
        <3>2. \A n \in 1..Len(lv) : n \in 1..Len(lw) /\ n + 1 \in 1..Len(lw)
            BY <1>1, <3>1
        <3> QED BY <3>1, <3>2
    <2>2. CASE lv = Tail(lw)
        <3>1. lw # <<>>
            BY <1>1, EmptySeq
        <3>2. /\ Len(lv) = Len(lw) - 1
              /\ \A n \in 1..Len(lv) : lv[n] = lw[n + 1]
            BY <1>1, <2>2, <3>1, HeadTailProperties
        <3>3. \A n \in 1..Len(lv) : n + 1 \in 1..Len(lw)
            BY <1>1, <3>2
        <3> QED BY <3>2, <3>3
    <2> QED BY <1>2, <2>1, <2>2
<1>5. M[sd0] = lv /\ \A sd \in Side : sd # sd0 => M[sd] = L[sd]
    BY <1>3, WithSideProps
<1> HIDE DEF M
<1>6. \A sd \in Side : \A n \in 1..Len(M[sd]) : \E m \in 1..Len(L[sd]) : M[sd][n] = L[sd][m]
    BY <1>4, <1>5 DEF lw
<1>7. TotalsRight(M, O)
    BY <1>6, LevelsRight
<1> QED BY <1>7 DEF M

\* WithLevel: the level for a new price starts with nothing.
LEMMA NewLevelRight ==
    ASSUME NEW O, NEW p, NEW e, e = [price |-> p, totalQuantity |-> 0, orders |-> <<>>]
    PROVE  TotalRight(O, e)
<1>1. Queue(O, <<>>, 0)
    <2>1. DOMAIN <<>> = 1..0
        OBVIOUS
    <2> QED BY <2>1 DEF Queue
<1>2. QueuedQty(O, <<>>) = SumFunctionOnSet(QtyAt(O, <<>>), 1..0)
    <2>1. Queued(O, <<>>, 0)
        BY <1>1, QueuedFacts
    <2> QED BY <2>1 DEF Queued
<1>3. 1..0 = {}
    OBVIOUS
<1>4. QueuedQty(O, <<>>) = 0
    BY <1>2, <1>3, SumEmpty
<1>5. e.totalQuantity = 0 /\ e.orders = <<>>
    OBVIOUS
<1> QED BY <1>4, <1>5, Int64Zero DEF TotalRight

LEMMA InsertedRight ==
    ASSUME NEW L \in [Side -> Seq(PriceLevel)], NEW O, TotalsRight(L, O),
           NEW sd0 \in Side, NEW n0 \in 1..(Len(L[sd0]) + 1), NEW p \in Int, NEW lv,
           lv = InsertAt(L[sd0], n0, [price |-> p, totalQuantity |-> 0, orders |-> <<>>])
    PROVE  TotalsRight(WithSide(L, sd0, lv), O)
<1> DEFINE M == WithSide(L, sd0, lv)
           lw == L[sd0]
           e == [price |-> p, totalQuantity |-> 0, orders |-> <<>>]
<1>1. lw \in Seq(PriceLevel) /\ Len(lw) \in Nat /\ n0 \in 1..(Len(lw) + 1)
    BY LenProperties
<1>2. e \in PriceLevel /\ TotalRight(O, e)
    BY NewLevelRight DEF PriceLevel
<1>3. lv = InsertAt(lw, n0, e)
    OBVIOUS
<1> HIDE DEF lw, e
<1>4. /\ lv \in Seq(PriceLevel) /\ Len(lv) = Len(lw) + 1
      /\ \A n \in 1..(Len(lw) + 1) :
            lv[n] = IF n < n0 THEN lw[n] ELSE IF n = n0 THEN e ELSE lw[n - 1]
    <2>1. /\ InsertAt(lw, n0, e) \in Seq(PriceLevel)
          /\ Len(InsertAt(lw, n0, e)) = Len(lw) + 1
          /\ \A j \in 1..(Len(lw) + 1) :
                InsertAt(lw, n0, e)[j] = IF j < n0 THEN lw[j]
                                         ELSE IF j = n0 THEN e ELSE lw[j - 1]
        <3>1. lw \in Seq(PriceLevel) /\ n0 \in 1..(Len(lw) + 1) /\ e \in PriceLevel
            BY <1>1, <1>2
        <3> DEFINE T == PriceLevel
        <3> HIDE DEF T
        <3>2. lw \in Seq(T) /\ e \in T
            BY <3>1 DEF T
        <3>3. /\ InsertAt(lw, n0, e) \in Seq(T)
              /\ Len(InsertAt(lw, n0, e)) = Len(lw) + 1
              /\ \A j \in 1..(Len(lw) + 1) :
                    InsertAt(lw, n0, e)[j] = IF j < n0 THEN lw[j]
                                             ELSE IF j = n0 THEN e ELSE lw[j - 1]
            BY ONLY <3>1, <3>2, InsertAtProps
        <3> QED BY <3>3 DEF T
    <2> QED BY <1>3, <2>1
<1>5. ASSUME NEW n \in 1..Len(lv), lv[n] # e
      PROVE  \E m \in 1..Len(lw) : lv[n] = lw[m]
    <2>1. CASE n < n0
        <3>1. n \in 1..Len(lw) /\ lv[n] = lw[n]
            BY <1>1, <1>4, <2>1
        <3> QED BY <3>1
    <2>2. CASE ~(n < n0)
        <3>1. n # n0 /\ n - 1 \in 1..Len(lw) /\ lv[n] = lw[n - 1]
            BY <1>1, <1>4, <1>5, <2>2
        <3> QED BY <3>1
    <2> QED BY <2>1, <2>2
<1>6. M[sd0] = lv /\ \A sd \in Side : sd # sd0 => M[sd] = L[sd]
    BY <1>4, WithSideProps
<1> HIDE DEF M
<1>7. \A sd \in Side : \A n \in 1..Len(M[sd]) :
          \/ \E m \in 1..Len(L[sd]) : M[sd][n] = L[sd][m]
          \/ TotalRight(O, M[sd][n])
    BY <1>2, <1>5, <1>6 DEF lw
<1>8. TotalsRight(M, O)
    BY <1>7, LevelsRight
<1> QED BY <1>8 DEF M

TotalsInv == TotalsRight(levels, orders)

LEMMA PartialFillTotals == IInv /\ TotalsInv /\ PartialFill => TotalsInv'
<1> SUFFICES ASSUME IInv, TotalsInv, PartialFill PROVE TotalsInv'
    OBVIOUS
<1> DEFINE q == Resting.quantity - TradeQty
           t == Int64(levels[Opp][1].totalQuantity - TradeQty)
           r == levels[Opp][1]
<1>1. Scanning
    BY DEF PartialFill
<1>2. /\ Opp \in Side /\ 1 \in 1..Len(levels[Opp])
      /\ it \in 1..Len(levels[Opp][1].orders)
      /\ RestingSlot = levels[Opp][1].orders[it]
      /\ RestingSlot \in 1..Len(orders)
      /\ Resting = orders[RestingSlot] /\ Resting.quantity \in Int /\ TradeQty \in Int
    BY <1>1, ScanTarget DEF At
<1>3. /\ levels \in [Side -> Seq(PriceLevel)] /\ orders \in Seq(Order)
      /\ Consistent(levels, orders) /\ TotalsRight(levels, orders)
    BY DEF IInv, TypeOK, StoreInv, TotalsInv
<1>4. r \in PriceLevel /\ Quantified(orders, r) /\ TotalRight(orders, r)
    <2>1. levels[Opp][1] \in PriceLevel /\ Quantified(orders, levels[Opp][1])
        BY <1>2, <1>3, EveryLevel
    <2> QED BY <1>2, <1>3, <2>1 DEF TotalsRight
<1>5. t \in Int
    <2>1. levels[Opp][1].totalQuantity - TradeQty \in Int
        BY <1>2, <1>4 DEF PriceLevel
    <2> QED BY <2>1, Int64Type
<1>6. levels' = Retotalled(levels, Opp, 1, t) /\ orders' = Requantified(orders, RestingSlot, q)
    BY DEF PartialFill, Trade, Retotalled, Requantified, Resting
<1>7. q \in Int
    BY <1>2
<1> HIDE DEF q, t
<1>8. /\ \A s \in 1..Len(orders) : s # levels[Opp][1].orders[it] => orders'[s] = orders[s]
      /\ orders'[RestingSlot].quantity = q
    BY <1>2, <1>3, <1>6, <1>7, RequantifiedProps
<1>9. KeptElsewhere(levels, orders, orders', Opp, 1, it)
    BY <1>2, <1>3, <1>8, OtherPlaces
<1>10. PICK e : /\ e.orders = r.orders /\ e.totalQuantity = t
                /\ LevelReplaced(levels, levels', Opp, 1, e)
    <2>1. Replaces(levels, levels', Opp, 1, levels[Opp][1].orders, t)
        BY <1>2, <1>3, <1>5, <1>6, RetotalReplaces
    <2> QED BY <2>1 DEF Replaces
<1>11. TotalRight(orders', e)
    <2>1. \A k \in 1..Len(r.orders) : k # it =>
              orders'[r.orders[k]].quantity = orders[r.orders[k]].quantity
        BY <1>2, <1>9 DEF KeptElsewhere
    <2>2. /\ it \in 1..Len(r.orders)
          /\ orders'[r.orders[it]].quantity = orders[r.orders[it]].quantity - TradeQty
        BY <1>2, <1>8 DEF q
    <2>3. e.totalQuantity = Int64(r.totalQuantity - TradeQty)
        BY <1>10 DEF t
    <2> HIDE DEF r
    <2> QED BY <1>2, <1>4, <1>10, <2>1, <2>2, <2>3, FilledRight
<1>12. KeptOnOthers(levels, orders, orders', Opp, 1)
    BY <1>9 DEF KeptElsewhere, KeptOnOthers
<1>13. TotalsRight(levels', orders')
    BY <1>2, <1>3, <1>10, <1>11, <1>12, ReplacedRight
<1> QED BY <1>13 DEF TotalsInv

LEMMA FullFillTotals == IInv /\ TotalsInv /\ FullFill => TotalsInv'
<1> SUFFICES ASSUME IInv, TotalsInv, FullFill PROVE TotalsInv'
    OBVIOUS
<1> DEFINE t == Int64(levels[Opp][1].totalQuantity - TradeQty)
<1>1. Scanning /\ TradeQty = Resting.quantity
    BY DEF FullFill
<1>2. /\ Opp \in Side /\ 1 \in 1..Len(levels[Opp])
      /\ it \in 1..Len(levels[Opp][1].orders)
      /\ RestingSlot = levels[Opp][1].orders[it]
      /\ RestingSlot \in 1..Len(orders)
      /\ Resting = orders[RestingSlot] /\ TradeQty \in Int
    BY <1>1, ScanTarget DEF At
<1>3. /\ levels \in [Side -> Seq(PriceLevel)] /\ orders \in Seq(Order)
      /\ Consistent(levels, orders) /\ TotalsRight(levels, orders)
    BY DEF IInv, TypeOK, StoreInv, TotalsInv
<1>4. levels' = WithSide(levels, Opp,
          EditedLevel(levels[Opp], 1, RemoveAt(levels[Opp][1].orders, it), t))
    <2>1. levels' = Edited(levels, Opp, 1, RemoveAt(levels[Opp][1].orders, it), t)
        BY DEF FullFill, Edited
    <2> QED BY <1>2, <1>3, <2>1, EditedIsOneSide
<1>5. \A s \in 1..Len(orders) : s # levels[Opp][1].orders[it] => orders'[s] = orders[s]
    <2>1. orders' = Requantified(orders, RestingSlot, Resting.quantity - TradeQty)
        BY DEF FullFill, Trade, Requantified, Resting
    <2>2. Resting.quantity - TradeQty \in Int
        BY <1>1, <1>2
    <2> QED BY <1>2, <1>3, <2>1, <2>2, RequantifiedProps
<1>6. TradeQty = orders[levels[Opp][1].orders[it]].quantity
    BY <1>1, <1>2
<1>7. Takes(levels, orders, Opp, 1, it, levels', orders')
    BY <1>4, <1>5, <1>6 DEF Takes
<1>8. TotalsRight(levels', orders')
    BY <1>2, <1>3, <1>7, TakenRight
<1> QED BY <1>8 DEF TotalsInv

LEMMA DropLevelTotals == IInv /\ TotalsInv /\ DropLevel => TotalsInv'
<1> SUFFICES ASSUME IInv, TotalsInv, DropLevel PROVE TotalsInv'
    OBVIOUS
<1>1. pc = "scan"
    BY DEF DropLevel, LevelDone
<1>2. /\ Opp \in Side /\ 1 \in 1..Len(levels[Opp])
      /\ levels \in [Side -> Seq(PriceLevel)] /\ TotalsRight(levels, orders)
    BY <1>1, Matching DEF IInv, TypeOK, ScanInv, Depth, TotalsInv
<1>3. levels' = WithSide(levels, Opp, Tail(levels[Opp])) /\ orders' = orders
    BY DEF DropLevel, WithSide
<1>4. TotalsRight(WithSide(levels, Opp, Tail(levels[Opp])), orders)
    BY <1>2, DroppedRight
<1> QED BY <1>3, <1>4 DEF TotalsInv

LEMMA CancelKnownTotals ==
    ASSUME IInv, TotalsInv, NEW c \in Cancel, CancelKnown(c)
    PROVE  TotalsInv'
<1> DEFINE slot == ordersByKey[KeyOf(c)]
           sd0 == orders[slot].side
           q == orders[slot].quantity
<1>1. PICK n0 : Cancels(slot, n0)
    BY CancelTarget
<1>2. /\ levels \in [Side -> Seq(PriceLevel)] /\ orders \in Seq(Order)
      /\ Consistent(levels, orders) /\ TotalsRight(levels, orders)
    BY DEF IInv, TypeOK, StoreInv, TotalsInv
<1> HIDE DEF slot
<1>3. /\ slot \in 1..Len(orders) /\ sd0 \in Side /\ n0 \in 1..Len(levels[sd0]) /\ q \in Int
      /\ \E k \in 1..Len(levels[sd0][n0].orders) : levels[sd0][n0].orders[k] = slot
      /\ levels' = WithSide(levels, sd0, DropIfEmpty(Dequeued(levels[sd0], n0, slot, q), n0))
      /\ orders' = Requantified(orders, slot, 0)
    BY <1>1 DEF Cancels, Depth, Count, At
<1> DEFINE lv == Dequeued(levels[sd0], n0, slot, q)
           K == WithSide(levels, sd0, lv)
<1> HIDE DEF sd0
<1>4. PICK k0 \in 1..Len(levels[sd0][n0].orders) :
         /\ levels[sd0][n0].orders[k0] = slot
         /\ K \in [Side -> Seq(PriceLevel)] /\ OrderRemoved(levels, K, sd0, n0, k0)
         /\ lv = EditedLevel(levels[sd0], n0, RemoveAt(levels[sd0][n0].orders, k0),
                             Int64(levels[sd0][n0].totalQuantity - q))
    <2>1. TakesOut(levels, sd0, n0, slot, q)
        BY <1>2, <1>3, DequeuedProps
    <2> QED BY <2>1 DEF TakesOut
<1>5. Takes(levels, orders, sd0, n0, k0, K, orders')
    <2>1. \A s \in 1..Len(orders) : s # slot => orders'[s] = orders[s]
        BY <1>2, <1>3, RequantifiedProps
    <2>2. q = orders[levels[sd0][n0].orders[k0]].quantity
        BY <1>4
    <2> HIDE DEF lv, q
    <2> QED BY <1>4, <2>1, <2>2 DEF Takes
<1>6. TotalsRight(K, orders')
    BY <1>2, <1>3, <1>4, <1>5, TakenRight
<1>7. K \in [Side -> Seq(PriceLevel)] /\ Len(K[sd0]) = Len(levels[sd0]) /\ K[sd0] = lv
    <2>1. K[sd0] = lv
        BY <1>2, <1>3 DEF WithSide
    <2> QED BY <1>3, <1>4, <2>1 DEF OrderRemoved, Depth
<1>8. levels' = K \/ levels' = WithSide(K, sd0, RemoveAt(K[sd0], n0))
    <2>1. levels' = WithSide(levels, sd0, DropIfEmpty(lv, n0))
        BY <1>3
    <2>2. \A lw : WithSide(K, sd0, lw) = WithSide(levels, sd0, lw)
        BY <1>2, <1>3, <1>7, WithSideProps
    <2> HIDE DEF lv
    <2> QED BY <1>7, <2>1, <2>2 DEF DropIfEmpty
<1> HIDE DEF K
<1>9. TotalsRight(levels', orders')
    <2>1. TotalsRight(WithSide(K, sd0, RemoveAt(K[sd0], n0)), orders')
        BY <1>3, <1>6, <1>7, DroppedRight
    <2> QED BY <1>6, <1>8, <2>1
<1> QED BY <1>9 DEF TotalsInv

\* A level that the order of slot s0 joins.
LEMMA JoinedRight ==
    ASSUME NEW K \in [Side -> Seq(PriceLevel)], NEW O, Consistent(K, O), TotalsRight(K, O),
           NEW sd0 \in Side, NEW n0 \in 1..Len(K[sd0]), NEW s0 \in Nat \ {0},
           s0 \in 1..Len(O) => ~(O[s0].quantity > 0),
           NEW P, P[s0].quantity \in Int, \A s \in 1..Len(O) : s # s0 => P[s] = O[s],
           NEW M, Joined(K, M, sd0, n0, s0, P[s0].quantity)
    PROVE  TotalsRight(M, P)
<1> DEFINE r == K[sd0][n0]
           q == P[s0].quantity
           o == Append(r.orders, s0)
           t == Int64(r.totalQuantity + q)
<1>1. r \in PriceLevel /\ Quantified(O, r) /\ TotalRight(O, r)
    BY EveryLevel DEF TotalsRight
<1>2. r.orders \in Seq(Nat \ {0}) /\ r.totalQuantity \in Int
    BY <1>1 DEF PriceLevel
<1>3. o \in Seq(Nat \ {0})
    BY <1>2, AppendProperties
<1>4. t \in Int
    <2>1. r.totalQuantity + q \in Int
        BY <1>2
    <2> QED BY <2>1, Int64Type
<1>5. M = WithSide(K, sd0, EditedLevel(K[sd0], n0, o, t))
    BY DEF Joined
<1>6. ASSUME NEW sd \in Side, NEW n \in 1..Len(K[sd]), NEW k \in 1..Len(K[sd][n].orders)
      PROVE  P[K[sd][n].orders[k]].quantity = O[K[sd][n].orders[k]].quantity
    <2>1. K[sd][n].orders[k] \in 1..Len(O) /\ O[K[sd][n].orders[k]].quantity > 0
        BY DEF Consistent, WellPlaced, Depth, Count, At
    <2>2. K[sd][n].orders[k] # s0
        BY <2>1
    <2> QED BY <2>1, <2>2
<1>7. \A k \in 1..Len(r.orders) : P[r.orders[k]].quantity = O[r.orders[k]].quantity
    BY <1>6
<1>8. KeptOnOthers(K, O, P, sd0, n0)
    BY <1>6 DEF KeptOnOthers
<1> HIDE DEF o, t
<1>9. PICK e : e.orders = o /\ e.totalQuantity = t /\ LevelReplaced(K, M, sd0, n0, e)
    <2>1. Replaces(K, M, sd0, n0, o, t)
        BY <1>3, <1>4, <1>5, EditReplaces
    <2> QED BY <2>1 DEF Replaces
<1> HIDE DEF r
<1>10. TotalRight(P, e)
    <2>1. /\ e.orders = Append(r.orders, s0)
          /\ e.totalQuantity = Int64(r.totalQuantity + P[s0].quantity)
        BY <1>9 DEF o, t
    <2>2. P[s0].quantity \in Int
        OBVIOUS
    <2> QED BY ONLY <1>1, <1>7, <2>1, <2>2, AppendedRight
<1> QED BY <1>8, <1>9, <1>10, ReplacedRight

LEMMA RestOrderTotals == IInv /\ TotalsInv /\ RestOrder => TotalsInv'
<1> SUFFICES ASSUME IInv, TotalsInv, RestOrder PROVE TotalsInv'
    OBVIOUS
<1> DEFINE slot == AllocatedSlot
           o == IncomingOrder
           sd0 == cmd.side
           p == cmd.price
<1>1. Rests(slot, o)
    BY RestTarget
<1>2. /\ levels \in [Side -> Seq(PriceLevel)] /\ TotalsRight(levels, orders)
    BY DEF IInv, TypeOK, TotalsInv
<1> HIDE DEF slot, o
<1>3. /\ sd0 \in Side /\ p \in Int /\ slot \in Nat \ {0} /\ incomingQty \in Int
      /\ orders'[slot] = o /\ o.quantity = incomingQty
      /\ \A s \in 1..Len(orders) : s # slot => orders'[s] = orders[s]
      /\ slot \in 1..Len(orders) => ~(orders[slot].quantity > 0)
      /\ Queues(levels, orders, sd0, p, slot, incomingQty, levels')
    BY <1>1 DEF Rests, Allocates
<1> HIDE DEF sd0, p
<1>4. PICK K \in [Side -> Seq(PriceLevel)] : \E n \in 1..Depth(K, sd0) :
          /\ Consistent(K, orders)
          /\ Readied(levels, K, sd0, n, p)
          /\ Joined(K, levels', sd0, n, slot, incomingQty)
    BY <1>3 DEF Queues
<1>5. PICK n \in 1..Len(K[sd0]) :
          /\ Consistent(K, orders)
          /\ Readied(levels, K, sd0, n, p)
          /\ Joined(K, levels', sd0, n, slot, incomingQty)
    BY <1>4 DEF Depth
<1>6. TotalsRight(K, orders)
    <2>1. CASE K = levels
        BY <1>2, <2>1
    <2>2. CASE K # levels
        <3> DEFINE lv == InsertAt(levels[sd0], n,
                             [price |-> p, totalQuantity |-> 0, orders |-> <<>>])
        <3>1. n \in 1..(Len(levels[sd0]) + 1) /\ K = WithSide(levels, sd0, lv)
            BY <1>5, <2>2 DEF Readied
        <3>2. TotalsRight(WithSide(levels, sd0, lv), orders)
            BY <1>2, <1>3, <3>1, InsertedRight
        <3> QED BY <3>1, <3>2
    <2> QED BY <2>1, <2>2
<1>7. orders'[slot].quantity = incomingQty
    BY <1>3
<1>8. TotalsRight(levels', orders')
    <2> DEFINE P == orders'
    <2>1. /\ P[slot].quantity \in Int /\ \A s \in 1..Len(orders) : s # slot => P[s] = orders[s]
          /\ Joined(K, levels', sd0, n, slot, P[slot].quantity)
        BY <1>3, <1>5, <1>7
    <2> HIDE DEF P
    <2>2. TotalsRight(levels', P)
        BY <1>3, <1>5, <1>6, <2>1, JoinedRight
    <2> QED BY <2>2 DEF P
<1> QED BY <1>8 DEF TotalsInv

LEMMA TotalsInvStep == IInv /\ TotalsInv /\ [Next]_vars => TotalsInv'
<1> SUFFICES ASSUME IInv, TotalsInv, [Next]_vars PROVE TotalsInv'
    OBVIOUS
<1>1. ASSUME UNCHANGED store PROVE TotalsInv'
    BY <1>1 DEF TotalsInv, store
<1>2. ASSUME NEW c \in NewOrder, ProcessNewOrder(c) PROVE TotalsInv'
    BY <1>1, <1>2 DEF ProcessNewOrder
<1>3. ASSUME NEW c \in Cancel, ProcessCancel(c) PROVE TotalsInv'
    BY <1>1, <1>3, CancelKnownTotals DEF ProcessCancel, CancelUnknown
<1>4. CASE MatchStep
    BY <1>1, <1>4, PartialFillTotals, FullFillTotals, DropLevelTotals
       DEF MatchStep, EnterLevel, StopMatching, SkipOwnOrder, StopAtLevel
<1>5. CASE RescanLevel
    BY <1>1, <1>5 DEF RescanLevel
<1>6. CASE RestOrder
    BY <1>6, RestOrderTotals
<1>7. CASE UpdateTopOfBook \/ DeliverOutput \/ UNCHANGED vars
    BY <1>1, <1>7 DEF UpdateTopOfBook, DeliverOutput, vars, store
<1> QED BY <1>2, <1>3, <1>4, <1>5, <1>6, <1>7
        DEF Next, ProcessingStep, MatchMarketBuy, MatchMarketSell, MatchLimitBuy,
            MatchLimitSell, LimitStep

\* The running total of every level, which fills, cancels and new orders each
\* update by themselves, is the sum of what rests there, as far as 64 bits hold
\* it: no sequence of commands makes the two drift apart.
THEOREM TotalsAreSums == Spec => []LevelTotals
<1>1. Init => TotalsInv
    <2>1. Len(<<>>) = 0 /\ 1..0 = {}
        OBVIOUS
    <2> QED BY <2>1 DEF Init, TotalsInv, TotalsRight
<1>2. IInv /\ TotalsInv /\ [Next]_vars => TotalsInv'
    BY TotalsInvStep
<1>3. TotalsInv => LevelTotals
    BY DEF TotalsInv, TotalsRight, TotalRight, LevelTotals
<1> QED BY <1>1, <1>2, <1>3, Invariance, PTL DEF Spec

----------------------------------------------------------------------------
(* The feed of the top of book. *)

\* Until a command ends it has no B line, and an invalid top is the empty one:
\* two tops that TopEqual calls equal are the same.
FeedInv ==
    /\ pc # "done" => \A i \in 1..Len(out) : out[i].type # "B"
    /\ \A sd \in Side : ~top[sd].valid => top[sd] = NoTop

Tells(line, sd) == line.type = "B" /\ line.side = sd

LEMMA ReplaysNone ==
    ASSUME NEW lines \in Seq(Line), NEW sd \in Side,
           \A i \in 1..Len(lines) : ~Tells(lines[i], sd)
    PROVE  Replayed(sd, lines) = top[sd]
<1>1. DOMAIN lines = 1..Len(lines)
    BY LenProperties
<1> QED BY <1>1 DEF Replayed, Tells

LEMMA ReplaysOne ==
    ASSUME NEW lines \in Seq(Line), NEW sd \in Side, NEW n \in 1..Len(lines),
           Tells(lines[n], sd),
           \A i \in 1..Len(lines) : Tells(lines[i], sd) => i = n
    PROVE  Replayed(sd, lines) = lines[n].top
<1>1. DOMAIN lines = 1..Len(lines) /\ n \in Int
    BY LenProperties
<1>2. { i \in DOMAIN lines : lines[i].type = "B" /\ lines[i].side = sd } = {n}
    BY <1>1 DEF Tells
<1>3. Max({n}) = n
    BY <1>1 DEF Max
<1> QED BY <1>2, <1>3 DEF Replayed

LEMMA EqualTopsAreSame ==
    ASSUME NEW a \in TopOfBook, NEW b \in TopOfBook, TopEqual(a, b),
           ~a.valid => a = NoTop, ~b.valid => b = NoTop
    PROVE  a = b
<1>1. CASE a.valid
    <2>1. /\ a = [valid |-> a.valid, price |-> a.price, totalQuantity |-> a.totalQuantity]
          /\ b = [valid |-> b.valid, price |-> b.price, totalQuantity |-> b.totalQuantity]
        BY DEF TopOfBook
    <2>2. a.valid = b.valid /\ a.price = b.price /\ a.totalQuantity = b.totalQuantity
        BY <1>1 DEF TopEqual
    <2> QED BY <2>1, <2>2, Zenon
<1>2. CASE ~a.valid
    BY <1>2 DEF TopEqual
<1> QED BY <1>1, <1>2

\* The line of one side is there exactly if the top changed, and carries the new.
Announces(line, sd, old, new) ==
    /\ line \in Seq(Line)
    /\ Len(line) \in {0, 1}
    /\ Len(line) = 1 => /\ line[1].type = "B" /\ line[1].side = sd
                        /\ line[1].top = new /\ new # old
    /\ Len(line) = 0 => new = old

LEMMA TopLineAnnounces ==
    ASSUME NEW sd \in Side, NEW old \in TopOfBook, NEW new \in TopOfBook,
           ~old.valid => old = NoTop, ~new.valid => new = NoTop
    PROVE  Announces(TopLine(sd, old, new), sd, old, new)
<1> DEFINE b == [type |-> "B", side |-> sd, top |-> new]
<1>1. b \in Line /\ b.type = "B" /\ b.side = sd /\ b.top = new
    BY DEF Line
<1>2. TopLine(sd, old, new) = IF TopEqual(old, new) THEN <<>> ELSE << b >>
    BY DEF TopLine
<1> HIDE DEF b
<1>3. << b >> \in Seq(Line) /\ Len(<< b >>) = 1 /\ << b >>[1] = b
    BY <1>1
<1>4. <<>> \in Seq(Line) /\ Len(<<>>) = 0
    OBVIOUS
<1>5. CASE TopEqual(old, new)
    <2>1. old = new
        BY <1>5, EqualTopsAreSame
    <2> QED BY <1>2, <1>4, <1>5, <2>1 DEF Announces
<1>6. CASE ~TopEqual(old, new)
    <2>1. old # new
        BY <1>6 DEF TopEqual
    <2> QED BY <1>1, <1>2, <1>3, <1>6, <2>1 DEF Announces
<1> QED BY <1>5, <1>6

\* Where the lines of the two sides stand.
Publishes(all, lines, bid, ask, bid1, ask1) ==
    /\ lines \in Seq(Line)
    /\ \A i \in 1..Len(lines) : lines[i].type # "B"
    /\ Announces(bid, "Buy", top["Buy"], bid1)
    /\ Announces(ask, "Sell", top["Sell"], ask1)
    /\ all = (lines \o bid) \o ask

LEMMA PublishedFeed ==
    ASSUME NEW lines, NEW bid, NEW ask, NEW bid1, NEW ask1, NEW all,
           Publishes(all, lines, bid, ask, bid1, ask1)
    PROVE  /\ Replayed("Buy", all) = bid1
           /\ Replayed("Sell", all) = ask1
           /\ \A i \in 1..Len(all) : all[i].type = "B" => all[i].top # top[all[i].side]
<1> DEFINE bid0 == top["Buy"]
           ask0 == top["Sell"]
<1>0. /\ lines \in Seq(Line) /\ \A i \in 1..Len(lines) : lines[i].type # "B"
      /\ Announces(bid, "Buy", bid0, bid1) /\ Announces(ask, "Sell", ask0, ask1)
      /\ all = (lines \o bid) \o ask
    BY DEF Publishes
<1>1. /\ bid \in Seq(Line) /\ ask \in Seq(Line)
      /\ Len(lines) \in Nat /\ Len(bid) \in {0, 1} /\ Len(ask) \in {0, 1}
    BY <1>0, LenProperties DEF Announces
<1> DEFINE lb == lines \o bid
<1>2. /\ lb \in Seq(Line) /\ Len(lb) = Len(lines) + Len(bid)
      /\ \A i \in 1..Len(lines) : lb[i] = lines[i]
      /\ Len(bid) = 1 => lb[Len(lines) + 1] = bid[1]
    BY <1>0, <1>1, ConcatProperties
<1>3. all = lb \o ask
    BY <1>0
<1> HIDE DEF lb
<1>4. /\ all \in Seq(Line) /\ Len(all) = Len(lb) + Len(ask)
      /\ \A i \in 1..Len(lb) : all[i] = lb[i]
      /\ Len(ask) = 1 => all[Len(lb) + 1] = ask[1]
    <2>1. /\ Len(lb \o ask) = Len(lb) + Len(ask)
          /\ \A i \in 1..(Len(lb) + Len(ask)) :
                (lb \o ask)[i] = IF i <= Len(lb) THEN lb[i] ELSE ask[i - Len(lb)]
        <3>1. lb \in Seq(Line) /\ ask \in Seq(Line)
            BY <1>1, <1>2
        <3> QED BY ONLY <3>1, ConcatProperties
    <2>2. lb \o ask \in Seq(Line)
        BY <1>1, <1>2, ConcatProperties
    <2>3. Len(lb) \in Nat /\ Len(ask) \in Nat
        BY <1>1, <1>2
    <2> QED BY <1>3, <2>1, <2>2, <2>3
<1>5. /\ Len(bid) = 1 => /\ all[Len(lines) + 1].type = "B" /\ all[Len(lines) + 1].side = "Buy"
                         /\ all[Len(lines) + 1].top = bid1 /\ bid1 # bid0
      /\ Len(bid) = 0 => bid1 = bid0
    <2>1. Len(bid) = 1 => Len(lines) + 1 \in 1..Len(lb) /\ all[Len(lines) + 1] = bid[1]
        <3>1. Len(bid) = 1 => Len(lines) + 1 \in 1..Len(lb)
            BY <1>1, <1>2
        <3> QED BY ONLY <1>2, <1>4, <3>1
    <2> QED BY <1>0, <2>1 DEF Announces
<1>6. /\ Len(ask) = 1 => /\ all[Len(lb) + 1].type = "B" /\ all[Len(lb) + 1].side = "Sell"
                         /\ all[Len(lb) + 1].top = ask1 /\ ask1 # ask0
      /\ Len(ask) = 0 => ask1 = ask0
    BY <1>0, <1>4 DEF Announces
<1>7. \A i \in 1..Len(all) :
         all[i].type = "B" => \/ Len(bid) = 1 /\ i = Len(lines) + 1
                              \/ Len(ask) = 1 /\ i = Len(lb) + 1
    <2> SUFFICES ASSUME NEW i \in 1..Len(all), all[i].type = "B"
                 PROVE  \/ Len(bid) = 1 /\ i = Len(lines) + 1
                        \/ Len(ask) = 1 /\ i = Len(lb) + 1
        OBVIOUS
    <2>1. CASE i \in 1..Len(lines)
        <3>1. i \in 1..Len(lb)
            BY <1>1, <1>2, <2>1
        <3> QED BY <1>0, <1>2, <1>4, <2>1, <3>1
    <2>2. /\ i \in Nat /\ 1 <= i /\ i <= Len(lb) + Len(ask)
          /\ Len(lines) \in Nat /\ Len(bid) \in {0, 1} /\ Len(ask) \in {0, 1}
          /\ Len(lb) = Len(lines) + Len(bid)
        BY <1>1, <1>2, <1>4
    <2>3. \/ i \in 1..Len(lines)
          \/ Len(bid) = 1 /\ i = Len(lines) + 1
          \/ Len(ask) = 1 /\ i = Len(lb) + 1
        <3>1. CASE Len(bid) = 0 /\ Len(ask) = 0
            BY ONLY <2>2, <3>1
        <3>2. CASE Len(bid) = 1 /\ Len(ask) = 0
            BY ONLY <2>2, <3>2
        <3>3. CASE Len(bid) = 0 /\ Len(ask) = 1
            BY ONLY <2>2, <3>3
        <3>4. CASE Len(bid) = 1 /\ Len(ask) = 1
            BY ONLY <2>2, <3>4
        <3> QED BY <2>2, <3>1, <3>2, <3>3, <3>4
    <2> QED BY <2>1, <2>3
<1>8. Replayed("Buy", all) = bid1
    <2>1. CASE Len(bid) = 0
        <3>1. \A i \in 1..Len(all) : ~Tells(all[i], "Buy")
            BY <1>6, <1>7, <2>1 DEF Tells
        <3> QED BY <1>4, <1>5, <2>1, <3>1, ReplaysNone DEF Side
    <2>2. CASE Len(bid) = 1
        <3>1. /\ Len(lines) + 1 \in 1..Len(all) /\ Tells(all[Len(lines) + 1], "Buy")
              /\ \A i \in 1..Len(all) : Tells(all[i], "Buy") => i = Len(lines) + 1
            BY <1>1, <1>2, <1>4, <1>5, <1>6, <1>7, <2>2 DEF Tells
        <3> QED BY <1>4, <1>5, <2>2, <3>1, ReplaysOne DEF Side
    <2> QED BY <1>1, <2>1, <2>2
<1>9. Replayed("Sell", all) = ask1
    <2>1. CASE Len(ask) = 0
        <3>1. \A i \in 1..Len(all) : ~Tells(all[i], "Sell")
            BY <1>5, <1>7, <2>1 DEF Tells
        <3> QED BY <1>4, <1>6, <2>1, <3>1, ReplaysNone DEF Side
    <2>2. CASE Len(ask) = 1
        <3>1. /\ Len(lb) + 1 \in 1..Len(all) /\ Tells(all[Len(lb) + 1], "Sell")
              /\ \A i \in 1..Len(all) : Tells(all[i], "Sell") => i = Len(lb) + 1
            BY <1>1, <1>2, <1>4, <1>5, <1>6, <1>7, <2>2 DEF Tells
        <3> QED BY <1>4, <1>6, <2>2, <3>1, ReplaysOne DEF Side
    <2> QED BY <1>1, <2>1, <2>2
<1>10. \A i \in 1..Len(all) : all[i].type = "B" => all[i].top # top[all[i].side]
    BY <1>5, <1>6, <1>7
<1> QED BY <1>8, <1>9, <1>10

LEMMA TopsComputed ==
    ASSUME IInv, NEW sd \in Side
    PROVE  /\ ComputeTop(levels[sd]) \in TopOfBook
           /\ ~ComputeTop(levels[sd]).valid => ComputeTop(levels[sd]) = NoTop
<1>1. levels[sd] \in Seq(PriceLevel)
    BY DEF IInv, TypeOK
<1>2. levels[sd] # <<>> => levels[sd][1] \in PriceLevel
    BY <1>1, EmptySeq, LenProperties
<1> QED BY <1>2 DEF ComputeTop, NoTop, TopOfBook, PriceLevel

FeedStep ==
    /\ pc' = "done" => \A sd \in Side : top'[sd] = Replayed(sd, out')
    /\ pc' # "done" => UNCHANGED top
    /\ \A i \in 1..Len(out') : out'[i].type = "B" /\ pc' = "done"
          => out'[i].top # top[out'[i].side]

LEMMA PublishFeeds ==
    ASSUME IInv, FeedInv, UpdateTopOfBook
    PROVE  FeedInv' /\ FeedStep
<1> DEFINE bid == TopLine("Buy", top["Buy"], top'["Buy"])
           ask == TopLine("Sell", top["Sell"], top'["Sell"])
<1>1. /\ pc = "publish" /\ pc' = "done"
      /\ top' = [sd \in Side |-> ComputeTop(levels[sd])]
      /\ out' = (out \o bid) \o ask
    BY DEF UpdateTopOfBook
<1>2. out \in Seq(Line) /\ top \in [Side -> TopOfBook]
    BY DEF IInv, TypeOK
<1>3. \A sd \in Side : top'[sd] \in TopOfBook /\ (~top'[sd].valid => top'[sd] = NoTop)
    BY <1>1, TopsComputed
<1>4. /\ \A i \in 1..Len(out) : out[i].type # "B"
      /\ \A sd \in Side : ~top[sd].valid => top[sd] = NoTop
    BY <1>1 DEF FeedInv
<1>5. Announces(bid, "Buy", top["Buy"], top'["Buy"])
    BY <1>2, <1>3, <1>4, TopLineAnnounces DEF Side
<1>6. Announces(ask, "Sell", top["Sell"], top'["Sell"])
    BY <1>2, <1>3, <1>4, TopLineAnnounces DEF Side
<1> HIDE DEF bid, ask
<1>7. /\ Replayed("Buy", out') = top'["Buy"]
      /\ Replayed("Sell", out') = top'["Sell"]
      /\ \A i \in 1..Len(out') : out'[i].type = "B" => out'[i].top # top[out'[i].side]
    <2> DEFINE all == out'
    <2>1. all = (out \o bid) \o ask
        BY <1>1
    <2> HIDE DEF all
    <2>2. Publishes(all, out, bid, ask, top'["Buy"], top'["Sell"])
        BY <1>2, <1>4, <1>5, <1>6, <2>1 DEF Publishes
    <2>3. /\ Replayed("Buy", all) = top'["Buy"]
          /\ Replayed("Sell", all) = top'["Sell"]
          /\ \A i \in 1..Len(all) : all[i].type = "B" => all[i].top # top[all[i].side]
        BY <2>2, PublishedFeed
    <2> QED BY <2>3 DEF all
<1> QED BY <1>1, <1>3, <1>7 DEF FeedInv, FeedStep, Side

LEMMA FeedInvStep == IInv /\ IInv' /\ FeedInv /\ [Next]_vars => FeedInv' /\ [FeedStep]_vars
<1> SUFFICES ASSUME IInv, IInv', FeedInv, [Next]_vars PROVE FeedInv' /\ [FeedStep]_vars
    OBVIOUS
<1>1. ASSUME NEW c \in NewOrder \cup Cancel, ProcessNewOrder(c) \/ ProcessCancel(c)
      PROVE  FeedInv' /\ FeedStep
    <2>1. pc' # "done" /\ top' = top /\ out' = << AckLine(c) >>
        BY <1>1 DEF ProcessNewOrder, ProcessCancel, CancelUnknown, CancelKnown
    <2> DEFINE a == AckLine(c)
    <2>2. a.type # "B"
        BY DEF AckLine
    <2> HIDE DEF a
    <2>3. Len(<< a >>) = 1 /\ << a >>[1] = a /\ out' = << a >>
        BY <2>1 DEF a
    <2> QED BY <2>1, <2>2, <2>3 DEF FeedInv, FeedStep
<1>2. CASE PartialFill \/ FullFill
    <2> DEFINE t == TradeLine(cmd, Resting, TradeQty)
    <2>1. pc = "scan" /\ pc' = pc /\ top' = top /\ out' = Append(out, t)
        BY <1>2 DEF PartialFill, FullFill, Trade, Scanning
    <2>2. t \in Line /\ t.type # "B"
        BY <1>2, ScanTarget DEF PartialFill, FullFill, TradeLine
    <2> HIDE DEF t
    <2>3. out \in Seq(Line)
        BY DEF IInv, TypeOK
    <2>4. /\ Len(out') = Len(out) + 1 /\ Len(out) \in Nat
          /\ \A i \in 1..Len(out) : out'[i] = out[i]
          /\ out'[Len(out) + 1] = t
        BY <2>1, <2>2, <2>3, AppendProperties, LenProperties
    <2> QED BY <2>1, <2>2, <2>4 DEF FeedInv, FeedStep
<1>3. CASE UpdateTopOfBook
    BY <1>3, PublishFeeds
<1>4. CASE DeliverOutput
    BY <1>4 DEF DeliverOutput, FeedInv, FeedStep
<1>5. CASE \/ EnterLevel \/ StopMatching \/ SkipOwnOrder \/ DropLevel \/ StopAtLevel
           \/ RescanLevel \/ RestOrder
    <2>1. UNCHANGED <<top, out>> /\ pc # "done" /\ pc' # "done"
        BY <1>5 DEF EnterLevel, StopMatching, SkipOwnOrder, DropLevel, StopAtLevel,
           RescanLevel, RestOrder, AfterLoop, LevelDone, Scanning
    <2> QED BY <2>1 DEF FeedInv, FeedStep
<1>6. CASE UNCHANGED vars
    BY <1>6 DEF FeedInv, vars
<1> QED BY <1>1, <1>2, <1>3, <1>4, <1>5, <1>6
        DEF Next, ProcessingStep, MatchMarketBuy, MatchMarketSell, MatchLimitBuy,
            MatchLimitSell, LimitStep, MatchStep

\* The B lines of updateTopOfBookAndEmitChanges are a faithful feed: who reads
\* them knows the top of both sides after every command, and no line says what
\* the reader knew.
THEOREM FeedIsFaithful == Spec => FeedFaithful
<1>1. Init => FeedInv
    BY DEF Init, FeedInv
<1>2. IInv /\ FeedInv /\ [Next]_vars => FeedInv'
    BY IInvStep, FeedInvStep
<1>3. IInv /\ FeedInv /\ [Next]_vars => [FeedStep]_vars
    BY IInvStep, FeedInvStep
<1>4. [FeedStep]_vars <=> [ /\ pc' = "done" => \A sd \in Side : top'[sd] = Replayed(sd, out')
                            /\ pc' # "done" => UNCHANGED top
                            /\ \A i \in 1..Len(out') : out'[i].type = "B" /\ pc' = "done"
                                  => out'[i].top # top[out'[i].side] ]_vars
    BY DEF FeedStep
<1> QED BY <1>1, <1>2, <1>3, <1>4, Invariance, PTL DEF Spec, FeedFaithful

----------------------------------------------------------------------------
(* The detailed book as a set of orders. *)

\* What rests in storage O, and the order each entry of map K names.
RestingIn(O) == { O[s] : s \in { r \in 1..Len(O) : O[r].quantity > 0 } }
NamedBy(K, O) == [key \in Key |-> IF K[key] = 0 THEN 0 ELSE O[K[key]].sequence]
BookIn(O, K, n) == [resting |-> RestingIn(O), byKey |-> NamedBy(K, O), nextSequence |-> n]

\* No two slots hold the same number, and 0 is none.
Distinct(O) ==
    /\ \A s \in 1..Len(O) : O[s].sequence > 0
    /\ \A s, t \in 1..Len(O) : O[s].sequence = O[t].sequence => s = t

LEMMA BookNowIs == BookNow = BookIn(orders, ordersByKey, nextSequence)
BY DEF BookNow, BookIn, RestingIn, NamedBy, Slots, Alive

LEMMA BookNextIs == BookNow' = BookIn(orders', ordersByKey', nextSequence')
BY DEF BookNow, BookIn, RestingIn, NamedBy, Slots, Alive

\* The order in slot s0 dies: nothing else does.
LEMMA RestingWithout ==
    ASSUME NEW O, Distinct(O), NEW s0 \in 1..Len(O), O[s0].quantity > 0,
           NEW P, Len(P) = Len(O), \A s \in 1..Len(O) : s # s0 => P[s] = O[s],
           ~(P[s0].quantity > 0)
    PROVE  RestingIn(P) = RestingIn(O) \ {O[s0]}
<1>1. \A s \in 1..Len(O) : O[s] = O[s0] => s = s0
    BY DEF Distinct
<1> QED BY <1>1 DEF RestingIn

\* The order in slot s0 becomes another live one.
LEMMA RestingChanged ==
    ASSUME NEW O, Distinct(O), NEW s0 \in 1..Len(O), O[s0].quantity > 0,
           NEW P, Len(P) = Len(O), \A s \in 1..Len(O) : s # s0 => P[s] = O[s],
           P[s0].quantity > 0
    PROVE  RestingIn(P) = (RestingIn(O) \ {O[s0]}) \cup {P[s0]}
<1>1. \A s \in 1..Len(O) : O[s] = O[s0] => s = s0
    BY DEF Distinct
<1>2. \A s \in 1..Len(O) : s # s0 => P[s] = O[s]
    OBVIOUS
<1>3. ASSUME NEW x \in RestingIn(P) PROVE x \in (RestingIn(O) \ {O[s0]}) \cup {P[s0]}
    <2>1. PICK s \in 1..Len(O) : P[s].quantity > 0 /\ x = P[s]
        BY <1>3 DEF RestingIn
    <2>2. s # s0 => x \in RestingIn(O) /\ x # O[s0]
        BY <1>1, <1>2, <2>1 DEF RestingIn
    <2> QED BY <2>1, <2>2
<1>4. ASSUME NEW x \in RestingIn(O) \ {O[s0]} PROVE x \in RestingIn(P)
    <2>1. PICK s \in 1..Len(O) : O[s].quantity > 0 /\ x = O[s]
        BY <1>4 DEF RestingIn
    <2>2. s # s0 /\ P[s] = O[s]
        BY <1>2, <1>4, <2>1
    <2> QED BY <2>1, <2>2 DEF RestingIn
<1>5. P[s0] \in RestingIn(P)
    BY DEF RestingIn
<1> QED BY <1>3, <1>4, <1>5

\* An order comes into a slot that held none.
LEMMA RestingWith ==
    ASSUME NEW O, NEW o, o.quantity > 0, NEW s0, NEW P, NEW G, Allocates(O, o, s0, P, G)
    PROVE  RestingIn(P) = RestingIn(O) \cup {o}
<1> USE DEF Allocates
<1>1. ASSUME NEW x \in RestingIn(P) PROVE x \in RestingIn(O) \cup {o}
    <2>1. PICK s \in 1..Len(P) : P[s].quantity > 0 /\ x = P[s]
        BY <1>1 DEF RestingIn
    <2>2. s # s0 => s \in 1..Len(O) /\ P[s] = O[s]
        OBVIOUS
    <2> QED BY <2>1, <2>2 DEF RestingIn
<1>2. ASSUME NEW x \in RestingIn(O) PROVE x \in RestingIn(P)
    <2>1. PICK s \in 1..Len(O) : O[s].quantity > 0 /\ x = O[s]
        BY <1>2 DEF RestingIn
    <2>2. s # s0
        BY <2>1
    <2>3. s \in 1..Len(P) /\ P[s] = O[s]
        BY <2>2
    <2> QED BY <2>1, <2>3 DEF RestingIn
<1>3. o \in RestingIn(P)
    BY DEF RestingIn
<1> QED BY <1>1, <1>2, <1>3

\* Entries keep their names while the orders keep their numbers.
LEMMA NamesKept ==
    ASSUME NEW O, NEW K, KeysSound(K, O), NEW P,
           \A s \in 1..Len(O) : P[s].sequence = O[s].sequence
    PROVE  NamedBy(K, P) = NamedBy(K, O)
BY DEF NamedBy, KeysSound

WithEntry(K, key, n) == [K EXCEPT ![key] = n]

LEMMA NamesErased ==
    ASSUME NEW O, NEW K \in [Key -> Nat], KeysSound(K, O), NEW P, NEW key,
           \A s \in 1..Len(O) : P[s].sequence = O[s].sequence
    PROVE  NamedBy(WithEntry(K, key, 0), P) = WithEntry(NamedBy(K, O), key, 0)
<1>1. NamedBy(K, P) = NamedBy(K, O)
    BY NamesKept
<1> DEFINE J == [K EXCEPT ![key] = 0]
<1>2. \A k \in Key : J[k] = IF k = key THEN 0 ELSE K[k]
    OBVIOUS
<1> HIDE DEF J
<1>3. NamedBy(J, P) = [NamedBy(K, P) EXCEPT ![key] = 0]
    BY <1>2 DEF NamedBy
<1> QED BY <1>1, <1>3 DEF J, WithEntry

LEMMA NamesEntered ==
    ASSUME NEW O, NEW K \in [Key -> Nat], KeysSound(K, O), NEW o, NEW s0, s0 # 0,
           NEW P, NEW G, Allocates(O, o, s0, P, G), NEW key
    PROVE  NamedBy(WithEntry(K, key, s0), P) = WithEntry(NamedBy(K, O), key, o.sequence)
<1> DEFINE J == [K EXCEPT ![key] = s0]
<1>1. \A k \in Key : J[k] = IF k = key THEN s0 ELSE K[k]
    OBVIOUS
<1> HIDE DEF J
<1>2. ASSUME NEW k \in Key, k # key
      PROVE  NamedBy(J, P)[k] = NamedBy(K, O)[k]
    <2>1. J[k] = K[k]
        BY <1>1, <1>2
    <2>2. K[k] # 0 => P[K[k]] = O[K[k]]
        BY DEF KeysSound, Allocates
    <2> QED BY <2>1, <2>2 DEF NamedBy
<1>3. key \in Key => NamedBy(J, P)[key] = o.sequence
    BY <1>1 DEF NamedBy, Allocates
<1>4. NamedBy(J, P) = [k \in Key |-> NamedBy(J, P)[k]] /\ NamedBy(K, O) = [k \in Key |-> NamedBy(K, O)[k]]
    BY DEF NamedBy
<1> QED BY <1>2, <1>3, <1>4 DEF J, WithEntry

\* The number of an order names it, though its slot has held others.
NumbersInv == Distinct(orders)

\* The detailed book is a book.
LEMMA BookNowSound == IInv /\ NumbersInv => SoundBook(BookNow) /\ Positive(BookNow.resting)
<1> SUFFICES ASSUME IInv, NumbersInv PROVE SoundBook(BookNow) /\ Positive(BookNow.resting)
    OBVIOUS
<1> DEFINE live == { r \in 1..Len(orders) : orders[r].quantity > 0 }
           rest == RestingIn(orders)
<1>1. /\ orders \in Seq(Order) /\ ordersByKey \in [Key -> Nat] /\ nextSequence \in Nat \ {0}
      /\ Len(orders) \in Nat
    BY LenProperties DEF IInv, TypeOK
<1>2. \A s \in 1..Len(orders) : orders[s] \in Order
    BY <1>1, ElementOfSeq
<1>3. rest \subseteq Order /\ Positive(rest)
    BY <1>2 DEF RestingIn, Positive
<1>4. IsFiniteSet(rest)
    <2>1. IsFiniteSet(live)
        <3>1. live \in SUBSET (1..Len(orders)) /\ IsFiniteSet(1..Len(orders))
            BY <1>1, FS_Interval
        <3> QED BY <3>1, FS_Subset
    <2> DEFINE slotted == [s \in live |-> orders[s]]
    <2>2. /\ slotted \in [live -> rest]
          /\ \A s, t \in live : slotted[s] = slotted[t] => s = t
          /\ \A o \in rest : \E s \in live : slotted[s] = o
        BY DEF RestingIn, NumbersInv, Distinct
    <2> HIDE DEF live, rest, slotted
    <2>3. slotted \in Bijection(live, rest)
        BY <2>2 DEF Bijection, Injection, Surjection, IsInjective
    <2> QED BY <2>1, <2>3, FS_Bijection DEF ExistsBijection
<1>5. NamedBy(ordersByKey, orders) \in [Key -> Nat]
    <2>1. \A k \in Key : ordersByKey[k] # 0 => orders[ordersByKey[k]].sequence \in Nat
        BY <1>2 DEF IInv, StoreInv, KeysSound, Order
    <2> QED BY <2>1 DEF NamedBy
<1>6. \A o \in rest : o.sequence < nextSequence
    BY DEF IInv, StoreInv, Numbered, RestingIn
<1>7. \A o, p \in rest : o.sequence = p.sequence => o = p
    BY DEF NumbersInv, Distinct, RestingIn
<1>8. BookNow = [resting |-> rest, byKey |-> NamedBy(ordersByKey, orders), nextSequence |-> nextSequence]
    BY BookNowIs DEF BookIn
<1> HIDE DEF rest
<1>9. BookNow \in Book
    BY <1>1, <1>3, <1>5, <1>8 DEF Book
<1> QED BY <1>3, <1>4, <1>6, <1>7, <1>8, <1>9 DEF SoundBook

\* A fill leaves the order the loop stands at with less, and keeps all others.
LEMMA FillStores ==
    ASSUME IInv, PartialFill \/ FullFill
    PROVE  /\ orders \in Seq(Order) /\ RestingSlot \in 1..Len(orders)
           /\ Resting = orders[RestingSlot] /\ Resting \in Order /\ Resting.quantity > 0
           /\ orders' = [orders EXCEPT ![RestingSlot] = [Resting EXCEPT !.quantity = @ - TradeQty]]
           /\ Len(orders') = Len(orders)
           /\ \A s \in 1..Len(orders) : s # RestingSlot => orders'[s] = orders[s]
           /\ orders'[RestingSlot] = [Resting EXCEPT !.quantity = @ - TradeQty]
           /\ \A s \in 1..Len(orders) : orders'[s].sequence = orders[s].sequence
<1> DEFINE e == [Resting EXCEPT !.quantity = @ - TradeQty]
<1>1. Scanning
    BY DEF PartialFill, FullFill
<1>2. /\ RestingSlot \in 1..Len(orders) /\ Resting \in Order /\ Resting = orders[RestingSlot]
      /\ Resting.quantity > 0 /\ Resting.quantity \in Int /\ TradeQty \in Int
    BY <1>1, ScanTarget
<1>3. orders' = [orders EXCEPT ![RestingSlot] = e]
    BY DEF PartialFill, FullFill, Trade, Resting
<1>4. e \in Order /\ e.sequence = Resting.sequence
    BY <1>2 DEF Order
<1>5. orders \in Seq(Order)
    BY DEF IInv, TypeOK
<1> HIDE DEF e
<1>6. /\ Len(orders') = Len(orders)
      /\ \A s \in 1..Len(orders) : orders'[s] = IF s = RestingSlot THEN e ELSE orders[s]
    BY <1>2, <1>3, <1>4, <1>5, ExceptSeq
<1>7. orders'[RestingSlot] = e /\ \A s \in 1..Len(orders) : orders'[s].sequence = orders[s].sequence
    BY <1>2, <1>4, <1>6
<1> QED BY <1>2, <1>3, <1>5, <1>6, <1>7 DEF e

\* The order a cancel reaches dies in its slot.
LEMMA CancelStores ==
    ASSUME IInv, NEW c \in Cancel, CancelKnown(c)
    PROVE  LET slot == ordersByKey[KeyOf(c)]
           IN  /\ KeyOf(c) \in Key /\ slot \in 1..Len(orders) /\ slot # 0
               /\ orders[slot].quantity > 0
               /\ Len(orders') = Len(orders)
               /\ \A s \in 1..Len(orders) : s # slot => orders'[s] = orders[s]
               /\ orders'[slot].quantity = 0
               /\ \A s \in 1..Len(orders) : orders'[s].sequence = orders[s].sequence
<1> DEFINE slot == ordersByKey[KeyOf(c)]
<1>1. KeyOf(c) \in Key /\ \E n0 : Cancels(slot, n0)
    BY CancelTarget
<1>2. slot \in 1..Len(orders) /\ orders[slot].quantity > 0 /\ orders' = Requantified(orders, slot, 0)
    BY <1>1 DEF Cancels
<1>3. orders \in Seq(Order) /\ slot # 0
    BY DEF IInv, TypeOK, CancelKnown
<1> HIDE DEF slot
<1>4. /\ Len(orders') = Len(orders)
      /\ \A s \in 1..Len(orders) : s # slot => orders'[s] = orders[s]
      /\ orders'[slot].quantity = 0 /\ orders'[slot].sequence = orders[slot].sequence
    BY <1>2, <1>3, RequantifiedProps
<1>5. \A s \in 1..Len(orders) : orders'[s].sequence = orders[s].sequence
    BY <1>4
<1> QED BY <1>1, <1>2, <1>3, <1>4, <1>5 DEF slot

LEMMA RestStores ==
    ASSUME IInv, RestOrder
    PROVE  LET o == IncomingOrder
           IN  /\ Allocates(orders, o, AllocatedSlot, orders', freeList')
               /\ o.quantity > 0 /\ o.sequence = nextSequence /\ AllocatedSlot # 0
BY RestTarget DEF Rests

LEMMA NumbersSame ==
    ASSUME NumbersInv, Len(orders') = Len(orders),
           \A s \in 1..Len(orders) : orders'[s].sequence = orders[s].sequence
    PROVE  NumbersInv'
BY DEF NumbersInv, Distinct

LEMMA RestNumbers == IInv /\ NumbersInv /\ RestOrder => NumbersInv'
<1> SUFFICES ASSUME IInv, NumbersInv, RestOrder PROVE NumbersInv'
    OBVIOUS
<1> DEFINE slot == AllocatedSlot
           o == IncomingOrder
<1>1. Allocates(orders, o, slot, orders', freeList') /\ o.sequence = nextSequence
    BY RestStores
<1>2. nextSequence \in Nat \ {0} /\ Numbered(orders, nextSequence)
    BY DEF IInv, TypeOK, StoreInv
<1>3. \A s \in 1..Len(orders) : orders[s].sequence \in Nat
    BY DEF IInv, StoreInv, Consistent, Typed
<1> HIDE DEF slot, o
<1>4. /\ orders'[slot].sequence = nextSequence
      /\ \A s \in 1..Len(orders') : s # slot => s \in 1..Len(orders) /\ orders'[s] = orders[s]
    BY <1>1 DEF Allocates
<1>5. \A s \in 1..Len(orders') : s # slot => orders'[s].sequence > 0 /\ orders'[s].sequence # nextSequence
    BY <1>2, <1>3, <1>4 DEF NumbersInv, Distinct, Numbered
<1> QED BY <1>2, <1>4, <1>5 DEF NumbersInv, Distinct

\* Every order ever stored has a number of its own.
LEMMA NumbersStep == IInv /\ NumbersInv /\ [Next]_vars => NumbersInv'
<1> SUFFICES ASSUME IInv, NumbersInv, [Next]_vars PROVE NumbersInv'
    OBVIOUS
<1>1. ASSUME UNCHANGED orders PROVE NumbersInv'
    BY <1>1 DEF NumbersInv
<1>2. ASSUME NEW c \in NewOrder, ProcessNewOrder(c) PROVE NumbersInv'
    BY <1>1, <1>2 DEF ProcessNewOrder, store
<1>3. ASSUME NEW c \in Cancel, ProcessCancel(c) PROVE NumbersInv'
    <2>1. CASE CancelUnknown(c)
        BY <1>1, <2>1 DEF CancelUnknown, store
    <2>2. CASE CancelKnown(c)
        BY <2>2, CancelStores, NumbersSame
    <2> QED BY <1>3, <2>1, <2>2 DEF ProcessCancel
<1>4. ASSUME PartialFill \/ FullFill PROVE NumbersInv'
    BY <1>4, FillStores, NumbersSame
<1>5. CASE MatchStep
    BY <1>1, <1>4, <1>5 DEF MatchStep, EnterLevel, StopMatching, SkipOwnOrder, DropLevel, StopAtLevel, store
<1>6. CASE RescanLevel
    BY <1>1, <1>6 DEF RescanLevel, store
<1>7. CASE RestOrder
    BY <1>7, RestNumbers
<1>8. CASE UpdateTopOfBook \/ DeliverOutput \/ UNCHANGED vars
    BY <1>1, <1>8 DEF UpdateTopOfBook, DeliverOutput, vars, store
<1> QED BY <1>2, <1>3, <1>5, <1>6, <1>7, <1>8
        DEF Next, ProcessingStep, MatchMarketBuy, MatchMarketSell, MatchLimitBuy,
            MatchLimitSell, LimitStep

----------------------------------------------------------------------------
(* What the actions make of the book. *)

LEMMA FullFillBook ==
    ASSUME IInv, NumbersInv, FullFill
    PROVE  BookNow' = Without(BookNow, Resting)
<1> DEFINE key == KeyOf(Resting)
<1>1. /\ RestingSlot \in 1..Len(orders) /\ Resting = orders[RestingSlot] /\ Resting.quantity > 0
      /\ Len(orders') = Len(orders)
      /\ \A s \in 1..Len(orders) : s # RestingSlot => orders'[s] = orders[s]
      /\ \A s \in 1..Len(orders) : orders'[s].sequence = orders[s].sequence
    BY FillStores
<1>2. orders'[RestingSlot].quantity = 0
    BY FillKeepsKeys
<1>3. ordersByKey' = WithEntry(ordersByKey, key, 0) /\ nextSequence' = nextSequence
    BY DEF FullFill, ErasedKey, WithEntry
<1>4. Distinct(orders) /\ KeysSound(ordersByKey, orders) /\ ordersByKey \in [Key -> Nat]
    BY DEF NumbersInv, IInv, StoreInv, TypeOK
<1> HIDE DEF key
<1>5. RestingIn(orders') = RestingIn(orders) \ {Resting}
    BY <1>1, <1>2, <1>4, RestingWithout
<1>6. NamedBy(ordersByKey', orders') = WithEntry(NamedBy(ordersByKey, orders), key, 0)
    BY <1>1, <1>3, <1>4, NamesErased
<1>7. BookNow' = BookIn(orders', ordersByKey', nextSequence')
    BY BookNextIs
<1> QED BY <1>3, <1>5, <1>6, <1>7, BookNowIs DEF BookIn, Without, WithEntry, key

LEMMA PartialFillBook ==
    ASSUME IInv, NumbersInv, PartialFill
    PROVE  BookNow' = WithLess(BookNow, Resting, TradeQty)
<1> DEFINE e == [Resting EXCEPT !.quantity = @ - TradeQty]
<1>1. /\ RestingSlot \in 1..Len(orders) /\ Resting = orders[RestingSlot] /\ Resting.quantity > 0
      /\ Resting \in Order
      /\ Len(orders') = Len(orders)
      /\ \A s \in 1..Len(orders) : s # RestingSlot => orders'[s] = orders[s]
      /\ orders'[RestingSlot] = e
      /\ \A s \in 1..Len(orders) : orders'[s].sequence = orders[s].sequence
    BY FillStores
<1>2. e.quantity > 0
    <2>1. Scanning /\ TradeQty < Resting.quantity
        BY DEF PartialFill
    <2>2. TradeQty \in Int /\ Resting.quantity \in Int /\ e.quantity = Resting.quantity - TradeQty
        BY <1>1, <2>1, ScanTarget DEF Order
    <2> QED BY <2>1, <2>2
<1>3. UNCHANGED <<ordersByKey, nextSequence>>
    BY DEF PartialFill
<1>4. Distinct(orders) /\ KeysSound(ordersByKey, orders)
    BY DEF NumbersInv, IInv, StoreInv
<1> HIDE DEF e
<1>5. RestingIn(orders') = (RestingIn(orders) \ {Resting}) \cup {e}
    BY <1>1, <1>2, <1>4, RestingChanged
<1>6. NamedBy(ordersByKey', orders') = NamedBy(ordersByKey, orders)
    BY <1>1, <1>3, <1>4, NamesKept
<1>7. BookNow' = BookIn(orders', ordersByKey', nextSequence')
    BY BookNextIs
<1> QED BY <1>3, <1>5, <1>6, <1>7, BookNowIs DEF BookIn, WithLess, e

LEMMA RestOrderBook ==
    ASSUME IInv, RestOrder, cmd.price # 0
    PROVE  BookNow' = RestedIn(BookNow, Asking(cmd, incomingQty))
<1> DEFINE o == IncomingOrder
           a == Asking(cmd, incomingQty)
           slot == AllocatedSlot
<1>1. /\ Allocates(orders, o, slot, orders', freeList')
      /\ o.quantity > 0 /\ o.sequence = nextSequence /\ slot # 0
    BY RestStores
<1>2. /\ nextSequence' = nextSequence + 1
      /\ ordersByKey' = WithEntry(ordersByKey, KeyOf(cmd), slot)
    BY DEF RestOrder, WithEntry
<1>3. o = Newcomer(a, a.quantity, nextSequence) /\ KeyOf(a) = KeyOf(cmd)
    BY DEF IncomingOrder, Newcomer, Asking, KeyOf
<1>4. a.price # 0 /\ a.quantity > 0
    <2>1. o.quantity = incomingQty
        BY DEF IncomingOrder
    <2> QED BY <1>1, <2>1 DEF Asking
<1>5. KeysSound(ordersByKey, orders) /\ ordersByKey \in [Key -> Nat]
    BY DEF IInv, StoreInv, TypeOK
<1> HIDE DEF o, a, slot
<1>6. RestingIn(orders') = RestingIn(orders) \cup {o}
    BY <1>1, RestingWith
<1>7. NamedBy(ordersByKey', orders') = WithEntry(NamedBy(ordersByKey, orders), KeyOf(a), nextSequence)
    BY <1>1, <1>2, <1>3, <1>5, NamesEntered
<1>8. BookNow' = BookIn(orders', ordersByKey', nextSequence')
    BY BookNextIs
<1> QED BY <1>2, <1>3, <1>4, <1>6, <1>7, <1>8, BookNowIs DEF BookIn, RestedIn, WithEntry, a

LEMMA CancelBook ==
    ASSUME IInv, NumbersInv, NEW c \in Cancel, ProcessCancel(c)
    PROVE  BookNow' = AfterCancel(BookNow, c)
<1> DEFINE key == KeyOf(c)
           slot == ordersByKey[key]
           b == BookNow
           rest == { o \in b.resting : o.sequence # b.byKey[key] }
           keys == WithEntry(b.byKey, key, 0)
<1>1. SoundBook(b) /\ b = BookIn(orders, ordersByKey, nextSequence)
    BY BookNowSound, BookNowIs
<1>2. Cancelling(c) /\ key \in Key
    BY DEF Cancel, Cancelling, KeyOf, Key
<1>3. AfterCancel(b, c) = [resting |-> rest, byKey |-> keys, nextSequence |-> b.nextSequence]
    BY <1>1, <1>2, CancelIs DEF SoundBook, WithEntry
<1>4. BookNow' = BookIn(orders', ordersByKey', nextSequence')
    BY BookNextIs
<1>5. /\ b.resting = RestingIn(orders) /\ b.byKey = NamedBy(ordersByKey, orders)
      /\ b.nextSequence = nextSequence
    BY <1>1 DEF BookIn
<1>6. Distinct(orders) /\ KeysSound(ordersByKey, orders) /\ ordersByKey \in [Key -> Nat]
    BY DEF NumbersInv, IInv, StoreInv, TypeOK
<1>7. b.byKey[key] = IF slot = 0 THEN 0 ELSE orders[slot].sequence
    BY <1>2, <1>5 DEF NamedBy
<1> HIDE DEF b, keys, key
<1>8. CASE CancelUnknown(c)
    <2>1. slot = 0 /\ UNCHANGED <<orders, ordersByKey, nextSequence>>
        BY <1>8 DEF CancelUnknown, store, key
    <2>2. rest = RestingIn(orders)
        BY <1>5, <1>6, <1>7, <2>1 DEF Distinct, RestingIn
    <2>3. keys = NamedBy(ordersByKey, orders)
        BY <1>5, <1>7, <2>1 DEF NamedBy, keys, WithEntry
    <2> QED BY <1>3, <1>4, <1>5, <2>1, <2>2, <2>3 DEF BookIn, b
<1>9. CASE CancelKnown(c)
    <2>1. /\ slot \in 1..Len(orders) /\ slot # 0 /\ orders[slot].quantity > 0
          /\ Len(orders') = Len(orders)
          /\ \A s \in 1..Len(orders) : s # slot => orders'[s] = orders[s]
          /\ orders'[slot].quantity = 0
          /\ \A s \in 1..Len(orders) : orders'[s].sequence = orders[s].sequence
        BY <1>9, CancelStores DEF key
    <2>2. ordersByKey' = WithEntry(ordersByKey, key, 0) /\ nextSequence' = nextSequence
        BY <1>9 DEF CancelKnown, ErasedKey, WithEntry, key
    <2>3. RestingIn(orders') = RestingIn(orders) \ {orders[slot]}
        <3> HIDE DEF slot, rest
        <3>1. Distinct(orders) /\ ~(orders'[slot].quantity > 0)
            BY <1>6, <2>1
        <3> QED BY ONLY <2>1, <3>1, RestingWithout
    <2>4. rest = RestingIn(orders) \ {orders[slot]}
        BY <1>5, <1>6, <1>7, <2>1 DEF Distinct, RestingIn
    <2>5. NamedBy(ordersByKey', orders') = keys
        BY <1>5, <1>6, <2>1, <2>2, NamesErased DEF keys
    <2> QED BY <1>3, <1>4, <1>5, <2>2, <2>3, <2>4, <2>5 DEF BookIn, b
<1> QED BY <1>8, <1>9 DEF ProcessCancel

\* The steps between, and those that publish, leave the book alone.
LEMMA SameBook ==
    ASSUME UNCHANGED <<orders, ordersByKey, nextSequence>>
    PROVE  BookNow' = BookNow
BY BookNowIs, BookNextIs DEF BookIn

----------------------------------------------------------------------------
(* The loop meets the makers in their turn. *)

\* The orders of a side are those on its ladder.
LEMMA PlacesOf ==
    ASSUME NEW L, NEW O, Consistent(L, O), NEW sd \in Side
    PROVE  /\ \A o \in RestingIn(O) : o.side = sd =>
                 \E n \in 1..Depth(L, sd) : \E k \in 1..Count(L, sd, n) :
                    o = O[At(L, sd, n, k)] /\ o.price = PriceAt(L, sd, n)
           /\ \A n \in 1..Depth(L, sd) : \A k \in 1..Count(L, sd, n) :
                 LET o == O[At(L, sd, n, k)]
                 IN  o \in RestingIn(O) /\ o.side = sd /\ o.price = PriceAt(L, sd, n)
           /\ \A n \in 1..Depth(L, sd) : PriceAt(L, sd, n) \in Int
           /\ \A n \in 1..Depth(L, sd) : n = 1 \/ Better(sd, PriceAt(L, sd, 1), PriceAt(L, sd, n))
<1>1. Typed(L, O) /\ SortedLadders(L) /\ WellPlaced(L, O) /\ Covered(L, O)
    BY DEF Consistent
<1>2. ASSUME NEW o \in RestingIn(O), o.side = sd
      PROVE  \E n \in 1..Depth(L, sd) : \E k \in 1..Count(L, sd, n) :
                o = O[At(L, sd, n, k)] /\ o.price = PriceAt(L, sd, n)
    <2>1. PICK s \in 1..Len(O) : O[s].quantity > 0 /\ o = O[s]
        BY DEF RestingIn
    <2>2. Held(L, s)
        BY <1>1, <2>1 DEF Covered
    <2>3. PICK sd2 \in Side : \E n \in 1..Depth(L, sd2) : \E k \in 1..Count(L, sd2, n) : At(L, sd2, n, k) = s
        BY <2>2 DEF Held
    <2>4. PICK n \in 1..Depth(L, sd2) : \E k \in 1..Count(L, sd2, n) : At(L, sd2, n, k) = s
        BY <2>3
    <2>5. sd2 = sd /\ o.price = PriceAt(L, sd2, n)
        BY <1>1, <1>2, <2>1, <2>4 DEF WellPlaced
    <2> QED BY <2>1, <2>4, <2>5
<1>3. ASSUME NEW n \in 1..Depth(L, sd), NEW k \in 1..Count(L, sd, n)
      PROVE  /\ O[At(L, sd, n, k)] \in RestingIn(O) /\ O[At(L, sd, n, k)].side = sd
             /\ O[At(L, sd, n, k)].price = PriceAt(L, sd, n)
    BY <1>1 DEF WellPlaced, RestingIn
<1>4. ASSUME NEW n \in 1..Depth(L, sd)
      PROVE  PriceAt(L, sd, n) \in Int /\ (n = 1 \/ Better(sd, PriceAt(L, sd, 1), PriceAt(L, sd, n)))
    <2>1. Depth(L, sd) \in Nat /\ (n = 1 \/ (1 < n /\ 1 \in 1..Depth(L, sd)))
        BY <1>1 DEF Typed
    <2> QED BY <1>1, <2>1 DEF Typed, SortedLadders
<1> QED BY <1>2, <1>3, <1>4

\* The makers an order is looking for stand on the opposite ladder.
LEMMA OpposingPlaces ==
    ASSUME IInv, pc \in {"level", "scan"}
    PROVE  /\ Opp \in Side /\ cmd.side \in Side /\ cmd.price \in Int
           /\ \A o \in Opposing(BookNow.resting, cmd) :
                 /\ o \in RestingIn(orders) /\ o.side = Opp
                 /\ \E n \in 1..Depth(levels, Opp) : \E k \in 1..Count(levels, Opp, n) :
                       o = orders[At(levels, Opp, n, k)] /\ o.price = PriceAt(levels, Opp, n)
           /\ \A n \in 1..Depth(levels, Opp) : \A k \in 1..Count(levels, Opp, n) :
                 LET o == orders[At(levels, Opp, n, k)]
                 IN  o \in Opposing(BookNow.resting, cmd) /\ o.side = Opp /\ o.price = PriceAt(levels, Opp, n)
           /\ \A n \in 1..Depth(levels, Opp) :
                 /\ PriceAt(levels, Opp, n) \in Int
                 /\ n = 1 \/ Better(Opp, PriceAt(levels, Opp, 1), PriceAt(levels, Opp, n))
<1>1. Opp \in Side /\ cmd.side \in Side /\ cmd.price \in Int
    BY Matching DEF IInv
<1>2. Consistent(levels, orders) /\ BookNow.resting = RestingIn(orders)
    BY BookNowIs DEF IInv, StoreInv, BookIn
<1>3. \A o : o \in Opposing(BookNow.resting, cmd) <=> o \in RestingIn(orders) /\ o.side = Opp
    BY <1>2 DEF Opposing, Opp
<1> QED BY <1>1, <1>2, <1>3, PlacesOf

\* The order the loop stands at comes first of all that are eligible.
LEMMA TargetLeads ==
    ASSUME IInv, NumbersInv, Scanning, Resting.userId # cmd.userId, PriceAcceptable
    PROVE  LeadsOff(Resting, Eligible(BookNow.resting, cmd))
<1>1. /\ Opp \in Side /\ 1 \in 1..Depth(levels, Opp) /\ it \in 1..Count(levels, Opp, 1)
      /\ RestingSlot = At(levels, Opp, 1, it) /\ Resting = orders[RestingSlot]
      /\ RestingSlot \in 1..Len(orders)
    BY ScanTarget DEF Depth, Count
<1>2. pc = "scan" /\ incomingQty > 0
    BY DEF Scanning
<1>3. Resting \in Opposing(BookNow.resting, cmd) /\ Resting.side = Opp /\ Resting.price = PriceAt(levels, Opp, 1)
    BY <1>1, <1>2, OpposingPlaces
<1>4. /\ \A o \in Opposing(BookNow.resting, cmd) :
            /\ o \in RestingIn(orders) /\ o.side = Opp
            /\ \E n \in 1..Depth(levels, Opp) : \E k \in 1..Count(levels, Opp, n) :
                  o = orders[At(levels, Opp, n, k)] /\ o.price = PriceAt(levels, Opp, n)
      /\ \A n \in 1..Depth(levels, Opp) :
            /\ PriceAt(levels, Opp, n) \in Int
            /\ n = 1 \/ Better(Opp, PriceAt(levels, Opp, 1), PriceAt(levels, Opp, n))
    BY <1>2, OpposingPlaces
<1>5. \A o \in Opposing(BookNow.resting, cmd) : ~Better(Opp, o.price, Resting.price)
    BY <1>1, <1>3, <1>4, BetterTotal
<1>6. cmd.price = 0 \/ ~Better(cmd.side, Resting.price, cmd.price)
    BY <1>3 DEF PriceAcceptable, IsMarket, PriceAt, BestLevel
<1>7. Resting \in Eligible(BookNow.resting, cmd)
    BY <1>3, <1>5, <1>6 DEF Eligible
<1>8. ASSUME NEW p \in Eligible(BookNow.resting, cmd), p # Resting
      PROVE  Ahead(Resting, p)
    <2>1. p \in Opposing(BookNow.resting, cmd) /\ p.userId # cmd.userId
        BY <1>8 DEF Eligible
    <2>2. PICK n \in 1..Depth(levels, Opp) : \E k \in 1..Count(levels, Opp, n) :
                p = orders[At(levels, Opp, n, k)] /\ p.price = PriceAt(levels, Opp, n)
        BY <1>4, <2>1
    <2>3. PICK k \in 1..Count(levels, Opp, n) : p = orders[At(levels, Opp, n, k)] /\ p.price = PriceAt(levels, Opp, n)
        BY <2>2
    <2>4. CASE n # 1
        BY <1>3, <1>4, <2>3, <2>4 DEF Ahead
    <2>5. CASE n = 1
        <3>1. /\ Count(levels, Opp, 1) \in Nat /\ QueuesInOrder(levels, orders)
            BY <1>1 DEF IInv, StoreInv, Consistent, Typed
        <3>2. ~(k < it)
            BY <1>1, <1>2, <2>1, <2>3, <2>5 DEF IInv, ScanInv
        <3>3. k # it
            BY <1>1, <1>8, <2>3, <2>5
        <3>4. it < k
            BY <1>1, <2>3, <2>5, <3>1, <3>2, <3>3
        <3>5. orders[At(levels, Opp, 1, it)].sequence < orders[At(levels, Opp, 1, k)].sequence
            BY <1>1, <2>3, <2>5, <3>1, <3>4 DEF QueuesInOrder
        <3> QED BY <1>1, <1>3, <2>3, <2>5, <3>5 DEF Ahead
    <2> QED BY <2>4, <2>5
<1> QED BY <1>7, <1>8 DEF LeadsOff

\* Nobody is eligible when the while loop ends with quantity left.
LEMMA LoopEndsDry ==
    ASSUME IInv, pc = "level", ~CanMatch, incomingQty > 0
    PROVE  Eligible(BookNow.resting, cmd) = {}
<1> SUFFICES ASSUME NEW o \in Eligible(BookNow.resting, cmd) PROVE FALSE
    OBVIOUS
<1>1. o \in Opposing(BookNow.resting, cmd) /\ (cmd.price = 0 \/ ~Better(cmd.side, o.price, cmd.price))
    BY DEF Eligible
<1>2. /\ Opp \in Side /\ cmd.side \in Side /\ cmd.price \in Int
      /\ \E n \in 1..Depth(levels, Opp) : \E k \in 1..Count(levels, Opp, n) :
            o = orders[At(levels, Opp, n, k)] /\ o.price = PriceAt(levels, Opp, n)
      /\ \A n \in 1..Depth(levels, Opp) :
            /\ PriceAt(levels, Opp, n) \in Int
            /\ n = 1 \/ Better(Opp, PriceAt(levels, Opp, 1), PriceAt(levels, Opp, n))
    BY <1>1, OpposingPlaces
<1>3. PICK n \in 1..Depth(levels, Opp) : o.price = PriceAt(levels, Opp, n)
    BY <1>2
<1>4. Depth(levels, Opp) \in Nat
    BY <1>2 DEF IInv, StoreInv, Consistent, Typed
<1>5. 1 \in 1..Depth(levels, Opp)
    BY <1>3, <1>4
<1>6. levels[Opp] # <<>>
    BY <1>5 DEF Depth
<1>7. ~PriceAcceptable
    BY <1>6 DEF CanMatch
<1>8. cmd.price # 0 /\ Better(cmd.side, PriceAt(levels, Opp, 1), cmd.price)
    BY <1>7 DEF PriceAcceptable, IsMarket, PriceAt, BestLevel
<1>9. ~Better(cmd.side, o.price, cmd.price)
    BY <1>1, <1>8
<1>10. Opp = Opposite(cmd.side)
    BY DEF Opp
<1> DEFINE best == PriceAt(levels, Opp, 1)
           limit == cmd.price
           sd == cmd.side
<1>11. /\ best \in Int /\ limit \in Int /\ o.price \in Int /\ sd \in Side
       /\ Better(sd, best, limit) /\ ~Better(sd, o.price, limit)
       /\ o.price = best \/ Better(Opposite(sd), best, o.price)
    BY <1>2, <1>3, <1>5, <1>8, <1>9, <1>10
<1> HIDE DEF best, limit, sd
<1> QED BY ONLY <1>11 DEF Better, Opposite, Side

\* Nor when a level is left with nothing but the user's own orders.
LEMMA OwnOrdersBlock ==
    ASSUME IInv, StopAtLevel, incomingQty > 0
    PROVE  Eligible(BookNow.resting, cmd) = {}
<1> SUFFICES ASSUME NEW o \in Eligible(BookNow.resting, cmd) PROVE FALSE
    OBVIOUS
<1>1. pc = "scan" /\ ~(it <= Len(BestLevel.orders)) /\ BestLevel.orders # <<>>
    BY DEF StopAtLevel, LevelDone
<1>2. /\ Opp \in Side /\ levels[Opp] \in Seq(PriceLevel) /\ 1 \in 1..Depth(levels, Opp) /\ it \in Nat
    BY <1>1, Matching DEF IInv, TypeOK, ScanInv
<1>3. Count(levels, Opp, 1) \in Nat /\ Count(levels, Opp, 1) # 0 /\ Count(levels, Opp, 1) < it
    <2>1. BestLevel.orders \in Seq(Nat \ {0})
        BY <1>2, LevelFacts DEF BestLevel, Depth
    <2>2. Len(BestLevel.orders) \in Nat /\ Len(BestLevel.orders) # 0
        BY <1>1, <2>1, EmptySeq, LenProperties
    <2> QED BY <1>1, <1>2, <2>2 DEF Count, BestLevel
<1>4. \A k \in 1..Count(levels, Opp, 1) : orders[At(levels, Opp, 1, k)].userId = cmd.userId
    BY <1>1, <1>2, <1>3 DEF IInv, ScanInv
<1>5. /\ o \in Opposing(BookNow.resting, cmd) /\ o.userId # cmd.userId
      /\ \A own \in Opposing(BookNow.resting, cmd) :
             own.userId = cmd.userId => ~Better(o.side, own.price, o.price)
    BY DEF Eligible
<1>6. PICK n \in 1..Depth(levels, Opp) : \E k \in 1..Count(levels, Opp, n) :
            o = orders[At(levels, Opp, n, k)] /\ o.price = PriceAt(levels, Opp, n)
    BY <1>1, <1>5, OpposingPlaces
<1>7. n # 1
    BY <1>4, <1>5, <1>6
<1>8. o.side = Opp /\ Better(Opp, PriceAt(levels, Opp, 1), o.price)
    BY <1>1, <1>5, <1>6, <1>7, OpposingPlaces
<1>9. 1 \in 1..Count(levels, Opp, 1)
    BY <1>3
<1> DEFINE own == orders[At(levels, Opp, 1, 1)]
<1>10. own \in Opposing(BookNow.resting, cmd) /\ own.price = PriceAt(levels, Opp, 1) /\ own.userId = cmd.userId
    BY <1>1, <1>2, <1>4, <1>9, OpposingPlaces
<1> QED BY <1>5, <1>8, <1>10

----------------------------------------------------------------------------
(* The command in progress: what is left of it, served by the book as it is, *)
(* comes to what all of it, served by the book it found, comes to.           *)

Residual == Asking(cmd, incomingQty)

StillToServe ==
    /\ AfterNewOrder(found, cmd) = AfterNewOrder(BookNow, Residual)
    /\ << AckLine(cmd) >> \o TradeLines(found.resting, cmd)
         = out \o TradeLines(BookNow.resting, Residual)

Dry == DOMAIN Fills(BookNow.resting, Residual) = {}

Served ==
    /\ BookNow = IF cmd.type = "NewOrder" THEN AfterNewOrder(found, cmd) ELSE AfterCancel(found, cmd)
    /\ out = IF cmd.type = "NewOrder" THEN << AckLine(cmd) >> \o TradeLines(found.resting, cmd)
             ELSE << AckLine(cmd) >>

ServingInv ==
    /\ pc \in {"level", "scan", "rest", "publish"} => SoundBook(found)
    /\ pc \in {"level", "scan", "rest"} => StillToServe
    /\ pc = "scan" => PriceAcceptable
    /\ pc = "rest" => cmd.price # 0 /\ Dry
    /\ pc = "publish" => Served

\* What the refinement rests on.  ServingInv is the heart of it: at every step of
\* the loop, serving what is left of the order with the book as it stands gives
\* the book, and after the lines already out the lines, that serving all of it
\* with the book the command found gives.
RefInv == IInv /\ TotalsInv /\ NumbersInv /\ ServingInv

LEMMA OrderEnters == \A c \in NewOrder : Entering(c) /\ Asking(c, c.quantity) = c
<1> SUFFICES ASSUME NEW c \in NewOrder PROVE Entering(c) /\ Asking(c, c.quantity) = c
    OBVIOUS
<1>1. Entering(c)
    BY PricesAreInt, QuantitiesAreInt DEF NewOrder, Entering
<1>2. c = [type |-> c.type, userId |-> c.userId, userOrderId |-> c.userOrderId,
           price |-> c.price, quantity |-> c.quantity, side |-> c.side] /\ c.type = "NewOrder"
    BY DEF NewOrder
<1> QED BY <1>1, <1>2 DEF Asking

\* What is left of the order is an order.
LEMMA ResidualFacts ==
    ASSUME IInv, pc \in {"level", "scan", "rest"}
    PROVE  /\ Entering(cmd) /\ incomingQty \in Int /\ cmd.type = "NewOrder"
           /\ Entering(Residual) /\ Residual.quantity = incomingQty /\ Residual.price = cmd.price
           /\ \A resting : Eligible(resting, Residual) = Eligible(resting, cmd)
           /\ \A o, t : TradeLine(Residual, o, t) = TradeLine(cmd, o, t)
<1>1. Entering(cmd) /\ incomingQty \in Int /\ cmd.type = "NewOrder"
    BY Matching, OrderEnters DEF IInv, TypeOK, Entering
<1> QED BY <1>1, AskingFacts DEF Residual

LEMMA LinesTyped ==
    ASSUME NEW book, SoundBook(book), NEW c, Entering(c)
    PROVE  TradeLines(book.resting, c) \in Seq(Line)
BY TradesListed DEF ListsTrades

\* A trade: its line, then what the rest of the order says.
LEMMA LineMovesOver ==
    ASSUME NEW lines \in Seq(Line), NEW line \in Line, NEW more \in Seq(Line)
    PROVE  lines \o (<< line >> \o more) = Append(lines, line) \o more
<1>1. << line >> \in Seq(Line) /\ Append(lines, line) = lines \o << line >>
    BY AppendIsConcat
<1>2. (lines \o << line >>) \o more = lines \o (<< line >> \o more)
    BY <1>1, ConcatAssociative
<1> QED BY <1>1, <1>2

LEMMA ServesOn ==
    ASSUME StillToServe, NEW later, NEW a, NEW line \in Line, out \in Seq(Line),
           Continues(BookNow, Residual, later, a, line), TradeLines(later.resting, a) \in Seq(Line),
           BookNow' = later, Residual' = a, out' = Append(out, line), UNCHANGED <<cmd, found>>
    PROVE  StillToServe'
<1>1. out \o TradeLines(BookNow.resting, Residual) = out' \o TradeLines(later.resting, a)
    BY LineMovesOver DEF Continues
<1> QED BY <1>1 DEF StillToServe, Continues

\* The price of the best level does not change while it is scanned.
LEMMA PriceStaysAcceptable ==
    ASSUME PriceAcceptable, UNCHANGED cmd, PriceAt(levels', Opp, 1) = PriceAt(levels, Opp, 1)
    PROVE  PriceAcceptable'
<1>1. Opp' = Opp /\ IsMarket' = IsMarket
    BY DEF Opp, IsMarket
<1> QED BY <1>1 DEF PriceAcceptable, BestLevel, PriceAt

LEMMA FullFillPrice ==
    ASSUME IInv, PriceAcceptable, FullFill
    PROVE  PriceAcceptable'
<1> DEFINE d == RemoveAt(levels[Opp][1].orders, it)
           t == Int64(levels[Opp][1].totalQuantity - TradeQty)
<1>1. levels' = Edited(levels, Opp, 1, d, t) /\ UNCHANGED cmd
    BY DEF FullFill, Edited
<1>2. Scanning
    BY DEF FullFill
<1>3. Opp \in Side /\ levels \in [Side -> Seq(PriceLevel)] /\ 1 \in 1..Len(levels[Opp])
    BY <1>2, ScanTarget DEF IInv, TypeOK
<1> HIDE DEF d, t
<1>4. levels'[Opp][1].price = levels[Opp][1].price
    BY <1>1, <1>3 DEF Edited
<1> QED BY <1>1, <1>4, PriceStaysAcceptable DEF PriceAt

LEMMA FullFillServes ==
    ASSUME RefInv, FullFill, UNCHANGED found
    PROVE  ServingInv'
<1> USE DEF RefInv
<1>1. /\ pc = "scan" /\ Scanning /\ Resting.userId # cmd.userId /\ TradeQty = Resting.quantity
      /\ UNCHANGED <<pc, cmd>>
      /\ incomingQty' = incomingQty - TradeQty /\ incomingQty > 0
      /\ out' = Append(out, TradeLine(cmd, Resting, TradeQty))
    BY DEF FullFill, Trade, Scanning
<1>2. PriceAcceptable /\ StillToServe /\ SoundBook(found)
    BY <1>1 DEF ServingInv
<1>3. /\ Entering(Residual) /\ Residual.quantity = incomingQty /\ incomingQty \in Int
      /\ Eligible(BookNow.resting, Residual) = Eligible(BookNow.resting, cmd)
      /\ TradeLine(Residual, Resting, TradeQty) = TradeLine(cmd, Resting, TradeQty)
    BY <1>1, ResidualFacts
<1>4. LeadsOff(Resting, Eligible(BookNow.resting, Residual))
    BY <1>1, <1>2, <1>3, TargetLeads
<1>5. SoundBook(BookNow)
    BY BookNowSound
<1>6. /\ TradeLine(cmd, Resting, TradeQty) \in Line /\ TradeQty \in Int
      /\ Resting.quantity <= incomingQty /\ out \in Seq(Line)
    BY <1>1, ScanTarget DEF IInv, TypeOK
<1> DEFINE later == Without(BookNow, Resting)
           a == Asking(Residual, Residual.quantity - Resting.quantity)
           line == TradeLine(cmd, Resting, TradeQty)
<1>7. Continues(BookNow, Residual, later, a, line)
    BY <1>1, <1>3, <1>4, <1>5, <1>6, ServedAfterFill
<1>8. BookNow' = later
    BY FullFillBook
<1>9. Residual' = a
    BY <1>1, <1>3 DEF Residual, Asking
<1>10. TradeLines(later.resting, a) \in Seq(Line)
    <2>1. Resting \in BookNow.resting
        BY <1>4, <1>5, EligibleFacts DEF LeadsOff
    <2>2. SoundBook(later)
        BY <1>5, <2>1, WithoutSound
    <2>3. Entering(a)
        BY <1>1, <1>3, <1>6, AskingFacts
    <2> QED BY <2>2, <2>3, LinesTyped
<1> HIDE DEF later, a, line
<1>11. StillToServe'
    BY <1>1, <1>2, <1>6, <1>7, <1>8, <1>9, <1>10, ServesOn DEF line
<1>12. PriceAcceptable'
    BY <1>1, <1>2, FullFillPrice
<1> QED BY <1>1, <1>2, <1>11, <1>12 DEF ServingInv

LEMMA PartialFillPrice ==
    ASSUME IInv, PriceAcceptable, PartialFill
    PROVE  PriceAcceptable'
<1> DEFINE t == Int64(levels[Opp][1].totalQuantity - TradeQty)
<1>1. levels' = Retotalled(levels, Opp, 1, t) /\ UNCHANGED cmd /\ Scanning
    BY DEF PartialFill, Retotalled
<1>2. Opp \in Side /\ levels \in [Side -> Seq(PriceLevel)] /\ 1 \in 1..Len(levels[Opp])
    BY <1>1, ScanTarget DEF IInv, TypeOK
<1> HIDE DEF t
<1>3. levels'[Opp][1].price = levels[Opp][1].price
    BY <1>1, <1>2 DEF Retotalled
<1> QED BY <1>1, <1>3, PriceStaysAcceptable DEF PriceAt

LEMMA PartialFillServes ==
    ASSUME RefInv, PartialFill, UNCHANGED found
    PROVE  ServingInv'
<1> USE DEF RefInv
<1>1. /\ pc = "scan" /\ Scanning /\ Resting.userId # cmd.userId /\ TradeQty < Resting.quantity
      /\ UNCHANGED <<pc, cmd>>
      /\ incomingQty' = incomingQty - TradeQty /\ incomingQty > 0
      /\ out' = Append(out, TradeLine(cmd, Resting, TradeQty))
    BY DEF PartialFill, Trade, Scanning
<1>2. PriceAcceptable /\ StillToServe /\ SoundBook(found)
    BY <1>1 DEF ServingInv
<1>3. /\ Entering(Residual) /\ Residual.quantity = incomingQty /\ incomingQty \in Int
      /\ Eligible(BookNow.resting, Residual) = Eligible(BookNow.resting, cmd)
      /\ TradeLine(Residual, Resting, TradeQty) = TradeLine(cmd, Resting, TradeQty)
    BY <1>1, ResidualFacts
<1>4. LeadsOff(Resting, Eligible(BookNow.resting, Residual))
    BY <1>1, <1>2, <1>3, TargetLeads
<1>5. SoundBook(BookNow) /\ Positive(BookNow.resting)
    BY BookNowSound
<1>6. /\ TradeLine(cmd, Resting, TradeQty) \in Line /\ out \in Seq(Line)
      /\ TradeQty = incomingQty
    <2>1. TradeQty \in Int /\ Resting.quantity \in Int /\ TradeLine(cmd, Resting, TradeQty) \in Line
        BY <1>1, ScanTarget
    <2> QED BY <1>1, <1>3, <2>1 DEF TradeQty, SmallerOf, IInv, TypeOK
<1> DEFINE later == WithLess(BookNow, Resting, Residual.quantity)
           a == Asking(Residual, 0)
           line == TradeLine(cmd, Resting, TradeQty)
<1>7. Continues(BookNow, Residual, later, a, line)
    BY <1>1, <1>3, <1>4, <1>5, <1>6, ServedAfterLast
<1>8. BookNow' = later
    BY <1>3, <1>6, PartialFillBook
<1>9. Residual' = a
    BY <1>1, <1>3, <1>6 DEF Residual, Asking
<1>10. TradeLines(later.resting, a) \in Seq(Line)
    <2>1. Resting \in BookNow.resting
        BY <1>4, <1>5, EligibleFacts DEF LeadsOff
    <2>2. SoundBook(later)
        BY <1>3, <1>5, <2>1, WithLessSound
    <2>3. Entering(a)
        BY <1>3, AskingFacts
    <2> QED BY <2>2, <2>3, LinesTyped
<1> HIDE DEF later, a, line
<1>11. StillToServe'
    BY <1>1, <1>2, <1>6, <1>7, <1>8, <1>9, <1>10, ServesOn DEF line
<1>12. PriceAcceptable'
    BY <1>1, <1>2, PartialFillPrice
<1> QED BY <1>1, <1>2, <1>11, <1>12 DEF ServingInv

\* The steps in the loop that trade nothing.
LEMMA IdleStepServes ==
    ASSUME RefInv, EnterLevel \/ SkipOwnOrder \/ DropLevel \/ RescanLevel, UNCHANGED found
    PROVE  ServingInv'
<1>1. /\ pc \in {"level", "scan"} /\ pc' \in {"level", "scan"}
      /\ UNCHANGED <<orders, ordersByKey, nextSequence, cmd, incomingQty, out>>
    BY DEF EnterLevel, SkipOwnOrder, Scanning, DropLevel, RescanLevel, LevelDone, store
<1>2. BookNow' = BookNow /\ Residual' = Residual
    BY <1>1, SameBook DEF Residual
<1>3. StillToServe' /\ SoundBook(found)
    BY <1>1, <1>2 DEF RefInv, ServingInv, StillToServe
<1>4. pc' = "scan" => PriceAcceptable'
    <2>1. pc' = "scan" => PriceAcceptable /\ UNCHANGED levels
        BY DEF EnterLevel, CanMatch, SkipOwnOrder, Scanning, DropLevel, RescanLevel, store, RefInv, ServingInv
    <2>2. UNCHANGED levels => PriceAt(levels', Opp, 1) = PriceAt(levels, Opp, 1)
        OBVIOUS
    <2> QED BY <1>1, <2>1, <2>2, PriceStaysAcceptable
<1> QED BY <1>1, <1>3, <1>4 DEF ServingInv

\* The loop ends when nobody is left to trade with, or nothing to ask.
LEMMA StopServes ==
    ASSUME RefInv, StopMatching \/ StopAtLevel, UNCHANGED found
    PROVE  ServingInv'
<1> USE DEF RefInv
<1>1. /\ pc \in {"level", "scan"} /\ pc' = AfterLoop
      /\ UNCHANGED <<orders, ordersByKey, nextSequence, cmd, incomingQty, out>>
    BY DEF StopMatching, StopAtLevel, LevelDone, store
<1>2. BookNow' = BookNow /\ Residual' = Residual
    BY <1>1, SameBook DEF Residual
<1>3. StillToServe /\ SoundBook(found)
    BY <1>1 DEF ServingInv
<1>4. /\ Entering(Residual) /\ Residual.quantity = incomingQty /\ incomingQty \in Int
      /\ Residual.price = cmd.price /\ cmd.type = "NewOrder" /\ Entering(cmd)
      /\ Eligible(BookNow.resting, Residual) = Eligible(BookNow.resting, cmd)
    BY <1>1, ResidualFacts
<1>5. SoundBook(BookNow) /\ Positive(BookNow.resting)
    BY BookNowSound
<1>6. Dry
    <2>1. CASE incomingQty <= 0
        BY <1>4, <1>5, <2>1, NothingAsked DEF Dry
    <2>2. CASE incomingQty > 0
        <3>1. Eligible(BookNow.resting, cmd) = {}
            BY <2>2, LoopEndsDry, OwnOrdersBlock DEF StopMatching
        <3> QED BY <1>4, <1>5, <3>1, NobodyEligible DEF Dry
    <2> QED BY <1>4, <2>1, <2>2
<1>7. /\ AfterNewOrder(BookNow, Residual) = RestedIn(BookNow, Residual)
      /\ TradeLines(BookNow.resting, Residual) = <<>>
    BY <1>4, <1>5, <1>6, NothingTraded DEF Dry
<1>8. CASE pc' = "rest"
    <2>1. cmd.price # 0
        BY <1>1, <1>8 DEF AfterLoop, IsMarket
    <2>2. StillToServe' /\ Dry'
        BY <1>1, <1>2, <1>3, <1>6 DEF StillToServe, Dry
    <2> QED BY <1>1, <1>3, <1>8, <2>1, <2>2 DEF ServingInv
<1>9. CASE pc' = "publish"
    <2>1. cmd.price = 0 \/ ~(incomingQty > 0)
        BY <1>1, <1>9 DEF AfterLoop, IsMarket
    <2>2. RestedIn(BookNow, Residual) = BookNow
        BY <1>4, <2>1 DEF RestedIn
    <2>3. out \in Seq(Line)
        BY DEF IInv, TypeOK
    <2>4. out \o <<>> = out
        BY <2>3, ConcatEmptySeq
    <2>5. Served'
        BY <1>1, <1>2, <1>3, <1>4, <1>7, <2>2, <2>4 DEF StillToServe, Served
    <2> QED BY <1>1, <1>3, <1>9, <2>5 DEF ServingInv
<1> QED BY <1>1, <1>8, <1>9 DEF AfterLoop

LEMMA RestServes ==
    ASSUME RefInv, RestOrder, UNCHANGED found
    PROVE  ServingInv'
<1> USE DEF RefInv
<1>1. pc = "rest" /\ pc' = "publish" /\ UNCHANGED <<cmd, incomingQty, out>>
    BY DEF RestOrder
<1>2. StillToServe /\ SoundBook(found) /\ cmd.price # 0 /\ Dry
    BY <1>1 DEF ServingInv
<1>3. /\ Entering(Residual) /\ cmd.type = "NewOrder"
    BY <1>1, ResidualFacts
<1>4. SoundBook(BookNow)
    BY BookNowSound
<1>5. /\ AfterNewOrder(BookNow, Residual) = RestedIn(BookNow, Residual)
      /\ TradeLines(BookNow.resting, Residual) = <<>>
    BY <1>2, <1>3, <1>4, NothingTraded DEF Dry
<1>6. BookNow' = RestedIn(BookNow, Residual)
    BY <1>2, RestOrderBook DEF Residual
<1>7. out \in Seq(Line)
    BY DEF IInv, TypeOK
<1>8. out \o <<>> = out
    BY <1>7, ConcatEmptySeq
<1>9. Served'
    BY <1>1, <1>2, <1>3, <1>5, <1>6, <1>8 DEF StillToServe, Served
<1> QED BY <1>1, <1>2, <1>9 DEF ServingInv

LEMMA NewOrderServes ==
    ASSUME RefInv, NEW c \in NewOrder, ProcessNewOrder(c), found' = BookNow
    PROVE  ServingInv'
<1> USE DEF RefInv
<1>1. /\ pc' = "level" /\ cmd' = c /\ incomingQty' = c.quantity /\ out' = << AckLine(c) >>
      /\ UNCHANGED <<orders, ordersByKey, nextSequence>>
    BY DEF ProcessNewOrder, store
<1>2. BookNow' = BookNow
    BY <1>1, SameBook
<1>3. Residual' = c
    BY <1>1, OrderEnters DEF Residual
<1>4. SoundBook(found')
    BY BookNowSound
<1>5. StillToServe'
    BY <1>1, <1>2, <1>3 DEF StillToServe
<1> QED BY <1>1, <1>4, <1>5 DEF ServingInv

LEMMA CancelServes ==
    ASSUME RefInv, NEW c \in Cancel, ProcessCancel(c), found' = BookNow
    PROVE  ServingInv'
<1> USE DEF RefInv
<1>1. pc' = "publish" /\ cmd' = c /\ out' = << AckLine(c) >> /\ c.type = "Cancel"
    BY DEF ProcessCancel, CancelUnknown, CancelKnown, Cancel
<1>2. BookNow' = AfterCancel(BookNow, c)
    BY CancelBook
<1>3. SoundBook(found')
    BY BookNowSound
<1>4. Served'
    BY <1>1, <1>2 DEF Served
<1> QED BY <1>1, <1>3, <1>4 DEF ServingInv

LEMMA ServingStep == RefInv /\ [HistNext]_histVars => ServingInv'
<1> SUFFICES ASSUME RefInv, [HistNext]_histVars PROVE ServingInv'
    OBVIOUS
<1>1. CASE UNCHANGED histVars
    <2>1. UNCHANGED <<levels, orders, ordersByKey, nextSequence, pc, cmd, incomingQty, out, found>>
        BY <1>1 DEF histVars, vars
    <2>2. BookNow' = BookNow /\ Residual' = Residual /\ PriceAcceptable' = PriceAcceptable
        BY <2>1, SameBook DEF Residual, PriceAcceptable, IsMarket, BestLevel, Opp
    <2>3. StillToServe' = StillToServe /\ Dry' = Dry /\ Served' = Served
        BY <2>1, <2>2 DEF StillToServe, Dry, Served
    <2> QED BY <2>1, <2>2, <2>3 DEF RefInv, ServingInv
<1>2. CASE HistNext
    <2>0. Next /\ found' = (IF pc = "idle" THEN BookNow ELSE IF pc = "publish" THEN Nothing ELSE found)
        BY <1>2 DEF HistNext
    <2>1. ASSUME NEW c \in NewOrder, ProcessNewOrder(c) PROVE ServingInv'
        BY <2>0, <2>1, NewOrderServes DEF ProcessNewOrder
    <2>2. ASSUME NEW c \in Cancel, ProcessCancel(c) PROVE ServingInv'
        BY <2>0, <2>2, CancelServes DEF ProcessCancel, CancelUnknown, CancelKnown
    <2>3. pc \in {"level", "scan", "rest"} => UNCHANGED found
        BY <2>0
    <2>4. CASE FullFill \/ PartialFill
        BY <2>3, <2>4, FullFillServes, PartialFillServes DEF FullFill, PartialFill, Scanning
    <2>5. CASE EnterLevel \/ SkipOwnOrder \/ DropLevel \/ RescanLevel
        BY <2>3, <2>5, IdleStepServes DEF EnterLevel, SkipOwnOrder, Scanning, DropLevel, RescanLevel, LevelDone
    <2>6. CASE StopMatching \/ StopAtLevel
        BY <2>3, <2>6, StopServes DEF StopMatching, StopAtLevel, LevelDone
    <2>7. CASE RestOrder
        BY <2>3, <2>7, RestServes DEF RestOrder
    <2>8. CASE UpdateTopOfBook \/ DeliverOutput
        <3>1. pc' \in {"done", "idle"}
            BY <2>8 DEF UpdateTopOfBook, DeliverOutput
        <3> QED BY <3>1 DEF ServingInv
    <2> QED BY <2>0, <2>1, <2>2, <2>4, <2>5, <2>6, <2>7, <2>8
            DEF Next, ProcessingStep, MatchMarketBuy, MatchMarketSell, MatchLimitBuy,
                MatchLimitSell, LimitStep, MatchStep
<1> QED BY <1>1, <1>2

LEMMA RefInvInit == HistInit => RefInv
<1> SUFFICES ASSUME HistInit PROVE RefInv
    OBVIOUS
<1>1. Init /\ pc = "idle" /\ orders = <<>>
    BY DEF HistInit, Init
<1>2. IInv /\ ServingInv
    BY <1>1, InitIInv DEF ServingInv
<1>3. TotalsInv /\ NumbersInv
    <2>1. Len(<<>>) = 0 /\ 1..0 = {}
        OBVIOUS
    <2> QED BY <1>1, <2>1 DEF Init, TotalsInv, TotalsRight, NumbersInv, Distinct
<1> QED BY <1>2, <1>3 DEF RefInv

LEMMA RefInvStep == RefInv /\ [HistNext]_histVars => RefInv'
<1> SUFFICES ASSUME RefInv, [HistNext]_histVars PROVE RefInv'
    OBVIOUS
<1>1. [Next]_vars
    BY DEF HistNext, histVars
<1>2. IInv' /\ TotalsInv' /\ NumbersInv'
    BY <1>1, IInvStep, TotalsInvStep, NumbersStep DEF RefInv
<1> QED BY <1>2, ServingStep DEF RefInv

----------------------------------------------------------------------------
(* The tops of the ladders are the tops of the book. *)

OnSide(resting, sd) == { o \in resting : o.side = sd }
BestOf(mine, sd) == { o \in mine : \A p \in mine : ~Better(sd, p.price, o.price) }

\* The orders of the best level are the best of the side.
LEMMA BestLevelIsBest ==
    ASSUME NEW L, NEW O, Consistent(L, O), NEW sd \in Side,
           1 \in 1..Depth(L, sd), 1 \in 1..Count(L, sd, 1)
    PROVE  /\ BestOf(OnSide(RestingIn(O), sd), sd) = { O[At(L, sd, 1, k)] : k \in 1..Count(L, sd, 1) }
           /\ \A o \in BestOf(OnSide(RestingIn(O), sd), sd) : o.price = PriceAt(L, sd, 1)
<1> DEFINE mine == OnSide(RestingIn(O), sd)
           level == { O[At(L, sd, 1, k)] : k \in 1..Count(L, sd, 1) }
           best == PriceAt(L, sd, 1)
<1>1. /\ \A o \in mine : \E n \in 1..Depth(L, sd) : \E k \in 1..Count(L, sd, n) :
            o = O[At(L, sd, n, k)] /\ o.price = PriceAt(L, sd, n)
      /\ \A n \in 1..Depth(L, sd) : \A k \in 1..Count(L, sd, n) :
            O[At(L, sd, n, k)] \in mine /\ O[At(L, sd, n, k)].price = PriceAt(L, sd, n)
      /\ \A n \in 1..Depth(L, sd) : PriceAt(L, sd, n) \in Int
      /\ \A n \in 1..Depth(L, sd) : n = 1 \/ Better(sd, best, PriceAt(L, sd, n))
    BY PlacesOf DEF OnSide
<1> HIDE DEF mine, best
<1>2. ASSUME NEW o \in BestOf(mine, sd) PROVE o \in level /\ o.price = best
    <2>1. o \in mine /\ \A p \in mine : ~Better(sd, p.price, o.price)
        BY DEF BestOf
    <2>2. PICK n \in 1..Depth(L, sd) : \E k \in 1..Count(L, sd, n) :
              o = O[At(L, sd, n, k)] /\ o.price = PriceAt(L, sd, n)
        BY <1>1, <2>1
    <2>3. O[At(L, sd, 1, 1)] \in mine /\ O[At(L, sd, 1, 1)].price = best
        BY <1>1 DEF best
    <2>4. ~Better(sd, best, PriceAt(L, sd, n))
        BY <2>1, <2>2, <2>3
    <2>5. n = 1
        BY <1>1, <2>4
    <2> QED BY <2>2, <2>5 DEF best
<1>3. ASSUME NEW o \in level PROVE o \in BestOf(mine, sd)
    <2>1. o \in mine /\ o.price = best
        BY <1>1 DEF best
    <2>2. ASSUME NEW p \in mine PROVE ~Better(sd, p.price, o.price)
        <3>1. PICK n \in 1..Depth(L, sd) : p.price = PriceAt(L, sd, n)
            BY <1>1
        <3>2. best \in Int /\ p.price \in Int /\ (p.price = best \/ Better(sd, best, p.price))
            BY <1>1, <3>1 DEF best
        <3> QED BY <2>1, <3>2, BetterTotal
    <2> QED BY <2>1, <2>2 DEF BestOf
<1> QED BY <1>2, <1>3 DEF mine, best

\* A queue of different orders, counted by its places or by its orders.
LEMMA QueueAsSet ==
    ASSUME NEW O, NEW d, NEW m, Queue(O, d, m),
           \A j, k \in 1..m : O[d[j]] = O[d[k]] => j = k
    PROVE  QtyOf({ O[d[k]] : k \in 1..m }) = QueuedQty(O, d)
<1> DEFINE D == 1..m
           os == { O[d[k]] : k \in 1..m }
           gun == [o \in os |-> o.quantity]
           b == [k \in 1..m |-> O[d[k]]]
           fun == QtyAt(O, d)
<1>1. /\ IsFiniteSet(D) /\ \A k \in D : fun[k] = O[d[k]].quantity /\ fun[k] \in Int
      /\ QueuedQty(O, d) = SumFunctionOnSet(fun, D)
    BY QueuedFacts DEF Queued
<1>2. \A j, k \in D : b[j] = b[k] => j = k
    OBVIOUS
<1>3. /\ b \in [D -> os]
      /\ \A o \in os : \E k \in D : b[k] = o
      /\ \A k \in D : gun[b[k]] = fun[k]
    BY <1>1
<1>4. DOMAIN gun = os
    OBVIOUS
<1>5. QtyOf(os) = SumFunctionOnSet(gun, os)
    BY <1>4 DEF QtyOf, SumFunction, SumFunctionOnSet, FoldFunction
<1> HIDE DEF D, os, gun, b, fun
<1>6. SumFunctionOnSet(fun, D) = SumFunctionOnSet(gun, os)
    BY <1>1, <1>2, <1>3, SumRenamed
<1> QED BY <1>1, <1>5, <1>6 DEF os

\* What rests on a level, counted by its queue or order by order.
LEMMA LevelQuantity ==
    ASSUME NEW L \in [Side -> Seq(PriceLevel)], NEW O, Consistent(L, O), NEW sd \in Side,
           NEW n \in 1..Depth(L, sd)
    PROVE  QtyOf({ O[At(L, sd, n, k)] : k \in 1..Count(L, sd, n) }) = QueuedQty(O, L[sd][n].orders)
<1> DEFINE d == L[sd][n].orders
           m == Len(d)
<1>1. /\ \A j, k \in 1..m : j < k => O[d[j]].sequence < O[d[k]].sequence
      /\ \A k \in 1..m : O[d[k]].sequence \in Nat
      /\ L[sd][n] \in PriceLevel /\ Quantified(O, L[sd][n])
    BY EveryLevel DEF Consistent, QueuesInOrder, WellPlaced, Typed, Depth, Count, At
<1>2. Queue(O, d, m) /\ m \in Nat
    BY <1>1, LevelQueue
<1>3. { O[At(L, sd, n, k)] : k \in 1..Count(L, sd, n) } = { O[d[k]] : k \in 1..m }
    BY DEF At, Count
<1> HIDE DEF d, m
<1>4. \A j, k \in 1..m : O[d[j]] = O[d[k]] => j = k
    <2> SUFFICES ASSUME NEW j \in 1..m, NEW k \in 1..m, O[d[j]] = O[d[k]] PROVE j = k
        OBVIOUS
    <2>1. ~(j < k) /\ ~(k < j)
        BY <1>1
    <2> QED BY <1>2, <2>1
<1> QED BY <1>2, <1>3, <1>4, QueueAsSet DEF d

\* computeTopBid and computeTopAsk read off the first level what the rules say.
LEMMA TopsAreComputed ==
    ASSUME IInv, TotalsInv, pc # "scan"
    PROVE  TopsOf(BookNow.resting) = [sd \in Side |-> ComputeTop(levels[sd])]
<1> SUFFICES ASSUME NEW sd \in Side
             PROVE  TopOf(BookNow.resting, sd) = ComputeTop(levels[sd])
    BY DEF TopsOf
<1>1. /\ levels \in [Side -> Seq(PriceLevel)] /\ Consistent(levels, orders)
      /\ BookNow.resting = RestingIn(orders)
    BY BookNowIs DEF IInv, TypeOK, StoreInv, BookIn
<1> DEFINE mine == OnSide(RestingIn(orders), sd)
           best == BestOf(mine, sd)
<1>2. TopOf(BookNow.resting, sd) =
        IF mine = {} THEN NoTop
        ELSE [valid |-> TRUE, price |-> (CHOOSE o \in best : TRUE).price,
              totalQuantity |-> Int64(QtyOf(best))]
    BY <1>1 DEF TopOf, OnSide, BestOf
<1>3. Depth(levels, sd) \in Nat /\ levels[sd] \in Seq(PriceLevel)
    BY <1>1 DEF Consistent, Typed
<1>4. CASE Depth(levels, sd) = 0
    <2>1. levels[sd] = <<>>
        BY <1>3, <1>4, EmptySeq DEF Depth
    <2>2. \A o \in RestingIn(orders) : o.side = sd => 1..Depth(levels, sd) # {}
        BY <1>1, PlacesOf
    <2>3. mine = {}
        BY <1>4, <2>2 DEF OnSide
    <2> QED BY <1>2, <2>1, <2>3 DEF ComputeTop
<1>5. CASE Depth(levels, sd) # 0
    <2>1. 1 \in 1..Depth(levels, sd) /\ levels[sd] # <<>>
        BY <1>3, <1>5 DEF Depth
    <2>2. 1 \in 1..Count(levels, sd, 1)
        <3>1. Count(levels, sd, 1) \in Nat
            BY <1>1, <2>1 DEF Consistent, Typed
        <3>2. Count(levels, sd, 1) # 0
            BY <2>1 DEF IInv, Filled
        <3> QED BY <3>1, <3>2
    <2>3. /\ best = { orders[At(levels, sd, 1, k)] : k \in 1..Count(levels, sd, 1) }
          /\ \A o \in best : o.price = PriceAt(levels, sd, 1)
        BY <1>1, <2>1, <2>2, BestLevelIsBest
    <2>4. QtyOf(best) = QueuedQty(orders, levels[sd][1].orders)
        BY <1>1, <2>1, <2>3, LevelQuantity
    <2>5. levels[sd][1].totalQuantity = Int64(QtyOf(best))
        BY <2>1, <2>4 DEF TotalsInv, TotalsRight, TotalRight, Depth
    <2>6. orders[At(levels, sd, 1, 1)] \in best
        BY <2>2, <2>3
    <2>7. mine # {}
        BY <2>6 DEF BestOf
    <2> HIDE DEF best, mine
    <2>8. (CHOOSE o \in best : TRUE).price = levels[sd][1].price
        BY <2>3, <2>6 DEF PriceAt
    <2> QED BY <1>2, <2>1, <2>5, <2>7, <2>8 DEF ComputeTop
<1> QED BY <1>4, <1>5

----------------------------------------------------------------------------
(* The abstract book is an instance of the rules, under names of its own;  *)
(* its operators are those of the rules.                                   *)

LEMMA AbstractBasics ==
    /\ \A s, x, y : Abstract!Better(s, x, y) <=> Better(s, x, y)
    /\ \A s : Abstract!Opposite(s) = Opposite(s)
    /\ \A x, y : Abstract!SmallerOf(x, y) = SmallerOf(x, y)
    /\ \A o : Abstract!KeyOf(o) = KeyOf(o)
    /\ Abstract!Key = Key
    /\ \A x : Abstract!Int64(x) = Int64(x)
    /\ Abstract!NoTop = NoTop /\ Abstract!NoCommand = NoCommand
    /\ Abstract!NewOrder = NewOrder /\ Abstract!Cancel = Cancel
    /\ \A c : Abstract!AckLine(c) = AckLine(c)
<1>1. /\ \A s, x, y : Abstract!Better(s, x, y) <=> Better(s, x, y)
      /\ \A s : Abstract!Opposite(s) = Opposite(s)
    BY DEF Abstract!Better, Better, Abstract!Opposite, Opposite
<1>2. /\ \A x, y : Abstract!SmallerOf(x, y) = SmallerOf(x, y)
      /\ \A o : Abstract!KeyOf(o) = KeyOf(o)
      /\ Abstract!Key = Key
      /\ \A x : Abstract!Int64(x) = Int64(x)
    BY DEF Abstract!SmallerOf, SmallerOf, Abstract!KeyOf, KeyOf, Abstract!Key, Key, Abstract!Int64, Int64
<1>3. /\ Abstract!NoTop = NoTop /\ Abstract!NoCommand = NoCommand
      /\ Abstract!NewOrder = NewOrder /\ Abstract!Cancel = Cancel
      /\ \A c : Abstract!AckLine(c) = AckLine(c)
    BY DEF Abstract!NoTop, NoTop, Abstract!NoCommand, NoCommand, Abstract!NewOrder, NewOrder,
           Abstract!Cancel, Cancel, Abstract!AckLine, AckLine, Abstract!Side, Side
<1> QED BY <1>1, <1>2, <1>3

LEMMA AbstractSums ==
    /\ \A f : Abstract!SumFunction(f) = SumFunction(f)
    /\ \A os : Abstract!QtyOf(os) = QtyOf(os)
<1>1. \A f : Abstract!SumFunction(f) = SumFunction(f)
    BY DEF Abstract!SumFunction, SumFunction, Abstract!SumFunctionOnSet, SumFunctionOnSet,
           Abstract!FoldFunction, FoldFunction, Abstract!FoldFunctionOnSet, FoldFunctionOnSet,
           Abstract!MapThenFoldSet, MapThenFoldSet
<1> QED BY <1>1 DEF Abstract!QtyOf, QtyOf

LEMMA AbstractFills ==
    /\ \A o, p : Abstract!Ahead(o, p) <=> Ahead(o, p)
    /\ \A resting, c : Abstract!Fills(resting, c) = Fills(resting, c)
<1>1. \A o, p : Abstract!Ahead(o, p) <=> Ahead(o, p)
    BY AbstractBasics DEF Abstract!Ahead, Ahead
<1>2. \A resting, c : Abstract!Opposing(resting, c) = Opposing(resting, c)
    BY AbstractBasics DEF Abstract!Opposing, Opposing
<1>3. \A resting, c : Abstract!Eligible(resting, c) = Eligible(resting, c)
    BY AbstractBasics, <1>2 DEF Abstract!Eligible, Eligible
<1> QED BY <1>1, <1>3, AbstractBasics, AbstractSums DEF Abstract!Fills, Fills

LEMMA AbstractNewOrder ==
    ASSUME NEW b \in Book, NEW c
    PROVE  Abstract!AfterNewOrder(b, c) = AfterNewOrder(b, c)
<1> DEFINE fills == Fills(b.resting, c)
           left == c.quantity - SumFunction(fills)
           filled == { o \in DOMAIN fills : fills[o] = o.quantity }
           reduced == { [o EXCEPT !.quantity = @ - fills[o]] : o \in DOMAIN fills \ filled }
           after == (b.resting \ DOMAIN fills) \cup reduced
           keys == [k \in Key |-> IF \E o \in filled : KeyOf(o) = k THEN 0 ELSE b.byKey[k]]
<1>1. Abstract!Fills(b.resting, c) = fills
    BY AbstractFills
<1> HIDE DEF fills
<1>2. Abstract!AfterNewOrder(b, c) =
        IF c.price # 0 /\ left > 0
        THEN [resting |-> after \cup
                { [userId |-> c.userId, userOrderId |-> c.userOrderId, side |-> c.side,
                   price |-> c.price, quantity |-> left, sequence |-> b.nextSequence] },
              byKey |-> [keys EXCEPT ![KeyOf(c)] = b.nextSequence],
              nextSequence |-> b.nextSequence + 1]
        ELSE [b EXCEPT !.resting = after, !.byKey = keys]
    BY <1>1, AbstractBasics, AbstractSums DEF Abstract!AfterNewOrder
<1>3. filled = FilledBy(fills) /\ reduced = ReducedBy(fills)
    BY DEF FilledBy, ReducedBy
<1>4. after = LeftAfter(b.resting, fills) /\ keys = KeysLeft(b.byKey, fills)
    BY <1>3 DEF LeftAfter, KeysLeft
<1> HIDE DEF filled, reduced, after, keys
<1>5. [b EXCEPT !.resting = after, !.byKey = keys]
        = [resting |-> after, byKey |-> keys, nextSequence |-> b.nextSequence]
    BY BookChanged
<1>6. Abstract!AfterNewOrder(b, c) = AfterFills(b, c, fills)
    BY <1>2, <1>4, <1>5 DEF AfterFills, Newcomer, Comes
<1> QED BY <1>6, AfterNewOrderIs DEF fills

LEMMA AbstractCancel == \A b, c : Abstract!AfterCancel(b, c) = AfterCancel(b, c)
BY AbstractBasics DEF Abstract!AfterCancel, AfterCancel

LEMMA AbstractTrades == \A resting, c : Abstract!TradeLines(resting, c) = TradeLines(resting, c)
<1>1. \A os : Abstract!SetToSeqs(os) = SetToSeqs(os)
    BY DEF Abstract!SetToSeqs, SetToSeqs, Abstract!Cardinality, Cardinality
<1>2. \A os : Abstract!InOrder(os) = InOrder(os)
    BY <1>1, AbstractFills DEF Abstract!InOrder, InOrder
<1>3. \A c, o, q : Abstract!TradeLine(c, o, q) = TradeLine(c, o, q)
    BY AbstractBasics DEF Abstract!TradeLine, TradeLine
<1> QED BY <1>2, <1>3, AbstractFills DEF Abstract!TradeLines, TradeLines

LEMMA AbstractTops ==
    /\ \A resting : Abstract!TopsOf(resting) = TopsOf(resting)
    /\ \A old, new : Abstract!TopLines(old, new) = TopLines(old, new)
<1>1. \A resting, sd : Abstract!TopOf(resting, sd) = TopOf(resting, sd)
    BY AbstractBasics, AbstractSums DEF Abstract!TopOf, TopOf
<1>2. \A resting : Abstract!TopsOf(resting) = TopsOf(resting)
    BY <1>1 DEF Abstract!TopsOf, TopsOf, Abstract!Side, Side
<1>3. \A sd, old, new : Abstract!TopLine(sd, old, new) = TopLine(sd, old, new)
    BY DEF Abstract!TopLine, TopLine, Abstract!TopEqual, TopEqual
<1>4. \A old, new : Abstract!TopLines(old, new) = TopLines(old, new)
    BY <1>3 DEF Abstract!TopLines, TopLines
<1> QED BY <1>2, <1>4

LEMMA AbstractEmpty == Abstract!EmptyBook = EmptyBook
BY AbstractBasics DEF Abstract!EmptyBook, EmptyBook

----------------------------------------------------------------------------
(* Every step maps to a step of the abstract book, or changes nothing it sees. *)

\* What the abstract book is in a state of the detailed one.
AsCommand == IF pc = "done" THEN cmd ELSE NoCommand
AsBook == IF Published THEN BookNow ELSE found
AsLines == IF pc = "done" THEN out ELSE <<>>

\* The lines of updateTopOfBookAndEmitChanges come after those of the command.
LEMMA TopLinesAppended ==
    ASSUME IInv, UpdateTopOfBook
    PROVE  out' = out \o TopLines(top, top')
<1> DEFINE bid == TopLine("Buy", top["Buy"], top'["Buy"])
           ask == TopLine("Sell", top["Sell"], top'["Sell"])
<1>1. out' = (out \o bid) \o ask
    BY DEF UpdateTopOfBook
<1>2. out \in Seq(Line) /\ top' \in [Side -> TopOfBook]
    BY IInvStep DEF IInv, TypeOK, Next, ProcessingStep
<1>3. bid \in Seq(Line) /\ ask \in Seq(Line)
    BY <1>2, TopLineKinds DEF Side
<1> HIDE DEF bid, ask
<1>4. (out \o bid) \o ask = out \o (bid \o ask)
    BY <1>2, <1>3, ConcatAssociative
<1> QED BY <1>1, <1>4 DEF TopLines, bid, ask

\* The abstract step: the command as a whole.
LEMMA PublishServes ==
    ASSUME RefInv, UpdateTopOfBook, found' = Nothing
    PROVE  Abstract!BookNext
<1> USE DEF RefInv
<1>1. /\ pc = "publish" /\ pc' = "done" /\ cmd' = cmd
      /\ UNCHANGED <<levels, orders, ordersByKey, nextSequence>>
      /\ top' = [sd \in Side |-> ComputeTop(levels[sd])]
    BY DEF UpdateTopOfBook, store
<1>2. BookNow' = BookNow
    BY <1>1, SameBook
<1>3. Served /\ SoundBook(found) /\ found \in Book
    BY <1>1 DEF ServingInv, SoundBook
<1>4. top' = TopsOf(BookNow.resting)
    BY <1>1, TopsAreComputed
<1>5. out' = out \o TopLines(top, top')
    BY TopLinesAppended
<1>6. /\ AsCommand = NoCommand /\ AsCommand' = cmd
      /\ AsBook = found /\ AsBook' = BookNow
      /\ AsLines' = out'
    BY <1>1, <1>2 DEF AsCommand, AsBook, AsLines, Published
<1>7. cmd \in NewOrder \/ cmd \in Cancel
    BY <1>1 DEF IInv, TypeOK
<1>8. CASE cmd \in NewOrder
    <2>1. cmd.type = "NewOrder"
        BY <1>8 DEF NewOrder
    <2>2. /\ BookNow = AfterNewOrder(found, cmd)
          /\ out = << AckLine(cmd) >> \o TradeLines(found.resting, cmd)
        BY <1>3, <2>1 DEF Served
    <2>3. /\ BookNow = Abstract!AfterNewOrder(found, cmd)
          /\ top' = Abstract!TopsOf(BookNow.resting)
          /\ out' = << Abstract!AckLine(cmd) >> \o Abstract!TradeLines(found.resting, cmd)
                    \o Abstract!TopLines(top, top')
        BY <1>3, <1>4, <1>5, <2>2, AbstractBasics, AbstractNewOrder, AbstractTops, AbstractTrades
    <2>4. Abstract!NewOrderCommand(cmd)
        BY <1>6, <2>3, AbstractBasics DEF Abstract!NewOrderCommand, AsCommand, AsBook, AsLines
    <2> QED BY <1>8, <2>4, AbstractBasics DEF Abstract!BookNext
<1>9. CASE cmd \in Cancel
    <2>1. cmd.type = "Cancel"
        BY <1>9 DEF Cancel
    <2>2. /\ BookNow = AfterCancel(found, cmd)
          /\ out = << AckLine(cmd) >>
        BY <1>3, <2>1 DEF Served
    <2>3. /\ BookNow = Abstract!AfterCancel(found, cmd)
          /\ top' = Abstract!TopsOf(BookNow.resting)
          /\ out' = << Abstract!AckLine(cmd) >> \o Abstract!TopLines(top, top')
        BY <1>4, <1>5, <2>2, AbstractBasics, AbstractCancel, AbstractTops
    <2>4. Abstract!CancelCommand(cmd)
        BY <1>6, <2>3, AbstractBasics DEF Abstract!CancelCommand, AsCommand, AsBook, AsLines
    <2> QED BY <1>9, <2>4, AbstractBasics DEF Abstract!BookNext
<1> QED BY <1>7, <1>8, <1>9

LEMMA DeliveryServes ==
    ASSUME RefInv, DeliverOutput
    PROVE  Abstract!BookNext
<1>1. /\ pc = "done" /\ pc' = "idle" /\ top' = top
      /\ UNCHANGED <<orders, ordersByKey, nextSequence>>
    BY DEF DeliverOutput, store
<1>2. BookNow' = BookNow
    BY <1>1, SameBook
<1>3. /\ AsCommand = cmd /\ AsCommand' = NoCommand
      /\ AsBook' = AsBook /\ AsLines' = <<>>
    BY <1>1, <1>2 DEF AsCommand, AsBook, AsLines, Published
<1>4. cmd \in NewOrder \cup Cancel
    BY <1>1 DEF RefInv, IInv, TypeOK
<1>5. cmd # NoCommand
    <2>1. cmd.type \in {"NewOrder", "Cancel"}
        BY <1>4 DEF NewOrder, Cancel
    <2> QED BY <2>1 DEF NoCommand
<1>6. Abstract!Deliver
    BY <1>1, <1>3, <1>5, AbstractBasics DEF Abstract!Deliver, AsCommand, AsBook, AsLines
<1> QED BY <1>6 DEF Abstract!BookNext

\* From the time a command is taken up until its change is published the abstract
\* book stays as it was found.
LEMMA OtherStepsStutter ==
    ASSUME HistNext, ~UpdateTopOfBook, ~DeliverOutput
    PROVE  UNCHANGED Abstract!bookVars
<1>1. /\ pc # "done" /\ pc' # "done" /\ pc' # "idle" /\ UNCHANGED top
      /\ pc = "publish" => FALSE
    BY DEF HistNext, Next, ProcessNewOrder, ProcessCancel, CancelUnknown, CancelKnown, ProcessingStep,
           MatchMarketBuy, MatchMarketSell, MatchLimitBuy, MatchLimitSell, LimitStep, MatchStep,
           EnterLevel, StopMatching, SkipOwnOrder, PartialFill, FullFill, DropLevel, StopAtLevel,
           RescanLevel, RestOrder, Scanning, LevelDone, AfterLoop
<1>2. found' = IF pc = "idle" THEN BookNow ELSE found
    BY <1>1 DEF HistNext
<1>3. UNCHANGED <<AsCommand, AsBook, AsLines>>
    BY <1>1, <1>2 DEF AsCommand, AsBook, AsLines, Published
<1> QED BY <1>1, <1>3, AbstractBasics DEF Abstract!bookVars, AsCommand, AsBook, AsLines

LEMMA AbstractStep == RefInv /\ [HistNext]_histVars => [Abstract!BookNext]_(Abstract!bookVars)
<1> SUFFICES ASSUME RefInv, [HistNext]_histVars
             PROVE  Abstract!BookNext \/ UNCHANGED Abstract!bookVars
    OBVIOUS
<1>1. CASE UNCHANGED histVars
    <2>1. UNCHANGED <<orders, ordersByKey, nextSequence, top, pc, cmd, out, found>>
        BY <1>1 DEF histVars, vars
    <2>2. BookNow' = BookNow
        BY <2>1, SameBook
    <2>3. UNCHANGED <<AsCommand, AsBook, AsLines>>
        BY <2>1, <2>2 DEF AsCommand, AsBook, AsLines, Published
    <2> QED BY <2>1, <2>3, AbstractBasics DEF Abstract!bookVars, AsCommand, AsBook, AsLines
<1>2. CASE HistNext /\ UpdateTopOfBook
    <2>1. found' = Nothing
        BY <1>2 DEF HistNext, UpdateTopOfBook
    <2> QED BY <1>2, <2>1, PublishServes
<1>3. CASE HistNext /\ DeliverOutput
    BY <1>3, DeliveryServes
<1>4. CASE HistNext /\ ~UpdateTopOfBook /\ ~DeliverOutput
    BY <1>4, OtherStepsStutter
<1> QED BY <1>1, <1>2, <1>3, <1>4

LEMMA AbstractInit == HistInit => Abstract!BookInit
<1> SUFFICES ASSUME HistInit PROVE Abstract!BookInit
    OBVIOUS
<1>1. /\ Init /\ pc = "idle" /\ orders = <<>> /\ nextSequence = 1
      /\ ordersByKey = [key \in Key |-> 0] /\ top = [sd \in Side |-> NoTop]
    BY DEF HistInit, Init
<1>2. RestingIn(orders) = {} /\ NamedBy(ordersByKey, orders) = [key \in Key |-> 0]
    <2>1. 1..Len(orders) = {}
        BY <1>1
    <2> QED BY <1>1, <2>1 DEF RestingIn, NamedBy
<1>3. BookNow = EmptyBook
    BY <1>1, <1>2, BookNowIs DEF BookIn, EmptyBook
<1>4. top = TopsOf({})
    <2>1. \A sd : TopOf({}, sd) = NoTop
        BY DEF TopOf
    <2> QED BY <1>1, <2>1 DEF TopsOf
<1>5. AsCommand = NoCommand /\ AsBook = EmptyBook /\ AsLines = <<>>
    BY <1>1, <1>3 DEF AsCommand, AsBook, AsLines, Published
<1> QED BY <1>4, <1>5, AbstractBasics, AbstractEmpty, AbstractTops
        DEF Abstract!BookInit, AsCommand, AsBook, AsLines

\* processNewOrder and processCancel implement the price-time rules: whatever the
\* loops, the deques, the recycled slots and the cancel map do on the way, a
\* command comes to the trades, the resting orders, the cancel map and the
\* top-of-book lines that PriceTimeBook gives it in one step.
THEOREM BookImplementsRules == HistSpec => ImplementsPriceTimeBook
<1>1. HistInit => RefInv
    BY RefInvInit
<1>2. RefInv /\ [HistNext]_histVars => RefInv'
    BY RefInvStep
<1>3. RefInv /\ [HistNext]_histVars => [Abstract!BookNext]_(Abstract!bookVars)
    BY AbstractStep
<1>4. HistInit => Abstract!BookInit
    BY AbstractInit
<1> QED BY <1>1, <1>2, <1>3, <1>4, PTL DEF HistSpec, ImplementsPriceTimeBook, Abstract!BookSpec

====

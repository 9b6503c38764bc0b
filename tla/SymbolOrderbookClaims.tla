---- MODULE SymbolOrderbookClaims ----
(***************************************************************************)
(* What the documents and comments of the repository say of a book and the *)
(* code does not do.                                                       *)
(***************************************************************************)
EXTENDS SymbolOrderbook

\* The claims fail although no user reuses the id of an order that rests.
UniqueIdsSpec == Init /\ [][Next /\ NewIdIsFree]_vars

\* DESIGN.md:136 of market orders: "They walk price levels until filled or
\* exhausted."  When a market order is dropped with quantity left, no order of
\* another user is left on the other side.
MarketWalksUntilExhausted ==
    pc = "publish" /\ cmd.type = "NewOrder" /\ IsMarket /\ incomingQty > 0 =>
        \A s \in Slots : Alive(s) /\ orders[s].side = Opp =>
            orders[s].userId = cmd.userId

\* OrderBook_Guide.txt:92: "A buy trades when buy price >= best sell price."
\* Between commands no two users' resting orders could trade with each other.
BookUncrossed ==
    pc = "idle" =>
        \A b, a \in Slots :
            /\ Alive(b) /\ orders[b].side = "Buy"
            /\ Alive(a) /\ orders[a].side = "Sell"
            /\ orders[b].userId # orders[a].userId
            => orders[b].price < orders[a].price

\* SymbolOrderbook.hpp:99: totalQuantity is the "sum of all remaining
\* quantities at this level".
TotalIsExactSum ==
    \A sd \in Side : \A n \in 1..Len(levels[sd]) :
        levels[sd][n].totalQuantity = QueuedQty(orders, levels[sd][n].orders)

====

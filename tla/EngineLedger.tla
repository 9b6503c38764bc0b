---- MODULE EngineLedger ----
(***************************************************************************)
(* The engine watched by an auditor who sees the commands and the lines:   *)
(* a ledger of the orders sent since the last flush, with what the trades  *)
(* printed gave each of them.  Ids are used as OrderBook_Guide.txt 9.7     *)
(* says: (userId, userOrderId) names one order (until a flush).            *)
(***************************************************************************)
EXTENDS MatchingEngine

CONSTANT MaxOrders   \* bound: orders between two flushes

VARIABLES
    ledger,          \* by key: the order, what of it has traded, was it cancelled
    before           \* the books the command found

auditedVars == <<books, command, pending, lines, ledger, before>>

AuditInit == Init /\ ledger = <<>> /\ before = NoBooks

Idle == command = NoCommand
Done == ~Idle /\ pending = {}

\* The quantity the trades of seq give to the order of a key.
TradedIn(seq, key) ==
    SumFunction([i \in { j \in DOMAIN seq : seq[j].type = "T" /\ key \in {seq[j].buyer, seq[j].seller} }
                    |-> seq[i].quantity])

Entered(entries, c) ==
    [key \in DOMAIN entries \cup {KeyOf(c)} |->
        IF key = KeyOf(c) THEN [order |-> c, traded |-> 0, cancelled |-> FALSE]
        ELSE entries[key]]

Booked(entries, seq) ==
    [key \in DOMAIN entries |-> [entries[key] EXCEPT !.traded = @ + TradedIn(seq, key)]]

AuditedNew(c) ==
    /\ KeyOf(c) \notin DOMAIN ledger
    /\ Cardinality(DOMAIN ledger) < MaxOrders
    /\ RouteNewOrder(c)
    /\ before' = books
    /\ ledger' = Booked(Entered(ledger, c), lines')

AuditedCancel(c) ==
    /\ StartCancel(c)
    /\ before' = books
    /\ ledger' = IF KeyOf(c) \in DOMAIN ledger
                 THEN [ledger EXCEPT ![KeyOf(c)].cancelled = TRUE] ELSE ledger

AuditNext ==
    \/ Flush /\ ledger' = <<>> /\ before' = books
    \/ \E c \in SymbolOrder : AuditedNew(c)
    \/ \E c \in Cancel : AuditedCancel(c)
    \/ (\E s \in Symbols : CancelInBook(s)) /\ UNCHANGED <<ledger, before>>
    \/ Return /\ before' = NoBooks /\ UNCHANGED ledger

AuditSpec == AuditInit /\ [][AuditNext]_auditedVars

----------------------------------------------------------------------------
(* Properties. *)

\* The loop over the books and the routing do what the rules of the engine
\* allow, whatever order the map is walked in.
OutcomePermitted ==
    Done => [books |-> books, lines |-> lines] \in Outcomes(before, command)

RestingOf(key) ==
    { x \in UNION { {s} \X books[s].book.resting : s \in DOMAIN books } : KeyOf(x[2]) = key }

\* Over an order's whole life, in whichever book: what it traded by the lines
\* printed and what rests of it, at its price, side and symbol, make its
\* quantity; it ends by a full fill, a cancel, or as a market order.
OrdersAccountedFor ==
    Done \/ Idle =>
    \A key \in DOMAIN ledger :
        LET o == ledger[key].order
            owed == o.quantity - ledger[key].traded
            found == RestingOf(key)
        IN  /\ owed >= 0 \/ ledger[key].traded = 0
            /\ \A x \in found :
                  /\ found = {x}
                  /\ x[1] = o.symbol
                  /\ x[2].quantity = owed
                  /\ x[2].price = o.price /\ x[2].side = o.side
            /\ found = {} <=> owed <= 0 \/ o.price = 0 \/ ledger[key].cancelled

\* A trade joins the new order to another sent since the last flush, of another
\* user, the same symbol and the other side, at the price of that other order,
\* which neither excludes.
TradesAreLegal ==
    \A i \in 1..Len(lines) : lines[i].type = "T" =>
        /\ {lines[i].buyer, lines[i].seller} \subseteq DOMAIN ledger
        /\ KeyOf(command) \in {lines[i].buyer, lines[i].seller}
        /\ LET buy == ledger[lines[i].buyer].order
               sell == ledger[lines[i].seller].order
           IN  /\ lines[i].price = (IF lines[i].buyer = KeyOf(command) THEN sell ELSE buy).price
               /\ buy.side = "Buy" /\ sell.side = "Sell"
               /\ buy.symbol = sell.symbol
               /\ buy.userId # sell.userId
               /\ buy.price = 0 \/ lines[i].price <= buy.price
               /\ sell.price = 0 \/ lines[i].price >= sell.price

AllResting(bs) == UNION { {s} \X bs[s].book.resting : s \in DOMAIN bs }

\* A broadcast cancel takes its order out of the book that has it, wherever the
\* loop meets that book, and no other order out of any.
CancelTakesOnlyItsOrder ==
    Done /\ command.type = "Cancel" =>
        AllResting(books) = { x \in AllResting(before) : KeyOf(x[2]) # KeyOf(command) }

====

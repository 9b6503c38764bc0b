---- MODULE PriceTimeRules ----
(***************************************************************************)
(* What a book promises, command by command, without levels, deques, slots *)
(* or loops: a book is the set of resting orders, and a command turns it   *)
(* into another book and a sequence of lines in one step.                  *)
(***************************************************************************)
EXTENDS BookTypes, SequencesExt

\* The sequence number byKey gives for a key names the order a cancel of the key
\* removes; 0: none.
Book == [resting : SUBSET Order, byKey : [Key -> Nat], nextSequence : Nat \ {0}]

EmptyBook == [resting |-> {}, byKey |-> [key \in Key |-> 0], nextSequence |-> 1]

\* Price-time priority between two orders of one side.
Ahead(o, p) ==
    \/ Better(o.side, o.price, p.price)
    \/ o.price = p.price /\ o.sequence < p.sequence

Opposing(resting, c) == { o \in resting : o.side = Opposite(c.side) }

\* The orders c may trade with: another user's, within the limit, and with no
\* order of the same user at a better price in front of them.
Eligible(resting, c) ==
    { o \in Opposing(resting, c) :
        /\ o.userId # c.userId
        /\ c.price = 0 \/ ~Better(c.side, o.price, c.price)
        /\ \A own \in Opposing(resting, c) :
              own.userId = c.userId => ~Better(o.side, own.price, o.price) }

QtyOf(os) == SumFunction([o \in os |-> o.quantity])

\* The quantity each maker trades with c: what those ahead of it leave of c.
Fills(resting, c) ==
    LET eligible == Eligible(resting, c)
        left == [o \in eligible |->
                    c.quantity - QtyOf({ p \in eligible : Ahead(p, o) })]
    IN  [o \in { p \in eligible : left[p] > 0 } |-> SmallerOf(left[o], o.quantity)]

\* Orders of one side in price-time order.
InOrder(os) ==
    CHOOSE s \in SetToSeqs(os) : \A i, j \in 1..Len(s) : i < j => Ahead(s[i], s[j])

\* The trades in price-time order.
TradeLines(resting, c) ==
    LET fills == Fills(resting, c)
        makers == InOrder(DOMAIN fills)
    IN  [i \in 1..Len(makers) |-> TradeLine(c, makers[i], fills[makers[i]])]

\* The book after a new order: a limit order rests with what it could not trade.
AfterNewOrder(book, c) ==
    LET fills == Fills(book.resting, c)
        left == c.quantity - SumFunction(fills)
        filled == { o \in DOMAIN fills : fills[o] = o.quantity }
        reduced == { [o EXCEPT !.quantity = @ - fills[o]] : o \in DOMAIN fills \ filled }
        after == (book.resting \ DOMAIN fills) \cup reduced
        keys == [k \in Key |-> IF \E o \in filled : KeyOf(o) = k THEN 0 ELSE book.byKey[k]]
    IN  IF c.price # 0 /\ left > 0
        THEN [resting |-> after \cup
                { [userId |-> c.userId, userOrderId |-> c.userOrderId, side |-> c.side,
                   price |-> c.price, quantity |-> left, sequence |-> book.nextSequence] },
              byKey |-> [keys EXCEPT ![KeyOf(c)] = book.nextSequence],
              nextSequence |-> book.nextSequence + 1]
        ELSE [book EXCEPT !.resting = after, !.byKey = keys]

\* The book after a cancel.
AfterCancel(book, c) ==
    [book EXCEPT
        !.resting = { o \in @ : o.sequence # book.byKey[KeyOf(c)] },
        !.byKey[KeyOf(c)] = 0]

\* The best price of a side and the quantity resting there.
TopOf(resting, sd) ==
    LET mine == { o \in resting : o.side = sd }
        best == { o \in mine : \A p \in mine : ~Better(sd, p.price, o.price) }
    IN  IF mine = {} THEN NoTop
        ELSE [valid |-> TRUE, price |-> (CHOOSE o \in best : TRUE).price,
              totalQuantity |-> Int64(QtyOf(best))]

TopsOf(resting) == [sd \in Side |-> TopOf(resting, sd)]

TopLines(old, new) ==
    TopLine("Buy", old["Buy"], new["Buy"]) \o TopLine("Sell", old["Sell"], new["Sell"])

====

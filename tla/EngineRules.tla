---- MODULE EngineRules ----
(***************************************************************************)
(* The books of an engine and what a command makes of them, on top of the  *)
(* rules of one book: the books are a function from the symbols that have  *)
(* one, and a command has a set of outcomes, since a cancel reaches the    *)
(* books in the order of a hash map.                                       *)
(***************************************************************************)
EXTENDS PriceTimeRules

CONSTANT Symbols

SymbolOrder == [type : {"NewOrder"}, symbol : Symbols, userId : Users,
                userOrderId : OrderIds, price : Prices, quantity : Quantities, side : Side]
FlushCommand == [type |-> "Flush"]

\* A book and the tops it published last.
NewBook == [book |-> EmptyBook, tops |-> TopsOf({})]
NoBooks == [s \in {} |-> NewBook]

\* What becomes of book b, given the orders that c leaves in it, and its lines.
Publishing(b, c, after) ==
    [state |-> [book |-> after, tops |-> TopsOf(after.resting)],
     lines |-> << AckLine(c) >>
               \o (IF c.type = "NewOrder" THEN TradeLines(b.book.resting, c) ELSE <<>>)
               \o TopLines(b.tops, TopsOf(after.resting))]

\* Book b serves c: a set of one result.
Serving(b, c) ==
    { Publishing(b, c, after) : after \in
        { IF c.type = "NewOrder" THEN AfterNewOrder(b.book, c) ELSE AfterCancel(b.book, c) } }

\* books_[symbol]: the book of s, created when there is none.
BookOf(books, s) == IF s \in DOMAIN books THEN books[s] ELSE NewBook

\* books_ with book s as r leaves it.
WithBook(books, s, r) ==
    [t \in DOMAIN books \cup {s} |-> IF t = s THEN r.state ELSE books[t]]

\* A cancel: each book serves it, whatever the others do; their lines come in
\* the order the books are visited.
Broadcast(books, c) ==
    UNION { { [books |-> [s \in DOMAIN books |-> served[s].state],
               lines |-> FlattenSeq([i \in DOMAIN visit |-> served[visit[i]].lines])] :
                 visit \in SetToSeqs(DOMAIN books) } :
              served \in { [s \in DOMAIN books |->
                              Publishing(books[s], c, AfterCancel(books[s].book, c))] } }

\* What may come out of processCommand.
Outcomes(books, c) ==
    CASE c.type = "Flush" -> { [books |-> NoBooks, lines |-> <<>>] }
      [] c.type = "NewOrder" ->
           { [books |-> WithBook(books, c.symbol, r), lines |-> r.lines] :
               r \in Serving(BookOf(books, c.symbol), c) }
      [] c.type = "Cancel" -> Broadcast(books, c)

====

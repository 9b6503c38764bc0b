---- MODULE MatchingEngine ----
(***************************************************************************)
(* MatchingEngine.cpp: books_ and processCommand.  A cancel names no       *)
(* symbol and is broadcast: the loop over the books is a step per book, in *)
(* any order.  A book follows the rules that SymbolOrderbookRefinement     *)
(* shows the detailed book to implement.                                   *)
(***************************************************************************)
EXTENDS EngineRules

VARIABLES
    books,           \* books_
    command,         \* the command being processed
    pending,         \* the books its loop has still to visit
    lines            \* outputLines

engineVars == <<books, command, pending, lines>>

Init ==
    /\ books = NoBooks
    /\ command = NoCommand
    /\ pending = {}
    /\ lines = <<>>

\* Mutant of Flush: the books stay.
FlushNothing ==
    /\ command = NoCommand
    /\ command' = FlushCommand
    /\ UNCHANGED <<books, pending, lines>>

\* books_.clear(): no line tells.
Flush ==
    /\ command = NoCommand
    /\ books' = NoBooks
    /\ command' = FlushCommand
    /\ UNCHANGED <<pending, lines>>

\* Mutant of RouteNewOrder: an order whose symbol has no book yet goes to
\* another symbol's.
RouteToAnyBook(c) ==
    LET s == IF c.symbol \in DOMAIN books \/ DOMAIN books = {} THEN c.symbol
             ELSE CHOOSE x \in DOMAIN books : TRUE
    IN  /\ command = NoCommand
        /\ \E r \in Serving(BookOf(books, s), c) :
              books' = WithBook(books, s, r) /\ lines' = r.lines
        /\ command' = c
        /\ UNCHANGED pending

\* books_[cmd.symbol].processNewOrder
RouteNewOrder(c) ==
    /\ command = NoCommand
    /\ \E r \in Serving(BookOf(books, c.symbol), c) :
          books' = WithBook(books, c.symbol, r) /\ lines' = r.lines
    /\ command' = c
    /\ UNCHANGED pending

StartCancel(c) ==
    /\ command = NoCommand
    /\ command' = c
    /\ pending' = DOMAIN books
    /\ UNCHANGED <<books, lines>>

\* Mutant of CancelInBook: the loop ends at the first book that has the order.
CancelUntilFound(s) ==
    /\ s \in pending
    /\ \E r \in Serving(books[s], command) :
          /\ books' = WithBook(books, s, r)
          /\ lines' = lines \o r.lines
          /\ pending' = IF r.state.book.resting = books[s].book.resting
                        THEN pending \ {s} ELSE {}
    /\ UNCHANGED command

\* Mutant of CancelInBook: the loop ends with the first book.
CancelFirstBook(s) ==
    /\ s \in pending
    /\ \E r \in Serving(books[s], command) :
          books' = WithBook(books, s, r) /\ lines' = lines \o r.lines
    /\ pending' = {}
    /\ UNCHANGED command

\* entry.second.processCancel, for one entry of the loop.
CancelInBook(s) ==
    /\ s \in pending
    /\ \E r \in Serving(books[s], command) :
          books' = WithBook(books, s, r) /\ lines' = lines \o r.lines
    /\ pending' = pending \ {s}
    /\ UNCHANGED command

\* processCommand returns; the caller takes the lines.
Return ==
    /\ command # NoCommand
    /\ pending = {}
    /\ command' = NoCommand
    /\ lines' = <<>>
    /\ UNCHANGED <<books, pending>>

Next ==
    \/ Flush
    \/ \E c \in SymbolOrder : RouteNewOrder(c)
    \/ \E c \in Cancel : StartCancel(c)
    \/ \E s \in Symbols : CancelInBook(s)
    \/ Return

Spec == Init /\ [][Next]_engineVars

====

---- MODULE PriceTimeBook ----
(***************************************************************************)
(* The abstract book: every command is one atomic step by the rules of     *)
(* PriceTimeRules, and its lines are delivered before the next.            *)
(***************************************************************************)
EXTENDS PriceTimeRules

VARIABLES
    command,    \* the command being served
    book,       \* the resting orders
    tops,       \* the top of either side as last published
    lines       \* the lines of the command

bookVars == <<command, book, tops, lines>>

BookInit ==
    /\ command = NoCommand
    /\ book = EmptyBook
    /\ tops = TopsOf({})
    /\ lines = <<>>

NewOrderCommand(c) ==
    /\ command = NoCommand
    /\ command' = c
    /\ book' = AfterNewOrder(book, c)
    /\ tops' = TopsOf(book'.resting)
    /\ lines' = << AckLine(c) >> \o TradeLines(book.resting, c) \o TopLines(tops, tops')

CancelCommand(c) ==
    /\ command = NoCommand
    /\ command' = c
    /\ book' = AfterCancel(book, c)
    /\ tops' = TopsOf(book'.resting)
    /\ lines' = << AckLine(c) >> \o TopLines(tops, tops')

Deliver ==
    /\ command # NoCommand
    /\ command' = NoCommand
    /\ lines' = <<>>
    /\ UNCHANGED <<book, tops>>

BookNext ==
    \/ \E c \in NewOrder : NewOrderCommand(c)
    \/ \E c \in Cancel : CancelCommand(c)
    \/ Deliver

BookSpec == BookInit /\ [][BookNext]_bookVars

====

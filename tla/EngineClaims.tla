---- MODULE EngineClaims ----
(***************************************************************************)
(* What OrderBook_Guide.txt says of a cancel and the engine does not do.   *)
(***************************************************************************)
EXTENDS MatchingEngine

VARIABLE entered     \* the keys of the orders entered, each used once

InitEntered == Init /\ entered = {}

NextEntered ==
    \/ \E c \in SymbolOrder :
          /\ KeyOf(c) \notin entered
          /\ RouteNewOrder(c)
          /\ entered' = entered \cup {KeyOf(c)}
    \/ /\ Flush \/ (\E c \in Cancel : StartCancel(c)) \/ (\E s \in Symbols : CancelInBook(s)) \/ Return
       /\ UNCHANGED entered

ClaimsSpec == InitEntered /\ [][NextEntered]_<<books, command, pending, lines, entered>>

\* OrderBook_Guide.txt:44: "If the order is already filled or gone, the cancel
\* still produces an acknowledgement."  When the cancel of an order that was
\* entered has been processed, there is a C line for it.
CancelAcknowledged ==
    command.type = "Cancel" /\ pending = {} /\ KeyOf(command) \in entered =>
        \E i \in 1..Len(lines) : lines[i] = AckLine(command)

====

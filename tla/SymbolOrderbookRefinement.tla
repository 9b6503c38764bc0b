---- MODULE SymbolOrderbookRefinement ----
(***************************************************************************)
(* The detailed book implements the abstract one.  The abstract step is    *)
(* the one that publishes: until then the abstract book is the one the     *)
(* command found, which a history variable remembers.                      *)
(***************************************************************************)
EXTENDS SymbolOrderbook

VARIABLE found    \* history: the book the command in progress found

histVars == <<vars, found>>

\* The detailed book as the abstract one sees it.
BookNow ==
    [resting |-> { orders[s] : s \in { r \in Slots : Alive(r) } },
     byKey |-> [key \in Key |-> IF ordersByKey[key] = 0 THEN 0
                                ELSE orders[ordersByKey[key]].sequence],
     nextSequence |-> nextSequence]

Nothing == [resting |-> {}]

HistInit == Init /\ found = Nothing

HistNext ==
    /\ Next
    /\ found' = IF pc = "idle" THEN BookNow
                ELSE IF pc = "publish" THEN Nothing ELSE found

HistSpec == HistInit /\ [][HistNext]_histVars

Published == pc \in {"idle", "done"}

Abstract == INSTANCE PriceTimeBook WITH
    command <- IF pc = "done" THEN cmd ELSE NoCommand,
    book    <- IF Published THEN BookNow ELSE found,
    tops    <- top,
    lines   <- IF pc = "done" THEN out ELSE <<>>

\* processNewOrder and processCancel, loops, slots and all, do exactly what the
\* price-time rules say: the same trades in the same order, the same orders left,
\* the same cancel map, the same top-of-book lines.
ImplementsPriceTimeBook == Abstract!BookSpec

====

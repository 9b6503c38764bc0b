---- MODULE PriceLadder ----
(***************************************************************************)
(* The price ladders of a book (PriceLevel vectors of SymbolOrderbook.hpp):*)
(* bids are kept in descending and asks in ascending order of price, so    *)
(* that the best level of either side is the first.  A level is any record *)
(* with a field price; a ladder is a sequence of levels.                   *)
(***************************************************************************)
EXTENDS Integers, Sequences

Side == {"Buy", "Sell"}

Opposite(sd) == IF sd = "Buy" THEN "Sell" ELSE "Buy"

\* On side sd, price p has priority over price q.
Better(sd, p, q) == IF sd = "Buy" THEN p > q ELSE p < q

\* Strictly sorted from best to worst: no two levels share a price.
IsLadder(sd, lv) ==
    \A i, j \in 1..Len(lv) : i < j => Better(sd, lv[i].price, lv[j].price)

\* n splits the ladder at price p: the levels before n are better than p,
\* those from n on are not.
SplitsAt(sd, lv, p, n) ==
    /\ n \in 1..(Len(lv) + 1)
    /\ \A i \in 1..(n - 1) : Better(sd, lv[i].price, p)
    /\ \A i \in n..Len(lv) : ~Better(sd, lv[i].price, p)

\* What findBidLevelIndex and findAskLevelIndex promise ("lower_bound
\* semantics"), counted from 1.  LevelSearch.tla shows that their loops do it.
FindLevelIndex(sd, lv, p) ==
    CHOOSE n \in 1..(Len(lv) + 1) : SplitsAt(sd, lv, p, n)

\* The flag found of the two searches.
HasLevel(sd, lv, p) ==
    LET n == FindLevelIndex(sd, lv, p)
    IN  n <= Len(lv) /\ lv[n].price = p

====

---- MODULE MCSymbolOrderbook ----
EXTENDS SymbolOrderbookRefinement

FairHistSpec == HistSpec /\ Fairness

MCSymmetry == Permutations(Users) \cup Permutations(OrderIds)

====

---- MODULE MCEngineLedger ----
EXTENDS EngineLedger

Sym == Permutations(Users) \cup Permutations(OrderIds) \cup Permutations(Symbols)

====

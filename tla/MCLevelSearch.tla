---- MODULE MCLevelSearch ----
(***************************************************************************)
(* Every ladder that can be built from the prices 1..MaxPrice on either    *)
(* side, and targets from below the smallest to above the largest price.   *)
(***************************************************************************)
EXTENDS LevelSearch, SequencesExt

CONSTANT MaxPrice

SortedLadder(sd, P) ==
    LET Before(a, b) == Better(sd, a, b)
        s == SetToSortSeq(P, Before)
    IN  [i \in 1..Len(s) |-> [price |-> s[i]]]

MCLadders ==
    UNION { { <<sd, SortedLadder(sd, P)>> : P \in SUBSET (1..MaxPrice) }
            : sd \in Side }

MCTargets == 0..(MaxPrice + 1)

====

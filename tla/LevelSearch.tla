---- MODULE LevelSearch ----
(***************************************************************************)
(* The loop of findBidLevelIndex and findAskLevelIndex, one probe a step.  *)
(* The two functions differ only in the comparison, which Better(side, ..) *)
(* supplies.  Indices count from 0 as in the code, so probe i reads        *)
(* ladder[i + 1].                                                          *)
(***************************************************************************)
EXTENDS PriceLadder

CONSTANTS
    Ladders,    \* the pairs <<side, ladder>> the searches are called on
    Targets     \* the prices searched for

ASSUME LaddersAreSorted ==
    \A call \in Ladders :
        /\ call \in Side \X Seq([price : Int])
        /\ IsLadder(call[1], call[2])
ASSUME TargetsAreInt == Targets \subseteq Int

VARIABLES
    side, ladder,    \* which of bids_ and asks_ is searched, and its content
    incomingPrice,   \* the argument
    left, right,     \* locals: the half-open interval still searched
    found,           \* the out parameter
    result           \* the index returned, or -1 while the loop runs

vars == <<side, ladder, incomingPrice, left, right, found, result>>

Running == result = -1
Mid == (left + right) \div 2
PriceAtMid == ladder[Mid + 1].price

Init ==
    /\ \E call \in Ladders : side = call[1] /\ ladder = call[2]
    /\ incomingPrice \in Targets
    /\ left = 0
    /\ right = Len(ladder)
    /\ found = FALSE
    /\ result = -1

\* The level is there: return mid.
ReturnMid ==
    /\ Running /\ left < right
    /\ PriceAtMid = incomingPrice
    /\ found' = TRUE
    /\ result' = Mid
    /\ UNCHANGED <<side, ladder, incomingPrice, left, right>>

\* Mutant of SearchRight: mid itself stays in the interval.
SearchRightFromMid ==
    /\ Running /\ left < right
    /\ Better(side, PriceAtMid, incomingPrice)
    /\ left' = Mid
    /\ UNCHANGED <<side, ladder, incomingPrice, right, found, result>>

\* Mutant of SearchRight: one level too far.
SearchRightPastNext ==
    /\ Running /\ left < right
    /\ Better(side, PriceAtMid, incomingPrice)
    /\ left' = Mid + 2
    /\ UNCHANGED <<side, ladder, incomingPrice, right, found, result>>

\* The level at mid is better than the price: left = mid + 1.
SearchRight ==
    /\ Running /\ left < right
    /\ Better(side, PriceAtMid, incomingPrice)
    /\ left' = Mid + 1
    /\ UNCHANGED <<side, ladder, incomingPrice, right, found, result>>

\* Mutant of SearchLeft: the classic right = mid - 1 on a half-open interval.
SearchLeftBelowMid ==
    /\ Running /\ left < right
    /\ Better(side, incomingPrice, PriceAtMid)
    /\ right' = Mid - 1
    /\ UNCHANGED <<side, ladder, incomingPrice, left, found, result>>

\* The level at mid is worse than the price: right = mid.
SearchLeft ==
    /\ Running /\ left < right
    /\ Better(side, incomingPrice, PriceAtMid)
    /\ right' = Mid
    /\ UNCHANGED <<side, ladder, incomingPrice, left, found, result>>

\* The interval is empty: left is the insertion point.
ReturnLeft ==
    /\ Running /\ left >= right
    /\ result' = left
    /\ UNCHANGED <<side, ladder, incomingPrice, left, right, found>>

Next == ReturnMid \/ SearchRight \/ SearchLeft \/ ReturnLeft

Spec == Init /\ [][Next]_vars /\ WF_vars(Next)

----------------------------------------------------------------------------
(* Properties. *)

TypeOK ==
    /\ <<side, ladder>> \in Ladders
    /\ incomingPrice \in Targets
    /\ left \in 0..Len(ladder)
    /\ right \in 0..Len(ladder)
    /\ found \in BOOLEAN
    /\ result \in -1..Len(ladder)

\* findBidLevelIndex, findAskLevelIndex: whatever the ladder, the index
\* returned is the insertion point that keeps the ladder sorted, and found says
\* whether a level with the price already stands there.
SearchCorrect ==
    ~Running =>
        /\ result + 1 = FindLevelIndex(side, ladder, incomingPrice)
        /\ found <=> HasLevel(side, ladder, incomingPrice)

\* The probe never reads outside the vector, and the answer is still inside the
\* interval: everything before left is better, everything from right on worse.
AnswerInInterval ==
    /\ left <= right
    /\ left < right => Mid < Len(ladder)
    /\ \A i \in 1..left : Better(side, ladder[i].price, incomingPrice)
    /\ \A i \in (right + 1)..Len(ladder) :
           Better(side, incomingPrice, ladder[i].price)

\* Every search returns.
Terminates == <>(~Running)

====

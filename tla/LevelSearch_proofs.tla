---- MODULE LevelSearch_proofs ----
(***************************************************************************)
(* The binary searches are right on every sorted ladder: the answer stays  *)
(* inside the interval, and when the loop returns it has been found.       *)
(***************************************************************************)
EXTENDS LevelSearch, Foundations_proofs, SequenceTheorems

\* The ladder searched, as the assumption on the callers gives it.
CallOK ==
    /\ side \in Side
    /\ ladder \in Seq([price : Int])
    /\ IsLadder(side, ladder)
    /\ incomingPrice \in Int

\* A hit leaves the index of the level with the price, a miss the left end.
ReturnOK ==
    ~Running =>
        IF found
        THEN result < Len(ladder) /\ ladder[result + 1].price = incomingPrice
        ELSE result = left /\ left >= right

IInv ==
    /\ TypeOK
    /\ CallOK
    /\ AnswerInInterval
    /\ ReturnOK
    /\ Running => ~found

\* The probe lies inside the interval.
LEMMA MidInside ==
    ASSUME NEW l \in Nat, NEW r \in Nat, l < r
    PROVE  (l + r) \div 2 \in l..(r - 1)
OBVIOUS

\* What the proofs use of the ladder.
LEMMA LadderTyped ==
    ASSUME CallOK
    PROVE  /\ Len(ladder) \in Nat
           /\ \A i \in 1..Len(ladder) : ladder[i].price \in Int
<1>1. ladder \in Seq([price : Int])
    BY DEF CallOK
<1>2. Len(ladder) \in Nat
    BY <1>1, LenProperties
<1>3. \A i \in 1..Len(ladder) : ladder[i] \in [price : Int]
    BY <1>1, ElementOfSeq
<1> QED BY <1>2, <1>3

LEMMA InitInv == Init => IInv
<1> SUFFICES ASSUME Init PROVE IInv
    OBVIOUS
<1>1. PICK call \in Ladders : side = call[1] /\ ladder = call[2]
    BY DEF Init
<1>2. /\ call \in Side \X Seq([price : Int])
      /\ IsLadder(call[1], call[2])
    BY LaddersAreSorted
<1>3. call = <<side, ladder>>
    BY <1>1, <1>2
<1>4. CallOK
    BY <1>1, <1>2, TargetsAreInt DEF Init, CallOK
<1>5. left = 0 /\ right = Len(ladder) /\ Len(ladder) \in Nat
    BY <1>4 DEF Init, CallOK
<1>6. TypeOK
    <2>1. <<side, ladder>> \in Ladders
        BY <1>3
    <2>2. result \in -1..Len(ladder)
        BY <1>5 DEF Init
    <2>3. left \in 0..Len(ladder) /\ right \in 0..Len(ladder)
        BY <1>5
    <2>4. found \in BOOLEAN /\ incomingPrice \in Targets
        BY DEF Init
    <2> QED BY <2>1, <2>2, <2>3, <2>4 DEF TypeOK
<1>7. AnswerInInterval
    <2>1. left < right => Mid < Len(ladder)
        BY <1>5, MidInside DEF Mid
    <2> QED BY <1>5, <2>1 DEF AnswerInInterval
<1> QED BY <1>4, <1>6, <1>7 DEF Init, IInv, ReturnOK, Running

LEMMA StepInv == IInv /\ [Next]_vars => IInv'
<1> SUFFICES ASSUME IInv, [Next]_vars PROVE IInv'
    OBVIOUS
<1>1. /\ Len(ladder) \in Nat
      /\ \A i \in 1..Len(ladder) : ladder[i].price \in Int
      /\ incomingPrice \in Int /\ side \in Side
      /\ left \in Nat /\ right \in Nat /\ right <= Len(ladder) /\ left <= right
      /\ \A i, j \in 1..Len(ladder) :
            i < j => Better(side, ladder[i].price, ladder[j].price)
    BY LadderTyped DEF IInv, CallOK, TypeOK, AnswerInInterval, IsLadder
<1>2. left < right => /\ Mid \in left..(right - 1)
                      /\ Mid + 1 \in 1..Len(ladder)
                      /\ PriceAtMid \in Int
    BY <1>1, MidInside DEF Mid, PriceAtMid
<1>3. CASE ReturnMid
    <2>1. /\ UNCHANGED <<side, ladder, incomingPrice, left, right>>
          /\ result' = Mid /\ found' /\ Mid \in 0..Len(ladder)
          /\ Mid < Len(ladder) /\ ladder[Mid + 1].price = incomingPrice
        BY <1>1, <1>2, <1>3 DEF ReturnMid, PriceAtMid
    <2>2. ReturnOK' /\ ~Running'
        BY <2>1 DEF ReturnOK, Running
    <2>3. TypeOK' /\ CallOK'
        BY <1>3, <2>1 DEF IInv, TypeOK, CallOK, ReturnMid
    <2>4. AnswerInInterval'
        BY <2>1 DEF IInv, AnswerInInterval, Mid
    <2> QED BY <2>2, <2>3, <2>4 DEF IInv
<1>4. CASE SearchRight
    <2>1. /\ UNCHANGED <<side, ladder, incomingPrice, right, found, result>>
          /\ left' = Mid + 1 /\ left' \in 0..Len(ladder) /\ left' <= right
          /\ Running /\ Running'
        BY <1>1, <1>2, <1>4 DEF SearchRight, Running
    <2>2. \A i \in 1..(Mid + 1) : Better(side, ladder[i].price, incomingPrice)
        <3>1. Better(side, ladder[Mid + 1].price, incomingPrice)
            BY <1>4 DEF SearchRight, PriceAtMid
        <3>2. Mid \in Nat /\ Mid + 1 \in 1..Len(ladder)
            BY <1>1, <1>2, <1>4 DEF SearchRight
        <3>3. \A i \in 1..Mid : Better(side, ladder[i].price, ladder[Mid + 1].price)
            BY <1>1, <3>2
        <3> QED BY <1>1, <3>1, <3>2, <3>3 DEF Better
    <2>3. (left < right => Mid < Len(ladder))'
        BY <1>1, <2>1, MidInside DEF Mid
    <2>4. AnswerInInterval'
        BY <2>1, <2>2, <2>3 DEF IInv, AnswerInInterval
    <2>5. TypeOK' /\ CallOK'
        BY <2>1 DEF IInv, TypeOK, CallOK
    <2> QED BY <2>1, <2>4, <2>5 DEF IInv, ReturnOK
<1>5. CASE SearchLeft
    <2>1. /\ UNCHANGED <<side, ladder, incomingPrice, left, found, result>>
          /\ right' = Mid /\ right' \in 0..Len(ladder) /\ left <= right'
          /\ Running /\ Running'
        BY <1>1, <1>2, <1>5 DEF SearchLeft, Running
    <2>2. \A i \in (Mid + 1)..Len(ladder) : Better(side, incomingPrice, ladder[i].price)
        <3>1. Better(side, incomingPrice, ladder[Mid + 1].price)
            BY <1>5 DEF SearchLeft, PriceAtMid
        <3>2. /\ Mid + 1 \in 1..Len(ladder) /\ incomingPrice \in Int
              /\ \A i \in 1..Len(ladder) : ladder[i].price \in Int
            BY <1>1, <1>2, <1>5 DEF SearchLeft
        <3> TAKE i \in (Mid + 1)..Len(ladder)
        <3>3. i \in 1..Len(ladder) /\ (i = Mid + 1 \/ i \in (Mid + 2)..Len(ladder))
            <4>1. Mid \in Nat /\ Len(ladder) \in Nat
                BY <1>1, <1>2, <1>5 DEF SearchLeft
            <4>2. i \in Int /\ Mid + 1 <= i /\ i <= Len(ladder)
                BY <4>1
            <4> QED BY <4>1, <4>2
        <3>4. CASE i = Mid + 1
            BY <3>1, <3>4
        <3>5. CASE i \in (Mid + 2)..Len(ladder)
            <4>1. Better(side, ladder[Mid + 1].price, ladder[i].price)
                <5>1. Mid + 1 < i
                    <6>1. Mid \in Nat /\ Len(ladder) \in Nat
                        BY <1>1, <1>2, <1>5 DEF SearchLeft
                    <6> QED BY <3>5, <6>1
                <5> QED BY <1>1, <3>2, <3>3, <5>1
            <4> QED BY <3>1, <3>2, <3>3, <4>1 DEF Better
        <3> QED BY <3>3, <3>4, <3>5
    <2>3. (left < right => Mid < Len(ladder))'
        <3>1. left' \in Nat /\ right' \in Nat /\ right' <= Len(ladder')
            BY <1>1, <2>1
        <3> QED BY <1>1, <2>1, <3>1, MidInside DEF Mid
    <2>4. AnswerInInterval'
        BY <2>1, <2>2, <2>3 DEF IInv, AnswerInInterval
    <2>5. TypeOK' /\ CallOK'
        BY <2>1 DEF IInv, TypeOK, CallOK
    <2> QED BY <2>1, <2>4, <2>5 DEF IInv, ReturnOK
<1>6. CASE ReturnLeft
    <2>1. /\ UNCHANGED <<side, ladder, incomingPrice, left, right, found>>
          /\ result' = left /\ left >= right /\ ~found
        BY <1>6 DEF ReturnLeft, IInv
    <2>2. TypeOK' /\ CallOK' /\ ReturnOK' /\ ~found'
        BY <1>1, <2>1 DEF IInv, TypeOK, CallOK, ReturnOK
    <2>3. AnswerInInterval'
        BY <2>1 DEF IInv, AnswerInInterval, Mid
    <2> QED BY <2>2, <2>3 DEF IInv
<1>7. CASE UNCHANGED vars
    BY <1>7 DEF vars, Mid, IInv, TypeOK, CallOK, ReturnOK, AnswerInInterval, Running
<1> QED BY <1>3, <1>4, <1>5, <1>6, <1>7 DEF Next

LEMMA InvSearchCorrect == IInv => SearchCorrect
<1> SUFFICES ASSUME IInv, ~Running PROVE
        /\ result + 1 = FindLevelIndex(side, ladder, incomingPrice)
        /\ found <=> HasLevel(side, ladder, incomingPrice)
    BY DEF SearchCorrect
<1>1. /\ Len(ladder) \in Nat
      /\ \A i \in 1..Len(ladder) : ladder[i].price \in Int
      /\ incomingPrice \in Int /\ side \in Side /\ IsLadder(side, ladder)
      /\ left \in Nat /\ right \in Nat /\ result \in Nat
    BY LadderTyped DEF IInv, CallOK, TypeOK, Running
<1>2. CASE found
    <2>1. result + 1 \in 1..Len(ladder) /\ ladder[result + 1].price = incomingPrice
        BY <1>1, <1>2 DEF IInv, ReturnOK
    <2> QED BY <1>1, <1>2, <2>1, FindHitsLevel
<1>3. CASE ~found
    <2>1. result = left /\ left = right
        BY <1>1, <1>3 DEF IInv, ReturnOK, AnswerInInterval
    <2>2. SplitsAt(side, ladder, incomingPrice, result + 1)
        <3>1. result + 1 \in 1..(Len(ladder) + 1)
            BY <1>1, <2>1 DEF IInv, TypeOK
        <3>2. /\ \A i \in 1..result : Better(side, ladder[i].price, incomingPrice)
              /\ \A i \in (result + 1)..Len(ladder) :
                     ~Better(side, ladder[i].price, incomingPrice)
            BY <1>1, <2>1 DEF IInv, AnswerInInterval, Better
        <3>3. (result + 1) - 1 = result
            BY <1>1
        <3> QED BY <3>1, <3>2, <3>3 DEF SplitsAt
    <2>3. result + 1 = FindLevelIndex(side, ladder, incomingPrice)
        BY <1>1, <2>2, FindIsSplit, SplitUnique
    <2>4. ~HasLevel(side, ladder, incomingPrice)
        <3>1. SUFFICES ASSUME HasLevel(side, ladder, incomingPrice) PROVE FALSE
            OBVIOUS
        <3>2. /\ result + 1 \in 1..Len(ladder)
              /\ ladder[result + 1].price = incomingPrice
            BY <1>1, <2>3, <3>1 DEF HasLevel
        <3> QED BY <1>1, <2>1, <3>2 DEF IInv, AnswerInInterval, Better
    <2> QED BY <1>3, <2>3, <2>4
<1> QED BY <1>2, <1>3

\* left, right and the result stay within the vector and its end.
THEOREM SearchTypeCorrect == Spec => []TypeOK
<1>1. IInv => TypeOK
    BY DEF IInv
<1> QED BY <1>1, InitInv, StepInv, PTL DEF Spec

\* The searches of findBidLevelIndex and findAskLevelIndex never read outside the
\* vector and never lose the answer, on any sorted ladder.
THEOREM SearchKeepsAnswer == Spec => [](TypeOK /\ AnswerInInterval)
<1>1. IInv => TypeOK /\ AnswerInInterval
    BY DEF IInv
<1> QED BY <1>1, InitInv, StepInv, PTL DEF Spec

\* What they return is the insertion point and whether the level exists.
THEOREM SearchIsCorrect == Spec => []SearchCorrect
BY InitInv, StepInv, InvSearchCorrect, PTL DEF Spec

====

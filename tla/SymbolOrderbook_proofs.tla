---- MODULE SymbolOrderbook_proofs ----
(***************************************************************************)
(* The book stays consistent and matches by price and time, for any users, *)
(* ids, prices and quantities and any number of orders.  First what the    *)
(* edits of ladders and slots do: each keeps the ladders sorted, every     *)
(* live order at one place of them, at its price and in arrival order;     *)
(* then one inductive invariant, IInv, and one lemma per action that       *)
(* changes the store.                                                      *)
(***************************************************************************)
EXTENDS SymbolOrderbook, Foundations_proofs, SequenceTheorems

----------------------------------------------------------------------------
(* Sequences and wrap-around. *)

LEMMA Int64Type == \A x \in Int : Int64(x) \in Int
BY Int64MaxIsPositive DEF Int64

LEMMA RemoveAtProps ==
    ASSUME NEW S, NEW s \in Seq(S), NEW i \in 1..Len(s)
    PROVE  /\ RemoveAt(s, i) \in Seq(S)
           /\ Len(RemoveAt(s, i)) = Len(s) - 1
           /\ \A j \in 1..(Len(s) - 1) :
                 RemoveAt(s, i)[j] = IF j < i THEN s[j] ELSE s[j + 1]
<1> DEFINE front == SubSeq(s, 1, i - 1)
           back  == SubSeq(s, i + 1, Len(s))
<1>1. Len(s) \in Nat /\ \A j \in 1..Len(s) : s[j] \in S
    BY LenProperties, ElementOfSeq
<1>2. /\ front \in Seq(S) /\ Len(front) = i - 1
      /\ \A j \in 1..(i - 1) : front[j] = s[j]
    BY <1>1, SubSeqProperties
<1>3. /\ back \in Seq(S) /\ Len(back) = Len(s) - i
      /\ \A j \in 1..(Len(s) - i) : back[j] = s[i + j]
    BY <1>1, SubSeqProperties
<1> HIDE DEF front, back
<1>4. /\ front \o back \in Seq(S)
      /\ Len(front \o back) = Len(s) - 1
      /\ \A j \in 1..(Len(s) - 1) :
            (front \o back)[j] = IF j < i THEN s[j] ELSE s[j + 1]
    <2>1. /\ front \o back \in Seq(S)
          /\ Len(front \o back) = (i - 1) + (Len(s) - i)
          /\ \A j \in 1..((i - 1) + (Len(s) - i)) :
                (front \o back)[j] = IF j <= i - 1 THEN front[j] ELSE back[j - (i - 1)]
        <3>1. front \in Seq(S) /\ back \in Seq(S)
            BY <1>2, <1>3
        <3>2. /\ front \o back \in Seq(S)
              /\ Len(front \o back) = Len(front) + Len(back)
              /\ \A j \in 1..(Len(front) + Len(back)) :
                    (front \o back)[j] = IF j <= Len(front) THEN front[j]
                                         ELSE back[j - Len(front)]
            BY <3>1, ConcatProperties
        <3> QED BY <1>2, <1>3, <3>2
    <2>2. ASSUME NEW j \in 1..(Len(s) - 1), j < i
          PROVE  (front \o back)[j] = s[j]
        BY <1>1, <1>2, <2>1, <2>2
    <2>3. ASSUME NEW j \in 1..(Len(s) - 1), ~(j < i)
          PROVE  (front \o back)[j] = s[j + 1]
        <3>1. (front \o back)[j] = back[j - (i - 1)]
            <4>1. j \in 1..((i - 1) + (Len(s) - i)) /\ ~(j <= i - 1)
                BY <1>1, <2>3
            <4> QED BY <2>1, <4>1
        <3>2. back[j - (i - 1)] = s[i + (j - (i - 1))]
            BY <1>1, <1>3, <2>3
        <3>3. i + (j - (i - 1)) = j + 1
            BY <1>1
        <3> QED BY <3>1, <3>2, <3>3
    <2> QED BY <1>1, <2>1, <2>2, <2>3
<1> QED BY <1>4 DEF RemoveAt, front, back

LEMMA InsertAtProps ==
    ASSUME NEW S, NEW s \in Seq(S), NEW i \in 1..(Len(s) + 1), NEW e \in S
    PROVE  /\ InsertAt(s, i, e) \in Seq(S)
           /\ Len(InsertAt(s, i, e)) = Len(s) + 1
           /\ \A j \in 1..(Len(s) + 1) :
                 InsertAt(s, i, e)[j] = IF j < i THEN s[j]
                                        ELSE IF j = i THEN e ELSE s[j - 1]
<1> DEFINE front == SubSeq(s, 1, i - 1)
           back  == SubSeq(s, i, Len(s))
<1>1. Len(s) \in Nat /\ \A j \in 1..Len(s) : s[j] \in S
    BY LenProperties, ElementOfSeq
<1>2. /\ front \in Seq(S) /\ Len(front) = i - 1
      /\ \A j \in 1..(i - 1) : front[j] = s[j]
    BY <1>1, SubSeqProperties
<1>3. /\ back \in Seq(S) /\ Len(back) = Len(s) - i + 1
      /\ \A j \in 1..(Len(s) - i + 1) : back[j] = s[i + j - 1]
    BY <1>1, SubSeqProperties
<1>4. <<e>> \in Seq(S) /\ Len(<<e>>) = 1 /\ <<e>>[1] = e
    OBVIOUS
<1> HIDE DEF front, back
<1>5. /\ front \o <<e>> \in Seq(S)
      /\ Len(front \o <<e>>) = i
      /\ \A j \in 1..i : (front \o <<e>>)[j] = IF j < i THEN s[j] ELSE e
    BY <1>1, <1>2, <1>4, ConcatProperties
<1>6. /\ (front \o <<e>>) \o back \in Seq(S)
      /\ Len((front \o <<e>>) \o back) = Len(s) + 1
      /\ \A j \in 1..(Len(s) + 1) :
            ((front \o <<e>>) \o back)[j] = IF j < i THEN s[j]
                                            ELSE IF j = i THEN e ELSE s[j - 1]
    BY <1>1, <1>3, <1>5, ConcatProperties
<1> QED BY <1>6 DEF InsertAt, front, back

LEMMA FrontProps ==
    ASSUME NEW S, NEW s \in Seq(S), s # <<>>
    PROVE  /\ Len(s) \in Nat \ {0}
           /\ Front(s) \in Seq(S)
           /\ Len(Front(s)) = Len(s) - 1
           /\ \A j \in 1..(Len(s) - 1) : Front(s)[j] = s[j]
           /\ Last(s) = s[Len(s)] /\ Last(s) \in S
<1>1. Len(s) \in Nat \ {0} /\ \A j \in 1..Len(s) : s[j] \in S
    BY EmptySeq, LenProperties, ElementOfSeq
<1>2. /\ Front(s) \in Seq(S)
      /\ Len(Front(s)) = Len(s) - 1
      /\ \A j \in 1..(Len(s) - 1) : Front(s)[j] = s[j]
    <2> DEFINE n == Len(s) - 1
    <2>1. n \in Nat /\ \A j \in 1..n : s[j] \in S
        BY <1>1
    <2> HIDE DEF n
    <2>2. /\ SubSeq(s, 1, n) \in Seq(S)
          /\ Len(SubSeq(s, 1, n)) = IF 1 <= n THEN n - 1 + 1 ELSE 0
          /\ \A j \in 1..(n - 1 + 1) : SubSeq(s, 1, n)[j] = s[1 + j - 1]
        BY <2>1, SubSeqProperties
    <2>3. /\ Len(SubSeq(s, 1, n)) = n
          /\ \A j \in 1..n : SubSeq(s, 1, n)[j] = s[j]
        BY <2>1, <2>2
    <2> QED BY <2>2, <2>3 DEF Front, n
<1> QED BY <1>1, <1>2 DEF Last

----------------------------------------------------------------------------
(* The consistency of ladders L and slots O, and the edits the actions make. *)
(* The four operators that read a ladder stay unexpanded in most proofs.     *)

Depth(L, sd) == Len(L[sd])
Count(L, sd, n) == Len(L[sd][n].orders)
At(L, sd, n, k) == L[sd][n].orders[k]
PriceAt(L, sd, n) == L[sd][n].price

Typed(L, O) ==
    /\ \A sd \in Side : Depth(L, sd) \in Nat
    /\ \A sd \in Side : \A n \in 1..Depth(L, sd) :
          PriceAt(L, sd, n) \in Int /\ Count(L, sd, n) \in Nat
    /\ Len(O) \in Nat
    /\ \A s \in 1..Len(O) : O[s].quantity \in Int /\ O[s].sequence \in Nat

\* The levels of either side are strictly sorted.
SortedLadders(L) ==
    \A sd \in Side : \A m, n \in 1..Depth(L, sd) :
        m < n => Better(sd, PriceAt(L, sd, m), PriceAt(L, sd, n))

\* Every order stands alive on its side at its price.
WellPlaced(L, O) ==
    \A sd \in Side : \A n \in 1..Depth(L, sd) : \A k \in 1..Count(L, sd, n) :
        /\ At(L, sd, n, k) \in 1..Len(O)
        /\ O[At(L, sd, n, k)].quantity > 0
        /\ O[At(L, sd, n, k)].side = sd
        /\ O[At(L, sd, n, k)].price = PriceAt(L, sd, n)

QueuesInOrder(L, O) ==
    \A sd \in Side : \A n \in 1..Depth(L, sd) : \A j, k \in 1..Count(L, sd, n) :
        j < k => O[At(L, sd, n, j)].sequence < O[At(L, sd, n, k)].sequence

Held(L, s) ==
    \E sd \in Side : \E n \in 1..Depth(L, sd) : \E k \in 1..Count(L, sd, n) :
        At(L, sd, n, k) = s

\* Every live order stands somewhere.
Covered(L, O) == \A s \in 1..Len(O) : O[s].quantity > 0 => Held(L, s)

Consistent(L, O) ==
    Typed(L, O) /\ SortedLadders(L) /\ WellPlaced(L, O) /\ QueuesInOrder(L, O) /\ Covered(L, O)

\* Two ladders that differ in the totals of their levels only.
SameShape(L, M) ==
    \A sd \in Side :
        /\ Depth(M, sd) = Depth(L, sd)
        /\ \A n \in 1..Depth(L, sd) :
              /\ PriceAt(M, sd, n) = PriceAt(L, sd, n)
              /\ Count(M, sd, n) = Count(L, sd, n)
              /\ \A k \in 1..Count(L, sd, n) : At(M, sd, n, k) = At(L, sd, n, k)

LEMMA BetterTotal ==
    ASSUME NEW sd \in Side, NEW p \in Int, NEW q \in Int
    PROVE  /\ Better(sd, p, q) \/ Better(sd, q, p) \/ p = q
           /\ Better(sd, p, q) => ~Better(sd, q, p) /\ p # q
BY DEF Better

\* A slot stands at one place only: its side, its price and its sequence tell it.
LEMMA PlaceUnique ==
    ASSUME NEW L, NEW O, Typed(L, O), SortedLadders(L), WellPlaced(L, O), QueuesInOrder(L, O),
           NEW sd \in Side, NEW n \in 1..Depth(L, sd), NEW k \in 1..Count(L, sd, n),
           NEW sd2 \in Side, NEW n2 \in 1..Depth(L, sd2), NEW k2 \in 1..Count(L, sd2, n2),
           At(L, sd, n, k) = At(L, sd2, n2, k2)
    PROVE  sd = sd2 /\ n = n2 /\ k = k2
<1>1. sd = sd2
    BY DEF WellPlaced
<1>2. PriceAt(L, sd, n) = PriceAt(L, sd, n2) /\ n2 \in 1..Depth(L, sd)
    BY <1>1 DEF WellPlaced
<1>3. n = n2
    BY <1>1, <1>2, BetterTotal DEF Typed, SortedLadders
<1>4. At(L, sd, n, k) \in 1..Len(O) /\ O[At(L, sd, n, k)].sequence \in Nat
    BY DEF Typed, WellPlaced
<1>5. ~(k < k2) /\ ~(k2 < k)
    BY <1>1, <1>3, <1>4 DEF QueuesInOrder, Typed
<1> QED BY <1>1, <1>3, <1>5 DEF Typed

\* PartialFill: an order shrinks but lives.
LEMMA ReduceOrder ==
    ASSUME NEW L, NEW O, Consistent(L, O), NEW M, SameShape(L, M),
           NEW s0 \in 1..Len(O), NEW P, Len(P) = Len(O),
           \A s \in 1..Len(O) : s # s0 => P[s] = O[s],
           O[s0].quantity > 0, P[s0].quantity > 0, P[s0].quantity \in Int,
           P[s0].side = O[s0].side, P[s0].price = O[s0].price,
           P[s0].sequence = O[s0].sequence
    PROVE  Consistent(M, P)
<1>1. \A s \in 1..Len(O) :
        /\ P[s].quantity > 0 <=> O[s].quantity > 0
        /\ P[s].side = O[s].side /\ P[s].price = O[s].price
        /\ P[s].sequence = O[s].sequence
    OBVIOUS
<1>2. Typed(M, P)
    BY <1>1 DEF Consistent, Typed, SameShape
<1>3. SortedLadders(M)
    BY DEF Consistent, SortedLadders, SameShape
<1>4. WellPlaced(M, P)
    BY <1>1 DEF Consistent, WellPlaced, SameShape
<1>5. QueuesInOrder(M, P)
    BY <1>1 DEF Consistent, WellPlaced, QueuesInOrder, SameShape
<1>6. ASSUME NEW s \in 1..Len(P), P[s].quantity > 0
      PROVE  Held(M, s)
    <2>1. PICK sd \in Side : \E n \in 1..Depth(L, sd) : \E k \in 1..Count(L, sd, n) :
                At(L, sd, n, k) = s
        BY <1>1, <1>6 DEF Consistent, Covered, Held
    <2> QED BY <2>1 DEF SameShape, Held
<1> QED BY <1>2, <1>3, <1>4, <1>5, <1>6 DEF Consistent, Covered

\* M is L without the order at place k0 of level n0 on side sd0.
OrderRemoved(L, M, sd0, n0, k0) ==
    \A sd \in Side :
        /\ Depth(M, sd) = Depth(L, sd)
        /\ \A n \in 1..Depth(L, sd) :
              /\ PriceAt(M, sd, n) = PriceAt(L, sd, n)
              /\ Count(M, sd, n) = IF sd = sd0 /\ n = n0 THEN Count(L, sd, n) - 1
                                   ELSE Count(L, sd, n)
              /\ \A k \in 1..Count(M, sd, n) :
                    At(M, sd, n, k) = IF sd = sd0 /\ n = n0 /\ k >= k0
                                      THEN At(L, sd, n, k + 1) ELSE At(L, sd, n, k)

\* FullFill and CancelKnown: an order dies and leaves its level.
LEMMA RemoveOrder ==
    ASSUME NEW L, NEW O, Consistent(L, O), NEW M,
           NEW sd0 \in Side, NEW n0 \in 1..Depth(L, sd0), NEW k0 \in 1..Count(L, sd0, n0),
           OrderRemoved(L, M, sd0, n0, k0),
           NEW P, Len(P) = Len(O),
           \A s \in 1..Len(O) : s # At(L, sd0, n0, k0) => P[s] = O[s],
           P[At(L, sd0, n0, k0)].quantity = 0,
           P[At(L, sd0, n0, k0)].sequence \in Nat
    PROVE  Consistent(M, P)
<1> DEFINE s0 == At(L, sd0, n0, k0)
<1> USE DEF Consistent
<1>1. /\ s0 \in 1..Len(O)
      /\ \A s \in 1..Len(O) : s # s0 => P[s] = O[s]
      /\ P[s0].quantity = 0 /\ P[s0].sequence \in Nat
    BY DEF WellPlaced
<1>2. \A sd \in Side : \A n \in 1..Depth(L, sd) : \A k \in 1..Count(L, sd, n) :
        At(L, sd, n, k) = s0 => sd = sd0 /\ n = n0 /\ k = k0
    BY PlaceUnique
<1> HIDE DEF s0
<1>3. Typed(M, P)
    <2>1. Len(P) \in Nat /\ \A s \in 1..Len(P) : P[s].quantity \in Int /\ P[s].sequence \in Nat
        BY <1>1 DEF Typed
    <2>2. ASSUME NEW sd \in Side, NEW n \in 1..Depth(M, sd)
          PROVE  PriceAt(M, sd, n) \in Int /\ Count(M, sd, n) \in Nat
        <3>1. n \in 1..Depth(L, sd) /\ Count(L, sd, n) \in Nat /\ PriceAt(L, sd, n) \in Int
            BY <2>2 DEF Typed, OrderRemoved
        <3>2. Count(L, sd0, n0) - 1 \in Nat
            BY DEF Typed
        <3> QED BY <3>1, <3>2 DEF OrderRemoved
    <2> QED BY <2>1, <2>2 DEF Typed, OrderRemoved
<1>4. SortedLadders(M)
    BY DEF SortedLadders, OrderRemoved
<1> DEFINE From(sd, n, k) == IF sd = sd0 /\ n = n0 /\ k >= k0 THEN k + 1 ELSE k
<1>5. ASSUME NEW sd \in Side, NEW n \in 1..Depth(M, sd), NEW k \in 1..Count(M, sd, n)
      PROVE  /\ n \in 1..Depth(L, sd) /\ PriceAt(M, sd, n) = PriceAt(L, sd, n)
             /\ From(sd, n, k) \in 1..Count(L, sd, n)
             /\ At(M, sd, n, k) = At(L, sd, n, From(sd, n, k))
             /\ At(M, sd, n, k) # s0
    <2>1. /\ n \in 1..Depth(L, sd) /\ PriceAt(M, sd, n) = PriceAt(L, sd, n)
          /\ From(sd, n, k) \in 1..Count(L, sd, n)
          /\ At(M, sd, n, k) = At(L, sd, n, From(sd, n, k))
        BY <1>5 DEF OrderRemoved, Typed
    <2>2. ~(sd = sd0 /\ n = n0 /\ From(sd, n, k) = k0)
        BY <1>5
    <2> QED BY <1>2, <2>1, <2>2
<1>6. WellPlaced(M, P)
    <2> SUFFICES ASSUME NEW sd \in Side, NEW n \in 1..Depth(M, sd), NEW k \in 1..Count(M, sd, n)
                 PROVE  /\ At(M, sd, n, k) \in 1..Len(P)
                        /\ P[At(M, sd, n, k)].quantity > 0
                        /\ P[At(M, sd, n, k)].side = sd
                        /\ P[At(M, sd, n, k)].price = PriceAt(M, sd, n)
        BY DEF WellPlaced
    <2> HIDE DEF From
    <2> QED BY <1>1, <1>5 DEF WellPlaced
<1>7. QueuesInOrder(M, P)
    <2> SUFFICES ASSUME NEW sd \in Side, NEW n \in 1..Depth(M, sd),
                        NEW j \in 1..Count(M, sd, n), NEW k \in 1..Count(M, sd, n), j < k
                 PROVE  P[At(M, sd, n, j)].sequence < P[At(M, sd, n, k)].sequence
        BY DEF QueuesInOrder
    <2>1. From(sd, n, j) < From(sd, n, k)
        <3>1. Count(M, sd, n) \in Nat /\ Count(L, sd0, n0) \in Nat
            BY <1>3 DEF Typed
        <3>2. j \in Nat /\ k \in Nat /\ k0 \in Nat
            BY <3>1
        <3> QED BY <3>2
    <2> HIDE DEF From
    <2>2. O[At(M, sd, n, j)].sequence < O[At(M, sd, n, k)].sequence
        BY <1>5, <2>1 DEF QueuesInOrder
    <2>3. At(M, sd, n, j) \in 1..Len(O) /\ At(M, sd, n, k) \in 1..Len(O)
        BY <1>5 DEF WellPlaced
    <2> QED BY <1>1, <1>5, <2>2, <2>3
<1>8. ASSUME NEW s \in 1..Len(P), P[s].quantity > 0
      PROVE  Held(M, s)
    <2>1. s # s0 /\ s \in 1..Len(O) /\ O[s].quantity > 0
        BY <1>1, <1>8
    <2>a. PICK sd \in Side : \E n \in 1..Depth(L, sd) : \E k \in 1..Count(L, sd, n) :
                At(L, sd, n, k) = s
        BY <2>1 DEF Covered, Held
    <2>b. PICK n \in 1..Depth(L, sd) : \E k \in 1..Count(L, sd, n) : At(L, sd, n, k) = s
        BY <2>a
    <2>2. PICK k \in 1..Count(L, sd, n) : At(L, sd, n, k) = s
        BY <2>b
    <2>3. ~(sd = sd0 /\ n = n0 /\ k = k0)
        BY <2>1, <2>2 DEF s0
    <2> DEFINE to == IF sd = sd0 /\ n = n0 /\ k > k0 THEN k - 1 ELSE k
    <2>4. n \in 1..Depth(M, sd) /\ to \in 1..Count(M, sd, n) /\ From(sd, n, to) = k
        BY <2>2, <2>3 DEF OrderRemoved, Typed
    <2>5. At(M, sd, n, to) = s
        BY <1>5, <2>2, <2>4
    <2> QED BY <2>4, <2>5 DEF Held
<1> QED BY <1>3, <1>4, <1>6, <1>7, <1>8 DEF Covered

\* M is L without level n0 of side sd0.
LevelRemoved(L, M, sd0, n0) ==
    \A sd \in Side :
        /\ Depth(M, sd) = IF sd = sd0 THEN Depth(L, sd) - 1 ELSE Depth(L, sd)
        /\ \A n \in 1..Depth(M, sd) :
              LET m == IF sd = sd0 /\ n >= n0 THEN n + 1 ELSE n
              IN  /\ PriceAt(M, sd, n) = PriceAt(L, sd, m)
                  /\ Count(M, sd, n) = Count(L, sd, m)
                  /\ \A k \in 1..Count(M, sd, n) : At(M, sd, n, k) = At(L, sd, m, k)

\* DropLevel and CancelKnown: an empty level leaves its ladder.
LEMMA RemoveLevel ==
    ASSUME NEW L, NEW O, Consistent(L, O), NEW M,
           NEW sd0 \in Side, NEW n0 \in 1..Depth(L, sd0), Count(L, sd0, n0) = 0,
           LevelRemoved(L, M, sd0, n0)
    PROVE  Consistent(M, O)
<1> USE DEF Consistent
<1> DEFINE From(sd, n) == IF sd = sd0 /\ n >= n0 THEN n + 1 ELSE n
<1>1. \A sd \in Side : Depth(L, sd) \in Nat /\ Depth(M, sd) \in Nat
    <2>1. \A sd \in Side : Depth(L, sd) \in Nat
        BY DEF Typed
    <2>2. \A sd \in Side : sd # sd0 => Depth(M, sd) = Depth(L, sd)
        BY DEF LevelRemoved
    <2>3. Depth(M, sd0) = Depth(L, sd0) - 1
        BY DEF LevelRemoved
    <2>4. Depth(M, sd0) \in Nat
        BY <2>1, <2>3
    <2> QED BY <2>1, <2>2, <2>4
<1>2. ASSUME NEW sd \in Side, NEW n \in 1..Depth(M, sd)
      PROVE  /\ From(sd, n) \in 1..Depth(L, sd)
             /\ PriceAt(M, sd, n) = PriceAt(L, sd, From(sd, n))
             /\ Count(M, sd, n) = Count(L, sd, From(sd, n))
             /\ \A k \in 1..Count(M, sd, n) : At(M, sd, n, k) = At(L, sd, From(sd, n), k)
             /\ \A m \in 1..Depth(M, sd) : m < n => From(sd, m) < From(sd, n)
    BY <1>1 DEF LevelRemoved
<1>3. ASSUME NEW sd \in Side, NEW n \in 1..Depth(L, sd), ~(sd = sd0 /\ n = n0)
      PROVE  \E m \in 1..Depth(M, sd) : From(sd, m) = n
    <2>1. n \in Nat /\ n0 \in Nat /\ Depth(L, sd) \in Nat
        BY <1>1
    <2>2. Depth(M, sd0) = Depth(L, sd0) - 1
        BY DEF LevelRemoved
    <2>3. ASSUME sd = sd0, n > n0
          PROVE  n - 1 \in 1..Depth(M, sd) /\ From(sd, n - 1) = n
        BY ONLY <1>3, <2>1, <2>2, <2>3, n0 \in 1..Depth(L, sd0)
    <2>4. ASSUME sd # sd0
          PROVE  n \in 1..Depth(M, sd) /\ From(sd, n) = n
        <3>1. Depth(M, sd) = Depth(L, sd)
            BY <2>4 DEF LevelRemoved
        <3> QED BY ONLY <1>3, <2>4, <3>1
    <2>5. ASSUME sd = sd0, n < n0
          PROVE  n \in 1..Depth(M, sd) /\ From(sd, n) = n
        BY ONLY <1>3, <2>1, <2>2, <2>5, n0 \in 1..Depth(L, sd0)
    <2> HIDE DEF From
    <2> QED BY ONLY <1>3, <2>1, <2>3, <2>4, <2>5
<1> HIDE DEF From
<1>4. Typed(M, O)
    BY <1>1, <1>2 DEF Typed
<1>5. SortedLadders(M)
    BY <1>2 DEF SortedLadders
<1>6. WellPlaced(M, O)
    BY <1>2 DEF WellPlaced
<1>7. QueuesInOrder(M, O)
    BY <1>2 DEF QueuesInOrder
<1>8. ASSUME NEW s \in 1..Len(O), O[s].quantity > 0
      PROVE  Held(M, s)
    <2>1. PICK sd \in Side : \E n \in 1..Depth(L, sd) : \E k \in 1..Count(L, sd, n) :
                At(L, sd, n, k) = s
        BY <1>8 DEF Covered, Held
    <2>2. PICK n \in 1..Depth(L, sd) : \E k \in 1..Count(L, sd, n) : At(L, sd, n, k) = s
        BY <2>1
    <2>3. ~(sd = sd0 /\ n = n0)
        BY <2>2
    <2>4. PICK m \in 1..Depth(M, sd) : From(sd, m) = n
        BY <1>3, <2>3
    <2> QED BY <1>2, <2>2, <2>4 DEF Held
<1> QED BY <1>4, <1>5, <1>6, <1>7, <1>8 DEF Covered

\* M is L with an empty level of price p put in at index n0 of side sd0.
LevelInserted(L, M, sd0, n0, p) ==
    \A sd \in Side :
        /\ Depth(M, sd) = IF sd = sd0 THEN Depth(L, sd) + 1 ELSE Depth(L, sd)
        /\ \A n \in 1..Depth(M, sd) : ~(sd = sd0 /\ n = n0) =>
              LET m == IF sd = sd0 /\ n > n0 THEN n - 1 ELSE n
              IN  /\ PriceAt(M, sd, n) = PriceAt(L, sd, m)
                  /\ Count(M, sd, n) = Count(L, sd, m)
                  /\ \A k \in 1..Count(M, sd, n) : At(M, sd, n, k) = At(L, sd, m, k)
        /\ sd = sd0 => PriceAt(M, sd, n0) = p /\ Count(M, sd, n0) = 0

\* RestOrder: a level for a new price joins its ladder where the search says.
LEMMA InsertLevel ==
    ASSUME NEW L, NEW O, Consistent(L, O), NEW M,
           NEW sd0 \in Side, NEW n0 \in 1..(Depth(L, sd0) + 1), NEW p \in Int,
           \A n \in 1..Depth(L, sd0) :
              IF n < n0 THEN Better(sd0, PriceAt(L, sd0, n), p)
                        ELSE Better(sd0, p, PriceAt(L, sd0, n)),
           LevelInserted(L, M, sd0, n0, p)
    PROVE  Consistent(M, O)
<1> USE DEF Consistent
<1> DEFINE From(sd, n) == IF sd = sd0 /\ n > n0 THEN n - 1 ELSE n
<1> DEFINE New(sd, n) == sd = sd0 /\ n = n0
<1>1. \A sd \in Side : Depth(L, sd) \in Nat /\ Depth(M, sd) \in Nat
    <2>1. \A sd \in Side : Depth(L, sd) \in Nat
        BY DEF Typed
    <2>2. \A sd \in Side : sd # sd0 => Depth(M, sd) = Depth(L, sd)
        BY DEF LevelInserted
    <2>3. Depth(M, sd0) = Depth(L, sd0) + 1
        BY DEF LevelInserted
    <2>4. Depth(M, sd0) \in Nat
        BY <2>1, <2>3
    <2> QED BY <2>1, <2>2, <2>4
<1>2. ASSUME NEW sd \in Side, NEW n \in 1..Depth(M, sd), ~New(sd, n)
      PROVE  /\ From(sd, n) \in 1..Depth(L, sd)
             /\ PriceAt(M, sd, n) = PriceAt(L, sd, From(sd, n))
             /\ Count(M, sd, n) = Count(L, sd, From(sd, n))
             /\ \A k \in 1..Count(M, sd, n) : At(M, sd, n, k) = At(L, sd, From(sd, n), k)
    BY <1>1, <1>2 DEF LevelInserted
<1>3. ASSUME NEW sd \in Side, NEW n \in 1..Depth(M, sd), New(sd, n)
      PROVE  PriceAt(M, sd, n) = p /\ Count(M, sd, n) = 0
    BY <1>3 DEF LevelInserted
<1>4. ASSUME NEW sd \in Side, NEW n \in 1..Depth(L, sd)
      PROVE  \E m \in 1..Depth(M, sd) : ~New(sd, m) /\ From(sd, m) = n
    <2>1. ASSUME sd = sd0, n >= n0
          PROVE  n + 1 \in 1..Depth(M, sd) /\ ~New(sd, n + 1) /\ From(sd, n + 1) = n
        <3>1. n \in Nat /\ n0 \in Nat /\ n + 1 \in 1..Depth(L, sd0) + 1
            BY <1>1, <2>1
        <3>2. Depth(M, sd0) = Depth(L, sd0) + 1
            BY DEF LevelInserted
        <3> QED BY ONLY <2>1, <3>1, <3>2
    <2>2. ASSUME sd # sd0
          PROVE  n \in 1..Depth(M, sd) /\ ~New(sd, n) /\ From(sd, n) = n
        <3>1. Depth(M, sd) = Depth(L, sd)
            BY <2>2 DEF LevelInserted
        <3> QED BY ONLY <1>4, <2>2, <3>1
    <2>3. ASSUME sd = sd0, n < n0
          PROVE  n \in 1..Depth(M, sd) /\ ~New(sd, n) /\ From(sd, n) = n
        <3>1. n \in Nat /\ n0 \in Nat /\ n \in 1..Depth(L, sd0) + 1
            BY <1>1, <2>3
        <3>2. Depth(M, sd0) = Depth(L, sd0) + 1
            BY DEF LevelInserted
        <3> QED BY ONLY <2>3, <3>1, <3>2
    <2>4. n \in Nat /\ n0 \in Nat
        BY <1>1
    <2> HIDE DEF From, New
    <2> QED BY ONLY <2>1, <2>2, <2>3, <2>4
<1>5. SortedLadders(M)
    <2> SUFFICES ASSUME NEW sd \in Side, NEW m \in 1..Depth(M, sd), NEW n \in 1..Depth(M, sd), m < n
                 PROVE  Better(sd, PriceAt(M, sd, m), PriceAt(M, sd, n))
        BY DEF SortedLadders
    <2>1. CASE New(sd, m)
        <3>1. ~New(sd, n) /\ From(sd, n) \in 1..Depth(L, sd0) /\ ~(From(sd, n) < n0)
            BY <1>1, <1>2, <2>1
        <3> QED BY <1>2, <1>3, <2>1, <3>1
    <2>2. CASE New(sd, n)
        <3>1. ~New(sd, m) /\ From(sd, m) \in 1..Depth(L, sd0) /\ From(sd, m) < n0
            BY <1>1, <1>2, <2>2
        <3> QED BY <1>2, <1>3, <2>2, <3>1
    <2>3. CASE ~New(sd, m) /\ ~New(sd, n)
        <3>1. From(sd, m) < From(sd, n)
            BY <1>1, <2>3
        <3> HIDE DEF From, New
        <3> QED BY <1>2, <2>3, <3>1 DEF SortedLadders
    <2> QED BY <2>1, <2>2, <2>3
<1> HIDE DEF From, New
<1>6. Typed(M, O)
    <2>1. ASSUME NEW sd \in Side, NEW n \in 1..Depth(M, sd)
          PROVE  PriceAt(M, sd, n) \in Int /\ Count(M, sd, n) \in Nat
        <3>1. CASE New(sd, n)
            BY <1>3, <3>1
        <3>2. CASE ~New(sd, n)
            BY <1>2, <3>2 DEF Typed
        <3> QED BY <3>1, <3>2
    <2> QED BY <1>1, <2>1 DEF Typed
<1>7. WellPlaced(M, O)
    BY <1>2, <1>3 DEF WellPlaced
<1>8. QueuesInOrder(M, O)
    BY <1>2, <1>3 DEF QueuesInOrder
<1>9. ASSUME NEW s \in 1..Len(O), O[s].quantity > 0
      PROVE  Held(M, s)
    <2>1. PICK sd \in Side : \E n \in 1..Depth(L, sd) : \E k \in 1..Count(L, sd, n) :
                At(L, sd, n, k) = s
        BY <1>9 DEF Covered, Held
    <2>2. PICK n \in 1..Depth(L, sd) : \E k \in 1..Count(L, sd, n) : At(L, sd, n, k) = s
        BY <2>1
    <2>3. PICK m \in 1..Depth(M, sd) : ~New(sd, m) /\ From(sd, m) = n
        BY <1>4
    <2> QED BY <1>2, <2>2, <2>3 DEF Held
<1> QED BY <1>5, <1>6, <1>7, <1>8, <1>9 DEF Covered

\* M is L with slot s0 at the end of level n0 of side sd0.
OrderAppended(L, M, sd0, n0, s0) ==
    \A sd \in Side :
        /\ Depth(M, sd) = Depth(L, sd)
        /\ \A n \in 1..Depth(L, sd) :
              /\ PriceAt(M, sd, n) = PriceAt(L, sd, n)
              /\ Count(M, sd, n) = IF sd = sd0 /\ n = n0 THEN Count(L, sd, n) + 1
                                   ELSE Count(L, sd, n)
              /\ \A k \in 1..Count(L, sd, n) : At(M, sd, n, k) = At(L, sd, n, k)
              /\ sd = sd0 /\ n = n0 => At(M, sd, n, Count(L, sd, n) + 1) = s0

\* RestOrder: the youngest order, in a new or a dead slot, joins its level.
LEMMA AppendOrder ==
    ASSUME NEW L, NEW O, Consistent(L, O), NEW M,
           NEW sd0 \in Side, NEW n0 \in 1..Depth(L, sd0), NEW P, Len(P) \in Nat,
           NEW s0 \in 1..Len(P), OrderAppended(L, M, sd0, n0, s0),
           \A s \in 1..Len(O) : s \in 1..Len(P) /\ (s # s0 => P[s] = O[s]),
           \A s \in 1..Len(P) : s # s0 => s \in 1..Len(O),
           s0 \in 1..Len(O) => ~(O[s0].quantity > 0),
           P[s0].quantity \in Int, P[s0].quantity > 0, P[s0].sequence \in Nat,
           P[s0].side = sd0, P[s0].price = PriceAt(L, sd0, n0),
           \A s \in 1..Len(O) : O[s].sequence < P[s0].sequence
    PROVE  Consistent(M, P)
<1> USE DEF Consistent
<1> DEFINE New(sd, n, k) == sd = sd0 /\ n = n0 /\ k = Count(L, sd, n) + 1
<1>1. Typed(M, P)
    <2>1. ASSUME NEW s \in 1..Len(P)
          PROVE  P[s].quantity \in Int /\ P[s].sequence \in Nat
        BY DEF Typed
    <2>2. ASSUME NEW sd \in Side
          PROVE  /\ Depth(M, sd) \in Nat
                 /\ \A n \in 1..Depth(M, sd) : PriceAt(M, sd, n) \in Int /\ Count(M, sd, n) \in Nat
        <3>1. Depth(M, sd) = Depth(L, sd) /\ Depth(L, sd) \in Nat
            BY DEF OrderAppended, Typed
        <3>2. ASSUME NEW n \in 1..Depth(L, sd)
              PROVE  PriceAt(M, sd, n) \in Int /\ Count(M, sd, n) \in Nat
            <4>1. PriceAt(L, sd, n) \in Int /\ Count(L, sd, n) \in Nat
                BY DEF Typed
            <4>2. /\ PriceAt(M, sd, n) = PriceAt(L, sd, n)
                  /\ Count(M, sd, n) \in {Count(L, sd, n), Count(L, sd, n) + 1}
                BY DEF OrderAppended
            <4> QED BY <4>1, <4>2
        <3> QED BY <3>1, <3>2
    <2> QED BY <2>1, <2>2 DEF Typed
<1>2. SortedLadders(M)
    BY DEF SortedLadders, OrderAppended
<1>3. ASSUME NEW sd \in Side, NEW n \in 1..Depth(M, sd), NEW k \in 1..Count(M, sd, n)
      PROVE  /\ n \in 1..Depth(L, sd) /\ PriceAt(M, sd, n) = PriceAt(L, sd, n)
             /\ New(sd, n, k) => At(M, sd, n, k) = s0 /\ PriceAt(M, sd, n) = P[s0].price
             /\ ~New(sd, n, k) => /\ k \in 1..Count(L, sd, n)
                                 /\ At(M, sd, n, k) = At(L, sd, n, k)
    <2>1. /\ n \in 1..Depth(L, sd) /\ PriceAt(M, sd, n) = PriceAt(L, sd, n)
          /\ Count(M, sd, n) = IF sd = sd0 /\ n = n0 THEN Count(L, sd, n) + 1
                               ELSE Count(L, sd, n)
        BY DEF OrderAppended
    <2>2. Count(L, sd, n) \in Nat
        BY <2>1 DEF Typed
    <2>3. CASE New(sd, n, k)
        <3>1. At(M, sd0, n0, Count(L, sd0, n0) + 1) = s0
            BY DEF OrderAppended
        <3> QED BY <2>1, <2>3, <3>1
    <2>4. CASE ~New(sd, n, k)
        <3>1. k \in 1..Count(L, sd, n)
            BY <2>1, <2>2, <2>4
        <3>2. At(M, sd, n, k) = At(L, sd, n, k)
            BY <2>1, <3>1 DEF OrderAppended
        <3> QED BY <2>1, <2>4, <3>1, <3>2
    <2> QED BY <2>3, <2>4
<1>4. ASSUME NEW sd \in Side, NEW n \in 1..Depth(L, sd), NEW k \in 1..Count(L, sd, n)
      PROVE  LET s == At(L, sd, n, k)
             IN  s \in 1..Len(O) /\ s \in 1..Len(P) /\ s # s0 /\ P[s] = O[s]
    BY DEF WellPlaced
<1>5. \A sd \in Side : \A n \in 1..Depth(M, sd) : \A j, k \in 1..Count(M, sd, n) :
          j < k => ~New(sd, n, j)
    BY DEF OrderAppended, Typed
<1> HIDE DEF New
<1>6. WellPlaced(M, P)
    <2> SUFFICES ASSUME NEW sd \in Side, NEW n \in 1..Depth(M, sd), NEW k \in 1..Count(M, sd, n)
                 PROVE  /\ At(M, sd, n, k) \in 1..Len(P)
                        /\ P[At(M, sd, n, k)].quantity > 0
                        /\ P[At(M, sd, n, k)].side = sd
                        /\ P[At(M, sd, n, k)].price = PriceAt(M, sd, n)
        BY DEF WellPlaced
    <2>1. CASE New(sd, n, k)
        BY <1>3, <2>1 DEF New
    <2>2. CASE ~New(sd, n, k)
        BY <1>3, <1>4, <2>2 DEF WellPlaced
    <2> QED BY <2>1, <2>2
<1>7. QueuesInOrder(M, P)
    <2> SUFFICES ASSUME NEW sd \in Side, NEW n \in 1..Depth(M, sd),
                        NEW j \in 1..Count(M, sd, n), NEW k \in 1..Count(M, sd, n), j < k
                 PROVE  P[At(M, sd, n, j)].sequence < P[At(M, sd, n, k)].sequence
        BY DEF QueuesInOrder
    <2>1. ~New(sd, n, j)
        BY <1>5
    <2>2. CASE New(sd, n, k)
        <3>1. /\ n \in 1..Depth(L, sd) /\ At(M, sd, n, k) = s0
              /\ j \in 1..Count(L, sd, n) /\ At(M, sd, n, j) = At(L, sd, n, j)
            BY <1>3, <2>1, <2>2
        <3>2. At(L, sd, n, j) \in 1..Len(O) /\ P[At(L, sd, n, j)] = O[At(L, sd, n, j)]
            BY <1>4, <3>1
        <3>3. O[At(L, sd, n, j)].sequence < P[s0].sequence
            BY <3>2
        <3> QED BY <3>1, <3>2, <3>3
    <2>3. CASE ~New(sd, n, k)
        <3>1. /\ n \in 1..Depth(L, sd)
              /\ j \in 1..Count(L, sd, n) /\ At(M, sd, n, j) = At(L, sd, n, j)
              /\ k \in 1..Count(L, sd, n) /\ At(M, sd, n, k) = At(L, sd, n, k)
            BY <1>3, <2>1, <2>3
        <3>2. O[At(L, sd, n, j)].sequence < O[At(L, sd, n, k)].sequence
            BY <3>1 DEF QueuesInOrder
        <3>3. P[At(L, sd, n, j)] = O[At(L, sd, n, j)] /\ P[At(L, sd, n, k)] = O[At(L, sd, n, k)]
            BY <1>4, <3>1
        <3> QED BY <3>1, <3>2, <3>3
    <2> QED BY <2>2, <2>3
<1>8. ASSUME NEW s \in 1..Len(P), P[s].quantity > 0
      PROVE  Held(M, s)
    <2>1. CASE s = s0
        <3>1. Count(L, sd0, n0) + 1 \in 1..Count(M, sd0, n0) /\ n0 \in 1..Depth(M, sd0)
            BY DEF OrderAppended, Typed
        <3>2. At(M, sd0, n0, Count(L, sd0, n0) + 1) = s
            BY <2>1 DEF OrderAppended
        <3> QED BY <3>1, <3>2 DEF Held
    <2>2. CASE s # s0
        <3>1. s \in 1..Len(O) /\ O[s].quantity > 0
            BY <1>8, <2>2
        <3>2. PICK sd \in Side : \E n \in 1..Depth(L, sd) : \E k \in 1..Count(L, sd, n) :
                    At(L, sd, n, k) = s
            BY <3>1 DEF Covered, Held
        <3>3. PICK n \in 1..Depth(L, sd) : \E k \in 1..Count(L, sd, n) : At(L, sd, n, k) = s
            BY <3>2
        <3>4. PICK k \in 1..Count(L, sd, n) : At(L, sd, n, k) = s
            BY <3>3
        <3>5. n \in 1..Depth(M, sd) /\ At(M, sd, n, k) = s
            BY <3>4 DEF OrderAppended
        <3>6. k \in 1..Count(M, sd, n)
            <4>1. Count(L, sd, n) \in Nat
                BY DEF Typed
            <4>2. Count(M, sd, n) \in {Count(L, sd, n), Count(L, sd, n) + 1}
                BY DEF OrderAppended
            <4> QED BY <4>1, <4>2
        <3> QED BY <3>5, <3>6 DEF Held
    <2> QED BY <2>1, <2>2
<1> QED BY <1>1, <1>2, <1>6, <1>7, <1>8 DEF Covered

----------------------------------------------------------------------------
(* From the EXCEPTs of the actions to the edits. *)

WithSide(L, sd0, lv) == [L EXCEPT ![sd0] = lv]
EditedLevel(lv, n0, o, t) == [lv EXCEPT ![n0].orders = o, ![n0].totalQuantity = t]
Edited(L, sd0, n0, o, t) == [L EXCEPT ![sd0][n0].orders = o, ![sd0][n0].totalQuantity = t]
Retotalled(L, sd0, n0, t) == [L EXCEPT ![sd0][n0].totalQuantity = t]
Requantified(O, s0, q) == [O EXCEPT ![s0].quantity = q]

LEMMA LevelFacts ==
    ASSUME NEW lv \in Seq(PriceLevel), NEW n \in 1..Len(lv)
    PROVE  /\ lv[n] \in PriceLevel
           /\ lv[n].price \in Int /\ lv[n].totalQuantity \in Int
           /\ lv[n].orders \in Seq(Nat \ {0})
           /\ Len(lv[n].orders) \in Nat
<1>1. lv[n] \in PriceLevel
    BY ElementOfSeq
<1>2. lv[n].orders \in Seq(Nat \ {0})
    BY <1>1 DEF PriceLevel
<1>3. Len(lv[n].orders) \in Nat
    BY <1>2, LenProperties
<1> QED BY <1>1, <1>2, <1>3 DEF PriceLevel

LEMMA WithSideProps ==
    ASSUME NEW L \in [Side -> Seq(PriceLevel)], NEW sd0 \in Side, NEW lv \in Seq(PriceLevel)
    PROVE  /\ WithSide(L, sd0, lv) \in [Side -> Seq(PriceLevel)]
           /\ WithSide(L, sd0, lv)[sd0] = lv
           /\ \A sd \in Side : sd # sd0 => WithSide(L, sd0, lv)[sd] = L[sd]
           /\ \A lw : WithSide(WithSide(L, sd0, lv), sd0, lw) = WithSide(L, sd0, lw)
BY DEF WithSide

LEMMA EditedLevelProps ==
    ASSUME NEW lv \in Seq(PriceLevel), NEW n0 \in 1..Len(lv),
           NEW o \in Seq(Nat \ {0}), NEW t \in Int
    PROVE  /\ EditedLevel(lv, n0, o, t) \in Seq(PriceLevel)
           /\ Len(EditedLevel(lv, n0, o, t)) = Len(lv)
           /\ \A n \in 1..Len(lv) :
                 /\ EditedLevel(lv, n0, o, t)[n].price = lv[n].price
                 /\ EditedLevel(lv, n0, o, t)[n].orders = IF n = n0 THEN o ELSE lv[n].orders
<1> DEFINE f == [lv[n0] EXCEPT !.orders = o]
           e == [f EXCEPT !.totalQuantity = t]
<1>1. lv[n0] \in PriceLevel
    BY ElementOfSeq
<1>2. lv \in [1..Len(lv) -> PriceLevel]
    BY LenProperties
<1>3. e \in PriceLevel /\ e.orders = o /\ e.price = lv[n0].price
    BY <1>1 DEF PriceLevel
<1>4. [lv EXCEPT ![n0].orders = o] = [lv EXCEPT ![n0] = f]
    OBVIOUS
<1>5. EditedLevel(lv, n0, o, t) = [[lv EXCEPT ![n0].orders = o] EXCEPT ![n0].totalQuantity = t]
    BY DEF EditedLevel
<1> HIDE DEF f
<1>6. [[lv EXCEPT ![n0] = f] EXCEPT ![n0].totalQuantity = t] = [lv EXCEPT ![n0] = e]
    BY <1>2
<1> HIDE DEF e
<1>7. /\ [lv EXCEPT ![n0] = e] \in Seq(PriceLevel)
      /\ Len([lv EXCEPT ![n0] = e]) = Len(lv)
      /\ \A n \in 1..Len(lv) : [lv EXCEPT ![n0] = e][n] = IF n = n0 THEN e ELSE lv[n]
    BY <1>3, ExceptSeq
<1>8. EditedLevel(lv, n0, o, t) = [lv EXCEPT ![n0] = e]
    BY <1>4, <1>5, <1>6
<1> QED BY <1>3, <1>7, <1>8

LEMMA EditedIsOneSide ==
    ASSUME NEW L \in [Side -> Seq(PriceLevel)], NEW sd0 \in Side, NEW n0 \in 1..Len(L[sd0]),
           NEW o, NEW t
    PROVE  Edited(L, sd0, n0, o, t) = WithSide(L, sd0, EditedLevel(L[sd0], n0, o, t))
<1> DEFINE lv == [L[sd0] EXCEPT ![n0].orders = o]
<1>1. [L EXCEPT ![sd0][n0].orders = o] = [L EXCEPT ![sd0] = lv]
    OBVIOUS
<1>2. Edited(L, sd0, n0, o, t)
        = [[L EXCEPT ![sd0][n0].orders = o] EXCEPT ![sd0][n0].totalQuantity = t]
    BY DEF Edited
<1>3. EditedLevel(L[sd0], n0, o, t) = [lv EXCEPT ![n0].totalQuantity = t]
    BY DEF EditedLevel
<1> HIDE DEF lv
<1>4. [[L EXCEPT ![sd0] = lv] EXCEPT ![sd0][n0].totalQuantity = t]
        = [L EXCEPT ![sd0] = [lv EXCEPT ![n0].totalQuantity = t]]
    OBVIOUS
<1> QED BY <1>1, <1>2, <1>3, <1>4 DEF WithSide

\* PartialFill changes the total of a level and no place of an order.
LEMMA RetotalledProps ==
    ASSUME NEW L \in [Side -> Seq(PriceLevel)], NEW sd0 \in Side, NEW n0 \in 1..Len(L[sd0]),
           NEW t \in Int
    PROVE  /\ Retotalled(L, sd0, n0, t) \in [Side -> Seq(PriceLevel)]
           /\ SameShape(L, Retotalled(L, sd0, n0, t))
<1> DEFINE e == [L[sd0][n0] EXCEPT !.totalQuantity = t]
           lv == [L[sd0] EXCEPT ![n0] = e]
<1>1. L[sd0] \in Seq(PriceLevel)
    OBVIOUS
<1>2. e \in PriceLevel /\ e.orders = L[sd0][n0].orders /\ e.price = L[sd0][n0].price
    <2>1. L[sd0][n0] \in PriceLevel
        BY <1>1, ElementOfSeq
    <2> QED BY <2>1 DEF PriceLevel
<1>3. Retotalled(L, sd0, n0, t) = WithSide(L, sd0, lv)
    BY DEF Retotalled, WithSide
<1> HIDE DEF e
<1>4. /\ lv \in Seq(PriceLevel) /\ Len(lv) = Len(L[sd0])
      /\ \A n \in 1..Len(L[sd0]) : lv[n] = IF n = n0 THEN e ELSE L[sd0][n]
    BY <1>1, <1>2, ExceptSeq
<1> HIDE DEF lv
<1>5. /\ WithSide(L, sd0, lv) \in [Side -> Seq(PriceLevel)]
      /\ WithSide(L, sd0, lv)[sd0] = lv
      /\ \A sd \in Side : sd # sd0 => WithSide(L, sd0, lv)[sd] = L[sd]
    BY <1>4, WithSideProps
<1> DEFINE M == WithSide(L, sd0, lv)
<1> HIDE DEF M
<1>6. ASSUME NEW sd \in Side
      PROVE  /\ Len(M[sd]) = Len(L[sd])
             /\ \A n \in 1..Len(L[sd]) :
                   M[sd][n].price = L[sd][n].price /\ M[sd][n].orders = L[sd][n].orders
    BY <1>2, <1>4, <1>5 DEF M
<1>7. SameShape(L, M)
    BY <1>6 DEF SameShape, Depth, PriceAt, Count, At
<1> QED BY <1>3, <1>5, <1>7 DEF M

\* FullFill, and CancelKnown's Dequeued.
RemovesFromLevel(L, sd0, n0, k0, t) ==
    LET lv == EditedLevel(L[sd0], n0, RemoveAt(L[sd0][n0].orders, k0), t)
    IN  /\ WithSide(L, sd0, lv) \in [Side -> Seq(PriceLevel)]
        /\ OrderRemoved(L, WithSide(L, sd0, lv), sd0, n0, k0)

LEMMA RemovedFromLevel ==
    ASSUME NEW L \in [Side -> Seq(PriceLevel)], NEW sd0 \in Side, NEW n0 \in 1..Len(L[sd0]),
           NEW k0 \in 1..Len(L[sd0][n0].orders), NEW t \in Int
    PROVE  RemovesFromLevel(L, sd0, n0, k0, t)
<1> DEFINE old == L[sd0][n0].orders
           new == RemoveAt(old, k0)
           lv == EditedLevel(L[sd0], n0, new, t)
           M == WithSide(L, sd0, lv)
<1>1. L[sd0] \in Seq(PriceLevel)
    OBVIOUS
<1>2. old \in Seq(Nat \ {0})
    BY <1>1, LevelFacts
<1>3. /\ new \in Seq(Nat \ {0}) /\ Len(new) = Len(old) - 1
      /\ \A k \in 1..(Len(old) - 1) : new[k] = IF k < k0 THEN old[k] ELSE old[k + 1]
    BY <1>2, RemoveAtProps
<1> HIDE DEF new
<1>4. /\ lv \in Seq(PriceLevel) /\ Len(lv) = Len(L[sd0])
      /\ \A n \in 1..Len(L[sd0]) :
            /\ lv[n].price = L[sd0][n].price
            /\ lv[n].orders = IF n = n0 THEN new ELSE L[sd0][n].orders
    BY <1>1, <1>3, EditedLevelProps
<1> HIDE DEF lv
<1>5. /\ M \in [Side -> Seq(PriceLevel)] /\ M[sd0] = lv
      /\ \A sd \in Side : sd # sd0 => M[sd] = L[sd]
    BY <1>4, WithSideProps
<1> HIDE DEF M
<1>6. ASSUME NEW sd \in Side, NEW n \in 1..Len(L[sd])
      PROVE  /\ M[sd][n].price = L[sd][n].price
             /\ Len(M[sd][n].orders) = IF sd = sd0 /\ n = n0 THEN Len(L[sd][n].orders) - 1
                                       ELSE Len(L[sd][n].orders)
             /\ \A k \in 1..Len(M[sd][n].orders) :
                   M[sd][n].orders[k] = IF sd = sd0 /\ n = n0 /\ k >= k0
                                        THEN L[sd][n].orders[k + 1] ELSE L[sd][n].orders[k]
    <2>1. CASE sd = sd0 /\ n = n0
        <3>1. M[sd][n].price = L[sd][n].price /\ M[sd][n].orders = new
            BY <1>4, <1>5, <2>1
        <3>2. \A k \in 1..Len(new) : new[k] = IF k >= k0 THEN old[k + 1] ELSE old[k]
            BY <1>3
        <3> QED BY <1>3, <2>1, <3>1, <3>2
    <2>2. CASE ~(sd = sd0 /\ n = n0)
        <3>1. M[sd][n].price = L[sd][n].price /\ M[sd][n].orders = L[sd][n].orders
            BY <1>4, <1>5, <2>2
        <3> QED BY <2>2, <3>1
    <2> QED BY <2>1, <2>2
<1>7. \A sd \in Side : Len(M[sd]) = Len(L[sd])
    BY <1>4, <1>5
<1>8. OrderRemoved(L, M, sd0, n0, k0)
    BY <1>6, <1>7 DEF OrderRemoved, Depth, PriceAt, Count, At
<1> QED BY <1>5, <1>8 DEF RemovesFromLevel, M, lv, new

\* RestOrder's Append to the level.
LEMMA AppendedToLevel ==
    ASSUME NEW L \in [Side -> Seq(PriceLevel)], NEW sd0 \in Side, NEW n0 \in 1..Len(L[sd0]),
           NEW s0 \in Nat \ {0}, NEW t \in Int,
           NEW lv, lv = EditedLevel(L[sd0], n0, Append(L[sd0][n0].orders, s0), t)
    PROVE  /\ lv \in Seq(PriceLevel)
           /\ WithSide(L, sd0, lv) \in [Side -> Seq(PriceLevel)]
           /\ OrderAppended(L, WithSide(L, sd0, lv), sd0, n0, s0)
<1> DEFINE old == L[sd0][n0].orders
           new == Append(old, s0)
           M == WithSide(L, sd0, lv)
<1>1. L[sd0] \in Seq(PriceLevel)
    OBVIOUS
<1>2. old \in Seq(Nat \ {0})
    BY <1>1, LevelFacts
<1>3. /\ new \in Seq(Nat \ {0}) /\ Len(new) = Len(old) + 1
      /\ \A k \in 1..Len(old) : new[k] = old[k]
      /\ new[Len(old) + 1] = s0
    BY <1>2, AppendProperties
<1> HIDE DEF new
<1>a. lv = EditedLevel(L[sd0], n0, new, t)
    BY DEF new
<1>4. /\ lv \in Seq(PriceLevel) /\ Len(lv) = Len(L[sd0])
      /\ \A n \in 1..Len(L[sd0]) :
            /\ lv[n].price = L[sd0][n].price
            /\ lv[n].orders = IF n = n0 THEN new ELSE L[sd0][n].orders
    BY <1>1, <1>3, <1>a, EditedLevelProps
<1>5. /\ M \in [Side -> Seq(PriceLevel)] /\ M[sd0] = lv
      /\ \A sd \in Side : sd # sd0 => M[sd] = L[sd]
    BY <1>4, WithSideProps
<1> HIDE DEF M
<1>6. ASSUME NEW sd \in Side, NEW n \in 1..Len(L[sd])
      PROVE  /\ M[sd][n].price = L[sd][n].price
             /\ Len(M[sd][n].orders) = IF sd = sd0 /\ n = n0 THEN Len(L[sd][n].orders) + 1
                                       ELSE Len(L[sd][n].orders)
             /\ \A k \in 1..Len(L[sd][n].orders) : M[sd][n].orders[k] = L[sd][n].orders[k]
             /\ sd = sd0 /\ n = n0 => M[sd][n].orders[Len(L[sd][n].orders) + 1] = s0
    <2>1. CASE sd = sd0 /\ n = n0
        <3>1. M[sd][n].price = L[sd][n].price /\ M[sd][n].orders = new
            BY <1>4, <1>5, <2>1
        <3> QED BY <1>3, <2>1, <3>1
    <2>2. CASE ~(sd = sd0 /\ n = n0)
        <3>1. M[sd][n].price = L[sd][n].price /\ M[sd][n].orders = L[sd][n].orders
            BY <1>4, <1>5, <2>2
        <3> QED BY <2>2, <3>1
    <2> QED BY <2>1, <2>2
<1>7. \A sd \in Side : Len(M[sd]) = Len(L[sd])
    BY <1>4, <1>5
<1>8. OrderAppended(L, M, sd0, n0, s0)
    BY <1>6, <1>7 DEF OrderAppended, Depth, PriceAt, Count, At
<1> QED BY <1>4, <1>5, <1>8 DEF M

\* DropIfEmpty, and DropLevel's Tail.
LEMMA RemovedFromLadder ==
    ASSUME NEW L \in [Side -> Seq(PriceLevel)], NEW sd0 \in Side, NEW n0 \in 1..Len(L[sd0]),
           NEW lv, lv = RemoveAt(L[sd0], n0) \/ (lv = Tail(L[sd0]) /\ n0 = 1)
    PROVE  /\ lv \in Seq(PriceLevel)
           /\ WithSide(L, sd0, lv) \in [Side -> Seq(PriceLevel)]
           /\ LevelRemoved(L, WithSide(L, sd0, lv), sd0, n0)
<1> DEFINE M == WithSide(L, sd0, lv)
<1>1. L[sd0] \in Seq(PriceLevel) /\ Len(L[sd0]) \in Nat
    BY LenProperties
<1>2. /\ lv \in Seq(PriceLevel) /\ Len(lv) = Len(L[sd0]) - 1
      /\ \A n \in 1..(Len(L[sd0]) - 1) : lv[n] = IF n >= n0 THEN L[sd0][n + 1] ELSE L[sd0][n]
    <2>1. CASE lv = RemoveAt(L[sd0], n0)
        <3>1. /\ lv \in Seq(PriceLevel) /\ Len(lv) = Len(L[sd0]) - 1
              /\ \A n \in 1..(Len(L[sd0]) - 1) :
                    lv[n] = IF n < n0 THEN L[sd0][n] ELSE L[sd0][n + 1]
            BY <1>1, <2>1, RemoveAtProps
        <3>2. \A n \in 1..(Len(L[sd0]) - 1) : n < n0 <=> ~(n >= n0)
            BY <1>1
        <3> QED BY <3>1, <3>2
    <2>2. CASE lv = Tail(L[sd0]) /\ n0 = 1
        <3>1. L[sd0] # <<>>
            BY <1>1, EmptySeq
        <3>2. /\ Tail(L[sd0]) \in Seq(PriceLevel) /\ Len(Tail(L[sd0])) = Len(L[sd0]) - 1
              /\ \A n \in 1..Len(Tail(L[sd0])) : Tail(L[sd0])[n] = L[sd0][n + 1]
            BY <1>1, <3>1, HeadTailProperties
        <3> QED BY <1>1, <2>2, <3>2
    <2> QED BY <2>1, <2>2
<1>3. /\ M \in [Side -> Seq(PriceLevel)] /\ M[sd0] = lv
      /\ \A sd \in Side : sd # sd0 => M[sd] = L[sd]
    BY <1>2, WithSideProps
<1> HIDE DEF M
<1>4. ASSUME NEW sd \in Side
      PROVE  /\ Len(M[sd]) = IF sd = sd0 THEN Len(L[sd]) - 1 ELSE Len(L[sd])
             /\ \A n \in 1..Len(M[sd]) :
                   M[sd][n] = IF sd = sd0 /\ n >= n0 THEN L[sd][n + 1] ELSE L[sd][n]
    BY <1>1, <1>2, <1>3
<1>5. LevelRemoved(L, M, sd0, n0)
    <2> SUFFICES ASSUME NEW sd \in Side
                 PROVE  /\ Depth(M, sd) = IF sd = sd0 THEN Depth(L, sd) - 1 ELSE Depth(L, sd)
                        /\ \A n \in 1..Depth(M, sd) :
                              LET m == IF sd = sd0 /\ n >= n0 THEN n + 1 ELSE n
                              IN  /\ PriceAt(M, sd, n) = PriceAt(L, sd, m)
                                  /\ Count(M, sd, n) = Count(L, sd, m)
                                  /\ \A k \in 1..Count(M, sd, n) : At(M, sd, n, k) = At(L, sd, m, k)
        BY DEF LevelRemoved
    <2>1. \A n \in 1..Depth(M, sd) : M[sd][n] = L[sd][IF sd = sd0 /\ n >= n0 THEN n + 1 ELSE n]
        BY <1>4 DEF Depth
    <2> QED BY <1>4, <2>1 DEF Depth, PriceAt, Count, At
<1> QED BY <1>2, <1>3, <1>5 DEF M

\* WithLevel's InsertAt.
LEMMA InsertedInLadder ==
    ASSUME NEW L \in [Side -> Seq(PriceLevel)], NEW sd0 \in Side, NEW n0 \in 1..(Len(L[sd0]) + 1),
           NEW p \in Int, NEW lv,
           lv = InsertAt(L[sd0], n0, [price |-> p, totalQuantity |-> 0, orders |-> <<>>])
    PROVE  /\ lv \in Seq(PriceLevel)
           /\ WithSide(L, sd0, lv) \in [Side -> Seq(PriceLevel)]
           /\ LevelInserted(L, WithSide(L, sd0, lv), sd0, n0, p)
<1> DEFINE M == WithSide(L, sd0, lv)
           e == [price |-> p, totalQuantity |-> 0, orders |-> <<>>]
<1>1. L[sd0] \in Seq(PriceLevel) /\ Len(L[sd0]) \in Nat
    BY LenProperties
<1>2. e \in PriceLevel /\ e.price = p /\ e.orders = <<>>
    BY DEF PriceLevel
<1> HIDE DEF e
<1>3. /\ lv \in Seq(PriceLevel) /\ Len(lv) = Len(L[sd0]) + 1
      /\ \A n \in 1..(Len(L[sd0]) + 1) :
            lv[n] = IF n < n0 THEN L[sd0][n] ELSE IF n = n0 THEN e ELSE L[sd0][n - 1]
    BY <1>1, <1>2, InsertAtProps DEF e
<1>4. /\ M \in [Side -> Seq(PriceLevel)] /\ M[sd0] = lv
      /\ \A sd \in Side : sd # sd0 => M[sd] = L[sd]
    BY <1>3, WithSideProps
<1> HIDE DEF M
<1>5. ASSUME NEW sd \in Side
      PROVE  /\ Len(M[sd]) = IF sd = sd0 THEN Len(L[sd]) + 1 ELSE Len(L[sd])
             /\ \A n \in 1..Len(M[sd]) : ~(sd = sd0 /\ n = n0) =>
                   M[sd][n] = L[sd][IF sd = sd0 /\ n > n0 THEN n - 1 ELSE n]
             /\ sd = sd0 => M[sd][n0] = e
    BY <1>1, <1>3, <1>4
<1>6. Len(e.orders) = 0
    BY <1>2
<1>7. LevelInserted(L, M, sd0, n0, p)
    <2> SUFFICES ASSUME NEW sd \in Side
                 PROVE  /\ Depth(M, sd) = IF sd = sd0 THEN Depth(L, sd) + 1 ELSE Depth(L, sd)
                        /\ \A n \in 1..Depth(M, sd) : ~(sd = sd0 /\ n = n0) =>
                              LET m == IF sd = sd0 /\ n > n0 THEN n - 1 ELSE n
                              IN  /\ PriceAt(M, sd, n) = PriceAt(L, sd, m)
                                  /\ Count(M, sd, n) = Count(L, sd, m)
                                  /\ \A k \in 1..Count(M, sd, n) : At(M, sd, n, k) = At(L, sd, m, k)
                        /\ sd = sd0 => PriceAt(M, sd, n0) = p /\ Count(M, sd, n0) = 0
        BY DEF LevelInserted
    <2> QED BY <1>2, <1>5, <1>6 DEF Depth, PriceAt, Count, At
<1> QED BY <1>3, <1>4, <1>7 DEF M

\* Storage: one order gets another quantity.
LEMMA RequantifiedProps ==
    ASSUME NEW O \in Seq(Order), NEW s0 \in 1..Len(O), NEW q \in Int
    PROVE  /\ Requantified(O, s0, q) \in Seq(Order)
           /\ Len(Requantified(O, s0, q)) = Len(O)
           /\ \A s \in 1..Len(O) : s # s0 => Requantified(O, s0, q)[s] = O[s]
           /\ Requantified(O, s0, q)[s0].quantity = q
           /\ Requantified(O, s0, q)[s0].side = O[s0].side
           /\ Requantified(O, s0, q)[s0].price = O[s0].price
           /\ Requantified(O, s0, q)[s0].sequence = O[s0].sequence
           /\ Requantified(O, s0, q)[s0].userId = O[s0].userId
           /\ Requantified(O, s0, q)[s0].userOrderId = O[s0].userOrderId
<1> DEFINE o == [O[s0] EXCEPT !.quantity = q]
<1>1. O[s0] \in Order
    BY ElementOfSeq
<1>2. /\ o \in Order /\ o.quantity = q /\ o.side = O[s0].side /\ o.price = O[s0].price
      /\ o.sequence = O[s0].sequence /\ o.userId = O[s0].userId
      /\ o.userOrderId = O[s0].userOrderId
    BY <1>1 DEF Order
<1>3. Requantified(O, s0, q) = [O EXCEPT ![s0] = o]
    BY DEF Requantified
<1> HIDE DEF o
<1>4. /\ [O EXCEPT ![s0] = o] \in Seq(Order) /\ Len([O EXCEPT ![s0] = o]) = Len(O)
      /\ \A s \in 1..Len(O) : [O EXCEPT ![s0] = o][s] = IF s = s0 THEN o ELSE O[s]
    BY <1>2, ExceptSeq
<1> QED BY <1>2, <1>3, <1>4

\* Well-typed ladders and storage are Typed.
LEMMA TypedFacts ==
    ASSUME NEW L \in [Side -> Seq(PriceLevel)], NEW O \in Seq(Order)
    PROVE  Typed(L, O)
<1>1. \A sd \in Side : L[sd] \in Seq(PriceLevel) /\ Len(L[sd]) \in Nat
    BY LenProperties
<1>2. \A sd \in Side : \A n \in 1..Len(L[sd]) :
          L[sd][n].price \in Int /\ Len(L[sd][n].orders) \in Nat
    BY <1>1, LevelFacts
<1>3. Len(O) \in Nat /\ \A s \in 1..Len(O) : O[s] \in Order
    BY LenProperties, ElementOfSeq
<1>4. \A s \in 1..Len(O) : O[s].quantity \in Int /\ O[s].sequence \in Nat
    BY <1>3 DEF Order
<1> QED BY <1>1, <1>2, <1>3, <1>4 DEF Typed, Depth, PriceAt, Count

----------------------------------------------------------------------------
(* The ladder after a cancel, and after an order that rests. *)

NoEmptyLevel(L) ==
    \A sd \in Side : \A n \in 1..Depth(L, sd) : Count(L, sd, n) # 0

LEMMA NoEmptyAfterRemove ==
    ASSUME NEW L, NEW O, Typed(L, O), NEW M,
           NEW sd0 \in Side, NEW n0 \in 1..Depth(L, sd0), LevelRemoved(L, M, sd0, n0),
           \A sd \in Side : \A n \in 1..Depth(L, sd) :
               Count(L, sd, n) = 0 => sd = sd0 /\ n = n0
    PROVE  NoEmptyLevel(M)
<1> SUFFICES ASSUME NEW sd \in Side, NEW n \in 1..Depth(M, sd)
             PROVE  Count(M, sd, n) # 0
    BY DEF NoEmptyLevel
<1> DEFINE m == IF sd = sd0 /\ n >= n0 THEN n + 1 ELSE n
<1>1. Count(M, sd, n) = Count(L, sd, m)
    BY DEF LevelRemoved
<1>2. Depth(M, sd) = IF sd = sd0 THEN Depth(L, sd) - 1 ELSE Depth(L, sd)
    BY DEF LevelRemoved
<1>3. Depth(L, sd) \in Nat
    BY DEF Typed
<1>4. m \in 1..Depth(L, sd) /\ ~(sd = sd0 /\ m = n0)
    BY <1>2, <1>3
<1> HIDE DEF m
<1> QED BY <1>1, <1>4

\* The loop of processCancel takes one order of the level out.
TakesOut(L, sd0, n0, s0, q) ==
    LET K == WithSide(L, sd0, Dequeued(L[sd0], n0, s0, q))
    IN  /\ K \in [Side -> Seq(PriceLevel)]
        /\ \E k0 \in 1..Len(L[sd0][n0].orders) :
              /\ L[sd0][n0].orders[k0] = s0 /\ OrderRemoved(L, K, sd0, n0, k0)
              /\ Dequeued(L[sd0], n0, s0, q)
                   = EditedLevel(L[sd0], n0, RemoveAt(L[sd0][n0].orders, k0),
                                 Int64(L[sd0][n0].totalQuantity - q))

LEMMA DequeuedProps ==
    ASSUME NEW L \in [Side -> Seq(PriceLevel)], NEW sd0 \in Side, NEW n0 \in 1..Len(L[sd0]),
           NEW s0, \E k \in 1..Len(L[sd0][n0].orders) : L[sd0][n0].orders[k] = s0,
           NEW q \in Int
    PROVE  TakesOut(L, sd0, n0, s0, q)
<1>1. Int64(L[sd0][n0].totalQuantity - q) \in Int
    <2>1. L[sd0][n0].totalQuantity \in Int
        BY LevelFacts
    <2>2. L[sd0][n0].totalQuantity - q \in Int
        BY <2>1
    <2> QED BY <2>2, Int64Type
<1>2. \A k \in 1..Len(L[sd0][n0].orders) : \A t \in Int : RemovesFromLevel(L, sd0, n0, k, t)
    BY RemovedFromLevel
<1> DEFINE k0 == CHOOSE k \in 1..Len(L[sd0][n0].orders) : L[sd0][n0].orders[k] = s0
           t0 == Int64(L[sd0][n0].totalQuantity - q)
<1>3. k0 \in 1..Len(L[sd0][n0].orders) /\ L[sd0][n0].orders[k0] = s0
    OBVIOUS
<1>4. Dequeued(L[sd0], n0, s0, q)
        = EditedLevel(L[sd0], n0, RemoveAt(L[sd0][n0].orders, k0), t0)
    BY DEF Dequeued, EditedLevel
<1>5. t0 \in Int
    BY <1>1
<1>7. t0 = Int64(L[sd0][n0].totalQuantity - q)
    OBVIOUS
<1> HIDE DEF k0, t0
<1>6. /\ WithSide(L, sd0, Dequeued(L[sd0], n0, s0, q)) \in [Side -> Seq(PriceLevel)]
      /\ OrderRemoved(L, WithSide(L, sd0, Dequeued(L[sd0], n0, s0, q)), sd0, n0, k0)
    <2>1. RemovesFromLevel(L, sd0, n0, k0, t0)
        BY <1>2, <1>3, <1>5
    <2> QED BY <1>4, <2>1 DEF RemovesFromLevel
<1> QED BY <1>3, <1>4, <1>6, <1>7 DEF TakesOut

\* CancelKnown: the order at place k of level n0 dies and leaves the ladder, and
\* so does its level if it was the last.
LEMMA DequeueOrder ==
    ASSUME NEW L \in [Side -> Seq(PriceLevel)], NEW O \in Seq(Order), Consistent(L, O),
           NoEmptyLevel(L),
           NEW sd0 \in Side, NEW n0 \in 1..Depth(L, sd0), NEW s0,
           \E k \in 1..Count(L, sd0, n0) : At(L, sd0, n0, k) = s0,
           NEW q \in Int, NEW P, Len(P) = Len(O),
           \A s \in 1..Len(O) : s # s0 => P[s] = O[s],
           P[s0].quantity = 0, P[s0].sequence \in Nat,
           NEW M, M = WithSide(L, sd0, DropIfEmpty(Dequeued(L[sd0], n0, s0, q), n0))
    PROVE  M \in [Side -> Seq(PriceLevel)] /\ Consistent(M, P) /\ NoEmptyLevel(M)
<1>1. n0 \in 1..Len(L[sd0]) /\ L[sd0] \in Seq(PriceLevel)
    BY DEF Depth
<1>2. \E k \in 1..Len(L[sd0][n0].orders) : L[sd0][n0].orders[k] = s0
    BY DEF Count, At
<1> DEFINE lv == Dequeued(L[sd0], n0, s0, q)
           K == WithSide(L, sd0, lv)
<1>3. PICK k0 \in 1..Len(L[sd0][n0].orders) :
         /\ L[sd0][n0].orders[k0] = s0
         /\ K \in [Side -> Seq(PriceLevel)]
         /\ OrderRemoved(L, K, sd0, n0, k0)
    <2>1. TakesOut(L, sd0, n0, s0, q)
        BY <1>1, <1>2, DequeuedProps
    <2> QED BY <2>1 DEF TakesOut
<1> HIDE DEF lv
<1>7. K[sd0] = lv /\ lv \in Seq(PriceLevel) /\ Len(lv) = Len(L[sd0])
    <2>1. K[sd0] = lv
        BY DEF WithSide
    <2>2. K[sd0] \in Seq(PriceLevel) /\ Depth(K, sd0) = Depth(L, sd0)
        BY <1>3 DEF OrderRemoved
    <2> QED BY <2>1, <2>2 DEF Depth
<1>8. K[sd0] = lv /\ \A lw : WithSide(K, sd0, lw) = WithSide(L, sd0, lw)
    BY <1>7, WithSideProps
<1>9. K \in [Side -> Seq(PriceLevel)] /\ OrderRemoved(L, K, sd0, n0, k0)
    BY <1>3
<1> HIDE DEF K
<1>10. Consistent(K, P)
    <2>1. k0 \in 1..Count(L, sd0, n0) /\ At(L, sd0, n0, k0) = s0
        BY <1>3 DEF Count, At
    <2>2. /\ \A s \in 1..Len(O) : s # At(L, sd0, n0, k0) => P[s] = O[s]
          /\ P[At(L, sd0, n0, k0)].quantity = 0
          /\ P[At(L, sd0, n0, k0)].sequence \in Nat
        BY <2>1
    <2> QED BY <1>9, <2>1, <2>2, RemoveOrder
<1>11. /\ n0 \in 1..Depth(K, sd0)
       /\ \A sd \in Side : \A n \in 1..Depth(K, sd) :
            Count(K, sd, n) = 0 => sd = sd0 /\ n = n0
    BY <1>9 DEF OrderRemoved, NoEmptyLevel
<1>12. CASE lv[n0].orders = <<>>
    <2>1. M = WithSide(K, sd0, RemoveAt(lv, n0))
        BY <1>1, <1>7, <1>8, <1>12 DEF DropIfEmpty, lv
    <2>2. n0 \in 1..Len(K[sd0]) /\ RemoveAt(lv, n0) = RemoveAt(K[sd0], n0)
        BY <1>1, <1>7, <1>8
    <2>3. /\ M \in [Side -> Seq(PriceLevel)] /\ LevelRemoved(K, M, sd0, n0)
        <3> DEFINE x == RemoveAt(K[sd0], n0)
        <3>1. x = RemoveAt(K[sd0], n0) /\ M = WithSide(K, sd0, x)
            BY <2>1, <2>2
        <3> HIDE DEF x
        <3>2. ASSUME NEW n \in 1..Len(K[sd0]), x = RemoveAt(K[sd0], n)
              PROVE  /\ WithSide(K, sd0, x) \in [Side -> Seq(PriceLevel)]
                     /\ LevelRemoved(K, WithSide(K, sd0, x), sd0, n)
            BY <1>9, <3>2, RemovedFromLadder
        <3> QED BY <2>2, <3>1, <3>2
    <2>4. Count(K, sd0, n0) = 0
        BY <1>8, <1>12 DEF Count
    <2>5. Consistent(M, P)
        BY <1>10, <1>11, <2>3, <2>4, RemoveLevel
    <2>6. NoEmptyLevel(M)
        <3>1. Typed(K, P)
            BY <1>10 DEF Consistent
        <3> QED BY <1>11, <2>3, <3>1, NoEmptyAfterRemove
    <2> QED BY <2>3, <2>5, <2>6
<1>13. CASE lv[n0].orders # <<>>
    <2>1. M = K
        BY <1>13 DEF DropIfEmpty, K, lv
    <2>2. Count(K, sd0, n0) # 0
        <3>1. lv[n0].orders \in Seq(Nat \ {0})
            BY <1>1, <1>7, LevelFacts
        <3> QED BY <1>8, <1>13, <3>1, EmptySeq DEF Count
    <2> QED BY <1>9, <1>10, <1>11, <2>1, <2>2 DEF NoEmptyLevel
<1> QED BY <1>12, <1>13

\* K is L with a level for price p at n, which may have been there.
Readied(L, K, sd0, n, p) ==
    \/ K = L
    \/ /\ n \in 1..(Len(L[sd0]) + 1)
       /\ K = WithSide(L, sd0, InsertAt(L[sd0], n,
                  [price |-> p, totalQuantity |-> 0, orders |-> <<>>]))

\* M is K with slot s0 put at the end of level n, which counts q more.
Joined(K, M, sd0, n, s0, q) ==
    /\ OrderAppended(K, M, sd0, n, s0)
    /\ M = WithSide(K, sd0, EditedLevel(K[sd0], n, Append(K[sd0][n].orders, s0),
                                        Int64(K[sd0][n].totalQuantity + q)))

\* M is L with slot s0 put at the end of its level of price p.
Queues(L, O, sd0, p, s0, q, M) ==
    /\ M \in [Side -> Seq(PriceLevel)] /\ NoEmptyLevel(M)
    /\ \E K \in [Side -> Seq(PriceLevel)] : \E n \in 1..Depth(K, sd0) :
          /\ Consistent(K, O) /\ PriceAt(K, sd0, n) = p
          /\ Readied(L, K, sd0, n, p)
          /\ Joined(K, M, sd0, n, s0, q)

\* RestOrder: what is left of a limit order joins the level of its price.
LEMMA EnqueueOrder ==
    ASSUME NEW L \in [Side -> Seq(PriceLevel)], NEW O \in Seq(Order), Consistent(L, O),
           NoEmptyLevel(L),
           NEW sd0 \in Side, NEW p \in Int, NEW s0 \in Nat \ {0}, NEW q \in Int,
           NEW M, M = WithSide(L, sd0, Enqueued(sd0, L[sd0], p, s0, q))
    PROVE  Queues(L, O, sd0, p, s0, q, M)
<1> DEFINE n0 == FindLevelIndex(sd0, L[sd0], p)
           lv == WithLevel(sd0, L[sd0], p)
           K == WithSide(L, sd0, lv)
           t == Int64(lv[n0].totalQuantity + q)
           lw == EditedLevel(lv, n0, Append(lv[n0].orders, s0), t)
<1> USE DEF Consistent
<1>1. /\ L[sd0] \in Seq(PriceLevel) /\ Len(L[sd0]) \in Nat
      /\ \A i \in 1..Len(L[sd0]) : L[sd0][i].price \in Int
    BY LenProperties, LevelFacts
<1>2. IsLadder(sd0, L[sd0])
    BY DEF SortedLadders, IsLadder, Depth, PriceAt
<1>3. SplitsAt(sd0, L[sd0], p, n0)
    BY <1>1, <1>2, FindIsSplit
<1>4. n0 \in 1..(Len(L[sd0]) + 1)
    BY <1>3 DEF SplitsAt
<1>5. Enqueued(sd0, L[sd0], p, s0, q) = lw
    BY DEF Enqueued, EditedLevel
<1>6. HasLevel(sd0, L[sd0], p) <=> n0 <= Len(L[sd0]) /\ L[sd0][n0].price = p
    BY DEF HasLevel
<1>7. HasLevel(sd0, L[sd0], p) => lv = L[sd0]
    BY DEF WithLevel
<1>8. ~HasLevel(sd0, L[sd0], p) =>
         lv = InsertAt(L[sd0], n0, [price |-> p, totalQuantity |-> 0, orders |-> <<>>])
    BY DEF WithLevel
<1> HIDE DEF n0, lv
<1>9. /\ lv \in Seq(PriceLevel) /\ K \in [Side -> Seq(PriceLevel)] /\ Consistent(K, O)
      /\ n0 \in 1..Depth(K, sd0) /\ PriceAt(K, sd0, n0) = p
      /\ \A sd \in Side : \A n \in 1..Depth(K, sd) :
            Count(K, sd, n) = 0 => sd = sd0 /\ n = n0
      /\ Readied(L, K, sd0, n0, p)
    <2>1. CASE HasLevel(sd0, L[sd0], p)
        <3>1. lv = L[sd0] /\ n0 \in 1..Len(L[sd0]) /\ L[sd0][n0].price = p
            BY <1>1, <1>4, <1>6, <1>7, <2>1
        <3>2. K = L
            BY <3>1 DEF WithSide
        <3> QED BY <1>1, <3>1, <3>2 DEF Depth, PriceAt, NoEmptyLevel, Readied
    <2>2. CASE ~HasLevel(sd0, L[sd0], p)
        <3>1. /\ lv \in Seq(PriceLevel) /\ K \in [Side -> Seq(PriceLevel)]
              /\ LevelInserted(L, K, sd0, n0, p)
            BY <1>1, <1>4, <1>8, <2>2, InsertedInLadder
        <3>2. ASSUME NEW m \in 1..Depth(L, sd0)
              PROVE  IF m < n0 THEN Better(sd0, PriceAt(L, sd0, m), p)
                               ELSE Better(sd0, p, PriceAt(L, sd0, m))
            <4>1. m < n0 => Better(sd0, L[sd0][m].price, p)
                BY <1>1, <1>4, <1>3 DEF SplitsAt, Depth
            <4>2. m >= n0 => ~Better(sd0, L[sd0][m].price, p) /\ ~Better(sd0, L[sd0][n0].price, p)
                BY <1>1, <1>4, <1>3 DEF SplitsAt, Depth
            <4>3. m >= n0 => L[sd0][m].price # p
                <5>1. SUFFICES ASSUME m >= n0, L[sd0][m].price = p PROVE FALSE
                    OBVIOUS
                <5>2. n0 \in 1..Len(L[sd0]) /\ m \in 1..Len(L[sd0]) /\ n0 < m
                    BY <1>1, <1>4, <1>6, <2>2, <5>1 DEF Depth
                <5>3. Better(sd0, L[sd0][n0].price, L[sd0][m].price)
                    BY <1>2, <5>2 DEF IsLadder
                <5> QED BY <4>2, <5>1, <5>3
            <4>4. m \in 1..Len(L[sd0]) /\ L[sd0][m].price \in Int
                BY <1>1 DEF Depth
            <4>5. m >= n0 => Better(sd0, p, L[sd0][m].price)
                BY <4>2, <4>3, <4>4, BetterTotal
            <4> QED BY <1>4, <4>1, <4>4, <4>5 DEF PriceAt
        <3>3. n0 \in 1..(Depth(L, sd0) + 1)
            BY <1>4 DEF Depth
        <3>4. Consistent(K, O)
            <4> HIDE DEF Consistent, K
            <4> QED BY <3>1, <3>2, <3>3, InsertLevel
        <3>5. n0 \in 1..Depth(K, sd0) /\ PriceAt(K, sd0, n0) = p
            BY <3>1, <3>3 DEF LevelInserted
        <3>6. ASSUME NEW sd \in Side, NEW n \in 1..Depth(K, sd), ~(sd = sd0 /\ n = n0)
              PROVE  Count(K, sd, n) # 0
            <4> DEFINE m == IF sd = sd0 /\ n > n0 THEN n - 1 ELSE n
            <4>1. Count(K, sd, n) = Count(L, sd, m)
                BY <3>1, <3>6 DEF LevelInserted
            <4>2. Depth(K, sd) = IF sd = sd0 THEN Depth(L, sd) + 1 ELSE Depth(L, sd)
                BY <3>1 DEF LevelInserted
            <4>3. Depth(L, sd) \in Nat
                BY DEF Typed
            <4>4. m \in 1..Depth(L, sd)
                BY <3>3, <3>6, <4>2, <4>3
            <4> HIDE DEF m
            <4> QED BY <4>1, <4>4 DEF NoEmptyLevel
        <3>7. Readied(L, K, sd0, n0, p)
            BY <1>4, <1>8, <2>2 DEF Readied
        <3> QED BY <3>1, <3>4, <3>5, <3>6, <3>7
    <2> QED BY <2>1, <2>2
<1>10. K[sd0] = lv /\ \A x : WithSide(K, sd0, x) = WithSide(L, sd0, x)
    <2>1. lv \in Seq(PriceLevel)
        BY <1>9
    <2> QED BY <2>1, WithSideProps
<1> HIDE DEF K
<1>11. n0 \in 1..Len(K[sd0])
    BY <1>9 DEF Depth
<1>12. t \in Int
    <2>1. lv[n0].totalQuantity \in Int
        BY <1>9, <1>10, <1>11, LevelFacts
    <2>2. lv[n0].totalQuantity + q \in Int
        BY <2>1
    <2> QED BY <2>2, Int64Type
<1>13. lw = EditedLevel(K[sd0], n0, Append(K[sd0][n0].orders, s0), t)
    BY <1>10
<1>17. t = Int64(K[sd0][n0].totalQuantity + q)
    BY <1>10
<1> HIDE DEF t, lw
<1>14. /\ WithSide(K, sd0, lw) \in [Side -> Seq(PriceLevel)]
       /\ OrderAppended(K, WithSide(K, sd0, lw), sd0, n0, s0)
    BY <1>9, <1>11, <1>12, <1>13, AppendedToLevel
<1>15. M = WithSide(K, sd0, lw)
    BY <1>5, <1>10
<1>16. NoEmptyLevel(M)
    <2> SUFFICES ASSUME NEW sd \in Side, NEW n \in 1..Depth(M, sd)
                 PROVE  Count(M, sd, n) # 0
        BY DEF NoEmptyLevel
    <2>1. OrderAppended(K, M, sd0, n0, s0)
        BY <1>14, <1>15
    <2>2. n \in 1..Depth(K, sd) /\ Count(K, sd, n) \in Nat
        BY <1>9, <2>1 DEF OrderAppended, Typed
    <2>3. Count(M, sd, n) = IF sd = sd0 /\ n = n0 THEN Count(K, sd, n) + 1
                            ELSE Count(K, sd, n)
        BY <2>1, <2>2 DEF OrderAppended
    <2> QED BY <1>9, <2>2, <2>3
<1>18. Joined(K, M, sd0, n0, s0, q)
    BY <1>13, <1>14, <1>15, <1>17 DEF Joined
<1>19. M \in [Side -> Seq(PriceLevel)]
    BY <1>14, <1>15
<1>20. /\ K \in [Side -> Seq(PriceLevel)] /\ n0 \in 1..Depth(K, sd0)
       /\ Consistent(K, O) /\ PriceAt(K, sd0, n0) = p
       /\ Readied(L, K, sd0, n0, p)
    BY <1>9
<1> HIDE DEF Consistent
<1> QED BY <1>16, <1>18, <1>19, <1>20 DEF Queues


----------------------------------------------------------------------------
(* The inductive invariant. *)

\* orders_ and slotPool_: the free list holds the dead slots, each once.
FreeSlots(F, O) ==
    /\ \A i, j \in 1..Len(F) : F[i] = F[j] => i = j
    /\ \A i \in 1..Len(F) : F[i] \in 1..Len(O) /\ ~(O[F[i]].quantity > 0)
    /\ \A s \in 1..Len(O) : ~(O[s].quantity > 0) => \E i \in 1..Len(F) : F[i] = s

\* ordersByKey_: KeyMapSound, for any map and storage.
KeysSound(K, O) ==
    \A key \in Key : K[key] # 0 =>
        /\ K[key] \in 1..Len(O)
        /\ O[K[key]].quantity > 0
        /\ KeyOf(O[K[key]]) = key
        /\ \A s \in 1..Len(O) : O[s].quantity > 0 /\ KeyOf(O[s]) = key =>
              O[s].sequence <= O[K[key]].sequence

Numbered(O, next) == \A s \in 1..Len(O) : O[s].sequence < next

StoreInv ==
    /\ Consistent(levels, orders)
    /\ FreeSlots(freeList, orders)
    /\ KeysSound(ordersByKey, orders)
    /\ Numbered(orders, nextSequence)

\* Only the level being matched may be empty.
Filled ==
    \A sd \in Side : \A n \in 1..Depth(levels, sd) :
        Count(levels, sd, n) = 0 => pc = "scan" /\ sd = Opp /\ n = 1

\* The loop over the best level has passed only the user's own orders.
ScanInv ==
    pc = "scan" =>
        /\ 1 \in 1..Depth(levels, Opp)
        /\ incomingQty > 0 => \A k \in 1..Count(levels, Opp, 1) : k < it =>
              orders[At(levels, Opp, 1, k)].userId = cmd.userId

RestInv == pc = "rest" => incomingQty > 0

IInv == TypeOK /\ StoreInv /\ Filled /\ ScanInv /\ RestInv

----------------------------------------------------------------------------
(* The cancel map and the free list under the edits of the storage. *)

LEMMA KeyOfType == \A o \in Order : KeyOf(o) \in Key
BY DEF KeyOf, Key, Order

\* A slot dies and is released; its key is erased.
LEMMA ReleaseSlot ==
    ASSUME NEW O, NEW P, Len(O) \in Nat, Len(P) = Len(O), NEW F \in Seq(Nat \ {0}),
           NEW s0 \in 1..Len(O), O[s0].quantity > 0, P[s0].quantity = 0,
           \A s \in 1..Len(O) : s # s0 => P[s] = O[s],
           FreeSlots(F, O)
    PROVE  FreeSlots(Append(F, s0), P)
<1> DEFINE G == Append(F, s0)
<1>1. Len(F) \in Nat
    BY LenProperties
<1>2. /\ Len(G) = Len(F) + 1 /\ G[Len(F) + 1] = s0
      /\ \A i \in 1..Len(F) : G[i] = F[i]
    BY AppendProperties
<1> HIDE DEF G
<1>3. \A i \in 1..Len(F) : F[i] \in 1..Len(O) /\ F[i] # s0 /\ ~(O[F[i]].quantity > 0)
    BY DEF FreeSlots
<1>4. \A i \in 1..Len(G) : i \in 1..Len(F) \/ i = Len(F) + 1
    BY <1>1, <1>2
<1>5. \A i, j \in 1..Len(G) : G[i] = G[j] => i = j
    BY <1>2, <1>3, <1>4 DEF FreeSlots
<1>6. ASSUME NEW i \in 1..Len(G)
      PROVE  G[i] \in 1..Len(P) /\ ~(P[G[i]].quantity > 0)
    <2>1. CASE i \in 1..Len(F)
        <3>1. G[i] = F[i] /\ P[F[i]] = O[F[i]]
            BY <1>2, <1>3, <2>1
        <3> QED BY <1>3, <2>1, <3>1
    <2>2. CASE i = Len(F) + 1
        BY <1>2, <2>2
    <2> QED BY <1>4, <2>1, <2>2
<1>7. ASSUME NEW s \in 1..Len(P), ~(P[s].quantity > 0)
      PROVE  \E i \in 1..Len(G) : G[i] = s
    <2>1. CASE s = s0
        BY <1>1, <1>2, <2>1
    <2>2. CASE s # s0
        <3>1. PICK i \in 1..Len(F) : F[i] = s
            BY <1>7, <2>2 DEF FreeSlots
        <3> QED BY <1>1, <1>2, <3>1
    <2> QED BY <2>1, <2>2
<1> QED BY <1>5, <1>6, <1>7 DEF FreeSlots, G

LEMMA EraseKey ==
    ASSUME NEW O, NEW P, Len(P) = Len(O), NEW K \in [Key -> Nat],
           NEW s0 \in 1..Len(O), KeyOf(O[s0]) \in Key, P[s0].quantity = 0,
           \A s \in 1..Len(O) : s # s0 => P[s] = O[s],
           KeysSound(K, O)
    PROVE  KeysSound([K EXCEPT ![KeyOf(O[s0])] = 0], P)
<1> DEFINE key0 == KeyOf(O[s0])
           J == [K EXCEPT ![key0] = 0]
<1>1. SUFFICES ASSUME NEW key \in Key, J[key] # 0
               PROVE  /\ J[key] \in 1..Len(P)
                      /\ P[J[key]].quantity > 0
                      /\ KeyOf(P[J[key]]) = key
                      /\ \A s \in 1..Len(P) : P[s].quantity > 0 /\ KeyOf(P[s]) = key =>
                            P[s].sequence <= P[J[key]].sequence
    BY DEF KeysSound
<1>2. key # key0 /\ J[key] = K[key] /\ K[key] # 0
    BY <1>1
<1>3. /\ K[key] \in 1..Len(O) /\ O[K[key]].quantity > 0 /\ KeyOf(O[K[key]]) = key
      /\ \A s \in 1..Len(O) : O[s].quantity > 0 /\ KeyOf(O[s]) = key =>
            O[s].sequence <= O[K[key]].sequence
    BY <1>2 DEF KeysSound
<1>4. K[key] # s0 /\ P[K[key]] = O[K[key]]
    BY <1>2, <1>3
<1>5. ASSUME NEW s \in 1..Len(P), P[s].quantity > 0, KeyOf(P[s]) = key
      PROVE  P[s].sequence <= P[K[key]].sequence
    <2>1. s # s0 /\ P[s] = O[s]
        BY <1>5
    <2> QED BY <1>3, <1>4, <1>5, <2>1
<1> HIDE DEF J
<1> QED BY <1>2, <1>3, <1>4, <1>5

\* A slot that trades but lives keeps the map sound.
LEMMA KeepKeys ==
    ASSUME NEW O, NEW P, Len(P) = Len(O), NEW K,
           \A s \in 1..Len(O) : /\ P[s].quantity > 0 <=> O[s].quantity > 0
                                /\ KeyOf(P[s]) = KeyOf(O[s])
                                /\ P[s].sequence = O[s].sequence,
           KeysSound(K, O)
    PROVE  KeysSound(K, P)
BY DEF KeysSound

\* The youngest order takes over the entry of its key.
LEMMA EnterKey ==
    ASSUME NEW O, NEW P, NEW K \in [Key -> Nat], NEW s0 \in 1..Len(P), s0 # 0,
           KeyOf(P[s0]) \in Key, P[s0].quantity > 0, P[s0].sequence \in Nat,
           \A s \in 1..Len(O) : s \in 1..Len(P) /\ O[s].sequence \in Nat
                                /\ (s # s0 => P[s] = O[s]),
           \A s \in 1..Len(P) : s # s0 => s \in 1..Len(O),
           s0 \in 1..Len(O) => ~(O[s0].quantity > 0),
           Numbered(O, P[s0].sequence),
           KeysSound(K, O), s0 \in Nat
    PROVE  KeysSound([K EXCEPT ![KeyOf(P[s0])] = s0], P)
<1> DEFINE key0 == KeyOf(P[s0])
           J == [K EXCEPT ![key0] = s0]
<1>1. SUFFICES ASSUME NEW key \in Key, J[key] # 0
               PROVE  /\ J[key] \in 1..Len(P)
                      /\ P[J[key]].quantity > 0
                      /\ KeyOf(P[J[key]]) = key
                      /\ \A s \in 1..Len(P) : P[s].quantity > 0 /\ KeyOf(P[s]) = key =>
                            P[s].sequence <= P[J[key]].sequence
    BY DEF KeysSound
<1>2. CASE key = key0
    <2>1. J[key] = s0
        BY <1>2
    <2>2. ASSUME NEW s \in 1..Len(P)
          PROVE  P[s].sequence <= P[s0].sequence
        BY DEF Numbered
    <2> HIDE DEF J
    <2> QED BY <1>2, <2>1, <2>2
<1>3. CASE key # key0
    <2>1. J[key] = K[key] /\ K[key] # 0
        BY <1>1, <1>3
    <2>2. /\ K[key] \in 1..Len(O) /\ O[K[key]].quantity > 0 /\ KeyOf(O[K[key]]) = key
          /\ \A s \in 1..Len(O) : O[s].quantity > 0 /\ KeyOf(O[s]) = key =>
                O[s].sequence <= O[K[key]].sequence
        BY <2>1 DEF KeysSound
    <2>3. K[key] # s0 /\ P[K[key]] = O[K[key]] /\ K[key] \in 1..Len(P)
        BY <2>2
    <2>4. ASSUME NEW s \in 1..Len(P), P[s].quantity > 0, KeyOf(P[s]) = key
          PROVE  P[s].sequence <= P[K[key]].sequence
        <3>1. s # s0 /\ s \in 1..Len(O) /\ P[s] = O[s]
            BY <1>3, <2>4
        <3> QED BY <2>2, <2>3, <2>4, <3>1
    <2> HIDE DEF J
    <2> QED BY <2>1, <2>2, <2>3, <2>4
<1> QED BY <1>2, <1>3

\* P is O with o in slot s0, which held no live order, and G what is free of it.
Allocates(O, o, s0, P, G) ==
    /\ P \in Seq(Order) /\ Len(P) \in Nat /\ s0 \in 1..Len(P) /\ P[s0] = o
    /\ \A s \in 1..Len(O) : s \in 1..Len(P) /\ (s # s0 => P[s] = O[s])
    /\ \A s \in 1..Len(P) : s # s0 => s \in 1..Len(O)
    /\ s0 \in 1..Len(O) => ~(O[s0].quantity > 0)
    /\ G \in Seq(Nat \ {0}) /\ FreeSlots(G, P)

\* The free list without its last entry.
LEMMA FreeFront ==
    ASSUME NEW F \in Seq(Nat \ {0}), F # <<>>
    PROVE  /\ Len(F) \in Nat \ {0}
           /\ Front(F) \in Seq(Nat \ {0}) /\ Len(Front(F)) = Len(F) - 1
           /\ \A i \in 1..(Len(F) - 1) : Front(F)[i] = F[i]
           /\ Last(F) = F[Len(F)]
<1> DEFINE T == Nat \ {0}
<1>1. F \in Seq(T)
    OBVIOUS
<1> HIDE DEF T
<1>2. /\ Len(F) \in Nat \ {0} /\ Len(Front(F)) = Len(F) - 1
      /\ Front(F) \in Seq(T)
    BY <1>1, FrontProps
<1>3. Last(F) = F[Len(F)]
    BY DEF Last
<1>4. ASSUME NEW i \in 1..(Len(F) - 1)
      PROVE  Front(F)[i] = F[i]
    BY <1>1, FrontProps
<1> QED BY <1>2, <1>3, <1>4 DEF T

\* OrderSlotPool::allocate gives out a new slot or a dead one, which leaves the
\* free list.
LEMMA AllocateSlot ==
    ASSUME NEW O \in Seq(Order), NEW F \in Seq(Nat \ {0}), FreeSlots(F, O),
           NEW o \in Order, o.quantity > 0,
           NEW s0, s0 = IF F = <<>> THEN Len(O) + 1 ELSE Last(F),
           NEW P, P = IF F = <<>> THEN Append(O, o) ELSE [O EXCEPT ![s0] = o],
           NEW G, G = IF F = <<>> THEN <<>> ELSE Front(F)
    PROVE  Allocates(O, o, s0, P, G)
<1> USE DEF Allocates
<1>1. Len(O) \in Nat
    BY LenProperties
<1>2. CASE F = <<>>
    <2>1. /\ P = Append(O, o) /\ s0 = Len(O) + 1 /\ G = <<>> /\ Len(<<>>) = 0
          /\ G \in Seq(Nat \ {0})
        BY <1>2
    <2>2. /\ P \in Seq(Order) /\ Len(P) = Len(O) + 1
          /\ \A s \in 1..Len(O) : P[s] = O[s]
          /\ P[Len(O) + 1] = o
        BY <2>1, AppendProperties
    <2>3. \A s \in 1..Len(O) : O[s].quantity > 0
        BY <1>2, <2>1 DEF FreeSlots
    <2>4. FreeSlots(G, P)
        BY <1>1, <2>1, <2>2, <2>3 DEF FreeSlots
    <2> QED BY <1>1, <2>1, <2>2, <2>4
<1>3. CASE F # <<>>
    <2>0. s0 = Last(F) /\ P = [O EXCEPT ![s0] = o] /\ G = Front(F)
        BY <1>3
    <2>f. /\ Len(F) \in Nat \ {0}
          /\ Front(F) \in Seq(Nat \ {0}) /\ Len(Front(F)) = Len(F) - 1
          /\ \A i \in 1..(Len(F) - 1) : Front(F)[i] = F[i]
          /\ Last(F) = F[Len(F)]
        BY <1>3, FreeFront
    <2>1. /\ s0 = F[Len(F)] /\ P = [O EXCEPT ![s0] = o] /\ G = Front(F)
          /\ Len(F) \in Nat \ {0}
          /\ G \in Seq(Nat \ {0}) /\ Len(G) = Len(F) - 1
          /\ \A i \in 1..(Len(F) - 1) : G[i] = F[i]
        BY <2>0, <2>f
    <2>2. s0 \in 1..Len(O) /\ ~(O[s0].quantity > 0)
        BY <2>1 DEF FreeSlots
    <2>3. /\ P \in Seq(Order) /\ Len(P) = Len(O)
          /\ \A s \in 1..Len(O) : P[s] = IF s = s0 THEN o ELSE O[s]
        BY <2>1, <2>2, ExceptSeq
    <2>4. ASSUME NEW i \in 1..Len(G)
          PROVE  i \in 1..Len(F) /\ G[i] = F[i] /\ F[i] # s0
        <3>1. Len(F) \in Nat \ {0} /\ i \in 1..(Len(F) - 1)
            BY <2>1
        <3>2. i \in 1..Len(F) /\ Len(F) \in 1..Len(F) /\ i # Len(F)
            BY <3>1
        <3>3. G[i] = F[i]
            BY <2>1, <3>1
        <3>4. F[i] # F[Len(F)]
            BY <3>2 DEF FreeSlots
        <3> QED BY <2>1, <3>2, <3>3, <3>4
    <2>5. \A i, j \in 1..Len(G) : G[i] = G[j] => i = j
        BY <2>4 DEF FreeSlots
    <2>6. ASSUME NEW i \in 1..Len(G)
          PROVE  G[i] \in 1..Len(P) /\ ~(P[G[i]].quantity > 0)
        <3>1. F[i] \in 1..Len(O) /\ ~(O[F[i]].quantity > 0) /\ F[i] # s0 /\ G[i] = F[i]
            BY <2>4 DEF FreeSlots
        <3>2. P[F[i]] = O[F[i]] /\ Len(P) = Len(O)
            BY <2>3, <3>1
        <3> QED BY <3>1, <3>2
    <2>7. ASSUME NEW s \in 1..Len(P), ~(P[s].quantity > 0)
          PROVE  \E i \in 1..Len(G) : G[i] = s
        <3>1. s # s0 /\ ~(O[s].quantity > 0)
            BY <2>3, <2>7
        <3>2. PICK i \in 1..Len(F) : F[i] = s
            BY <2>3, <3>1 DEF FreeSlots
        <3>3. i \in 1..Len(G)
            BY <2>1, <3>1, <3>2
        <3> QED BY <2>4, <3>2, <3>3
    <2> QED BY <1>1, <2>1, <2>2, <2>3, <2>5, <2>6, <2>7 DEF FreeSlots
<1> QED BY <1>2, <1>3

----------------------------------------------------------------------------
(* The actions that leave the store alone. *)

LEMMA InitIInv == Init => IInv
<1> SUFFICES ASSUME Init PROVE IInv
    OBVIOUS
<1> USE DEF Init
<1>1. TypeOK
    <2>1. traded \in BOOLEAN
        OBVIOUS
    <2>2. top \in [Side -> TopOfBook]
        <3>1. NoTop \in TopOfBook
            BY DEF NoTop, TopOfBook
        <3> QED BY <3>1
    <2>3. /\ levels \in [Side -> Seq(PriceLevel)] /\ orders \in Seq(Order)
          /\ freeList \in Seq(Nat \ {0}) /\ out \in Seq(Line)
        OBVIOUS
    <2>4. ordersByKey \in [Key -> Nat]
        OBVIOUS
    <2> QED BY <2>1, <2>2, <2>3, <2>4 DEF TypeOK
<1>2. \A sd \in Side : Depth(levels, sd) = 0
    BY DEF Depth
<1>3. Len(orders) = 0 /\ Len(freeList) = 0
    OBVIOUS
<1>4. StoreInv
    BY <1>2, <1>3 DEF StoreInv, Consistent, Typed, SortedLadders, WellPlaced, QueuesInOrder, Covered,
                      FreeSlots, KeysSound, Numbered
<1> QED BY <1>1, <1>2, <1>4 DEF IInv, Filled, ScanInv, RestInv

LEMMA SameStore == StoreInv /\ UNCHANGED store => StoreInv'
BY DEF StoreInv, store

\* The command being matched, and its opposite side.
LEMMA Matching ==
    TypeOK /\ pc \in {"level", "scan", "rest"} =>
        /\ cmd \in NewOrder /\ cmd.side \in Side /\ Opp \in Side
        /\ cmd.userId \in Users /\ cmd.userOrderId \in OrderIds /\ cmd.price \in Int
BY PricesAreInt DEF TypeOK, NewOrder, Opp, Opposite, Side

LEMMA AckIsLine == \A c \in NewOrder \cup Cancel : AckLine(c) \in Line
BY DEF AckLine, Line, NewOrder, Cancel

LEMMA ProcessNewOrderStep ==
    ASSUME IInv, NEW c \in NewOrder, ProcessNewOrder(c)
    PROVE  IInv'
<1> USE DEF ProcessNewOrder, IInv
<1>1. c.quantity \in Int
    BY QuantitiesAreInt DEF NewOrder
<1>2. << AckLine(c) >> \in Seq(Line)
    BY AckIsLine
<1>3. TypeOK'
    BY <1>1, <1>2 DEF TypeOK, store
<1>4. StoreInv'
    BY SameStore
<1> QED BY <1>3, <1>4 DEF Filled, ScanInv, RestInv, store, Depth, Count

LEMMA EnterLevelStep == IInv /\ EnterLevel => IInv'
<1> SUFFICES ASSUME IInv, EnterLevel PROVE IInv'
    OBVIOUS
<1> USE DEF EnterLevel, IInv
<1>1. TypeOK'
    <2>1. traded' \in BOOLEAN
        OBVIOUS
    <2> QED BY <2>1 DEF TypeOK, store
<1>2. StoreInv' /\ Opp' = Opp
    BY SameStore DEF Opp
<1>3. 1 \in 1..Depth(levels, Opp)
    BY Matching, EmptySeq DEF CanMatch, Depth, TypeOK
<1>4. ScanInv'
    BY <1>2, <1>3 DEF ScanInv, store, Depth, Count
<1> QED BY <1>1, <1>2, <1>4 DEF Filled, RestInv, store, Depth, Count

LEMMA StopMatchingStep == IInv /\ StopMatching => IInv'
<1> SUFFICES ASSUME IInv, StopMatching PROVE IInv'
    OBVIOUS
<1> USE DEF StopMatching, IInv, AfterLoop
<1>1. TypeOK'
    BY DEF TypeOK, store
<1>2. StoreInv'
    BY SameStore
<1> QED BY <1>1, <1>2 DEF Filled, ScanInv, RestInv, store, Depth, Count

LEMMA SkipOwnOrderStep == IInv /\ SkipOwnOrder => IInv'
<1> SUFFICES ASSUME IInv, SkipOwnOrder PROVE IInv'
    OBVIOUS
<1> USE DEF SkipOwnOrder, Scanning, IInv
<1>1. TypeOK'
    BY DEF TypeOK, store
<1>2. StoreInv' /\ Opp' = Opp
    BY SameStore DEF Opp
<1>3. orders[At(levels, Opp, 1, it)].userId = cmd.userId
    BY DEF Resting, RestingSlot, BestLevel, At
<1>4. ScanInv'
    <2>1. UNCHANGED <<levels, orders, cmd, incomingQty, pc, Opp>> /\ it' = it + 1 /\ it \in Nat
        BY <1>2 DEF store, TypeOK
    <2>2. Opp \in Side /\ 1 \in 1..Depth(levels, Opp)
        BY Matching DEF ScanInv
    <2>3. ASSUME incomingQty > 0, NEW k \in 1..Count(levels, Opp, 1), k < it + 1
          PROVE  orders[At(levels, Opp, 1, k)].userId = cmd.userId
        <3>1. Count(levels, Opp, 1) \in Nat
            BY <2>2 DEF StoreInv, Consistent, Typed
        <3>2. k < it \/ k = it
            BY <2>1, <2>3, <3>1
        <3> QED BY <1>3, <2>3, <3>2 DEF ScanInv
    <2> HIDE DEF SkipOwnOrder, Scanning, IInv
    <2> QED BY <2>1, <2>2, <2>3 DEF ScanInv, Depth, Count, At
<1> QED BY <1>1, <1>2, <1>4 DEF Filled, RestInv, store, Depth, Count

\* RescanLevel and StopAtLevel leave a level that still has orders.
LEMMA LeaveLevelStep == IInv /\ (RescanLevel \/ StopAtLevel) => IInv'
<1> SUFFICES ASSUME IInv, RescanLevel \/ StopAtLevel PROVE IInv'
    OBVIOUS
<1> USE DEF RescanLevel, StopAtLevel, LevelDone, IInv, AfterLoop
<1>1. TypeOK'
    <2>1. traded' \in BOOLEAN
        OBVIOUS
    <2> QED BY <2>1 DEF TypeOK, store
<1>2. StoreInv'
    BY SameStore
<1>3. Opp \in Side /\ levels[Opp] \in Seq(PriceLevel) /\ 1 \in 1..Len(levels[Opp])
    BY Matching DEF TypeOK, ScanInv, Depth
<1>4. Count(levels, Opp, 1) # 0
    <2>1. levels[Opp][1].orders \in Seq(Nat \ {0})
        BY <1>3, LevelFacts
    <2> QED BY <2>1, EmptySeq DEF BestLevel, Count
<1>5. pc' # "scan" /\ (pc' = "rest" => incomingQty' > 0)
    OBVIOUS
<1>6. Filled'
    BY <1>4 DEF Filled, store, Depth, Count
<1> QED BY <1>1, <1>2, <1>5, <1>6 DEF ScanInv, RestInv

LEMMA CancelUnknownStep ==
    ASSUME IInv, NEW c \in Cancel, CancelUnknown(c)
    PROVE  IInv'
<1> USE DEF CancelUnknown, IInv
<1>1. << AckLine(c) >> \in Seq(Line)
    BY AckIsLine
<1>2. TypeOK'
    BY <1>1 DEF TypeOK, store
<1>3. StoreInv'
    BY SameStore
<1> QED BY <1>2, <1>3 DEF Filled, ScanInv, RestInv, store, Depth, Count

LEMMA UpdateTopOfBookStep == IInv /\ UpdateTopOfBook => IInv'
<1> SUFFICES ASSUME IInv, UpdateTopOfBook PROVE IInv'
    OBVIOUS
<1> USE DEF UpdateTopOfBook, IInv
<1>1. top' \in [Side -> TopOfBook]
    <2>1. ASSUME NEW sd \in Side PROVE ComputeTop(levels[sd]) \in TopOfBook
        <3>1. levels[sd] \in Seq(PriceLevel)
            BY DEF TypeOK
        <3>2. levels[sd] # <<>> => 1 \in 1..Len(levels[sd])
            BY <3>1, EmptySeq
        <3>3. levels[sd] # <<>> => levels[sd][1].price \in Int /\ levels[sd][1].totalQuantity \in Int
            BY <3>1, <3>2, LevelFacts
        <3>4. CASE levels[sd] = <<>>
            <4>1. ComputeTop(levels[sd]) = NoTop
                BY <3>4 DEF ComputeTop
            <4> QED BY <4>1 DEF TopOfBook, NoTop
        <3>5. CASE levels[sd] # <<>>
            <4> HIDE DEF UpdateTopOfBook, IInv
            <4> QED BY <3>3, <3>5 DEF ComputeTop, TopOfBook
        <3> QED BY <3>4, <3>5
    <2> QED BY <2>1
<1>2. ASSUME NEW sd \in Side PROVE TopLine(sd, top[sd], top'[sd]) \in Seq(Line)
    <2> DEFINE line == [type |-> "B", side |-> sd, top |-> top'[sd]]
    <2>1. line \in Line
        BY <1>1 DEF Line
    <2> HIDE DEF line
    <2>2. << line >> \in Seq(Line) /\ <<>> \in Seq(Line)
        BY <2>1
    <2> QED BY <2>2 DEF TopLine, line
<1>3. out' \in Seq(Line)
    <2>1. "Buy" \in Side /\ "Sell" \in Side
        BY DEF Side
    <2>2. /\ TopLine("Buy", top["Buy"], top'["Buy"]) \in Seq(Line)
          /\ TopLine("Sell", top["Sell"], top'["Sell"]) \in Seq(Line)
        BY <1>2, <2>1
    <2>3. out \o TopLine("Buy", top["Buy"], top'["Buy"]) \in Seq(Line)
        BY <2>2, ConcatProperties DEF TypeOK
    <2> QED BY <2>2, <2>3, ConcatProperties
<1>4. TypeOK'
    BY <1>1, <1>3 DEF TypeOK, store
<1>5. StoreInv'
    BY SameStore
<1> QED BY <1>4, <1>5 DEF Filled, ScanInv, RestInv, store, Depth, Count

LEMMA DeliverOutputStep == IInv /\ DeliverOutput => IInv'
<1> SUFFICES ASSUME IInv, DeliverOutput PROVE IInv'
    OBVIOUS
<1> USE DEF DeliverOutput, IInv
<1>1. TypeOK'
    BY DEF TypeOK, store
<1>2. StoreInv'
    BY SameStore
<1> QED BY <1>1, <1>2 DEF Filled, ScanInv, RestInv, store, Depth, Count

----------------------------------------------------------------------------
(* The actions that trade. *)

\* The resting order the loop stands at.
LEMMA ScanTarget ==
    ASSUME IInv, Scanning
    PROVE  /\ Opp \in Side /\ levels[Opp] \in Seq(PriceLevel)
           /\ 1 \in 1..Len(levels[Opp])
           /\ it \in 1..Len(levels[Opp][1].orders)
           /\ RestingSlot = At(levels, Opp, 1, it)
           /\ RestingSlot \in 1..Len(orders)
           /\ Resting \in Order /\ Resting = orders[RestingSlot]
           /\ Resting.quantity > 0 /\ Resting.quantity \in Int
           /\ TradeQty \in Int /\ TradeQty > 0
           /\ TradeQty <= incomingQty /\ TradeQty <= Resting.quantity
           /\ TradeLine(cmd, Resting, TradeQty) \in Line
<1> USE DEF IInv, Scanning
<1>1. Opp \in Side /\ levels[Opp] \in Seq(PriceLevel) /\ 1 \in 1..Len(levels[Opp])
    BY Matching DEF TypeOK, ScanInv, Depth
<1>2. it \in 1..Len(levels[Opp][1].orders)
    <2>1. Len(levels[Opp][1].orders) \in Nat
        BY <1>1, LevelFacts
    <2> QED BY <2>1 DEF BestLevel, TypeOK
<1>3. RestingSlot = At(levels, Opp, 1, it)
    BY DEF RestingSlot, BestLevel, At
<1>4. RestingSlot \in 1..Len(orders) /\ orders[RestingSlot].quantity > 0
    BY <1>1, <1>2, <1>3 DEF StoreInv, Consistent, WellPlaced, Depth, Count
<1>5. Resting \in Order /\ Resting = orders[RestingSlot]
    BY <1>4, ElementOfSeq DEF Resting, TypeOK
<1>6. Resting.quantity > 0 /\ Resting.quantity \in Int /\ incomingQty \in Int
    BY <1>4, <1>5 DEF Order, TypeOK
<1>7. TradeQty \in Int /\ TradeQty > 0 /\ TradeQty <= incomingQty /\ TradeQty <= Resting.quantity
    BY <1>6 DEF TradeQty, SmallerOf
<1>8. TradeLine(cmd, Resting, TradeQty) \in Line
    <2>1. KeyOf(cmd) \in Key /\ KeyOf(Resting) \in Key
        BY <1>5, Matching, KeyOfType DEF KeyOf, Key
    <2>2. Resting.price \in Int
        BY <1>5 DEF Order
    <2> HIDE DEF IInv, Scanning
    <2> QED BY <1>7, <2>1, <2>2 DEF TradeLine, Line
<1> QED BY <1>1, <1>2, <1>3, <1>4, <1>5, <1>6, <1>7, <1>8

LEMMA PartialFillStep == IInv /\ PartialFill => IInv'
<1> SUFFICES ASSUME IInv, PartialFill PROVE IInv'
    OBVIOUS
<1> DEFINE q == Resting.quantity - TradeQty
           t == Int64(levels[Opp][1].totalQuantity - TradeQty)
<1>1. Scanning /\ TradeQty < Resting.quantity
    BY DEF PartialFill
<1>2. /\ Opp \in Side /\ levels[Opp] \in Seq(PriceLevel)
      /\ 1 \in 1..Len(levels[Opp])
      /\ it \in 1..Len(levels[Opp][1].orders)
      /\ RestingSlot = At(levels, Opp, 1, it)
      /\ RestingSlot \in 1..Len(orders)
      /\ Resting \in Order /\ Resting = orders[RestingSlot]
      /\ Resting.quantity > 0 /\ Resting.quantity \in Int
      /\ TradeQty \in Int /\ TradeQty > 0
      /\ TradeQty <= incomingQty /\ TradeQty <= Resting.quantity
      /\ TradeLine(cmd, Resting, TradeQty) \in Line
    BY <1>1, ScanTarget
<1>3. q \in Int /\ q > 0
    BY <1>1, <1>2
<1>4. t \in Int
    <2>1. levels[Opp][1].totalQuantity \in Int
        BY <1>2, LevelFacts
    <2>2. levels[Opp][1].totalQuantity - TradeQty \in Int
        BY <1>2, <2>1
    <2> QED BY <2>2, Int64Type
<1>5. /\ levels' = Retotalled(levels, Opp, 1, t)
      /\ orders' = Requantified(orders, RestingSlot, q)
      /\ UNCHANGED <<ordersByKey, freeList, nextSequence, top, pc, cmd>>
      /\ incomingQty' = incomingQty - TradeQty /\ it' = it + 1
      /\ out' = Append(out, TradeLine(cmd, Resting, TradeQty))
    BY DEF PartialFill, Trade, Retotalled, Requantified, Resting
<1>6. traded' \in BOOLEAN
    BY DEF PartialFill, Trade
<1> HIDE DEF q, t
<1>7. levels' \in [Side -> Seq(PriceLevel)] /\ SameShape(levels, levels')
    BY <1>2, <1>4, <1>5, RetotalledProps DEF IInv, TypeOK
<1>8. /\ orders' \in Seq(Order) /\ Len(orders') = Len(orders)
      /\ \A s \in 1..Len(orders) : s # RestingSlot => orders'[s] = orders[s]
      /\ orders'[RestingSlot].quantity = q
      /\ orders'[RestingSlot].side = orders[RestingSlot].side
      /\ orders'[RestingSlot].price = orders[RestingSlot].price
      /\ orders'[RestingSlot].sequence = orders[RestingSlot].sequence
      /\ orders'[RestingSlot].userId = orders[RestingSlot].userId
      /\ orders'[RestingSlot].userOrderId = orders[RestingSlot].userOrderId
    <2>1. orders \in Seq(Order) /\ RestingSlot \in 1..Len(orders) /\ q \in Int
        BY <1>2, <1>3 DEF IInv, TypeOK
    <2>2. orders' = Requantified(orders, RestingSlot, q)
        BY <1>5
    <2> QED BY <2>1, <2>2, RequantifiedProps
<1>9. \A s \in 1..Len(orders) :
        /\ orders'[s].quantity > 0 <=> orders[s].quantity > 0
        /\ KeyOf(orders'[s]) = KeyOf(orders[s])
        /\ orders'[s].sequence = orders[s].sequence
        /\ orders'[s].userId = orders[s].userId
    BY <1>2, <1>3, <1>8 DEF KeyOf
<1>10. TypeOK'
    <2>1. out' \in Seq(Line)
        BY <1>2, <1>5, AppendProperties DEF IInv, TypeOK
    <2>2. it' \in Nat \ {0} /\ incomingQty' \in Int
        BY <1>2, <1>5 DEF IInv, TypeOK
    <2> QED BY <1>5, <1>6, <1>7, <1>8, <2>1, <2>2 DEF IInv, TypeOK
<1>11. StoreInv'
    <2>1. Consistent(levels', orders')
        <3>1. Consistent(levels, orders) /\ orders[RestingSlot].quantity > 0
            BY <1>2 DEF IInv, StoreInv
        <3> QED BY <1>2, <1>3, <1>7, <1>8, <3>1, ReduceOrder
    <2>2. FreeSlots(freeList', orders')
        BY <1>5, <1>8, <1>9 DEF IInv, StoreInv, FreeSlots
    <2>3. KeysSound(ordersByKey', orders')
        <3>1. KeysSound(ordersByKey, orders)
            BY DEF IInv, StoreInv
        <3> QED BY <1>5, <1>8, <1>9, <3>1, KeepKeys
    <2>4. Numbered(orders', nextSequence')
        BY <1>5, <1>8, <1>9 DEF IInv, StoreInv, Numbered
    <2> QED BY <2>1, <2>2, <2>3, <2>4 DEF StoreInv
<1>12. Opp' = Opp
    BY <1>5 DEF Opp
<1>13. Filled'
    BY <1>5, <1>7, <1>12 DEF IInv, Filled, SameShape
<1>14. ScanInv'
    <2>1. incomingQty' = 0
        BY <1>1, <1>2, <1>5 DEF TradeQty, SmallerOf, IInv, TypeOK
    <2> QED BY <1>2, <1>5, <1>7, <1>12, <2>1 DEF IInv, ScanInv, SameShape
<1>15. RestInv'
    BY <1>1, <1>5 DEF Scanning, RestInv
<1> QED BY <1>10, <1>11, <1>13, <1>14, <1>15 DEF IInv

LEMMA FullFillStep == IInv /\ FullFill => IInv'
<1> SUFFICES ASSUME IInv, FullFill PROVE IInv'
    OBVIOUS
<1> DEFINE t == Int64(levels[Opp][1].totalQuantity - TradeQty)
           lv == EditedLevel(levels[Opp], 1, RemoveAt(levels[Opp][1].orders, it), t)
<1>1. Scanning /\ TradeQty = Resting.quantity
    BY DEF FullFill
<1>2. /\ Opp \in Side /\ levels[Opp] \in Seq(PriceLevel)
      /\ 1 \in 1..Len(levels[Opp])
      /\ it \in 1..Len(levels[Opp][1].orders)
      /\ RestingSlot = At(levels, Opp, 1, it)
      /\ RestingSlot \in 1..Len(orders)
      /\ Resting \in Order /\ Resting = orders[RestingSlot]
      /\ Resting.quantity > 0 /\ Resting.quantity \in Int
      /\ TradeQty \in Int /\ TradeQty > 0
      /\ TradeQty <= incomingQty /\ TradeQty <= Resting.quantity
      /\ TradeLine(cmd, Resting, TradeQty) \in Line
    BY <1>1, ScanTarget
<1>3. t \in Int
    <2>1. levels[Opp][1].totalQuantity \in Int
        BY <1>2, LevelFacts
    <2>2. levels[Opp][1].totalQuantity - TradeQty \in Int
        BY <1>2, <2>1
    <2> QED BY <2>2, Int64Type
<1>4. /\ levels \in [Side -> Seq(PriceLevel)] /\ orders \in Seq(Order)
      /\ ordersByKey \in [Key -> Nat] /\ freeList \in Seq(Nat \ {0}) /\ Len(orders) \in Nat
    BY LenProperties DEF IInv, TypeOK
<1>5. levels' = WithSide(levels, Opp, lv)
    <2>1. levels' = Edited(levels, Opp, 1, RemoveAt(levels[Opp][1].orders, it), t)
        BY DEF FullFill, Edited
    <2> QED BY <1>2, <1>4, <2>1, EditedIsOneSide
<1>6. orders' = Requantified(orders, RestingSlot, 0)
    <2>1. orders' = [orders EXCEPT ![RestingSlot].quantity = Resting.quantity - TradeQty]
        BY DEF FullFill, Trade, Resting
    <2>2. Resting.quantity - TradeQty = 0
        BY <1>1, <1>2
    <2> QED BY <2>1, <2>2 DEF Requantified
<1>7. /\ UNCHANGED <<nextSequence, top, pc, cmd, it>>
      /\ incomingQty' = incomingQty - TradeQty
      /\ out' = Append(out, TradeLine(cmd, Resting, TradeQty))
      /\ freeList' = Append(freeList, RestingSlot)
      /\ ordersByKey' = [ordersByKey EXCEPT ![KeyOf(orders[RestingSlot])] = 0]
    BY DEF FullFill, Trade, Released, ErasedKey, Resting
<1>8. traded' \in BOOLEAN
    BY DEF FullFill, Trade
<1> HIDE DEF t
<1>9. /\ levels' \in [Side -> Seq(PriceLevel)]
      /\ OrderRemoved(levels, levels', Opp, 1, it)
    <2>1. /\ levels \in [Side -> Seq(PriceLevel)] /\ Opp \in Side /\ 1 \in 1..Len(levels[Opp])
          /\ it \in 1..Len(levels[Opp][1].orders) /\ t \in Int
        BY <1>2, <1>3, <1>4
    <2>2. RemovesFromLevel(levels, Opp, 1, it, t)
        <3>1. \A n0 \in 1..Len(levels[Opp]) : \A k0 \in 1..Len(levels[Opp][n0].orders) :
                 RemovesFromLevel(levels, Opp, n0, k0, t)
            BY <2>1, RemovedFromLevel
        <3> QED BY <2>1, <3>1
    <2> QED BY <1>5, <2>2 DEF RemovesFromLevel
<1> HIDE DEF lv
<1>10. /\ orders' \in Seq(Order) /\ Len(orders') = Len(orders)
       /\ \A s \in 1..Len(orders) : s # RestingSlot => orders'[s] = orders[s]
       /\ orders'[RestingSlot].quantity = 0
       /\ orders'[RestingSlot].sequence = orders[RestingSlot].sequence
       /\ orders'[RestingSlot].userId = orders[RestingSlot].userId
    BY <1>2, <1>4, <1>6, RequantifiedProps
<1>11. KeyOf(orders[RestingSlot]) \in Key /\ orders[RestingSlot].sequence \in Nat
    <2>1. orders[RestingSlot] \in Order
        BY <1>2
    <2> QED BY <2>1, KeyOfType DEF Order
<1>12. TypeOK'
    <2>1. out' \in Seq(Line)
        BY <1>2, <1>7, AppendProperties DEF IInv, TypeOK
    <2>2. incomingQty' \in Int
        BY <1>2, <1>7 DEF IInv, TypeOK
    <2>3. freeList' \in Seq(Nat \ {0})
        BY <1>2, <1>4, <1>7, AppendProperties
    <2>4. ordersByKey' \in [Key -> Nat]
        BY <1>4, <1>7
    <2> QED BY <1>7, <1>8, <1>9, <1>10, <2>1, <2>2, <2>3, <2>4 DEF IInv, TypeOK
<1>13. StoreInv'
    <2>1. Consistent(levels', orders')
        <3>1. Consistent(levels, orders)
            BY DEF IInv, StoreInv
        <3>2. 1 \in 1..Depth(levels, Opp) /\ it \in 1..Count(levels, Opp, 1)
            BY <1>2 DEF Depth, Count
        <3> QED BY <1>2, <1>9, <1>10, <1>11, <3>1, <3>2, RemoveOrder
    <2>2. FreeSlots(freeList', orders')
        <3>1. FreeSlots(freeList, orders)
            BY DEF IInv, StoreInv
        <3> QED BY <1>2, <1>4, <1>7, <1>10, <3>1, ReleaseSlot
    <2>3. KeysSound(ordersByKey', orders')
        <3>1. KeysSound(ordersByKey, orders)
            BY DEF IInv, StoreInv
        <3> QED BY <1>2, <1>4, <1>7, <1>10, <1>11, <3>1, EraseKey
    <2>4. Numbered(orders', nextSequence')
        BY <1>7, <1>10 DEF IInv, StoreInv, Numbered
    <2> QED BY <2>1, <2>2, <2>3, <2>4 DEF StoreInv
<1>14. Opp' = Opp
    BY <1>7 DEF Opp
<1>15. Filled'
    BY <1>1, <1>7, <1>9, <1>14 DEF IInv, Filled, OrderRemoved, Scanning
<1>16. ScanInv'
    <2>1. pc = "scan" /\ incomingQty > 0
        BY <1>1 DEF Scanning
    <2>2. 1 \in 1..Depth(levels, Opp) /\ Depth(levels', Opp) = Depth(levels, Opp)
        BY <1>2, <1>9 DEF OrderRemoved, Depth
    <2>3. ASSUME NEW k \in 1..Count(levels', Opp, 1), k < it
          PROVE  orders'[At(levels', Opp, 1, k)].userId = cmd.userId
        <3>1. k \in 1..Count(levels, Opp, 1) /\ At(levels', Opp, 1, k) = At(levels, Opp, 1, k)
            <4>1. it \in Nat /\ it \in 1..Count(levels, Opp, 1)
                BY <1>2 DEF Count
            <4>2. Count(levels, Opp, 1) \in Nat
                BY <1>2, LevelFacts DEF Count
            <4>3. Count(levels', Opp, 1) = Count(levels, Opp, 1) - 1
                BY <1>2, <1>9, <2>2 DEF OrderRemoved
            <4>4. k \in 1..Count(levels, Opp, 1) /\ ~(k >= it)
                BY <2>3, <4>1, <4>2, <4>3
            <4> QED BY <1>2, <1>9, <2>2, <4>4 DEF OrderRemoved
        <3>2. orders[At(levels, Opp, 1, k)].userId = cmd.userId
            BY <2>1, <2>3, <3>1 DEF IInv, ScanInv
        <3>3. At(levels, Opp, 1, k) \in 1..Len(orders)
            BY <1>2, <2>2, <3>1 DEF IInv, StoreInv, Consistent, WellPlaced
        <3> QED BY <1>10, <3>1, <3>2, <3>3
    <2> QED BY <1>7, <1>14, <2>2, <2>3 DEF ScanInv
<1>17. RestInv'
    BY <1>1, <1>7 DEF Scanning, RestInv
<1> QED BY <1>12, <1>13, <1>15, <1>16, <1>17 DEF IInv

LEMMA DropLevelStep == IInv /\ DropLevel => IInv'
<1> SUFFICES ASSUME IInv, DropLevel PROVE IInv'
    OBVIOUS
<1>1. pc = "scan" /\ BestLevel.orders = <<>>
    BY DEF DropLevel, LevelDone
<1>2. /\ Opp \in Side /\ levels[Opp] \in Seq(PriceLevel) /\ 1 \in 1..Len(levels[Opp])
      /\ levels \in [Side -> Seq(PriceLevel)]
    BY <1>1, Matching DEF IInv, TypeOK, ScanInv, Depth
<1>3. /\ levels' = WithSide(levels, Opp, Tail(levels[Opp]))
      /\ pc' = "level" /\ it' = 1
      /\ UNCHANGED <<orders, ordersByKey, freeList, nextSequence, top, cmd, incomingQty, out>>
    BY DEF DropLevel, WithSide
<1>4. traded' \in BOOLEAN
    BY DEF DropLevel
<1>5. /\ levels' \in [Side -> Seq(PriceLevel)]
      /\ LevelRemoved(levels, levels', Opp, 1)
    BY <1>2, <1>3, RemovedFromLadder
<1>6. TypeOK'
    BY <1>1, <1>3, <1>4, <1>5 DEF IInv, TypeOK
<1>7. Count(levels, Opp, 1) = 0
    BY <1>1 DEF BestLevel, Count
<1>8. StoreInv'
    <2>1. Consistent(levels', orders)
        <3>1. Consistent(levels, orders) /\ 1 \in 1..Depth(levels, Opp)
            BY <1>2 DEF IInv, StoreInv, Depth
        <3> QED BY <1>2, <1>5, <1>7, <3>1, RemoveLevel
    <2> QED BY <1>3, <2>1 DEF IInv, StoreInv
<1>9. Filled'
    <2> SUFFICES ASSUME NEW sd \in Side, NEW n \in 1..Depth(levels', sd)
                 PROVE  Count(levels', sd, n) # 0
        BY DEF Filled
    <2> DEFINE m == IF sd = Opp /\ n >= 1 THEN n + 1 ELSE n
    <2>1. Count(levels', sd, n) = Count(levels, sd, m)
        BY <1>5 DEF LevelRemoved
    <2>2. Depth(levels', sd) = IF sd = Opp THEN Depth(levels, sd) - 1 ELSE Depth(levels, sd)
        BY <1>5 DEF LevelRemoved
    <2>3. Depth(levels, sd) \in Nat
        BY <1>2, LenProperties DEF Depth
    <2>4. m \in 1..Depth(levels, sd) /\ ~(sd = Opp /\ m = 1)
        BY <2>2, <2>3
    <2> HIDE DEF m
    <2> QED BY <2>1, <2>4 DEF IInv, Filled
<1> QED BY <1>3, <1>6, <1>8, <1>9 DEF IInv, ScanInv, RestInv

----------------------------------------------------------------------------
(* The actions that cancel and rest. *)

\* The order in the slot goes, from level n0 of its side.
Cancels(slot, n0) ==
    LET sd0 == orders[slot].side
        q == orders[slot].quantity
    IN  /\ slot \in 1..Len(orders) /\ q > 0 /\ q \in Int
        /\ sd0 \in Side /\ orders[slot].price \in Int /\ orders[slot].sequence \in Nat
        /\ n0 \in 1..Depth(levels, sd0)
        /\ \E k \in 1..Count(levels, sd0, n0) : At(levels, sd0, n0, k) = slot
        /\ levels' = WithSide(levels, sd0, DropIfEmpty(Dequeued(levels[sd0], n0, slot, q), n0))
        /\ orders' = Requantified(orders, slot, 0)
        /\ freeList' = Append(freeList, slot)

LEMMA CancelTarget ==
    ASSUME IInv, NEW c \in Cancel, CancelKnown(c)
    PROVE  /\ KeyOf(c) \in Key /\ KeyOf(orders[ordersByKey[KeyOf(c)]]) = KeyOf(c)
           /\ \E n0 : Cancels(ordersByKey[KeyOf(c)], n0)
<1> DEFINE slot == ordersByKey[KeyOf(c)]
           sd0 == orders[slot].side
           p == orders[slot].price
           q == orders[slot].quantity
           n0 == FindLevelIndex(sd0, levels[sd0], p)
<1>1. KeyOf(c) \in Key /\ slot # 0 /\ pc = "idle"
    BY DEF CancelKnown, KeyOf, Key, Cancel
<1>2. /\ levels \in [Side -> Seq(PriceLevel)] /\ orders \in Seq(Order)
      /\ ordersByKey \in [Key -> Nat] /\ freeList \in Seq(Nat \ {0}) /\ Len(orders) \in Nat
    BY LenProperties DEF IInv, TypeOK
<1>3. slot \in 1..Len(orders) /\ q > 0 /\ KeyOf(orders[slot]) = KeyOf(c)
    BY <1>1 DEF IInv, StoreInv, KeysSound
<1>4. sd0 \in Side /\ p \in Int /\ q \in Int /\ orders[slot].sequence \in Nat
    <2>1. orders[slot] \in Order
        BY <1>2, <1>3, ElementOfSeq
    <2> QED BY <2>1 DEF Order
<1>5. \E n \in 1..Depth(levels, sd0) :
         /\ PriceAt(levels, sd0, n) = p
         /\ \E k \in 1..Count(levels, sd0, n) : At(levels, sd0, n, k) = slot
    <2> HIDE DEF slot
    <2>1. Held(levels, slot) /\ WellPlaced(levels, orders)
        BY <1>3 DEF IInv, StoreInv, Consistent, Covered
    <2>2. PICK sd \in Side : \E n \in 1..Depth(levels, sd) : \E k \in 1..Count(levels, sd, n) :
                At(levels, sd, n, k) = slot
        BY <2>1 DEF Held
    <2>3. PICK n \in 1..Depth(levels, sd) : \E k \in 1..Count(levels, sd, n) :
                At(levels, sd, n, k) = slot
        BY <2>2
    <2>4. sd = sd0 /\ PriceAt(levels, sd, n) = p
        BY <2>1, <2>3 DEF WellPlaced
    <2> QED BY <2>3, <2>4
<1> HIDE DEF slot, sd0, p, q
<1>6. /\ n0 \in 1..Depth(levels, sd0) /\ HasLevel(sd0, levels[sd0], p)
      /\ \E k \in 1..Count(levels, sd0, n0) : At(levels, sd0, n0, k) = slot
    <2>1. PICK n \in 1..Depth(levels, sd0) :
             /\ PriceAt(levels, sd0, n) = p
             /\ \E k \in 1..Count(levels, sd0, n) : At(levels, sd0, n, k) = slot
        BY <1>5
    <2>2. /\ Len(levels[sd0]) \in Nat
          /\ \A i \in 1..Len(levels[sd0]) : levels[sd0][i].price \in Int
        BY <1>2, <1>4, LenProperties, LevelFacts
    <2>3. IsLadder(sd0, levels[sd0])
        BY <1>4 DEF IInv, StoreInv, Consistent, SortedLadders, IsLadder, Depth, PriceAt
    <2>4. n \in 1..Len(levels[sd0]) /\ levels[sd0][n].price = p
        BY <2>1 DEF Depth, PriceAt
    <2>5. n0 = n /\ HasLevel(sd0, levels[sd0], p)
        BY <1>4, <2>2, <2>3, <2>4, FindHitsLevel
    <2> QED BY <2>1, <2>5
<1> HIDE DEF n0
<1>7. /\ levels' = WithSide(levels, sd0, DropIfEmpty(Dequeued(levels[sd0], n0, slot, q), n0))
      /\ orders' = Requantified(orders, slot, 0)
      /\ freeList' = Append(freeList, slot)
    <2>1. levels' = IF q > 0 /\ HasLevel(sd0, levels[sd0], p)
                    THEN [levels EXCEPT ![sd0] = DropIfEmpty(Dequeued(@, n0, slot, q), n0)]
                    ELSE levels
        BY DEF CancelKnown, slot, sd0, p, q, n0
    <2>2. /\ orders' = Requantified(orders, slot, 0)
          /\ freeList' = Append(freeList, slot)
        BY DEF CancelKnown, slot, Requantified, Released
    <2> QED BY <1>3, <1>6, <2>1, <2>2 DEF WithSide
<1>8. Cancels(slot, n0)
    BY <1>3, <1>4, <1>6, <1>7 DEF Cancels, sd0, p, q
<1> QED BY <1>1, <1>3, <1>8 DEF slot

LEMMA CancelKnownStep ==
    ASSUME IInv, NEW c \in Cancel, CancelKnown(c)
    PROVE  IInv'
<1> DEFINE slot == ordersByKey[KeyOf(c)]
           sd0 == orders[slot].side
           q == orders[slot].quantity
<1>1. KeyOf(c) \in Key /\ pc = "idle"
    BY CancelTarget DEF CancelKnown
<1>2. /\ levels \in [Side -> Seq(PriceLevel)] /\ orders \in Seq(Order)
      /\ ordersByKey \in [Key -> Nat] /\ freeList \in Seq(Nat \ {0}) /\ Len(orders) \in Nat
    BY LenProperties DEF IInv, TypeOK
<1>3. KeyOf(orders[slot]) = KeyOf(c)
    BY CancelTarget
<1>4. PICK n0 : Cancels(slot, n0)
    BY CancelTarget
<1>5. /\ ordersByKey' = [ordersByKey EXCEPT ![KeyOf(c)] = 0]
      /\ pc' = "publish" /\ cmd' = c /\ out' = << AckLine(c) >>
      /\ UNCHANGED <<nextSequence, top, incomingQty, it, traded>>
    BY DEF CancelKnown, ErasedKey
<1> HIDE DEF slot
<1>6. /\ slot \in 1..Len(orders) /\ q > 0 /\ q \in Int
      /\ sd0 \in Side /\ orders[slot].sequence \in Nat
      /\ n0 \in 1..Depth(levels, sd0)
      /\ \E k \in 1..Count(levels, sd0, n0) : At(levels, sd0, n0, k) = slot
    BY <1>4 DEF Cancels
<1>7. /\ levels' = WithSide(levels, sd0, DropIfEmpty(Dequeued(levels[sd0], n0, slot, q), n0))
      /\ orders' = Requantified(orders, slot, 0)
      /\ freeList' = Append(freeList, slot)
    BY <1>4 DEF Cancels
<1> HIDE DEF sd0, q
<1>8. /\ orders' \in Seq(Order) /\ Len(orders') = Len(orders)
      /\ \A s \in 1..Len(orders) : s # slot => orders'[s] = orders[s]
      /\ orders'[slot].quantity = 0
      /\ orders'[slot].sequence = orders[slot].sequence
    BY <1>2, <1>6, <1>7, RequantifiedProps
<1>9. NoEmptyLevel(levels)
    BY <1>1 DEF IInv, Filled, NoEmptyLevel
<1>10. levels' \in [Side -> Seq(PriceLevel)] /\ Consistent(levels', orders') /\ NoEmptyLevel(levels')
    <2>1. Consistent(levels, orders)
        BY DEF IInv, StoreInv
    <2>2. orders'[slot].sequence \in Nat
        BY <1>6, <1>8
    <2> QED BY <1>2, <1>6, <1>7, <1>8, <1>9, <2>1, <2>2, DequeueOrder
<1>11. TypeOK'
    <2>1. out' \in Seq(Line)
        BY <1>5, AckIsLine
    <2>2. freeList' \in Seq(Nat \ {0})
        BY <1>2, <1>6, <1>7, AppendProperties
    <2>3. ordersByKey' \in [Key -> Nat]
        BY <1>2, <1>5
    <2>4. cmd' \in NewOrder \cup Cancel
        BY <1>5
    <2> QED BY <1>5, <1>7, <1>8, <1>10, <2>1, <2>2, <2>3, <2>4 DEF IInv, TypeOK
<1>12. StoreInv'
    <2>1. FreeSlots(freeList', orders')
        <3>1. FreeSlots(freeList, orders) /\ orders[slot].quantity > 0
            BY <1>6 DEF IInv, StoreInv, q
        <3> QED BY <1>2, <1>6, <1>7, <1>8, <3>1, ReleaseSlot
    <2>2. KeysSound(ordersByKey', orders')
        <3>1. KeysSound(ordersByKey, orders) /\ KeyOf(orders[slot]) \in Key
            BY <1>1, <1>3 DEF IInv, StoreInv
        <3>2. ordersByKey' = [ordersByKey EXCEPT ![KeyOf(orders[slot])] = 0]
            BY <1>3, <1>5
        <3> QED BY <1>2, <1>6, <1>8, <3>1, <3>2, EraseKey
    <2>3. Numbered(orders', nextSequence')
        BY <1>5, <1>6, <1>7, <1>8 DEF IInv, StoreInv, Numbered
    <2> QED BY <1>10, <2>1, <2>2, <2>3 DEF StoreInv
<1> QED BY <1>5, <1>7, <1>10, <1>11, <1>12 DEF IInv, Filled, ScanInv, RestInv, NoEmptyLevel

\* What is left of the order, o, is stored in the slot and joins its level.
Rests(slot, o) ==
    /\ incomingQty > 0 /\ incomingQty \in Int /\ nextSequence \in Nat \ {0}
    /\ cmd \in NewOrder /\ cmd.side \in Side /\ cmd.price \in Int
    /\ cmd.userId \in Users /\ cmd.userOrderId \in OrderIds
    /\ o \in Order /\ o.quantity = incomingQty /\ o.sequence = nextSequence
    /\ o.side = cmd.side /\ o.price = cmd.price /\ KeyOf(o) = KeyOf(cmd)
    /\ slot \in Nat \ {0}
    /\ Allocates(orders, o, slot, orders', freeList')
    /\ Queues(levels, orders, cmd.side, cmd.price, slot, incomingQty, levels')

LEMMA RestTarget == IInv /\ RestOrder => Rests(AllocatedSlot, IncomingOrder)
<1> SUFFICES ASSUME IInv, RestOrder PROVE Rests(AllocatedSlot, IncomingOrder)
    OBVIOUS
<1> DEFINE slot == AllocatedSlot
           o == IncomingOrder
           sd0 == cmd.side
           p == cmd.price
<1>1. /\ pc = "rest" /\ incomingQty > 0 /\ incomingQty \in Int
      /\ cmd \in NewOrder /\ sd0 \in Side /\ p \in Int
      /\ cmd.userId \in Users /\ cmd.userOrderId \in OrderIds
      /\ nextSequence \in Nat \ {0}
    BY Matching DEF RestOrder, IInv, RestInv, TypeOK
<1>2. /\ levels \in [Side -> Seq(PriceLevel)] /\ orders \in Seq(Order)
      /\ freeList \in Seq(Nat \ {0})
    BY DEF IInv, TypeOK
<1>3. /\ o \in Order /\ o.quantity = incomingQty /\ o.sequence = nextSequence
      /\ o.side = sd0 /\ o.price = p /\ KeyOf(o) = KeyOf(cmd)
    BY <1>1 DEF IncomingOrder, Order, KeyOf
<1>4. /\ orders' = StorageAfter(o)
      /\ freeList' = FreeListAfter
      /\ levels' = WithSide(levels, sd0, Enqueued(sd0, levels[sd0], p, slot, incomingQty))
    BY DEF RestOrder, WithSide
<1> HIDE DEF o, sd0, p
<1>5. Allocates(orders, o, slot, orders', freeList')
    <2>1. slot = IF freeList = <<>> THEN Len(orders) + 1 ELSE Last(freeList)
        BY DEF AllocatedSlot
    <2>2. StorageAfter(o) = IF freeList = <<>> THEN Append(orders, o)
                            ELSE [orders EXCEPT ![slot] = o]
        BY DEF StorageAfter
    <2>3. FreeListAfter = IF freeList = <<>> THEN <<>> ELSE Front(freeList)
        BY DEF FreeListAfter
    <2>4. FreeSlots(freeList, orders)
        BY DEF IInv, StoreInv
    <2>5. o.quantity > 0
        BY <1>1, <1>3
    <2> HIDE DEF slot
    <2> QED BY <1>2, <1>3, <1>4, <2>1, <2>2, <2>3, <2>4, <2>5, AllocateSlot
<1> HIDE DEF slot
<1>6. slot \in Nat \ {0}
    BY <1>5 DEF Allocates
<1>7. NoEmptyLevel(levels) /\ Consistent(levels, orders)
    BY <1>1 DEF IInv, StoreInv, Filled, NoEmptyLevel
<1>8. Queues(levels, orders, sd0, p, slot, incomingQty, levels')
    BY <1>1, <1>2, <1>4, <1>6, <1>7, EnqueueOrder
<1> QED BY <1>1, <1>3, <1>5, <1>6, <1>8 DEF Rests, sd0, p, o, slot

LEMMA RestOrderStep == IInv /\ RestOrder => IInv'
<1> SUFFICES ASSUME IInv, RestOrder PROVE IInv'
    OBVIOUS
<1> DEFINE slot == AllocatedSlot
           o == IncomingOrder
           sd0 == cmd.side
           p == cmd.price
<1>0. Rests(slot, o)
    BY RestTarget
<1>2. /\ levels \in [Side -> Seq(PriceLevel)] /\ orders \in Seq(Order)
      /\ ordersByKey \in [Key -> Nat] /\ freeList \in Seq(Nat \ {0}) /\ Len(orders) \in Nat
    BY LenProperties DEF IInv, TypeOK
<1>4. /\ nextSequence' = nextSequence + 1
      /\ ordersByKey' = [ordersByKey EXCEPT ![KeyOf(cmd)] = slot]
      /\ pc' = "publish"
      /\ UNCHANGED <<top, cmd, incomingQty, it, traded, out>>
    BY DEF RestOrder
<1> HIDE DEF o, slot
<1>1. /\ incomingQty > 0 /\ incomingQty \in Int
      /\ cmd \in NewOrder /\ sd0 \in Side /\ p \in Int
      /\ cmd.userId \in Users /\ cmd.userOrderId \in OrderIds
      /\ nextSequence \in Nat \ {0} /\ slot \in Nat \ {0}
    BY <1>0 DEF Rests
<1>3. /\ o \in Order /\ o.quantity = incomingQty /\ o.sequence = nextSequence
      /\ o.side = sd0 /\ o.price = p /\ KeyOf(o) = KeyOf(cmd)
    BY <1>0 DEF Rests
<1>5. /\ orders' \in Seq(Order) /\ Len(orders') \in Nat /\ slot \in 1..Len(orders')
      /\ orders'[slot] = o
      /\ \A s \in 1..Len(orders) : s \in 1..Len(orders') /\ (s # slot => orders'[s] = orders[s])
      /\ \A s \in 1..Len(orders') : s # slot => s \in 1..Len(orders)
      /\ slot \in 1..Len(orders) => ~(orders[slot].quantity > 0)
      /\ freeList' \in Seq(Nat \ {0}) /\ FreeSlots(freeList', orders')
    BY <1>0 DEF Rests, Allocates
<1>6. slot \in Nat \ {0}
    BY <1>1
<1>7. Consistent(levels, orders)
    BY DEF IInv, StoreInv
<1>8. /\ levels' \in [Side -> Seq(PriceLevel)] /\ NoEmptyLevel(levels')
      /\ \E K : \E n \in 1..Depth(K, sd0) :
            /\ Consistent(K, orders) /\ PriceAt(K, sd0, n) = p
            /\ OrderAppended(K, levels', sd0, n, slot)
    BY <1>0 DEF Rests, Queues, Joined
<1> HIDE DEF sd0, p
<1>9. Numbered(orders, nextSequence)
    BY DEF IInv, StoreInv
<1>10. Consistent(levels', orders')
    <2>1. PICK K : \E n \in 1..Depth(K, sd0) :
             /\ Consistent(K, orders) /\ PriceAt(K, sd0, n) = p
             /\ OrderAppended(K, levels', sd0, n, slot)
        BY <1>8
    <2>2. PICK n \in 1..Depth(K, sd0) :
             /\ Consistent(K, orders) /\ PriceAt(K, sd0, n) = p
             /\ OrderAppended(K, levels', sd0, n, slot)
        BY <2>1
    <2>3. /\ orders'[slot].quantity \in Int /\ orders'[slot].quantity > 0
          /\ orders'[slot].sequence \in Nat /\ orders'[slot].side = sd0
          /\ orders'[slot].price = PriceAt(K, sd0, n)
        BY <1>1, <1>3, <1>5, <2>2
    <2>4. \A s \in 1..Len(orders) : orders[s].sequence < orders'[slot].sequence
        BY <1>3, <1>5, <1>9 DEF Numbered
    <2> QED BY <1>1, <1>5, <2>2, <2>3, <2>4, AppendOrder
<1>11. KeyOf(cmd) \in Key
    BY <1>1 DEF KeyOf, Key
<1>12. TypeOK'
    <2>1. ordersByKey' \in [Key -> Nat]
        BY <1>2, <1>4, <1>6
    <2>2. nextSequence' \in Nat \ {0}
        BY <1>1, <1>4
    <2> QED BY <1>1, <1>4, <1>5, <1>8, <2>1, <2>2 DEF IInv, TypeOK
<1>13. StoreInv'
    <2>1. KeysSound(ordersByKey', orders')
        <3>1. /\ KeysSound(ordersByKey, orders) /\ KeyOf(orders'[slot]) = KeyOf(cmd)
              /\ orders'[slot].quantity > 0 /\ orders'[slot].sequence = nextSequence
            BY <1>1, <1>3, <1>5 DEF IInv, StoreInv
        <3>2. \A s \in 1..Len(orders) : orders[s].sequence \in Nat
            BY <1>7 DEF Consistent, Typed
        <3> QED BY <1>1, <1>2, <1>4, <1>5, <1>6, <1>9, <1>11, <3>1, <3>2, EnterKey
    <2>2. Numbered(orders', nextSequence')
        <3> SUFFICES ASSUME NEW s \in 1..Len(orders')
                     PROVE  orders'[s].sequence < nextSequence'
            BY DEF Numbered
        <3>1. CASE s = slot
            BY <1>1, <1>3, <1>4, <1>5, <3>1
        <3>2. CASE s # slot
            <4>1. s \in 1..Len(orders) /\ orders'[s] = orders[s] /\ orders[s].sequence \in Nat
                BY <1>5, <1>7, <3>2 DEF Consistent, Typed
            <4>2. orders[s].sequence < nextSequence
                BY <1>9, <4>1 DEF Numbered
            <4> QED BY <1>1, <1>4, <4>1, <4>2
        <3> QED BY <3>1, <3>2
    <2> QED BY <1>5, <1>10, <2>1, <2>2 DEF StoreInv
<1> QED BY <1>4, <1>8, <1>12, <1>13 DEF IInv, Filled, ScanInv, RestInv, NoEmptyLevel

----------------------------------------------------------------------------
(* Every step keeps the invariant. *)

LEMMA IInvStep == IInv /\ [Next]_vars => IInv'
<1> SUFFICES ASSUME IInv, [Next]_vars PROVE IInv'
    OBVIOUS
<1>1. ASSUME NEW c \in NewOrder, ProcessNewOrder(c)
      PROVE  IInv'
    BY <1>1, ProcessNewOrderStep
<1>2. ASSUME NEW c \in Cancel, ProcessCancel(c)
      PROVE  IInv'
    BY <1>2, CancelUnknownStep, CancelKnownStep DEF ProcessCancel
<1>3. CASE MatchStep
    BY <1>3, EnterLevelStep, StopMatchingStep, SkipOwnOrderStep, PartialFillStep,
       FullFillStep, DropLevelStep, LeaveLevelStep DEF MatchStep
<1>4. CASE RescanLevel
    BY <1>4, LeaveLevelStep
<1>5. CASE RestOrder
    BY <1>5, RestOrderStep
<1>6. CASE UpdateTopOfBook
    BY <1>6, UpdateTopOfBookStep
<1>7. CASE DeliverOutput
    BY <1>7, DeliverOutputStep
<1>8. CASE UNCHANGED vars
    <2>1. TypeOK'
        BY <1>8 DEF IInv, TypeOK, vars
    <2>2. StoreInv'
        BY <1>8, SameStore DEF IInv, vars, store
    <2> QED BY <1>8, <2>1, <2>2 DEF IInv, Filled, ScanInv, RestInv, vars, Opp, Depth, Count, At
<1> QED BY <1>1, <1>2, <1>3, <1>4, <1>5, <1>6, <1>7, <1>8
        DEF Next, ProcessingStep, MatchMarketBuy, MatchMarketSell, MatchLimitBuy,
            MatchLimitSell, LimitStep

THEOREM Invariance == Spec => []IInv
<1>1. Init => IInv
    BY InitIInv
<1>2. IInv /\ [Next]_vars => IInv'
    BY IInvStep
<1> QED BY <1>1, <1>2, PTL DEF Spec

----------------------------------------------------------------------------
(* What the invariant gives. *)

\* Every variable keeps its type: no index into a ladder, a deque, the storage or
\* the free list is ever out of range in a way that would leave it.
THEOREM TypeCorrect == Spec => []TypeOK
<1>1. IInv => TypeOK
    BY DEF IInv
<1> QED BY <1>1, Invariance, PTL

\* hpp:150-154: the ladders stay sorted, and every order stands alive on its side
\* at its price.
THEOREM LaddersStaySorted == Spec => []LadderSorted
<1>1. IInv => LadderSorted
    <2> SUFFICES ASSUME IInv PROVE LadderSorted
        OBVIOUS
    <2>0. SortedLadders(levels) /\ WellPlaced(levels, orders)
        BY DEF IInv, StoreInv, Consistent
    <2>1. ASSUME NEW sd \in Side
          PROVE  IsLadder(sd, levels[sd])
        BY <2>0 DEF SortedLadders, IsLadder, Depth, PriceAt
    <2>2. ASSUME NEW sd \in Side, NEW n \in 1..Len(levels[sd]), levels[sd][n].orders = <<>>
          PROVE  pc = "scan" /\ sd = Opp /\ n = 1
        <3>1. Count(levels, sd, n) = 0
            BY <2>2 DEF Count
        <3> QED BY <3>1 DEF IInv, Filled, Depth
    <2>3. ASSUME NEW sd \in Side, NEW n \in 1..Len(levels[sd]),
                 NEW k \in 1..Len(levels[sd][n].orders)
          PROVE  LET s == levels[sd][n].orders[k]
                 IN  /\ s \in Slots
                     /\ Alive(s)
                     /\ orders[s].side = sd
                     /\ orders[s].price = levels[sd][n].price
        BY <2>0 DEF WellPlaced, Depth, Count, At, PriceAt, Slots, Alive
    <2> QED BY <2>1, <2>2, <2>3, Zenon DEF LadderSorted
<1> QED BY <1>1, Invariance, PTL

\* Time priority: every deque holds its orders by arrival.
THEOREM QueuesStayFifo == Spec => []FifoPriority
<1>1. IInv => FifoPriority
    BY DEF IInv, StoreInv, Consistent, QueuesInOrder, Numbered, FifoPriority, Depth, Count, At, Slots
<1> QED BY <1>1, Invariance, PTL

\* OrderSlotPool: every slot is free, once, or at one place of one level.
THEOREM SlotsStayPartitioned == Spec => []SlotsPartitioned
<1>1. IInv => SlotsPartitioned
    <2> SUFFICES ASSUME IInv PROVE SlotsPartitioned
        OBVIOUS
    <2>1. FreeSlots(freeList, orders)
        BY DEF IInv, StoreInv
    <2>2. /\ Typed(levels, orders) /\ SortedLadders(levels) /\ WellPlaced(levels, orders)
          /\ QueuesInOrder(levels, orders) /\ Covered(levels, orders)
        BY DEF IInv, StoreInv, Consistent
    <2>3. ASSUME NEW sd \in Side, NEW sd2 \in Side,
                 NEW n \in 1..Depth(levels, sd), NEW n2 \in 1..Depth(levels, sd2),
                 NEW k \in 1..Count(levels, sd, n), NEW k2 \in 1..Count(levels, sd2, n2),
                 At(levels, sd, n, k) = At(levels, sd2, n2, k2)
          PROVE  sd = sd2 /\ n = n2 /\ k = k2
        BY <2>2, <2>3, PlaceUnique
    <2>4. ASSUME NEW s \in Slots
          PROVE  IF Alive(s)
                 THEN \E sd \in Side : \E n \in 1..Len(levels[sd]) :
                        \E k \in 1..Len(levels[sd][n].orders) : levels[sd][n].orders[k] = s
                 ELSE \E i \in 1..Len(freeList) : freeList[i] = s
        <3>1. CASE Alive(s)
            <4>1. Held(levels, s)
                BY <2>2, <3>1 DEF Covered, Slots, Alive
            <4> QED BY <3>1, <4>1 DEF Held, Depth, Count, At
        <3>2. CASE ~Alive(s)
            BY <2>1, <3>2 DEF FreeSlots, Slots, Alive
        <3> QED BY <3>1, <3>2
    <2>5. \A sd, sd2 \in Side : \A n \in 1..Len(levels[sd]), n2 \in 1..Len(levels[sd2]) :
         \A k \in 1..Len(levels[sd][n].orders), k2 \in 1..Len(levels[sd2][n2].orders) :
            levels[sd][n].orders[k] = levels[sd2][n2].orders[k2]
               => sd = sd2 /\ n = n2 /\ k = k2
        BY <2>3 DEF Depth, Count, At
    <2>6. /\ \A i, j \in 1..Len(freeList) : freeList[i] = freeList[j] => i = j
          /\ \A i \in 1..Len(freeList) : freeList[i] \in Slots /\ ~Alive(freeList[i])
        BY <2>1 DEF FreeSlots, Slots, Alive
    <2> QED BY <2>4, <2>5, <2>6 DEF SlotsPartitioned
<1> QED BY <1>1, Invariance, PTL

\* ordersByKey_: an entry leads to a live order with that key, the latest.
THEOREM KeyMapStaysSound == Spec => []KeyMapSound
<1>1. IInv => KeyMapSound
    BY DEF IInv, StoreInv, KeysSound, KeyMapSound, Slots, Alive
<1> QED BY <1>1, Invariance, PTL

====

---- MODULE EngineRules_proofs ----
(***************************************************************************)
(* Lemmas about the rules of a book and of an engine: the makers of a new  *)
(* order can be put in price-time order, a command leaves books that are   *)
(* finite and number their orders, and it puts out lines, whatever order   *)
(* a cancel visits the books in; and an order served all at once comes to  *)
(* the same as one served maker by maker.                                  *)
(***************************************************************************)
EXTENDS EngineRules, Foundations_proofs, SequenceTheorems

----------------------------------------------------------------------------
(* Flattened sequences. *)

\* flat is the function by which FlattenSeq concatenates.
Flattens(seqs, flat) ==
    flat = [i \in 1..Len(seqs) |-> IF i = 1 THEN seqs[i] ELSE flat[i - 1] \o seqs[i]]

LEMMA FlattenUnfold ==
    ASSUME NEW seqs, Len(seqs) # 0
    PROVE  FlattenSeq(seqs) = (CHOOSE flat : Flattens(seqs, flat))[Len(seqs)]
BY DEF FlattenSeq, Flattens

LEMMA FlattenEmpty == FlattenSeq(<<>>) = <<>>
BY DEF FlattenSeq

\* There is such a function: each sequence adds one value to it.
LEMMA FlattenDefined ==
    ASSUME NEW S, NEW seqs \in Seq(S)
    PROVE  \E flat : Flattens(seqs, flat)
<1> DEFINE Built(f, n) == f = [i \in 1..n |-> IF i = 1 THEN seqs[i] ELSE f[i - 1] \o seqs[i]]
           Bad == { n \in Nat : \A f : ~Built(f, n) }
<1>1. Bad = {}
    <2>1. SUFFICES ASSUME Bad # {} PROVE FALSE
        OBVIOUS
    <2>2. PICK n \in Bad : \A m \in Bad : n <= m
        BY <2>1, LeastNat
    <2>3. CASE n = 0
        <3>1. Built([i \in 1..0 |-> 0], 0)
            OBVIOUS
        <3> QED BY <2>2, <2>3, <3>1
    <2>4. CASE n # 0
        <3>1. n - 1 \in Nat /\ n \in Nat
            BY <2>2, <2>4
        <3>2. PICK f : Built(f, n - 1)
            <4> HIDE DEF Built
            <4>1. n - 1 \notin Bad
                BY <2>2, <3>1
            <4> QED BY <4>1, <3>1
        <3> DEFINE g == [i \in 1..n |-> IF i = 1 THEN seqs[i] ELSE f[i - 1] \o seqs[i]]
        <3>3. ASSUME NEW i \in 1..n, i # 1 PROVE g[i - 1] = f[i - 1]
            <4>1. i - 1 \in 1..(n - 1) /\ i - 1 \in 1..n
                BY <3>1, <3>3
            <4>2. g[i - 1] = IF i - 1 = 1 THEN seqs[i - 1] ELSE f[(i - 1) - 1] \o seqs[i - 1]
                BY <4>1
            <4>3. f[i - 1] = IF i - 1 = 1 THEN seqs[i - 1] ELSE f[(i - 1) - 1] \o seqs[i - 1]
                BY <3>2, <4>1
            <4> QED BY <4>2, <4>3
        <3>4. Built(g, n)
            BY <3>3
        <3> QED BY <2>2, <3>4
    <2> QED BY <2>3, <2>4
<1>2. Len(seqs) \in Nat
    BY LenProperties
<1>3. PICK f : Built(f, Len(seqs))
    <2> HIDE DEF Built
    <2>1. Len(seqs) \notin Bad
        BY <1>1
    <2> QED BY <2>1, <1>2
<1> QED BY <1>3 DEF Flattens

\* The functions of two sequences of sequences agree as far as these do.
LEMMA FlattensAgree ==
    ASSUME NEW seqs, NEW f, Flattens(seqs, f), Len(seqs) \in Nat,
           NEW others, NEW g, Flattens(others, g), Len(others) \in Nat,
           NEW n \in 1..Len(seqs), n <= Len(others),
           \A i \in 1..n : seqs[i] = others[i]
    PROVE  f[n] = g[n]
<1> DEFINE Bad == { i \in Nat : i \in 1..n /\ f[i] # g[i] }
<1>1. Bad = {}
    <2>1. SUFFICES ASSUME Bad # {} PROVE FALSE
        OBVIOUS
    <2>2. PICK i \in Bad : \A m \in Bad : i <= m
        BY <2>1, LeastNat
    <2>3. i \in 1..n /\ i \in 1..Len(seqs) /\ i \in 1..Len(others) /\ f[i] # g[i]
        BY <2>2
    <2>4. /\ f[i] = IF i = 1 THEN seqs[i] ELSE f[i - 1] \o seqs[i]
          /\ g[i] = IF i = 1 THEN others[i] ELSE g[i - 1] \o others[i]
        BY <2>3 DEF Flattens
    <2>5. i # 1 => f[i - 1] = g[i - 1]
        BY <2>2, <2>3
    <2> QED BY <2>3, <2>4, <2>5
<1> QED BY <1>1

\* A sequence of sequences and one more.
LEMMA FlattenAppend ==
    ASSUME NEW S, NEW seqs \in Seq(Seq(S)), NEW last \in Seq(S)
    PROVE  FlattenSeq(Append(seqs, last)) = FlattenSeq(seqs) \o last
<1> DEFINE all == Append(seqs, last)
           n == Len(seqs)
<1>1. /\ n \in Nat /\ all \in Seq(Seq(S)) /\ Len(all) = n + 1
      /\ all[n + 1] = last /\ \A i \in 1..n : all[i] = seqs[i]
    BY LenProperties, AppendProperties
<1> HIDE DEF all
<1>2. PICK f : Flattens(all, f)
    BY <1>1, FlattenDefined
<1> DEFINE h == CHOOSE flat : Flattens(all, flat)
<1>3. Flattens(all, h)
    BY <1>2
<1>4. FlattenSeq(all) = h[n + 1]
    BY <1>1, FlattenUnfold
<1> HIDE DEF h
<1>5. h[n + 1] = IF n + 1 = 1 THEN last ELSE h[n] \o last
    <2>1. n + 1 \in 1..Len(all) /\ (n + 1) - 1 = n
        BY <1>1
    <2>2. h[n + 1] = IF n + 1 = 1 THEN all[n + 1] ELSE h[(n + 1) - 1] \o all[n + 1]
        BY <1>3, <2>1 DEF Flattens
    <2> QED BY <1>1, <2>1, <2>2
<1>6. CASE n = 0
    <2>1. seqs = <<>> /\ FlattenSeq(seqs) = <<>>
        BY <1>6, FlattenEmpty, EmptySeq
    <2>2. <<>> \o last = last
        BY ConcatEmptySeq
    <2> QED BY <1>4, <1>5, <1>6, <2>1, <2>2 DEF all
<1>7. CASE n # 0
    <2>1. PICK g : Flattens(seqs, g)
        BY FlattenDefined
    <2> DEFINE k == CHOOSE flat : Flattens(seqs, flat)
    <2>2. Flattens(seqs, k)
        BY <2>1
    <2>3. FlattenSeq(seqs) = k[n]
        BY <1>7, FlattenUnfold
    <2> HIDE DEF k
    <2>4. k[n] = h[n]
        <3>1. n \in 1..Len(seqs) /\ n <= Len(all) /\ Len(all) \in Nat /\ Len(seqs) \in Nat
            BY <1>1, <1>7
        <3>2. \A i \in 1..n : seqs[i] = all[i]
            BY <1>1
        <3> QED BY <1>3, <2>2, <3>1, <3>2, FlattensAgree
    <2> QED BY <1>1, <1>4, <1>5, <1>7, <2>3, <2>4 DEF all
<1> QED BY <1>6, <1>7

LEMMA FlattenType ==
    ASSUME NEW S, NEW seqs \in Seq(Seq(S))
    PROVE  FlattenSeq(seqs) \in Seq(S)
<1>1. Len(seqs) \in Nat /\ \A i \in 1..Len(seqs) : seqs[i] \in Seq(S)
    BY LenProperties, ElementOfSeq
<1>2. CASE Len(seqs) = 0
    BY <1>2, FlattenEmpty, EmptySeq
<1>3. CASE Len(seqs) # 0
    <2>1. PICK g : Flattens(seqs, g)
        BY FlattenDefined
    <2> DEFINE k == CHOOSE flat : Flattens(seqs, flat)
    <2>2. Flattens(seqs, k)
        BY <2>1
    <2>3. FlattenSeq(seqs) = k[Len(seqs)]
        BY <1>3, FlattenUnfold
    <2> HIDE DEF k
    <2> DEFINE Bad == { i \in Nat : i \in 1..Len(seqs) /\ k[i] \notin Seq(S) }
    <2>4. Bad = {}
        <3>1. SUFFICES ASSUME Bad # {} PROVE FALSE
            OBVIOUS
        <3>2. PICK i \in Bad : \A m \in Bad : i <= m
            BY <3>1, LeastNat
        <3>3. k[i] = IF i = 1 THEN seqs[i] ELSE k[i - 1] \o seqs[i]
            BY <3>2, <2>2 DEF Flattens
        <3>4. i # 1 => k[i - 1] \in Seq(S)
            BY <3>2
        <3>5. i # 1 => k[i - 1] \o seqs[i] \in Seq(S)
            BY <1>1, <3>2, <3>4, ConcatProperties
        <3> QED BY <1>1, <3>2, <3>3, <3>5
    <2> QED BY <1>1, <1>3, <2>3, <2>4
<1> QED BY <1>2, <1>3

----------------------------------------------------------------------------
(* Price-time order. *)

\* Orders that price and arrival tell apart.
Rankable(os) ==
    /\ os \subseteq Order
    /\ \A o, p \in os : o.side = p.side /\ (o.sequence = p.sequence => o = p)

LEMMA AheadIsTotal ==
    ASSUME NEW os, Rankable(os), NEW o \in os, NEW p \in os
    PROVE  /\ o # p => Ahead(o, p) \/ Ahead(p, o)
           /\ ~(Ahead(o, p) /\ Ahead(p, o))
<1>1. /\ o.price \in Int /\ p.price \in Int /\ o.sequence \in Nat /\ p.sequence \in Nat
      /\ o.side \in Side /\ o.side = p.side /\ (o.sequence = p.sequence => o = p)
    BY DEF Rankable, Order
<1> QED BY ONLY <1>1 DEF Ahead, Better, Side

LEMMA AheadIsTransitive ==
    ASSUME NEW os, Rankable(os), NEW o \in os, NEW p \in os, NEW q \in os,
           Ahead(o, p), Ahead(p, q)
    PROVE  Ahead(o, q)
<1>1. /\ o.price \in Int /\ p.price \in Int /\ q.price \in Int
      /\ o.sequence \in Nat /\ p.sequence \in Nat /\ q.sequence \in Nat
      /\ o.side \in Side /\ o.side = p.side /\ p.side = q.side
    BY DEF Rankable, Order
<1>2. Ahead(o, p) /\ Ahead(p, q)
    OBVIOUS
<1> QED BY ONLY <1>1, <1>2 DEF Ahead, Better, Side

\* One of finitely many orders is behind all others.
LEMMA LastOrder ==
    ASSUME NEW os, Rankable(os), IsFiniteSet(os), os # {}
    PROVE  \E m \in os : \A o \in os \ {m} : Ahead(o, m)
<1> DEFINE Hindmost(s, m) == m \in s /\ \A o \in s \ {m} : Ahead(o, m)
           Bad == { n \in Nat : \E s \in SUBSET os :
                       s # {} /\ Cardinality(s) = n /\ \A m : ~Hindmost(s, m) }
<1>1. \A s \in SUBSET os : IsFiniteSet(s) /\ Cardinality(s) \in Nat
    BY FS_Subset, FS_CardinalityType
<1>2. Bad = {}
    <2>1. SUFFICES ASSUME Bad # {} PROVE FALSE
        OBVIOUS
    <2>2. PICK n \in Bad : \A m \in Bad : n <= m
        BY <2>1, LeastNat
    <2>3. PICK s \in SUBSET os : s # {} /\ Cardinality(s) = n /\ \A m : ~Hindmost(s, m)
        BY <2>2
    <2>4. PICK x \in s : TRUE
        BY <2>3
    <2> DEFINE t == s \ {x}
    <2>5. Cardinality(t) = n - 1 /\ t \in SUBSET os /\ n \in Nat /\ Cardinality(t) \in Nat
        BY <1>1, <2>3, FS_RemoveElement
    <2>6. CASE t = {}
        BY <2>3, <2>6
    <2>7. CASE t # {}
        <3>1. PICK m : Hindmost(t, m)
            <4> HIDE DEF Hindmost, t
            <4>1. n - 1 \notin Bad
                BY <2>2, <2>5
            <4> QED BY <4>1, <2>5, <2>7
        <3>2. CASE Ahead(x, m)
            BY <2>3, <3>1, <3>2
        <3>3. CASE ~Ahead(x, m)
            <4>1. Ahead(m, x)
                BY <3>1, <3>3, AheadIsTotal
            <4>2. \A o \in t : Ahead(o, x)
                BY <3>1, <4>1, AheadIsTransitive
            <4> QED BY <2>3, <4>2
        <3> QED BY <3>2, <3>3
    <2> QED BY <2>6, <2>7
<1>3. Cardinality(os) \in Nat /\ Cardinality(os) \notin Bad
    BY <1>1, <1>2
<1> QED BY <1>3

Sorted(s) == \A i, j \in 1..Len(s) : i < j => Ahead(s[i], s[j])

\* An enumeration of a finite set names each element once.
Enumerates(s, S) ==
    /\ s \in Seq(S) /\ Len(s) = Cardinality(S)
    /\ \A i, j \in 1..Len(s) : i # j => s[i] # s[j]
    /\ \A x \in S : \E i \in 1..Len(s) : s[i] = x

LEMMA Enumerations ==
    ASSUME NEW S, IsFiniteSet(S), NEW s \in SetToSeqs(S)
    PROVE  Enumerates(s, S)
<1> DEFINE n == Cardinality(S)
<1>1. n \in Nat
    BY FS_CardinalityType
<1>2. s \in [1..n -> S] /\ \A i, j \in 1..n : i # j => s[i] # s[j]
    BY DEF SetToSeqs
<1>3. s \in Seq(S) /\ Len(s) = n
    BY <1>1, <1>2, IsASeq, LenProperties
<1>4. s \in Injection(1..n, S)
    BY <1>2 DEF Injection, IsInjective
<1>5. Cardinality(1..n) = n
    BY <1>1, FS_Interval
<1>6. s \in Surjection(1..n, S)
    BY <1>4, <1>5, FS_Injection
<1>7. \A x \in S : \E i \in 1..n : s[i] = x
    BY <1>6 DEF Surjection
<1> QED BY <1>2, <1>3, <1>7 DEF Enumerates

\* One element more, at the end.
LEMMA EnumerationGrows ==
    ASSUME NEW T, IsFiniteSet(T), NEW t \in SetToSeqs(T), NEW m, m \notin T
    PROVE  Append(t, m) \in SetToSeqs(T \cup {m})
<1> DEFINE S == T \cup {m}
           n == Cardinality(T)
           s == Append(t, m)
<1>1. n \in Nat /\ Cardinality(S) = n + 1
    BY FS_CardinalityType, FS_AddElement
<1>2. /\ t \in Seq(T) /\ Len(t) = n
      /\ \A i, j \in 1..n : i # j => t[i] # t[j]
    BY Enumerations DEF Enumerates
<1>3. t \in Seq(S) /\ \A i \in 1..n : t[i] \in T
    BY <1>2, ElementOfSeq, SeqMonotonic
<1>4. /\ s \in Seq(S) /\ Len(s) = n + 1 /\ s[n + 1] = m
      /\ \A i \in 1..n : s[i] = t[i]
    BY <1>2, <1>3, AppendProperties
<1> HIDE DEF s, S, n
<1>5. s \in [1..(n + 1) -> S]
    BY <1>4, LenProperties
<1>6. \A i \in 1..(n + 1) : i = n + 1 \/ i \in 1..n
    BY <1>1
<1>7. \A i, j \in 1..(n + 1) : i # j => s[i] # s[j]
    BY <1>2, <1>3, <1>4, <1>6
<1> QED BY <1>1, <1>5, <1>7 DEF SetToSeqs, s, S

LEMMA SortedExists ==
    ASSUME NEW os, Rankable(os), IsFiniteSet(os)
    PROVE  \E s \in SetToSeqs(os) : Sorted(s)
<1> DEFINE Listed(S, s) == s \in SetToSeqs(S) /\ Sorted(s)
           Bad == { n \in Nat : \E S \in SUBSET os : Cardinality(S) = n /\ \A s : ~Listed(S, s) }
<1>1. \A S \in SUBSET os : IsFiniteSet(S) /\ Cardinality(S) \in Nat /\ Rankable(S)
    BY FS_Subset, FS_CardinalityType DEF Rankable
<1>2. Bad = {}
    <2>1. SUFFICES ASSUME Bad # {} PROVE FALSE
        OBVIOUS
    <2>2. PICK n \in Bad : \A m \in Bad : n <= m
        BY <2>1, LeastNat
    <2>3. PICK S \in SUBSET os : Cardinality(S) = n /\ \A s : ~Listed(S, s)
        BY <2>2
    <2>4. CASE S = {}
        <3> DEFINE s == [i \in 1..0 |-> 0]
        <3>1. Cardinality(S) = 0
            BY <2>4, FS_EmptySet
        <3>2. s \in [1..Cardinality(S) -> S]
            BY <3>1
        <3>3. s \in SetToSeqs(S)
            BY <3>1, <3>2 DEF SetToSeqs
        <3>4. s = <<>> /\ Len(s) = 0
            OBVIOUS
        <3>5. Sorted(s)
            BY <3>4 DEF Sorted
        <3> QED BY <2>3, <3>3, <3>5
    <2>5. CASE S # {}
        <3>1. PICK m \in S : \A o \in S \ {m} : Ahead(o, m)
            BY <1>1, <2>5, LastOrder
        <3> DEFINE T == S \ {m}
        <3>2. Cardinality(T) = n - 1 /\ T \in SUBSET os /\ n \in Nat /\ Cardinality(T) \in Nat
            BY <1>1, <2>3, FS_RemoveElement
        <3>3. PICK t : Listed(T, t)
            <4> HIDE DEF Listed, T
            <4>1. n - 1 \notin Bad
                BY <2>2, <3>2
            <4> QED BY <4>1, <3>2
        <3> HIDE DEF T
        <3>4. Enumerates(t, T)
            BY <1>1, <3>2, <3>3, Enumerations
        <3> DEFINE s == Append(t, m)
        <3>5. t \in Seq(S) /\ Len(t) = n - 1 /\ \A i \in 1..(n - 1) : t[i] \in S \ {m}
            <4>1. t \in Seq(T) /\ Len(t) = n - 1
                BY <3>2, <3>4 DEF Enumerates
            <4>2. \A i \in 1..(n - 1) : t[i] \in T
                BY <4>1, ElementOfSeq
            <4>3. t \in Seq(S)
                BY <4>1, SeqMonotonic DEF T
            <4> QED BY <4>1, <4>2, <4>3 DEF T
        <3>6. /\ Len(s) = n /\ s[n] = m
              /\ \A i \in 1..(n - 1) : s[i] = t[i]
            BY <3>2, <3>5, AppendProperties
        <3>7. s \in SetToSeqs(S)
            <4>1. IsFiniteSet(T) /\ m \notin T /\ T \cup {m} = S
                BY <1>1, <3>2 DEF T
            <4> QED BY <3>3, <4>1, EnumerationGrows
        <3> HIDE DEF s
        <3>8. \A i \in 1..n : i # n => i \in 1..(n - 1)
            BY <3>2
        <3>9. Sorted(s)
            <4>1. SUFFICES ASSUME NEW i \in 1..n, NEW j \in 1..n, i < j
                           PROVE  Ahead(s[i], s[j])
                BY <3>6 DEF Sorted
            <4>2. i \in 1..(n - 1)
                BY <4>1, <3>2
            <4>3. CASE j = n
                BY <3>1, <3>5, <3>6, <4>2, <4>3
            <4>4. CASE j # n
                BY <3>3, <3>5, <3>6, <3>8, <4>1, <4>2, <4>4 DEF Sorted
            <4> QED BY <4>3, <4>4
        <3> QED BY <2>3, <3>7, <3>9
    <2> QED BY <2>4, <2>5
<1>3. Cardinality(os) \in Nat /\ Cardinality(os) \notin Bad
    BY <1>1, <1>2
<1> QED BY <1>3

\* InOrder puts every order of a side in its place.
LEMMA InOrderSorts ==
    ASSUME NEW os, Rankable(os), IsFiniteSet(os)
    PROVE  Enumerates(InOrder(os), os) /\ Sorted(InOrder(os))
<1>1. \E s \in SetToSeqs(os) : \A i, j \in 1..Len(s) : i < j => Ahead(s[i], s[j])
    BY SortedExists DEF Sorted
<1>2. InOrder(os) \in SetToSeqs(os) /\ Sorted(InOrder(os))
    BY <1>1 DEF InOrder, Sorted
<1> QED BY <1>2, Enumerations

----------------------------------------------------------------------------
(* The rules of one book. *)

\* A book holds finitely many orders, each numbered below the next number.
SoundBook(book) ==
    /\ book \in Book /\ IsFiniteSet(book.resting)
    /\ \A o \in book.resting : o.sequence < book.nextSequence
    /\ \A o, p \in book.resting : o.sequence = p.sequence => o = p

\* What the rules use of a new order, with or without its symbol.
Entering(c) ==
    /\ c.type = "NewOrder" /\ c.userId \in Users /\ c.userOrderId \in OrderIds
    /\ c.side \in Side /\ c.price \in Int /\ c.quantity \in Int

Cancelling(c) == c.type = "Cancel" /\ c.userId \in Users /\ c.userOrderId \in OrderIds

LEMMA EmptyBookSound == SoundBook(EmptyBook)
<1>1. IsFiniteSet({})
    BY FS_EmptySet
<1>2. EmptyBook \in Book /\ EmptyBook.resting = {}
    BY DEF EmptyBook, Book
<1> QED BY <1>1, <1>2 DEF SoundBook

LEMMA QtyIsInt ==
    ASSUME NEW os, os \subseteq Order, IsFiniteSet(os)
    PROVE  QtyOf(os) \in Int
<1> DEFINE fun == [o \in os |-> o.quantity]
<1>1. \A o \in os : fun[o] \in Int
    BY DEF Order
<1>2. DOMAIN fun = os
    OBVIOUS
<1> HIDE DEF fun
<1>3. SumFunctionOnSet(fun, os) \in Int
    BY <1>1, SumType
<1>4. SumFunction(fun) = SumFunctionOnSet(fun, os)
    BY <1>2 DEF SumFunction, SumFunctionOnSet, FoldFunction
<1> QED BY <1>3, <1>4 DEF QtyOf, fun

\* The orders a new order trades with, and how much.
FillsWell(fills, resting, c) ==
    /\ fills = [o \in DOMAIN fills |-> fills[o]]
    /\ DOMAIN fills \subseteq Eligible(resting, c)
    /\ Rankable(DOMAIN fills) /\ IsFiniteSet(DOMAIN fills)
    /\ \A o \in DOMAIN fills : fills[o] \in Int /\ fills[o] <= o.quantity

LEMMA EligibleRests ==
    ASSUME NEW resting, NEW c
    PROVE  Eligible(resting, c) \subseteq resting
BY DEF Eligible, Opposing

\* What those ahead of o leave of c.
LeftFor(o, resting, c) ==
    c.quantity - QtyOf({ p \in Eligible(resting, c) : Ahead(p, o) })

\* Those trade for whom something is left.
FillsAsLeft(fills, resting, c) ==
    /\ fills = [o \in DOMAIN fills |-> fills[o]]
    /\ DOMAIN fills = { o \in Eligible(resting, c) : LeftFor(o, resting, c) > 0 }
    /\ \A o \in DOMAIN fills :
          /\ LeftFor(o, resting, c) \in Int
          /\ fills[o] = SmallerOf(LeftFor(o, resting, c), o.quantity)

LEMMA FillsAre ==
    ASSUME NEW book, SoundBook(book), NEW c, Entering(c)
    PROVE  FillsAsLeft(Fills(book.resting, c), book.resting, c)
<1> DEFINE fills == Fills(book.resting, c)
           eligible == Eligible(book.resting, c)
           left == [o \in eligible |-> c.quantity - QtyOf({ p \in eligible : Ahead(p, o) })]
<1>1. eligible \subseteq book.resting /\ book.resting \subseteq Order
    BY EligibleRests DEF SoundBook, Book
<1>2. IsFiniteSet(eligible)
    BY <1>1, FS_Subset DEF SoundBook
<1>3. \A o \in eligible : left[o] = LeftFor(o, book.resting, c)
    BY DEF LeftFor
<1>4. ASSUME NEW o \in eligible PROVE LeftFor(o, book.resting, c) \in Int
    <2> DEFINE before == { p \in eligible : Ahead(p, o) }
    <2>1. before \subseteq eligible
        OBVIOUS
    <2>2. IsFiniteSet(before) /\ before \subseteq Order
        BY <1>1, <1>2, <2>1, FS_Subset
    <2> HIDE DEF before
    <2>3. QtyOf(before) \in Int /\ c.quantity \in Int
        BY <2>2, QtyIsInt DEF Entering
    <2>4. LeftFor(o, book.resting, c) = c.quantity - QtyOf(before)
        BY DEF before, LeftFor
    <2> QED BY <2>3, <2>4
<1> HIDE DEF left, eligible
<1>5. fills = [o \in { p \in eligible : left[p] > 0 } |-> SmallerOf(left[o], o.quantity)]
    BY DEF Fills, left, eligible
<1> HIDE DEF fills
<1>6. DOMAIN fills = { p \in eligible : left[p] > 0 } /\ fills = [o \in DOMAIN fills |-> fills[o]]
    BY <1>5
<1>7. DOMAIN fills = { p \in eligible : LeftFor(p, book.resting, c) > 0 }
    BY <1>3, <1>6
<1>8. \A o \in DOMAIN fills :
          /\ LeftFor(o, book.resting, c) \in Int
          /\ fills[o] = SmallerOf(LeftFor(o, book.resting, c), o.quantity)
    BY <1>3, <1>4, <1>5, <1>6
<1> QED BY <1>6, <1>7, <1>8 DEF FillsAsLeft, fills, eligible

LEMMA FillsFacts ==
    ASSUME NEW book, SoundBook(book), NEW c, Entering(c)
    PROVE  FillsWell(Fills(book.resting, c), book.resting, c)
<1> DEFINE fills == Fills(book.resting, c)
           eligible == Eligible(book.resting, c)
<1>1. eligible \subseteq book.resting /\ book.resting \subseteq Order
    BY EligibleRests DEF SoundBook, Book
<1>2. FillsAsLeft(fills, book.resting, c)
    BY FillsAre
<1> HIDE DEF fills
<1>3. DOMAIN fills \subseteq eligible
    BY <1>2 DEF FillsAsLeft
<1>4. \A o \in eligible : o.side = Opposite(c.side)
    BY DEF Eligible, Opposing
<1> HIDE DEF eligible
<1>5. IsFiniteSet(DOMAIN fills)
    BY <1>1, <1>3, FS_Subset DEF SoundBook
<1>6. Rankable(DOMAIN fills)
    BY <1>1, <1>3, <1>4 DEF Rankable, SoundBook
<1>7. ASSUME NEW o \in DOMAIN fills PROVE fills[o] \in Int /\ fills[o] <= o.quantity
    <2>1. /\ LeftFor(o, book.resting, c) \in Int
          /\ fills[o] = SmallerOf(LeftFor(o, book.resting, c), o.quantity)
        BY <1>2 DEF FillsAsLeft
    <2>2. o.quantity \in Int
        BY <1>1, <1>3 DEF Order
    <2> QED BY <2>1, <2>2 DEF SmallerOf
<1>8. fills = [o \in DOMAIN fills |-> fills[o]]
    BY <1>2 DEF FillsAsLeft
<1> QED BY <1>3, <1>5, <1>6, <1>7, <1>8 DEF FillsWell, fills, eligible

\* One line a maker, in order.
ListsTrades(lines, fills, c) ==
    LET makers == InOrder(DOMAIN fills)
    IN  /\ lines \in Seq(Line) /\ Len(lines) = Cardinality(DOMAIN fills)
        /\ \A i \in 1..Len(lines) :
              /\ makers[i] \in DOMAIN fills
              /\ lines[i] = TradeLine(c, makers[i], fills[makers[i]])

LEMMA TradeLineType ==
    ASSUME NEW c, Entering(c), NEW o \in Order, NEW q \in Int
    PROVE  TradeLine(c, o, q) \in Line /\ TradeLine(c, o, q).type = "T"
<1>1. KeyOf(o) \in Key /\ KeyOf(c) \in Key /\ o.price \in Int
    BY DEF KeyOf, Key, Order, Entering
<1> QED BY <1>1 DEF TradeLine, Line

LEMMA TradesListed ==
    ASSUME NEW book, SoundBook(book), NEW c, Entering(c)
    PROVE  ListsTrades(TradeLines(book.resting, c), Fills(book.resting, c), c)
<1> DEFINE fills == Fills(book.resting, c)
           makers == InOrder(DOMAIN fills)
           lines == TradeLines(book.resting, c)
<1>1. FillsWell(fills, book.resting, c)
    BY FillsFacts
<1> HIDE DEF fills
<1>2. Enumerates(makers, DOMAIN fills) /\ Cardinality(DOMAIN fills) \in Nat
    BY <1>1, InOrderSorts, FS_CardinalityType DEF FillsWell
<1>3. lines = [i \in 1..Len(makers) |-> TradeLine(c, makers[i], fills[makers[i]])]
    BY DEF TradeLines, fills
<1> HIDE DEF makers, lines
<1>4. Len(makers) = Cardinality(DOMAIN fills) /\ \A i \in 1..Len(makers) : makers[i] \in DOMAIN fills
    BY <1>2, ElementOfSeq DEF Enumerates
<1>5. \A o \in DOMAIN fills : o \in Order /\ fills[o] \in Int
    BY <1>1 DEF FillsWell, Rankable
<1>6. \A i \in 1..Len(makers) : TradeLine(c, makers[i], fills[makers[i]]) \in Line
    BY <1>4, <1>5, TradeLineType
<1>7. lines \in Seq(Line)
    BY <1>2, <1>3, <1>4, <1>6, IsASeq
<1>8. Len(lines) = Len(makers)
    BY <1>2, <1>3, <1>4, <1>7, LenProperties
<1> QED BY <1>3, <1>4, <1>7, <1>8 DEF ListsTrades, fills, makers, lines

LEMMA SumIsInt ==
    ASSUME NEW fun, IsFiniteSet(DOMAIN fun), \A x \in DOMAIN fun : fun[x] \in Int
    PROVE  SumFunction(fun) \in Int
<1>1. SumFunction(fun) = SumFunctionOnSet(fun, DOMAIN fun)
    BY DEF SumFunction, SumFunctionOnSet, FoldFunction
<1> QED BY <1>1, SumType

\* The parts of AfterNewOrder, named.
FilledBy(fills) == { o \in DOMAIN fills : fills[o] = o.quantity }
ReducedBy(fills) == { [o EXCEPT !.quantity = @ - fills[o]] : o \in DOMAIN fills \ FilledBy(fills) }
LeftAfter(resting, fills) == (resting \ DOMAIN fills) \cup ReducedBy(fills)
KeysLeft(byKey, fills) ==
    [k \in Key |-> IF \E o \in FilledBy(fills) : KeyOf(o) = k THEN 0 ELSE byKey[k]]
Newcomer(c, left, n) ==
    [userId |-> c.userId, userOrderId |-> c.userOrderId, side |-> c.side,
     price |-> c.price, quantity |-> left, sequence |-> n]
Comes(c, fills) == c.price # 0 /\ c.quantity - SumFunction(fills) > 0

AfterFills(book, c, fills) ==
    IF Comes(c, fills)
    THEN [resting |-> LeftAfter(book.resting, fills)
                        \cup {Newcomer(c, c.quantity - SumFunction(fills), book.nextSequence)},
          byKey |-> [KeysLeft(book.byKey, fills) EXCEPT ![KeyOf(c)] = book.nextSequence],
          nextSequence |-> book.nextSequence + 1]
    ELSE [resting |-> LeftAfter(book.resting, fills), byKey |-> KeysLeft(book.byKey, fills),
          nextSequence |-> book.nextSequence]

LEMMA BookChanged ==
    ASSUME NEW book \in Book
    PROVE  \A r, k : [book EXCEPT !.resting = r, !.byKey = k]
                        = [resting |-> r, byKey |-> k, nextSequence |-> book.nextSequence]
<1>1. book = [resting |-> book.resting, byKey |-> book.byKey, nextSequence |-> book.nextSequence]
    BY DEF Book
<1>2. ASSUME NEW r, NEW k
      PROVE  [book EXCEPT !.resting = r, !.byKey = k]
                = [resting |-> r, byKey |-> k, nextSequence |-> book.nextSequence]
    <2> DEFINE half == [book EXCEPT !.resting = r]
    <2>1. half = [resting |-> r, byKey |-> book.byKey, nextSequence |-> book.nextSequence]
        BY <1>1
    <2>2. [book EXCEPT !.resting = r, !.byKey = k] = [half EXCEPT !.byKey = k]
        OBVIOUS
    <2> HIDE DEF half
    <2>3. [half EXCEPT !.byKey = k] = [resting |-> r, byKey |-> k, nextSequence |-> book.nextSequence]
        BY <2>1
    <2> QED BY <2>2, <2>3
<1> QED BY <1>2

LEMMA AfterNewOrderIs ==
    ASSUME NEW book \in Book, NEW c
    PROVE  AfterNewOrder(book, c) = AfterFills(book, c, Fills(book.resting, c))
<1> DEFINE fills == Fills(book.resting, c)
           left == c.quantity - SumFunction(fills)
           filled == { o \in DOMAIN fills : fills[o] = o.quantity }
           reduced == { [o EXCEPT !.quantity = @ - fills[o]] : o \in DOMAIN fills \ filled }
           after == (book.resting \ DOMAIN fills) \cup reduced
           keys == [k \in Key |-> IF \E o \in filled : KeyOf(o) = k THEN 0 ELSE book.byKey[k]]
<1>1. AfterNewOrder(book, c) =
        IF c.price # 0 /\ left > 0
        THEN [resting |-> after \cup
                { [userId |-> c.userId, userOrderId |-> c.userOrderId, side |-> c.side,
                   price |-> c.price, quantity |-> left, sequence |-> book.nextSequence] },
              byKey |-> [keys EXCEPT ![KeyOf(c)] = book.nextSequence],
              nextSequence |-> book.nextSequence + 1]
        ELSE [book EXCEPT !.resting = after, !.byKey = keys]
    BY DEF AfterNewOrder
<1>2. filled = FilledBy(fills) /\ reduced = ReducedBy(fills)
    BY DEF FilledBy, ReducedBy
<1>3. after = LeftAfter(book.resting, fills) /\ keys = KeysLeft(book.byKey, fills)
    BY <1>2 DEF LeftAfter, KeysLeft
<1> HIDE DEF fills, filled, reduced, after, keys
<1>4. [book EXCEPT !.resting = after, !.byKey = keys]
        = [resting |-> after, byKey |-> keys, nextSequence |-> book.nextSequence]
    BY BookChanged
<1> QED BY <1>1, <1>3, <1>4 DEF AfterFills, Newcomer, Comes, fills

LEMMA ReducedFacts ==
    ASSUME NEW fills, DOMAIN fills \subseteq Order, IsFiniteSet(DOMAIN fills),
           \A o \in DOMAIN fills : fills[o] \in Int
    PROVE  /\ IsFiniteSet(ReducedBy(fills))
           /\ \A r \in ReducedBy(fills) : \E o \in DOMAIN fills :
                 /\ o \notin FilledBy(fills)
                 /\ r = [o EXCEPT !.quantity = @ - fills[o]]
                 /\ r \in Order /\ r.sequence = o.sequence /\ r.quantity = o.quantity - fills[o]
                 /\ KeyOf(r) = KeyOf(o) /\ r.side = o.side /\ r.price = o.price
<1> DEFINE some == DOMAIN fills \ FilledBy(fills)
           reduce == [o \in some |-> [o EXCEPT !.quantity = @ - fills[o]]]
<1>1. IsFiniteSet(some)
    BY FS_Subset
<1>2. reduce \in Surjection(some, ReducedBy(fills))
    BY DEF Surjection, ReducedBy
<1>3. IsFiniteSet(ReducedBy(fills))
    BY <1>1, <1>2, FS_Surjection
<1>4. ASSUME NEW o \in some
      PROVE  LET r == [o EXCEPT !.quantity = @ - fills[o]]
             IN  /\ r \in Order /\ r.sequence = o.sequence /\ r.quantity = o.quantity - fills[o]
                 /\ KeyOf(r) = KeyOf(o) /\ r.side = o.side /\ r.price = o.price
    <2>1. o \in Order /\ fills[o] \in Int
        OBVIOUS
    <2> QED BY <2>1 DEF Order, KeyOf
<1>5. \A r \in ReducedBy(fills) : \E o \in some : r = [o EXCEPT !.quantity = @ - fills[o]]
    BY DEF ReducedBy
<1>6. ASSUME NEW r \in ReducedBy(fills)
      PROVE  \E o \in DOMAIN fills :
                 /\ o \notin FilledBy(fills)
                 /\ r = [o EXCEPT !.quantity = @ - fills[o]]
                 /\ r \in Order /\ r.sequence = o.sequence /\ r.quantity = o.quantity - fills[o]
                 /\ KeyOf(r) = KeyOf(o) /\ r.side = o.side /\ r.price = o.price
    <2>1. PICK o \in some : r = [o EXCEPT !.quantity = @ - fills[o]]
        BY <1>5
    <2>2. /\ r \in Order /\ r.sequence = o.sequence /\ r.quantity = o.quantity - fills[o]
          /\ KeyOf(r) = KeyOf(o) /\ r.side = o.side /\ r.price = o.price
        BY <1>4, <2>1
    <2>3. o \in DOMAIN fills /\ o \notin FilledBy(fills)
        OBVIOUS
    <2> QED BY <2>1, <2>2, <2>3
<1> QED BY <1>3, <1>6

\* What an order leaves in a book is again a book.
LEMMA NewOrderSound ==
    ASSUME NEW book, SoundBook(book), NEW c, Entering(c)
    PROVE  SoundBook(AfterNewOrder(book, c))
<1> DEFINE fills == Fills(book.resting, c)
           rest == LeftAfter(book.resting, fills)
           n == book.nextSequence
           left == c.quantity - SumFunction(fills)
<1>1. /\ FillsWell(fills, book.resting, c) /\ DOMAIN fills \subseteq book.resting
      /\ book.resting \subseteq Order /\ IsFiniteSet(book.resting)
      /\ book.byKey \in [Key -> Nat] /\ n \in Nat \ {0}
      /\ \A o \in book.resting : o.sequence < n
      /\ \A o, p \in book.resting : o.sequence = p.sequence => o = p
    BY FillsFacts, EligibleRests DEF FillsWell, SoundBook, Book
<1>2. AfterNewOrder(book, c) = AfterFills(book, c, fills)
    BY AfterNewOrderIs DEF SoundBook
<1> HIDE DEF fills, n
<1>3. /\ IsFiniteSet(ReducedBy(fills))
      /\ \A r \in ReducedBy(fills) : \E o \in DOMAIN fills :
            r = [o EXCEPT !.quantity = @ - fills[o]] /\ r \in Order /\ r.sequence = o.sequence
    BY <1>1, ReducedFacts DEF FillsWell
<1>4. IsFiniteSet(book.resting \ DOMAIN fills)
    BY <1>1, FS_Subset
<1>5. IsFiniteSet(rest) /\ rest \subseteq Order
    BY <1>1, <1>3, <1>4, FS_Union DEF LeftAfter
<1>6. \A r \in rest : \E o \in book.resting :
          /\ r.sequence = o.sequence
          /\ r = IF o \in DOMAIN fills THEN [o EXCEPT !.quantity = @ - fills[o]] ELSE o
    BY <1>1, <1>3 DEF LeftAfter
<1>7. \A r \in rest : r.sequence < n
    BY <1>1, <1>6
<1>8. \A r, s \in rest : r.sequence = s.sequence => r = s
    BY <1>1, <1>6
<1>9. SumFunction(fills) \in Int
    BY <1>1, SumIsInt DEF FillsWell
<1>10. KeysLeft(book.byKey, fills) \in [Key -> Nat] /\ KeyOf(c) \in Key
    BY <1>1 DEF KeysLeft, KeyOf, Key, Entering
<1> HIDE DEF rest
<1>11. CASE Comes(c, fills)
    <2> DEFINE new == Newcomer(c, left, n)
    <2>1. new \in Order /\ new.sequence = n
        <3>1. left \in Int
            BY <1>9 DEF Entering
        <3> HIDE DEF left
        <3> QED BY <3>1, <1>1 DEF Newcomer, Order, Entering
    <2>2. AfterNewOrder(book, c) = [resting |-> rest \cup {new},
              byKey |-> [KeysLeft(book.byKey, fills) EXCEPT ![KeyOf(c)] = n], nextSequence |-> n + 1]
        BY <1>2, <1>11 DEF AfterFills, rest, n
    <2> HIDE DEF new
    <2>3. IsFiniteSet(rest \cup {new})
        BY <1>5, FS_AddElement
    <2>4. \A o \in rest \cup {new} : o \in Order /\ o.sequence \in Nat /\ o.sequence < n + 1
        <3>1. \A o \in rest \cup {new} : o \in Order
            BY <1>5, <2>1
        <3>2. \A o \in rest \cup {new} : o.sequence \in Nat
            BY <3>1 DEF Order
        <3>3. \A o \in rest : o.sequence < n + 1
            BY <1>1, <1>7, <3>2
        <3> QED BY <1>1, <2>1, <3>1, <3>2, <3>3
    <2>5. \A o, p \in rest \cup {new} : o.sequence = p.sequence => o = p
        <3>1. \A o \in rest : o.sequence # n
            BY <1>1, <1>7, <2>4
        <3> QED BY <1>8, <2>1, <3>1
    <2>6. [KeysLeft(book.byKey, fills) EXCEPT ![KeyOf(c)] = n] \in [Key -> Nat]
        BY <1>1, <1>10
    <2>7. n + 1 \in Nat \ {0}
        BY <1>1
    <2> QED BY <2>2, <2>3, <2>4, <2>5, <2>6, <2>7 DEF SoundBook, Book
<1>12. CASE ~Comes(c, fills)
    <2>1. AfterNewOrder(book, c) = [resting |-> rest, byKey |-> KeysLeft(book.byKey, fills), nextSequence |-> n]
        BY <1>2, <1>12 DEF AfterFills, rest, n
    <2> QED BY <1>1, <1>5, <1>7, <1>8, <1>10, <2>1 DEF SoundBook, Book
<1> QED BY <1>11, <1>12

LEMMA CancelIs ==
    ASSUME NEW book \in Book, NEW c, Cancelling(c)
    PROVE  AfterCancel(book, c) =
              [resting |-> { o \in book.resting : o.sequence # book.byKey[KeyOf(c)] },
               byKey |-> [book.byKey EXCEPT ![KeyOf(c)] = 0],
               nextSequence |-> book.nextSequence]
<1> DEFINE key == KeyOf(c)
           rest == { o \in book.resting : o.sequence # book.byKey[key] }
           keys == [book.byKey EXCEPT ![key] = 0]
<1>1. AfterCancel(book, c) = [book EXCEPT !.resting = rest, !.byKey = keys]
    <2> DEFINE half == [book EXCEPT !.resting = rest]
    <2>1. half.byKey = book.byKey
        BY DEF Book
    <2>2. [book EXCEPT !.resting = rest, !.byKey[key] = 0] = [half EXCEPT !.byKey = [half.byKey EXCEPT ![key] = 0]]
        OBVIOUS
    <2>3. [book EXCEPT !.resting = rest, !.byKey[key] = 0] = [half EXCEPT !.byKey = keys]
        BY <2>1, <2>2
    <2>4. AfterCancel(book, c) = [book EXCEPT !.resting = rest, !.byKey[key] = 0]
        BY DEF AfterCancel
    <2> QED BY <2>3, <2>4
<1> QED BY <1>1, BookChanged

LEMMA CancelSound ==
    ASSUME NEW book, SoundBook(book), NEW c, Cancelling(c)
    PROVE  SoundBook(AfterCancel(book, c))
<1> DEFINE rest == { o \in book.resting : o.sequence # book.byKey[KeyOf(c)] }
           keys == [book.byKey EXCEPT ![KeyOf(c)] = 0]
<1>1. AfterCancel(book, c) = [resting |-> rest, byKey |-> keys, nextSequence |-> book.nextSequence]
    BY CancelIs DEF SoundBook
<1>2. rest \subseteq book.resting
    OBVIOUS
<1>3. IsFiniteSet(rest)
    BY <1>2, FS_Subset DEF SoundBook
<1>4. keys \in [Key -> Nat]
    BY DEF SoundBook, Book
<1> HIDE DEF rest, keys
<1> QED BY <1>1, <1>2, <1>3, <1>4 DEF SoundBook, Book

LEMMA Int64IsInt ==
    ASSUME NEW x \in Int
    PROVE  Int64(x) \in Int
BY Int64MaxIsPositive DEF Int64

\* The first of the orders of a side has the best price.
LEMMA SomeOrderIsBest ==
    ASSUME NEW os, Rankable(os), IsFiniteSet(os), os # {}
    PROVE  \E o \in os : \A p \in os : ~Better(o.side, p.price, o.price)
<1> DEFINE s == InOrder(os)
<1>1. Enumerates(s, os) /\ Sorted(s)
    BY InOrderSorts
<1> HIDE DEF s
<1>2. Len(s) \in Nat /\ Len(s) # 0 /\ \A i \in 1..Len(s) : s[i] \in os
    <2>1. Cardinality(os) \in Nat /\ Cardinality(os) # 0
        BY FS_CardinalityType, FS_EmptySet
    <2> QED BY <1>1, <2>1, ElementOfSeq DEF Enumerates
<1>3. ASSUME NEW p \in os PROVE ~Better(s[1].side, p.price, s[1].price)
    <2>1. PICK i \in 1..Len(s) : s[i] = p
        BY <1>1 DEF Enumerates
    <2>2. i = 1 \/ Ahead(s[1], p)
        BY <1>1, <1>2, <2>1 DEF Sorted
    <2>3. /\ s[1] \in os /\ s[1].price \in Int /\ p.price \in Int /\ s[1].side \in Side
        BY <1>2 DEF Rankable, Order
    <2> DEFINE o == s[1]
    <2>4. (o = p \/ Ahead(o, p)) /\ o.price \in Int /\ p.price \in Int /\ o.side \in Side
        BY <2>1, <2>2, <2>3
    <2> HIDE DEF o
    <2>5. ~Better(o.side, p.price, o.price)
        BY ONLY <2>4 DEF Ahead, Better, Side
    <2> QED BY <2>5 DEF o
<1> QED BY <1>2, <1>3

LEMMA TopType ==
    ASSUME NEW book, SoundBook(book), NEW sd \in Side
    PROVE  TopOf(book.resting, sd) \in TopOfBook
<1> DEFINE mine == { o \in book.resting : o.side = sd }
           best == { o \in mine : \A p \in mine : ~Better(sd, p.price, o.price) }
<1>1. NoTop \in TopOfBook
    BY DEF NoTop, TopOfBook
<1>2. CASE mine = {}
    BY <1>1, <1>2 DEF TopOf
<1>3. CASE mine # {}
    <2>1. mine \subseteq book.resting /\ book.resting \subseteq Order /\ IsFiniteSet(book.resting)
        BY DEF SoundBook, Book
    <2>2. Rankable(mine) /\ IsFiniteSet(mine) /\ \A o \in mine : o.side = sd
        BY <2>1, FS_Subset DEF SoundBook, Rankable
    <2>3. TopOf(book.resting, sd) = [valid |-> TRUE, price |-> (CHOOSE o \in best : TRUE).price,
                                     totalQuantity |-> Int64(QtyOf(best))]
        BY <1>3 DEF TopOf
    <2> HIDE DEF mine
    <2>4. best # {} /\ best \subseteq mine
        BY <1>3, <2>2, SomeOrderIsBest
    <2>5. IsFiniteSet(best) /\ best \subseteq Order
        BY <2>1, <2>2, <2>4, FS_Subset
    <2> HIDE DEF best
    <2>6. (CHOOSE o \in best : TRUE).price \in Int
        BY <2>4, <2>5 DEF Order
    <2>7. Int64(QtyOf(best)) \in Int
        BY <2>5, QtyIsInt, Int64IsInt
    <2> QED BY <2>3, <2>6, <2>7 DEF TopOfBook
<1> QED BY <1>2, <1>3

LEMMA TopsType ==
    ASSUME NEW book, SoundBook(book)
    PROVE  TopsOf(book.resting) \in [Side -> TopOfBook]
BY TopType DEF TopsOf

LEMMA TopLineType ==
    ASSUME NEW sd \in Side, NEW old, NEW new \in TopOfBook
    PROVE  TopLine(sd, old, new) \in Seq(Line)
<1>1. [type |-> "B", side |-> sd, top |-> new] \in Line
    BY DEF Line
<1> QED BY <1>1 DEF TopLine

\* The B lines at the end of a command.
LEMMA TopLinesType ==
    ASSUME NEW old, NEW new \in [Side -> TopOfBook]
    PROVE  TopLines(old, new) \in Seq(Line)
<1>1. "Buy" \in Side /\ "Sell" \in Side /\ new["Buy"] \in TopOfBook /\ new["Sell"] \in TopOfBook
    BY DEF Side
<1>2. TopLine("Buy", old["Buy"], new["Buy"]) \in Seq(Line) /\ TopLine("Sell", old["Sell"], new["Sell"]) \in Seq(Line)
    BY <1>1, TopLineType
<1> QED BY <1>2, ConcatProperties DEF TopLines

----------------------------------------------------------------------------
(* The rules of an engine. *)

\* A book with its tops, and a map from symbols to them.
SoundEntry(b) ==
    /\ b = [book |-> b.book, tops |-> b.tops]
    /\ SoundBook(b.book) /\ b.tops \in [Side -> TopOfBook]

SoundEngine(books) ==
    /\ books = [s \in DOMAIN books |-> books[s]]
    /\ DOMAIN books \subseteq Symbols /\ IsFiniteSet(DOMAIN books)
    /\ \A s \in DOMAIN books : SoundEntry(books[s])

\* The commands the parser lets through.
Commands == SymbolOrder \cup Cancel \cup {FlushCommand}

LEMMA CommandKinds ==
    ASSUME NEW c \in Commands
    PROVE  \/ c.type = "Flush"
           \/ Entering(c) /\ c.symbol \in Symbols
           \/ Cancelling(c)
<1>1. CASE c \in SymbolOrder
    BY <1>1, PricesAreInt, QuantitiesAreInt DEF SymbolOrder, Entering
<1>2. CASE c \in Cancel
    BY <1>2 DEF Cancel, Cancelling
<1>3. CASE c = FlushCommand
    BY <1>3 DEF FlushCommand
<1> QED BY <1>1, <1>2, <1>3 DEF Commands

LEMMA AckLineType ==
    ASSUME NEW c, Entering(c) \/ Cancelling(c)
    PROVE  AckLine(c) \in Line /\ AckLine(c).type = IF c.type = "NewOrder" THEN "A" ELSE "C"
BY DEF AckLine, Line, Entering, Cancelling

\* The book that serving c leaves.
ServedBook(book, c) == IF c.type = "NewOrder" THEN AfterNewOrder(book, c) ELSE AfterCancel(book, c)

LEMMA ServingIs ==
    ASSUME NEW b, NEW c
    PROVE  Serving(b, c) = { Publishing(b, c, ServedBook(b.book, c)) }
BY DEF Serving, ServedBook

SoundResult(r) == SoundEntry(r.state) /\ r.lines \in Seq(Line)

LEMMA ServedSound ==
    ASSUME NEW b, SoundEntry(b), NEW c, Entering(c) \/ Cancelling(c)
    PROVE  SoundBook(ServedBook(b.book, c))
<1>1. CASE Entering(c)
    BY <1>1, NewOrderSound DEF SoundEntry, ServedBook, Entering
<1>2. CASE Cancelling(c)
    BY <1>2, CancelSound DEF SoundEntry, ServedBook, Cancelling
<1> QED BY <1>1, <1>2

\* Serving a command gives a book and lines.
LEMMA PublishingSound ==
    ASSUME NEW b, SoundEntry(b), NEW c, Entering(c) \/ Cancelling(c)
    PROVE  SoundResult(Publishing(b, c, ServedBook(b.book, c)))
<1> DEFINE after == ServedBook(b.book, c)
           trades == IF c.type = "NewOrder" THEN TradeLines(b.book.resting, c) ELSE <<>>
           tops == TopLines(b.tops, TopsOf(after.resting))
           r == Publishing(b, c, after)
<1>1. SoundBook(after)
    BY ServedSound
<1> HIDE DEF after
<1>2. TopsOf(after.resting) \in [Side -> TopOfBook]
    BY <1>1, TopsType
<1>3. tops \in Seq(Line)
    BY <1>2, TopLinesType
<1>4. trades \in Seq(Line)
    <2>1. CASE Entering(c)
        <3>1. ListsTrades(TradeLines(b.book.resting, c), Fills(b.book.resting, c), c)
            BY <2>1, TradesListed DEF SoundEntry
        <3> QED BY <3>1, <2>1 DEF ListsTrades, Entering
    <2>2. CASE Cancelling(c)
        BY <2>2, EmptySeq DEF Cancelling
    <2> QED BY <2>1, <2>2
<1>5. << AckLine(c) >> \in Seq(Line)
    BY AckLineType
<1>6. r = [state |-> [book |-> after, tops |-> TopsOf(after.resting)],
           lines |-> << AckLine(c) >> \o trades \o tops]
    BY DEF Publishing
<1> HIDE DEF trades, tops, r
<1>7. << AckLine(c) >> \o trades \o tops \in Seq(Line)
    BY <1>3, <1>4, <1>5, ConcatProperties
<1> QED BY <1>1, <1>2, <1>6, <1>7 DEF SoundResult, SoundEntry, r, after

LEMMA NoBooksSound == SoundEngine(NoBooks)
<1>1. IsFiniteSet({})
    BY FS_EmptySet
<1>2. DOMAIN NoBooks = {} /\ NoBooks = [s \in DOMAIN NoBooks |-> NoBooks[s]]
    BY DEF NoBooks
<1> QED BY <1>1, <1>2 DEF SoundEngine

LEMMA NewBookSound == SoundEntry(NewBook)
<1>1. SoundBook(EmptyBook)
    BY EmptyBookSound
<1>2. TopsOf(EmptyBook.resting) \in [Side -> TopOfBook]
    BY <1>1, TopsType
<1>3. EmptyBook.resting = {}
    BY DEF EmptyBook
<1> QED BY <1>1, <1>2, <1>3 DEF NewBook, SoundEntry

LEMMA BookOfSound ==
    ASSUME NEW books, SoundEngine(books), NEW s
    PROVE  SoundEntry(BookOf(books, s))
BY NewBookSound DEF BookOf, SoundEngine

LEMMA WithBookSound ==
    ASSUME NEW books, SoundEngine(books), NEW s \in Symbols, NEW r, SoundResult(r)
    PROVE  SoundEngine(WithBook(books, s, r))
<1> DEFINE more == WithBook(books, s, r)
<1>1. DOMAIN more = DOMAIN books \cup {s} /\ more = [t \in DOMAIN more |-> more[t]]
    BY DEF WithBook
<1>2. \A t \in DOMAIN more : more[t] = IF t = s THEN r.state ELSE books[t]
    BY DEF WithBook
<1> HIDE DEF more
<1>3. IsFiniteSet(DOMAIN more) /\ DOMAIN more \subseteq Symbols
    BY <1>1, FS_AddElement DEF SoundEngine
<1>4. \A t \in DOMAIN more : SoundEntry(more[t])
    BY <1>1, <1>2 DEF SoundEngine, SoundResult
<1> QED BY <1>1, <1>3, <1>4 DEF SoundEngine, more

\* What each book does with a cancel.
Answers(books, c) == [s \in DOMAIN books |-> Publishing(books[s], c, AfterCancel(books[s].book, c))]
LinesVisiting(answers, visit) == [i \in DOMAIN visit |-> answers[visit[i]].lines]
StatesOf(answers) == [s \in DOMAIN answers |-> answers[s].state]

LEMMA BroadcastIs ==
    ASSUME NEW books, NEW c, NEW r
    PROVE  r \in Broadcast(books, c) <=>
              \E visit \in SetToSeqs(DOMAIN books) :
                  r = [books |-> StatesOf(Answers(books, c)),
                       lines |-> FlattenSeq(LinesVisiting(Answers(books, c), visit))]
<1> DEFINE Result(answers, visit) ==
              [books |-> [s \in DOMAIN books |-> answers[s].state],
               lines |-> FlattenSeq([i \in DOMAIN visit |-> answers[visit[i]].lines])]
           answers == [s \in DOMAIN books |-> Publishing(books[s], c, AfterCancel(books[s].book, c))]
<1>1. Broadcast(books, c) =
          UNION { { Result(served, visit) : visit \in SetToSeqs(DOMAIN books) } : served \in {answers} }
    BY DEF Broadcast
<1>2. answers = Answers(books, c) /\ DOMAIN answers = DOMAIN books
    BY DEF Answers
<1> HIDE DEF answers
<1>3. \A visit : Result(answers, visit) = [books |-> StatesOf(Answers(books, c)),
                                          lines |-> FlattenSeq(LinesVisiting(Answers(books, c), visit))]
    BY <1>2 DEF StatesOf, LinesVisiting
<1> HIDE DEF Result
<1>4. r \in Broadcast(books, c) <=> \E visit \in SetToSeqs(DOMAIN books) : r = Result(answers, visit)
    BY <1>1
<1> QED BY <1>3, <1>4

\* Each book answers a cancel with a book and lines.
LEMMA AnswersSound ==
    ASSUME NEW books, SoundEngine(books), NEW c, Cancelling(c)
    PROVE  /\ DOMAIN Answers(books, c) = DOMAIN books
           /\ \A s \in DOMAIN books : SoundResult(Answers(books, c)[s])
<1>1. ASSUME NEW s \in DOMAIN books
      PROVE  SoundResult(Answers(books, c)[s])
    <2>1. SoundEntry(books[s])
        BY DEF SoundEngine
    <2>2. ServedBook(books[s].book, c) = AfterCancel(books[s].book, c)
        BY DEF ServedBook, Cancelling
    <2>3. SoundResult(Publishing(books[s], c, AfterCancel(books[s].book, c)))
        BY <2>1, <2>2, PublishingSound
    <2> QED BY <2>3 DEF Answers
<1> QED BY <1>1 DEF Answers

LEMMA VisitingSound ==
    ASSUME NEW answers, \A s \in DOMAIN answers : SoundResult(answers[s]),
           NEW visit \in Seq(DOMAIN answers)
    PROVE  LinesVisiting(answers, visit) \in Seq(Seq(Line)) /\ Len(LinesVisiting(answers, visit)) = Len(visit)
<1>1. DOMAIN visit = 1..Len(visit) /\ Len(visit) \in Nat /\ \A i \in 1..Len(visit) : visit[i] \in DOMAIN answers
    BY LenProperties, ElementOfSeq
<1>2. \A i \in 1..Len(visit) : answers[visit[i]].lines \in Seq(Line)
    BY <1>1 DEF SoundResult
<1>3. LinesVisiting(answers, visit) = [i \in 1..Len(visit) |-> answers[visit[i]].lines]
    BY <1>1 DEF LinesVisiting
<1>4. LinesVisiting(answers, visit) \in Seq(Seq(Line))
    BY <1>1, <1>2, <1>3, IsASeq
<1> QED BY <1>1, <1>3, <1>4, LenProperties

SoundOutcome(r) == SoundEngine(r.books) /\ r.lines \in Seq(Line)

\* Every outcome of a command is an engine and lines.
LEMMA OutcomesSound ==
    ASSUME NEW books, SoundEngine(books), NEW c \in Commands, NEW r \in Outcomes(books, c)
    PROVE  SoundOutcome(r)
<1>1. CASE c.type = "Flush"
    <2>1. r = [books |-> NoBooks, lines |-> <<>>]
        BY <1>1 DEF Outcomes
    <2> QED BY <2>1, NoBooksSound, EmptySeq DEF SoundOutcome
<1>2. CASE Entering(c) /\ c.symbol \in Symbols
    <2> DEFINE b == BookOf(books, c.symbol)
               p == Publishing(b, c, ServedBook(b.book, c))
    <2>1. r = [books |-> WithBook(books, c.symbol, p), lines |-> p.lines]
        BY <1>2, ServingIs DEF Outcomes, Entering
    <2>2. SoundEntry(b)
        BY BookOfSound
    <2> HIDE DEF b
    <2>3. SoundResult(p)
        BY <1>2, <2>2, PublishingSound
    <2> HIDE DEF p
    <2>4. SoundEngine(WithBook(books, c.symbol, p))
        BY <1>2, <2>3, WithBookSound
    <2> QED BY <2>1, <2>3, <2>4 DEF SoundOutcome, SoundResult
<1>3. CASE Cancelling(c)
    <2>1. r \in Broadcast(books, c)
        BY <1>3 DEF Outcomes, Cancelling
    <2> DEFINE answers == Answers(books, c)
    <2>2. PICK visit \in SetToSeqs(DOMAIN books) :
              r = [books |-> StatesOf(answers), lines |-> FlattenSeq(LinesVisiting(answers, visit))]
        BY <2>1, BroadcastIs
    <2>3. DOMAIN answers = DOMAIN books /\ \A s \in DOMAIN books : SoundResult(answers[s])
        BY <1>3, AnswersSound
    <2> HIDE DEF answers
    <2>4. visit \in Seq(DOMAIN answers)
        BY <2>3, Enumerations DEF SoundEngine, Enumerates
    <2>5. LinesVisiting(answers, visit) \in Seq(Seq(Line))
        BY <2>3, <2>4, VisitingSound
    <2>6. FlattenSeq(LinesVisiting(answers, visit)) \in Seq(Line)
        BY <2>5, FlattenType
    <2>7. SoundEngine(StatesOf(answers))
        BY <2>3 DEF StatesOf, SoundEngine, SoundResult
    <2> QED BY <2>2, <2>6, <2>7 DEF SoundOutcome
<1> QED BY <1>1, <1>2, <1>3, CommandKinds

----------------------------------------------------------------------------
(* What a command leaves of the orders, of their keys, and of other books. *)

SameOrder(r, o) ==
    /\ KeyOf(r) = KeyOf(o) /\ r.side = o.side /\ r.price = o.price /\ r.sequence = o.sequence

\* What remains of the orders of a book: all but those filled, some of them less.
RemainOf(left, resting, filled) ==
    /\ \A r \in left : \E o \in resting \ filled : SameOrder(r, o)
    /\ \A o \in resting \ filled : \E r \in left : SameOrder(r, o)

LEMMA RemainAfterFills ==
    ASSUME NEW book, SoundBook(book), NEW c, Entering(c)
    PROVE  LET fills == Fills(book.resting, c)
           IN  RemainOf(LeftAfter(book.resting, fills), book.resting, FilledBy(fills))
<1> DEFINE fills == Fills(book.resting, c)
           left == LeftAfter(book.resting, fills)
<1>1. /\ DOMAIN fills \subseteq book.resting /\ DOMAIN fills \subseteq Order /\ IsFiniteSet(DOMAIN fills)
      /\ \A o \in DOMAIN fills : fills[o] \in Int
    BY FillsFacts, EligibleRests DEF FillsWell, SoundBook, Book
<1> HIDE DEF fills
<1>2. \A r \in ReducedBy(fills) : \E o \in DOMAIN fills :
          /\ o \notin FilledBy(fills) /\ SameOrder(r, o)
    BY <1>1, ReducedFacts DEF SameOrder
<1>3. FilledBy(fills) \subseteq DOMAIN fills
    BY DEF FilledBy
<1>4. \A r \in left : \E o \in book.resting \ FilledBy(fills) : SameOrder(r, o)
    <2> SUFFICES ASSUME NEW r \in left PROVE \E o \in book.resting \ FilledBy(fills) : SameOrder(r, o)
        OBVIOUS
    <2>1. CASE r \in ReducedBy(fills)
        BY <1>1, <1>2, <2>1
    <2>2. CASE r \in book.resting \ DOMAIN fills
        BY <1>3, <2>2 DEF SameOrder
    <2> QED BY <2>1, <2>2 DEF LeftAfter
<1>5. \A o \in book.resting \ FilledBy(fills) : \E r \in left : SameOrder(r, o)
    <2> SUFFICES ASSUME NEW o \in book.resting \ FilledBy(fills) PROVE \E r \in left : SameOrder(r, o)
        OBVIOUS
    <2>1. CASE o \notin DOMAIN fills
        BY <2>1 DEF LeftAfter, SameOrder
    <2>2. CASE o \in DOMAIN fills
        <3> DEFINE r == [o EXCEPT !.quantity = @ - fills[o]]
        <3>1. r \in ReducedBy(fills)
            BY <2>2 DEF ReducedBy
        <3>2. o \in Order
            BY <1>1, <2>2
        <3>3. SameOrder(r, o)
            BY <3>2 DEF Order, SameOrder, KeyOf
        <3> QED BY <3>1, <3>3 DEF LeftAfter
    <2> QED BY <2>1, <2>2
<1> QED BY <1>4, <1>5 DEF RemainOf, fills, left

\* The cancel map leads to every resting order by its key, and nowhere else.
KeysTrue(book) ==
    /\ \A o \in book.resting : o.sequence # 0 /\ book.byKey[KeyOf(o)] = o.sequence
    /\ \A k \in Key : book.byKey[k] # 0 => \E o \in book.resting : KeyOf(o) = k

LEMMA OrderKeys ==
    ASSUME NEW o \in Order
    PROVE  KeyOf(o) \in Key
BY DEF Order, KeyOf, Key

\* An order whose key no other has keeps the map true.
LEMMA NewOrderKeys ==
    ASSUME NEW book, SoundBook(book), KeysTrue(book), NEW c, Entering(c),
           \A o \in book.resting : KeyOf(o) # KeyOf(c)
    PROVE  KeysTrue(AfterNewOrder(book, c))
<1> DEFINE fills == Fills(book.resting, c)
           rest == LeftAfter(book.resting, fills)
           keys == KeysLeft(book.byKey, fills)
           n == book.nextSequence
           new == Newcomer(c, c.quantity - SumFunction(fills), n)
<1>1. AfterNewOrder(book, c) = AfterFills(book, c, fills)
    BY AfterNewOrderIs DEF SoundBook
<1>2. RemainOf(rest, book.resting, FilledBy(fills))
    BY RemainAfterFills
<1>3. /\ FilledBy(fills) \subseteq book.resting /\ book.resting \subseteq Order /\ n # 0
      /\ \A o, p \in book.resting : o.sequence = p.sequence => o = p
    BY FillsFacts, EligibleRests DEF FilledBy, FillsWell, SoundBook, Book
<1>4. \A o \in book.resting : KeyOf(o) \in Key
    BY <1>3, OrderKeys
<1>5. KeyOf(c) \in Key
    BY DEF Entering, KeyOf, Key
<1>6. \A k \in Key : keys[k] = IF \E o \in FilledBy(fills) : KeyOf(o) = k THEN 0 ELSE book.byKey[k]
    BY DEF KeysLeft
<1>7. DOMAIN keys = Key
    BY DEF KeysLeft
<1> HIDE DEF fills, rest, keys, n, new
<1>8. \A r \in rest : /\ r.sequence # 0 /\ keys[KeyOf(r)] = r.sequence
                       /\ KeyOf(r) \in Key /\ KeyOf(r) # KeyOf(c)
    <2> SUFFICES ASSUME NEW r \in rest
                 PROVE  r.sequence # 0 /\ keys[KeyOf(r)] = r.sequence /\ KeyOf(r) \in Key /\ KeyOf(r) # KeyOf(c)
        OBVIOUS
    <2>1. PICK o \in book.resting \ FilledBy(fills) : SameOrder(r, o)
        BY <1>2 DEF RemainOf
    <2>2. o.sequence # 0 /\ book.byKey[KeyOf(o)] = o.sequence
        BY DEF KeysTrue
    <2>3. ASSUME NEW f \in FilledBy(fills), KeyOf(f) = KeyOf(o) PROVE FALSE
        <3>1. book.byKey[KeyOf(f)] = f.sequence /\ f \in book.resting
            BY <1>3 DEF KeysTrue
        <3>2. f = o
            BY <1>3, <2>2, <2>3, <3>1
        <3> QED BY <3>2
    <2>4. keys[KeyOf(o)] = o.sequence
        BY <1>4, <1>6, <2>2, <2>3
    <2> QED BY <1>4, <2>1, <2>2, <2>4 DEF SameOrder
<1>9. ASSUME NEW k \in Key, keys[k] # 0 PROVE \E r \in rest : KeyOf(r) = k
    <2>1. book.byKey[k] # 0 /\ \A f \in FilledBy(fills) : KeyOf(f) # k
        BY <1>6, <1>9
    <2>2. PICK o \in book.resting : KeyOf(o) = k
        BY <2>1 DEF KeysTrue
    <2>3. o \in book.resting \ FilledBy(fills)
        BY <2>1, <2>2
    <2> QED BY <1>2, <2>2, <2>3 DEF RemainOf, SameOrder
<1>10. CASE Comes(c, fills)
    <2>1. AfterNewOrder(book, c) = [resting |-> rest \cup {new},
              byKey |-> [keys EXCEPT ![KeyOf(c)] = n], nextSequence |-> n + 1]
        BY <1>1, <1>10 DEF AfterFills, rest, keys, n, new
    <2>2. KeyOf(new) = KeyOf(c) /\ new.sequence = n
        BY DEF new, Newcomer, KeyOf
    <2> DEFINE more == [keys EXCEPT ![KeyOf(c)] = n]
    <2>3. more[KeyOf(c)] = n /\ \A k \in Key : k # KeyOf(c) => more[k] = keys[k]
        BY <1>5, <1>7
    <2> HIDE DEF more
    <2>4. \A r \in rest \cup {new} : r.sequence # 0 /\ more[KeyOf(r)] = r.sequence
        BY <1>3, <1>8, <2>2, <2>3
    <2>5. \A k \in Key : more[k] # 0 => \E r \in rest \cup {new} : KeyOf(r) = k
        BY <1>9, <2>2, <2>3
    <2> QED BY <2>1, <2>4, <2>5 DEF KeysTrue, more
<1>11. CASE ~Comes(c, fills)
    <2>1. AfterNewOrder(book, c) = [resting |-> rest, byKey |-> keys, nextSequence |-> n]
        BY <1>1, <1>11 DEF AfterFills, rest, keys, n
    <2> QED BY <1>8, <1>9, <2>1 DEF KeysTrue
<1> QED BY <1>10, <1>11

\* A cancel takes the order of its key, and no other.
LEMMA CancelTakes ==
    ASSUME NEW book, SoundBook(book), KeysTrue(book), NEW c, Cancelling(c)
    PROVE  /\ AfterCancel(book, c).resting = { o \in book.resting : KeyOf(o) # KeyOf(c) }
           /\ KeysTrue(AfterCancel(book, c))
<1> DEFINE key == KeyOf(c)
           rest == { o \in book.resting : o.sequence # book.byKey[key] }
           keys == [book.byKey EXCEPT ![key] = 0]
<1>1. AfterCancel(book, c) = [resting |-> rest, byKey |-> keys, nextSequence |-> book.nextSequence]
    BY CancelIs DEF SoundBook
<1>2. key \in Key
    BY DEF Cancelling, KeyOf, Key
<1>3. ASSUME NEW o \in book.resting
      PROVE  o.sequence # book.byKey[key] <=> KeyOf(o) # key
    <2>1. o.sequence # 0 /\ book.byKey[KeyOf(o)] = o.sequence
        BY DEF KeysTrue
    <2>2. ASSUME o.sequence = book.byKey[key] PROVE KeyOf(o) = key
        <3>1. PICK p \in book.resting : KeyOf(p) = key
            BY <1>2, <2>1, <2>2 DEF KeysTrue
        <3>2. p.sequence = o.sequence
            BY <2>2, <3>1 DEF KeysTrue
        <3> QED BY <3>1, <3>2 DEF SoundBook
    <2> QED BY <2>1, <2>2
<1>4. rest = { o \in book.resting : KeyOf(o) # key }
    BY <1>3
<1>5. keys[key] = 0 /\ \A k \in Key : k # key => keys[k] = book.byKey[k]
    BY <1>2 DEF SoundBook, Book
<1> HIDE DEF rest, keys, key
<1>6. \A o \in rest : o.sequence # 0 /\ keys[KeyOf(o)] = o.sequence
    <2> SUFFICES ASSUME NEW o \in rest PROVE o.sequence # 0 /\ keys[KeyOf(o)] = o.sequence
        OBVIOUS
    <2>1. o \in book.resting /\ KeyOf(o) # key
        BY <1>4
    <2>2. KeyOf(o) \in Key
        BY <2>1, OrderKeys DEF SoundBook, Book
    <2> QED BY <1>5, <2>1, <2>2 DEF KeysTrue
<1>7. \A k \in Key : keys[k] # 0 => \E o \in rest : KeyOf(o) = k
    BY <1>4, <1>5 DEF KeysTrue
<1> QED BY <1>1, <1>4, <1>6, <1>7 DEF KeysTrue, key

----------------------------------------------------------------------------
(* What a command's trades take from the new order and give to the makers. *)

Positive(os) == \A o \in os : o.quantity > 0

LEMMA QtyIsSum ==
    ASSUME NEW all, all \subseteq Order, IsFiniteSet(all), NEW os \in SUBSET all
    PROVE  QtyOf(os) = SumFunctionOnSet([o \in all |-> o.quantity], os)
<1> DEFINE fun == [o \in os |-> o.quantity]
           gun == [o \in all |-> o.quantity]
<1>1. IsFiniteSet(os) /\ \A o \in os : fun[o] = gun[o]
    BY FS_Subset
<1>2. DOMAIN fun = os
    OBVIOUS
<1> HIDE DEF fun, gun
<1>3. SumFunctionOnSet(fun, os) = SumFunctionOnSet(gun, os)
    BY <1>1, SumSame
<1>4. SumFunction(fun) = SumFunctionOnSet(fun, os)
    BY <1>2 DEF SumFunction, SumFunctionOnSet, FoldFunction
<1> QED BY <1>3, <1>4 DEF QtyOf, fun, gun

\* The makers of a command give it no more than it asks for, and each something.
LEMMA FillsBounded ==
    ASSUME NEW book, SoundBook(book), NEW c, Entering(c), Positive(book.resting)
    PROVE  LET fills == Fills(book.resting, c)
           IN  /\ \A o \in DOMAIN fills : fills[o] > 0
               /\ SumFunction(fills) \in Int
               /\ SumFunction(fills) <= c.quantity \/ SumFunction(fills) = 0
<1> DEFINE fills == Fills(book.resting, c)
           eligible == Eligible(book.resting, c)
           made == DOMAIN fills
           qty == [o \in eligible |-> o.quantity]
<1>1. /\ made \subseteq eligible /\ Rankable(made) /\ IsFiniteSet(made)
      /\ \A o \in made : fills[o] \in Int /\ fills[o] <= o.quantity
    BY FillsFacts DEF FillsWell
<1>2. \A o \in made : /\ LeftFor(o, book.resting, c) \in Int /\ LeftFor(o, book.resting, c) > 0
                         /\ fills[o] = SmallerOf(LeftFor(o, book.resting, c), o.quantity)
    <2>1. FillsAsLeft(fills, book.resting, c)
        BY FillsAre
    <2> HIDE DEF fills
    <2> QED BY <2>1 DEF FillsAsLeft
<1>3. eligible \subseteq book.resting /\ eligible \subseteq Order /\ IsFiniteSet(eligible)
    BY EligibleRests, FS_Subset DEF SoundBook, Book
<1>4. \A o \in eligible : o.quantity \in Int /\ o.quantity > 0 /\ qty[o] = o.quantity
    BY <1>3 DEF Positive, Order
<1>5. SumFunction(fills) = SumFunctionOnSet(fills, made)
    BY DEF SumFunction, SumFunctionOnSet, FoldFunction
<1> HIDE DEF fills, qty
<1>6. \A o \in made : fills[o] > 0
    BY <1>1, <1>2, <1>4 DEF SmallerOf
<1>7. SumFunctionOnSet(fills, made) \in Int
    BY <1>1, SumType
<1>8. CASE made = {}
    BY <1>5, <1>6, <1>7, <1>8, SumEmpty DEF fills
<1>9. CASE made # {}
    <2>1. PICK m \in made : \A o \in made \ {m} : Ahead(o, m)
        BY <1>1, <1>9, LastOrder
    <2> DEFINE front == { p \in eligible : Ahead(p, m) }
               rest == made \ {m}
               Q(s) == SumFunctionOnSet(qty, s)
               F(s) == SumFunctionOnSet(fills, s)
    <2>2. rest \in SUBSET front /\ front \in SUBSET eligible
        BY <1>1, <2>1
    <2>3. IsFiniteSet(front) /\ IsFiniteSet(rest) /\ IsFiniteSet(front \ rest)
        BY <1>3, <2>2, FS_Subset
    <2>4. QtyOf(front) = Q(front)
        BY <1>3, <2>2, QtyIsSum DEF qty
    <2>5. fills[m] \in Int /\ fills[m] <= c.quantity - Q(front)
        BY <1>1, <1>2, <1>4, <2>1, <2>4 DEF LeftFor, SmallerOf
    <2> HIDE DEF front, made
    <2>6. \A x \in front : qty[x] \in Int /\ qty[x] >= 0
        BY <1>4, <2>2
    <2>7. Q(front) = Q(rest) + Q(front \ rest)
        BY <2>2, <2>3, <2>6, SumSplit
    <2>8. Q(front \ rest) >= 0
        BY <2>3, <2>6, SumNotNegative
    <2>9. \A x \in rest : fills[x] \in Int /\ qty[x] \in Int /\ fills[x] <= qty[x]
        BY <1>1, <1>4
    <2>10. F(rest) <= Q(rest)
        BY <2>3, <2>9, SumBounded
    <2>11. F(made) = fills[m] + F(rest)
        BY <1>1, <2>1, SumRemove
    <2>12. F(rest) \in Int /\ Q(rest) \in Int /\ Q(front \ rest) \in Int
        BY <2>3, <2>6, <2>9, SumType
    <2> HIDE DEF Q, F, rest
    <2>13. F(made) <= c.quantity
        BY <2>5, <2>7, <2>8, <2>10, <2>11, <2>12 DEF Entering
    <2> QED BY <1>5, <1>6, <1>7, <2>13 DEF F, fills, made
<1> QED BY <1>8, <1>9

----------------------------------------------------------------------------
(* The lines of a command, one by one. *)

\* The acknowledgement, the trades, and then B lines only.
LinesAre(seq, c, trades) ==
    /\ Len(seq) \in Nat /\ DOMAIN seq = 1..Len(seq) /\ Len(trades) \in Nat
    /\ Len(seq) >= Len(trades) + 1
    /\ seq[1] = AckLine(c)
    /\ \A i \in 1..Len(trades) : seq[i + 1] = trades[i]
    /\ \A i \in (Len(trades) + 2)..Len(seq) : seq[i].type = "B"

TradesOf(b, c) == IF c.type = "NewOrder" THEN TradeLines(b.book.resting, c) ELSE <<>>

LEMMA TopLineIsB ==
    ASSUME NEW sd \in Side, NEW old, NEW new \in TopOfBook
    PROVE  \A i \in 1..Len(TopLine(sd, old, new)) : TopLine(sd, old, new)[i].type = "B"
BY DEF TopLine

LEMMA TopLinesAreB ==
    ASSUME NEW old, NEW new \in [Side -> TopOfBook]
    PROVE  \A i \in 1..Len(TopLines(old, new)) : TopLines(old, new)[i].type = "B"
<1> DEFINE bid == TopLine("Buy", old["Buy"], new["Buy"])
           ask == TopLine("Sell", old["Sell"], new["Sell"])
<1>1. "Buy" \in Side /\ "Sell" \in Side /\ new["Buy"] \in TopOfBook /\ new["Sell"] \in TopOfBook
    BY DEF Side
<1>2. bid \in Seq(Line) /\ ask \in Seq(Line)
    BY <1>1, TopLineType
<1>3. (\A i \in 1..Len(bid) : bid[i].type = "B") /\ (\A i \in 1..Len(ask) : ask[i].type = "B")
    BY <1>1, TopLineIsB
<1> HIDE DEF bid, ask
<1>4. /\ Len(bid) \in Nat /\ Len(ask) \in Nat /\ Len(bid \o ask) = Len(bid) + Len(ask)
      /\ \A i \in 1..Len(bid \o ask) : (bid \o ask)[i] = IF i <= Len(bid) THEN bid[i] ELSE ask[i - Len(bid)]
    BY <1>2, ConcatProperties, LenProperties
<1>5. \A i \in 1..Len(bid \o ask) : (bid \o ask)[i].type = "B"
    BY <1>3, <1>4
<1> QED BY <1>5 DEF TopLines, bid, ask

LEMMA PublishedLines ==
    ASSUME NEW b, SoundEntry(b), NEW c, Entering(c) \/ Cancelling(c)
    PROVE  /\ LinesAre(Publishing(b, c, ServedBook(b.book, c)).lines, c, TradesOf(b, c))
           /\ TradesOf(b, c) \in Seq(Line)
<1> DEFINE after == ServedBook(b.book, c)
           trades == TradesOf(b, c)
           tops == TopLines(b.tops, TopsOf(after.resting))
           ack == << AckLine(c) >>
<1>1. SoundBook(after)
    BY ServedSound
<1> HIDE DEF after
<1>2. TopsOf(after.resting) \in [Side -> TopOfBook]
    BY <1>1, TopsType
<1>3. tops \in Seq(Line) /\ \A i \in 1..Len(tops) : tops[i].type = "B"
    BY <1>2, TopLinesType, TopLinesAreB
<1>4. trades \in Seq(Line)
    <2>1. CASE Entering(c)
        <3>1. ListsTrades(TradeLines(b.book.resting, c), Fills(b.book.resting, c), c)
            BY <2>1, TradesListed DEF SoundEntry
        <3> QED BY <3>1, <2>1 DEF ListsTrades, Entering, TradesOf
    <2>2. CASE Cancelling(c)
        BY <2>2, EmptySeq DEF Cancelling, TradesOf
    <2> QED BY <2>1, <2>2
<1>5. ack \in Seq(Line) /\ Len(ack) = 1 /\ ack[1] = AckLine(c)
    BY AckLineType
<1>6. Publishing(b, c, after).lines = ack \o trades \o tops
    BY DEF Publishing, TradesOf
<1> HIDE DEF trades, tops, ack
<1> DEFINE front == ack \o trades
           all == front \o tops
<1>7. /\ front \in Seq(Line) /\ Len(trades) \in Nat /\ Len(front) = 1 + Len(trades)
      /\ \A i \in 1..Len(front) : front[i] = IF i <= 1 THEN ack[i] ELSE trades[i - 1]
    <2>1. Len(ack) \in Nat /\ Len(trades) \in Nat
        BY <1>4, <1>5, LenProperties
    <2>2. /\ front \in Seq(Line) /\ Len(front) = Len(ack) + Len(trades)
          /\ \A i \in 1..Len(ack) + Len(trades) :
                front[i] = IF i <= Len(ack) THEN ack[i] ELSE trades[i - Len(ack)]
        BY <1>4, <1>5, ConcatProperties
    <2> HIDE DEF front
    <2> QED BY <1>5, <2>1, <2>2
<1> HIDE DEF front
<1>8. /\ all \in Seq(Line) /\ Len(tops) \in Nat /\ Len(all) = Len(front) + Len(tops)
      /\ \A i \in 1..Len(all) : all[i] = IF i <= Len(front) THEN front[i] ELSE tops[i - Len(front)]
    <2>1. Len(tops) \in Nat
        BY <1>3, LenProperties
    <2>2. /\ all \in Seq(Line) /\ Len(all) = Len(front) + Len(tops)
          /\ \A i \in 1..Len(front) + Len(tops) :
                all[i] = IF i <= Len(front) THEN front[i] ELSE tops[i - Len(front)]
        BY <1>3, <1>7, ConcatProperties
    <2> HIDE DEF all
    <2> QED BY <2>1, <2>2
<1>9. Len(all) \in Nat /\ DOMAIN all = 1..Len(all)
    BY <1>8, LenProperties
<1> HIDE DEF all
<1>10. all[1] = AckLine(c)
    BY <1>5, <1>7, <1>8
<1>11. \A i \in 1..Len(trades) : all[i + 1] = trades[i]
    BY <1>7, <1>8
<1>12. \A i \in (Len(trades) + 2)..Len(all) : all[i].type = "B"
    BY <1>3, <1>7, <1>8
<1>13. Len(all) >= Len(trades) + 1
    BY <1>7, <1>8
<1>14. LinesAre(all, c, trades)
    BY <1>7, <1>9, <1>10, <1>11, <1>12, <1>13 DEF LinesAre
<1> QED BY <1>4, <1>6, <1>14 DEF all, front, trades, after

----------------------------------------------------------------------------
(* A new order served maker by maker. *)

\* There is one way to sort orders.
LEMMA SortedIsUnique ==
    ASSUME NEW os, Rankable(os), NEW s, Enumerates(s, os), Sorted(s),
           NEW t, Enumerates(t, os), Sorted(t)
    PROVE  s = t
<1> DEFINE n == Len(s)
           Bad == { i \in 1..n : s[i] # t[i] }
<1>1. /\ s \in Seq(os) /\ t \in Seq(os) /\ n \in Nat /\ Len(t) = n
      /\ \A i \in 1..n : s[i] \in os /\ t[i] \in os
    BY ElementOfSeq, LenProperties DEF Enumerates
<1>2. /\ \A i, j \in 1..n : i < j => Ahead(s[i], s[j])
      /\ \A i, j \in 1..n : i < j => Ahead(t[i], t[j])
    BY <1>1 DEF Sorted
<1>3. /\ \A x \in os : \E i \in 1..n : s[i] = x
      /\ \A x \in os : \E i \in 1..n : t[i] = x
      /\ \A i, j \in 1..n : i # j => s[i] # s[j]
      /\ \A i, j \in 1..n : i # j => t[i] # t[j]
    BY <1>1 DEF Enumerates
<1>4. Bad = {}
    <2>1. SUFFICES ASSUME Bad # {} PROVE FALSE
        OBVIOUS
    <2>2. Bad \subseteq Nat
        BY <1>1
    <2>3. PICK i \in Bad : \A m \in Bad : i <= m
        BY <2>1, <2>2, LeastNat
    <2>4. i \in 1..n /\ s[i] # t[i] /\ \A m \in 1..n : m < i => s[m] = t[m]
        BY <1>1, <2>3
    <2>5. PICK j \in 1..n : t[j] = s[i]
        BY <1>1, <1>3, <2>4
    <2>6. PICK k \in 1..n : s[k] = t[i]
        BY <1>1, <1>3, <2>4
    <2>7. j > i
        <3>1. CASE j < i
            <4>1. s[j] = s[i] /\ j # i
                BY <1>1, <2>4, <2>5, <3>1
            <4> QED BY <1>3, <2>4, <4>1
        <3>2. j # i
            BY <2>4, <2>5
        <3> QED BY <1>1, <2>4, <3>1, <3>2
    <2>8. k > i
        <3>1. CASE k < i
            <4>1. t[k] = t[i] /\ k # i
                BY <1>1, <2>4, <2>6, <3>1
            <4> QED BY <1>3, <2>4, <4>1
        <3>2. k # i
            BY <2>4, <2>6
        <3> QED BY <1>1, <2>4, <3>1, <3>2
    <2>9. Ahead(t[i], s[i]) /\ Ahead(s[i], t[i])
        BY <1>2, <2>4, <2>5, <2>6, <2>7, <2>8
    <2> QED BY <1>1, <2>4, <2>9, AheadIsTotal
<1>5. \A i \in 1..n : s[i] = t[i]
    BY <1>4
<1> QED BY <1>1, <1>5, SeqEqual

\* o is the first of os.
LeadsOff(o, os) == o \in os /\ \A p \in os \ {o} : Ahead(o, p)

LEMMA InOrderUnfolds ==
    ASSUME NEW os, Rankable(os), IsFiniteSet(os), NEW o, LeadsOff(o, os)
    PROVE  InOrder(os) = << o >> \o InOrder(os \ {o})
<1> DEFINE rest == os \ {o}
           t == InOrder(rest)
           n == Cardinality(rest)
           s == << o >> \o t
<1>1. Rankable(rest) /\ IsFiniteSet(rest) /\ o \in os
    BY FS_RemoveElement DEF Rankable, LeadsOff
<1>2. n \in Nat /\ Cardinality(os) = n + 1
    BY <1>1, FS_RemoveElement, FS_CardinalityType
<1>3. Enumerates(t, rest) /\ Sorted(t)
    BY <1>1, InOrderSorts
<1>4. Enumerates(InOrder(os), os) /\ Sorted(InOrder(os))
    BY InOrderSorts
<1> HIDE DEF n, t
<1>5. /\ t \in Seq(rest) /\ Len(t) = n
      /\ \A i \in 1..n : t[i] \in rest
    BY <1>3, ElementOfSeq DEF Enumerates, n
<1>6. t \in Seq(os)
    BY <1>5, SeqMonotonic
<1>7. << o >> \in Seq(os) /\ Len(<< o >>) = 1 /\ << o >>[1] = o
    BY <1>1
<1>8. /\ s \in Seq(os) /\ Len(s) = n + 1 /\ s[1] = o
      /\ \A i \in 1..n : s[i + 1] = t[i]
    <2>1. /\ s \in Seq(os) /\ Len(s) = 1 + n
          /\ \A i \in 1..(1 + n) : s[i] = IF i <= 1 THEN o ELSE t[i - 1]
        BY <1>5, <1>6, <1>7, ConcatProperties
    <2>2. \A i \in 1..n : i + 1 \in 1..(1 + n) /\ ~(i + 1 <= 1) /\ (i + 1) - 1 = i
        BY <1>2
    <2>3. 1 \in 1..(1 + n) /\ 1 + n = n + 1
        BY <1>2
    <2> HIDE DEF s
    <2>4. \A i \in 1..n : s[i + 1] = t[i]
        BY <2>1, <2>2
    <2> QED BY <2>1, <2>3, <2>4
<1> HIDE DEF s
<1>9. \A i \in 1..(n + 1) : i = 1 \/ (i - 1 \in 1..n /\ s[i] = t[i - 1])
    <2> SUFFICES ASSUME NEW i \in 1..(n + 1), i # 1 PROVE i - 1 \in 1..n /\ s[i] = t[i - 1]
        OBVIOUS
    <2>1. i - 1 \in 1..n /\ (i - 1) + 1 = i
        BY <1>2
    <2> QED BY <1>8, <2>1
<1>10. \A i, j \in 1..(n + 1) : i < j => Ahead(s[i], s[j])
    <2> SUFFICES ASSUME NEW i \in 1..(n + 1), NEW j \in 1..(n + 1), i < j
                 PROVE  Ahead(s[i], s[j])
        OBVIOUS
    <2>1. j - 1 \in 1..n /\ s[j] = t[j - 1]
        BY <1>2, <1>9
    <2>2. CASE i = 1
        BY <1>5, <1>8, <2>1, <2>2 DEF LeadsOff
    <2>3. CASE i # 1
        <3>1. i - 1 \in 1..n /\ s[i] = t[i - 1] /\ i - 1 < j - 1
            BY <1>2, <1>9, <2>3
        <3> QED BY <1>3, <1>5, <2>1, <3>1 DEF Sorted
    <2> QED BY <2>2, <2>3
<1>11. \A x \in os : \E i \in 1..(n + 1) : s[i] = x
    <2> SUFFICES ASSUME NEW x \in os PROVE \E i \in 1..(n + 1) : s[i] = x
        OBVIOUS
    <2>1. CASE x = o
        BY <1>2, <1>8, <2>1
    <2>2. CASE x # o
        <3>1. PICK i \in 1..n : t[i] = x
            BY <1>3, <1>5, <2>2 DEF Enumerates
        <3>2. i + 1 \in 1..(n + 1)
            BY <1>2
        <3> QED BY <1>8, <3>1, <3>2
    <2> QED BY <2>1, <2>2
<1>12. \A i, j \in 1..(n + 1) : i # j => s[i] # s[j]
    <2> SUFFICES ASSUME NEW i \in 1..(n + 1), NEW j \in 1..(n + 1), i < j PROVE s[i] # s[j]
        BY <1>2
    <2>1. Ahead(s[i], s[j]) /\ s[i] \in os
        BY <1>8, <1>10, ElementOfSeq
    <2> QED BY <2>1, AheadIsTotal
<1>13. Enumerates(s, os) /\ Sorted(s)
    BY <1>2, <1>8, <1>10, <1>11, <1>12 DEF Enumerates, Sorted
<1>14. InOrder(os) = s
    BY <1>4, <1>13, SortedIsUnique
<1> QED BY <1>14 DEF s, t

\* What is left to ask for of the new order c.
Asking(c, q) ==
    [type |-> "NewOrder", userId |-> c.userId, userOrderId |-> c.userOrderId,
     price |-> c.price, quantity |-> q, side |-> c.side]

LEMMA AskingFacts ==
    ASSUME NEW c, Entering(c), NEW q \in Int
    PROVE  /\ Entering(Asking(c, q)) /\ Asking(c, q).quantity = q
           /\ Asking(c, q).price = c.price /\ KeyOf(Asking(c, q)) = KeyOf(c)
           /\ \A resting : Eligible(resting, Asking(c, q)) = Eligible(resting, c)
           /\ \A o, t : TradeLine(Asking(c, q), o, t) = TradeLine(c, o, t)
           /\ \A left, n : Newcomer(Asking(c, q), left, n) = Newcomer(c, left, n)
<1> DEFINE a == Asking(c, q)
<1>1. /\ a.type = "NewOrder" /\ a.userId = c.userId /\ a.userOrderId = c.userOrderId
      /\ a.price = c.price /\ a.quantity = q /\ a.side = c.side
    BY DEF Asking
<1> HIDE DEF a
<1>2. Entering(a) /\ KeyOf(a) = KeyOf(c)
    BY <1>1 DEF Entering, KeyOf
<1>3. \A resting : Eligible(resting, a) = Eligible(resting, c)
    BY <1>1 DEF Eligible, Opposing
<1>4. \A o, t : TradeLine(a, o, t) = TradeLine(c, o, t)
    BY <1>1, <1>2 DEF TradeLine
<1>5. \A left, n : Newcomer(a, left, n) = Newcomer(c, left, n)
    BY <1>1 DEF Newcomer
<1> QED BY <1>1, <1>2, <1>3, <1>4, <1>5 DEF a

LEMMA EligibleFacts ==
    ASSUME NEW book, SoundBook(book), NEW c
    PROVE  LET es == Eligible(book.resting, c)
           IN  es \subseteq book.resting /\ es \subseteq Order /\ IsFiniteSet(es) /\ Rankable(es)
<1> DEFINE es == Eligible(book.resting, c)
<1>1. es \subseteq book.resting /\ es \subseteq Order /\ IsFiniteSet(es)
    BY EligibleRests, FS_Subset DEF SoundBook, Book
<1>2. \A o \in es : o.side = Opposite(c.side)
    BY DEF Eligible, Opposing
<1> HIDE DEF es
<1>3. Rankable(es)
    BY <1>1, <1>2 DEF Rankable, SoundBook
<1> QED BY <1>1, <1>3 DEF es

\* Nothing trades with an order that asks for nothing.
LEMMA NothingAsked ==
    ASSUME NEW book, SoundBook(book), Positive(book.resting), NEW c, Entering(c), c.quantity <= 0
    PROVE  DOMAIN Fills(book.resting, c) = {}
<1> DEFINE es == Eligible(book.resting, c)
           fills == Fills(book.resting, c)
           qty == [o \in es |-> o.quantity]
<1>1. es \subseteq book.resting /\ es \subseteq Order /\ IsFiniteSet(es)
    BY EligibleFacts
<1>2. \A o \in es : qty[o] \in Int /\ qty[o] >= 0
    BY <1>1 DEF Order, Positive
<1>3. FillsAsLeft(fills, book.resting, c)
    BY FillsAre
<1> HIDE DEF fills, qty
<1>4. ASSUME NEW o \in es PROVE ~(LeftFor(o, book.resting, c) > 0)
    <2> DEFINE front == { p \in es : Ahead(p, o) }
    <2>1. front \in SUBSET es /\ IsFiniteSet(front)
        BY <1>1, FS_Subset
    <2>2. LeftFor(o, book.resting, c) = c.quantity - QtyOf(front)
        BY DEF LeftFor
    <2>3. QtyOf(front) = SumFunctionOnSet(qty, front)
        BY <1>1, <2>1, QtyIsSum DEF qty
    <2> HIDE DEF front, es
    <2>4. SumFunctionOnSet(qty, front) >= 0 /\ SumFunctionOnSet(qty, front) \in Int
        BY <1>2, <2>1, SumNotNegative, SumType
    <2> QED BY <2>2, <2>3, <2>4 DEF Entering
<1> QED BY <1>3, <1>4 DEF FillsAsLeft, fills

LEMMA NobodyEligible ==
    ASSUME NEW book, SoundBook(book), NEW c, Entering(c), Eligible(book.resting, c) = {}
    PROVE  DOMAIN Fills(book.resting, c) = {}
<1>1. FillsAsLeft(Fills(book.resting, c), book.resting, c)
    BY FillsAre
<1> QED BY <1>1 DEF FillsAsLeft

\* The book after an order that trades with nobody.
RestedIn(book, c) ==
    IF c.price # 0 /\ c.quantity > 0
    THEN [resting |-> book.resting \cup {Newcomer(c, c.quantity, book.nextSequence)},
          byKey |-> [book.byKey EXCEPT ![KeyOf(c)] = book.nextSequence],
          nextSequence |-> book.nextSequence + 1]
    ELSE book

LEMMA EmptySorted == InOrder({}) = <<>>
<1>1. Rankable({}) /\ IsFiniteSet({}) /\ Cardinality({}) = 0
    BY FS_EmptySet DEF Rankable
<1>2. InOrder({}) \in Seq({}) /\ Len(InOrder({})) = 0
    BY <1>1, InOrderSorts DEF Enumerates
<1> QED BY <1>2, EmptySeq

LEMMA NothingTraded ==
    ASSUME NEW book, SoundBook(book), NEW c, Entering(c), DOMAIN Fills(book.resting, c) = {}
    PROVE  /\ AfterNewOrder(book, c) = RestedIn(book, c)
           /\ TradeLines(book.resting, c) = <<>>
<1> DEFINE fills == Fills(book.resting, c)
<1>1. SumFunction(fills) = 0
    BY SumEmpty DEF SumFunction, SumFunctionOnSet, FoldFunction
<1>2. /\ book = [resting |-> book.resting, byKey |-> book.byKey, nextSequence |-> book.nextSequence]
      /\ book.byKey = [k \in Key |-> book.byKey[k]]
    BY DEF SoundBook, Book
<1>3. DOMAIN fills = {}
    OBVIOUS
<1>4. AfterNewOrder(book, c) = AfterFills(book, c, fills)
    BY AfterNewOrderIs DEF SoundBook
<1>5. TradeLines(book.resting, c) = [i \in 1..Len(InOrder(DOMAIN fills)) |->
          TradeLine(c, InOrder(DOMAIN fills)[i], fills[InOrder(DOMAIN fills)[i]])]
    BY DEF TradeLines
<1> HIDE DEF fills
<1>6. LeftAfter(book.resting, fills) = book.resting /\ KeysLeft(book.byKey, fills) = book.byKey
    <2>1. FilledBy(fills) = {} /\ ReducedBy(fills) = {}
        BY <1>3 DEF FilledBy, ReducedBy
    <2> QED BY <1>2, <1>3, <2>1 DEF LeftAfter, KeysLeft
<1>7. c.quantity \in Int /\ c.quantity - 0 = c.quantity
    BY DEF Entering
<1>8. AfterFills(book, c, fills) = RestedIn(book, c)
    BY <1>1, <1>2, <1>6, <1>7 DEF AfterFills, Comes, RestedIn
<1>9. TradeLines(book.resting, c) = <<>>
    <2>1. Len(InOrder(DOMAIN fills)) = 0
        BY <1>3, EmptySorted
    <2> QED BY <1>5, <2>1
<1> QED BY <1>4, <1>8, <1>9

\* The fills with o's fill of q in front of the others.
OneMore(fills, others, o, q) ==
    /\ o \notin DOMAIN others /\ DOMAIN fills = DOMAIN others \cup {o}
    /\ fills[o] = q /\ \A p \in DOMAIN others : fills[p] = others[p]

\* The first maker gives what it has, or what is asked for.
LEMMA FirstFill ==
    ASSUME NEW book, SoundBook(book), NEW c, Entering(c), c.quantity > 0,
           NEW o, LeadsOff(o, Eligible(book.resting, c))
    PROVE  LET fills == Fills(book.resting, c)
           IN  o \in DOMAIN fills /\ fills[o] = SmallerOf(c.quantity, o.quantity)
<1> DEFINE es == Eligible(book.resting, c)
           fills == Fills(book.resting, c)
<1>1. es \subseteq Order /\ Rankable(es) /\ o \in es
    BY EligibleFacts DEF LeadsOff
<1>2. { p \in es : Ahead(p, o) } = {}
    <2> SUFFICES ASSUME NEW p \in es, Ahead(p, o) PROVE FALSE
        OBVIOUS
    <2>1. p = o \/ Ahead(o, p)
        BY DEF LeadsOff
    <2> QED BY <1>1, <2>1, AheadIsTotal
<1>3. QtyOf({}) = 0
    BY SumEmpty DEF QtyOf, SumFunction, SumFunctionOnSet, FoldFunction
<1>4. LeftFor(o, book.resting, c) = c.quantity
    <2>1. LeftFor(o, book.resting, c) = c.quantity - QtyOf({})
        BY <1>2 DEF LeftFor
    <2> QED BY <1>3, <2>1 DEF Entering
<1>5. FillsAsLeft(fills, book.resting, c)
    BY FillsAre
<1> QED BY <1>1, <1>4, <1>5 DEF FillsAsLeft

\* The book without the order o, which was filled.
Without(book, o) ==
    [resting |-> book.resting \ {o}, byKey |-> [book.byKey EXCEPT ![KeyOf(o)] = 0],
     nextSequence |-> book.nextSequence]

LEMMA WithoutSound ==
    ASSUME NEW book, SoundBook(book), NEW o \in book.resting
    PROVE  /\ SoundBook(Without(book, o))
           /\ Positive(book.resting) => Positive(Without(book, o).resting)
<1> DEFINE rest == book.resting \ {o}
           keys == [book.byKey EXCEPT ![KeyOf(o)] = 0]
           w == Without(book, o)
<1>1. w = [resting |-> rest, byKey |-> keys, nextSequence |-> book.nextSequence]
    BY DEF Without
<1>2. rest \in SUBSET Order /\ IsFiniteSet(rest) /\ keys \in [Key -> Nat]
    BY FS_RemoveElement DEF SoundBook, Book
<1>3. book.nextSequence \in Nat \ {0}
    BY DEF SoundBook, Book
<1>4. \A p \in rest : p \in book.resting
    OBVIOUS
<1> HIDE DEF rest, keys, w
<1>5. w \in Book /\ w.resting = rest /\ w.nextSequence = book.nextSequence
    BY <1>1, <1>2, <1>3 DEF Book
<1>6. SoundBook(w)
    BY <1>2, <1>4, <1>5 DEF SoundBook
<1>7. Positive(book.resting) => Positive(w.resting)
    BY <1>4, <1>5 DEF Positive
<1> QED BY <1>6, <1>7 DEF w

LEMMA EligibleWithout ==
    ASSUME NEW resting, NEW c, NEW o \in Eligible(resting, c)
    PROVE  Eligible(resting \ {o}, c) = Eligible(resting, c) \ {o}
<1>1. o \in Opposing(resting, c) /\ o.userId # c.userId
    BY DEF Eligible
<1>2. Opposing(resting \ {o}, c) = Opposing(resting, c) \ {o}
    BY DEF Opposing
<1> QED BY <1>1, <1>2 DEF Eligible

\* What is left for the others is the same whether o is counted as ahead of
\* them or was served before.
LEMMA LeftWithout ==
    ASSUME NEW book, SoundBook(book), NEW c, Entering(c),
           NEW o, LeadsOff(o, Eligible(book.resting, c)),
           NEW p \in Eligible(book.resting, c) \ {o}
    PROVE  LeftFor(p, book.resting \ {o}, Asking(c, c.quantity - o.quantity)) = LeftFor(p, book.resting, c)
<1> DEFINE es == Eligible(book.resting, c)
           a == Asking(c, c.quantity - o.quantity)
           front == { r \in es : Ahead(r, p) }
           others == { r \in es \ {o} : Ahead(r, p) }
           qty == [r \in es |-> r.quantity]
<1>1. es \subseteq Order /\ IsFiniteSet(es) /\ o \in es /\ Ahead(o, p)
    BY EligibleFacts DEF LeadsOff
<1>2. o.quantity \in Int /\ c.quantity \in Int
    BY <1>1 DEF Order, Entering
<1>3. a.quantity = c.quantity - o.quantity /\ Eligible(book.resting \ {o}, a) = es \ {o}
    <2>1. c.quantity - o.quantity \in Int
        BY <1>2
    <2>2. a.quantity = c.quantity - o.quantity
          /\ \A resting : Eligible(resting, a) = Eligible(resting, c)
        BY <2>1, AskingFacts
    <2>3. Eligible(book.resting \ {o}, c) = Eligible(book.resting, c) \ {o}
        BY <1>1, EligibleWithout
    <2> QED BY <2>2, <2>3
<1>4. others = front \ {o} /\ o \in front /\ front \in SUBSET es /\ others \in SUBSET es
    BY <1>1
<1>5. /\ LeftFor(p, book.resting, c) = c.quantity - QtyOf(front)
      /\ LeftFor(p, book.resting \ {o}, a) = a.quantity - QtyOf(others)
    BY <1>3 DEF LeftFor
<1>6. QtyOf(front) = SumFunctionOnSet(qty, front) /\ QtyOf(others) = SumFunctionOnSet(qty, others)
    BY <1>1, <1>4, QtyIsSum
<1>7. IsFiniteSet(front) /\ IsFiniteSet(others)
    BY <1>1, <1>4, FS_Subset
<1>8. \A r \in es : qty[r] \in Int
    BY <1>1 DEF Order
<1>9. qty[o] = o.quantity
    BY <1>1
<1> HIDE DEF front, others, qty, a, es
<1>10. SumFunctionOnSet(qty, front) = qty[o] + SumFunctionOnSet(qty, front \ {o})
    BY <1>4, <1>7, <1>8, SumRemove
<1>11. SumFunctionOnSet(qty, others) \in Int
    BY <1>4, <1>7, <1>8, SumType
<1>12. LeftFor(p, book.resting \ {o}, a) = LeftFor(p, book.resting, c)
    BY <1>2, <1>3, <1>4, <1>5, <1>6, <1>9, <1>10, <1>11
<1> QED BY <1>12 DEF a

\* o is filled, the rest is asked of the others.
LEMMA FillsWithout ==
    ASSUME NEW book, SoundBook(book), NEW c, Entering(c), c.quantity > 0,
           NEW o, LeadsOff(o, Eligible(book.resting, c)), o.quantity <= c.quantity
    PROVE  OneMore(Fills(book.resting, c),
                   Fills(Without(book, o).resting, Asking(c, c.quantity - o.quantity)), o, o.quantity)
<1> DEFINE es == Eligible(book.resting, c)
           a == Asking(c, c.quantity - o.quantity)
           w == Without(book, o)
           fills == Fills(book.resting, c)
           others == Fills(w.resting, a)
<1>1. es \subseteq Order /\ es \subseteq book.resting /\ o \in es
    BY EligibleFacts DEF LeadsOff
<1>2. o.quantity \in Int /\ c.quantity \in Int
    BY <1>1 DEF Order, Entering
<1>3. w.resting = book.resting \ {o}
    BY DEF Without
<1>4. Entering(a) /\ SoundBook(w) /\ Eligible(w.resting, a) = es \ {o}
    <2>1. c.quantity - o.quantity \in Int
        BY <1>2
    <2>2. Entering(a) /\ \A resting : Eligible(resting, a) = Eligible(resting, c)
        BY <2>1, AskingFacts
    <2>3. Eligible(book.resting \ {o}, c) = Eligible(book.resting, c) \ {o}
        BY <1>1, EligibleWithout
    <2>4. o \in book.resting
        BY <1>1
    <2>5. SoundBook(w)
        BY <2>4, WithoutSound
    <2> HIDE DEF w, a
    <2> QED BY <1>3, <2>2, <2>3, <2>5
<1>5. \A p \in es \ {o} : LeftFor(p, w.resting, a) = LeftFor(p, book.resting, c)
    <2> SUFFICES ASSUME NEW p \in es \ {o} PROVE LeftFor(p, w.resting, a) = LeftFor(p, book.resting, c)
        OBVIOUS
    <2>1. LeftFor(p, book.resting \ {o}, a) = LeftFor(p, book.resting, c)
        BY LeftWithout
    <2> HIDE DEF w, a
    <2> QED BY <1>3, <2>1
<1>6. FillsAsLeft(fills, book.resting, c)
    BY FillsAre
<1>7. FillsAsLeft(others, w.resting, a)
    BY <1>4, FillsAre
<1>8. o \in DOMAIN fills /\ fills[o] = SmallerOf(c.quantity, o.quantity)
    BY FirstFill
<1> HIDE DEF w, a, fills, others, es
<1>9. DOMAIN others = DOMAIN fills \ {o}
    BY <1>4, <1>5, <1>6, <1>7 DEF FillsAsLeft, es
<1>10. \A p \in DOMAIN others : fills[p] = others[p]
    <2> SUFFICES ASSUME NEW p \in DOMAIN others PROVE fills[p] = others[p]
        OBVIOUS
    <2>1. p \in es \ {o} /\ p \in DOMAIN fills
        BY <1>4, <1>7, <1>9 DEF FillsAsLeft
    <2>2. LeftFor(p, w.resting, a) = LeftFor(p, book.resting, c)
        BY <1>5, <2>1
    <2>3. /\ fills[p] = SmallerOf(LeftFor(p, book.resting, c), p.quantity)
          /\ others[p] = SmallerOf(LeftFor(p, w.resting, a), p.quantity)
        BY <1>6, <1>7, <2>1 DEF FillsAsLeft
    <2> QED BY <2>2, <2>3
<1>11. fills[o] = o.quantity
    BY <1>2, <1>8 DEF SmallerOf
<1> QED BY <1>8, <1>9, <1>10, <1>11 DEF OneMore, fills, others, w, a

\* The lines of the fills, in order.
LinesOf(c, fills) ==
    LET makers == InOrder(DOMAIN fills)
    IN  [i \in 1..Len(makers) |-> TradeLine(c, makers[i], fills[makers[i]])]

LEMMA LinesOfFills ==
    ASSUME NEW c, NEW resting
    PROVE  TradeLines(resting, c) = LinesOf(c, Fills(resting, c))
BY DEF TradeLines, LinesOf

LEMMA LinesUnfold ==
    ASSUME NEW c, Entering(c), NEW fills, NEW others, NEW o, NEW q \in Int,
           OneMore(fills, others, o, q),
           Rankable(DOMAIN fills), IsFiniteSet(DOMAIN fills), LeadsOff(o, DOMAIN fills),
           \A p \in DOMAIN others : others[p] \in Int
    PROVE  LinesOf(c, fills) = << TradeLine(c, o, q) >> \o LinesOf(c, others)
<1> DEFINE m == InOrder(DOMAIN fills)
           r == InOrder(DOMAIN others)
           n == Len(r)
           line == TradeLine(c, o, q)
           all == LinesOf(c, fills)
           rest == LinesOf(c, others)
<1>1. /\ DOMAIN others = DOMAIN fills \ {o} /\ o \in DOMAIN fills
      /\ fills[o] = q /\ \A p \in DOMAIN others : fills[p] = others[p]
    BY DEF OneMore
<1>2. Rankable(DOMAIN others) /\ IsFiniteSet(DOMAIN others) /\ \A p \in DOMAIN fills : p \in Order
    BY <1>1, FS_RemoveElement DEF Rankable
<1>3. m = << o >> \o r
    BY <1>1, InOrderUnfolds
<1>4. Enumerates(r, DOMAIN others)
    BY <1>2, InOrderSorts
<1> HIDE DEF m, r
<1>5. r \in Seq(DOMAIN others) /\ n \in Nat /\ \A i \in 1..n : r[i] \in DOMAIN others
    BY <1>4, ElementOfSeq, LenProperties DEF Enumerates
<1>6. r \in Seq(DOMAIN fills)
    BY <1>1, <1>5, SeqMonotonic
<1>7. << o >> \in Seq(DOMAIN fills) /\ Len(<< o >>) = 1 /\ << o >>[1] = o
    BY <1>1
<1>8. Len(m) = n + 1 /\ m[1] = o /\ \A i \in 1..n : m[i + 1] = r[i]
    <2>1. /\ Len(m) = 1 + n
          /\ \A i \in 1..(1 + n) : m[i] = IF i <= 1 THEN o ELSE r[i - 1]
        BY <1>3, <1>6, <1>7, ConcatProperties
    <2>2. \A i \in 1..n : i + 1 \in 1..(1 + n) /\ ~(i + 1 <= 1) /\ (i + 1) - 1 = i
        BY <1>5
    <2>3. 1 \in 1..(1 + n) /\ 1 + n = n + 1
        BY <1>5
    <2>4. \A i \in 1..n : m[i + 1] = r[i]
        BY <2>1, <2>2
    <2> QED BY <2>1, <2>3, <2>4
<1>9. /\ all = [i \in 1..Len(m) |-> TradeLine(c, m[i], fills[m[i]])]
      /\ rest = [i \in 1..Len(r) |-> TradeLine(c, r[i], others[r[i]])]
    BY DEF LinesOf, m, r
<1>10. line \in Line /\ \A p \in DOMAIN others : TradeLine(c, p, others[p]) \in Line
    BY <1>1, <1>2, TradeLineType
<1> HIDE DEF n, line, all, rest
<1>11. rest \in Seq(Line) /\ Len(rest) = n /\ \A i \in 1..n : rest[i] = TradeLine(c, r[i], others[r[i]])
    <2>1. \A i \in 1..n : TradeLine(c, r[i], others[r[i]]) \in Line
        BY <1>5, <1>10
    <2>2. rest = [i \in 1..n |-> TradeLine(c, r[i], others[r[i]])]
        BY <1>9 DEF n
    <2>3. rest \in Seq(Line)
        BY <1>5, <2>1, <2>2, IsASeq
    <2> QED BY <1>5, <2>2, <2>3, LenProperties
<1> DEFINE both == << line >> \o rest
<1>12. << line >> \in Seq(Line) /\ Len(<< line >>) = 1 /\ << line >>[1] = line
    BY <1>10
<1>13. both \in Seq(Line) /\ Len(both) = n + 1 /\ both[1] = line /\ \A i \in 1..n : both[i + 1] = rest[i]
    <2>1. /\ both \in Seq(Line) /\ Len(both) = 1 + n
          /\ \A i \in 1..(1 + n) : both[i] = IF i <= 1 THEN line ELSE rest[i - 1]
        BY <1>11, <1>12, ConcatProperties
    <2>2. \A i \in 1..n : i + 1 \in 1..(1 + n) /\ ~(i + 1 <= 1) /\ (i + 1) - 1 = i
        BY <1>5
    <2>3. 1 \in 1..(1 + n) /\ 1 + n = n + 1
        BY <1>5
    <2> HIDE DEF both
    <2>4. \A i \in 1..n : both[i + 1] = rest[i]
        BY <2>1, <2>2
    <2> QED BY <2>1, <2>3, <2>4
<1> HIDE DEF both
<1>14. ASSUME NEW i \in 1..(n + 1)
       PROVE  TradeLine(c, m[i], fills[m[i]]) = both[i]
    <2>1. CASE i = 1
        BY <1>1, <1>8, <1>13, <2>1 DEF line
    <2>2. CASE i # 1
        <3>1. i - 1 \in 1..n /\ (i - 1) + 1 = i
            BY <1>5, <2>2
        <3>2. m[i] = r[i - 1] /\ both[i] = rest[i - 1] /\ r[i - 1] \in DOMAIN others
            BY <1>5, <1>8, <1>13, <3>1
        <3> QED BY <1>1, <1>11, <3>1, <3>2
    <2> QED BY <2>1, <2>2
<1>15. all = [i \in 1..(n + 1) |-> both[i]]
    BY <1>8, <1>9, <1>14
<1>16. both = [i \in 1..(n + 1) |-> both[i]]
    BY <1>13, LenProperties
<1> QED BY <1>15, <1>16 DEF all, both, rest, line

LEMMA SumOneMore ==
    ASSUME NEW fills, NEW others, NEW o, NEW q \in Int, OneMore(fills, others, o, q),
           IsFiniteSet(DOMAIN fills), \A p \in DOMAIN others : others[p] \in Int
    PROVE  SumFunction(fills) = q + SumFunction(others) /\ SumFunction(others) \in Int
<1>1. /\ DOMAIN others = DOMAIN fills \ {o} /\ o \in DOMAIN fills
      /\ fills[o] = q /\ \A p \in DOMAIN others : fills[p] = others[p]
    BY DEF OneMore
<1>2. IsFiniteSet(DOMAIN others)
    BY <1>1, FS_RemoveElement
<1>3. \A p \in DOMAIN fills : fills[p] \in Int
    BY <1>1
<1>4. SumFunctionOnSet(fills, DOMAIN fills) = q + SumFunctionOnSet(fills, DOMAIN others)
    BY <1>1, <1>3, SumRemove
<1>5. SumFunctionOnSet(fills, DOMAIN others) = SumFunctionOnSet(others, DOMAIN others)
    BY <1>1, <1>2, SumSame
<1>6. /\ SumFunction(fills) = SumFunctionOnSet(fills, DOMAIN fills)
      /\ SumFunction(others) = SumFunctionOnSet(others, DOMAIN others)
    BY DEF SumFunction, SumFunctionOnSet, FoldFunction
<1>7. SumFunction(others) \in Int
    BY <1>2, SumIsInt
<1> QED BY <1>4, <1>5, <1>6, <1>7

\* Two ways to say one thing: c served by the book, a by the book it left.
Continues(book, c, later, a, line) ==
    /\ AfterNewOrder(book, c) = AfterNewOrder(later, a)
    /\ TradeLines(book.resting, c) = << line >> \o TradeLines(later.resting, a)

\* A maker is filled: the rest of the order is asked of the rest of the book.
LEMMA ServedAfterFill ==
    ASSUME NEW book, SoundBook(book), NEW c, Entering(c), c.quantity > 0,
           NEW o, LeadsOff(o, Eligible(book.resting, c)), o.quantity <= c.quantity
    PROVE  Continues(book, c, Without(book, o), Asking(c, c.quantity - o.quantity),
                     TradeLine(c, o, o.quantity))
<1> DEFINE q == o.quantity
           a == Asking(c, c.quantity - q)
           w == Without(book, o)
           fills == Fills(book.resting, c)
           others == Fills(w.resting, a)
           es == Eligible(book.resting, c)
<1>1. o \in book.resting /\ q \in Int /\ c.quantity \in Int /\ c.quantity - q \in Int
    <2>1. es \subseteq Order /\ es \subseteq book.resting /\ o \in es
        BY EligibleFacts DEF LeadsOff
    <2> QED BY <2>1 DEF Order, Entering
<1>2. Entering(a) /\ a.quantity = c.quantity - q /\ a.price = c.price /\ KeyOf(a) = KeyOf(c)
    BY <1>1, AskingFacts
<1>3. /\ \A p, t : TradeLine(a, p, t) = TradeLine(c, p, t)
      /\ \A left, n : Newcomer(a, left, n) = Newcomer(c, left, n)
    BY <1>1, AskingFacts
<1>4. SoundBook(w)
    BY <1>1, WithoutSound
<1>5. OneMore(fills, others, o, q)
    BY FillsWithout
<1>6. FillsWell(fills, book.resting, c)
    BY FillsFacts
<1>7. /\ w.resting = book.resting \ {o} /\ w.nextSequence = book.nextSequence
      /\ w.byKey = [book.byKey EXCEPT ![KeyOf(o)] = 0] /\ book.byKey \in [Key -> Nat]
    BY DEF Without, SoundBook, Book
<1>8. /\ AfterNewOrder(book, c) = AfterFills(book, c, fills)
      /\ TradeLines(book.resting, c) = LinesOf(c, fills)
    BY AfterNewOrderIs, LinesOfFills DEF SoundBook
<1>9. /\ AfterNewOrder(w, a) = AfterFills(w, a, others)
      /\ TradeLines(w.resting, a) = LinesOf(a, others)
    BY <1>4, AfterNewOrderIs, LinesOfFills DEF SoundBook
<1>10. FillsWell(others, w.resting, a)
    BY <1>2, <1>4, FillsFacts
<1>11. LeadsOff(o, DOMAIN fills)
    BY <1>5, <1>6 DEF LeadsOff, FillsWell, OneMore
<1> HIDE DEF q, a, w, fills, others, es
<1>12. /\ Rankable(DOMAIN fills) /\ IsFiniteSet(DOMAIN fills)
       /\ \A p \in DOMAIN others : others[p] \in Int
    BY <1>6, <1>10 DEF FillsWell
<1>13. SumFunction(fills) = q + SumFunction(others) /\ SumFunction(others) \in Int
    BY <1>1, <1>5, <1>12, SumOneMore
<1>14. LinesOf(c, fills) = << TradeLine(c, o, q) >> \o LinesOf(c, others)
    BY <1>1, <1>5, <1>11, <1>12, LinesUnfold
<1>15. LinesOf(a, others) = LinesOf(c, others)
    BY <1>3 DEF LinesOf
<1>16. /\ DOMAIN fills = DOMAIN others \cup {o} /\ o \notin DOMAIN others
       /\ fills[o] = q /\ \A p \in DOMAIN others : fills[p] = others[p]
    BY <1>5 DEF OneMore
<1>17. FilledBy(fills) = FilledBy(others) \cup {o}
    BY <1>16 DEF FilledBy, q
<1>18. ReducedBy(fills) = ReducedBy(others)
    <2>1. DOMAIN fills \ FilledBy(fills) = DOMAIN others \ FilledBy(others)
        BY <1>16, <1>17
    <2> QED BY <1>16, <2>1 DEF ReducedBy
<1>19. LeftAfter(book.resting, fills) = LeftAfter(w.resting, others)
    BY <1>7, <1>16, <1>18 DEF LeftAfter
<1>20. KeysLeft(book.byKey, fills) = KeysLeft(w.byKey, others)
    <2>1. \A k \in Key : w.byKey[k] = IF k = KeyOf(o) THEN 0 ELSE book.byKey[k]
        BY <1>7
    <2>2. \A k \in Key : (\E p \in FilledBy(fills) : KeyOf(p) = k)
                            <=> (\E p \in FilledBy(others) : KeyOf(p) = k) \/ k = KeyOf(o)
        BY <1>17
    <2>3. \A k \in Key : (IF \E p \in FilledBy(fills) : KeyOf(p) = k THEN 0 ELSE book.byKey[k])
                          = (IF \E p \in FilledBy(others) : KeyOf(p) = k THEN 0 ELSE w.byKey[k])
        BY <2>1, <2>2
    <2> QED BY <2>3 DEF KeysLeft
<1>21. c.quantity - SumFunction(fills) = a.quantity - SumFunction(others)
    BY <1>1, <1>2, <1>13
<1>22. AfterFills(book, c, fills) = AfterFills(w, a, others)
    <2>1. Comes(c, fills) <=> Comes(a, others)
        BY <1>2, <1>21 DEF Comes
    <2> QED BY <2>1, <1>2, <1>3, <1>7, <1>19, <1>20, <1>21 DEF AfterFills
<1> QED BY <1>8, <1>9, <1>14, <1>15, <1>22 DEF Continues, q, a, w

\* The book in which o has q less.
WithLess(book, o, q) ==
    [resting |-> (book.resting \ {o}) \cup {[o EXCEPT !.quantity = @ - q]},
     byKey |-> book.byKey, nextSequence |-> book.nextSequence]

LEMMA WithLessSound ==
    ASSUME NEW book, SoundBook(book), NEW o \in book.resting, NEW q \in Int
    PROVE  /\ SoundBook(WithLess(book, o, q))
           /\ Positive(book.resting) /\ q < o.quantity => Positive(WithLess(book, o, q).resting)
<1> DEFINE e == [o EXCEPT !.quantity = @ - q]
           rest == (book.resting \ {o}) \cup {e}
           w == WithLess(book, o, q)
<1>1. w = [resting |-> rest, byKey |-> book.byKey, nextSequence |-> book.nextSequence]
    BY DEF WithLess
<1>2. o \in Order /\ book.resting \in SUBSET Order /\ book.byKey \in [Key -> Nat]
      /\ book.nextSequence \in Nat \ {0}
    BY DEF SoundBook, Book
<1>3. e \in Order /\ e.sequence = o.sequence /\ e.quantity = o.quantity - q
    BY <1>2 DEF Order
<1>4. IsFiniteSet(book.resting \ {o})
    BY FS_RemoveElement DEF SoundBook
<1> HIDE DEF e, w
<1>5. rest \in SUBSET Order /\ IsFiniteSet(rest)
    BY <1>2, <1>3, <1>4, FS_AddElement
<1>6. \A p \in rest : p \in book.resting \ {o} \/ p = e
    OBVIOUS
<1> HIDE DEF rest
<1>7. w \in Book /\ w.resting = rest /\ w.nextSequence = book.nextSequence
    BY <1>1, <1>2, <1>5 DEF Book
<1>8. \A p, r \in rest : p.sequence = r.sequence => p = r
    BY <1>3, <1>6 DEF SoundBook
<1>9. \A p \in rest : p.sequence < book.nextSequence
    BY <1>3, <1>6 DEF SoundBook
<1>10. SoundBook(w)
    BY <1>5, <1>7, <1>8, <1>9 DEF SoundBook
<1>11. ASSUME Positive(book.resting), q < o.quantity PROVE Positive(rest)
    <2>1. e.quantity > 0
        BY <1>2, <1>3, <1>11 DEF Order
    <2> QED BY <1>6, <1>11, <2>1 DEF Positive
<1> QED BY <1>7, <1>10, <1>11 DEF w

\* Only the first maker trades when it has more than is asked for.
LEMMA NobodyElse ==
    ASSUME NEW book, SoundBook(book), Positive(book.resting), NEW c, Entering(c),
           NEW o, LeadsOff(o, Eligible(book.resting, c)), c.quantity <= o.quantity,
           NEW p \in Eligible(book.resting, c) \ {o}
    PROVE  ~(LeftFor(p, book.resting, c) > 0)
<1> DEFINE es == Eligible(book.resting, c)
           front == { r \in es : Ahead(r, p) }
           qty == [r \in es |-> r.quantity]
<1>1. es \subseteq Order /\ es \subseteq book.resting /\ IsFiniteSet(es) /\ o \in es /\ Ahead(o, p)
    BY EligibleFacts DEF LeadsOff
<1>2. o \in front /\ front \in SUBSET es /\ IsFiniteSet(front)
    BY <1>1, FS_Subset
<1>3. LeftFor(p, book.resting, c) = c.quantity - QtyOf(front)
    BY DEF LeftFor
<1>4. QtyOf(front) = SumFunctionOnSet(qty, front)
    BY <1>1, <1>2, QtyIsSum
<1>5. \A r \in es : qty[r] \in Int /\ qty[r] >= 0
    BY <1>1 DEF Order, Positive
<1>6. qty[o] = o.quantity
    BY <1>1
<1> HIDE DEF es, front, qty
<1>7. SumFunctionOnSet(qty, front) = qty[o] + SumFunctionOnSet(qty, front \ {o})
    BY <1>2, <1>5, SumRemove
<1>8. IsFiniteSet(front \ {o}) /\ \A r \in front \ {o} : qty[r] \in Int /\ qty[r] >= 0
    BY <1>2, <1>5, FS_RemoveElement
<1>9. SumFunctionOnSet(qty, front \ {o}) >= 0 /\ SumFunctionOnSet(qty, front \ {o}) \in Int
    BY <1>8, SumNotNegative, SumType
<1>10. c.quantity \in Int /\ o.quantity \in Int
    BY <1>1, <1>5, <1>6 DEF Entering
<1> QED BY <1>3, <1>4, <1>6, <1>7, <1>9, <1>10

\* The order is used up: nothing is asked of the book it left.
LEMMA ServedAfterLast ==
    ASSUME NEW book, SoundBook(book), Positive(book.resting), NEW c, Entering(c), c.quantity > 0,
           NEW o, LeadsOff(o, Eligible(book.resting, c)), c.quantity < o.quantity
    PROVE  Continues(book, c, WithLess(book, o, c.quantity), Asking(c, 0),
                     TradeLine(c, o, c.quantity))
<1> DEFINE q == c.quantity
           a == Asking(c, 0)
           w == WithLess(book, o, q)
           fills == Fills(book.resting, c)
           others == Fills(w.resting, a)
           e == [o EXCEPT !.quantity = @ - q]
<1>1. o \in book.resting /\ o \in Eligible(book.resting, c) /\ q \in Int /\ o.quantity \in Int
    <2>1. o \in Eligible(book.resting, c)
        BY DEF LeadsOff
    <2>2. o \in book.resting /\ o \in Order
        BY <2>1, EligibleFacts
    <2> QED BY <2>1, <2>2 DEF Order, Entering
<1>2. Entering(a) /\ a.quantity = 0 /\ \A p, t : TradeLine(a, p, t) = TradeLine(c, p, t)
    BY AskingFacts
<1>3. SoundBook(w) /\ Positive(w.resting)
    BY <1>1, WithLessSound
<1>4. DOMAIN others = {}
    BY <1>2, <1>3, NothingAsked
<1>5. FillsAsLeft(fills, book.resting, c)
    BY FillsAre
<1>6. o \in DOMAIN fills /\ fills[o] = q
    BY <1>1, FirstFill DEF SmallerOf
<1>7. DOMAIN fills = {o}
    BY <1>1, <1>5, <1>6, NobodyElse DEF FillsAsLeft
<1>8. /\ AfterNewOrder(book, c) = AfterFills(book, c, fills)
      /\ TradeLines(book.resting, c) = LinesOf(c, fills)
    BY AfterNewOrderIs, LinesOfFills DEF SoundBook
<1>9. /\ AfterNewOrder(w, a) = RestedIn(w, a)
      /\ TradeLines(w.resting, a) = <<>> /\ TradeLines(w.resting, a) = LinesOf(a, others)
    BY <1>2, <1>3, <1>4, NothingTraded, LinesOfFills
<1>10. FillsWell(fills, book.resting, c)
    BY FillsFacts
<1>11. w = [resting |-> (book.resting \ {o}) \cup {e}, byKey |-> book.byKey,
            nextSequence |-> book.nextSequence] /\ book.byKey = [k \in Key |-> book.byKey[k]]
    BY DEF WithLess, SoundBook, Book
<1>12. RestedIn(w, a) = w
    BY <1>2 DEF RestedIn
<1> HIDE DEF a, w, fills, others, e
<1>13. OneMore(fills, others, o, q)
    BY <1>4, <1>6, <1>7 DEF OneMore
<1>14. LinesOf(c, fills) = << TradeLine(c, o, q) >> \o LinesOf(c, others)
    <2>1. Rankable(DOMAIN fills) /\ IsFiniteSet(DOMAIN fills) /\ LeadsOff(o, DOMAIN fills)
        BY <1>7, <1>10 DEF FillsWell, LeadsOff
    <2>2. \A p \in DOMAIN others : others[p] \in Int
        BY <1>4
    <2> QED BY <1>1, <1>13, <2>1, <2>2, LinesUnfold
<1>15. LinesOf(a, others) = LinesOf(c, others)
    BY <1>2 DEF LinesOf
<1>16. SumFunction(fills) = q
    <2>1. SumFunction(others) = 0
        BY <1>4, SumEmpty DEF SumFunction, SumFunctionOnSet, FoldFunction
    <2>2. IsFiniteSet(DOMAIN fills) /\ \A p \in DOMAIN others : others[p] \in Int
        BY <1>4, <1>10 DEF FillsWell
    <2> QED BY <1>1, <1>13, <2>1, <2>2, SumOneMore
<1>17. FilledBy(fills) = {} /\ ReducedBy(fills) = {e}
    <2>1. q # o.quantity
        BY <1>1
    <2>2. FilledBy(fills) = {}
        BY <1>6, <1>7, <2>1 DEF FilledBy
    <2>3. DOMAIN fills \ FilledBy(fills) = {o}
        BY <1>7, <2>2
    <2>4. ReducedBy(fills) = { [p EXCEPT !.quantity = @ - fills[p]] : p \in {o} }
        BY <2>3 DEF ReducedBy
    <2> QED BY <1>6, <2>2, <2>4 DEF e
<1>18. LeftAfter(book.resting, fills) = (book.resting \ {o}) \cup {e}
       /\ KeysLeft(book.byKey, fills) = book.byKey
    BY <1>7, <1>11, <1>17 DEF LeftAfter, KeysLeft
<1>19. ~Comes(c, fills)
    BY <1>1, <1>16 DEF Comes
<1>20. AfterFills(book, c, fills) = w
    BY <1>11, <1>18, <1>19 DEF AfterFills
<1> QED BY <1>8, <1>9, <1>12, <1>14, <1>15, <1>20 DEF Continues, w, a, q

====

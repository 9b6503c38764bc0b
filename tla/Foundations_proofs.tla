---- MODULE Foundations_proofs ----
(***************************************************************************)
(* What the proofs of the components share.  Induction is by the smallest  *)
(* counterexample; from it come the laws of the sums that the community    *)
(* modules define by folds: their terms may be taken in any order, changed *)
(* one at a time, renamed, split.  A sorted ladder has exactly one place   *)
(* for a price, and FindLevelIndex is that place.                          *)
(***************************************************************************)
EXTENDS PriceLadder, Functions, FiniteSetTheorems, WellFoundedInduction, TLAPS

\* Any set of naturals that is not empty has a smallest element.
LEMMA LeastNat ==
    ASSUME NEW T, T \subseteq Nat, T # {}
    PROVE  \E n \in T : \A m \in T : n <= m
<1> DEFINE Less == { ss \in Nat \X Nat : ss[1] < ss[2] }
<1>1. IsWellFoundedOn(Less, Nat)
    BY NatLessThanWellFounded DEF OpToRel
<1>2. PICK n \in T : \A m \in T : ~ (<<m, n>> \in Less)
    BY <1>1, WFMin
<1>3. \A m \in T : n <= m
    <2>1. SUFFICES ASSUME NEW m \in T, m < n
                   PROVE  FALSE
        OBVIOUS
    <2>2. <<m, n>> \in Nat \X Nat
        OBVIOUS
    <2>3. <<m, n>>[1] < <<m, n>>[2]
        BY <2>1
    <2>4. <<m, n>> \in Less
        BY <2>2, <2>3
    <2> QED BY <1>2, <2>4
<1> QED BY <1>3

----------------------------------------------------------------------------
(* Sums over finite sets. *)

\* The element a fold over s takes first.
Some(s) == CHOOSE x \in s : TRUE

\* sum is the function that a fold over S with + defines.
SumsUp(fun, S, sum) ==
    sum = [s \in SUBSET S |-> IF s = {} THEN 0 ELSE fun[Some(s)] + sum[s \ {Some(s)}]]

LEMMA SumUnfold ==
    ASSUME NEW fun, NEW S
    PROVE  SumFunctionOnSet(fun, S) = (CHOOSE sum : SumsUp(fun, S, sum))[S]
BY DEF SumFunctionOnSet, FoldFunctionOnSet, MapThenFoldSet, SumsUp, Some


\* There is such a function: it is built up from the smaller subsets.
LEMMA SumDefined ==
    ASSUME NEW fun, NEW S, IsFiniteSet(S)
    PROVE  \E sum : SumsUp(fun, S, sum)
<1> DEFINE Small(n) == { s \in SUBSET S : Cardinality(s) <= n }
           Rule(f, s) == IF s = {} THEN 0 ELSE fun[Some(s)] + f[s \ {Some(s)}]
           Built(f, n) == f = [s \in Small(n) |-> Rule(f, s)]
           Bad == { n \in Nat : \A f : ~Built(f, n) }
<1>1. \A s \in SUBSET S : Cardinality(s) \in Nat /\ IsFiniteSet(s) /\ Cardinality(s) <= Cardinality(S)
    BY FS_Subset, FS_CardinalityType
<1>2. \A s \in SUBSET S : s # {} =>
        /\ s \ {Some(s)} \in SUBSET S
        /\ Some(s) \in s
        /\ Cardinality(s \ {Some(s)}) = Cardinality(s) - 1
    BY <1>1, FS_RemoveElement DEF Some
<1>3. \A s \in SUBSET S : Cardinality(s) <= 0 <=> s = {}
    BY <1>1, FS_EmptySet
<1>4. Bad = {}
    <2>1. SUFFICES ASSUME Bad # {} PROVE FALSE
        OBVIOUS
    <2>2. PICK n \in Bad : \A m \in Bad : n <= m
        BY <2>1, LeastNat
    <2>3. CASE n = 0
        <3> DEFINE f == [s \in Small(0) |-> 0]
        <3>1. \A s \in Small(0) : Rule(f, s) = 0
            BY <1>3
        <3>2. Built(f, 0)
            BY <3>1
        <3> QED BY <2>2, <2>3, <3>2
    <2>4. CASE n # 0
        <3>1. n - 1 \in Nat /\ n \in Nat
            BY <2>2, <2>4
        <3>2. PICK f : Built(f, n - 1)
            <4> HIDE DEF Built
            <4>1. n - 1 \notin Bad
                BY <2>2, <3>1
            <4> QED BY <4>1, <3>1
        <3> DEFINE g == [s \in Small(n) |-> Rule(f, s)]
        <3>3. ASSUME NEW s \in Small(n) PROVE Rule(g, s) = Rule(f, s)
            <4>1. CASE s = {}
                BY <4>1
            <4>2. CASE s # {}
                <5> DEFINE t == s \ {Some(s)}
                <5>1. Cardinality(s) \in Nat /\ Cardinality(t) = Cardinality(s) - 1 /\ t \in SUBSET S
                    BY <1>1, <1>2, <4>2
                <5>2. t \in Small(n - 1) /\ t \in Small(n)
                    BY <5>1, <3>1
                <5>3. f[t] = Rule(f, t)
                    BY <3>2, <5>2
                <5>4. g[t] = Rule(f, t)
                    BY <5>2
                <5> QED BY <5>3, <5>4, <4>2
            <4> QED BY <4>1, <4>2
        <3>4. Built(g, n)
            BY <3>3
        <3> QED BY <2>2, <3>4
    <2> QED BY <2>3, <2>4
<1>5. Cardinality(S) \in Nat /\ Small(Cardinality(S)) = SUBSET S
    BY <1>1
<1>6. PICK f : Built(f, Cardinality(S))
    <2> HIDE DEF Built
    <2>1. Cardinality(S) \notin Bad
        BY <1>4
    <2> QED BY <2>1, <1>5
<1> QED BY <1>5, <1>6 DEF SumsUp

\* Two of them agree on the sets whose elements have the same values.
LEMMA SumsAgree ==
    ASSUME NEW fun, NEW S, IsFiniteSet(S), NEW f, SumsUp(fun, S, f),
           NEW gun, NEW T, NEW g, SumsUp(gun, T, g),
           NEW r \in SUBSET S, r \in SUBSET T, \A x \in r : fun[x] = gun[x]
    PROVE  f[r] = g[r]
<1> DEFINE Differ(s) == s \in SUBSET r /\ f[s] # g[s]
           Bad == { n \in Nat : \E s : Differ(s) /\ Cardinality(s) = n }
<1>1. \A s \in SUBSET r : IsFiniteSet(s) /\ Cardinality(s) \in Nat
    BY FS_Subset, FS_CardinalityType
<1>2. ASSUME Differ(r) PROVE FALSE
    <2>1. Cardinality(r) \in Bad
        BY <1>1, <1>2
    <2>2. PICK n \in Bad : \A m \in Bad : n <= m
        BY <2>1, LeastNat
    <2>3. PICK s : Differ(s) /\ Cardinality(s) = n
        BY <2>2
    <2>4. s # {}
        BY <2>3 DEF SumsUp
    <2> DEFINE t == s \ {Some(s)}
    <2>5. Some(s) \in s /\ t \in SUBSET r
        BY <2>3, <2>4 DEF Some
    <2>6. Cardinality(t) = n - 1 /\ n \in Nat /\ Cardinality(t) \in Nat
        BY <1>1, <2>3, <2>5, FS_RemoveElement
    <2>7. f[t] = g[t]
        BY <2>2, <2>5, <2>6
    <2>8. f[s] = fun[Some(s)] + f[t] /\ g[s] = gun[Some(s)] + g[t]
        BY <2>3, <2>4 DEF SumsUp
    <2> QED BY <2>3, <2>5, <2>7, <2>8
<1> QED BY <1>2

LEMMA SumIs ==
    ASSUME NEW fun, NEW S, IsFiniteSet(S), NEW f, SumsUp(fun, S, f)
    PROVE  SumFunctionOnSet(fun, S) = f[S]
<1> DEFINE g == CHOOSE sum : SumsUp(fun, S, sum)
<1>1. SumsUp(fun, S, g)
    BY SumDefined
<1>2. g[S] = f[S]
    BY <1>1, SumsAgree
<1> QED BY <1>2, SumUnfold

\* Only the values of the elements matter.
LEMMA SumSame ==
    ASSUME NEW fun, NEW gun, NEW S, IsFiniteSet(S), \A x \in S : fun[x] = gun[x]
    PROVE  SumFunctionOnSet(fun, S) = SumFunctionOnSet(gun, S)
<1>1. PICK f : SumsUp(fun, S, f)
    BY SumDefined
<1>2. PICK g : SumsUp(gun, S, g)
    BY SumDefined
<1>3. f[S] = g[S]
    BY <1>1, <1>2, SumsAgree
<1> QED BY <1>1, <1>2, <1>3, SumIs

LEMMA SumEmpty ==
    ASSUME NEW fun
    PROVE  SumFunctionOnSet(fun, {}) = 0
<1>1. IsFiniteSet({})
    BY FS_EmptySet
<1>2. PICK f : SumsUp(fun, {}, f)
    BY <1>1, SumDefined
<1>3. f[{}] = 0
    BY <1>2 DEF SumsUp
<1> QED BY <1>1, <1>2, <1>3, SumIs

LEMMA SumFirst ==
    ASSUME NEW fun, NEW S, IsFiniteSet(S), S # {}
    PROVE  SumFunctionOnSet(fun, S) = fun[Some(S)] + SumFunctionOnSet(fun, S \ {Some(S)})
<1> DEFINE T == S \ {Some(S)}
<1>1. PICK f : SumsUp(fun, S, f)
    BY SumDefined
<1>2. IsFiniteSet(T)
    BY FS_RemoveElement
<1>3. PICK g : SumsUp(fun, T, g)
    BY <1>2, SumDefined
<1>4. f[S] = fun[Some(S)] + f[T]
    BY <1>1 DEF SumsUp
<1>5. f[T] = g[T]
    <2>1. T \in SUBSET S /\ T \in SUBSET T
        OBVIOUS
    <2> QED BY <2>1, <1>1, <1>3, SumsAgree
<1>6. SumFunctionOnSet(fun, S) = f[S] /\ SumFunctionOnSet(fun, T) = g[T]
    BY <1>1, <1>2, <1>3, SumIs
<1> QED BY <1>4, <1>5, <1>6

LEMMA SumType ==
    ASSUME NEW fun, NEW S, IsFiniteSet(S), \A x \in S : fun[x] \in Int
    PROVE  SumFunctionOnSet(fun, S) \in Int
<1> DEFINE Bad == { n \in Nat : \E s \in SUBSET S :
                       SumFunctionOnSet(fun, s) \notin Int /\ Cardinality(s) = n }
<1>1. \A s \in SUBSET S : IsFiniteSet(s) /\ Cardinality(s) \in Nat
    BY FS_Subset, FS_CardinalityType
<1>2. ASSUME SumFunctionOnSet(fun, S) \notin Int PROVE FALSE
    <2>1. Cardinality(S) \in Bad
        BY <1>1, <1>2
    <2>2. PICK n \in Bad : \A m \in Bad : n <= m
        BY <2>1, LeastNat
    <2>3. PICK s \in SUBSET S : SumFunctionOnSet(fun, s) \notin Int /\ Cardinality(s) = n
        BY <2>2
    <2>4. s # {}
        BY <2>3, SumEmpty
    <2> DEFINE t == s \ {Some(s)}
    <2>5. Some(s) \in s /\ t \in SUBSET S
        BY <2>3, <2>4 DEF Some
    <2>6. Cardinality(t) = n - 1 /\ n \in Nat /\ Cardinality(t) \in Nat
        BY <1>1, <2>3, <2>5, FS_RemoveElement
    <2>7. SumFunctionOnSet(fun, t) \in Int
        BY <2>2, <2>5, <2>6
    <2>8. SumFunctionOnSet(fun, s) = fun[Some(s)] + SumFunctionOnSet(fun, t)
        BY <1>1, <2>4, SumFirst
    <2> QED BY <2>3, <2>5, <2>7, <2>8
<1> QED BY <1>2

\* Any element can be taken out first: the order of the sum does not matter.
LEMMA SumRemove ==
    ASSUME NEW fun, NEW S, IsFiniteSet(S), \A x \in S : fun[x] \in Int, NEW e \in S
    PROVE  SumFunctionOnSet(fun, S) = fun[e] + SumFunctionOnSet(fun, S \ {e})
<1> DEFINE Sum(s) == SumFunctionOnSet(fun, s)
           Fails(s, x) == x \in s /\ Sum(s) # fun[x] + Sum(s \ {x})
           Bad == { n \in Nat : \E s \in SUBSET S, x \in S : Fails(s, x) /\ Cardinality(s) = n }
<1>1. \A s \in SUBSET S : IsFiniteSet(s) /\ Cardinality(s) \in Nat /\ Sum(s) \in Int
    BY FS_Subset, FS_CardinalityType, SumType
<1>2. \A s \in SUBSET S : s # {} => Sum(s) = fun[Some(s)] + Sum(s \ {Some(s)})
    BY <1>1, SumFirst
<1> HIDE DEF Sum
<1>3. ASSUME Fails(S, e) PROVE FALSE
    <2>1. Cardinality(S) \in Bad
        BY <1>1, <1>3
    <2>2. PICK n \in Bad : \A m \in Bad : n <= m
        BY <2>1, LeastNat
    <2>3. PICK s \in SUBSET S, x \in S : Fails(s, x) /\ Cardinality(s) = n
        BY <2>2
    <2> DEFINE y == Some(s)
    <2>4. y \in s /\ x \in s /\ x # y
        BY <2>3, <1>2 DEF Some
    <2> HIDE DEF y
    <2>5. Cardinality(s \ {x}) = n - 1 /\ Cardinality(s \ {y}) = n - 1 /\ n \in Nat
        BY <1>1, <2>3, <2>4, FS_RemoveElement
    <2>6. s \ {x} \in SUBSET S /\ s \ {y} \in SUBSET S /\ (s \ {x}) \ {y} \in SUBSET S
        BY <2>3
    <2>7. n - 1 \in Nat /\ n - 1 \notin Bad
        BY <2>2, <2>5, <2>6, <1>1
    <2>8. Sum(s \ {y}) = fun[x] + Sum((s \ {y}) \ {x})
        BY <2>4, <2>5, <2>6, <2>7
    <2>9. Sum(s \ {x}) = fun[y] + Sum((s \ {x}) \ {y})
        BY <2>3, <2>4, <2>5, <2>6, <2>7
    <2>10. (s \ {x}) \ {y} = (s \ {y}) \ {x}
        OBVIOUS
    <2>11. Sum(s) = fun[y] + Sum(s \ {y})
        BY <1>2, <2>3, <2>4 DEF y
    <2>12. fun[x] \in Int /\ fun[y] \in Int /\ Sum((s \ {x}) \ {y}) \in Int
        BY <1>1, <2>3, <2>4, <2>6
    <2> DEFINE rest == Sum((s \ {x}) \ {y})
               fx == fun[x]
               fy == fun[y]
    <2>13. Sum(s) = fx + Sum(s \ {x})
        <3>1. Sum(s) = fy + (fx + rest) /\ Sum(s \ {x}) = fy + rest
            BY <2>8, <2>9, <2>10, <2>11
        <3>2. fx \in Int /\ fy \in Int /\ rest \in Int
            BY <2>12
        <3> HIDE DEF fx, fy, rest
        <3> QED BY <3>1, <3>2
    <2> QED BY <2>3, <2>13
<1> QED BY <1>3 DEF Sum

SumChanges(fun, gun, S, e) ==
    SumFunctionOnSet(gun, S) = SumFunctionOnSet(fun, S) - fun[e] + gun[e]

\* One element changes its value.
LEMMA SumUpdate ==
    ASSUME NEW fun, NEW gun, NEW S, IsFiniteSet(S), NEW e \in S,
           \A x \in S : fun[x] \in Int, gun[e] \in Int,
           \A x \in S : x # e => gun[x] = fun[x]
    PROVE  SumChanges(fun, gun, S, e)
<1> DEFINE F == SumFunctionOnSet(fun, S \ {e})
           G == SumFunctionOnSet(gun, S \ {e})
           fe == fun[e]
           ge == gun[e]
<1>1. IsFiniteSet(S \ {e})
    BY FS_RemoveElement
<1>2. F = G /\ F \in Int
    BY <1>1, SumSame, SumType
<1>3. SumFunctionOnSet(fun, S) = fe + F
    BY SumRemove
<1>4. SumFunctionOnSet(gun, S) = ge + G
    <2>1. \A x \in S : gun[x] \in Int
        OBVIOUS
    <2> QED BY <2>1, SumRemove
<1>5. fe \in Int /\ ge \in Int
    OBVIOUS
<1> HIDE DEF F, G, fe, ge
<1>6. SumFunctionOnSet(gun, S) = SumFunctionOnSet(fun, S) - fe + ge
    BY <1>2, <1>3, <1>4, <1>5
<1> QED BY <1>6 DEF SumChanges, fe, ge

ImageOf(b, s) == { b[x] : x \in s }

\* The elements are renamed.
LEMMA SumRenamed ==
    ASSUME NEW fun, NEW S, IsFiniteSet(S), \A x \in S : fun[x] \in Int,
           NEW gun, NEW T, NEW b \in [S -> T],
           \A x, y \in S : b[x] = b[y] => x = y,
           \A t \in T : \E x \in S : b[x] = t,
           \A x \in S : gun[b[x]] = fun[x]
    PROVE  SumFunctionOnSet(fun, S) = SumFunctionOnSet(gun, T) /\ IsFiniteSet(T)
<1> DEFINE F(s) == SumFunctionOnSet(fun, s)
           G(s) == SumFunctionOnSet(gun, s)
           Differ(s) == s \in SUBSET S /\ F(s) # G(ImageOf(b, s))
           Bad == { n \in Nat : \E s : Differ(s) /\ Cardinality(s) = n }
<1>1. \A s \in SUBSET S : IsFiniteSet(s) /\ Cardinality(s) \in Nat
    BY FS_Subset, FS_CardinalityType
<1>2. T = ImageOf(b, S)
    BY DEF ImageOf
<1>3. b \in Bijection(S, T)
    BY DEF Bijection, Injection, Surjection, IsInjective
<1>4. IsFiniteSet(T)
    BY <1>3, FS_Bijection DEF ExistsBijection
<1>5. \A s \in SUBSET S : IsFiniteSet(ImageOf(b, s)) /\ \A t \in ImageOf(b, s) : gun[t] \in Int
    BY <1>2, <1>4, FS_Subset DEF ImageOf
<1>6. F({}) = 0 /\ G({}) = 0
    BY SumEmpty
<1>7. ASSUME NEW s \in SUBSET S, NEW x \in s PROVE F(s) = fun[x] + F(s \ {x})
    <2>1. IsFiniteSet(s) /\ \A y \in s : fun[y] \in Int
        BY <1>1
    <2> QED BY <2>1, SumRemove
<1>8. \A s \in SUBSET S : \A t \in ImageOf(b, s) : G(ImageOf(b, s)) = gun[t] + G(ImageOf(b, s) \ {t})
    BY <1>5, SumRemove
<1> HIDE DEF F, G
<1>9. ASSUME Differ(S) PROVE FALSE
    <2>1. Cardinality(S) \in Bad
        BY <1>1, <1>9
    <2>2. PICK n \in Bad : \A m \in Bad : n <= m
        BY <2>1, LeastNat
    <2>3. PICK s : Differ(s) /\ Cardinality(s) = n
        BY <2>2
    <2>4. PICK x \in s : TRUE
        BY <2>3, <1>6 DEF ImageOf
    <2>5. Cardinality(s \ {x}) = n - 1 /\ n \in Nat /\ s \ {x} \in SUBSET S
        BY <1>1, <2>3, FS_RemoveElement
    <2>6. F(s \ {x}) = G(ImageOf(b, s \ {x}))
        BY <1>1, <2>2, <2>5
    <2>7. ImageOf(b, s) \ {b[x]} = ImageOf(b, s \ {x})
        BY <2>3 DEF ImageOf
    <2>8. G(ImageOf(b, s)) = gun[b[x]] + G(ImageOf(b, s) \ {b[x]})
        BY <1>8, <2>3 DEF ImageOf
    <2>9. F(s) = fun[x] + F(s \ {x})
        BY <1>7, <2>3
    <2> QED BY <2>3, <2>6, <2>7, <2>8, <2>9
<1> QED BY <1>2, <1>4, <1>9 DEF F, G

\* A sum of numbers none of which is negative is at least each of them.
LEMMA SumNotNegative ==
    ASSUME NEW fun, NEW S, IsFiniteSet(S), \A x \in S : fun[x] \in Int /\ fun[x] >= 0
    PROVE  SumFunctionOnSet(fun, S) >= 0
<1> DEFINE Bad == { n \in Nat : \E s \in SUBSET S :
                       ~(SumFunctionOnSet(fun, s) >= 0) /\ Cardinality(s) = n }
<1>1. \A s \in SUBSET S : IsFiniteSet(s) /\ Cardinality(s) \in Nat
    BY FS_Subset, FS_CardinalityType
<1>2. ASSUME ~(SumFunctionOnSet(fun, S) >= 0) PROVE FALSE
    <2>1. Cardinality(S) \in Bad
        BY <1>1, <1>2
    <2>2. PICK n \in Bad : \A m \in Bad : n <= m
        BY <2>1, LeastNat
    <2>3. PICK s \in SUBSET S : ~(SumFunctionOnSet(fun, s) >= 0) /\ Cardinality(s) = n
        BY <2>2
    <2>4. PICK x \in s : TRUE
        BY <2>3, SumEmpty
    <2>5. Cardinality(s \ {x}) = n - 1 /\ n \in Nat /\ s \ {x} \in SUBSET S
        BY <1>1, <2>3, FS_RemoveElement
    <2>6. SumFunctionOnSet(fun, s \ {x}) >= 0
        BY <1>1, <2>2, <2>5
    <2>7. SumFunctionOnSet(fun, s) = fun[x] + SumFunctionOnSet(fun, s \ {x})
        BY <1>1, <2>3, SumRemove
    <2>8. SumFunctionOnSet(fun, s \ {x}) \in Int
        BY <1>1, <2>5, SumType
    <2> QED BY <2>3, <2>6, <2>7, <2>8
<1> QED BY <1>2

\* A sum of smaller numbers is smaller.
LEMMA SumBounded ==
    ASSUME NEW fun, NEW gun, NEW S, IsFiniteSet(S),
           \A x \in S : fun[x] \in Int /\ gun[x] \in Int /\ fun[x] <= gun[x]
    PROVE  SumFunctionOnSet(fun, S) <= SumFunctionOnSet(gun, S)
<1> DEFINE F(s) == SumFunctionOnSet(fun, s)
           G(s) == SumFunctionOnSet(gun, s)
           Bad == { n \in Nat : \E s \in SUBSET S : ~(F(s) <= G(s)) /\ Cardinality(s) = n }
<1>1. \A s \in SUBSET S : IsFiniteSet(s) /\ Cardinality(s) \in Nat
    BY FS_Subset, FS_CardinalityType
<1>2. F({}) = 0 /\ G({}) = 0
    BY SumEmpty
<1>3. ASSUME NEW s \in SUBSET S, NEW x \in s
      PROVE  F(s) = fun[x] + F(s \ {x}) /\ G(s) = gun[x] + G(s \ {x})
    <2>1. IsFiniteSet(s) /\ \A y \in s : fun[y] \in Int /\ gun[y] \in Int
        BY <1>1
    <2> QED BY <2>1, SumRemove
<1>4. \A s \in SUBSET S : F(s) \in Int /\ G(s) \in Int
    BY <1>1, SumType
<1> HIDE DEF F, G
<1>5. ASSUME ~(F(S) <= G(S)) PROVE FALSE
    <2>1. Cardinality(S) \in Bad
        BY <1>1, <1>5
    <2>2. PICK n \in Bad : \A m \in Bad : n <= m
        BY <2>1, LeastNat
    <2>3. PICK s \in SUBSET S : ~(F(s) <= G(s)) /\ Cardinality(s) = n
        BY <2>2
    <2>4. PICK x \in s : TRUE
        BY <2>3, <1>2
    <2>5. Cardinality(s \ {x}) = n - 1 /\ n \in Nat /\ s \ {x} \in SUBSET S
        BY <1>1, <2>3, FS_RemoveElement
    <2>6. F(s \ {x}) <= G(s \ {x})
        BY <1>1, <2>2, <2>5
    <2>7. F(s) = fun[x] + F(s \ {x}) /\ G(s) = gun[x] + G(s \ {x})
        BY <1>3
    <2>8. F(s \ {x}) \in Int /\ G(s \ {x}) \in Int
        BY <1>4, <2>5
    <2> QED BY <2>3, <2>6, <2>7, <2>8
<1> QED BY <1>5 DEF F, G

\* A sum over a part and the sum over the rest.
LEMMA SumSplit ==
    ASSUME NEW fun, NEW S, IsFiniteSet(S), \A x \in S : fun[x] \in Int, NEW P \in SUBSET S
    PROVE  SumFunctionOnSet(fun, S) = SumFunctionOnSet(fun, P) + SumFunctionOnSet(fun, S \ P)
<1> DEFINE F(s) == SumFunctionOnSet(fun, s)
           Differ(s) == s \in SUBSET P /\ F(s \cup (S \ P)) # F(s) + F(S \ P)
           Bad == { n \in Nat : \E s : Differ(s) /\ Cardinality(s) = n }
<1>1. \A s \in SUBSET S : IsFiniteSet(s) /\ Cardinality(s) \in Nat /\ F(s) \in Int
    BY FS_Subset, FS_CardinalityType, SumType
<1>2. F({}) = 0
    BY SumEmpty
<1>3. ASSUME NEW s \in SUBSET S, NEW x \in s
      PROVE  F(s) = fun[x] + F(s \ {x})
    <2>1. IsFiniteSet(s) /\ \A y \in s : fun[y] \in Int
        BY <1>1
    <2> QED BY ONLY <2>1, SumRemove
<1> HIDE DEF F
<1>4. ASSUME Differ(P) PROVE FALSE
    <2>1. Cardinality(P) \in Bad
        BY <1>1, <1>4
    <2>2. PICK n \in Bad : \A m \in Bad : n <= m
        BY <2>1, LeastNat
    <2>3. PICK s : Differ(s) /\ Cardinality(s) = n
        BY <2>2
    <2>4. PICK x \in s : TRUE
        <3>1. {} \cup (S \ P) = S \ P
            OBVIOUS
        <3>2. F(S \ P) \in Int
            BY <1>1
        <3> QED BY <2>3, <1>2, <3>1, <3>2
    <2>5. Cardinality(s \ {x}) = n - 1 /\ n \in Nat /\ s \ {x} \in SUBSET P /\ x \in S
        BY <1>1, <2>3, <2>4, FS_RemoveElement
    <2>6. F((s \ {x}) \cup (S \ P)) = F(s \ {x}) + F(S \ P)
        <3>1. s \ {x} \in SUBSET S
            BY <2>5
        <3>2. n - 1 \in Nat
            BY <1>1, <2>5, <3>1
        <3>3. n - 1 \notin Bad
            <4> HIDE DEF Bad
            <4> QED BY <2>2, <2>5, <3>2
        <3> QED BY <3>2, <3>3, <2>5
    <2>7. (s \ {x}) \cup (S \ P) = (s \cup (S \ P)) \ {x}
        BY <2>3, <2>4
    <2>8. F(s) = fun[x] + F(s \ {x})
        BY <1>3, <2>3, <2>4
    <2>9. F(s \cup (S \ P)) = fun[x] + F((s \cup (S \ P)) \ {x})
        BY <1>3, <2>3, <2>4
    <2>10. fun[x] \in Int /\ F(s \ {x}) \in Int /\ F(S \ P) \in Int
        BY <1>1, <2>5
    <2> DEFINE fx == fun[x]
               less == F(s \ {x})
               rest == F(S \ P)
    <2>11. F(s \cup (S \ P)) = F(s) + rest
        <3>1. F(s \cup (S \ P)) = fx + (less + rest) /\ F(s) = fx + less
            BY <2>6, <2>7, <2>8, <2>9
        <3>2. fx \in Int /\ less \in Int /\ rest \in Int
            BY <2>10
        <3> HIDE DEF fx, less, rest
        <3> QED BY <3>1, <3>2
    <2> QED BY <2>3, <2>11
<1>5. P \cup (S \ P) = S
    OBVIOUS
<1> QED BY <1>4, <1>5 DEF F

----------------------------------------------------------------------------
(* Remainders. *)

LEMMA DivMod ==
    ASSUME NEW a \in Int, NEW w \in Int, w > 0
    PROVE  a = w * (a \div w) + (a % w) /\ a % w \in 0..(w - 1) /\ a \div w \in Int
OBVIOUS

LEMMA MulLarge ==
    ASSUME NEW w \in Int, w > 0, NEW d \in Int, d >= 1
    PROVE  w * d >= w
BY SMT

\* A remainder is the one number below the divisor.
LEMMA RemainderUnique ==
    ASSUME NEW w \in Int, w > 0, NEW k \in Int, NEW r \in 0..(w - 1),
           NEW j \in Int, NEW s \in 0..(w - 1), w * k + r = w * j + s
    PROVE  r = s
<1>1. w * (k - j) = s - r /\ w * (j - k) = r - s
    OBVIOUS
<1>2. ~(k - j >= 1)
    BY <1>1, MulLarge
<1>3. ~(j - k >= 1)
    BY <1>1, MulLarge
<1>4. k = j
    BY <1>2, <1>3
<1> QED BY <1>4

\* Numbers that differ by a multiple have the same remainder.
LEMMA ModShift ==
    ASSUME NEW a \in Int, NEW k \in Int, NEW w \in Int, w > 0
    PROVE  (a + w * k) % w = a % w
<1> DEFINE b == a + w * k
<1>1. b \in Int
    OBVIOUS
<1>2. a = w * (a \div w) + (a % w) /\ a % w \in 0..(w - 1) /\ a \div w \in Int
    BY DivMod
<1>3. b = w * (b \div w) + (b % w) /\ b % w \in 0..(w - 1) /\ b \div w \in Int
    BY <1>1, DivMod
<1> DEFINE q == a \div w
           r == a % w
           j == b \div w
           s == b % w
<1>4. w * (q + k) + r = w * j + s
    <2>1. w * (q + k) + r = w * q + w * k + r
        BY <1>2
    <2> QED BY <1>2, <1>3, <2>1
<1>5. q + k \in Int /\ j \in Int /\ r \in 0..(w - 1) /\ s \in 0..(w - 1)
    BY <1>2, <1>3
<1> HIDE DEF q, r, j, s
<1>6. r = s
    BY <1>4, <1>5, RemainderUnique
<1> QED BY <1>6 DEF r, s

----------------------------------------------------------------------------
(* Ladders. *)

\* findBidLevelIndex and findAskLevelIndex have an answer on a sorted ladder.
LEMMA SplitExists ==
    ASSUME NEW sd \in Side, NEW lv, Len(lv) \in Nat, NEW p \in Int,
           \A i \in 1..Len(lv) : lv[i].price \in Int,
           IsLadder(sd, lv)
    PROVE  \E n \in 1..(Len(lv) + 1) : SplitsAt(sd, lv, p, n)
<1> DEFINE T == { n \in 1..(Len(lv) + 1) :
                    n <= Len(lv) => ~Better(sd, lv[n].price, p) }
<1>1. T \subseteq Nat /\ T # {}
    <2>1. Len(lv) + 1 \in T
        OBVIOUS
    <2> QED BY <2>1
<1>2. PICK n \in T : \A m \in T : n <= m
    BY <1>1, LeastNat
<1>3. \A i \in 1..(n - 1) : Better(sd, lv[i].price, p)
    BY <1>2
<1>4. \A i \in n..Len(lv) : ~Better(sd, lv[i].price, p)
    BY <1>2 DEF IsLadder, Better, Side
<1> QED BY <1>2, <1>3, <1>4 DEF SplitsAt

\* There is only one.
LEMMA SplitUnique ==
    ASSUME NEW sd \in Side, NEW lv, Len(lv) \in Nat, NEW p \in Int,
           NEW m, NEW n, SplitsAt(sd, lv, p, m), SplitsAt(sd, lv, p, n)
    PROVE  m = n
BY DEF SplitsAt

\* So FindLevelIndex is the index that splits the ladder.
LEMMA FindIsSplit ==
    ASSUME NEW sd \in Side, NEW lv, Len(lv) \in Nat, NEW p \in Int,
           \A i \in 1..Len(lv) : lv[i].price \in Int,
           IsLadder(sd, lv)
    PROVE  SplitsAt(sd, lv, p, FindLevelIndex(sd, lv, p))
BY SplitExists DEF FindLevelIndex

\* And if a level has the price, it is the one found.
LEMMA FindHitsLevel ==
    ASSUME NEW sd \in Side, NEW lv, Len(lv) \in Nat, NEW p \in Int,
           \A i \in 1..Len(lv) : lv[i].price \in Int,
           IsLadder(sd, lv),
           NEW n \in 1..Len(lv), lv[n].price = p
    PROVE  FindLevelIndex(sd, lv, p) = n /\ HasLevel(sd, lv, p)
<1>1. SplitsAt(sd, lv, p, n)
    BY DEF SplitsAt, IsLadder, Better, Side
<1>2. FindLevelIndex(sd, lv, p) = n
    BY <1>1, FindIsSplit, SplitUnique
<1> QED BY <1>2 DEF HasLevel

====

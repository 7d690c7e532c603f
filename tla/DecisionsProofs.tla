--------------------------- MODULE DecisionsProofs ---------------------------
(***************************************************************************)
(* The decision pipeline, for any proposals, workers, request threads,     *)
(* policy, recommendations, midnights and deaths. First the sums that the  *)
(* turnover and the books are made of, then the pipeline.                  *)
(***************************************************************************)
EXTENDS Decisions, FiniteSetTheorems, WellFoundedInduction, TLAPS

-----------------------------------------------------------------------------
(* Sums over finite sets                                                   *)

(* Induction: a set of subsets of a finite set has a smallest member.      *)
LEMMA SmallestSet ==
  ASSUME NEW S, IsFiniteSet(S), NEW T, T \subseteq SUBSET S, T # {}
  PROVE  \E U \in T : \A V \in T : V \subseteq U => V = U
<1>1. FiniteSubsetsOf(S) = SUBSET S
  BY FS_FiniteSubsetsOfFinite
<1>2. IsWellFoundedOn(StrictSubsetOrdering(S), SUBSET S)
  BY <1>1, FS_StrictSubsetOrderingWellFounded
<1>3. \E U \in T : \A V \in T : ~ (<<V, U>> \in StrictSubsetOrdering(S))
  BY <1>2, WFMin
<1> QED
  BY <1>3 DEF StrictSubsetOrdering

(* A set of natural numbers has a smallest member.                         *)
LEMMA SmallestNumber ==
  ASSUME NEW B, B \subseteq Nat, B # {}
  PROVE  \E n \in B : \A m \in B : n <= m
<1>1. \E n \in B : \A m \in B : ~ (<<m, n>> \in OpToRel(<, Nat))
  BY NatLessThanWellFounded, WFMin
<1>2. PICK n \in B : \A m \in B : ~ (<<m, n>> \in {ss \in Nat \X Nat : ss[1] < ss[2]})
  BY <1>1 DEF OpToRel
<1>3. ASSUME NEW m \in B, m < n
      PROVE  FALSE
  <2>1. <<m, n>> \in Nat \X Nat /\ <<m, n>>[1] < <<m, n>>[2]
    BY <1>3
  <2> QED
    BY <1>2, <2>1
<1>4. \A m \in B : n <= m
  BY <1>3
<1> QED
  BY <1>4

(* The recursive function behind a sum of f over the subsets of S.         *)
Pick(s) == CHOOSE x \in s : TRUE
SumUp(f, g, s) == IF s = {} THEN 0 ELSE f[Pick(s)] + g[s \ {Pick(s)}]
Sums(f, S, g) == g = [s \in SUBSET S |-> SumUp(f, g, s)]

(* It is a member.                                                         *)
LEMMA PickIs == \A s : s # {} => Pick(s) \in s
BY DEF Pick

(* It exists: the sums up to one size give those of the next.              *)
LEMMA SumsExist ==
  ASSUME NEW S, IsFiniteSet(S), NEW f
  PROVE  \E g : Sums(f, S, g)
<1> DEFINE Small(n) == {s \in SUBSET S : Cardinality(s) <= n}
           B == {n \in Nat : ~ \E g : g = [s \in Small(n) |-> SumUp(f, g, s)]}
<1>1. \A s \in SUBSET S : IsFiniteSet(s) /\ Cardinality(s) \in Nat
  BY FS_Subset, FS_CardinalityType
<1>2. \A s \in SUBSET S : s # {} => /\ s \ {Pick(s)} \in SUBSET S
                                    /\ Cardinality(s \ {Pick(s)}) = Cardinality(s) - 1
  BY <1>1, PickIs, FS_RemoveElement
<1>3. ASSUME NEW n \in B, \A m \in B : n <= m
      PROVE  FALSE
  <2>1. CASE n = 0
    <3>1. \A s \in Small(0) : s = {}
      BY <1>1, FS_EmptySet
    <3> DEFINE g == [s \in Small(0) |-> 0]
    <3>2. \A s \in Small(0) : SumUp(f, g, s) = 0
      BY <3>1 DEF SumUp
    <3>3. g = [s \in Small(0) |-> SumUp(f, g, s)]
      BY <3>2
    <3> HIDE DEF g
    <3> QED
      BY <2>1, <3>3
  <2>2. CASE n # 0
    <3>0. n \in Nat
      OBVIOUS
    <3>1. n - 1 \in Nat /\ n - 1 \notin B
      <4> HIDE DEF B
      <4>1. n - 1 \in Nat /\ n - 1 < n
        BY <2>2, <3>0
      <4> QED
        BY <1>3, <3>0, <4>1
    <3>2. PICK h : h = [s \in Small(n - 1) |-> SumUp(f, h, s)]
      BY <3>1
    <3> DEFINE g == [s \in Small(n) |-> SumUp(f, h, s)]
    <3>3. \A s \in Small(n - 1) : s \in Small(n) /\ g[s] = h[s]
      <4>1. \A s \in Small(n - 1) : s \in Small(n)
        BY <1>1, <3>1
      <4>2. \A s \in Small(n - 1) : h[s] = SumUp(f, h, s)
        BY <3>2
      <4> QED
        BY <4>1, <4>2
    <3>4. \A s \in Small(n) : s # {} => s \ {Pick(s)} \in Small(n - 1)
      BY <1>1, <1>2, <3>1
    <3> HIDE DEF Small
    <3>5. \A s \in Small(n) : SumUp(f, g, s) = SumUp(f, h, s)
      BY <3>3, <3>4 DEF SumUp
    <3>6. g = [s \in Small(n) |-> SumUp(f, g, s)]
      BY <3>5
    <3> HIDE DEF g
    <3> QED
      BY <3>6
  <2> QED
    BY <2>1, <2>2
<1>4. B = {}
  <2> HIDE DEF B
  <2> SUFFICES ASSUME B # {} PROVE FALSE
    OBVIOUS
  <2>1. B \subseteq Nat
    BY DEF B
  <2> QED
    BY <1>3, <2>1, SmallestNumber
<1>5. Cardinality(S) \in Nat /\ Small(Cardinality(S)) = SUBSET S
  BY FS_CardinalityType, FS_Subset
<1> QED
  <2> DEFINE n == Cardinality(S)
  <2>1. n \in Nat /\ n \notin B
    BY <1>4, <1>5
  <2>2. PICK g : g = [s \in Small(n) |-> SumUp(f, g, s)]
    BY <2>1
  <2>3. Small(n) = SUBSET S
    BY <1>5
  <2> HIDE DEF Small, n
  <2> QED
    BY <2>2, <2>3 DEF Sums

(* It depends on f only: two of them agree where both sum the same.        *)
LEMMA SumsAgree ==
  ASSUME NEW S, IsFiniteSet(S), NEW R, NEW Q, S \subseteq R, S \subseteq Q,
         NEW f, NEW e, \A x \in S : f[x] = e[x],
         NEW g, Sums(f, R, g), NEW h, Sums(e, Q, h)
  PROVE  \A s \in SUBSET S : g[s] = h[s]
<1> DEFINE T == {s \in SUBSET S : g[s] # h[s]}
<1>1. \A s \in SUBSET S : g[s] = SumUp(f, g, s) /\ h[s] = SumUp(e, h, s)
  BY DEF Sums
<1>2. ASSUME NEW U \in T, \A V \in T : V \subseteq U => V = U
      PROVE  FALSE
  <2>1. CASE U = {}
    BY <1>1, <2>1 DEF SumUp
  <2>2. CASE U # {}
    <3>1. Pick(U) \in S /\ Pick(U) \in U
      BY <2>2, PickIs
    <3>2. g[U \ {Pick(U)}] = h[U \ {Pick(U)}]
      BY <1>2, <3>1
    <3> QED
      BY <1>1, <2>2, <3>1, <3>2 DEF SumUp
  <2> QED
    BY <2>1, <2>2
<1>3. T = {}
  <2> HIDE DEF T
  <2> SUFFICES ASSUME T # {} PROVE FALSE
    OBVIOUS
  <2>1. T \subseteq SUBSET S
    BY DEF T
  <2> QED
    BY <1>2, <2>1, SmallestSet
<1> QED
  BY <1>3

(* Sums of natural numbers are natural numbers.                            *)
LEMMA SumsAreNatural ==
  ASSUME NEW S, IsFiniteSet(S), NEW f, \A x \in S : f[x] \in Nat, NEW g, Sums(f, S, g)
  PROVE  \A s \in SUBSET S : g[s] \in Nat
<1> DEFINE T == {s \in SUBSET S : g[s] \notin Nat}
<1>1. \A s \in SUBSET S : g[s] = SumUp(f, g, s)
  BY DEF Sums
<1>2. ASSUME NEW U \in T, \A V \in T : V \subseteq U => V = U
      PROVE  FALSE
  <2>1. CASE U = {}
    BY <1>1, <2>1 DEF SumUp
  <2>2. CASE U # {}
    <3>1. Pick(U) \in S /\ Pick(U) \in U
      BY <2>2, PickIs
    <3>2. g[U \ {Pick(U)}] \in Nat
      BY <1>2, <3>1
    <3> QED
      BY <1>1, <2>2, <3>1, <3>2 DEF SumUp
  <2> QED
    BY <2>1, <2>2
<1>3. T = {}
  <2> HIDE DEF T
  <2> SUFFICES ASSUME T # {} PROVE FALSE
    OBVIOUS
  <2>1. T \subseteq SUBSET S
    BY DEF T
  <2> QED
    BY <1>2, <2>1, SmallestSet
<1> QED
  BY <1>3

(* In a sum any member may come first.                                     *)
AnyFirst(f, S, g) == \A s \in SUBSET S : \A x \in s : g[s] = f[x] + g[s \ {x}]

LEMMA AnyComesFirst ==
  ASSUME NEW S, IsFiniteSet(S), NEW f, \A x \in S : f[x] \in Nat, NEW g, Sums(f, S, g)
  PROVE  AnyFirst(f, S, g)
<1> DEFINE T == {s \in SUBSET S : \E x \in s : g[s] # f[x] + g[s \ {x}]}
<1>1. \A s \in SUBSET S : g[s] = SumUp(f, g, s) /\ g[s] \in Nat
  BY SumsAreNatural DEF Sums
<1>2. ASSUME NEW U \in T, \A V \in T : V \subseteq U => V = U
      PROVE  FALSE
  <2>1. PICK x \in U : g[U] # f[x] + g[U \ {x}]
    OBVIOUS
  <2> DEFINE p == Pick(U)
  <2>2. p \in U /\ p \in S /\ x \in S /\ g[U] = f[p] + g[U \ {p}]
    BY <1>1, PickIs DEF SumUp
  <2>3. x # p
    BY <2>1, <2>2
  <2>4. U \ {p} \notin T /\ U \ {x} \notin T
    BY <1>2, <2>2
  <2>5. g[U \ {p}] = f[x] + g[(U \ {p}) \ {x}]
    BY <2>2, <2>3, <2>4
  <2>6. g[U \ {x}] = f[p] + g[(U \ {x}) \ {p}]
    BY <2>2, <2>3, <2>4
  <2>7. (U \ {p}) \ {x} = (U \ {x}) \ {p}
    OBVIOUS
  <2>8. g[(U \ {x}) \ {p}] \in Nat /\ f[x] \in Nat /\ f[p] \in Nat
    BY <1>1, <2>2
  <2> HIDE DEF p
  <2>9. PICK n \in Nat : n = g[(U \ {x}) \ {p}]
    BY <2>8
  <2>10. g[U] = f[p] + (f[x] + n) /\ g[U \ {x}] = f[p] + n
    BY <2>2, <2>5, <2>6, <2>7, <2>9
  <2> QED
    BY <2>1, <2>8, <2>10
<1>3. T = {}
  <2> HIDE DEF T
  <2> SUFFICES ASSUME T # {} PROVE FALSE
    OBVIOUS
  <2>1. T \subseteq SUBSET S
    BY DEF T
  <2> QED
    BY <1>2, <2>1, SmallestSet
<1> QED
  BY <1>3 DEF AnyFirst

-----------------------------------------------------------------------------
(* MapThenSumSet of a function                                             *)

SumOf(f, S) == MapThenSumSet(LAMBDA p : f[p], S)

(* It is the last of the sums over the subsets.                            *)
LEMMA SumOfIs ==
  ASSUME NEW S, IsFiniteSet(S), NEW f
  PROVE  \E g : Sums(f, S, g) /\ SumOf(f, S) = g[S]
<1>1. PICK h : Sums(f, S, h)
  BY SumsExist
<1>2. h = [s \in SUBSET S |-> IF s = {} THEN 0
             ELSE f[CHOOSE x \in s : TRUE] + h[s \ {CHOOSE x \in s : TRUE}]]
  BY <1>1 DEF Sums, SumUp, Pick
<1>3. \E g : /\ g = [s \in SUBSET S |-> IF s = {} THEN 0
                      ELSE f[CHOOSE x \in s : TRUE] + g[s \ {CHOOSE x \in s : TRUE}]]
             /\ SumOf(f, S) = g[S]
  BY <1>2 DEF SumOf, MapThenSumSet, MapThenFoldSet
<1> QED
  BY <1>3 DEF Sums, SumUp, Pick

(* A new member adds its number.                                           *)
LEMMA SumAdds ==
  ASSUME NEW S, IsFiniteSet(S), NEW x, x \notin S,
         NEW f, \A y \in S \cup {x} : f[y] \in Nat
  PROVE  SumOf(f, S \cup {x}) = SumOf(f, S) + f[x] /\ SumOf(f, S) \in Nat
<1> DEFINE R == S \cup {x}
<1>1. IsFiniteSet(R) /\ R \in SUBSET R /\ x \in R /\ S \subseteq R /\ R \ {x} = S
  BY FS_AddElement
<1>2. \A y \in R : f[y] \in Nat
  OBVIOUS
<1> HIDE DEF R
<1>3. PICK g : Sums(f, S, g) /\ SumOf(f, S) = g[S]
  BY SumOfIs
<1>4. PICK h : Sums(f, R, h) /\ SumOf(f, R) = h[R]
  BY <1>1, SumOfIs
<1>5. \A s \in SUBSET S : g[s] = h[s]
  BY <1>1, <1>3, <1>4, SumsAgree
<1>6. AnyFirst(f, R, h)
  BY <1>1, <1>2, <1>4, AnyComesFirst
<1>7. h[R] = f[x] + h[S]
  BY <1>1, <1>6 DEF AnyFirst
<1>8. SumOf(f, R) = f[x] + SumOf(f, S)
  BY <1>3, <1>4, <1>5, <1>7
<1>9. SumOf(f, S) \in Nat /\ f[x] \in Nat
  BY <1>1, <1>2, <1>3, SumsAreNatural
<1> QED
  BY <1>8, <1>9 DEF R

(* Natural numbers have a natural sum; that of none is 0.                  *)
LEMMA SumIsNatural ==
  ASSUME NEW S, IsFiniteSet(S), NEW f, \A y \in S : f[y] \in Nat
  PROVE  SumOf(f, S) \in Nat /\ (S = {} => SumOf(f, S) = 0)
<1>1. PICK g : Sums(f, S, g) /\ SumOf(f, S) = g[S]
  BY SumOfIs
<1>2. SumOf(f, S) \in Nat
  BY <1>1, SumsAreNatural
<1>3. S = {} => g[S] = 0
  BY <1>1 DEF Sums, SumUp
<1> QED
  BY <1>1, <1>2, <1>3

(* Nothing but the numbers of the members counts.                          *)
LEMMA SumIsOfMembers ==
  ASSUME NEW S, IsFiniteSet(S), NEW f, NEW e, \A y \in S : f[y] = e[y]
  PROVE  SumOf(f, S) = SumOf(e, S)
<1>1. PICK g : Sums(f, S, g) /\ SumOf(f, S) = g[S]
  BY SumOfIs
<1>2. PICK h : Sums(e, S, h) /\ SumOf(e, S) = h[S]
  BY SumOfIs
<1>3. \A s \in SUBSET S : g[s] = h[s]
  BY <1>1, <1>2, SumsAgree
<1> QED
  BY <1>1, <1>2, <1>3

-----------------------------------------------------------------------------
(* What executed orders were worth, and their shares                       *)

Worth(S)  == MapThenSumSet(Total, S)
Shares(S) == MapThenSumSet(Size, S)

(* The worth of orders as the sum of a function.                           *)
LEMMA WorthIsSum ==
  \A R : IsFiniteSet(R) => Worth(R) = SumOf([p \in R |-> Total(p)], R)
<1> SUFFICES ASSUME NEW S, IsFiniteSet(S)
             PROVE  Worth(S) = SumOf([p \in S |-> Total(p)], S)
  OBVIOUS
<1> DEFINE f == [p \in S |-> Total(p)]
<1>1. PICK g : Sums(f, S, g)
  BY SumsExist
<1>2. \A s \in SUBSET S : s # {} => f[CHOOSE x \in s : TRUE] = Total(CHOOSE x \in s : TRUE)
  BY PickIs DEF Pick
<1>3. g = [s \in SUBSET S |-> IF s = {} THEN 0
             ELSE Total(CHOOSE x \in s : TRUE) + g[s \ {CHOOSE x \in s : TRUE}]]
  BY <1>1, <1>2 DEF Sums, SumUp, Pick
<1>4. PICK h : /\ h = [s \in SUBSET S |-> IF s = {} THEN 0
                         ELSE Total(CHOOSE x \in s : TRUE) + h[s \ {CHOOSE x \in s : TRUE}]]
               /\ Worth(S) = h[S]
  BY <1>3 DEF Worth, MapThenSumSet, MapThenFoldSet
<1>5. Sums(f, S, h)
  BY <1>2, <1>4 DEF Sums, SumUp, Pick
<1>6. PICK k : Sums(f, S, k) /\ SumOf(f, S) = k[S]
  BY SumOfIs
<1>7. \A s \in SUBSET S : h[s] = k[s]
  BY <1>5, <1>6, SumsAgree
<1> QED
  BY <1>4, <1>6, <1>7

(* It is natural, and nothing for no orders; a new order adds its part.    *)
LEMMA WorthAdds ==
  \A S : IsFiniteSet(S) /\ (\A p \in S : Total(p) \in Nat) =>
    /\ Worth(S) \in Nat /\ (S = {} => Worth(S) = 0)
    /\ \A q : q \notin S /\ Total(q) \in Nat => Worth(S \cup {q}) = Worth(S) + Total(q)
<1> SUFFICES ASSUME NEW S, IsFiniteSet(S), \A p \in S : Total(p) \in Nat
             PROVE  /\ Worth(S) \in Nat /\ (S = {} => Worth(S) = 0)
                    /\ \A q : q \notin S /\ Total(q) \in Nat =>
                         Worth(S \cup {q}) = Worth(S) + Total(q)
  OBVIOUS
<1>1. Worth(S) \in Nat /\ (S = {} => Worth(S) = 0)
  <2> DEFINE f == [p \in S |-> Total(p)]
  <2>1. \A p \in S : f[p] \in Nat
    OBVIOUS
  <2>2. Worth(S) = SumOf(f, S)
    BY WorthIsSum
  <2> HIDE DEF f
  <2> QED
    BY <2>1, <2>2, SumIsNatural
<1>2. ASSUME NEW q, q \notin S, Total(q) \in Nat
      PROVE  Worth(S \cup {q}) = Worth(S) + Total(q)
  <2> DEFINE R == S \cup {q}
             e == [p \in R |-> Total(p)]
             f == [p \in S |-> Total(p)]
  <2>1. IsFiniteSet(R)
    BY FS_AddElement
  <2>2. \A p \in R : e[p] \in Nat
    BY <1>2
  <2>3. \A p \in S : e[p] = f[p]
    OBVIOUS
  <2>4. e[q] = Total(q)
    OBVIOUS
  <2>5. Worth(R) = SumOf(e, R) /\ Worth(S) = SumOf(f, S)
    BY <2>1, WorthIsSum
  <2> HIDE DEF e, f
  <2>6. SumOf(e, S) = SumOf(f, S)
    BY <2>3, SumIsOfMembers
  <2>7. SumOf(e, R) = SumOf(e, S) + e[q]
    BY <1>2, <2>2, SumAdds
  <2> QED
    BY <2>4, <2>5, <2>6, <2>7
<1> QED
  BY <1>1, <1>2

(* So it is in the next state.                                             *)
LEMMA WorthIsSumNext ==
  (\A R : IsFiniteSet(R) => Worth(R) = SumOf([p \in R |-> Total(p)], R))'
BY WorthIsSum, PTL

(* A step that changes none of the parts leaves the sum.                   *)
LEMMA WorthStays ==
  \A S : IsFiniteSet(S) /\ (\A p \in S : Total(p)' = Total(p)) => Worth(S)' = Worth(S)
<1> SUFFICES ASSUME NEW S, IsFiniteSet(S), \A p \in S : Total(p)' = Total(p)
             PROVE  Worth(S)' = Worth(S)
  OBVIOUS
<1>1. (\A R : IsFiniteSet(R) => Worth(R) = SumOf([p \in R |-> Total(p)], R))'
  BY WorthIsSumNext
<1>2. Worth(S)' = SumOf([p \in S |-> Total(p)'], S)
  BY <1>1
<1>3. Worth(S) = SumOf([p \in S |-> Total(p)], S)
  BY WorthIsSum
<1> DEFINE f == [p \in S |-> Total(p)]
           e == [p \in S |-> Total(p)']
<1>4. \A p \in S : f[p] = e[p]
  OBVIOUS
<1> HIDE DEF f, e
<1>5. SumOf(f, S) = SumOf(e, S)
  BY <1>4, SumIsOfMembers
<1> QED
  BY <1>2, <1>3, <1>5 DEF f, e

(* The shares of orders as the sum of a function.                          *)
LEMMA SharesIsSum ==
  \A R : IsFiniteSet(R) => Shares(R) = SumOf([p \in R |-> Size(p)], R)
<1> SUFFICES ASSUME NEW S, IsFiniteSet(S)
             PROVE  Shares(S) = SumOf([p \in S |-> Size(p)], S)
  OBVIOUS
<1> DEFINE f == [p \in S |-> Size(p)]
<1>1. PICK g : Sums(f, S, g)
  BY SumsExist
<1>2. \A s \in SUBSET S : s # {} => f[CHOOSE x \in s : TRUE] = Size(CHOOSE x \in s : TRUE)
  BY PickIs DEF Pick
<1>3. g = [s \in SUBSET S |-> IF s = {} THEN 0
             ELSE Size(CHOOSE x \in s : TRUE) + g[s \ {CHOOSE x \in s : TRUE}]]
  BY <1>1, <1>2 DEF Sums, SumUp, Pick
<1>4. PICK h : /\ h = [s \in SUBSET S |-> IF s = {} THEN 0
                         ELSE Size(CHOOSE x \in s : TRUE) + h[s \ {CHOOSE x \in s : TRUE}]]
               /\ Shares(S) = h[S]
  BY <1>3 DEF Shares, MapThenSumSet, MapThenFoldSet
<1>5. Sums(f, S, h)
  BY <1>2, <1>4 DEF Sums, SumUp, Pick
<1>6. PICK k : Sums(f, S, k) /\ SumOf(f, S) = k[S]
  BY SumOfIs
<1>7. \A s \in SUBSET S : h[s] = k[s]
  BY <1>5, <1>6, SumsAgree
<1> QED
  BY <1>4, <1>6, <1>7

(* It is natural, and nothing for no orders; a new order adds its part.    *)
LEMMA SharesAdds ==
  \A S : IsFiniteSet(S) /\ (\A p \in S : Size(p) \in Nat) =>
    /\ Shares(S) \in Nat /\ (S = {} => Shares(S) = 0)
    /\ \A q : q \notin S /\ Size(q) \in Nat => Shares(S \cup {q}) = Shares(S) + Size(q)
<1> SUFFICES ASSUME NEW S, IsFiniteSet(S), \A p \in S : Size(p) \in Nat
             PROVE  /\ Shares(S) \in Nat /\ (S = {} => Shares(S) = 0)
                    /\ \A q : q \notin S /\ Size(q) \in Nat =>
                         Shares(S \cup {q}) = Shares(S) + Size(q)
  OBVIOUS
<1>1. Shares(S) \in Nat /\ (S = {} => Shares(S) = 0)
  <2> DEFINE f == [p \in S |-> Size(p)]
  <2>1. \A p \in S : f[p] \in Nat
    OBVIOUS
  <2>2. Shares(S) = SumOf(f, S)
    BY SharesIsSum
  <2> HIDE DEF f
  <2> QED
    BY <2>1, <2>2, SumIsNatural
<1>2. ASSUME NEW q, q \notin S, Size(q) \in Nat
      PROVE  Shares(S \cup {q}) = Shares(S) + Size(q)
  <2> DEFINE R == S \cup {q}
             e == [p \in R |-> Size(p)]
             f == [p \in S |-> Size(p)]
  <2>1. IsFiniteSet(R)
    BY FS_AddElement
  <2>2. \A p \in R : e[p] \in Nat
    BY <1>2
  <2>3. \A p \in S : e[p] = f[p]
    OBVIOUS
  <2>4. e[q] = Size(q)
    OBVIOUS
  <2>5. Shares(R) = SumOf(e, R) /\ Shares(S) = SumOf(f, S)
    BY <2>1, SharesIsSum
  <2> HIDE DEF e, f
  <2>6. SumOf(e, S) = SumOf(f, S)
    BY <2>3, SumIsOfMembers
  <2>7. SumOf(e, R) = SumOf(e, S) + e[q]
    BY <1>2, <2>2, SumAdds
  <2> QED
    BY <2>4, <2>5, <2>6, <2>7
<1> QED
  BY <1>1, <1>2

(* So it is in the next state.                                             *)
LEMMA SharesIsSumNext ==
  (\A R : IsFiniteSet(R) => Shares(R) = SumOf([p \in R |-> Size(p)], R))'
BY SharesIsSum, PTL

(* A step that changes none of the parts leaves the sum.                   *)
LEMMA SharesStays ==
  \A S : IsFiniteSet(S) /\ (\A p \in S : Size(p)' = Size(p)) => Shares(S)' = Shares(S)
<1> SUFFICES ASSUME NEW S, IsFiniteSet(S), \A p \in S : Size(p)' = Size(p)
             PROVE  Shares(S)' = Shares(S)
  OBVIOUS
<1>1. (\A R : IsFiniteSet(R) => Shares(R) = SumOf([p \in R |-> Size(p)], R))'
  BY SharesIsSumNext
<1>2. Shares(S)' = SumOf([p \in S |-> Size(p)'], S)
  BY <1>1
<1>3. Shares(S) = SumOf([p \in S |-> Size(p)], S)
  BY SharesIsSum
<1> DEFINE f == [p \in S |-> Size(p)]
           e == [p \in S |-> Size(p)']
<1>4. \A p \in S : f[p] = e[p]
  OBVIOUS
<1> HIDE DEF f, e
<1>5. SumOf(f, S) = SumOf(e, S)
  BY <1>4, SumIsOfMembers
<1> QED
  BY <1>2, <1>3, <1>5 DEF f, e
-----------------------------------------------------------------------------
(* The inductive invariant                                                 *)

Working(w) == worker[w].step # "idle"
Reading(w) == worker[w].step \in {"account_read", "turnover_read"}

(* A proposal has one worker at most, and its decision none before it.     *)
PipelineInv ==
  /\ \A v, w \in Worker : Working(v) /\ Working(w) /\ worker[v].on = worker[w].on => v = w
  /\ \A w \in Worker : LET p == worker[w].on IN
       /\ Working(w) => p \in Persisted
       /\ Working(w) => (p \in Decided <=> worker[w].step = "decided")
       /\ Reading(w) => snapshot[p] \in Portfolio

(* What is approved without a person needs none.                           *)
PersonInv ==
  /\ \A p \in executed \cup approved : decision[p].outcome = "approved"
  /\ \A p \in Decided : decision[p].outcome = "approved" =>
       p \in approved \/ ~NeedsHuman(Total(p))
  /\ \A a \in Approver : approver[a] # NoProposal => approver[a] \in approved

(* What an evaluation read is the account as it is, unless it is outdated, *)
(* and a turnover that can only have become smaller.                       *)
Current(p) ==
  /\ snapshot[p].cash = account.cash /\ snapshot[p].held = account.held
  /\ snapshot[p].others = 0 /\ snapshot[p].sector = 0

ReadingInv ==
  \A w \in Worker : LET p == worker[w].on IN
    Reading(w) /\ p \notin outdated =>
      Current(p) /\ (worker[w].step = "turnover_read" => Turnover <= snapshot[p].turnover)

IInv ==
  /\ TypeOK /\ IsFiniteSet(executed) /\ PipelineInv /\ PersonInv
  /\ ReadingInv /\ DecisionsStayGood /\ BooksBalance

-----------------------------------------------------------------------------
(* Rows                                                                    *)

(* A product of natural numbers is one.                                    *)
LEMMA Products == \A m, n \in Nat : m * n \in Nat
OBVIOUS

(* What an order is worth.                                                 *)
LEMMA NotionalIsNatural == \A p \in Proposal, q \in Nat : Notional(p, q) \in Nat
<1> SUFFICES ASSUME NEW p \in Proposal, NEW q \in Nat
             PROVE  Notional(p, q) \in Nat
  OBVIOUS
<1>1. p.price \in Nat
  BY DEF Proposal
<1>2. RiskPrice(p) \in Nat
  BY <1>1 DEF RiskPrice, Dollar, Spread
<1> QED
  BY <1>2, Products DEF Notional

(* Persisted and decided rows have their fields.                           *)
LEMMA RowsAre ==
  ASSUME TypeOK
  PROVE  /\ \A p \in Persisted : p \in ProposalId /\ proposal[p] \in Proposal
         /\ \A p \in Decided : /\ p \in ProposalId /\ p \in Persisted
                               /\ decision[p] \in Decision
                               /\ decision[p].outcome \in Outcome /\ Size(p) \in Nat
                               /\ Total(p) \in Nat
         /\ account.cash \in Nat /\ account.held \in Nat
<1>1. \A p \in Persisted : p \in ProposalId /\ proposal[p] \in Proposal
  BY DEF TypeOK, Persisted
<1>2. \A p \in Decided : p \in ProposalId /\ p \in Persisted /\ decision[p] \in Decision
  BY DEF TypeOK, Decided
<1>3. \A p \in Decided : decision[p].outcome \in Outcome /\ Size(p) \in Nat
  BY <1>2 DEF Decision, Size
<1>4. \A p \in Decided : Total(p) \in Nat
  BY <1>1, <1>2, <1>3, NotionalIsNatural DEF Total
<1> QED
  BY <1>1, <1>2, <1>3, <1>4 DEF TypeOK

(* The turnover is natural, and that of no day 0.                          *)
LEMMA TurnoverIsNatural ==
  ASSUME TypeOK, IsFiniteSet(executed)
  PROVE  Turnover \in Nat /\ IsFiniteSet(today)
<1>1. IsFiniteSet(today)
  BY FS_Subset DEF TypeOK
<1>2. \A p \in today : Total(p) \in Nat
  BY RowsAre DEF TypeOK
<1>3. Worth(today) \in Nat
  BY <1>1, <1>2, WorthAdds
<1> QED
  BY <1>1, <1>3 DEF Turnover, Worth

-----------------------------------------------------------------------------
(* Steps that execute nothing                                              *)

(* The terms and sizes of executed orders stay, and so do the sums.        *)
LEMMA BooksStay ==
  ASSUME IInv, executed' = executed, account' = account,
         \A p \in executed : proposal'[p] = proposal[p] /\ Size(p)' = Size(p)
  PROVE  /\ BooksBalance' /\ \A p \in executed : Total(p)' = Total(p)
         /\ today' = today => Turnover' = Turnover
<1>1. \A p \in executed : Total(p)' = Total(p) /\ IsBuy(p)' = IsBuy(p)
  BY DEF Total, IsBuy
<1> DEFINE bought == {p \in executed : IsBuy(p)}
           sold == executed \ bought
<1>2. {p \in executed' : IsBuy(p)'} = bought
  BY <1>1
<1>3. \A S \in SUBSET executed : IsFiniteSet(S)
  BY FS_Subset DEF IInv
<1>4. \A S \in SUBSET executed : Worth(S)' = Worth(S) /\ Shares(S)' = Shares(S)
  BY <1>1, <1>3, WorthStays, SharesStays
<1>5. bought \in SUBSET executed /\ sold \in SUBSET executed /\ today \in SUBSET executed
  BY DEF IInv, TypeOK
<1>6. /\ account.cash = InitialCash - Worth(bought) + Worth(sold)
      /\ account.held = Shares(bought) - Shares(sold)
  BY DEF IInv, BooksBalance, Worth, Shares
<1>7. PICK B, C, D : B = bought /\ C = sold /\ D = today
  OBVIOUS
<1>8. /\ Worth(B)' = Worth(B) /\ Worth(C)' = Worth(C) /\ Worth(D)' = Worth(D)
      /\ Shares(B)' = Shares(B) /\ Shares(C)' = Shares(C)
  BY <1>4, <1>5, <1>7
<1>9. {p \in executed' : IsBuy(p)'} = B /\ executed' \ B = C
  BY <1>2, <1>7
<1>10. /\ account'.cash = InitialCash - Worth(B)' + Worth(C)'
       /\ account'.held = Shares(B)' - Shares(C)'
  BY <1>6, <1>7, <1>8
<1>11. BooksBalance'
  BY <1>9, <1>10 DEF BooksBalance, Worth, Shares
<1>12. today' = today => Turnover' = Turnover
  BY <1>7, <1>8 DEF Turnover, Worth
<1> QED
  BY <1>1, <1>11, <1>12

(* A smaller turnover and any peak leave a compliant order compliant.      *)
LEMMA StaysCompliant ==
  \A p \in Proposal, q \in Nat, pf, pg \in Portfolio :
    /\ pf.cash = pg.cash /\ pf.held = pg.held /\ pf.others = pg.others
    /\ pf.sector = pg.sector /\ pf.turnover <= pg.turnover
    /\ Compliant(p, pg, q)
    => Compliant(p, pf, q)
<1> SUFFICES ASSUME NEW p \in Proposal, NEW q \in Nat, NEW pf \in Portfolio, NEW pg \in Portfolio,
                    pf.cash = pg.cash, pf.held = pg.held, pf.others = pg.others,
                    pf.sector = pg.sector, pf.turnover <= pg.turnover, Compliant(p, pg, q)
             PROVE  Compliant(p, pf, q)
  OBVIOUS
<1>1. Notional(p, q) \in Nat /\ pf.turnover \in Nat /\ pg.turnover \in Nat /\ MaxTurnover \in Nat
  BY NotionalIsNatural, PolicyIsValid DEF Portfolio, PolicyIsValid
<1>2. Position(p, pf, q) = Position(p, pg, q) /\ Value(p, pf) = Value(p, pg)
  BY DEF Position, Value
<1>3. pf.turnover + Notional(p, q) <= MaxTurnover
  BY <1>1 DEF Compliant
<1> QED
  BY <1>2, <1>3 DEF Compliant

(* What an evaluation of this moment would read.                           *)
Standing(pk) == [cash |-> account.cash, held |-> account.held, others |-> 0, sector |-> 0,
                 turnover |-> Turnover, peak |-> pk]

Good(p) == decision[p].outcome # "rejected" => Compliant(proposal[p], Standing(peak), Size(p))

(* It is a portfolio.                                                      *)
LEMMA StandingIs ==
  ASSUME IInv
  PROVE  \A pk \in Nat : Standing(pk) \in Portfolio
BY RowsAre, TurnoverIsNatural DEF IInv, Standing, Portfolio

(* A step that writes none of the orders' tables keeps what is said of     *)
(* them alone.                                                             *)
LEMMA TablesStay ==
  ASSUME IInv, UNCHANGED <<proposal, decision, approved, executed, today, account>>
  PROVE  /\ Persisted' = Persisted /\ Decided' = Decided /\ Turnover' = Turnover
         /\ IsFiniteSet(executed') /\ BooksBalance'
         /\ \A p \in ProposalId : Total(p)' = Total(p)
         /\ \A p \in ProposalId : Good(p) /\ peak' \in Nat /\ p \in Decided => Good(p)'
<1>1. Persisted' = Persisted /\ Decided' = Decided
  BY DEF Persisted, Decided
<1>2. \A p \in ProposalId : Size(p)' = Size(p) /\ Total(p)' = Total(p)
  BY DEF Size, Total
<1>3. executed \subseteq ProposalId
  BY DEF IInv, TypeOK, Decided
<1>4. BooksBalance' /\ Turnover' = Turnover
  BY <1>2, <1>3, BooksStay
<1>5. IsFiniteSet(executed')
  BY DEF IInv
<1>6. ASSUME NEW p \in ProposalId, Good(p), peak' \in Nat, p \in Decided, decision[p].outcome # "rejected"
      PROVE  Compliant(proposal[p], Standing(peak), Size(p))'
  <2>1. Compliant(proposal[p], Standing(peak), Size(p))
    BY <1>6 DEF Good
  <2>2. Standing(peak)' = Standing(peak')
    BY <1>4 DEF Standing
  <2>3. Standing(peak') \in Portfolio /\ Standing(peak) \in Portfolio
    BY <1>6, StandingIs DEF IInv, TypeOK
  <2>4. proposal[p] \in Proposal /\ Size(p) \in Nat
    BY <1>6, RowsAre DEF IInv
  <2>5. Turnover \in Nat
    BY TurnoverIsNatural DEF IInv
  <2>6. Compliant(proposal[p], Standing(peak'), Size(p))
    BY <2>1, <2>3, <2>4, <2>5, StaysCompliant DEF Standing
  <2> QED
    BY <1>2, <2>2, <2>6
<1>7. \A p \in ProposalId : Good(p) /\ peak' \in Nat /\ p \in Decided => Good(p)'
  BY <1>6 DEF Good
<1> QED
  BY <1>1, <1>2, <1>4, <1>5, <1>7

(* DecisionsStayGood in these words.                                       *)
LEMMA GoodIs ==
  DecisionsStayGood <=> \A p \in Decided \ (executed \cup outdated) : Good(p)
BY DEF DecisionsStayGood, Good, Standing, Size

(* So it is in the next state.                                             *)
LEMMA GoodIsNext ==
  (DecisionsStayGood <=> \A p \in Decided \ (executed \cup outdated) : Good(p))'
BY GoodIs, PTL

(* Where a worker is says what its proposal has.                           *)
LEMMA WorkerIs ==
  ASSUME IInv, NEW w \in Worker, NEW p \in ProposalId, NEW step \in Step, step # "idle",
         At(w, p, step)
  PROVE  /\ Working(w) /\ worker[w].on = p /\ worker[w].step = step
         /\ p \in Persisted /\ proposal[p] \in Proposal
         /\ (p \in Decided <=> step = "decided")
         /\ step \in {"account_read", "turnover_read"} => snapshot[p] \in Portfolio
         /\ \A v \in Worker : Working(v) /\ worker[v].on = p => v = w
<1>1. Working(w) /\ worker[w].on = p /\ worker[w].step = step
  BY DEF At, Working
<1>2. p \in Persisted /\ (p \in Decided <=> step = "decided")
  BY <1>1 DEF IInv, PipelineInv
<1>3. step \in {"account_read", "turnover_read"} => snapshot[p] \in Portfolio
  BY <1>1 DEF IInv, PipelineInv, Reading
<1>4. \A v \in Worker : Working(v) /\ worker[v].on = p => v = w
  BY <1>1 DEF IInv, PipelineInv
<1> QED
  BY <1>1, <1>2, <1>3, <1>4, RowsAre DEF IInv

-----------------------------------------------------------------------------
(* Every step keeps the invariant                                          *)

(* A new proposal has no decision, and no other worker.                    *)
LEMMA ProposeKeeps ==
  ASSUME IInv, NEW w \in Worker, NEW p \in ProposalId, Propose(w, p)
  PROVE  IInv'
<1>1. PICK r \in Proposal : proposal' = [proposal EXCEPT ![p] = r] /\ quote' = r.price
  BY InputsAreValid DEF Propose, InputsAreValid
<1>2. r.price \in Nat /\ r # NoProposal
  BY InputsAreValid DEF Proposal, InputsAreValid
<1>3. /\ worker' = [worker EXCEPT ![w] = [step |-> "proposed", on |-> p]]
      /\ p \notin Persisted /\ p \notin Decided
      /\ UNCHANGED <<decision, approved, executed, today, account, peak,
                     snapshot, approver, outdated, days, faults>>
  BY RowsAre DEF Propose, Goto, IInv
<1>4. /\ Persisted' = Persisted \cup {p} /\ Decided' = Decided
      /\ \A q \in Persisted : proposal'[q] = proposal[q]
  <2>1. proposal \in [ProposalId -> Proposal \cup {NoProposal}]
    BY DEF IInv, TypeOK
  <2> QED
    BY <1>1, <1>2, <1>3, <2>1 DEF Persisted, Decided
<1>5. TypeOK'
  <2>1. proposal' \in [ProposalId -> Proposal \cup {NoProposal}]
    BY <1>1 DEF IInv, TypeOK
  <2>2. worker' \in [Worker -> [step : Step, on : ProposalId \cup {NoProposal}]]
    BY <1>3 DEF IInv, TypeOK, Step
  <2> QED
    BY <1>1, <1>2, <1>3, <1>4, <2>1, <2>2 DEF IInv, TypeOK
<1>6. \A q \in Decided : q \in Persisted /\ q \in ProposalId /\ Size(q)' = Size(q) /\ Total(q)' = Total(q)
  BY <1>3, <1>4, RowsAre DEF IInv, Size, Total
<1>7. executed \subseteq Decided
  BY DEF IInv, TypeOK
<1>8. BooksBalance' /\ Turnover' = Turnover /\ IsFiniteSet(executed')
  BY <1>3, <1>4, <1>6, <1>7, BooksStay DEF IInv
<1>9. /\ worker'[w].step = "proposed" /\ worker'[w].on = p
      /\ \A v \in Worker : v # w => worker'[v] = worker[v]
      /\ Working(w)' /\ ~Reading(w)'
  <2>1. worker \in [Worker -> [step : Step, on : ProposalId \cup {NoProposal}]]
    BY DEF IInv, TypeOK
  <2> QED
    BY <1>3, <2>1 DEF Working, Reading
<1>10. PipelineInv'
  BY <1>3, <1>4, <1>9 DEF IInv, PipelineInv, Working, Reading
<1>11. PersonInv'
  <2>1. approved \subseteq Decided
    BY DEF IInv, TypeOK
  <2> QED
    BY <1>3, <1>4, <1>6, <1>7, <2>1 DEF IInv, PersonInv
<1>12. ReadingInv'
  BY <1>3, <1>8, <1>9 DEF IInv, ReadingInv, Reading, Current
<1>13. DecisionsStayGood'
  <2>1. Standing(peak)' = Standing(peak)
    BY <1>3, <1>8 DEF Standing
  <2>2. \A q \in Decided : Good(q)' = Good(q)
    BY <1>3, <1>4, <1>6, <2>1 DEF Good
  <2> QED
    BY <1>3, <1>4, <2>2, GoodIs, GoodIsNext DEF IInv
<1> QED
  BY <1>5, <1>8, <1>10, <1>11, <1>12, <1>13 DEF IInv

(* An evaluation begins with the account as it is.                         *)
LEMMA ReadAccountKeeps ==
  ASSUME IInv, NEW w \in Worker, NEW p \in ProposalId, ReadAccount(w, p)
  PROVE  IInv'
<1>1. /\ Working(w) /\ worker[w].on = p /\ p \in Persisted /\ p \notin Decided
      /\ \A v \in Worker : Working(v) /\ worker[v].on = p => v = w
  BY WorkerIs DEF ReadAccount, Step
<1> DEFINE read == [cash |-> account.cash, held |-> account.held,
                    others |-> 0, sector |-> 0, turnover |-> 0, peak |-> peak]
<1>2. /\ snapshot' = [snapshot EXCEPT ![p] = read] /\ outdated' = outdated \ {p}
      /\ worker' = [worker EXCEPT ![w] = [step |-> "account_read", on |-> p]]
      /\ UNCHANGED <<tables, approver, days, faults>>
  BY DEF ReadAccount, AccountToEvaluate, Goto
<1>3. read \in Portfolio
  BY DEF IInv, TypeOK, Portfolio
<1>4. read.cash = account.cash /\ read.held = account.held /\ read.others = 0 /\ read.sector = 0
  OBVIOUS
<1> HIDE DEF read
<1>5. UNCHANGED <<proposal, decision, approved, executed, today, account, peak, quote>>
  BY <1>2 DEF tables
<1>6. /\ Persisted' = Persisted /\ Decided' = Decided /\ Turnover' = Turnover
      /\ IsFiniteSet(executed') /\ BooksBalance'
      /\ \A q \in ProposalId : Total(q)' = Total(q)
      /\ \A q \in ProposalId : Good(q) /\ peak' \in Nat /\ q \in Decided => Good(q)'
  BY <1>5, TablesStay
<1>7. /\ worker'[w].step = "account_read" /\ worker'[w].on = p
      /\ \A v \in Worker : v # w => worker'[v] = worker[v]
  BY <1>2 DEF IInv, TypeOK
<1>8. snapshot'[p] = read /\ \A q \in ProposalId : q # p => snapshot'[q] = snapshot[q]
  BY <1>2 DEF IInv, TypeOK
<1>9. TypeOK'
  <2>1. worker' \in [Worker -> [step : Step, on : ProposalId \cup {NoProposal}]]
    BY <1>2 DEF IInv, TypeOK, Step
  <2>2. snapshot' \in [ProposalId -> Portfolio \cup {NoSnapshot}]
    BY <1>2, <1>3 DEF IInv, TypeOK
  <2> QED
    BY <1>2, <1>5, <1>6, <2>1, <2>2 DEF IInv, TypeOK
<1>10. \A v \in Worker : v # w /\ Working(v) => worker[v].on # p /\ worker[v].on \in ProposalId
  BY <1>1, RowsAre DEF IInv, PipelineInv
<1>11. PipelineInv'
  BY <1>1, <1>3, <1>6, <1>7, <1>8, <1>10 DEF IInv, PipelineInv, Working, Reading
<1>12. PersonInv'
  <2>1. \A q \in Decided : q \in ProposalId
    BY RowsAre DEF IInv
  <2> QED
    BY <1>2, <1>5, <1>6, <2>1 DEF IInv, PersonInv
<1>13. ReadingInv'
  <2> SUFFICES ASSUME NEW v \in Worker, Reading(v)', worker'[v].on \notin outdated'
               PROVE  /\ Current(worker[v].on)'
                      /\ worker'[v].step = "turnover_read" => Turnover' <= snapshot'[worker'[v].on].turnover
    BY DEF ReadingInv
  <2>1. CASE v = w
    BY <1>4, <1>5, <1>7, <1>8, <2>1 DEF Current
  <2>2. CASE v # w
    BY <1>2, <1>5, <1>6, <1>7, <1>8, <1>10, <2>2 DEF IInv, ReadingInv, Reading, Working, Current
  <2> QED
    BY <2>1, <2>2
<1>14. DecisionsStayGood'
  <2>1. \A q \in Decided \ (executed \cup outdated) : Good(q) /\ q \in ProposalId
    BY GoodIs, RowsAre DEF IInv
  <2>2. peak' \in Nat
    BY <1>5 DEF IInv, TypeOK
  <2>3. \A q \in Decided' \ (executed' \cup outdated') : Good(q)'
    BY <1>1, <1>2, <1>5, <1>6, <2>1, <2>2
  <2> QED
    BY <2>3, GoodIsNext
<1> QED
  BY <1>6, <1>9, <1>11, <1>12, <1>13, <1>14 DEF IInv

(* Then comes the turnover, which no step but an execution raises.         *)
LEMMA ReadTurnoverKeeps ==
  ASSUME IInv, NEW w \in Worker, NEW p \in ProposalId, ReadTurnover(w, p)
  PROVE  IInv'
<1>1. /\ Working(w) /\ worker[w].on = p /\ p \in Persisted /\ p \notin Decided
      /\ worker[w].step = "account_read" /\ snapshot[p] \in Portfolio
      /\ \A v \in Worker : Working(v) /\ worker[v].on = p => v = w
  BY WorkerIs DEF ReadTurnover, Step
<1>2. /\ snapshot' = [snapshot EXCEPT ![p].turnover = Turnover]
      /\ worker' = [worker EXCEPT ![w] = [step |-> "turnover_read", on |-> p]]
      /\ UNCHANGED <<tables, approver, outdated, days, faults>>
  BY DEF ReadTurnover, Goto
<1>3. Turnover \in Nat
  BY TurnoverIsNatural DEF IInv
<1>4. PICK read : read = [snapshot[p] EXCEPT !.turnover = Turnover]
  OBVIOUS
<1>5. /\ read \in Portfolio /\ read.turnover = Turnover
      /\ read.cash = snapshot[p].cash /\ read.held = snapshot[p].held
      /\ read.others = snapshot[p].others /\ read.sector = snapshot[p].sector
  BY <1>1, <1>3, <1>4 DEF Portfolio
<1>6. UNCHANGED <<proposal, decision, approved, executed, today, account, peak, quote>>
  BY <1>2 DEF tables
<1>7. /\ Persisted' = Persisted /\ Decided' = Decided /\ Turnover' = Turnover
      /\ IsFiniteSet(executed') /\ BooksBalance'
      /\ \A q \in ProposalId : Total(q)' = Total(q)
      /\ \A q \in ProposalId : Good(q) /\ peak' \in Nat /\ q \in Decided => Good(q)'
  BY <1>6, TablesStay
<1>8. /\ worker'[w].step = "turnover_read" /\ worker'[w].on = p
      /\ \A v \in Worker : v # w => worker'[v] = worker[v]
  BY <1>2 DEF IInv, TypeOK
<1>9. /\ snapshot' = [snapshot EXCEPT ![p] = read]
      /\ snapshot'[p] = read /\ \A q \in ProposalId : q # p => snapshot'[q] = snapshot[q]
  BY <1>2, <1>4 DEF IInv, TypeOK
<1>10. TypeOK'
  <2>1. worker' \in [Worker -> [step : Step, on : ProposalId \cup {NoProposal}]]
    BY <1>2 DEF IInv, TypeOK, Step
  <2>2. snapshot' \in [ProposalId -> Portfolio \cup {NoSnapshot}]
    BY <1>5, <1>9 DEF IInv, TypeOK
  <2> QED
    BY <1>2, <1>6, <1>7, <2>1, <2>2 DEF IInv, TypeOK
<1>11. \A v \in Worker : v # w /\ Working(v) => worker[v].on # p /\ worker[v].on \in ProposalId
  BY <1>1, RowsAre DEF IInv, PipelineInv
<1>12. PipelineInv'
  BY <1>1, <1>5, <1>7, <1>8, <1>9, <1>11 DEF IInv, PipelineInv, Working, Reading
<1>13. PersonInv'
  <2>1. \A q \in Decided : q \in ProposalId
    BY RowsAre DEF IInv
  <2> QED
    BY <1>2, <1>6, <1>7, <2>1 DEF IInv, PersonInv
<1>14. ReadingInv'
  <2> SUFFICES ASSUME NEW v \in Worker, Reading(v)', worker'[v].on \notin outdated'
               PROVE  /\ Current(worker[v].on)'
                      /\ worker'[v].step = "turnover_read" => Turnover' <= snapshot'[worker'[v].on].turnover
    BY DEF ReadingInv
  <2>1. CASE v = w
    <3>1. Current(p)
      BY <1>1, <1>2, <1>8, <2>1 DEF IInv, ReadingInv, Reading
    <3> QED
      BY <1>3, <1>5, <1>6, <1>7, <1>8, <1>9, <2>1, <3>1 DEF Current
  <2>2. CASE v # w
    BY <1>2, <1>6, <1>7, <1>8, <1>9, <1>11, <2>2 DEF IInv, ReadingInv, Reading, Working, Current
  <2> QED
    BY <2>1, <2>2
<1>15. DecisionsStayGood'
  <2>1. \A q \in Decided \ (executed \cup outdated) : Good(q) /\ q \in ProposalId
    BY GoodIs, RowsAre DEF IInv
  <2>2. peak' \in Nat
    BY <1>6 DEF IInv, TypeOK
  <2>3. \A q \in Decided' \ (executed' \cup outdated') : Good(q)'
    BY <1>2, <1>6, <1>7, <2>1, <2>2
  <2> QED
    BY <2>3, GoodIsNext
<1> QED
  BY <1>7, <1>10, <1>12, <1>13, <1>14, <1>15 DEF IInv

(* A step that at most frees workers, loses approval requests or records a *)
(* value: no table of the orders changes.                                  *)
LEMMA ClientsLeave ==
  ASSUME IInv, TypeOK', UNCHANGED <<proposal, decision, approved, executed, today, account,
                                    snapshot, outdated>>,
         \A v \in Worker : worker'[v] = worker[v] \/ worker'[v] = Idle,
         \A a \in Approver : approver'[a] = approver[a] \/ approver'[a] = NoProposal
  PROVE  IInv'
<1>1. /\ Persisted' = Persisted /\ Decided' = Decided /\ Turnover' = Turnover
      /\ IsFiniteSet(executed') /\ BooksBalance'
      /\ \A q \in ProposalId : Total(q)' = Total(q)
      /\ \A q \in ProposalId : Good(q) /\ peak' \in Nat /\ q \in Decided => Good(q)'
  BY TablesStay
<1>2. \A v \in Worker : Working(v)' => worker'[v] = worker[v]
  BY DEF Working, Idle
<1>3. \A v \in Worker : /\ Working(v)' => Working(v)
                        /\ Reading(v)' => Reading(v) /\ worker'[v] = worker[v]
  BY <1>2 DEF Working, Reading, Idle
<1>4. PipelineInv'
  BY <1>1, <1>2, <1>3 DEF IInv, PipelineInv
<1>5. PersonInv'
  <2>1. \A q \in Decided : q \in ProposalId
    BY RowsAre DEF IInv
  <2> QED
    BY <1>1, <2>1 DEF IInv, PersonInv
<1>6. ReadingInv'
  BY <1>1, <1>3 DEF IInv, ReadingInv, Current
<1>7. DecisionsStayGood'
  <2>1. \A q \in Decided \ (executed \cup outdated) : Good(q) /\ q \in ProposalId
    BY GoodIs, RowsAre DEF IInv
  <2>2. peak' \in Nat
    BY DEF TypeOK
  <2>3. \A q \in Decided' \ (executed' \cup outdated') : Good(q)'
    BY <1>1, <2>1, <2>2
  <2> QED
    BY <2>3, GoodIsNext
<1> QED
  BY <1>1, <1>4, <1>5, <1>6, <1>7 DEF IInv

(* A worker that gives up or a request that dies leaves the tables alone.  *)
LEMMA DeathsKeep ==
  ASSUME IInv, (\E w \in Worker : Abandon(w)) \/ (\E a \in Approver : LoseApproval(a))
  PROVE  IInv'
<1>0. UNCHANGED <<proposal, decision, approved, executed, today, account, peak, quote,
                  snapshot, outdated, days>> /\ faults' \in 0..MaxFaults
  BY InputsAreValid DEF IInv, TypeOK, Abandon, LoseApproval, tables, InputsAreValid
<1>1. /\ \A v \in Worker : worker'[v] = worker[v] \/ worker'[v] = Idle
      /\ worker' \in [Worker -> [step : Step, on : ProposalId \cup {NoProposal}]]
  BY DEF IInv, TypeOK, Abandon, LoseApproval, Leave, Idle, Step
<1>2. /\ \A a \in Approver : approver'[a] = approver[a] \/ approver'[a] = NoProposal
      /\ approver' \in [Approver -> ProposalId \cup {NoProposal}]
  BY DEF IInv, TypeOK, Abandon, LoseApproval
<1>3. TypeOK'
  BY <1>0, <1>1, <1>2, TablesStay DEF IInv, TypeOK
<1> QED
  BY <1>0, <1>1, <1>2, <1>3, ClientsLeave

(* A recorded value changes nothing but the peak.                          *)
LEMMA RecordValueKeeps ==
  ASSUME IInv, RecordValue
  PROVE  IInv'
<1>1. UNCHANGED <<proposal, decision, approved, executed, today, account, quote,
                  snapshot, worker, approver, outdated, days, faults>>
  BY DEF RecordValue, clients
<1>2. peak' \in Nat
  <2>1. /\ quote \in Nat /\ account.cash \in Nat /\ account.held \in Nat /\ peak \in Nat
        /\ InitialCash \in Nat
    BY InputsAreValid DEF IInv, TypeOK, InputsAreValid
  <2>2. quote * Dollar \in Nat
    BY <2>1 DEF Dollar
  <2>3. quote * Dollar * account.held \in Nat
    BY <2>1, <2>2, Products
  <2> QED
    BY <2>1, <2>3 DEF RecordValue
<1>3. TypeOK'
  BY <1>1, <1>2, TablesStay DEF IInv, TypeOK
<1> QED
  BY <1>1, <1>3, ClientsLeave

(* The turnover of a new day is 0.                                         *)
LEMMA MidnightKeeps ==
  ASSUME IInv, Midnight
  PROVE  IInv'
<1>1. /\ UNCHANGED <<proposal, decision, approved, executed, account, peak, quote,
                     snapshot, worker, approver, outdated, faults>>
      /\ today' = {} /\ days' \in 0..MaxDays
  BY InputsAreValid DEF Midnight, clients, IInv, TypeOK, InputsAreValid
<1>2. Persisted' = Persisted /\ Decided' = Decided
  BY <1>1 DEF Persisted, Decided
<1>3. TypeOK'
  BY <1>1, <1>2 DEF IInv, TypeOK
<1>4. Turnover \in Nat /\ Turnover' = 0
  <2>1. Worth({})' = Worth({}) /\ Worth({}) = 0
    BY FS_EmptySet, WorthStays, WorthAdds
  <2>2. Turnover' = Worth({})'
    BY <1>1 DEF Turnover, Worth
  <2> QED
    BY <2>1, <2>2, TurnoverIsNatural DEF IInv
<1>5. \A q \in Decided : /\ q \in ProposalId /\ proposal[q] \in Proposal /\ Size(q) \in Nat
                         /\ Size(q)' = Size(q) /\ Total(q)' = Total(q)
  BY <1>1, RowsAre DEF IInv, Size, Total
<1>6. executed \subseteq Decided
  BY DEF IInv, TypeOK
<1>7. BooksBalance'
  BY <1>1, <1>5, <1>6, BooksStay
<1>8. PipelineInv'
  BY <1>1, <1>2 DEF IInv, PipelineInv, Working, Reading
<1>9. PersonInv'
  BY <1>1, <1>2, <1>5 DEF IInv, PersonInv
<1>10. ReadingInv'
  <2> SUFFICES ASSUME NEW v \in Worker, Reading(v)', worker'[v].on \notin outdated'
               PROVE  /\ Current(worker[v].on)'
                      /\ worker'[v].step = "turnover_read" => Turnover' <= snapshot'[worker'[v].on].turnover
    BY DEF ReadingInv
  <2>1. Reading(v) /\ worker[v].on \notin outdated
    BY <1>1 DEF Reading
  <2>2. snapshot[worker[v].on] \in Portfolio
    BY <2>1 DEF IInv, PipelineInv
  <2>3. Current(worker[v].on)
    BY <2>1 DEF IInv, ReadingInv
  <2> QED
    BY <1>1, <1>4, <2>2, <2>3 DEF Current, Portfolio
<1>11. DecisionsStayGood'
  <2>1. Standing(peak) \in Portfolio
    BY StandingIs DEF IInv, TypeOK
  <2>2. PICK pf : pf = [Standing(peak) EXCEPT !.turnover = 0]
    OBVIOUS
  <2>3. Standing(peak)' = pf /\ pf \in Portfolio
    BY <1>1, <1>4, <2>1, <2>2 DEF Standing, Portfolio
  <2>4. \A q \in Decided : Good(q) => Good(q)'
    <3> SUFFICES ASSUME NEW q \in Decided, Good(q), decision[q].outcome # "rejected"
                 PROVE  Compliant(proposal[q], Standing(peak), Size(q))'
      BY <1>1 DEF Good
    <3>1. Compliant(proposal[q], Standing(peak), Size(q))
      BY DEF Good
    <3>2. Compliant(proposal[q], pf, Size(q))
      BY <1>4, <1>5, <2>1, <2>2, <2>3, <3>1, StaysCompliant DEF Standing
    <3> QED
      BY <1>1, <1>5, <2>3, <3>2
  <2> QED
    BY <1>1, <1>2, <2>4, GoodIs, GoodIsNext DEF IInv
<1> QED
  BY <1>1, <1>3, <1>7, <1>8, <1>9, <1>10, <1>11 DEF IInv

(* What the engine decides at the largest compliant size.                  *)
LEMMA EvaluateIs ==
  \A p \in Proposal, pf \in Portfolio, sized \in Nat :
    IsLargestCompliant(p, pf, sized) =>
      LET d == Evaluate(p, pf, sized) IN
      /\ d \in Decision
      /\ d.outcome = "rejected" => d.quantity = 0
      /\ d.outcome # "rejected" => /\ d.quantity \in 1..p.quantity
                                   /\ Compliant(p, pf, d.quantity)
      /\ d.outcome = "approved" => ~NeedsHuman(Notional(p, d.quantity))
<1> SUFFICES ASSUME NEW p \in Proposal, NEW pf \in Portfolio, NEW sized \in Nat,
                    IsLargestCompliant(p, pf, sized)
             PROVE  LET d == Evaluate(p, pf, sized) IN
                    /\ d \in Decision
                    /\ d.outcome = "rejected" => d.quantity = 0
                    /\ d.outcome # "rejected" => /\ d.quantity \in 1..p.quantity
                                                 /\ Compliant(p, pf, d.quantity)
                    /\ d.outcome = "approved" => ~NeedsHuman(Notional(p, d.quantity))
  OBVIOUS
<1>1. p.quantity \in Nat /\ sized <= p.quantity
  BY DEF IsLargestCompliant, Proposal
<1>2. CASE sized = 0
  <2>1. Evaluate(p, pf, sized) = [outcome |-> "rejected", quantity |-> 0]
    BY <1>2 DEF Evaluate
  <2> QED
    BY <2>1 DEF Decision, Outcome
<1>3. CASE /\ sized > 0
           /\ ~(p.eligible /\ (p.side = "sell" => p.quantity <= pf.held)
                /\ Compliant(p, pf, sized) /\ WithinDrawdown(p, pf))
  <2>1. Evaluate(p, pf, sized) = [outcome |-> "rejected", quantity |-> 0]
    BY <1>3 DEF Evaluate
  <2> QED
    BY <2>1 DEF Decision, Outcome
<1>4. CASE /\ sized > 0
           /\ p.eligible /\ (p.side = "sell" => p.quantity <= pf.held)
           /\ Compliant(p, pf, sized) /\ WithinDrawdown(p, pf)
  <2>1. sized \in 1..p.quantity
    BY <1>1, <1>4
  <2>2. CASE NeedsHuman(Notional(p, sized))
    <3>1. Evaluate(p, pf, sized) = [outcome |-> "pending_human", quantity |-> sized]
      BY <1>4, <2>2 DEF Evaluate
    <3> QED
      BY <1>4, <2>1, <3>1 DEF Decision, Outcome
  <2>3. CASE ~NeedsHuman(Notional(p, sized))
    <3>1. Evaluate(p, pf, sized) = [outcome |-> "approved", quantity |-> sized]
      BY <1>4, <2>3 DEF Evaluate
    <3> QED
      BY <1>4, <2>1, <2>3, <3>1 DEF Decision, Outcome
  <2> QED
    BY <2>2, <2>3
<1> QED
  BY <1>2, <1>3, <1>4

(* A decision is made from a reading that is current or outdated.          *)
LEMMA SaveDecisionKeeps ==
  ASSUME IInv, NEW w \in Worker, NEW p \in ProposalId, SaveDecision(w, p)
  PROVE  IInv'
<1>1. /\ Working(w) /\ worker[w].on = p /\ p \in Persisted /\ p \notin Decided
      /\ worker[w].step = "turnover_read" /\ snapshot[p] \in Portfolio /\ proposal[p] \in Proposal
      /\ \A v \in Worker : Working(v) /\ worker[v].on = p => v = w
  BY WorkerIs DEF SaveDecision, Step
<1>2. PICK sized \in 0..proposal[p].quantity :
        /\ IsLargestCompliant(proposal[p], snapshot[p], sized)
        /\ decision' = [decision EXCEPT ![p] = Evaluate(proposal[p], snapshot[p], sized)]
  BY DEF SaveDecision
<1>3. PICK d : d = Evaluate(proposal[p], snapshot[p], sized)
  OBVIOUS
<1>4. /\ d \in Decision /\ d # NoDecision /\ d.outcome \in Outcome /\ d.quantity \in Nat
      /\ d.outcome # "rejected" => Compliant(proposal[p], snapshot[p], d.quantity)
      /\ d.outcome = "approved" => ~NeedsHuman(Notional(proposal[p], d.quantity))
  <2>1. sized \in Nat
    BY <1>2
  <2>2. d \in Decision
    BY <1>1, <1>2, <1>3, <2>1, EvaluateIs
  <2> QED
    BY <1>1, <1>2, <1>3, <2>1, <2>2, EvaluateIs, InputsAreValid DEF Decision, InputsAreValid
<1>5. /\ worker' = [worker EXCEPT ![w] = [step |-> "decided", on |-> p]]
      /\ UNCHANGED <<proposal, approved, executed, today, account, peak, quote,
                     snapshot, approver, outdated, days, faults>>
  BY DEF SaveDecision, Goto
<1>6. decision'[p] = d /\ \A q \in ProposalId : q # p => decision'[q] = decision[q]
  BY <1>2, <1>3 DEF IInv, TypeOK
<1>7. Persisted' = Persisted /\ Decided' = Decided \cup {p}
  BY <1>4, <1>5, <1>6 DEF Persisted, Decided
<1>8. \A q \in Decided : /\ q \in ProposalId /\ q # p /\ Size(q)' = Size(q)
                         /\ Total(q)' = Total(q) /\ decision'[q] = decision[q]
  BY <1>1, <1>5, <1>6, RowsAre DEF IInv, Size, Total
<1>9. Size(p)' = d.quantity /\ Total(p)' = Notional(proposal[p], d.quantity)
  BY <1>5, <1>6 DEF Size, Total
<1>10. executed \subseteq Decided /\ approved \subseteq Decided
  BY DEF IInv, TypeOK
<1>11. BooksBalance' /\ Turnover' = Turnover
  BY <1>5, <1>8, <1>10, BooksStay
<1>12. TypeOK'
  <2>1. worker' \in [Worker -> [step : Step, on : ProposalId \cup {NoProposal}]]
    BY <1>5 DEF IInv, TypeOK, Step
  <2>2. decision' \in [ProposalId -> Decision \cup {NoDecision}]
    BY <1>2, <1>3, <1>4 DEF IInv, TypeOK
  <2> QED
    BY <1>1, <1>5, <1>7, <2>1, <2>2 DEF IInv, TypeOK
<1>13. /\ worker'[w].step = "decided" /\ worker'[w].on = p
       /\ \A v \in Worker : v # w => worker'[v] = worker[v]
       /\ Working(w)' /\ ~Reading(w)'
  <2>1. worker \in [Worker -> [step : Step, on : ProposalId \cup {NoProposal}]]
    BY DEF IInv, TypeOK
  <2> QED
    BY <1>5, <2>1 DEF Working, Reading
<1>14. PipelineInv'
  BY <1>1, <1>5, <1>7, <1>13 DEF IInv, PipelineInv, Working, Reading
<1>15. PersonInv'
  BY <1>1, <1>4, <1>5, <1>6, <1>7, <1>8, <1>9, <1>10 DEF IInv, PersonInv
<1>16. ReadingInv'
  BY <1>5, <1>11, <1>13 DEF IInv, ReadingInv, Reading, Current
<1>17. DecisionsStayGood'
  <2>1. Standing(peak)' = Standing(peak) /\ Standing(peak) \in Portfolio
    BY <1>5, <1>11, StandingIs DEF Standing, IInv, TypeOK
  <2>2. \A q \in Decided : Good(q)' = Good(q)
    BY <1>5, <1>8, <2>1 DEF Good
  <2>3. p \notin outdated => Good(p)'
    <3> SUFFICES ASSUME p \notin outdated, d.outcome # "rejected"
                 PROVE  Compliant(proposal[p], Standing(peak), d.quantity)
      BY <1>5, <1>6, <1>9, <2>1 DEF Good
    <3>1. Current(p) /\ Turnover <= snapshot[p].turnover
      BY <1>1 DEF IInv, ReadingInv, Reading
    <3> QED
      BY <1>1, <1>4, <2>1, <3>1, StaysCompliant DEF Standing, Current
  <2> QED
    BY <1>5, <1>7, <2>2, <2>3, GoodIs, GoodIsNext DEF IInv
<1> QED
  BY <1>5, <1>11, <1>12, <1>14, <1>15, <1>16, <1>17 DEF IInv

(* A person releases an order at its decided size.                         *)
LEMMA ApproveHumanKeeps ==
  ASSUME IInv, NEW a \in Approver, NEW p \in ProposalId, ApproveHuman(a, p)
  PROVE  IInv'
<1>1. /\ p \in Decided /\ decision[p].outcome = "pending_human" /\ p \notin executed
      /\ decision' = [decision EXCEPT ![p].outcome = "approved"]
      /\ approved' = approved \cup {p} /\ approver' = [approver EXCEPT ![a] = p]
      /\ UNCHANGED <<proposal, executed, today, account, peak, quote,
                     snapshot, worker, outdated, days, faults>>
  BY DEF ApproveHuman, Approvable, IInv, PersonInv
<1>2. decision[p] \in Decision /\ Size(p) \in Nat
  BY <1>1, RowsAre DEF IInv
<1>3. PICK d : d = [decision[p] EXCEPT !.outcome = "approved"]
  OBVIOUS
<1>4. d \in Decision /\ d.outcome = "approved" /\ d.quantity = decision[p].quantity /\ d # NoDecision
  <2>1. d \in Decision /\ d.outcome = "approved" /\ d.quantity = decision[p].quantity
    BY <1>2, <1>3 DEF Decision, Outcome
  <2> QED
    BY <2>1, InputsAreValid DEF InputsAreValid
<1>5. /\ decision' = [decision EXCEPT ![p] = d]
      /\ decision'[p] = d /\ \A q \in ProposalId : q # p => decision'[q] = decision[q]
  BY <1>1, <1>3 DEF IInv, TypeOK
<1>6. Persisted' = Persisted /\ Decided' = Decided
  BY <1>1, <1>4, <1>5 DEF Persisted, Decided
<1>7. \A q \in Decided : q \in ProposalId /\ Size(q)' = Size(q) /\ Total(q)' = Total(q)
  BY <1>1, <1>4, <1>5, RowsAre DEF IInv, Size, Total
<1>8. executed \subseteq Decided /\ approved \subseteq Decided
  BY DEF IInv, TypeOK
<1>9. BooksBalance' /\ Turnover' = Turnover
  BY <1>1, <1>7, <1>8, BooksStay
<1>10. TypeOK'
  <2>1. decision' \in [ProposalId -> Decision \cup {NoDecision}]
    BY <1>4, <1>5 DEF IInv, TypeOK
  <2>2. approver' \in [Approver -> ProposalId \cup {NoProposal}]
    BY <1>1 DEF IInv, TypeOK
  <2> QED
    BY <1>1, <1>6, <2>1, <2>2 DEF IInv, TypeOK
<1>11. PipelineInv'
  BY <1>1, <1>6 DEF IInv, PipelineInv, Working, Reading
<1>12. PersonInv'
  <2>1. approver \in [Approver -> ProposalId \cup {NoProposal}]
    BY DEF IInv, TypeOK
  <2>2. \A b \in Approver : approver'[b] # NoProposal => approver'[b] \in approved'
    BY <1>1, <2>1 DEF IInv, PersonInv
  <2>3. \A q \in executed' \cup approved' : decision'[q].outcome = "approved"
    BY <1>1, <1>4, <1>5, <1>7, <1>8 DEF IInv, PersonInv
  <2>4. \A q \in Decided' : decision'[q].outcome = "approved" =>
          q \in approved' \/ ~NeedsHuman(Total(q)')
    BY <1>1, <1>5, <1>6, <1>7 DEF IInv, PersonInv
  <2> QED
    BY <2>2, <2>3, <2>4 DEF PersonInv, NeedsHuman
<1>13. ReadingInv'
  BY <1>1, <1>9 DEF IInv, ReadingInv, Reading, Current
<1>14. DecisionsStayGood'
  <2>1. Standing(peak)' = Standing(peak)
    BY <1>1, <1>9 DEF Standing
  <2>2. \A q \in Decided : Good(q) => Good(q)'
    BY <1>1, <1>5, <1>7, <2>1 DEF Good
  <2> QED
    BY <1>1, <1>6, <2>2, GoodIs, GoodIsNext DEF IInv
<1> QED
  BY <1>1, <1>9, <1>10, <1>11, <1>12, <1>13, <1>14 DEF IInv

(* An execution charges what the account can bear, and the books with it.  *)
LEMMA ExecutionBalances ==
  ASSUME IInv, NEW p \in Decided, p \notin executed, Affordable(p),
         UNCHANGED <<proposal, decision>>, executed' = executed \cup {p}, account' = Charged(p)
  PROVE  BooksBalance' /\ account' \in [cash : Nat, held : Nat]
<1>1. /\ \A q \in executed \cup {p} : /\ Size(q) \in Nat /\ Total(q) \in Nat
                                      /\ Size(q)' = Size(q) /\ Total(q)' = Total(q)
      /\ account.cash \in Nat /\ account.held \in Nat /\ InitialCash \in Nat
  BY RowsAre, InputsAreValid DEF IInv, TypeOK, Size, Total, InputsAreValid
<1>2. \A S \in SUBSET (executed \cup {p}) :
        /\ IsFiniteSet(S) /\ Worth(S)' = Worth(S) /\ Shares(S)' = Shares(S)
        /\ Worth(S) \in Nat /\ Shares(S) \in Nat
  <2>1. IsFiniteSet(executed \cup {p})
    BY FS_AddElement DEF IInv
  <2> SUFFICES ASSUME NEW S \in SUBSET (executed \cup {p})
               PROVE  /\ IsFiniteSet(S) /\ Worth(S)' = Worth(S) /\ Shares(S)' = Shares(S)
                      /\ Worth(S) \in Nat /\ Shares(S) \in Nat
    OBVIOUS
  <2>2. IsFiniteSet(S)
    BY <2>1, FS_Subset
  <2> QED
    BY <1>1, <2>2, WorthStays, SharesStays, WorthAdds, SharesAdds
<1>3. PICK B, C : B = {q \in executed : IsBuy(q)} /\ C = executed \ B
  OBVIOUS
<1>4. /\ account.cash = InitialCash - Worth(B) + Worth(C)
      /\ account.held = Shares(B) - Shares(C)
  BY <1>3 DEF IInv, BooksBalance, Worth, Shares
<1>5. \A q : IsBuy(q)' = IsBuy(q)
  BY DEF IsBuy
<1>6. B \subseteq executed /\ C \subseteq executed /\ p \notin B /\ p \notin C
  BY <1>3
<1>7. /\ Worth(B) \in Nat /\ Worth(C) \in Nat /\ Shares(B) \in Nat /\ Shares(C) \in Nat
      /\ Worth(B)' = Worth(B) /\ Worth(C)' = Worth(C)
      /\ Shares(B)' = Shares(B) /\ Shares(C)' = Shares(C)
  BY <1>2, <1>6
<1>8. CASE IsBuy(p)
  <2>1. PICK D : D = B \cup {p}
    OBVIOUS
  <2>2. Worth(D) = Worth(B) + Total(p) /\ Shares(D) = Shares(B) + Size(p)
    BY <1>1, <1>2, <1>6, <2>1, WorthAdds, SharesAdds
  <2>3. Worth(D)' = Worth(D) /\ Shares(D)' = Shares(D)
    BY <1>2, <1>6, <2>1
  <2>4. {q \in executed' : IsBuy(q)'} = D /\ executed' \ D = C
    BY <1>3, <1>5, <1>8, <2>1
  <2>5. account'.cash = account.cash - Total(p) /\ account'.held = account.held + Size(p)
    BY <1>8 DEF Charged, AccountToCharge, Size
  <2>6. /\ account'.cash = InitialCash - Worth(D)' + Worth(C)'
        /\ account'.held = Shares(D)' - Shares(C)'
    BY <1>1, <1>4, <1>7, <2>2, <2>3, <2>5
  <2>7. BooksBalance'
    BY <2>4, <2>6 DEF BooksBalance, Worth, Shares
  <2>8. Total(p) <= account.cash
    BY <1>8 DEF Affordable, AccountToCharge
  <2>9. account.cash - Total(p) \in Nat /\ account.held + Size(p) \in Nat
    BY <1>1, <2>8
  <2> QED
    BY <1>8, <2>7, <2>9 DEF Charged, AccountToCharge, Size
<1>9. CASE ~IsBuy(p)
  <2>1. PICK D : D = C \cup {p}
    OBVIOUS
  <2>2. Worth(D) = Worth(C) + Total(p) /\ Shares(D) = Shares(C) + Size(p)
    BY <1>1, <1>2, <1>6, <2>1, WorthAdds, SharesAdds
  <2>3. Worth(D)' = Worth(D) /\ Shares(D)' = Shares(D)
    BY <1>2, <1>6, <2>1
  <2>4. {q \in executed' : IsBuy(q)'} = B /\ executed' \ B = D
    BY <1>3, <1>5, <1>9, <2>1
  <2>5. account'.cash = account.cash + Total(p) /\ account'.held = account.held - Size(p)
    BY <1>9 DEF Charged, AccountToCharge, Size
  <2>6. /\ account'.cash = InitialCash - Worth(B)' + Worth(D)'
        /\ account'.held = Shares(B)' - Shares(D)'
    BY <1>1, <1>4, <1>7, <2>2, <2>3, <2>5
  <2>7. BooksBalance'
    BY <2>4, <2>6 DEF BooksBalance, Worth, Shares
  <2>8. Size(p) <= account.held
    BY <1>9 DEF Affordable, AccountToCharge, Size
  <2>9. account.cash + Total(p) \in Nat /\ account.held - Size(p) \in Nat
    BY <1>1, <2>8
  <2> QED
    BY <1>9, <2>7, <2>9 DEF Charged, AccountToCharge, Size
<1> QED
  BY <1>8, <1>9

(* A submission executes an approved order once, or does nothing.          *)
LEMMA SubmitKeeps ==
  ASSUME IInv, NEW p \in Decided,
         Submit(p) \/ UNCHANGED <<account, executed, today, quote, outdated>>,
         UNCHANGED <<proposal, decision, approved, peak, snapshot, days, faults>>,
         worker' \in [Worker -> [step : Step, on : ProposalId \cup {NoProposal}]],
         \A v \in Worker : worker'[v] = worker[v] \/ worker'[v] = Idle,
         approver' \in [Approver -> ProposalId \cup {NoProposal}],
         \A a \in Approver : approver'[a] = approver[a] \/ approver'[a] = NoProposal
  PROVE  IInv'
<1>1. CASE UNCHANGED <<account, executed, today, quote, outdated>>
  <2>1. TypeOK'
    BY <1>1, TablesStay DEF IInv, TypeOK
  <2> QED
    BY <1>1, <2>1, ClientsLeave
<1>2. CASE ~UNCHANGED <<account, executed, today, quote, outdated>>
  <2>1. /\ p \notin executed /\ decision[p].outcome = "approved" /\ Affordable(p)
        /\ account' = Charged(p) /\ executed' = executed \cup {p} /\ today' = today \cup {p}
        /\ quote' = proposal[p].price /\ outdated' = (outdated \cup Persisted) \ executed'
    BY <1>2 DEF Submit
  <2>2. Persisted' = Persisted /\ Decided' = Decided
    BY DEF Persisted, Decided
  <2>3. BooksBalance' /\ account' \in [cash : Nat, held : Nat]
    BY <2>1, ExecutionBalances
  <2>4. p \in Persisted /\ proposal[p] \in Proposal
    BY RowsAre DEF IInv
  <2>5. TypeOK'
    BY <2>1, <2>2, <2>3, <2>4 DEF IInv, TypeOK, Proposal
  <2>6. \A v \in Worker : /\ Working(v)' => Working(v) /\ worker'[v] = worker[v]
                          /\ Reading(v)' => Reading(v) /\ worker'[v] = worker[v]
    BY DEF Working, Reading, Idle
  <2>7. PipelineInv'
    BY <2>2, <2>6 DEF IInv, PipelineInv
  <2>8. PersonInv'
    <3>1. \A q \in Decided : q \in ProposalId /\ Total(q)' = Total(q)
      BY RowsAre DEF IInv, Total, Size
    <3> QED
      BY <2>1, <2>2, <3>1 DEF IInv, PersonInv
  <2>9. ReadingInv'
    <3> SUFFICES ASSUME NEW v \in Worker, Reading(v)'
                 PROVE  worker'[v].on \in outdated'
      BY DEF ReadingInv
    <3>1. worker[v].on \in Persisted /\ worker[v].on \notin Decided
      BY <2>6 DEF IInv, PipelineInv, Working, Reading
    <3>2. executed' \subseteq Decided
      BY <2>1 DEF IInv, TypeOK
    <3> QED
      BY <2>1, <2>6, <3>1, <3>2
  <2>10. DecisionsStayGood'
    <3>1. Decided' \ (executed' \cup outdated') = {}
      BY <2>1, <2>2 DEF IInv, TypeOK
    <3> QED
      BY <3>1, GoodIsNext
  <2>11. IsFiniteSet(executed')
    BY <2>1, FS_AddElement DEF IInv
  <2> QED
    BY <2>3, <2>5, <2>7, <2>8, <2>9, <2>10, <2>11 DEF IInv
<1> QED
  BY <1>1, <1>2

(* The pipeline submits what the engine approved, the endpoint what a      *)
(* person did.                                                             *)
LEMMA ExecutionsKeep ==
  ASSUME IInv, \/ \E w \in Worker, p \in ProposalId : ExecuteDecided(w, p)
               \/ \E a \in Approver : ExecuteApproved(a)
  PROVE  IInv'
<1>1. ASSUME NEW w \in Worker, NEW p \in ProposalId, ExecuteDecided(w, p)
      PROVE  IInv'
  <2>1. p \in Decided
    BY <1>1, WorkerIs DEF ExecuteDecided, Step
  <2>2. Submit(p) \/ UNCHANGED <<account, executed, today, quote, outdated>>
    BY <1>1 DEF ExecuteDecided
  <2>3. /\ UNCHANGED <<proposal, decision, approved, peak, snapshot, days, faults>>
        /\ worker' \in [Worker -> [step : Step, on : ProposalId \cup {NoProposal}]]
        /\ \A v \in Worker : worker'[v] = worker[v] \/ worker'[v] = Idle
        /\ approver' \in [Approver -> ProposalId \cup {NoProposal}]
        /\ \A a \in Approver : approver'[a] = approver[a] \/ approver'[a] = NoProposal
    BY <1>1 DEF ExecuteDecided, Leave, Idle, Step, IInv, TypeOK
  <2> QED
    BY <2>1, <2>2, <2>3, SubmitKeeps
<1>2. ASSUME NEW a \in Approver, ExecuteApproved(a)
      PROVE  IInv'
  <2>1. PICK p : p = approver[a]
    OBVIOUS
  <2>2. p \in Decided /\ Submit(p)
    BY <1>2, <2>1 DEF ExecuteApproved, IInv, PersonInv, TypeOK
  <2>3. /\ UNCHANGED <<proposal, decision, approved, peak, snapshot, days, faults>>
        /\ worker' \in [Worker -> [step : Step, on : ProposalId \cup {NoProposal}]]
        /\ \A v \in Worker : worker'[v] = worker[v] \/ worker'[v] = Idle
        /\ approver' \in [Approver -> ProposalId \cup {NoProposal}]
        /\ \A b \in Approver : approver'[b] = approver[b] \/ approver'[b] = NoProposal
    BY <1>2 DEF ExecuteApproved, IInv, TypeOK
  <2> QED
    BY <2>2, <2>3, SubmitKeeps
<1> QED
  BY <1>1, <1>2

(* The account opens with its balance and no orders.                       *)
LEMMA IInvInit == Init => IInv
<1> SUFFICES ASSUME Init PROVE IInv
  OBVIOUS
<1>1. Persisted = {} /\ Decided = {} /\ executed = {} /\ today = {} /\ approved = {} /\ outdated = {}
  BY DEF Init, Persisted, Decided
<1>2. TypeOK
  BY <1>1, InputsAreValid DEF Init, TypeOK, InputsAreValid, Idle, Step
<1>3. BooksBalance
  <2>1. Worth({}) = 0 /\ Shares({}) = 0
    BY FS_EmptySet, WorthAdds, SharesAdds
  <2>2. {p \in executed : IsBuy(p)} = {} /\ executed \ {} = {}
    BY <1>1
  <2>3. account.cash = InitialCash /\ account.held = 0 /\ InitialCash \in Nat
    BY InputsAreValid DEF Init, InputsAreValid
  <2> QED
    BY <2>1, <2>2, <2>3 DEF BooksBalance, Worth, Shares
<1>4. PipelineInv /\ ReadingInv
  BY DEF Init, Idle, PipelineInv, ReadingInv, Working, Reading
<1>5. PersonInv /\ DecisionsStayGood
  BY <1>1 DEF Init, PersonInv, DecisionsStayGood
<1> QED
  BY <1>1, <1>2, <1>3, <1>4, <1>5, FS_EmptySet DEF IInv

(* Every step keeps the invariant.                                         *)
LEMMA IInvStep == IInv /\ [Next]_vars => IInv'
<1> SUFFICES ASSUME IInv, [Next]_vars PROVE IInv'
  OBVIOUS
<1>1. CASE UNCHANGED vars
  <2>1. UNCHANGED <<proposal, decision, approved, executed, today, account, peak, quote,
                    snapshot, worker, approver, outdated, days, faults>>
    BY <1>1 DEF vars, tables, clients
  <2>2. TypeOK'
    BY <2>1, TablesStay DEF IInv, TypeOK
  <2> QED
    BY <2>1, <2>2, ClientsLeave
<1>2. CASE \E w \in Worker, p \in ProposalId :
             \/ Propose(w, p) \/ ReadAccount(w, p) \/ ReadTurnover(w, p) \/ SaveDecision(w, p)
  BY <1>2, ProposeKeeps, ReadAccountKeeps, ReadTurnoverKeeps, SaveDecisionKeeps
<1>3. CASE \/ \E w \in Worker, p \in ProposalId : ExecuteDecided(w, p)
           \/ \E a \in Approver : ExecuteApproved(a)
  BY <1>3, ExecutionsKeep
<1>4. CASE (\E w \in Worker : Abandon(w)) \/ (\E a \in Approver : LoseApproval(a))
  BY <1>4, DeathsKeep
<1>5. CASE \E a \in Approver, p \in ProposalId : ApproveHuman(a, p)
  BY <1>5, ApproveHumanKeeps
<1>6. CASE RecordValue
  BY <1>6, RecordValueKeeps
<1>7. CASE Midnight
  BY <1>7, MidnightKeeps
<1> QED
  BY <1>1, <1>2, <1>3, <1>4, <1>5, <1>6, <1>7 DEF Next

(* It holds in every state.                                                *)
LEMMA Invariance == Spec => []IInv
BY IInvInit, IInvStep, PTL DEF Spec

-----------------------------------------------------------------------------
(* What the pipeline guarantees                                            *)

(* The tables hold well-formed rows, each stage's rows those of the stages *)
(* before it, and no execution takes cash or shares that are not there.    *)
THEOREM TypeIsSound == Spec => []TypeOK
BY Invariance, PTL DEF IInv

(* Cash and shares are the opening balance plus every executed order once, *)
(* for any interleaving of any number of pipelines and approval requests.  *)
THEOREM BooksAlwaysBalance == Spec => []BooksBalance
BY Invariance, PTL DEF IInv

(* A decision keeps all limits until the next execution, however stale the *)
(* reads of its evaluation are by then.                                    *)
THEOREM DecisionsRemainGood == Spec => []DecisionsStayGood
BY Invariance, PTL DEF IInv

(* An order of at least the threshold is executed only after a person has  *)
(* approved it.                                                            *)
THEOREM LargeOrdersNeedAPerson == Spec => []LargeOrdersHaveAPerson
<1>1. IInv => LargeOrdersHaveAPerson
  BY DEF IInv, TypeOK, PersonInv, LargeOrdersHaveAPerson, NeedsHuman
<1> QED
  BY <1>1, Invariance, PTL

-----------------------------------------------------------------------------
(* The pipeline implements the ledger                                      *)

(* What leaves rows and account alone leaves the ledger.                   *)
LEMMA LedgerStutters ==
  ASSUME UNCHANGED <<proposal, decision, executed, account>>
  PROVE  UNCHANGED Ledger!ledger
BY DEF Ledger!ledger, StageOf, Persisted, Decided

Stages == [p \in ProposalId |-> StageOf(p)]
Sizes  == [p \in ProposalId |-> IF p \in Decided THEN decision[p].quantity ELSE 0]

(* A new proposal.                                                         *)
LEMMA LedgerProposes ==
  ASSUME IInv, NEW w \in Worker, NEW p \in ProposalId, Propose(w, p)
  PROVE  Ledger!Propose(p)
<1>1. PICK r \in Proposal : proposal' = [proposal EXCEPT ![p] = r]
  BY InputsAreValid DEF Propose, InputsAreValid
<1>2. /\ p \notin Persisted /\ p \notin Decided /\ UNCHANGED <<decision, executed, account>>
      /\ r # NoProposal /\ proposal'[p] = r
  BY <1>1, RowsAre, InputsAreValid DEF Propose, IInv, TypeOK, InputsAreValid
<1>3. Persisted' = Persisted \cup {p} /\ Decided' = Decided
  BY <1>1, <1>2 DEF Persisted, Decided, IInv, TypeOK
<1>4. \A q \in ProposalId : StageOf(q)' = IF q = p THEN "proposed" ELSE StageOf(q)
  BY <1>2, <1>3 DEF StageOf
<1>5. Stages[p] = "absent" /\ Stages' = [Stages EXCEPT ![p] = "proposed"] /\ Sizes' = Sizes
  BY <1>2, <1>3, <1>4 DEF Stages, Sizes, StageOf
<1> QED
  BY <1>1, <1>2, <1>5 DEF Ledger!Propose, Ledger!Proposal, Ledger!Side, Proposal, Side,
                          Stages, Sizes

(* A decision, which never enlarges what was proposed.                     *)
LEMMA LedgerDecides ==
  ASSUME IInv, NEW w \in Worker, NEW p \in ProposalId, SaveDecision(w, p)
  PROVE  Ledger!Reject(p) \/ \E outcome \in Ledger!Stage : Ledger!Accept(p, outcome)
<1>1. /\ p \in Persisted /\ p \notin Decided
      /\ snapshot[p] \in Portfolio /\ proposal[p] \in Proposal
  BY WorkerIs DEF SaveDecision, Step
<1>2. PICK sized \in 0..proposal[p].quantity :
        /\ IsLargestCompliant(proposal[p], snapshot[p], sized)
        /\ decision' = [decision EXCEPT ![p] = Evaluate(proposal[p], snapshot[p], sized)]
  BY DEF SaveDecision
<1>3. PICK d : d = Evaluate(proposal[p], snapshot[p], sized)
  OBVIOUS
<1>4. /\ d \in Decision /\ d # NoDecision /\ d.outcome \in Outcome
      /\ d.outcome = "rejected" => d.quantity = 0
      /\ d.outcome # "rejected" => d.quantity \in 1..proposal[p].quantity
  <2>1. sized \in Nat
    BY <1>2
  <2>2. d \in Decision
    BY <1>1, <1>2, <1>3, <2>1, EvaluateIs
  <2> QED
    BY <1>1, <1>2, <1>3, <2>1, <2>2, EvaluateIs, InputsAreValid DEF Decision, InputsAreValid
<1>5. /\ UNCHANGED <<proposal, executed, account>>
      /\ decision'[p] = d /\ \A q \in ProposalId : q # p => decision'[q] = decision[q]
  BY <1>2, <1>3 DEF IInv, TypeOK, SaveDecision
<1>6. Persisted' = Persisted /\ Decided' = Decided \cup {p} /\ p \notin executed
  BY <1>1, <1>4, <1>5 DEF Persisted, Decided, IInv, TypeOK
<1>7. \A q \in ProposalId : StageOf(q)' = IF q = p THEN d.outcome ELSE StageOf(q)
  BY <1>1, <1>5, <1>6 DEF StageOf
<1>8. /\ Stages[p] = "proposed" /\ Stages' = [Stages EXCEPT ![p] = d.outcome]
      /\ Sizes[p] = 0 /\ Sizes' = [Sizes EXCEPT ![p] = d.quantity]
  <2>1. StageOf(p) = "proposed"
    BY <1>1 DEF StageOf
  <2>2. Stages[p] = "proposed" /\ Stages' = [Stages EXCEPT ![p] = d.outcome]
    BY <1>7, <2>1 DEF Stages
  <2>3. Sizes[p] = 0 /\ Sizes' = [Sizes EXCEPT ![p] = d.quantity]
    BY <1>1, <1>5, <1>6 DEF Sizes
  <2> QED
    BY <2>2, <2>3
<1>9. CASE d.outcome = "rejected"
  <2>1. Sizes' = Sizes
    BY <1>4, <1>8, <1>9 DEF Sizes
  <2> QED
    BY <1>5, <1>8, <1>9, <2>1 DEF Ledger!Reject, Stages, Sizes
<1>10. CASE d.outcome # "rejected"
  <2>1. d.outcome \in {"approved", "pending_human"} /\ d.outcome \in Ledger!Stage
    BY <1>4, <1>10 DEF Outcome, Ledger!Stage
  <2>2. Ledger!Accept(p, d.outcome)
    BY <1>4, <1>5, <1>8, <1>10, <2>1 DEF Ledger!Accept, Stages, Sizes
  <2> QED
    BY <2>1, <2>2
<1> QED
  BY <1>9, <1>10

(* A person releases what awaits one.                                      *)
LEMMA LedgerReleases ==
  ASSUME IInv, NEW a \in Approver, NEW p \in ProposalId, ApproveHuman(a, p)
  PROVE  Ledger!Release(p)
<1>1. /\ p \in Decided /\ decision[p].outcome = "pending_human" /\ p \notin executed
      /\ decision' = [decision EXCEPT ![p].outcome = "approved"]
      /\ UNCHANGED <<proposal, executed, account>>
  BY DEF ApproveHuman, Approvable, IInv, PersonInv
<1>2. decision[p] \in Decision /\ p \in Persisted
  BY <1>1, RowsAre DEF IInv
<1>3. PICK d : d = [decision[p] EXCEPT !.outcome = "approved"]
  OBVIOUS
<1>4. d.outcome = "approved" /\ d.quantity = decision[p].quantity /\ d # NoDecision
  <2>1. d \in Decision /\ d.outcome = "approved" /\ d.quantity = decision[p].quantity
    BY <1>2, <1>3 DEF Decision, Outcome
  <2> QED
    BY <2>1, InputsAreValid DEF InputsAreValid
<1>5. decision'[p] = d /\ \A q \in ProposalId : q # p => decision'[q] = decision[q]
  BY <1>1, <1>3 DEF IInv, TypeOK
<1>6. Persisted' = Persisted /\ Decided' = Decided
  BY <1>1, <1>4, <1>5 DEF Persisted, Decided
<1>7. \A q \in ProposalId : StageOf(q)' = IF q = p THEN "approved" ELSE StageOf(q)
  BY <1>1, <1>2, <1>4, <1>5, <1>6 DEF StageOf
<1>8. Stages[p] = "pending_human" /\ Stages' = [Stages EXCEPT ![p] = "approved"]
  BY <1>1, <1>2, <1>7 DEF Stages, StageOf
<1>9. Sizes' = Sizes
  BY <1>4, <1>5, <1>6 DEF Sizes
<1> QED
  BY <1>1, <1>8, <1>9 DEF Ledger!Release, Stages, Sizes

(* A submission executes an approved order, which the account can bear.    *)
LEMMA LedgerExecutes ==
  ASSUME IInv, NEW p \in Decided,
         Submit(p) \/ UNCHANGED <<account, executed, today, quote, outdated>>,
         UNCHANGED <<proposal, decision>>
  PROVE  Ledger!Execute(p) \/ UNCHANGED Ledger!ledger
<1>1. CASE UNCHANGED <<account, executed>>
  BY <1>1, LedgerStutters
<1>2. CASE ~UNCHANGED <<account, executed>>
  <2>1. /\ p \notin executed /\ decision[p].outcome = "approved" /\ Affordable(p)
        /\ account' = Charged(p) /\ executed' = executed \cup {p}
    BY <1>2 DEF Submit
  <2>2. p \in ProposalId /\ p \in Persisted /\ proposal[p] \in Proposal
    BY RowsAre DEF IInv
  <2>3. Persisted' = Persisted /\ Decided' = Decided
    BY DEF Persisted, Decided
  <2>4. \A q \in ProposalId : StageOf(q)' = IF q = p THEN "executed" ELSE StageOf(q)
    BY <2>1, <2>2, <2>3 DEF StageOf
  <2>5. /\ Stages[p] = "approved" /\ Stages' = [Stages EXCEPT ![p] = "executed"]
        /\ Sizes' = Sizes /\ Sizes[p] = Size(p)
    BY <2>1, <2>2, <2>3, <2>4 DEF Stages, StageOf, Sizes, Size
  <2>6. Ledger!Notional(proposal[p], Size(p)) = Total(p)
    BY DEF Ledger!Notional, Ledger!RiskPrice, Total, Notional, RiskPrice, Ledger!Dollar, Ledger!Spread,
           Dollar, Spread
  <2>7. CASE IsBuy(p)
    <3>1. /\ account'.cash = account.cash - Total(p) /\ account'.held = account.held + Size(p)
          /\ Total(p) <= account.cash
      BY <2>1, <2>7 DEF Charged, Affordable, AccountToCharge, Size
    <3> QED
      BY <2>5, <2>6, <2>7, <3>1 DEF Ledger!Execute, Stages, Sizes, IsBuy
  <2>8. CASE ~IsBuy(p)
    <3>1. /\ account'.cash = account.cash + Total(p) /\ account'.held = account.held - Size(p)
          /\ Size(p) <= account.held /\ proposal[p].side = "sell"
      BY <2>1, <2>2, <2>8 DEF Charged, Affordable, AccountToCharge, Size, IsBuy, Proposal, Side
    <3> QED
      BY <2>5, <2>6, <3>1 DEF Ledger!Execute, Stages, Sizes
  <2> QED
    BY <2>7, <2>8
<1> QED
  BY <1>1, <1>2

(* Every step is a step of the ledger, or leaves it alone.                 *)
LEMMA LedgerSteps == IInv /\ [Next]_vars => [Ledger!Next]_Ledger!ledger
<1> SUFFICES ASSUME IInv, [Next]_vars PROVE Ledger!Next \/ UNCHANGED Ledger!ledger
  OBVIOUS
<1>1. ASSUME NEW w \in Worker, NEW p \in ProposalId, Propose(w, p)
      PROVE  Ledger!Next
  BY <1>1, LedgerProposes DEF Ledger!Next
<1>2. ASSUME NEW w \in Worker, NEW p \in ProposalId, SaveDecision(w, p)
      PROVE  Ledger!Next
  BY <1>2, LedgerDecides DEF Ledger!Next
<1>3. ASSUME NEW a \in Approver, NEW p \in ProposalId, ApproveHuman(a, p)
      PROVE  Ledger!Next
  BY <1>3, LedgerReleases DEF Ledger!Next
<1>4. ASSUME NEW w \in Worker, NEW p \in ProposalId, ExecuteDecided(w, p)
      PROVE  Ledger!Next \/ UNCHANGED Ledger!ledger
  <2>1. p \in Decided
    BY <1>4, WorkerIs DEF ExecuteDecided, Step
  <2>2. Submit(p) \/ UNCHANGED <<account, executed, today, quote, outdated>>
    BY <1>4 DEF ExecuteDecided
  <2>3. UNCHANGED <<proposal, decision>>
    BY <1>4 DEF ExecuteDecided
  <2> QED
    BY <2>1, <2>2, <2>3, LedgerExecutes DEF Ledger!Next
<1>5. ASSUME NEW a \in Approver, ExecuteApproved(a)
      PROVE  Ledger!Next \/ UNCHANGED Ledger!ledger
  <2>1. PICK p : p = approver[a]
    OBVIOUS
  <2>2. p \in Decided /\ Submit(p) /\ UNCHANGED <<proposal, decision>>
    BY <1>5, <2>1 DEF ExecuteApproved, IInv, PersonInv, TypeOK
  <2>3. p \in ProposalId
    BY <2>2, RowsAre DEF IInv
  <2> QED
    BY <2>2, <2>3, LedgerExecutes DEF Ledger!Next
<1>6. CASE \/ \E w \in Worker, p \in ProposalId : ReadAccount(w, p) \/ ReadTurnover(w, p)
           \/ \E w \in Worker : Abandon(w)
           \/ \E a \in Approver : LoseApproval(a)
           \/ RecordValue \/ Midnight \/ UNCHANGED vars
  <2>1. UNCHANGED <<proposal, decision, executed, account>>
    BY <1>6 DEF ReadAccount, ReadTurnover, Abandon, LoseApproval, RecordValue, Midnight, vars, tables
  <2> QED
    BY <2>1, LedgerStutters
<1> QED
  BY <1>1, <1>2, <1>3, <1>4, <1>5, <1>6 DEF Next

(* Every proposal goes through the promised stages, and only executions of *)
(* approved orders, once each, move cash or shares.                        *)
THEOREM PipelineImplementsLedger == Spec => ImplementsLedger
<1>1. Init => Ledger!Init
  <2> SUFFICES ASSUME Init PROVE Ledger!Init
    OBVIOUS
  <2>1. Persisted = {} /\ Decided = {}
    BY DEF Init, Persisted, Decided
  <2> QED
    BY <2>1 DEF Init, Ledger!Init, StageOf
<1> QED
  BY <1>1, Invariance, LedgerSteps, PTL DEF Spec, ImplementsLedger, Ledger!Spec

-----------------------------------------------------------------------------
(* What the ledger's promises mean for the tables                          *)

(* No step rewrites the history of an order: a rejected proposal stays     *)
(* rejected and an executed one executed, what was recommended and what    *)
(* was decided keep their terms and size, and the account moves only in    *)
(* the step that executes an approved order.                               *)
TrailStep ==
  /\ \A p \in ProposalId :
       /\ StageOf(p) \in {"rejected", "executed"} => StageOf(p)' = StageOf(p)
       /\ StageOf(p) # "absent" => proposal'[p] = proposal[p]
       /\ StageOf(p) \notin {"absent", "proposed"} => decision'[p].quantity = decision[p].quantity
  /\ account' # account =>
       \E p \in ProposalId : StageOf(p) = "approved" /\ StageOf(p)' = "executed"

TrailIsFinal == [][TrailStep]_vars

(* A stage says how far the rows of a proposal have come.                  *)
StagesTell ==
  \A p \in ProposalId :
    /\ StageOf(p) = "absent" <=> p \notin Persisted
    /\ StageOf(p) \in {"absent", "proposed"} <=> p \notin Decided
    /\ Stages[p] = StageOf(p)
    /\ p \in Decided => Sizes[p] = decision[p].quantity

LEMMA StagesSay == TypeOK => StagesTell
<1> SUFFICES ASSUME TypeOK PROVE StagesTell
  OBVIOUS
<1>1. Decided \subseteq Persisted
  BY DEF TypeOK
<1>2. \A p \in Decided : decision[p].outcome \in {"approved", "rejected", "pending_human"}
  BY RowsAre DEF Outcome
<1> QED
  BY <1>1, <1>2 DEF StagesTell, StageOf, Stages, Sizes

(* The ledger's step of one proposal moves its stage alone: forward, and   *)
(* never out of a final one.                                               *)
LEMMA LedgerMoves ==
  ASSUME IInv, Ledger!Next
  PROVE  \E p \in ProposalId :
           /\ Stages[p] \in {"absent", "proposed", "pending_human", "approved"}
           /\ Stages' = [Stages EXCEPT ![p] = Stages'[p]]
           /\ Stages'[p] # "absent"
           /\ Stages[p] # "absent" => proposal' = proposal /\ Stages'[p] # "proposed"
           /\ Stages[p] \notin {"absent", "proposed"} => Sizes' = Sizes
           /\ \A q \in ProposalId : q # p => proposal'[q] = proposal[q] /\ Sizes'[q] = Sizes[q]
           /\ \/ account'.cash = account.cash /\ account'.held = account.held
              \/ Stages[p] = "approved" /\ Stages'[p] = "executed"
<1>1. /\ Stages = [q \in ProposalId |-> Stages[q]] /\ Sizes = [q \in ProposalId |-> Sizes[q]]
      /\ proposal = [q \in ProposalId |-> proposal[q]]
  BY DEF Stages, Sizes, IInv, TypeOK
<1>2. PICK p \in ProposalId :
        \/ Ledger!Propose(p) \/ Ledger!Reject(p) \/ Ledger!Release(p) \/ Ledger!Execute(p)
        \/ \E outcome \in Ledger!Stage : Ledger!Accept(p, outcome)
  BY DEF Ledger!Next
<1>3. CASE Ledger!Propose(p)
  BY <1>1, <1>3 DEF Ledger!Propose, Stages, Sizes
<1>4. CASE Ledger!Reject(p)
  BY <1>1, <1>4 DEF Ledger!Reject, Stages, Sizes
<1>5. CASE Ledger!Release(p)
  BY <1>1, <1>5 DEF Ledger!Release, Stages, Sizes
<1>6. CASE Ledger!Execute(p)
  BY <1>1, <1>6 DEF Ledger!Execute, Stages, Sizes
<1>7. ASSUME NEW outcome \in Ledger!Stage, Ledger!Accept(p, outcome)
      PROVE  /\ Stages[p] = "proposed" /\ outcome \in {"approved", "pending_human"}
             /\ Stages' = [Stages EXCEPT ![p] = outcome]
             /\ \E n \in 1..proposal[p].quantity : Sizes' = [Sizes EXCEPT ![p] = n]
             /\ proposal' = proposal /\ account'.cash = account.cash /\ account'.held = account.held
  BY <1>7 DEF Ledger!Accept, Stages, Sizes
<1>8. CASE \E outcome \in Ledger!Stage : Ledger!Accept(p, outcome)
  BY <1>1, <1>7, <1>8
<1> QED
  BY <1>2, <1>3, <1>4, <1>5, <1>6, <1>8

(* The history of an order is never rewritten, whatever workers and        *)
(* requests interleave or die: what the ledger promises, of the rows.      *)
THEOREM TrailStays == Spec => TrailIsFinal
<1>1. TypeOK' => StagesTell'
  BY StagesSay, PTL
<1>2. IInv /\ IInv' /\ [Next]_vars => [TrailStep]_vars
  <2> SUFFICES ASSUME IInv, IInv', [Next]_vars PROVE TrailStep
    OBVIOUS
  <2>1. TypeOK /\ TypeOK' /\ StagesTell /\ StagesTell'
    BY <1>1, StagesSay DEF IInv
  <2>2. /\ account = [cash |-> account.cash, held |-> account.held]
        /\ account' = [cash |-> account'.cash, held |-> account'.held]
    BY <2>1 DEF TypeOK
  <2>3. \A p \in ProposalId :
          /\ Stages[p] = StageOf(p) /\ Stages'[p] = StageOf(p)'
          /\ Stages[p] \notin {"absent", "proposed"} => Sizes[p] = decision[p].quantity
          /\ Stages'[p] \notin {"absent", "proposed"} => Sizes'[p] = decision'[p].quantity
    BY <2>1 DEF StagesTell
  <2>4. CASE UNCHANGED Ledger!ledger
    <3>1. Stages' = Stages /\ Sizes' = Sizes /\ proposal' = proposal /\ account' = account
      BY <2>2, <2>4 DEF Ledger!ledger, Stages, Sizes
    <3> QED
      BY <2>3, <3>1 DEF TrailStep
  <2>5. CASE Ledger!Next
    <3>1. PICK p \in ProposalId :
             /\ Stages[p] \in {"absent", "proposed", "pending_human", "approved"}
             /\ Stages' = [Stages EXCEPT ![p] = Stages'[p]]
             /\ Stages'[p] # "absent"
             /\ Stages[p] # "absent" => proposal' = proposal /\ Stages'[p] # "proposed"
             /\ Stages[p] \notin {"absent", "proposed"} => Sizes' = Sizes
             /\ \A q \in ProposalId : q # p => proposal'[q] = proposal[q] /\ Sizes'[q] = Sizes[q]
             /\ \/ account'.cash = account.cash /\ account'.held = account.held
                \/ Stages[p] = "approved" /\ Stages'[p] = "executed"
      BY <2>5, LedgerMoves
    <3>2. \A q \in ProposalId : q # p => Stages'[q] = Stages[q]
      BY <3>1 DEF Stages
    <3>3. \A q \in ProposalId :
            /\ Stages[q] \in {"rejected", "executed"} => Stages'[q] = Stages[q]
            /\ Stages[q] # "absent" => proposal'[q] = proposal[q]
            /\ Stages[q] \notin {"absent", "proposed"} =>
                 Sizes'[q] = Sizes[q] /\ Stages'[q] \notin {"absent", "proposed"}
      BY <3>1, <3>2
    <3>4. account' # account => Stages[p] = "approved" /\ Stages'[p] = "executed"
      BY <2>2, <3>1
    <3> HIDE DEF Stages, Sizes
    <3> QED
      BY <2>3, <3>3, <3>4 DEF TrailStep
  <2> QED
    BY <2>4, <2>5, LedgerSteps
<1> QED
  BY <1>2, Invariance, PTL DEF Spec, TrailIsFinal
=============================================================================

-------- MODULE SumTheorems --------
(***************************************************************************)
(* What the sum of a function over a finite set is: the facts the proofs   *)
(* about balances, reservations and positions rest on.  SumFunctionOnSet   *)
(* adds up in an order it chooses; the sum is the same in any order.       *)
(*                                                                         *)
(* The theorems of the library that do induction take an operator as a     *)
(* parameter, so an induction is by the smallest set, or the least number, *)
(* that is an exception.                                                   *)
(***************************************************************************)
EXTENDS Integers, FiniteSets, Functions, FiniteSetTheorems, TLAPS

\* The numbers f gives the elements of S.
IntOn(f, S) == \A x \in S : f[x] \in Int
NatOn(f, S) == \A x \in S : f[x] \in Nat

\* The recursion by which SumFunctionOnSet adds up over the subsets of S.
AddsUp(h, f, S) ==
  h = [s \in SUBSET S |->
         IF s = {} THEN 0
         ELSE f[CHOOSE x \in s : TRUE] + h[s \ {CHOOSE x \in s : TRUE}]]

--------------------
\* A set of natural numbers that is not empty has a least element.
LEMMA LeastNumber == ASSUME NEW S, S \subseteq Nat, S # {} PROVE \E x \in S : \A y \in S : x <= y
<1> DEFINE R == OpToRel(<, Nat)
<1>1. \A x, y \in S : y < x => <<y, x>> \in R BY DEF OpToRel
<1>2. IsWellFoundedOn(R, Nat) BY NatLessThanWellFounded
<1> HIDE DEF R
<1>3. PICK x \in S : \A y \in S : ~(<<y, x>> \in R) BY <1>2, WFMin
<1>4. \A y \in S : ~(y < x) BY <1>1, <1>3
<1> QED BY <1>4

\* Of some subsets of a finite set one has the fewest elements.
LEMMA SmallestSubset ==
  ASSUME NEW S, IsFiniteSet(S), NEW P, P \subseteq SUBSET S, P # {}
  PROVE  \E s \in P : \A t \in P : Cardinality(s) <= Cardinality(t)
<1>1. \A s \in P : Cardinality(s) \in Nat BY FS_Subset, FS_CardinalityType
<1> DEFINE sizes == {Cardinality(s) : s \in P}
<1>2. sizes \subseteq Nat /\ sizes # {} BY <1>1
<1>3. PICK n \in sizes : \A m \in sizes : n <= m
  <2> HIDE DEF sizes
  <2> QED BY <1>2, LeastNumber
<1>4. PICK s \in P : n = Cardinality(s) OBVIOUS
<1> QED BY <1>3, <1>4

\* A set loses one with its element.
LEMMA OneFewer ==
  ASSUME NEW s, IsFiniteSet(s), NEW x \in s
  PROVE  /\ IsFiniteSet(s \ {x})
         /\ Cardinality(s) \in Nat /\ Cardinality(s \ {x}) \in Nat
         /\ Cardinality(s \ {x}) = Cardinality(s) - 1
         /\ Cardinality(s \ {x}) < Cardinality(s)
<1>1. IsFiniteSet(s \ {x}) /\ Cardinality(s \ {x}) = Cardinality(s) - 1 BY FS_RemoveElement
<1>2. Cardinality(s) \in Nat /\ Cardinality(s \ {x}) \in Nat BY <1>1, FS_CardinalityType
<1> QED BY <1>1, <1>2

\* CHOOSE finds an element where there is one.
LEMMA ChosenElement == ASSUME NEW s, s # {} PROVE (CHOOSE x \in s : TRUE) \in s OBVIOUS

--------------------
\* The recursion has a solution: it is built up size by size.
LEMMA SumsExist == ASSUME NEW S, IsFiniteSet(S), NEW f PROVE \E h : AddsUp(h, f, S)
<1> DEFINE UpTo(n) == {s \in SUBSET S : Cardinality(s) <= n}
           body(g, n) == [s \in UpTo(n) |->
                            IF s = {} THEN 0
                            ELSE f[CHOOSE x \in s : TRUE] + g[s \ {CHOOSE x \in s : TRUE}]]
           Missing == {n \in Nat : ~\E g : g = body(g, n)}
<1>1. \A s \in SUBSET S : IsFiniteSet(s) /\ Cardinality(s) \in Nat BY FS_Subset, FS_CardinalityType
<1>2. Missing = {}
  <2> SUFFICES ASSUME Missing # {}  PROVE FALSE OBVIOUS
  <2>1. PICK n \in Missing : \A m \in Missing : n <= m
    <3>1. Missing \subseteq Nat OBVIOUS
    <3> HIDE DEF Missing
    <3> QED BY <3>1, LeastNumber
  <2>2. n \in Nat /\ ~\E g : g = body(g, n) OBVIOUS
  <2>3. CASE n = 0
    <3>1. \A s \in UpTo(n) : s = {} BY <1>1, <2>3, FS_EmptySet
    <3>2. body(<<>>, n) = body(body(<<>>, n), n) BY <3>1
    <3> QED BY <2>2, <3>2
  <2>4. CASE n # 0
    <3>1. n - 1 \in Nat /\ ~(n <= n - 1) BY <2>2, <2>4
    <3>2. n - 1 \notin Missing BY <2>1, <3>1
    <3>3. PICK g : g = body(g, n - 1) BY <3>1, <3>2
    <3>4. \A s \in UpTo(n) : s # {} =>
              /\ s \ {CHOOSE x \in s : TRUE} \in UpTo(n - 1)
              /\ s \ {CHOOSE x \in s : TRUE} \in UpTo(n)
      <4> SUFFICES ASSUME NEW s \in UpTo(n), s # {}
                   PROVE  /\ s \ {CHOOSE x \in s : TRUE} \in UpTo(n - 1)
                          /\ s \ {CHOOSE x \in s : TRUE} \in UpTo(n) OBVIOUS
      <4>1. PICK c \in s : c = CHOOSE x \in s : TRUE BY ChosenElement
      <4>2. s \ {c} \in SUBSET S /\ Cardinality(s \ {c}) = Cardinality(s) - 1 /\ Cardinality(s) \in Nat
        BY <1>1, OneFewer
      <4>3. Cardinality(s) <= n OBVIOUS
      <4>4. Cardinality(s \ {c}) <= n - 1 /\ Cardinality(s \ {c}) <= n BY <2>2, <4>2, <4>3
      <4> QED BY <4>1, <4>2, <4>4
    <3> DEFINE new == body(g, n)
    <3>5. \A r \in UpTo(n - 1) : r \in UpTo(n) => g[r] = new[r]
      <4> SUFFICES ASSUME NEW r \in UpTo(n - 1), r \in UpTo(n)  PROVE g[r] = new[r] OBVIOUS
      <4>1. g[r] = IF r = {} THEN 0
                   ELSE f[CHOOSE x \in r : TRUE] + g[r \ {CHOOSE x \in r : TRUE}]
        <5>1. g[r] = body(g, n - 1)[r] BY <3>3
        <5> HIDE <3>3
        <5> QED BY <5>1
      <4> QED BY <4>1
    <3>6. new = body(new, n)
      <4>1. \A s \in UpTo(n) : s # {} =>
               g[s \ {CHOOSE x \in s : TRUE}] = new[s \ {CHOOSE x \in s : TRUE}]
        <5> HIDE DEF UpTo, new
        <5> QED BY <3>4, <3>5
      <4>2. ASSUME NEW s \in UpTo(n)  PROVE body(g, n)[s] = body(new, n)[s]
        <5> DEFINE c == CHOOSE x \in s : TRUE
        <5>1. body(g, n)[s] = IF s = {} THEN 0 ELSE f[c] + g[s \ {c}] OBVIOUS
        <5>2. body(new, n)[s] = IF s = {} THEN 0 ELSE f[c] + new[s \ {c}]
          <6> HIDE DEF new
          <6> QED OBVIOUS
        <5>3. s # {} => g[s \ {c}] = new[s \ {c}] BY <4>1
        <5> HIDE DEF new, body, c
        <5> QED BY <5>1, <5>2, <5>3
      <4>3. body(g, n) = body(new, n)
        <5> HIDE DEF UpTo, new
        <5> QED BY <4>2
      <4> QED BY <4>3
    <3> QED BY <2>2, <3>6
  <2> QED BY <2>3, <2>4
<1>3. Cardinality(S) \in Nat /\ \A s \in SUBSET S : Cardinality(s) <= Cardinality(S)
  BY FS_CardinalityType, FS_Subset
<1>4. UpTo(Cardinality(S)) = SUBSET S BY <1>3
<1>5. PICK g : g = body(g, Cardinality(S)) BY <1>2, <1>3
<1>6. AddsUp(g, f, S) BY <1>4, <1>5 DEF AddsUp
<1> QED BY <1>6

\* So SumFunctionOnSet is what a solution gives the whole set.
LEMMA SumIsSolved ==
  ASSUME NEW S, IsFiniteSet(S), NEW f PROVE \E h : AddsUp(h, f, S) /\ SumFunctionOnSet(f, S) = h[S]
<1> DEFINE body(h) == [s \in SUBSET S |->
                         IF s = {} THEN 0
                         ELSE f[CHOOSE x \in s : TRUE] + h[s \ {CHOOSE x \in s : TRUE}]]
           sum == CHOOSE h : h = body(h)
<1>1. \E h : h = body(h)
  <2>1. PICK h : AddsUp(h, f, S) BY SumsExist
  <2>2. h = body(h) BY <2>1 DEF AddsUp
  <2> HIDE DEF body
  <2> QED BY <2>2
<1>2. sum = body(sum)
  <2> HIDE DEF body
  <2> QED BY <1>1
<1>3. SumFunctionOnSet(f, S) = sum[S] BY DEF SumFunctionOnSet, FoldFunctionOnSet, MapThenFoldSet
<1>4. AddsUp(sum, f, S)
  <2> HIDE DEF sum
  <2> QED BY <1>2 DEF AddsUp
<1> QED BY <1>3, <1>4

\* What a solution says of one set.
LEMMA AddsUpAt ==
  ASSUME NEW S, NEW f, NEW h, AddsUp(h, f, S)
  PROVE  /\ h[{}] = 0
         /\ \A s \in SUBSET S : s # {} =>
               h[s] = f[CHOOSE x \in s : TRUE] + h[s \ {CHOOSE x \in s : TRUE}]
<1> DEFINE body == [s \in SUBSET S |->
                      IF s = {} THEN 0
                      ELSE f[CHOOSE x \in s : TRUE] + h[s \ {CHOOSE x \in s : TRUE}]]
<1>1. h = body BY DEF AddsUp
<1>2. body[{}] = 0 OBVIOUS
<1>3. \A s \in SUBSET S : s # {} =>
          body[s] = f[CHOOSE x \in s : TRUE] + h[s \ {CHOOSE x \in s : TRUE}] OBVIOUS
<1> HIDE DEF body
<1> QED BY <1>1, <1>2, <1>3

\* Two solutions for functions that agree, over a set and a part of it, agree on the part.
LEMMA SolutionsAgree ==
  ASSUME NEW S, IsFiniteSet(S), NEW T, T \subseteq S, NEW f, NEW g,
         \A x \in T : f[x] = g[x],
         NEW h, AddsUp(h, f, S), NEW k, AddsUp(k, g, T)
  PROVE  \A s \in SUBSET T : h[s] = k[s]
<1> DEFINE Bad == {s \in SUBSET T : h[s] # k[s]}
<1> SUFFICES ASSUME Bad # {}  PROVE FALSE OBVIOUS
<1>1. PICK s \in Bad : \A t \in Bad : Cardinality(s) <= Cardinality(t)
  <2>1. IsFiniteSet(T) BY FS_Subset
  <2>2. Bad \subseteq SUBSET T OBVIOUS
  <2> HIDE DEF Bad
  <2> QED BY <2>1, <2>2, SmallestSubset
<1>2. s \in SUBSET T /\ h[s] # k[s] /\ IsFiniteSet(s) BY FS_Subset
<1>3. s # {}
  <2>1. h[{}] = 0 BY AddsUpAt
  <2>2. k[{}] = 0 BY AddsUpAt
  <2> QED BY <1>2, <2>1, <2>2
<1>4. PICK c \in s : c = CHOOSE x \in s : TRUE BY <1>3, ChosenElement
<1>5. s \ {c} \in SUBSET T /\ s \ {c} \notin Bad BY <1>1, <1>2, OneFewer
<1>6. h[s] = f[c] + h[s \ {c}] /\ k[s] = g[c] + k[s \ {c}]
  <2>1. s \in SUBSET S /\ s \in SUBSET T BY <1>2
  <2>2. h[s] = f[c] + h[s \ {c}] BY <1>3, <1>4, <2>1, AddsUpAt
  <2>3. k[s] = g[c] + k[s \ {c}] BY <1>3, <1>4, <2>1, AddsUpAt
  <2> QED BY <2>2, <2>3
<1> QED BY <1>2, <1>5, <1>6

\* A sum of integers is an integer.
LEMMA SolutionsAreInts ==
  ASSUME NEW S, IsFiniteSet(S), NEW f, IntOn(f, S), NEW h, AddsUp(h, f, S)
  PROVE  \A s \in SUBSET S : h[s] \in Int
<1> DEFINE Bad == {s \in SUBSET S : h[s] \notin Int}
<1> SUFFICES ASSUME Bad # {}  PROVE FALSE OBVIOUS
<1>1. PICK s \in Bad : \A t \in Bad : Cardinality(s) <= Cardinality(t) BY SmallestSubset
<1>2. s \in SUBSET S /\ h[s] \notin Int /\ IsFiniteSet(s) BY FS_Subset
<1>3. s # {}
  <2>1. h[{}] = 0 BY AddsUpAt
  <2> QED BY <1>2, <2>1
<1>4. PICK c \in s : c = CHOOSE x \in s : TRUE BY <1>3, ChosenElement
<1>5. h[s \ {c}] \in Int
  <2>1. Cardinality(s) \in Nat /\ Cardinality(s \ {c}) \in Nat /\ Cardinality(s \ {c}) < Cardinality(s)
    BY <1>2, OneFewer
  <2>2. ~(Cardinality(s) <= Cardinality(s \ {c})) BY <2>1
  <2>3. s \ {c} \notin Bad BY <1>1, <2>2, Zenon
  <2>4. s \ {c} \in SUBSET S BY <1>2
  <2> QED BY <2>3, <2>4
<1>6. h[s] = f[c] + h[s \ {c}]
  <2>1. h[s] = f[CHOOSE x \in s : TRUE] + h[s \ {CHOOSE x \in s : TRUE}] BY <1>2, <1>3, AddsUpAt
  <2> QED BY <1>4, <2>1
<1> QED BY <1>2, <1>5, <1>6 DEF IntOn

\* A solution is the same whatever element is taken first.
LEMMA AnyOrder ==
  ASSUME NEW S, IsFiniteSet(S), NEW f, IntOn(f, S), NEW h, AddsUp(h, f, S)
  PROVE  \A s \in SUBSET S : \A x \in s : h[s] = f[x] + h[s \ {x}]
<1> DEFINE Bad == {s \in SUBSET S : ~\A x \in s : h[s] = f[x] + h[s \ {x}]}
<1> SUFFICES ASSUME Bad # {}  PROVE FALSE OBVIOUS
<1>1. PICK s \in Bad : \A t \in Bad : Cardinality(s) <= Cardinality(t) BY SmallestSubset
<1>2. s \in SUBSET S /\ IsFiniteSet(s) BY FS_Subset
<1>3. PICK x \in s : h[s] # f[x] + h[s \ {x}] OBVIOUS
<1>4. PICK c \in s : c = CHOOSE y \in s : TRUE BY <1>3, ChosenElement
<1>5. h[s] = f[c] + h[s \ {c}]
  <2>1. h[s] = f[CHOOSE y \in s : TRUE] + h[s \ {CHOOSE y \in s : TRUE}] BY <1>2, <1>3, AddsUpAt
  <2> QED BY <1>4, <2>1
<1>6. c # x BY <1>3, <1>5
<1>7. s \ {c} \notin Bad /\ s \ {x} \notin Bad
  <2>1. \A y \in s : /\ Cardinality(s) \in Nat /\ Cardinality(s \ {y}) \in Nat
                     /\ Cardinality(s \ {y}) < Cardinality(s) BY <1>2, OneFewer
  <2>2. \A y \in s : ~(Cardinality(s) <= Cardinality(s \ {y})) BY <2>1
  <2> HIDE DEF Bad
  <2> QED BY <1>1, <2>2
<1>8. h[s \ {c}] = f[x] + h[(s \ {c}) \ {x}] /\ h[s \ {x}] = f[c] + h[(s \ {x}) \ {c}]
  <2>1. s \ {c} \in SUBSET S /\ s \ {x} \in SUBSET S /\ x \in s \ {c} /\ c \in s \ {x} BY <1>2, <1>6
  <2> QED BY <1>7, <2>1
<1>9. (s \ {c}) \ {x} = (s \ {x}) \ {c} OBVIOUS
<1>10. h[(s \ {x}) \ {c}] \in Int /\ f[x] \in Int /\ f[c] \in Int
  <2>1. (s \ {x}) \ {c} \in SUBSET S /\ x \in S /\ c \in S BY <1>2
  <2>2. h[(s \ {x}) \ {c}] \in Int BY <2>1, SolutionsAreInts
  <2> QED BY <2>1, <2>2 DEF IntOn
<1> DEFINE rest == h[(s \ {x}) \ {c}]
<1>11. h[s] = f[c] + (f[x] + rest) /\ h[s \ {x}] = f[c] + rest /\ rest \in Int BY <1>5, <1>8, <1>9, <1>10
<1>12. h[s] = f[x] + h[s \ {x}]
  <2> HIDE DEF rest
  <2> QED BY <1>10, <1>11
<1> QED BY <1>3, <1>12

--------------------
\* Nothing adds up to nothing.
LEMMA SumOfNone == ASSUME NEW f PROVE SumFunctionOnSet(f, {}) = 0
<1>1. PICK h : AddsUp(h, f, {}) /\ SumFunctionOnSet(f, {}) = h[{}] BY SumIsSolved, FS_EmptySet
<1> QED BY <1>1, AddsUpAt

\* The sum over a part is what a solution over the whole gives the part.
LEMMA SumOfPart ==
  ASSUME NEW S, IsFiniteSet(S), NEW T, T \subseteq S, NEW f, NEW h, AddsUp(h, f, S)
  PROVE  SumFunctionOnSet(f, T) = h[T]
<1>1. IsFiniteSet(T) BY FS_Subset
<1>2. PICK k : AddsUp(k, f, T) /\ SumFunctionOnSet(f, T) = k[T] BY <1>1, SumIsSolved
<1>3. T \in SUBSET T OBVIOUS
<1> QED BY <1>2, <1>3, SolutionsAgree

\* Functions that agree on a set have the same sum over it.
THEOREM SumSame ==
  ASSUME NEW S, IsFiniteSet(S), NEW f, NEW g, \A x \in S : f[x] = g[x]
  PROVE  SumFunctionOnSet(f, S) = SumFunctionOnSet(g, S)
<1>1. PICK h : AddsUp(h, f, S) /\ SumFunctionOnSet(f, S) = h[S] BY SumIsSolved
<1>2. PICK k : AddsUp(k, g, S) /\ SumFunctionOnSet(g, S) = k[S] BY SumIsSolved
<1>3. S \in SUBSET S /\ S \subseteq S OBVIOUS
<1>4. \A s \in SUBSET S : h[s] = k[s] BY <1>1, <1>2, <1>3, SolutionsAgree
<1> QED BY <1>1, <1>2, <1>3, <1>4

\* A sum of integers is an integer.
THEOREM SumIsInt == ASSUME NEW S, IsFiniteSet(S), NEW f, IntOn(f, S) PROVE SumFunctionOnSet(f, S) \in Int
<1>1. PICK h : AddsUp(h, f, S) /\ SumFunctionOnSet(f, S) = h[S] BY SumIsSolved
<1>2. S \in SUBSET S OBVIOUS
<1> QED BY <1>1, <1>2, SolutionsAreInts

\* Any element can be taken out of a sum.
THEOREM SumWithout ==
  ASSUME NEW S, IsFiniteSet(S), NEW f, IntOn(f, S), NEW x \in S
  PROVE  /\ SumFunctionOnSet(f, S) = f[x] + SumFunctionOnSet(f, S \ {x})
         /\ SumFunctionOnSet(f, S) \in Int /\ SumFunctionOnSet(f, S \ {x}) \in Int
         /\ f[x] \in Int
<1>1. PICK h : AddsUp(h, f, S) /\ SumFunctionOnSet(f, S) = h[S] BY SumIsSolved
<1>2. S \in SUBSET S /\ S \ {x} \subseteq S OBVIOUS
<1>3. SumFunctionOnSet(f, S \ {x}) = h[S \ {x}] BY <1>1, <1>2, SumOfPart
<1>4. h[S] = f[x] + h[S \ {x}] BY <1>1, <1>2, AnyOrder
<1>5. h[S] \in Int /\ h[S \ {x}] \in Int BY <1>1, <1>2, SolutionsAreInts
<1> QED BY <1>1, <1>3, <1>4, <1>5 DEF IntOn

\* An element added to a set adds its number.
THEOREM SumWith ==
  ASSUME NEW S, IsFiniteSet(S), NEW f, IntOn(f, S), NEW x, x \notin S, f[x] \in Int
  PROVE  /\ IsFiniteSet(S \cup {x}) /\ IntOn(f, S \cup {x})
         /\ SumFunctionOnSet(f, S \cup {x}) = SumFunctionOnSet(f, S) + f[x]
         /\ SumFunctionOnSet(f, S \cup {x}) \in Int /\ SumFunctionOnSet(f, S) \in Int
<1>1. IsFiniteSet(S \cup {x}) /\ IntOn(f, S \cup {x}) BY FS_AddElement DEF IntOn
<1>2. (S \cup {x}) \ {x} = S /\ x \in S \cup {x} OBVIOUS
<1>3. /\ SumFunctionOnSet(f, S \cup {x}) = f[x] + SumFunctionOnSet(f, (S \cup {x}) \ {x})
      /\ SumFunctionOnSet(f, S \cup {x}) \in Int
      /\ SumFunctionOnSet(f, (S \cup {x}) \ {x}) \in Int
  <2> DEFINE T == S \cup {x}
  <2>1. IsFiniteSet(T) /\ IntOn(f, T) /\ x \in T BY <1>1
  <2> HIDE DEF T
  <2>2. /\ SumFunctionOnSet(f, T) = f[x] + SumFunctionOnSet(f, T \ {x})
        /\ SumFunctionOnSet(f, T) \in Int /\ SumFunctionOnSet(f, T \ {x}) \in Int BY <2>1, SumWithout
  <2> QED BY <2>2 DEF T
<1>4. SumFunctionOnSet(f, S \cup {x}) = f[x] + SumFunctionOnSet(f, S) BY <1>2, <1>3
<1>5. SumFunctionOnSet(f, S) \in Int BY SumIsInt
<1>6. f[x] + SumFunctionOnSet(f, S) = SumFunctionOnSet(f, S) + f[x]
  <2> DEFINE sum == SumFunctionOnSet(f, S)
  <2> HIDE DEF sum
  <2>1. sum \in Int BY <1>5 DEF sum
  <2>2. f[x] + sum = sum + f[x] BY <2>1
  <2> QED BY <2>2 DEF sum
<1>7. SumFunctionOnSet(f, S \cup {x}) \in Int BY <1>3
<1> QED BY <1>1, <1>4, <1>5, <1>6, <1>7

\* Where two functions differ at one element, so do their sums.
THEOREM SumChanged ==
  ASSUME NEW S, IsFiniteSet(S), NEW f, IntOn(f, S), NEW g, IntOn(g, S), NEW x \in S,
         \A y \in S \ {x} : g[y] = f[y]
  PROVE  /\ SumFunctionOnSet(g, S) = SumFunctionOnSet(f, S) - f[x] + g[x]
         /\ SumFunctionOnSet(f, S) \in Int /\ SumFunctionOnSet(g, S) \in Int
<1>1. IsFiniteSet(S \ {x}) BY FS_RemoveElement
<1>2. SumFunctionOnSet(f, S \ {x}) = SumFunctionOnSet(g, S \ {x}) BY <1>1, SumSame
<1>3. /\ SumFunctionOnSet(f, S) = f[x] + SumFunctionOnSet(f, S \ {x})
      /\ SumFunctionOnSet(f, S) \in Int /\ SumFunctionOnSet(f, S \ {x}) \in Int /\ f[x] \in Int BY SumWithout
<1>4. /\ SumFunctionOnSet(g, S) = g[x] + SumFunctionOnSet(g, S \ {x})
      /\ SumFunctionOnSet(g, S) \in Int /\ SumFunctionOnSet(g, S \ {x}) \in Int /\ g[x] \in Int BY SumWithout
<1> QED BY <1>2, <1>3, <1>4

--------------------
\* A sum is the sum of a part and the sum of the rest.
THEOREM SumSplit ==
  ASSUME NEW S, IsFiniteSet(S), NEW f, IntOn(f, S), NEW T, T \subseteq S
  PROVE  /\ SumFunctionOnSet(f, S) = SumFunctionOnSet(f, T) + SumFunctionOnSet(f, S \ T)
         /\ SumFunctionOnSet(f, S) \in Int /\ SumFunctionOnSet(f, T) \in Int
         /\ SumFunctionOnSet(f, S \ T) \in Int
<1> DEFINE sum(U) == SumFunctionOnSet(f, U)
           Bad == {U \in SUBSET S : sum(S) # sum(U) + sum(S \ U)}
<1>1. \A U \in SUBSET S : IsFiniteSet(U) /\ IsFiniteSet(S \ U) /\ IntOn(f, U) /\ IntOn(f, S \ U)
  BY FS_Subset DEF IntOn
<1>2. \A U \in SUBSET S : sum(U) \in Int /\ sum(S \ U) \in Int BY <1>1, SumIsInt
<1>3. Bad = {}
  <2> SUFFICES ASSUME Bad # {}  PROVE FALSE OBVIOUS
  <2>1. PICK U \in Bad : \A V \in Bad : Cardinality(U) <= Cardinality(V) BY SmallestSubset
  <2>2. U \in SUBSET S /\ sum(S) # sum(U) + sum(S \ U) /\ IsFiniteSet(U) BY <1>1
  <2>3. U # {}
    <3>1. sum({}) = 0 /\ S \ {} = S BY SumOfNone
    <3>2. sum(S) \in Int BY <1>2
    <3>3. sum(S) = 0 + sum(S)
      <4> HIDE DEF sum
      <4> QED BY <3>2
    <3> QED BY <2>2, <3>1, <3>3
  <2>4. PICK x \in U : TRUE BY <2>3
  <2> DEFINE V == U \ {x}
  <2>5. V \in SUBSET S /\ V \notin Bad
    <3>1. Cardinality(U) \in Nat /\ Cardinality(V) \in Nat /\ Cardinality(V) < Cardinality(U)
      BY <2>2, OneFewer
    <3>2. ~(Cardinality(U) <= Cardinality(V)) BY <3>1
    <3>3. V \notin Bad
      <4> HIDE DEF Bad, V
      <4> QED BY <2>1, <3>2
    <3> QED BY <2>2, <3>3
  <2>6. sum(S) = sum(V) + sum(S \ V) BY <2>5
  <2>7. sum(U) = f[x] + sum(V) /\ sum(U) \in Int /\ sum(V) \in Int /\ f[x] \in Int BY <1>1, <2>2, SumWithout
  <2>8. S \ V = (S \ U) \cup {x} /\ x \notin S \ U BY <2>2
  <2>9. sum(S \ V) = sum(S \ U) + f[x] /\ sum(S \ U) \in Int
    <3> DEFINE W == S \ U
    <3>1. IsFiniteSet(W) /\ IntOn(f, W) /\ x \notin W /\ f[x] \in Int BY <1>1, <2>2, <2>7, <2>8
    <3>2. sum(W \cup {x}) = sum(W) + f[x] /\ sum(W) \in Int
      <4> HIDE DEF W
      <4> QED BY <3>1, SumWith
    <3> QED BY <2>8, <3>2
  <2>10. sum(S) = sum(U) + sum(S \ U)
    <3> HIDE DEF sum, V
    <3> QED BY <2>6, <2>7, <2>9
  <2> QED BY <2>2, <2>10
<1>4. T \in SUBSET S /\ T \notin Bad /\ S \in SUBSET S BY <1>3
<1> QED BY <1>2, <1>4

\* Numbers no greater have a sum no greater.
THEOREM SumLeq ==
  ASSUME NEW S, IsFiniteSet(S), NEW f, IntOn(f, S), NEW g, IntOn(g, S),
         \A x \in S : f[x] <= g[x]
  PROVE  SumFunctionOnSet(f, S) <= SumFunctionOnSet(g, S)
<1> DEFINE low(U) == SumFunctionOnSet(f, U)
           high(U) == SumFunctionOnSet(g, U)
           Bad == {U \in SUBSET S : ~(low(U) <= high(U))}
<1>1. \A U \in SUBSET S : IsFiniteSet(U) /\ IntOn(f, U) /\ IntOn(g, U) BY FS_Subset DEF IntOn
<1>2. Bad = {}
  <2> SUFFICES ASSUME Bad # {}  PROVE FALSE OBVIOUS
  <2>1. PICK U \in Bad : \A V \in Bad : Cardinality(U) <= Cardinality(V) BY SmallestSubset
  <2>2. U \in SUBSET S /\ ~(low(U) <= high(U)) /\ IsFiniteSet(U) BY <1>1
  <2>3. U # {}
    <3>1. low({}) = 0 /\ high({}) = 0 BY SumOfNone
    <3> QED BY <2>2, <3>1
  <2>4. PICK x \in U : TRUE BY <2>3
  <2> DEFINE V == U \ {x}
  <2>5. low(V) <= high(V)
    <3>1. Cardinality(U) \in Nat /\ Cardinality(V) \in Nat /\ Cardinality(V) < Cardinality(U)
      BY <2>2, OneFewer
    <3>2. ~(Cardinality(U) <= Cardinality(V)) BY <3>1
    <3>3. V \notin Bad
      <4> HIDE DEF Bad, V
      <4> QED BY <2>1, <3>2
    <3> QED BY <2>2, <3>3
  <2>6. low(U) = f[x] + low(V) /\ low(V) \in Int /\ f[x] \in Int BY <1>1, <2>2, SumWithout
  <2>7. high(U) = g[x] + high(V) /\ high(V) \in Int /\ g[x] \in Int BY <1>1, <2>2, SumWithout
  <2>8. f[x] <= g[x] BY <2>2
  <2>9. low(U) <= high(U)
    <3> HIDE DEF low, high, V
    <3> QED BY <2>5, <2>6, <2>7, <2>8
  <2> QED BY <2>2, <2>9
<1>3. S \in SUBSET S /\ S \notin Bad BY <1>2
<1> QED BY <1>3

\* Zeros add up to zero.
THEOREM SumOfZeros ==
  ASSUME NEW S, IsFiniteSet(S), NEW f, \A x \in S : f[x] = 0 PROVE SumFunctionOnSet(f, S) = 0
<1> DEFINE sum(U) == SumFunctionOnSet(f, U)
           Bad == {U \in SUBSET S : sum(U) # 0}
<1>1. \A U \in SUBSET S : IsFiniteSet(U) /\ IntOn(f, U) BY FS_Subset DEF IntOn
<1>2. Bad = {}
  <2> SUFFICES ASSUME Bad # {}  PROVE FALSE OBVIOUS
  <2>1. PICK U \in Bad : \A V \in Bad : Cardinality(U) <= Cardinality(V) BY SmallestSubset
  <2>2. U \in SUBSET S /\ sum(U) # 0 /\ IsFiniteSet(U) BY <1>1
  <2>3. PICK x \in U : TRUE BY <2>2, SumOfNone
  <2> DEFINE V == U \ {x}
  <2>4. sum(V) = 0
    <3>1. Cardinality(U) \in Nat /\ Cardinality(V) \in Nat /\ Cardinality(V) < Cardinality(U)
      BY <2>2, OneFewer
    <3>2. ~(Cardinality(U) <= Cardinality(V)) BY <3>1
    <3>3. V \notin Bad
      <4> HIDE DEF Bad, V
      <4> QED BY <2>1, <3>2
    <3> QED BY <2>2, <3>3
  <2>5. sum(U) = f[x] + sum(V) BY <1>1, <2>2, SumWithout
  <2>6. f[x] = 0 BY <2>2
  <2>7. sum(U) = 0
    <3> HIDE DEF sum, V
    <3> QED BY <2>4, <2>5, <2>6
  <2> QED BY <2>2, <2>7
<1>3. S \in SUBSET S /\ S \notin Bad BY <1>2
<1> QED BY <1>3

\* Numbers added one by one add up to the two sums.
THEOREM SumAdded ==
  ASSUME NEW S, IsFiniteSet(S), NEW f, IntOn(f, S), NEW g, IntOn(g, S),
         NEW h, \A x \in S : h[x] = f[x] + g[x]
  PROVE  /\ SumFunctionOnSet(h, S) = SumFunctionOnSet(f, S) + SumFunctionOnSet(g, S)
         /\ SumFunctionOnSet(f, S) \in Int /\ SumFunctionOnSet(g, S) \in Int
         /\ SumFunctionOnSet(h, S) \in Int
<1> DEFINE one(U) == SumFunctionOnSet(f, U)
           two(U) == SumFunctionOnSet(g, U)
           both(U) == SumFunctionOnSet(h, U)
           Bad == {U \in SUBSET S : both(U) # one(U) + two(U)}
<1>1. IntOn(h, S) BY DEF IntOn
<1>2. \A U \in SUBSET S : IsFiniteSet(U) /\ IntOn(f, U) /\ IntOn(g, U) /\ IntOn(h, U)
  BY <1>1, FS_Subset DEF IntOn
<1>3. Bad = {}
  <2> SUFFICES ASSUME Bad # {}  PROVE FALSE OBVIOUS
  <2>1. PICK U \in Bad : \A V \in Bad : Cardinality(U) <= Cardinality(V) BY SmallestSubset
  <2>2. U \in SUBSET S /\ both(U) # one(U) + two(U) /\ IsFiniteSet(U) BY <1>2
  <2>3. U # {}
    <3>1. one({}) = 0 /\ two({}) = 0 /\ both({}) = 0 BY SumOfNone
    <3> QED BY <2>2, <3>1
  <2>4. PICK x \in U : TRUE BY <2>3
  <2> DEFINE V == U \ {x}
  <2>5. both(V) = one(V) + two(V)
    <3>1. Cardinality(U) \in Nat /\ Cardinality(V) \in Nat /\ Cardinality(V) < Cardinality(U)
      BY <2>2, OneFewer
    <3>2. ~(Cardinality(U) <= Cardinality(V)) BY <3>1
    <3>3. V \notin Bad
      <4> HIDE DEF Bad, V
      <4> QED BY <2>1, <3>2
    <3> QED BY <2>2, <3>3
  <2>6. one(U) = f[x] + one(V) /\ one(V) \in Int /\ f[x] \in Int BY <1>2, <2>2, SumWithout
  <2>7. two(U) = g[x] + two(V) /\ two(V) \in Int /\ g[x] \in Int BY <1>2, <2>2, SumWithout
  <2>8. both(U) = h[x] + both(V) /\ h[x] = f[x] + g[x] BY <1>2, <2>2, SumWithout
  <2>9. both(U) = one(U) + two(U)
    <3> HIDE DEF one, two, both, V
    <3> QED BY <2>5, <2>6, <2>7, <2>8
  <2> QED BY <2>2, <2>9
<1>4. S \in SUBSET S /\ S \notin Bad BY <1>3
<1> QED BY <1>1, <1>4, SumIsInt

\* Numbers multiplied one by one add up to the sum multiplied.
THEOREM SumScaled ==
  ASSUME NEW S, IsFiniteSet(S), NEW f, IntOn(f, S), NEW c \in Int,
         NEW h, \A x \in S : h[x] = c * f[x]
  PROVE  /\ SumFunctionOnSet(h, S) = c * SumFunctionOnSet(f, S)
         /\ SumFunctionOnSet(f, S) \in Int /\ SumFunctionOnSet(h, S) \in Int
<1> DEFINE sum(U) == SumFunctionOnSet(f, U)
           scaled(U) == SumFunctionOnSet(h, U)
           Bad == {U \in SUBSET S : scaled(U) # c * sum(U)}
<1>1. IntOn(h, S) BY DEF IntOn
<1>2. \A U \in SUBSET S : IsFiniteSet(U) /\ IntOn(f, U) /\ IntOn(h, U) BY <1>1, FS_Subset DEF IntOn
<1>3. Bad = {}
  <2> SUFFICES ASSUME Bad # {}  PROVE FALSE OBVIOUS
  <2>1. PICK U \in Bad : \A V \in Bad : Cardinality(U) <= Cardinality(V) BY SmallestSubset
  <2>2. U \in SUBSET S /\ scaled(U) # c * sum(U) /\ IsFiniteSet(U) BY <1>2
  <2>3. U # {}
    <3>1. sum({}) = 0 /\ scaled({}) = 0 BY SumOfNone
    <3>2. c * 0 = 0 OBVIOUS
    <3> QED BY <2>2, <3>1, <3>2
  <2>4. PICK x \in U : TRUE BY <2>3
  <2> DEFINE V == U \ {x}
  <2>5. scaled(V) = c * sum(V)
    <3>1. Cardinality(U) \in Nat /\ Cardinality(V) \in Nat /\ Cardinality(V) < Cardinality(U)
      BY <2>2, OneFewer
    <3>2. ~(Cardinality(U) <= Cardinality(V)) BY <3>1
    <3>3. V \notin Bad
      <4> HIDE DEF Bad, V
      <4> QED BY <2>1, <3>2
    <3> QED BY <2>2, <3>3
  <2>6. sum(U) = f[x] + sum(V) /\ sum(V) \in Int /\ f[x] \in Int BY <1>2, <2>2, SumWithout
  <2>7. scaled(U) = h[x] + scaled(V) /\ h[x] = c * f[x] BY <1>2, <2>2, SumWithout
  <2>8. scaled(U) = c * sum(U)
    <3> HIDE DEF sum, scaled, V
    <3>1. c * (f[x] + sum(V)) = c * f[x] + c * sum(V) BY <2>6
    <3> QED BY <2>5, <2>6, <2>7, <3>1
  <2> QED BY <2>2, <2>8
<1>4. S \in SUBSET S /\ S \notin Bad BY <1>3
<1> QED BY <1>1, <1>4, SumIsInt

\* What is zero but for one element adds up to the number there.
THEOREM SumOfOne ==
  ASSUME NEW S, IsFiniteSet(S), NEW f, IntOn(f, S), NEW x \in S,
         \A y \in S \ {x} : f[y] = 0
  PROVE  SumFunctionOnSet(f, S) = f[x]
<1>1. IsFiniteSet(S \ {x}) BY FS_RemoveElement
<1>2. SumFunctionOnSet(f, S \ {x}) = 0 BY <1>1, SumOfZeros
<1>3. SumFunctionOnSet(f, S) = f[x] + SumFunctionOnSet(f, S \ {x}) /\ f[x] \in Int BY SumWithout
<1> QED BY <1>2, <1>3

\* A sum over other names of the same numbers.
THEOREM SumRenamed ==
  ASSUME NEW S, IsFiniteSet(S), NEW g, IntOn(g, S),
         NEW b, \A x, y \in S : b[x] = b[y] => x = y,
         NEW f, \A x \in S : f[b[x]] = g[x]
  PROVE  IsFiniteSet({b[x] : x \in S}) /\ SumFunctionOnSet(f, {b[x] : x \in S}) = SumFunctionOnSet(g, S)
<1> DEFINE image(U) == {b[x] : x \in U}
           sum(U) == SumFunctionOnSet(g, U)
           other(U) == SumFunctionOnSet(f, image(U))
           Bad == {U \in SUBSET S : other(U) # sum(U)}
<1>1. \A U \in SUBSET S : IsFiniteSet(U) /\ IntOn(g, U) BY FS_Subset DEF IntOn
<1>2. ASSUME NEW U \in SUBSET S  PROVE IsFiniteSet(image(U)) /\ IntOn(f, image(U))
  <2> DEFINE h == [x \in U |-> b[x]]
  <2>1. h \in Surjection(U, image(U)) BY DEF Surjection
  <2>2. IsFiniteSet(image(U))
    <3> HIDE DEF h, image
    <3> QED BY <1>1, <2>1, FS_Surjection
  <2>3. IntOn(f, image(U)) BY DEF IntOn
  <2> QED BY <2>2, <2>3
<1>3. Bad = {}
  <2> SUFFICES ASSUME Bad # {}  PROVE FALSE OBVIOUS
  <2>1. PICK U \in Bad : \A V \in Bad : Cardinality(U) <= Cardinality(V) BY SmallestSubset
  <2>2. U \in SUBSET S /\ other(U) # sum(U) /\ IsFiniteSet(U) BY <1>1
  <2>3. U # {}
    <3>1. image({}) = {} OBVIOUS
    <3>2. other({}) = 0 /\ sum({}) = 0 BY <3>1, SumOfNone
    <3> QED BY <2>2, <3>2
  <2>4. PICK x \in U : TRUE BY <2>3
  <2> DEFINE V == U \ {x}
  <2>5. V \in SUBSET S /\ other(V) = sum(V)
    <3>1. Cardinality(U) \in Nat /\ Cardinality(V) \in Nat /\ Cardinality(V) < Cardinality(U)
      BY <2>2, OneFewer
    <3>2. ~(Cardinality(U) <= Cardinality(V)) BY <3>1
    <3>3. V \notin Bad
      <4> HIDE DEF Bad, V
      <4> QED BY <2>1, <3>2
    <3> QED BY <2>2, <3>3
  <2>6. sum(U) = g[x] + sum(V) BY <1>1, <2>2, SumWithout
  <2>7. image(U) \ {b[x]} = image(V) /\ b[x] \in image(U) BY <2>2
  <2>8. other(U) = f[b[x]] + other(V)
    <3> DEFINE W == image(U)
    <3>1. IsFiniteSet(W) /\ IntOn(f, W) /\ b[x] \in W BY <1>2, <2>2, <2>7
    <3> HIDE DEF W
    <3>2. SumFunctionOnSet(f, W) = f[b[x]] + SumFunctionOnSet(f, W \ {b[x]}) BY <3>1, SumWithout
    <3> QED BY <2>7, <3>2 DEF W
  <2>9. f[b[x]] = g[x] BY <2>2
  <2>10. other(U) = sum(U)
    <3> HIDE DEF other, sum, V, image
    <3> QED BY <2>5, <2>6, <2>8, <2>9
  <2> QED BY <2>2, <2>10
<1>4. S \in SUBSET S /\ S \notin Bad BY <1>3
<1> QED BY <1>2, <1>4

\* A sum over a part of a set is a sum over the set that skips the rest.
THEOREM SumSkipping ==
  ASSUME NEW S, IsFiniteSet(S), NEW f, IntOn(f, S), NEW T, T \subseteq S,
         \A x \in S \ T : f[x] = 0
  PROVE  SumFunctionOnSet(f, S) = SumFunctionOnSet(f, T)
<1>1. IsFiniteSet(S \ T) BY FS_Subset
<1>2. SumFunctionOnSet(f, S \ T) = 0 BY <1>1, SumOfZeros
<1>3. /\ SumFunctionOnSet(f, S) = SumFunctionOnSet(f, T) + SumFunctionOnSet(f, S \ T)
      /\ SumFunctionOnSet(f, T) \in Int BY SumSplit
<1> QED BY <1>2, <1>3

\* What is not negative adds up to no less than any part.
THEOREM SumAtLeastPart ==
  ASSUME NEW S, IsFiniteSet(S), NEW f, NatOn(f, S), NEW T, T \subseteq S
  PROVE  /\ SumFunctionOnSet(f, T) <= SumFunctionOnSet(f, S)
         /\ SumFunctionOnSet(f, T) \in Nat /\ SumFunctionOnSet(f, S) \in Nat
<1>1. \A U \in SUBSET S : IsFiniteSet(U) /\ IntOn(f, U) /\ NatOn(f, U) BY FS_Subset DEF IntOn, NatOn
<1>2. ASSUME NEW U \in SUBSET S  PROVE SumFunctionOnSet(f, U) \in Nat
  <2> DEFINE zero == [x \in U |-> 0]
  <2>1. IntOn(zero, U) /\ \A x \in U : zero[x] = 0 /\ zero[x] <= f[x] BY <1>1 DEF IntOn, NatOn
  <2> HIDE DEF zero
  <2>2. SumFunctionOnSet(zero, U) = 0 BY <1>1, <2>1, SumOfZeros
  <2>3. SumFunctionOnSet(zero, U) <= SumFunctionOnSet(f, U) BY <1>1, <2>1, SumLeq
  <2>4. SumFunctionOnSet(f, U) \in Int BY <1>1, SumIsInt
  <2> QED BY <2>2, <2>3, <2>4
<1>3. S \in SUBSET S /\ T \in SUBSET S /\ S \ T \in SUBSET S OBVIOUS
<1>4. SumFunctionOnSet(f, T) \in Nat /\ SumFunctionOnSet(f, S \ T) \in Nat /\ SumFunctionOnSet(f, S) \in Nat
  BY <1>2, <1>3
<1>5. SumFunctionOnSet(f, S) = SumFunctionOnSet(f, T) + SumFunctionOnSet(f, S \ T) BY <1>1, <1>3, SumSplit
<1> QED BY <1>4, <1>5

\* So to no less than any of its numbers.
THEOREM SumAtLeastOne ==
  ASSUME NEW S, IsFiniteSet(S), NEW f, NatOn(f, S), NEW x \in S
  PROVE  f[x] <= SumFunctionOnSet(f, S) /\ SumFunctionOnSet(f, S) \in Nat
<1>1. IntOn(f, S) /\ f[x] \in Nat BY DEF IntOn, NatOn
<1>2. SumFunctionOnSet(f, S) = f[x] + SumFunctionOnSet(f, S \ {x}) BY <1>1, SumWithout
<1>3. SumFunctionOnSet(f, S \ {x}) \in Nat /\ SumFunctionOnSet(f, S) \in Nat BY SumAtLeastPart
<1> QED BY <1>1, <1>2, <1>3

\* The sum of a function over its own domain is a sum over any larger set that adds nothing.
THEOREM SumOfFunction ==
  ASSUME NEW S, IsFiniteSet(S), NEW f, IntOn(f, S), NEW T, T \subseteq S,
         \A x \in S \ T : f[x] = 0,
         NEW g, DOMAIN g = T, \A x \in T : g[x] = f[x]
  PROVE  SumFunction(g) = SumFunctionOnSet(f, S)
<1>1. IsFiniteSet(T) BY FS_Subset
<1>2. SumFunctionOnSet(g, T) = SumFunctionOnSet(f, T) BY <1>1, SumSame
<1>3. SumFunctionOnSet(f, S) = SumFunctionOnSet(f, T) BY SumSkipping
<1> QED BY <1>2, <1>3 DEF SumFunction

\* The sum of a function over its finite domain.
LEMMA SumOverDomain ==
  ASSUME NEW D, IsFiniteSet(D), NEW f, DOMAIN f = D, IntOn(f, D) PROVE SumFunction(f) = SumFunctionOnSet(f, D)
BY SumOfFunction

\* The sum of two.
LEMMA SumOfTwo ==
  ASSUME NEW a, NEW b, a # b, NEW f, f[a] \in Int, f[b] \in Int
  PROVE  /\ SumFunctionOnSet(f, {a, b}) = f[a] + f[b] /\ IsFiniteSet({a, b}) /\ IntOn(f, {a, b})
<1>1. PICK T : T = {a, b} OBVIOUS
<1>2. IsFiniteSet(T) /\ IntOn(f, T) /\ a \in T
  <2>1. IsFiniteSet({a}) BY FS_Singleton
  <2>2. IsFiniteSet({a} \cup {b}) BY <2>1, FS_AddElement
  <2>3. T = {a} \cup {b} BY <1>1
  <2>4. IntOn(f, T) /\ a \in T BY <1>1 DEF IntOn
  <2> QED BY <2>2, <2>3, <2>4
<1>3. SumFunctionOnSet(f, T) = f[a] + SumFunctionOnSet(f, T \ {a}) /\ IsFiniteSet(T \ {a}) /\ IntOn(f, T \ {a})
  BY <1>2, SumWithout, FS_RemoveElement DEF IntOn
<1>4. SumFunctionOnSet(f, T \ {a}) = f[b]
  <2>1. b \in T \ {a} /\ \A y \in (T \ {a}) \ {b} : f[y] = 0 BY <1>1
  <2> QED BY <1>3, <2>1, SumOfOne
<1> QED BY <1>1, <1>2, <1>3, <1>4

\* The sum of three.
LEMMA SumOfThree ==
  ASSUME NEW a, NEW b, NEW c, a # b, a # c, b # c, NEW f, f[a] \in Int, f[b] \in Int, f[c] \in Int
  PROVE  SumFunctionOnSet(f, {a, b, c}) = f[a] + f[b] + f[c] /\ IsFiniteSet({a, b, c}) /\ IntOn(f, {a, b, c})
<1>1. PICK T : T = {a, b, c} OBVIOUS
<1>2. T = {a, b} \cup {c} /\ T \ {c} = {a, b} /\ c \in T BY <1>1
<1>3. IsFiniteSet(T) /\ IntOn(f, T)
  <2>1. PICK U : U = {a, b} OBVIOUS
  <2>2. IsFiniteSet(U) BY <2>1, SumOfTwo
  <2>3. IsFiniteSet({a, b} \cup {c}) BY <2>1, <2>2, FS_AddElement
  <2>4. IntOn(f, T) BY <1>1 DEF IntOn
  <2> QED BY <1>2, <2>3, <2>4
<1>4. SumFunctionOnSet(f, T) = f[c] + SumFunctionOnSet(f, T \ {c}) BY <1>2, <1>3, SumWithout
<1>5. SumFunctionOnSet(f, T \ {c}) = f[a] + f[b] BY <1>2, SumOfTwo
<1> QED BY <1>1, <1>3, <1>4, <1>5

\* The sum of four.
LEMMA SumOfFour ==
  ASSUME NEW a, NEW b, NEW c, NEW d, a # b, a # c, b # c, a # d, b # d, c # d,
         NEW f, f[a] \in Int, f[b] \in Int, f[c] \in Int, f[d] \in Int
  PROVE  SumFunctionOnSet(f, {a, b, c, d}) = f[a] + f[b] + f[c] + f[d]
<1>1. PICK T, L, R : T = {a, b, c, d} /\ L = {a, b} /\ R = {c, d} OBVIOUS
<1>2. T = L \cup R /\ L \subseteq T /\ T \ L = R BY <1>1
<1>3. SumFunctionOnSet(f, L) = f[a] + f[b] /\ IsFiniteSet(L) BY <1>1, SumOfTwo
<1>4. SumFunctionOnSet(f, R) = f[c] + f[d] /\ IsFiniteSet(R) BY <1>1, SumOfTwo
<1>5. IsFiniteSet(T) /\ IntOn(f, T)
  <2>1. IsFiniteSet(L \cup R) BY <1>3, <1>4, FS_Union
  <2> QED BY <1>1, <1>2, <2>1 DEF IntOn
<1>6. SumFunctionOnSet(f, T) = SumFunctionOnSet(f, L) + SumFunctionOnSet(f, T \ L) BY <1>2, <1>5, SumSplit
<1>7. SumFunctionOnSet(f, T) = (f[a] + f[b]) + (f[c] + f[d]) BY <1>2, <1>3, <1>4, <1>6
<1>8. (f[a] + f[b]) + (f[c] + f[d]) = f[a] + f[b] + f[c] + f[d] OBVIOUS
<1> QED BY <1>1, <1>7, <1>8

\* Ones add up to the number of them.
LEMMA SumOfOnes ==
  ASSUME NEW S, IsFiniteSet(S), NEW f, \A x \in S : f[x] = 1 PROVE SumFunctionOnSet(f, S) = Cardinality(S)
<1> DEFINE sum(U) == SumFunctionOnSet(f, U)
           Bad == {U \in SUBSET S : sum(U) # Cardinality(U)}
<1>1. \A U \in SUBSET S : IsFiniteSet(U) /\ IntOn(f, U) BY FS_Subset DEF IntOn
<1>2. Bad = {}
  <2> SUFFICES ASSUME Bad # {}  PROVE FALSE OBVIOUS
  <2>1. PICK U \in Bad : \A V \in Bad : Cardinality(U) <= Cardinality(V) BY SmallestSubset
  <2>2. U \in SUBSET S /\ sum(U) # Cardinality(U) /\ IsFiniteSet(U) BY <1>1
  <2>3. U # {}
    <3>1. sum({}) = 0 /\ Cardinality({}) = 0 BY SumOfNone, FS_EmptySet
    <3> QED BY <2>2, <3>1
  <2>4. PICK x \in U : TRUE BY <2>3
  <2> DEFINE V == U \ {x}
  <2>5. Cardinality(U) \in Nat /\ Cardinality(V) \in Nat /\ Cardinality(V) = Cardinality(U) - 1
    BY <2>2, OneFewer
  <2>6. sum(V) = Cardinality(V)
    <3>1. ~(Cardinality(U) <= Cardinality(V)) BY <2>5
    <3>2. V \notin Bad
      <4> HIDE DEF Bad, V
      <4> QED BY <2>1, <3>1
    <3> QED BY <2>2, <3>2
  <2>7. sum(U) = f[x] + sum(V) /\ f[x] = 1 BY <1>1, <2>2, SumWithout
  <2>8. sum(U) = Cardinality(U)
    <3> HIDE DEF sum, V
    <3> QED BY <2>5, <2>6, <2>7
  <2> QED BY <2>2, <2>8
<1> QED BY <1>2

====================

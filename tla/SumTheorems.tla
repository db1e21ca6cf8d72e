---------------------------- MODULE SumTheorems ----------------------------
(***************************************************************************)
(* Facts about SumFunctionOnSet(f, S), the sum of f[x] for x in a finite   *)
(* set S, and the two principles of induction they rest on.                *)
(*                                                                         *)
(* The induction theorems of the library are about an operator P(_), for   *)
(* which the provers here find no instance.  Stated about the set of those *)
(* that have the property they are first-order, and follow from the        *)
(* existence of a minimal element in every set of a well-founded order.    *)
(***************************************************************************)
EXTENDS Functions, FiniteSets, FiniteSetTheorems, WellFoundedInduction, TLAPS

(* A set of numbers that has 0 and with n also n + 1 has all of them.       *)
THEOREM NatSetInduction ==
  ASSUME NEW G, 0 \in G, \A n \in Nat : n \in G => n + 1 \in G
  PROVE  \A n \in Nat : n \in G
<1> DEFINE Less == {ss \in Nat \X Nat : ss[1] < ss[2]}
           Bad == Nat \ G
<1>1. IsWellFoundedOn(Less, Nat)
  BY NatLessThanWellFounded DEF OpToRel
<1>2. SUFFICES ASSUME Bad # {} PROVE FALSE
  OBVIOUS
<1>3. PICK n \in Bad : \A m \in Bad : <<m, n>> \notin Less
  <2>1. Bad \subseteq Nat
    OBVIOUS
  <2> HIDE DEF Less, Bad
  <2>2. QED
    BY <1>1, <1>2, <2>1, WFMin
<1>4. n \in Nat /\ n # 0
  OBVIOUS
<1>5. n - 1 \in Nat /\ n = (n - 1) + 1 /\ <<n - 1, n>> \in Less
  BY <1>4
<1>6. n - 1 \in G
  BY <1>3, <1>5
<1>7. n \in G
  BY <1>5, <1>6
<1>8. QED
  BY <1>7

(* A family of subsets of a finite set that has every subset all of whose   *)
(* proper subsets it has, has them all.                                     *)
THEOREM SubsetInduction ==
  ASSUME NEW S, IsFiniteSet(S), NEW G,
         \A T \in SUBSET S : (\A U \in SUBSET T : U # T => U \in G) => T \in G
  PROVE  \A T \in SUBSET S : T \in G
<1> DEFINE Less == StrictSubsetOrdering(S)
           Bad == (SUBSET S) \ G
<1>1. IsWellFoundedOn(Less, SUBSET S)
  BY FS_StrictSubsetOrderingWellFounded, FS_FiniteSubsetsOfFinite
<1>2. SUFFICES ASSUME Bad # {} PROVE FALSE
  OBVIOUS
<1>3. PICK T \in Bad : \A U \in Bad : <<U, T>> \notin Less
  <2>1. Bad \subseteq SUBSET S
    OBVIOUS
  <2> HIDE DEF Less, Bad
  <2>2. QED
    BY <1>1, <1>2, <2>1, WFMin
<1>4. ASSUME NEW U \in SUBSET T, U # T PROVE U \in G
  BY <1>3, <1>4 DEF StrictSubsetOrdering
<1>5. QED
  BY <1>4

-----------------------------------------------------------------------------
(* The element with which the fold over s begins, and the equation of the   *)
(* recursive function that SumFunctionOnSet chooses.                        *)
First(s) == CHOOSE x \in s : TRUE

SumsUp(f, S, g) ==
  g = [s \in SUBSET S |-> IF s = {} THEN 0 ELSE f[First(s)] + g[s \ {First(s)}]]

LEMMA SumIsChosen ==
  ASSUME NEW f, NEW S
  PROVE  SumFunctionOnSet(f, S) = (CHOOSE g : SumsUp(f, S, g))[S]
  BY DEF SumFunctionOnSet, FoldFunctionOnSet, MapThenFoldSet, SumsUp, First

LEMMA SumsUpValue ==
  ASSUME NEW f, NEW S, NEW g, SumsUp(f, S, g), NEW s \in SUBSET S
  PROVE  g[s] = IF s = {} THEN 0 ELSE f[First(s)] + g[s \ {First(s)}]
  BY DEF SumsUp

LEMMA FirstIn == ASSUME NEW s, s # {} PROVE First(s) \in s
  BY DEF First

LEMMA SumsUpUnique ==
  ASSUME NEW f, NEW S, NEW T, IsFiniteSet(S), NEW g, SumsUp(f, S, g),
         NEW h, SumsUp(f, T, h), NEW s \in SUBSET S, s \in SUBSET T
  PROVE  g[s] = h[s]
<1> DEFINE G == {u \in SUBSET s : g[u] = h[u]}
<1>1. IsFiniteSet(s)
  BY FS_Subset
<1>2. ASSUME NEW u \in SUBSET s, \A v \in SUBSET u : v # u => v \in G
      PROVE  u \in G
  <2>1. g[u] = IF u = {} THEN 0 ELSE f[First(u)] + g[u \ {First(u)}]
    BY SumsUpValue
  <2>2. h[u] = IF u = {} THEN 0 ELSE f[First(u)] + h[u \ {First(u)}]
    BY SumsUpValue
  <2>3. CASE u = {}
    BY <2>1, <2>2, <2>3
  <2>4. CASE u # {}
    <3>1. u \ {First(u)} \in G
      BY <1>2, <2>4, FirstIn
    <3>2. QED
      BY <2>1, <2>2, <2>4, <3>1
  <2>5. QED
    BY <2>3, <2>4
<1>3. \A u \in SUBSET s : u \in G
  <2> HIDE DEF G
  <2>1. QED
    BY <1>1, <1>2, SubsetInduction
<1>4. QED
  BY <1>3

LEMMA SumsUpExists ==
  ASSUME NEW f, NEW S, IsFiniteSet(S)
  PROVE  SumsUp(f, S, CHOOSE g : SumsUp(f, S, g))
<1> DEFINE G == {T \in SUBSET S : \E g : SumsUp(f, T, g)}
           V(u) == (CHOOSE g : SumsUp(f, u, g))[u]
<1>1. ASSUME NEW T \in SUBSET S, \A U \in SUBSET T : U # T => U \in G
      PROVE  T \in G
  <2> DEFINE h == [s \in SUBSET T |-> IF s = {} THEN 0 ELSE f[First(s)] + V(s \ {First(s)})]
  <2>1. ASSUME NEW s \in SUBSET T, s # {}
        PROVE  h[s \ {First(s)}] = V(s \ {First(s)})
    <3> DEFINE u == s \ {First(s)}
               g == CHOOSE g : SumsUp(f, u, g)
    <3>1. u \in SUBSET T /\ u # T /\ IsFiniteSet(u)
      BY <2>1, FirstIn, FS_Subset
    <3>2. u \in G
      BY <1>1, <3>1
    <3>3. SumsUp(f, u, g)
      BY <3>2
    <3>4. V(u) = IF u = {} THEN 0 ELSE f[First(u)] + g[u \ {First(u)}]
      <4> HIDE DEF u
      <4>1. g[u] = IF u = {} THEN 0 ELSE f[First(u)] + g[u \ {First(u)}]
        <5> HIDE DEF g
        <5>1. QED
          BY <3>3, SumsUpValue
      <4>2. QED
        BY <4>1
    <3>5. CASE u = {}
      BY <3>1, <3>4, <3>5
    <3>6. CASE u # {}
      <4> DEFINE w == u \ {First(u)}
                 k == CHOOSE k : SumsUp(f, w, k)
      <4>1. w \in SUBSET T /\ w \in SUBSET u /\ w # T
        BY <3>1, <3>6, FirstIn
      <4>2. w \in G
        BY <1>1, <4>1
      <4>3. SumsUp(f, w, k)
        BY <4>2
      <4>4. g[w] = k[w]
        <5> HIDE DEF u, w, g, k
        <5>1. QED
          BY <3>1, <3>3, <4>1, <4>3, SumsUpUnique
      <4>5. k[w] = V(w)
        OBVIOUS
      <4>6. h[u] = f[First(u)] + V(w)
        <5> HIDE DEF V
        <5>1. QED
          BY <3>1, <3>6
      <4>7. QED
        BY <3>4, <3>6, <4>4, <4>5, <4>6
    <3>7. QED
      BY <3>5, <3>6
  <2>2. SumsUp(f, T, h)
    <3> HIDE DEF V
    <3>1. QED
      BY <2>1 DEF SumsUp
  <2>3. QED
    BY <2>2
<1>2. S \in G
  <2> HIDE DEF G
  <2>1. QED
    BY <1>1, SubsetInduction
<1>3. QED
  BY <1>2

-----------------------------------------------------------------------------
(* What the sum is, one element at a time.                                  *)

LEMMA SumOfFirst ==
  ASSUME NEW f, NEW S, IsFiniteSet(S)
  PROVE  SumFunctionOnSet(f, S) =
           IF S = {} THEN 0 ELSE f[First(S)] + SumFunctionOnSet(f, S \ {First(S)})
<1> DEFINE T == S \ {First(S)}
           g == CHOOSE g : SumsUp(f, S, g)
           h == CHOOSE h : SumsUp(f, T, h)
<1>1. IsFiniteSet(T) /\ T \in SUBSET S
  BY FS_Subset
<1>2. SumsUp(f, S, g)
  BY SumsUpExists
<1>3. SumsUp(f, T, h)
  <2> HIDE DEF T
  <2>1. QED
    BY <1>1, SumsUpExists
<1>4. SumFunctionOnSet(f, S) = g[S] /\ SumFunctionOnSet(f, T) = h[T]
  BY SumIsChosen
<1> HIDE DEF T, g, h
<1>5. g[T] = h[T]
  BY <1>1, <1>2, <1>3, SumsUpUnique
<1>6. g[S] = IF S = {} THEN 0 ELSE f[First(S)] + g[S \ {First(S)}]
  BY <1>2, SumsUpValue
<1>7. QED
  BY <1>4, <1>5, <1>6 DEF T

(* The sum over nothing is 0.                                               *)
THEOREM SumEmpty ==
  ASSUME NEW f
  PROVE  SumFunctionOnSet(f, {}) = 0
  BY SumOfFirst, FS_EmptySet

(* The sum of integers is one, and which element is added last is the same. *)
THEOREM SumElement ==
  ASSUME NEW f, NEW S, IsFiniteSet(S), \A x \in S : f[x] \in Int
  PROVE  /\ SumFunctionOnSet(f, S) \in Int
         /\ \A x \in S : SumFunctionOnSet(f, S) = f[x] + SumFunctionOnSet(f, S \ {x})
<1> DEFINE Sum(T) == SumFunctionOnSet(f, T)
           G == {T \in SUBSET S : /\ Sum(T) \in Int
                                  /\ \A x \in T : Sum(T) = f[x] + Sum(T \ {x})}
<1>1. ASSUME NEW T \in SUBSET S, \A U \in SUBSET T : U # T => U \in G
      PROVE  T \in G
  <2>0. IsFiniteSet(T)
    BY FS_Subset
  <2>1. CASE T = {}
    BY <2>1, SumEmpty
  <2>2. CASE T # {}
    <3> DEFINE y == First(T)
    <3>1. y \in T /\ f[y] \in Int
      BY <2>2, FirstIn
    <3>2. Sum(T) = f[y] + Sum(T \ {y})
      BY <2>0, <2>2, SumOfFirst
    <3>3. T \ {y} \in G
      BY <1>1, <3>1
    <3>4. Sum(T) \in Int
      BY <3>1, <3>2, <3>3
    <3>5. ASSUME NEW x \in T PROVE Sum(T) = f[x] + Sum(T \ {x})
      <4>1. CASE x = y
        BY <3>2, <4>1
      <4>2. CASE x # y
        <5> DEFINE R == T \ {x, y}
        <5>1. T \ {x} \in G /\ R \in G
          BY <1>1
        <5>2. Sum(T \ {y}) = f[x] + Sum(R)
          <6>1. x \in T \ {y} /\ (T \ {y}) \ {x} = R
            BY <4>2
          <6>2. QED
            BY <3>3, <6>1
        <5>3. Sum(T \ {x}) = f[y] + Sum(R)
          <6>1. y \in T \ {x} /\ (T \ {x}) \ {y} = R
            BY <3>1, <4>2
          <6>2. QED
            BY <5>1, <6>1
        <5>4. Sum(R) \in Int /\ f[x] \in Int
          BY <5>1
        <5> HIDE DEF Sum, R, y, G
        <5>5. QED
          BY <3>1, <3>2, <5>2, <5>3, <5>4
      <4>3. QED
        BY <4>1, <4>2
    <3>6. QED
      BY <3>4, <3>5
  <2>3. QED
    BY <2>1, <2>2
<1>2. S \in G
  <2> HIDE DEF G
  <2>1. QED
    BY <1>1, SubsetInduction
<1>3. QED
  BY <1>2

(* A sum of natural numbers is one, and not less than any of them.          *)
THEOREM SumNat ==
  ASSUME NEW f, NEW S, IsFiniteSet(S), \A x \in S : f[x] \in Nat
  PROVE  /\ SumFunctionOnSet(f, S) \in Nat
         /\ \A x \in S : f[x] <= SumFunctionOnSet(f, S)
<1> DEFINE Sum(T) == SumFunctionOnSet(f, T)
           G == {T \in SUBSET S : Sum(T) \in Nat}
<1>0. ASSUME NEW T \in SUBSET S, NEW x \in T
      PROVE  Sum(T) = f[x] + Sum(T \ {x})
  <2>1. IsFiniteSet(T) /\ \A y \in T : f[y] \in Int
    BY FS_Subset
  <2>2. QED
    BY <2>1, SumElement
<1>1. ASSUME NEW T \in SUBSET S, \A U \in SUBSET T : U # T => U \in G
      PROVE  T \in G
  <2>1. CASE T = {}
    BY <2>1, SumEmpty
  <2>2. CASE T # {}
    <3>1. PICK x \in T : TRUE
      BY <2>2
    <3>2. T \ {x} \in G /\ f[x] \in Nat
      BY <1>1
    <3>3. Sum(T) = f[x] + Sum(T \ {x})
      BY <1>0
    <3>4. QED
      BY <3>2, <3>3
  <2>3. QED
    BY <2>1, <2>2
<1>2. \A T \in SUBSET S : T \in G
  <2> HIDE DEF G
  <2>1. QED
    BY <1>1, SubsetInduction
<1>3. ASSUME NEW x \in S PROVE f[x] <= Sum(S)
  <2>1. S \ {x} \in G
    BY <1>2
  <2>2. Sum(S) = f[x] + Sum(S \ {x}) /\ f[x] \in Nat
    BY <1>0
  <2> HIDE DEF Sum
  <2>3. QED
    BY <2>1, <2>2
<1>4. QED
  BY <1>2, <1>3

(* The sum depends on the values in the set only.                           *)
THEOREM SumSame ==
  ASSUME NEW f, NEW g, NEW S, IsFiniteSet(S), \A x \in S : f[x] = g[x]
  PROVE  SumFunctionOnSet(f, S) = SumFunctionOnSet(g, S)
<1> DEFINE G == {T \in SUBSET S : SumFunctionOnSet(f, T) = SumFunctionOnSet(g, T)}
<1>1. ASSUME NEW T \in SUBSET S, \A U \in SUBSET T : U # T => U \in G
      PROVE  T \in G
  <2>0. IsFiniteSet(T)
    BY FS_Subset
  <2>1. CASE T = {}
    BY <2>1, SumEmpty
  <2>2. CASE T # {}
    <3>1. First(T) \in T
      BY <2>2, FirstIn
    <3>2. T \ {First(T)} \in G
      BY <1>1, <3>1
    <3>3. QED
      BY <2>0, <2>2, <3>1, <3>2, SumOfFirst
  <2>3. QED
    BY <2>1, <2>2
<1>2. S \in G
  <2> HIDE DEF G
  <2>1. QED
    BY <1>1, SubsetInduction
<1>3. QED
  BY <1>2

(* One element more: the sum is more by that one.                           *)
THEOREM SumAdd ==
  ASSUME NEW f, NEW g, NEW S, IsFiniteSet(S), NEW x, x \notin S,
         \A y \in S : f[y] \in Int /\ g[y] = f[y], g[x] \in Int
  PROVE  SumFunctionOnSet(g, S \cup {x}) = SumFunctionOnSet(f, S) + g[x]
<1>1. IsFiniteSet(S \cup {x}) /\ \A y \in S \cup {x} : g[y] \in Int
  BY FS_AddElement
<1>2. SumFunctionOnSet(g, S \cup {x}) = g[x] + SumFunctionOnSet(g, (S \cup {x}) \ {x})
  BY <1>1, SumElement
<1>3. SumFunctionOnSet(g, (S \cup {x}) \ {x}) = SumFunctionOnSet(g, S)
  <2>1. (S \cup {x}) \ {x} = S
    OBVIOUS
  <2>2. QED
    BY ONLY <2>1
<1>4. SumFunctionOnSet(g, S) = SumFunctionOnSet(f, S) /\ SumFunctionOnSet(f, S) \in Int
  BY SumSame, SumElement
<1>5. QED
  BY <1>2, <1>3, <1>4

(* One element less, the others as they were: the sum is less by that one.  *)
THEOREM SumRemove ==
  ASSUME NEW f, NEW g, NEW S, IsFiniteSet(S), NEW x \in S,
         \A y \in S : f[y] \in Int, \A y \in S \ {x} : g[y] = f[y]
  PROVE  SumFunctionOnSet(g, S \ {x}) = SumFunctionOnSet(f, S) - f[x]
<1>1. IsFiniteSet(S \ {x})
  BY FS_RemoveElement
<1>2. SumFunctionOnSet(f, S) = f[x] + SumFunctionOnSet(f, S \ {x})
  BY SumElement
<1>3. SumFunctionOnSet(g, S \ {x}) = SumFunctionOnSet(f, S \ {x})
  BY <1>1, SumSame
<1>4. SumFunctionOnSet(f, S \ {x}) \in Int
  BY <1>1, SumElement
<1>5. QED
  BY <1>2, <1>3, <1>4

(* One element changed: the sum changes by the difference.                  *)
THEOREM SumUpdate ==
  ASSUME NEW f, NEW g, NEW S, IsFiniteSet(S), NEW x \in S, g[x] \in Int,
         \A y \in S : f[y] \in Int, \A y \in S : y # x => g[y] = f[y]
  PROVE  SumFunctionOnSet(g, S) = SumFunctionOnSet(f, S) - f[x] + g[x]
<1>1. SumFunctionOnSet(f, S) = f[x] + SumFunctionOnSet(f, S \ {x})
  BY SumElement
<1>2. \A y \in S : g[y] \in Int
  OBVIOUS
<1>3. SumFunctionOnSet(g, S) = g[x] + SumFunctionOnSet(g, S \ {x})
  BY <1>2, SumElement
<1>4. IsFiniteSet(S \ {x}) /\ \A y \in S \ {x} : f[y] = g[y]
  BY FS_RemoveElement
<1>5. SumFunctionOnSet(f, S \ {x}) = SumFunctionOnSet(g, S \ {x})
  BY <1>4, SumSame
<1>6. SumFunctionOnSet(f, S \ {x}) \in Int
  BY <1>4, SumElement
<1>7. QED
  BY <1>1, <1>3, <1>5, <1>6

(* One element less, whose place another one takes: what swap-and-pop does. *)
THEOREM SumMove ==
  ASSUME NEW f, NEW g, NEW S, IsFiniteSet(S), NEW x \in S, NEW last \in S,
         \A y \in S : f[y] \in Int,
         \A y \in S \ {last} : g[y] = IF y = x THEN f[last] ELSE f[y]
  PROVE  SumFunctionOnSet(g, S \ {last}) = SumFunctionOnSet(f, S) - f[x]
<1>1. IsFiniteSet(S \ {last})
  BY FS_RemoveElement
<1>2. SumFunctionOnSet(f, S) = f[last] + SumFunctionOnSet(f, S \ {last})
  BY SumElement
<1>3. SumFunctionOnSet(f, S \ {last}) \in Int
  BY <1>1, SumElement
<1>4. CASE x = last
  <2>1. SumFunctionOnSet(g, S \ {last}) = SumFunctionOnSet(f, S \ {last})
    BY <1>1, <1>4, SumSame
  <2>2. QED
    BY <1>2, <1>3, <1>4, <2>1
<1>5. CASE x # last
  <2>1. PICK T : T = S \ {last}
    OBVIOUS
  <2>2. /\ IsFiniteSet(T) /\ x \in T /\ g[x] \in Int /\ \A y \in T : f[y] \in Int
        /\ \A y \in T : y # x => g[y] = f[y]
        /\ g[x] = f[last]
    BY <1>1, <1>5, <2>1
  <2>3. SumFunctionOnSet(g, T) = SumFunctionOnSet(f, T) - f[x] + g[x]
    BY <2>2, SumUpdate
  <2>4. QED
    BY <1>2, <1>3, <2>1, <2>2, <2>3
<1>6. QED
  BY <1>4, <1>5

(* A sum over a sequence to which one element is appended.                  *)
THEOREM SumAppend ==
  ASSUME NEW n \in Nat, NEW f, NEW g, \A k \in 1..n : f[k] \in Int /\ g[k] = f[k],
         g[n + 1] \in Int
  PROVE  SumFunctionOnSet(g, 1..(n + 1)) = SumFunctionOnSet(f, 1..n) + g[n + 1]
<1>1. PICK x : x = n + 1
  OBVIOUS
<1>2. /\ IsFiniteSet(1..n)
      /\ x \notin 1..n /\ 1..(n + 1) = (1..n) \cup {x}
  <2>1. IsFiniteSet(1..n)
    BY FS_Interval
  <2>2. QED
    BY <1>1, <2>1
<1>3. PICK S : S = 1..n
  OBVIOUS
<1>4. IsFiniteSet(S) /\ x \notin S /\ (\A k \in S : f[k] \in Int /\ g[k] = f[k]) /\ g[x] \in Int
  BY <1>1, <1>2, <1>3
<1>5. SumFunctionOnSet(g, S \cup {x}) = SumFunctionOnSet(f, S) + g[x]
  BY <1>4, SumAdd
<1>6. QED
  BY <1>1, <1>2, <1>3, <1>5

(* A sum of natural numbers grows with its terms.                           *)
THEOREM SumMonotone ==
  ASSUME NEW f, NEW g, NEW S, IsFiniteSet(S),
         \A x \in S : f[x] \in Int /\ g[x] \in Int /\ f[x] <= g[x]
  PROVE  SumFunctionOnSet(f, S) <= SumFunctionOnSet(g, S)
<1> DEFINE G == {T \in SUBSET S : SumFunctionOnSet(f, T) <= SumFunctionOnSet(g, T)}
<1>1. ASSUME NEW T \in SUBSET S, \A U \in SUBSET T : U # T => U \in G
      PROVE  T \in G
  <2>0. IsFiniteSet(T)
    BY FS_Subset
  <2>1. CASE T = {}
    BY <2>1, SumEmpty
  <2>2. CASE T # {}
    <3>1. PICK x \in T : TRUE
      BY <2>2
    <3>2. T \ {x} \in G
      BY <1>1
    <3>3. /\ SumFunctionOnSet(f, T) \in Int
          /\ SumFunctionOnSet(f, T) = f[x] + SumFunctionOnSet(f, T \ {x})
      BY <2>0, SumElement
    <3>4. /\ SumFunctionOnSet(g, T) \in Int
          /\ SumFunctionOnSet(g, T) = g[x] + SumFunctionOnSet(g, T \ {x})
      BY <2>0, SumElement
    <3>5. SumFunctionOnSet(f, T \ {x}) \in Int /\ SumFunctionOnSet(g, T \ {x}) \in Int
      <4>1. IsFiniteSet(T \ {x})
        BY <2>0, FS_RemoveElement
      <4>2. QED
        BY <4>1, SumElement
    <3>6. QED
      BY <3>2, <3>3, <3>4, <3>5
  <2>3. QED
    BY <2>1, <2>2
<1>2. \A T \in SUBSET S : T \in G
  <2> HIDE DEF G
  <2>1. QED
    BY <1>1, SubsetInduction
<1>3. QED
  BY <1>2

(* And is more when one of them is.                                         *)
THEOREM SumStrict ==
  ASSUME NEW f, NEW g, NEW S, IsFiniteSet(S), NEW x \in S, f[x] < g[x],
         \A y \in S : f[y] \in Int /\ g[y] \in Int /\ f[y] <= g[y]
  PROVE  SumFunctionOnSet(f, S) < SumFunctionOnSet(g, S)
<1>1. IsFiniteSet(S \ {x})
  BY FS_RemoveElement
<1>2. SumFunctionOnSet(f, S \ {x}) <= SumFunctionOnSet(g, S \ {x})
  BY <1>1, SumMonotone
<1>3. SumFunctionOnSet(f, S) = f[x] + SumFunctionOnSet(f, S \ {x})
  BY SumElement
<1>4. SumFunctionOnSet(g, S) = g[x] + SumFunctionOnSet(g, S \ {x})
  BY SumElement
<1>5. SumFunctionOnSet(f, S \ {x}) \in Int /\ SumFunctionOnSet(g, S \ {x}) \in Int
  BY <1>1, SumElement
<1>6. QED
  BY <1>2, <1>3, <1>4, <1>5

(* The sum of a function that is c on T and 0 elsewhere.                    *)
THEOREM SumOfConstant ==
  ASSUME NEW f, NEW S, IsFiniteSet(S), NEW T \in SUBSET S, NEW c \in Nat,
         \A x \in S : f[x] = IF x \in T THEN c ELSE 0
  PROVE  SumFunctionOnSet(f, S) = c * Cardinality(T)
<1> DEFINE G == {U \in SUBSET S : SumFunctionOnSet(f, U) = c * Cardinality(U \cap T)}
<1>1. ASSUME NEW U \in SUBSET S, \A V \in SUBSET U : V # U => V \in G
      PROVE  U \in G
  <2>0. IsFiniteSet(U)
    BY FS_Subset
  <2>1. CASE U = {}
    <3>1. Cardinality(U \cap T) = 0
      BY <2>1, FS_EmptySet
    <3>2. QED
      BY <2>1, <3>1, SumEmpty
  <2>2. CASE U # {}
    <3>1. PICK x \in U : TRUE
      BY <2>2
    <3>2. U \ {x} \in G
      BY <1>1
    <3>3. SumFunctionOnSet(f, U) = f[x] + SumFunctionOnSet(f, U \ {x})
      <4>1. \A y \in U : f[y] \in Int
        OBVIOUS
      <4>2. QED
        BY <2>0, <4>1, SumElement
    <3>4. IsFiniteSet(U \cap T)
      BY <2>0, FS_Subset
    <3>5. CASE x \in T
      <4>1. PICK k : k = Cardinality((U \ {x}) \cap T)
        OBVIOUS
      <4>2. (U \ {x}) \cap T = (U \cap T) \ {x} /\ x \in U \cap T
        BY <3>5
      <4>3. k \in Nat /\ Cardinality(U \cap T) = k + 1
        <5>1. Cardinality((U \cap T) \ {x}) = Cardinality(U \cap T) - 1
          BY <3>4, <4>2, FS_RemoveElement
        <5>2. IsFiniteSet((U \ {x}) \cap T)
          BY <2>0, FS_Subset
        <5>3. Cardinality(U \cap T) \in Nat /\ k \in Nat
          BY <3>4, <4>1, <5>2, FS_CardinalityType
        <5>4. QED
          BY <4>1, <4>2, <5>1, <5>3
      <4>4. c * (k + 1) = c + c * k
        BY <4>3
      <4>5. QED
        BY <3>2, <3>3, <3>5, <4>1, <4>3, <4>4
    <3>6. CASE x \notin T
      <4>1. (U \ {x}) \cap T = U \cap T
        BY <3>6
      <4>2. f[x] = 0
        BY <3>6
      <4>3. SumFunctionOnSet(f, U \ {x}) \in Int
        <5>1. IsFiniteSet(U \ {x}) /\ \A y \in U \ {x} : f[y] \in Int
          BY <2>0, FS_RemoveElement
        <5>2. QED
          BY <5>1, SumElement
      <4>4. SumFunctionOnSet(f, U) = SumFunctionOnSet(f, U \ {x})
        BY <3>3, <4>2, <4>3
      <4>5. QED
        BY <3>2, <4>1, <4>4
    <3>7. QED
      BY <3>5, <3>6
  <2>3. QED
    BY <2>1, <2>2
<1>2. \A U \in SUBSET S : U \in G
  <2> HIDE DEF G
  <2>1. QED
    BY <1>1, SubsetInduction
<1>3. S \cap T = T
  OBVIOUS
<1>4. QED
  BY <1>2, <1>3
=============================================================================

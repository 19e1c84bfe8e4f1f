--------------------------- MODULE InductionLemmas ---------------------------
(***************************************************************************)
(* Induction over numbers without the schemes of the library, which take   *)
(* operators: least and greatest elements, closed sets of numbers, and     *)
(* functions defined by recursion up to a bound; and what the selection of *)
(* some elements of a list keeps.                                          *)
(***************************************************************************)
EXTENDS Selection, FiniteSets, WellFoundedInduction, TLAPS

-----------------------------------------------------------------------------
(* Numbers.                                                                *)
LEMMA LeastElement ==
    ASSUME NEW T, T \subseteq Nat, T # {}
    PROVE  \E x \in T : \A y \in T : x <= y
<1> DEFINE R == OpToRel(<, Nat)
<1>1. IsWellFoundedOn(R, Nat)
  BY NatLessThanWellFounded
<1>2. PICK x \in T : \A y \in T : ~ (<<y, x>> \in R)
  <2> HIDE DEF R
  <2> QED
    BY <1>1, WFMin
<1>3. ASSUME NEW y \in T PROVE x <= y
  <2>1. x \in Nat /\ y \in Nat
    OBVIOUS
  <2>2. ~ (y < x)
    BY <1>2, <2>1, Zenon DEF OpToRel
  <2> QED
    BY <2>1, <2>2
<1> QED
  BY <1>3

LEMMA GreatestElement ==
    ASSUME NEW T, NEW b \in Nat, T \subseteq 0 .. b, T # {}
    PROVE  \E x \in T : \A y \in T : y <= x
<1> DEFINE U == {n \in Nat : \E x \in T : n = b - x}
<1>1. U \subseteq Nat /\ U # {}
  <2>1. PICK x \in T : TRUE
    OBVIOUS
  <2>2. b - x \in U
    OBVIOUS
  <2> QED
    BY <2>2
<1>2. PICK u \in U : \A v \in U : u <= v
  <2> HIDE DEF U
  <2> QED
    BY <1>1, LeastElement
<1>3. PICK x \in T : u = b - x
  OBVIOUS
<1>4. ASSUME NEW y \in T PROVE y <= x
  BY <1>2, <1>3
<1> QED
  BY <1>4

(* A set that has 0 and with each number the next one, up to n.            *)
LEMMA ClosedSet ==
    ASSUME NEW n \in Nat, NEW T, 0 \in T, \A k \in 1 .. n : k - 1 \in T => k \in T
    PROVE  0 .. n \subseteq T
<1> SUFFICES ASSUME NEW m \in 0 .. n, m \notin T PROVE FALSE
  OBVIOUS
<1> DEFINE U == {k \in 0 .. n : k \notin T}
<1>1. PICK k \in U : \A j \in U : k <= j
  <2>1. U \subseteq Nat /\ U # {}
    OBVIOUS
  <2> HIDE DEF U
  <2> QED
    BY <2>1, LeastElement
<1>2. k \in 1 .. n
  OBVIOUS
<1>3. k - 1 \in T
  BY <1>1, <1>2
<1> QED
  BY <1>1, <1>2, <1>3

(* There is a function with a given first value and a given step.          *)
Recursive(f, n, X, a, Step) ==
    /\ f \in [0 .. n -> X]
    /\ f[0] = a
    /\ \A i \in 1 .. n : f[i] = Step[<<i, f[i - 1]>>]

LEMMA RecursionExists ==
    ASSUME NEW n \in Nat, NEW X, NEW a \in X, NEW Step \in [(1 .. n) \X X -> X]
    PROVE  \E f : Recursive(f, n, X, a, Step)
<1> DEFINE Good(k) == \E f \in [0 .. k -> X] :
                f[0] = a /\ \A i \in 1 .. k : f[i] = Step[<<i, f[i - 1]>>]
           T == {k \in 0 .. n : Good(k)}
<1>1. 0 \in T
  <2>1. [i \in 0 .. 0 |-> a] \in [0 .. 0 -> X] /\ [i \in 0 .. 0 |-> a][0] = a
    OBVIOUS
  <2>2. \A i \in 1 .. 0 : FALSE
    OBVIOUS
  <2>3. Good(0)
    BY <2>1, <2>2
  <2> QED
    BY <2>3
<1>2. ASSUME NEW k \in 1 .. n, k - 1 \in T PROVE k \in T
  <2>1. PICK f \in [0 .. k - 1 -> X] :
           f[0] = a /\ \A i \in 1 .. k - 1 : f[i] = Step[<<i, f[i - 1]>>]
    BY <1>2
  <2> DEFINE g == [i \in 0 .. k |-> IF i = k THEN Step[<<k, f[k - 1]>>] ELSE f[i]]
  <2>2. g \in [0 .. k -> X]
    OBVIOUS
  <2>3. g[0] = a
    BY <2>1
  <2>4. ASSUME NEW i \in 1 .. k PROVE g[i] = Step[<<i, g[i - 1]>>]
    <3>1. g[i - 1] = f[i - 1]
      BY SMT
    <3>2. g[i] = IF i = k THEN Step[<<k, f[k - 1]>>] ELSE f[i]
      OBVIOUS
    <3> HIDE DEF g
    <3>3. CASE i = k
      BY <3>1, <3>2, <3>3
    <3>4. CASE i # k
      BY <2>1, <3>1, <3>2, <3>4
    <3> QED
      BY <3>3, <3>4
  <2>5. Good(k)
    <3> HIDE DEF g
    <3> QED
      BY <2>2, <2>3, <2>4
  <2> QED
    BY <2>5
<1>3. n \in T
  <2> HIDE DEF T
  <2>1. 0 .. n \subseteq T
    BY <1>1, <1>2, ClosedSet
  <2> QED
    BY <2>1
<1>4. PICK f \in [0 .. n -> X] :
         f[0] = a /\ \A i \in 1 .. n : f[i] = Step[<<i, f[i - 1]>>]
  BY <1>3
<1>5. Recursive(f, n, X, a, Step)
  BY <1>4 DEF Recursive
<1> QED
  BY <1>5

-----------------------------------------------------------------------------
(* Selections.                                                             *)

(* The places of a list that are selected, one for each of the selection.  *)
Selects(e, r, s, S) ==
    /\ e \in [1 .. Len(r) -> 1 .. Len(s)]
    /\ \A k \in 1 .. Len(r) : r[k] = s[e[k]] /\ r[k] \in S
    /\ \A j, k \in 1 .. Len(r) : j < k => e[j] < e[k]
    /\ \A i \in 1 .. Len(s) : s[i] \in S => \E k \in 1 .. Len(r) : e[k] = i

(* The recursion in Those has the values its equations give.               *)
ThoseUpTo(f, s, S, X) ==
    /\ f \in [0 .. Len(s) -> Seq(X)]
    /\ f[0] = <<>>
    /\ \A i \in 1 .. Len(s) :
          f[i] = IF s[i] \in S THEN Append(f[i - 1], s[i]) ELSE f[i - 1]

LEMMA ThoseRecursion ==
    ASSUME NEW X, NEW s \in Seq(X), NEW S
    PROVE  \E f : ThoseUpTo(f, s, S, X) /\ Those(s, S) = f[Len(s)]
<1> DEFINE n == Len(s)
           Next(i, r) == IF s[i] \in S THEN Append(r, s[i]) ELSE r
           Step == [p \in (1 .. n) \X Seq(X) |-> Next(p[1], p[2])]
           IsRec(f) == f = [i \in 0 .. n |-> IF i = 0 THEN <<>> ELSE Next(i, f[i - 1])]
           upTo == CHOOSE f : IsRec(f)
<1>1. n \in Nat /\ <<>> \in Seq(X) /\ \A i \in 1 .. n : s[i] \in X
  OBVIOUS
<1>2. \A i \in 1 .. n, r \in Seq(X) : Next(i, r) \in Seq(X)
  BY <1>1
<1>3. Step \in [(1 .. n) \X Seq(X) -> Seq(X)]
  <2> HIDE DEF Next
  <2> QED
    BY <1>2
<1>4. PICK f : Recursive(f, n, Seq(X), <<>>, Step)
  <2> HIDE DEF Step, n
  <2> QED
    BY <1>1, <1>3, RecursionExists
<1>5. \A i \in 1 .. n : f[i] = Next(i, f[i - 1])
  <2> SUFFICES ASSUME NEW i \in 1 .. n PROVE f[i] = Next(i, f[i - 1])
    OBVIOUS
  <2>1. f[i - 1] \in Seq(X)
    BY <1>1, <1>4 DEF Recursive
  <2>2. <<i, f[i - 1]>> \in (1 .. n) \X Seq(X)
    BY <2>1
  <2> HIDE DEF Next, n
  <2> QED
    BY <1>4, <2>2 DEF Recursive
<1>6. IsRec(f)
  <2> HIDE DEF Next, n
  <2>1. \A i \in 0 .. n : f[i] = IF i = 0 THEN <<>> ELSE Next(i, f[i - 1])
    BY <1>1, <1>4, <1>5 DEF Recursive
  <2> QED
    BY <1>4, <2>1 DEF Recursive
<1>7. IsRec(upTo)
  <2> HIDE DEF IsRec
  <2> QED
    BY <1>6
<1>8. ASSUME NEW g, IsRec(g) PROVE g[0] = <<>> /\ \A i \in 1 .. n : g[i] = Next(i, g[i - 1])
  <2> HIDE DEF Next
  <2> QED
    BY <1>1, <1>8
<1>9. upTo \in [0 .. n -> Seq(X)]
  <2> DEFINE T == {i \in 0 .. n : upTo[i] \in Seq(X)}
  <2>1. 0 \in T
    <3>1. upTo[0] = <<>>
      BY <1>7, <1>8
    <3>2. 0 \in 0 .. n
      BY <1>1
    <3> HIDE DEF upTo, n
    <3> QED
      BY <1>1, <3>1, <3>2
  <2>2. ASSUME NEW i \in 1 .. n, i - 1 \in T PROVE i \in T
    <3>1. upTo[i] = Next(i, upTo[i - 1])
      BY <1>7, <1>8
    <3> HIDE DEF Next, upTo, n
    <3> QED
      BY <1>1, <1>2, <2>2, <3>1
  <2>3. 0 .. n \subseteq T
    <3> HIDE DEF T, n
    <3> QED
      BY <1>1, <2>1, <2>2, ClosedSet
  <2>4. upTo = [i \in 0 .. n |-> upTo[i]]
    <3> HIDE DEF Next, upTo
    <3> QED
      BY <1>7
  <2> HIDE DEF upTo
  <2> QED
    BY <2>3, <2>4
<1>10. Those(s, S) = upTo[n]
  BY DEF Those
<1>11. ThoseUpTo(upTo, s, S, X)
  <2> HIDE DEF upTo
  <2> QED
    BY <1>7, <1>8, <1>9 DEF ThoseUpTo
<1> QED
  BY <1>10, <1>11

LEMMA ThoseSelects ==
    ASSUME NEW X, NEW s \in Seq(X), NEW S
    PROVE  Those(s, S) \in Seq(X) /\ \E e : Selects(e, Those(s, S), s, S)
<1>0. PICK f : ThoseUpTo(f, s, S, X) /\ Those(s, S) = f[Len(s)]
  BY ThoseRecursion
<1>1. /\ f \in [0 .. Len(s) -> Seq(X)]
      /\ f[0] = <<>>
      /\ \A i \in 1 .. Len(s) :
            f[i] = IF s[i] \in S THEN Append(f[i - 1], s[i]) ELSE f[i - 1]
  BY <1>0 DEF ThoseUpTo
<1> DEFINE Good(m, e, r) ==
              /\ e \in [1 .. Len(r) -> 1 .. m]
              /\ \A k \in 1 .. Len(r) : r[k] = s[e[k]] /\ r[k] \in S
              /\ \A j, k \in 1 .. Len(r) : j < k => e[j] < e[k]
              /\ \A i \in 1 .. m : s[i] \in S => \E k \in 1 .. Len(r) : e[k] = i
           T == {m \in 0 .. Len(s) : \E e : Good(m, e, f[m])}
<1>2. 0 \in T
  <2>1. Good(0, [k \in 1 .. 0 |-> 0], f[0])
    BY <1>1
  <2> HIDE DEF Good
  <2> QED
    BY <2>1
<1>3. ASSUME NEW m \in 1 .. Len(s), m - 1 \in T PROVE m \in T
  <2>1. PICK e : Good(m - 1, e, f[m - 1])
    BY <1>3
  <2>2. f[m - 1] \in Seq(X)
    BY <1>1
  <2>3. CASE s[m] \notin S
    <3>1. f[m] = f[m - 1]
      BY <1>1, <2>3
    <3>2. Good(m, e, f[m - 1])
      BY <2>1, <2>2, <2>3
    <3> HIDE DEF Good
    <3> QED
      BY <3>1, <3>2
  <2>4. CASE s[m] \in S
    <3> DEFINE l == Len(f[m - 1])
               g == [k \in 1 .. l + 1 |-> IF k = l + 1 THEN m ELSE e[k]]
    <3>1. f[m] = Append(f[m - 1], s[m])
      BY <1>1, <2>4
    <3>2. /\ Len(f[m]) = l + 1 /\ f[m][l + 1] = s[m] /\ l \in Nat
          /\ \A k \in 1 .. l : f[m][k] = f[m - 1][k]
      BY <2>2, <3>1
    <3>3. /\ e \in [1 .. l -> 1 .. m - 1]
          /\ \A k \in 1 .. l : f[m - 1][k] = s[e[k]] /\ f[m - 1][k] \in S
          /\ \A j, k \in 1 .. l : j < k => e[j] < e[k]
          /\ \A i \in 1 .. m - 1 : s[i] \in S => \E k \in 1 .. l : e[k] = i
      BY <2>1
    <3> HIDE DEF l
    <3>4. /\ g \in [1 .. l + 1 -> 1 .. m] /\ g[l + 1] = m
          /\ \A k \in 1 .. l : g[k] = e[k] /\ e[k] \in 1 .. m - 1
      BY <3>2, <3>3
    <3> HIDE DEF g
    <3>5. \A k \in 1 .. l + 1 : f[m][k] = s[g[k]] /\ f[m][k] \in S
      BY <2>4, <3>2, <3>3, <3>4
    <3>6. ASSUME NEW j \in 1 .. l + 1, NEW k \in 1 .. l + 1, j < k PROVE g[j] < g[k]
      <4>1. j \in 1 .. l
        BY <3>2, <3>6
      <4>2. CASE k = l + 1
        BY <3>2, <3>4, <4>1, <4>2
      <4>3. CASE k # l + 1
        <5>1. k \in 1 .. l
          BY <3>2, <4>3
        <5>2. e[j] < e[k]
          BY <3>3, <3>6, <4>1, <5>1
        <5> QED
          BY <3>4, <4>1, <5>1, <5>2
      <4> QED
        BY <4>2, <4>3
    <3>7. \A i \in 1 .. m : s[i] \in S => \E k \in 1 .. l + 1 : g[k] = i
      <4> SUFFICES ASSUME NEW i \in 1 .. m, s[i] \in S PROVE \E k \in 1 .. l + 1 : g[k] = i
        OBVIOUS
      <4>1. CASE i = m
        BY <3>2, <3>4, <4>1
      <4>2. CASE i # m
        <5>1. PICK k \in 1 .. l : e[k] = i
          BY <3>3, <4>2
        <5>2. k \in 1 .. l + 1
          BY <3>2
        <5> QED
          BY <3>4, <5>1, <5>2
      <4> QED
        BY <4>1, <4>2
    <3>8. Good(m, g, f[m])
      BY <3>2, <3>4, <3>5, <3>6, <3>7
    <3> HIDE DEF Good
    <3> QED
      BY <3>8
  <2> QED
    BY <2>3, <2>4
<1>4. Len(s) \in T
  <2> HIDE DEF T
  <2>1. Len(s) \in Nat
    OBVIOUS
  <2>2. 0 .. Len(s) \subseteq T
    BY <1>2, <1>3, <2>1, ClosedSet
  <2> QED
    BY <2>1, <2>2
<1>5. PICK e : Good(Len(s), e, f[Len(s)])
  BY <1>4
<1>6. Selects(e, Those(s, S), s, S)
  BY <1>0, <1>5 DEF Selects
<1>7. Those(s, S) \in Seq(X)
  BY <1>0, <1>1
<1> QED
  BY <1>6, <1>7

(* A selection has the elements that are selected, and no others.          *)
LEMMA ThoseHas ==
    ASSUME NEW X, NEW s \in Seq(X), NEW S
    PROVE  /\ Those(s, S) \in Seq(X)
           /\ \A k \in 1 .. Len(Those(s, S)) :
                 /\ Those(s, S)[k] \in S
                 /\ \E i \in 1 .. Len(s) : s[i] = Those(s, S)[k]
           /\ \A i \in 1 .. Len(s) :
                 s[i] \in S => \E k \in 1 .. Len(Those(s, S)) : Those(s, S)[k] = s[i]
<1> DEFINE r == Those(s, S)
<1>1. r \in Seq(X) /\ \E e : Selects(e, r, s, S)
  BY ThoseSelects
<1> HIDE DEF r
<1>2. PICK e : Selects(e, r, s, S)
  BY <1>1
<1>3. \A k \in 1 .. Len(r) : r[k] \in S /\ \E i \in 1 .. Len(s) : s[i] = r[k]
  BY <1>2 DEF Selects
<1>4. ASSUME NEW i \in 1 .. Len(s), s[i] \in S
      PROVE  \E k \in 1 .. Len(r) : r[k] = s[i]
  BY <1>2, <1>4 DEF Selects
<1> QED
  BY <1>1, <1>3, <1>4 DEF r
-----------------------------------------------------------------------------
(* Lists put one after the other.                                          *)
ChainedUpTo(f, s, X) ==
    /\ f \in [0 .. Len(s) -> Seq(X)]
    /\ f[0] = <<>>
    /\ \A i \in 1 .. Len(s) : f[i] = f[i - 1] \o s[i]

LEMMA ChainedRecursion ==
    ASSUME NEW X, NEW s \in Seq(Seq(X))
    PROVE  \E f : ChainedUpTo(f, s, X) /\ Chained(s) = f[Len(s)]
<1> DEFINE n == Len(s)
           Next(i, r) == r \o s[i]
           Step == [p \in (1 .. n) \X Seq(X) |-> Next(p[1], p[2])]
           IsRec(f) == f = [i \in 0 .. n |-> IF i = 0 THEN <<>> ELSE Next(i, f[i - 1])]
           upTo == CHOOSE f : IsRec(f)
<1>1. n \in Nat /\ <<>> \in Seq(X) /\ \A i \in 1 .. n : s[i] \in Seq(X)
  OBVIOUS
<1>2. \A i \in 1 .. n, r \in Seq(X) : Next(i, r) \in Seq(X)
  BY <1>1
<1>3. Step \in [(1 .. n) \X Seq(X) -> Seq(X)]
  <2> HIDE DEF Next
  <2> QED
    BY <1>2
<1>4. PICK f : Recursive(f, n, Seq(X), <<>>, Step)
  <2> HIDE DEF Step, n
  <2> QED
    BY <1>1, <1>3, RecursionExists
<1>5. \A i \in 1 .. n : f[i] = Next(i, f[i - 1])
  <2> SUFFICES ASSUME NEW i \in 1 .. n PROVE f[i] = Next(i, f[i - 1])
    OBVIOUS
  <2>1. f[i - 1] \in Seq(X)
    <3> HIDE DEF Next, Step, n
    <3>1. i - 1 \in 0 .. n
      BY <1>1
    <3> QED
      BY <1>4, <3>1 DEF Recursive
  <2>2. <<i, f[i - 1]>> \in (1 .. n) \X Seq(X)
    BY <2>1
  <2> HIDE DEF Next, n
  <2> QED
    BY <1>4, <2>2 DEF Recursive
<1>6. IsRec(f)
  <2> HIDE DEF Next, n
  <2>1. \A i \in 0 .. n : f[i] = IF i = 0 THEN <<>> ELSE Next(i, f[i - 1])
    BY <1>1, <1>4, <1>5 DEF Recursive
  <2> QED
    BY <1>4, <2>1 DEF Recursive
<1>7. IsRec(upTo)
  <2> HIDE DEF IsRec
  <2> QED
    BY <1>6
<1>8. ASSUME NEW g, IsRec(g) PROVE g[0] = <<>> /\ \A i \in 1 .. n : g[i] = Next(i, g[i - 1])
  <2> HIDE DEF Next
  <2> QED
    BY <1>1, <1>8
<1>9. upTo \in [0 .. n -> Seq(X)]
  <2> DEFINE T == {i \in 0 .. n : upTo[i] \in Seq(X)}
  <2>1. 0 \in T
    <3>1. upTo[0] = <<>>
      BY <1>7, <1>8
    <3>2. 0 \in 0 .. n
      BY <1>1
    <3> HIDE DEF upTo, n
    <3> QED
      BY <1>1, <3>1, <3>2
  <2>2. ASSUME NEW i \in 1 .. n, i - 1 \in T PROVE i \in T
    <3>1. upTo[i] = Next(i, upTo[i - 1])
      BY <1>7, <1>8
    <3> HIDE DEF Next, upTo, n
    <3> QED
      BY <1>1, <1>2, <2>2, <3>1
  <2>3. 0 .. n \subseteq T
    <3> HIDE DEF T, n
    <3> QED
      BY <1>1, <2>1, <2>2, ClosedSet
  <2>4. upTo = [i \in 0 .. n |-> upTo[i]]
    <3> HIDE DEF Next, upTo
    <3> QED
      BY <1>7
  <2> HIDE DEF upTo
  <2> QED
    BY <2>3, <2>4
<1>10. Chained(s) = upTo[n]
  BY DEF Chained
<1>11. ChainedUpTo(upTo, s, X)
  <2> HIDE DEF upTo
  <2> QED
    BY <1>7, <1>8, <1>9 DEF ChainedUpTo
<1> QED
  BY <1>10, <1>11

(* Where each of them ends in the whole.                                   *)
Placed(c, s, to) ==
    /\ to \in [0 .. Len(s) -> Nat] /\ to[0] = 0 /\ Len(c) = to[Len(s)]
    /\ \A n \in 1 .. Len(s) : to[n] = to[n - 1] + Len(s[n])
    /\ \A n \in 1 .. Len(s) : \A j \in 1 .. Len(s[n]) :
          to[n - 1] + j \in 1 .. Len(c) /\ c[to[n - 1] + j] = s[n][j]
    /\ \A i \in 1 .. Len(c) : \E n \in 1 .. Len(s) : \E j \in 1 .. Len(s[n]) : i = to[n - 1] + j

LEMMA ChainedPlaces ==
    ASSUME NEW X, NEW s \in Seq(Seq(X))
    PROVE  Chained(s) \in Seq(X) /\ \E to : Placed(Chained(s), s, to)
<1> DEFINE N == Len(s)
<1>1. N \in Nat /\ \A n \in 1 .. N : s[n] \in Seq(X) /\ Len(s[n]) \in Nat
  OBVIOUS
<1>2. PICK f : ChainedUpTo(f, s, X) /\ Chained(s) = f[N]
  BY ChainedRecursion
<1> HIDE DEF N
<1>3. /\ f \in [0 .. N -> Seq(X)] /\ f[0] = <<>>
      /\ \A n \in 1 .. N : f[n] = f[n - 1] \o s[n]
  BY <1>2 DEF ChainedUpTo, N
<1>4. \A n \in 0 .. N : f[n] \in Seq(X) /\ Len(f[n]) \in Nat
  BY <1>3
<1> DEFINE to == [n \in 0 .. N |-> Len(f[n])]
<1>5. to \in [0 .. N -> Nat] /\ to[0] = 0 /\ Len(f[N]) = to[N]
  BY <1>1, <1>3, <1>4
<1>6. ASSUME NEW n \in 1 .. N
      PROVE  /\ to[n] = to[n - 1] + Len(s[n])
             /\ \A i \in 1 .. to[n - 1] : f[n][i] = f[n - 1][i]
             /\ \A j \in 1 .. Len(s[n]) : f[n][to[n - 1] + j] = s[n][j]
  <2>1. n - 1 \in 0 .. N /\ n \in 0 .. N
    BY <1>1
  <2>2. f[n] = f[n - 1] \o s[n] /\ f[n - 1] \in Seq(X) /\ s[n] \in Seq(X)
    BY <1>1, <1>3, <1>4, <2>1
  <2>3. to[n] = Len(f[n]) /\ to[n - 1] = Len(f[n - 1])
    BY <2>1
  <2> HIDE DEF to
  <2>4. PICK a \in Seq(X), b \in Seq(X) : a = f[n - 1] /\ b = s[n]
    BY <2>2
  <2>5. /\ Len(a \o b) = Len(a) + Len(b)
        /\ \A i \in 1 .. Len(a) : (a \o b)[i] = a[i]
        /\ \A j \in 1 .. Len(b) : (a \o b)[Len(a) + j] = b[j]
    OBVIOUS
  <2> QED
    BY <2>2, <2>3, <2>4, <2>5
<1> HIDE DEF to
<1> DEFINE Good(k) ==
             \A n \in 1 .. k : \A j \in 1 .. Len(s[n]) :
                to[n - 1] + j \in 1 .. to[k] /\ f[k][to[n - 1] + j] = s[n][j]
           Found(k) ==
             \A i \in 1 .. to[k] : \E n \in 1 .. k : \E j \in 1 .. Len(s[n]) : i = to[n - 1] + j
           T == {k \in 0 .. N : Good(k) /\ Found(k)}
<1>7. 0 \in T
  BY <1>1, <1>5
<1>8. ASSUME NEW k \in 1 .. N, k - 1 \in T PROVE k \in T
  <2>1. /\ to[k] = to[k - 1] + Len(s[k])
        /\ \A i \in 1 .. to[k - 1] : f[k][i] = f[k - 1][i]
        /\ \A j \in 1 .. Len(s[k]) : f[k][to[k - 1] + j] = s[k][j]
        /\ to[k - 1] \in Nat /\ to[k] \in Nat /\ Len(s[k]) \in Nat
    <3>1. k - 1 \in 0 .. N /\ k \in 0 .. N
      BY <1>1
    <3> QED
      BY <1>1, <1>5, <1>6, <3>1
  <2>2. Good(k - 1) /\ Found(k - 1)
    BY <1>8
  <2>3. Good(k)
    <3> SUFFICES ASSUME NEW n \in 1 .. k, NEW j \in 1 .. Len(s[n])
                 PROVE  to[n - 1] + j \in 1 .. to[k] /\ f[k][to[n - 1] + j] = s[n][j]
      OBVIOUS
    <3>1. CASE n = k
      BY <2>1, <3>1
    <3>2. CASE n # k
      <4>1. n \in 1 .. k - 1
        BY <3>2
      <4>2. to[n - 1] + j \in 1 .. to[k - 1] /\ f[k - 1][to[n - 1] + j] = s[n][j]
        BY <2>2, <4>1
      <4>3. PICK i : i = to[n - 1] + j
        OBVIOUS
      <4>4. i \in 1 .. to[k - 1] /\ i \in 1 .. to[k]
        BY <2>1, <4>2, <4>3
      <4> QED
        BY <2>1, <4>2, <4>3, <4>4
    <3> QED
      BY <3>1, <3>2
  <2>4. Found(k)
    <3> SUFFICES ASSUME NEW i \in 1 .. to[k]
                 PROVE  \E n \in 1 .. k : \E j \in 1 .. Len(s[n]) : i = to[n - 1] + j
      OBVIOUS
    <3>1. CASE i <= to[k - 1]
      <4>1. i \in 1 .. to[k - 1]
        BY <2>1, <3>1
      <4>2. PICK n \in 1 .. k - 1 : \E j \in 1 .. Len(s[n]) : i = to[n - 1] + j
        BY <2>2, <4>1
      <4>3. n \in 1 .. k
        OBVIOUS
      <4> QED
        BY <4>2, <4>3
    <3>2. CASE i > to[k - 1]
      <4>1. i - to[k - 1] \in 1 .. Len(s[k]) /\ i = to[k - 1] + (i - to[k - 1])
        BY <2>1, <3>2
      <4>2. k \in 1 .. k
        OBVIOUS
      <4> QED
        BY <4>1, <4>2
    <3> QED
      BY <2>1, <3>1, <3>2
  <2> HIDE DEF Good, Found
  <2> QED
    BY <1>1, <2>3, <2>4
<1>9. N \in T
  <2> HIDE DEF T
  <2>1. 0 .. N \subseteq T
    BY <1>1, <1>7, <1>8, ClosedSet
  <2> QED
    BY <1>1, <2>1
<1>10. Good(N) /\ Found(N)
  BY <1>9
<1>11. f[N] \in Seq(X) /\ Len(f[N]) = to[N]
  BY <1>1, <1>4, <1>5
<1>12. Placed(f[N], s, to)
  BY <1>5, <1>6, <1>10, <1>11 DEF Placed, N
<1> QED
  BY <1>2, <1>11, <1>12
=============================================================================

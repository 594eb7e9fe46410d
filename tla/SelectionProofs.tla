--------------------------- MODULE SelectionProofs ---------------------------
(***************************************************************************)
(* What Only returns, and the lemmas on least elements that this proof and *)
(* those about the components rest on: a recursive function is defined,    *)
(* and has the value it should have, since there is no least argument      *)
(* where it is not or has not.                                             *)
(***************************************************************************)
EXTENDS Selection, FiniteSetsExt, WellFoundedInduction, TLAPS

\* Any set of natural numbers that is not empty has a least element.
LEMMA LeastExists ==
  ASSUME NEW T, T \subseteq Nat, T # {}
  PROVE  \E i \in T : \A j \in T : i <= j
<1>1. PICK i \in T : \A j \in T : ~(<<j, i>> \in OpToRel(<, Nat))
  BY NatLessThanWellFounded, WFMin
<1>2. ASSUME NEW j \in T PROVE i <= j
  <2>1. ~(j < i)
    BY <1>1, <1>2 DEF OpToRel
  <2> QED
    BY <2>1
<1> QED
  BY <1>2

\* That element is what Min gives.
LEMMA MinIsLeast ==
  ASSUME NEW T, T \subseteq Nat, T # {}
  PROVE  Min(T) \in T /\ \A j \in T : Min(T) <= j
<1>1. \E i \in T : \A j \in T : i <= j
  BY LeastExists
<1> QED
  BY <1>1 DEF Min

-----------------------------------------------------------------------------
(* Selecting from a list.                                                   *)

\* r lists the elements of s at the positions in T, each once.
Lists(r, s, T) ==
    \E h \in [1..Len(r) -> T] :
        /\ \A j \in 1..Len(r) : r[j] = s[h[j]]
        /\ \A i \in T : \E j \in 1..Len(r) : h[j] = i
        /\ \A j, k \in 1..Len(r) : h[j] = h[k] => j = k

\* The function that Only defines, on 0..m.
Selects(only, s, T, m) ==
    only = [n \in 0..m |->
              IF n = 0 THEN << >>
              ELSE IF n \in T THEN Append(only[n - 1], s[n]) ELSE only[n - 1]]

\* That function exists: there is no least m without one.
LEMMA SelectsExists ==
  ASSUME NEW s, NEW T, NEW m \in Nat
  PROVE  \E only : Selects(only, s, T, m)
<1> DEFINE Bad == {n \in Nat : ~ \E only : Selects(only, s, T, n)}
<1> SUFFICES ASSUME Bad # {} PROVE FALSE
  OBVIOUS
<1>1. PICK n \in Bad : \A j \in Bad : n <= j
  BY LeastExists
<1>2. CASE n = 0
  <2>1. Selects([k \in 0..0 |-> << >>], s, T, 0)
    BY DEF Selects
  <2> QED
    BY <1>1, <1>2, <2>1
<1>3. CASE n # 0
  <2>1. n \in Nat /\ n - 1 \in Nat /\ n - 1 \notin Bad
    BY <1>1, <1>3
  <2>2. PICK f : Selects(f, s, T, n - 1)
    BY <2>1
  <2> DEFINE g == [k \in 0..n |->
                     IF k < n THEN f[k]
                     ELSE IF n \in T THEN Append(f[n - 1], s[n]) ELSE f[n - 1]]
  <2>3. \A k \in 0..n :
           g[k] = IF k = 0 THEN << >>
                  ELSE IF k \in T THEN Append(g[k - 1], s[k]) ELSE g[k - 1]
    <3> SUFFICES ASSUME NEW k \in 0..n
                 PROVE  g[k] = IF k = 0 THEN << >>
                               ELSE IF k \in T THEN Append(g[k - 1], s[k]) ELSE g[k - 1]
      OBVIOUS
    <3>1. CASE k < n
      <4>1. g[k] = f[k] /\ (k # 0 => g[k - 1] = f[k - 1])
        BY <2>1, <3>1
      <4>2. k \in 0..(n - 1)
        BY <2>1, <3>1
      <4> QED
        BY <2>2, <4>1, <4>2 DEF Selects
    <3>2. CASE k = n
      <4>1. g[n - 1] = f[n - 1] /\ n # 0
        BY <2>1, <1>3
      <4> QED
        BY <3>2, <4>1
    <3> QED
      BY <2>1, <3>1, <3>2
  <2>4. Selects(g, s, T, n)
    <3> HIDE DEF g
    <3>1. g = [k \in 0..n |-> g[k]]
      BY DEF g
    <3> QED
      BY <2>3, <3>1 DEF Selects
  <2> QED
    BY <1>1, <2>4
<1> QED
  BY <1>2, <1>3

\* Only returns what its name says.
LEMMA OnlyLists ==
  ASSUME NEW X, NEW s \in Seq(X), NEW T, T \subseteq DOMAIN s
  PROVE  Only(s, T) \in Seq(X) /\ Lists(Only(s, T), s, T)
<1> DEFINE N == Len(s)
<1>0. N \in Nat /\ DOMAIN s = 1..N
  OBVIOUS
<1> DEFINE f == CHOOSE only : Selects(only, s, T, N)
<1>1. Selects(f, s, T, N)
  BY <1>0, SelectsExists
<1>a. Only(s, T) = f[N]
  BY DEF Only, Selects
<1> HIDE DEF f
<1> DEFINE Good(n) == f[n] \in Seq(X) /\ Lists(f[n], s, T \cap (1..n))
<1> DEFINE Bad == {n \in 0..N : ~Good(n)}
<1>2. Bad = {}
  <2> SUFFICES ASSUME Bad # {} PROVE FALSE
    OBVIOUS
  <2>0. Bad \subseteq Nat
    BY <1>0
  <2> HIDE DEF Good
  <2>1. PICK n \in Bad : \A j \in Bad : n <= j
    BY <2>0, LeastExists
  <2>2. CASE n = 0
    <3>1. f[n] = << >>
      BY <1>0, <1>1, <2>2 DEF Selects
    <3>2. Lists(f[n], s, T \cap (1..n))
      <4>1. 1..Len(f[n]) = {} /\ T \cap (1..n) = {}
        BY <2>2, <3>1
      <4>2. [j \in {} |-> 0] \in [1..Len(f[n]) -> T \cap (1..n)]
        BY <4>1
      <4> QED
        BY <4>1, <4>2 DEF Lists
    <3>3. f[n] \in Seq(X)
      BY <3>1
    <3> QED
      BY <2>1, <3>2, <3>3 DEF Good
  <2>3. CASE n # 0
    <3>1. n \in 1..N /\ n - 1 \in 0..N /\ n - 1 \in Nat
      BY <1>0, <2>1, <2>3
    <3>a. n - 1 \notin Bad
      BY <2>1, <3>1
    <3>2. f[n - 1] \in Seq(X) /\ Lists(f[n - 1], s, T \cap (1..(n - 1)))
      BY <3>1, <3>a DEF Good
    <3>3. f[n] = IF n \in T THEN Append(f[n - 1], s[n]) ELSE f[n - 1]
      BY <1>0, <1>1, <2>3, <3>1 DEF Selects
    <3>4. CASE n \notin T
      <4>1. T \cap (1..n) = T \cap (1..(n - 1))
        BY <3>1, <3>4
      <4> QED
        BY <2>1, <3>2, <3>3, <3>4, <4>1 DEF Good
    <3>5. CASE n \in T
      <4> DEFINE r == f[n - 1]
                 U == T \cap (1..(n - 1))
                 V == T \cap (1..n)
      <4>1. PICK h \in [1..Len(r) -> U] :
               /\ \A j \in 1..Len(r) : r[j] = s[h[j]]
               /\ \A i \in U : \E j \in 1..Len(r) : h[j] = i
               /\ \A j, k \in 1..Len(r) : h[j] = h[k] => j = k
        BY <3>2 DEF Lists
      <4>2. s[n] \in X /\ r \in Seq(X) /\ V = U \cup {n} /\ n \notin U
        BY <3>1, <3>2, <3>5
      <4> HIDE DEF r, U, V
      <4> DEFINE a == Append(r, s[n])
                 g == [j \in 1..Len(a) |-> IF j = Len(a) THEN n ELSE h[j]]
      <4>3. a \in Seq(X) /\ Len(a) = Len(r) + 1 /\ Len(r) \in Nat
        BY <4>2
      <4>4. /\ a[Len(a)] = s[n] /\ g[Len(a)] = n
            /\ \A j \in 1..Len(r) : a[j] = r[j] /\ g[j] = h[j] /\ h[j] \in U
            /\ g \in [1..Len(a) -> V]
        <5>1. a[Len(a)] = s[n] /\ \A j \in 1..Len(r) : a[j] = r[j]
          BY <4>2, <4>3
        <5> HIDE DEF a
        <5>2. \A j \in 1..Len(a) : j # Len(a) => j \in 1..Len(r)
          BY <4>3
        <5>3. \A j \in 1..Len(r) : j \in 1..Len(a) /\ j # Len(a)
          BY <4>3
        <5>4. Len(a) \in 1..Len(a)
          BY <4>3
        <5>5. \A j \in 1..Len(r) : h[j] \in U
          BY <4>1
        <5>6. g[Len(a)] = n /\ \A j \in 1..Len(r) : g[j] = h[j]
          BY <5>3, <5>4
        <5>7. g \in [1..Len(a) -> V]
          BY <4>2, <5>2, <5>5
        <5> QED
          BY <5>1, <5>5, <5>6, <5>7
      <4>5. \A j \in 1..Len(a) : j = Len(a) \/ j \in 1..Len(r)
        BY <4>3
      <4> HIDE DEF a, g
      <4>6. Lists(a, s, V)
        <5>1. \A j \in 1..Len(a) : a[j] = s[g[j]]
          BY <4>1, <4>4, <4>5
        <5>2. \A i \in V : \E j \in 1..Len(a) : g[j] = i
          <6> SUFFICES ASSUME NEW i \in V PROVE \E j \in 1..Len(a) : g[j] = i
            OBVIOUS
          <6>1. CASE i = n
            BY <4>3, <4>4, <6>1
          <6>2. CASE i # n
            <7>1. PICK j \in 1..Len(r) : h[j] = i
              BY <4>1, <4>2, <6>2
            <7> QED
              BY <4>3, <4>4, <7>1
          <6> QED
            BY <6>1, <6>2
        <5>3. \A j, k \in 1..Len(a) : g[j] = g[k] => j = k
          BY <4>1, <4>2, <4>4, <4>5
        <5> QED
          BY <4>4, <5>1, <5>2, <5>3 DEF Lists
      <4>7. f[n] = a
        BY <3>3, <3>5 DEF a, r
      <4> QED
        BY <2>1, <4>3, <4>6, <4>7 DEF V, Good
    <3> QED
      BY <3>4, <3>5
  <2> QED
    BY <2>2, <2>3
<1>3. Good(N)
  <2>1. N \in 0..N
    BY <1>0
  <2> QED
    BY <1>2, <2>1
<1>4. T \cap (1..N) = T
  BY <1>0
<1> QED
  BY <1>a, <1>3, <1>4

\* The elements that Only returns are those of s at the positions in T.
LEMMA OnlyRange ==
  ASSUME NEW X, NEW s \in Seq(X), NEW T, T \subseteq DOMAIN s
  PROVE  /\ Only(s, T) \in Seq(X)
         /\ Range(Only(s, T)) = {s[i] : i \in T}
<1> DEFINE r == Only(s, T)
<1>1. r \in Seq(X) /\ Lists(r, s, T)
  BY OnlyLists
<1> HIDE DEF r
<1>2. PICK h \in [1..Len(r) -> T] :
         /\ \A j \in 1..Len(r) : r[j] = s[h[j]]
         /\ \A i \in T : \E j \in 1..Len(r) : h[j] = i
  BY <1>1 DEF Lists
<1>3. DOMAIN r = 1..Len(r)
  BY <1>1
<1>4. Range(r) = {s[i] : i \in T}
  <2>1. \A j \in 1..Len(r) : r[j] \in {s[i] : i \in T}
    BY <1>2
  <2>2. \A i \in T : s[i] \in Range(r)
    BY <1>2, <1>3 DEF Range
  <2> QED
    BY <1>3, <2>1, <2>2 DEF Range
<1> QED
  BY <1>1, <1>4 DEF r
===============================================================================

----------------------------- MODULE QueueLemmas -----------------------------
(***************************************************************************)
(* What the operations on a deque of distinct elements do to the set of    *)
(* its elements: append, popleft, remove, appendleft of a block, and the   *)
(* selection of some; with the induction over the natural numbers that the *)
(* last one rests on.  And what a sum over the values of a function is     *)
(* when an element comes, goes or moves.                                   *)
(***************************************************************************)
EXTENDS Selections, SequencesExt, FiniteSetTheorems, WellFoundedInduction, TLAPS

\* What stands where in a queue with one more element at its end.
LEMMA AppendPlaces ==
  ASSUME NEW S, NEW s \in Seq(S), NEW e \in S
  PROVE  /\ Append(s, e) \in Seq(S)
         /\ Len(s) \in Nat /\ Len(Append(s, e)) = Len(s) + 1
         /\ \A i \in 1..Len(s) : Append(s, e)[i] = s[i]
         /\ Append(s, e)[Len(s) + 1] = e
  OBVIOUS

\* popleft: what is left is a queue without the request that was popped.
LEMMA TailOfQueue ==
  ASSUME NEW S, NEW s \in Seq(S), s # <<>>
  PROVE  /\ Tail(s) \in Seq(S) /\ Head(s) \in S
         /\ Head(s) \in ToSet(s)
         /\ ToSet(Tail(s)) \subseteq ToSet(s)
         /\ ToSet(s) \subseteq ToSet(Tail(s)) \cup {Head(s)}
         /\ IsInjective(s) => /\ Head(s) \notin ToSet(Tail(s))
                              /\ IsInjective(Tail(s))
<1>1. /\ Tail(s) \in Seq(S) /\ Len(s) \in Nat /\ Len(s) # 0 /\ Head(s) = s[1]
      /\ Len(Tail(s)) = Len(s) - 1
      /\ \A i \in 1..(Len(s) - 1) : Tail(s)[i] = s[i + 1]
      /\ DOMAIN s = 1..Len(s) /\ DOMAIN Tail(s) = 1..(Len(s) - 1)
  OBVIOUS
<1>2. Head(s) \in S /\ Head(s) \in ToSet(s)
  BY <1>1 DEF ToSet
<1>3. ToSet(Tail(s)) \subseteq ToSet(s)
  BY <1>1 DEF ToSet
<1>4. ToSet(s) \subseteq ToSet(Tail(s)) \cup {Head(s)}
  <2> SUFFICES ASSUME NEW i \in 1..Len(s), i # 1
               PROVE  s[i] \in ToSet(Tail(s))
    BY <1>1 DEF ToSet
  <2>1. i - 1 \in 1..(Len(s) - 1) /\ Tail(s)[i - 1] = s[i]
    BY <1>1
  <2> QED BY <1>1, <2>1 DEF ToSet
<1>5. ASSUME IsInjective(s)
      PROVE  Head(s) \notin ToSet(Tail(s)) /\ IsInjective(Tail(s))
  BY <1>1, <1>5 DEF IsInjective, ToSet
<1> QED BY <1>1, <1>2, <1>3, <1>4, <1>5

\* append: one more element, at the end.
LEMMA AppendToQueue ==
  ASSUME NEW S, NEW s \in Seq(S), NEW e \in S
  PROVE  /\ Append(s, e) \in Seq(S)
         /\ ToSet(Append(s, e)) = ToSet(s) \cup {e}
         /\ IsInjective(s) /\ e \notin ToSet(s) => IsInjective(Append(s, e))
<1>1. /\ Append(s, e) \in Seq(S) /\ Len(s) \in Nat
      /\ DOMAIN s = 1..Len(s) /\ DOMAIN Append(s, e) = 1..(Len(s) + 1)
      /\ \A i \in 1..Len(s) : Append(s, e)[i] = s[i]
      /\ Append(s, e)[Len(s) + 1] = e
  OBVIOUS
<1>2. \A i \in 1..(Len(s) + 1) : i \in 1..Len(s) \/ i = Len(s) + 1
  BY <1>1
<1>3. ToSet(Append(s, e)) = ToSet(s) \cup {e}
  <2>1. ToSet(Append(s, e)) \subseteq ToSet(s) \cup {e}
    BY <1>1, <1>2 DEF ToSet
  <2>2. ToSet(s) \subseteq ToSet(Append(s, e))
    BY <1>1, 1..Len(s) \subseteq 1..(Len(s) + 1) DEF ToSet
  <2>3. Len(s) + 1 \in 1..(Len(s) + 1)
    BY <1>1
  <2>4. e \in ToSet(Append(s, e))
    BY <1>1, <2>3 DEF ToSet
  <2> QED BY <2>1, <2>2, <2>4
<1>4. ASSUME IsInjective(s), e \notin ToSet(s)
      PROVE  IsInjective(Append(s, e))
  BY <1>1, <1>2, <1>4 DEF IsInjective, ToSet
<1> QED BY <1>1, <1>3, <1>4

\* remove: what was behind the element at i moves up by one place.
LEMMA ElementsLeft ==
  ASSUME NEW S, NEW s \in Seq(S), NEW i \in DOMAIN s
  PROVE  /\ RemoveAt(s, i) \in Seq(S)
         /\ Len(RemoveAt(s, i)) = Len(s) - 1 /\ DOMAIN RemoveAt(s, i) = 1..(Len(s) - 1)
         /\ \A j \in 1..(Len(s) - 1) :
              RemoveAt(s, i)[j] = IF j < i THEN s[j] ELSE s[j + 1]
<1> DEFINE l == SubSeq(s, 1, i - 1)
           r == SubSeq(s, i + 1, Len(s))
           t == RemoveAt(s, i)
<1>1. /\ Len(s) \in Nat /\ DOMAIN s = 1..Len(s) /\ i \in 1..Len(s)
  OBVIOUS
<1>2. /\ l \in Seq(S) /\ Len(l) = i - 1 /\ \A j \in 1..(i - 1) : l[j] = s[j]
  BY <1>1
<1>3. /\ r \in Seq(S) /\ Len(r) = Len(s) - i
      /\ \A j \in 1..(Len(s) - i) : r[j] = s[j + i]
  BY <1>1
<1>4. t = l \o r
  BY DEF RemoveAt
<1>5. t \in Seq(S) /\ Len(t) = Len(s) - 1 /\ DOMAIN t = 1..(Len(s) - 1)
  BY <1>1, <1>2, <1>3, SMTT(30) DEF RemoveAt
<1> HIDE DEF l, r, t
<1>6. ASSUME NEW j \in 1..(Len(s) - 1) PROVE t[j] = IF j < i THEN s[j] ELSE s[j + 1]
  <2>1. CASE j < i
    BY <1>1, <1>2, <1>3, <1>4, <2>1
  <2>2. CASE j >= i
    <3>1. t[j] = r[j - (i - 1)] /\ j - (i - 1) \in 1..(Len(s) - i)
      BY <1>1, <1>2, <1>3, <1>4, <2>2, SMTT(30)
    <3>2. r[j - (i - 1)] = s[(j - (i - 1)) + i]
      BY <1>3, <3>1
    <3> QED BY <1>1, <2>2, <3>1, <3>2
  <2> QED BY <1>1, <2>1, <2>2
<1> QED BY <1>5, <1>6 DEF t

\* remove: the element at i is gone, the rest is still there once.
LEMMA RemoveFromQueue ==
  ASSUME NEW S, NEW s \in Seq(S), NEW i \in DOMAIN s
  PROVE  /\ RemoveAt(s, i) \in Seq(S)
         /\ ToSet(RemoveAt(s, i)) \subseteq ToSet(s)
         /\ ToSet(s) \subseteq ToSet(RemoveAt(s, i)) \cup {s[i]}
         /\ IsInjective(s) => IsInjective(RemoveAt(s, i))
<1> DEFINE t == RemoveAt(s, i)
<1>1. /\ Len(s) \in Nat /\ DOMAIN s = 1..Len(s) /\ i \in 1..Len(s)
  OBVIOUS
<1>2. /\ t \in Seq(S) /\ Len(t) = Len(s) - 1 /\ DOMAIN t = 1..(Len(s) - 1)
  BY ElementsLeft
<1>3. \A j \in 1..(Len(s) - 1) : t[j] = IF j < i THEN s[j] ELSE s[j + 1]
  BY ElementsLeft
<1>4. ToSet(t) \subseteq ToSet(s)
  BY <1>1, <1>2, <1>3, SMTT(30) DEF ToSet
<1>5. ToSet(s) \subseteq ToSet(t) \cup {s[i]}
  <2> SUFFICES ASSUME NEW j \in 1..Len(s), j # i
               PROVE  s[j] \in ToSet(t)
    BY <1>1 DEF ToSet
  <2>1. CASE j < i
    BY <2>1, <1>1, <1>2, <1>3, j \in 1..(Len(s) - 1) DEF ToSet
  <2>2. CASE j > i
    <3>1. j - 1 \in 1..(Len(s) - 1) /\ t[j - 1] = s[j]
      BY <2>2, <1>1, <1>3
    <3> QED BY <3>1, <1>2 DEF ToSet
  <2> QED BY <2>1, <2>2
<1>6. ASSUME IsInjective(s) PROVE IsInjective(t)
  <2> HIDE DEF t
  <2> SUFFICES ASSUME NEW j \in 1..(Len(s) - 1), NEW k \in 1..(Len(s) - 1),
                      t[j] = t[k]
               PROVE  j = k
    BY <1>2 DEF IsInjective
  <2> DEFINE at(n) == IF n < i THEN n ELSE n + 1
  <2>1. /\ at(j) \in DOMAIN s /\ at(k) \in DOMAIN s
        /\ t[j] = s[at(j)] /\ t[k] = s[at(k)]
    BY <1>1, <1>3
  <2>2. at(j) = at(k)
    <3> HIDE DEF at
    <3> QED BY <2>1, <1>6 DEF IsInjective
  <2> QED BY <2>2, <1>1
<1> QED BY <1>2, <1>4, <1>5, <1>6

\* appendleft of a whole block: nothing is lost, nothing comes twice.
LEMMA PushLeft ==
  ASSUME NEW S, NEW s \in Seq(S), NEW b \in Seq(S)
  PROVE  /\ b \o s \in Seq(S)
         /\ ToSet(b \o s) = ToSet(b) \cup ToSet(s)
         /\ IsInjective(s) /\ IsInjective(b) /\ ToSet(b) \cap ToSet(s) = {}
              => IsInjective(b \o s)
<1>1. /\ b \o s \in Seq(S) /\ Len(s) \in Nat /\ Len(b) \in Nat
      /\ DOMAIN s = 1..Len(s) /\ DOMAIN b = 1..Len(b)
      /\ DOMAIN (b \o s) = 1..(Len(b) + Len(s))
      /\ \A i \in 1..(Len(b) + Len(s)) :
           (b \o s)[i] = IF i <= Len(b) THEN b[i] ELSE s[i - Len(b)]
  OBVIOUS
<1>2. ToSet(b \o s) \subseteq ToSet(b) \cup ToSet(s)
  <2> SUFFICES ASSUME NEW i \in 1..(Len(b) + Len(s))
               PROVE  (b \o s)[i] \in ToSet(b) \cup ToSet(s)
    BY <1>1 DEF ToSet
  <2>1. CASE i <= Len(b)
    BY <2>1, <1>1, i \in 1..Len(b) DEF ToSet
  <2>2. CASE i > Len(b)
    BY <2>2, <1>1, i - Len(b) \in 1..Len(s) DEF ToSet
  <2> QED BY <2>1, <2>2, <1>1
<1>3. ToSet(b) \subseteq ToSet(b \o s)
  BY <1>1, 1..Len(b) \subseteq 1..(Len(b) + Len(s)) DEF ToSet
<1>4. ToSet(s) \subseteq ToSet(b \o s)
  <2> SUFFICES ASSUME NEW i \in 1..Len(s)
               PROVE  s[i] \in ToSet(b \o s)
    BY <1>1 DEF ToSet
  <2>1. i + Len(b) \in 1..(Len(b) + Len(s)) /\ (b \o s)[i + Len(b)] = s[i]
    BY <1>1
  <2> QED BY <2>1, <1>1 DEF ToSet
<1>5. ASSUME IsInjective(s), IsInjective(b), ToSet(b) \cap ToSet(s) = {}
      PROVE  IsInjective(b \o s)
  <2> SUFFICES ASSUME NEW i \in 1..(Len(b) + Len(s)), NEW j \in 1..(Len(b) + Len(s)),
                      (b \o s)[i] = (b \o s)[j]
               PROVE  i = j
    BY <1>1 DEF IsInjective
  <2>1. CASE i <= Len(b) /\ j <= Len(b)
    BY <2>1, <1>1, <1>5, i \in 1..Len(b), j \in 1..Len(b) DEF IsInjective
  <2>2. CASE i > Len(b) /\ j > Len(b)
    BY <2>2, <1>1, <1>5, i - Len(b) \in 1..Len(s), j - Len(b) \in 1..Len(s), SMTT(30)
    DEF IsInjective
  <2>3. CASE i <= Len(b) /\ j > Len(b)
    <3>1. /\ i \in 1..Len(b) /\ j - Len(b) \in 1..Len(s)
          /\ (b \o s)[i] = b[i] /\ (b \o s)[j] = s[j - Len(b)]
      BY <2>3, <1>1
    <3>2. b[i] \in ToSet(b) /\ s[j - Len(b)] \in ToSet(s)
      BY <3>1, <1>1 DEF ToSet
    <3> QED BY <3>1, <3>2, <1>5
  <2>4. CASE i > Len(b) /\ j <= Len(b)
    <3>1. /\ j \in 1..Len(b) /\ i - Len(b) \in 1..Len(s)
          /\ (b \o s)[j] = b[j] /\ (b \o s)[i] = s[i - Len(b)]
      BY <2>4, <1>1
    <3>2. b[j] \in ToSet(b) /\ s[i - Len(b)] \in ToSet(s)
      BY <3>1, <1>1 DEF ToSet
    <3> QED BY <3>1, <3>2, <1>5
  <2> QED BY <2>1, <2>2, <2>3, <2>4, <1>1
<1> QED BY <1>1, <1>2, <1>3, <1>4, <1>5

\* A set of natural numbers has a least one, since the intervals from 1 to its numbers are
\* finite and strict inclusion of finite sets is well founded.
LEMMA LeastNatural ==
  ASSUME NEW T \in SUBSET Nat, T # {}
  PROVE  \E m \in T : \A k \in T : m <= k
<1> DEFINE F == {1..m : m \in T}
<1>1. F \subseteq FiniteSubsetsOf(Nat) /\ F # {}
  <2>1. ASSUME NEW m \in T PROVE 1..m \in FiniteSubsetsOf(Nat)
    <3>1. IsFiniteSet(1..m) /\ 1..m \in SUBSET Nat
      BY FS_Interval
    <3> QED BY <3>1 DEF FiniteSubsetsOf
  <2> QED BY <2>1
<1>2. PICK X \in F : \A Y \in F : <<Y, X>> \notin StrictSubsetOrdering(Nat)
  BY <1>1, WFMin, FS_StrictSubsetOrderingWellFounded
<1>3. PICK m \in T : X = 1..m
  OBVIOUS
<1>4. ASSUME NEW k \in T, k < m PROVE FALSE
  <2>1. 1..k \in F /\ 1..k \subseteq X /\ 1..k # X
    BY <1>3, <1>4
  <2>2. 1..k \in SUBSET Nat /\ X \in SUBSET Nat
    BY <1>3
  <2> QED BY <1>2, <2>1, <2>2 DEF StrictSubsetOrdering
<1> QED BY <1>4

\* Induction over the natural numbers, with a set for the predicate.
LEMMA Induction ==
  ASSUME NEW H, 0 \in H, \A n \in Nat : n \in H => n + 1 \in H
  PROVE  Nat \subseteq H
<1> DEFINE T == Nat \ H
<1> SUFFICES ASSUME T # {} PROVE FALSE
  OBVIOUS
<1>1. PICK m \in T : \A k \in T : m <= k
  BY LeastNatural
<1>2. m - 1 \in Nat /\ m - 1 \notin T /\ m = (m - 1) + 1
  BY <1>1
<1> QED BY <1>2

\* What is selected, as its definition says: element after element.
LEMMA SelectedUnfolds ==
  ASSUME NEW s, Len(s) \in Nat, NEW S
  PROVE  \E f : /\ Selected(s, S) = f[Len(s)]
                /\ f = [i \in 0..Len(s) |->
                         IF i = 0 THEN <<>>
                         ELSE IF s[i] \in S THEN Append(f[i - 1], s[i]) ELSE f[i - 1]]
<1> DEFINE E(n, g) == [i \in 0..n |-> IF i = 0 THEN <<>>
                         ELSE IF s[i] \in S THEN Append(g[i - 1], s[i]) ELSE g[i - 1]]
           f == CHOOSE g : g = E(Len(s), g)
           H == {n \in Nat : \E g : g = E(n, g)}
<1>1. Selected(s, S) = f[Len(s)]
  BY DEF Selected
<1>2. 0 \in H
  <2> DEFINE g == [i \in 0..0 |-> <<>>]
  <2>1. g = E(0, g)
    OBVIOUS
  <2> QED BY <2>1
<1>3. ASSUME NEW n \in Nat, n \in H PROVE n + 1 \in H
  <2>1. PICK g : g = E(n, g)
    BY <1>3
  <2> DEFINE h == [i \in 0..(n + 1) |-> IF i <= n THEN g[i]
                     ELSE IF s[n + 1] \in S THEN Append(g[n], s[n + 1]) ELSE g[n]]
  <2>2. h = E(n + 1, h)
    <3>1. ASSUME NEW i \in 0..(n + 1)
          PROVE  h[i] = IF i = 0 THEN <<>>
                         ELSE IF s[i] \in S THEN Append(h[i - 1], s[i]) ELSE h[i - 1]
      <4>1. CASE i <= n
        <5>1. h[i] = g[i] /\ (i # 0 => h[i - 1] = g[i - 1]) /\ i \in 0..n
          BY <4>1
        <5>2. g[i] = E(n, g)[i]
          BY <2>1
        <5> HIDE DEF h
        <5> QED BY <5>1, <5>2
      <4>2. CASE i = n + 1
        BY <4>2
      <4> QED BY <4>1, <4>2
    <3> QED BY <3>1
  <2>3. \E x : x = E(n + 1, x)
    <3> HIDE DEF h, E
    <3> QED BY <2>2
  <2> QED BY <2>3, SMTT(30)
<1>4. Len(s) \in H
  <2> HIDE DEF H
  <2>1. Nat \subseteq H
    BY <1>2, <1>3, Induction
  <2> QED BY <2>1
<1>5. f = E(Len(s), f)
  BY <1>4
<1> QED BY <1>1, <1>5

\* The places p of the elements of s at which t, what is selected of the first n of them,
\* has its own: in order, and all that are in S.
PlacedBy(p, t, s, S, n) ==
  /\ p \in [1..Len(t) -> 1..n]
  /\ \A j \in 1..Len(t) : t[j] = s[p[j]] /\ s[p[j]] \in S
  /\ \A j, k \in 1..Len(t) : j < k => p[j] < p[k]
  /\ \A i \in 1..n : s[i] \in S => \E j \in 1..Len(t) : p[j] = i

\* One more element that is selected has its place at the end.
LEMMA PlacedAtEnd ==
  ASSUME NEW T, NEW s, NEW S, NEW n \in Nat, s[n + 1] \in S, s[n + 1] \in T,
         NEW u \in Seq(T), NEW p, PlacedBy(p, u, s, S, n)
  PROVE  \E q : PlacedBy(q, Append(u, s[n + 1]), s, S, n + 1)
<1> DEFINE m == Len(u)
           t == Append(u, s[n + 1])
           q == [j \in 1..(m + 1) |-> IF j = m + 1 THEN n + 1 ELSE p[j]]
<1>1. /\ m \in Nat /\ Len(t) = m + 1 /\ t[m + 1] = s[n + 1] /\ \A j \in 1..m : t[j] = u[j]
  OBVIOUS
<1>2. /\ p \in [1..m -> 1..n]
      /\ \A j \in 1..m : u[j] = s[p[j]] /\ s[p[j]] \in S
      /\ \A j, k \in 1..m : j < k => p[j] < p[k]
      /\ \A i \in 1..n : s[i] \in S => \E j \in 1..m : p[j] = i
  BY DEF PlacedBy
<1> HIDE DEF t, m
<1>3. /\ q \in [1..(m + 1) -> 1..(n + 1)] /\ q[m + 1] = n + 1
      /\ \A j \in 1..m : q[j] = p[j] /\ p[j] \in 1..n
  BY <1>1, <1>2, SMTT(30)
<1> HIDE DEF q
<1>4. \A j \in 1..(m + 1) : j \in 1..m \/ j = m + 1
  BY <1>1
<1>5. \A j \in 1..(m + 1) : t[j] = s[q[j]] /\ s[q[j]] \in S
  BY <1>1, <1>2, <1>3, <1>4
<1>6. ASSUME NEW j \in 1..(m + 1), NEW k \in 1..(m + 1), j < k PROVE q[j] < q[k]
  <2>1. j \in 1..m
    BY <1>1, <1>4, <1>6
  <2>2. CASE k \in 1..m
    BY <1>2, <1>3, <1>6, <2>1, <2>2
  <2>3. CASE k = m + 1
    BY <1>3, <2>1, <2>3
  <2> QED BY <1>4, <2>2, <2>3
<1>7. ASSUME NEW i \in 1..(n + 1), s[i] \in S PROVE \E j \in 1..(m + 1) : q[j] = i
  <2>1. CASE i = n + 1
    BY <1>1, <1>3, <2>1, m + 1 \in 1..(m + 1)
  <2>2. CASE i \in 1..n
    <3>1. PICK j \in 1..m : p[j] = i
      BY <1>2, <1>7, <2>2
    <3> QED BY <1>1, <1>3, <3>1, j \in 1..(m + 1)
  <2> QED BY <2>1, <2>2
<1>8. PlacedBy(q, t, s, S, n + 1)
  BY <1>1, <1>3, <1>5, <1>6, <1>7 DEF PlacedBy
<1> QED BY <1>8 DEF t

\* The elements that are selected, by their places.
LEMMA SelectedPlaces ==
  ASSUME NEW T, NEW s \in Seq(T), NEW S
  PROVE  /\ Selected(s, S) \in Seq(T)
         /\ \E p : PlacedBy(p, Selected(s, S), s, S, Len(s))
<1>1. Len(s) \in Nat /\ \A i \in 1..Len(s) : s[i] \in T
  OBVIOUS
<1>2. PICK f : /\ Selected(s, S) = f[Len(s)]
               /\ f = [i \in 0..Len(s) |->
                        IF i = 0 THEN <<>>
                        ELSE IF s[i] \in S THEN Append(f[i - 1], s[i]) ELSE f[i - 1]]
  BY <1>1, SelectedUnfolds
<1> DEFINE P(n) == f[n] \in Seq(T) /\ \E p : PlacedBy(p, f[n], s, S, n)
           H == {n \in Nat : n <= Len(s) => P(n)}
<1>3. P(0)
  <2>1. f[0] = <<>>
    BY <1>1, <1>2
  <2>2. PlacedBy([j \in 1..0 |-> 1], <<>>, s, S, 0)
    BY DEF PlacedBy
  <2> QED BY <2>1, <2>2
<1>4. ASSUME NEW n \in Nat, P(n), n + 1 <= Len(s) PROVE P(n + 1)
  <2>1. f[n + 1] = IF s[n + 1] \in S THEN Append(f[n], s[n + 1]) ELSE f[n]
    <3>1. (n + 1) - 1 = n /\ n + 1 # 0 /\ n + 1 \in 0..Len(s)
      BY <1>1, <1>4
    <3> HIDE DEF P
    <3>2. f[n + 1] = IF n + 1 = 0 THEN <<>> ELSE IF s[n + 1] \in S
                     THEN Append(f[(n + 1) - 1], s[n + 1]) ELSE f[(n + 1) - 1]
      BY <1>2, <3>1
    <3> QED BY <3>1, <3>2
  <2>2. f[n] \in Seq(T) /\ s[n + 1] \in T
    BY <1>1, <1>4
  <2>3. PICK p : PlacedBy(p, f[n], s, S, n)
    BY <1>4
  <2>4. CASE s[n + 1] \in S
    <3>1. \E q : PlacedBy(q, Append(f[n], s[n + 1]), s, S, n + 1)
      BY <2>2, <2>3, <2>4, PlacedAtEnd
    <3> QED BY <2>1, <2>2, <2>4, <3>1
  <2>5. CASE s[n + 1] \notin S
    <3>1. PlacedBy(p, f[n], s, S, n + 1)
      <4>1. \A i \in 1..(n + 1) : i \in 1..n \/ i = n + 1
        OBVIOUS
      <4> QED BY <2>3, <2>5, <4>1 DEF PlacedBy
    <3> QED BY <2>1, <2>2, <2>5, <3>1
  <2> QED BY <2>4, <2>5
<1>5. Nat \subseteq H
  <2> HIDE DEF P
  <2>1. 0 \in H
    BY <1>3
  <2>2. \A n \in Nat : n \in H => n + 1 \in H
    BY <1>1, <1>4
  <2> HIDE DEF H
  <2> QED BY <2>1, <2>2, Induction
<1> QED BY <1>1, <1>2, <1>5

\* The places of a queue of n elements.
LEMMA Places ==
  ASSUME NEW n \in Nat
  PROVE  IsFiniteSet(1..n) /\ Cardinality(1..n) = n
<1>1. IsFiniteSet(1..n) /\ Cardinality(1..n) = IF 1 > n THEN 0 ELSE n - 1 + 1
  BY FS_Interval
<1> QED BY <1>1

\* A filtered queue: its elements are those that are selected, each as often as before, at
\* its head is the old head if that one stays.
LEMMA SelectedQueue ==
  ASSUME NEW T, NEW s \in Seq(T), NEW S
  PROVE  /\ Selected(s, S) \in Seq(T)
         /\ ToSet(Selected(s, S)) = ToSet(s) \cap S
         /\ Len(Selected(s, S)) <= Len(s)
         /\ IsInjective(s) => IsInjective(Selected(s, S))
         /\ s # <<>> /\ s[1] \in S => /\ Selected(s, S) # <<>>
                                      /\ Selected(s, S)[1] = s[1]
<1> DEFINE t == Selected(s, S)
<1>1. t \in Seq(T)
  BY SelectedPlaces
<1>2. PICK p : PlacedBy(p, t, s, S, Len(s))
  BY SelectedPlaces
<1> HIDE DEF t
<1>3. /\ Len(s) \in Nat /\ Len(t) \in Nat /\ DOMAIN s = 1..Len(s) /\ DOMAIN t = 1..Len(t)
  BY <1>1
<1>4. /\ p \in [1..Len(t) -> 1..Len(s)]
      /\ \A j \in 1..Len(t) : t[j] = s[p[j]] /\ s[p[j]] \in S
      /\ \A j, k \in 1..Len(t) : j < k => p[j] < p[k]
      /\ \A i \in 1..Len(s) : s[i] \in S => \E j \in 1..Len(t) : p[j] = i
  BY <1>2 DEF PlacedBy
<1>5. \A j, k \in 1..Len(t) : p[j] = p[k] => j = k
  <2> SUFFICES ASSUME NEW j \in 1..Len(t), NEW k \in 1..Len(t), p[j] = p[k], j # k
               PROVE  FALSE
    OBVIOUS
  <2>1. p[j] \in 1..Len(s) /\ p[k] \in 1..Len(s) /\ (j < k \/ k < j)
    BY <1>3, <1>4
  <2> QED BY <1>3, <1>4, <2>1
<1>6. ToSet(t) = ToSet(s) \cap S
  <2>1. ASSUME NEW j \in 1..Len(t) PROVE t[j] \in ToSet(s) \cap S
    BY <1>3, <1>4 DEF ToSet
  <2>2. ASSUME NEW i \in 1..Len(s), s[i] \in S PROVE s[i] \in ToSet(t)
    BY <1>3, <1>4, <2>2 DEF ToSet
  <2> QED BY <1>3, <2>1, <2>2 DEF ToSet
<1>7. Len(t) <= Len(s)
  <2>1. p \in Injection(1..Len(t), 1..Len(s))
    BY <1>4, <1>5 DEF Injection, IsInjective
  <2>2. IsFiniteSet(1..Len(s)) /\ Cardinality(1..Len(s)) = Len(s)
        /\ Cardinality(1..Len(t)) = Len(t)
    BY <1>3, Places
  <2> QED BY <2>1, <2>2, FS_Injection
<1>8. ASSUME IsInjective(s) PROVE IsInjective(t)
  BY <1>3, <1>4, <1>5, <1>8 DEF IsInjective
<1>9. ASSUME s # <<>>, s[1] \in S PROVE t # <<>> /\ t[1] = s[1]
  <2>1. 1 \in 1..Len(s)
    BY <1>9
  <2>2. PICK j \in 1..Len(t) : p[j] = 1
    BY <1>4, <1>9, <2>1
  <2>3. 1 \in 1..Len(t) /\ p[1] \in 1..Len(s)
    BY <1>3, <1>4, <2>2
  <2>4. j = 1
    BY <1>3, <1>4, <2>2, <2>3
  <2> QED BY <1>1, <1>4, <2>2, <2>3, <2>4
<1> QED BY <1>1, <1>6, <1>7, <1>8, <1>9 DEF t

\* How many elements of a filtered queue are in X, a set of elements that stay.
LEMMA SelectedCount ==
  ASSUME NEW T, NEW s \in Seq(T), NEW S, NEW X
  PROVE  Cardinality({j \in DOMAIN Selected(s, S) : Selected(s, S)[j] \in X}) =
           Cardinality({i \in DOMAIN s : s[i] \in X \cap S})
<1> DEFINE t == Selected(s, S)
           A == {j \in DOMAIN t : t[j] \in X}
           B == {i \in DOMAIN s : s[i] \in X \cap S}
<1>1. t \in Seq(T)
  BY SelectedPlaces
<1>2. PICK p : PlacedBy(p, t, s, S, Len(s))
  BY SelectedPlaces
<1> HIDE DEF t
<1>3. /\ Len(s) \in Nat /\ Len(t) \in Nat /\ DOMAIN s = 1..Len(s) /\ DOMAIN t = 1..Len(t)
  BY <1>1
<1>4. /\ p \in [1..Len(t) -> 1..Len(s)]
      /\ \A j \in 1..Len(t) : t[j] = s[p[j]] /\ s[p[j]] \in S
      /\ \A j, k \in 1..Len(t) : j < k => p[j] < p[k]
      /\ \A i \in 1..Len(s) : s[i] \in S => \E j \in 1..Len(t) : p[j] = i
  BY <1>2 DEF PlacedBy
<1>5. \A j, k \in 1..Len(t) : p[j] = p[k] => j = k
  <2> SUFFICES ASSUME NEW j \in 1..Len(t), NEW k \in 1..Len(t), p[j] = p[k], j # k
               PROVE  FALSE
    OBVIOUS
  <2>1. p[j] \in 1..Len(s) /\ p[k] \in 1..Len(s) /\ (j < k \/ k < j)
    BY <1>3, <1>4
  <2> QED BY <1>3, <1>4, <2>1
<1> DEFINE q == [j \in A |-> p[j]]
<1>6. q \in [A -> B]
  BY <1>3, <1>4
<1>7. \A j, k \in A : q[j] = q[k] => j = k
  BY <1>3, <1>5
<1>8. \A i \in B : \E j \in A : q[j] = i
  <2> TAKE i \in B
  <2>1. PICK j \in 1..Len(t) : p[j] = i
    BY <1>3, <1>4
  <2>2. j \in A
    BY <1>3, <1>4, <2>1
  <2> QED BY <2>1, <2>2
<1> HIDE DEF q
<1>9. q \in Bijection(A, B)
  <2> HIDE DEF A, B
  <2> QED BY <1>6, <1>7, <1>8 DEF Bijection, Injection, Surjection, IsInjective
<1>10. IsFiniteSet(A)
  <2>1. A \in SUBSET (1..Len(t)) /\ IsFiniteSet(1..Len(t))
    BY <1>3, Places
  <2> HIDE DEF A
  <2> QED BY <2>1, FS_Subset
<1>11. Cardinality(B) = Cardinality(A)
  <2> HIDE DEF A, B
  <2> QED BY <1>9, <1>10, FS_Bijection DEF ExistsBijection
<1> QED BY <1>11 DEF t

\* A prefix, place by place.
LEMMA PrefixPlaces ==
  ASSUME NEW S, NEW s \in Seq(S), NEW t \in Seq(S)
  PROVE  /\ IsPrefix(s, t) <=> Len(s) <= Len(t) /\ \A i \in 1..Len(s) : s[i] = t[i]
         /\ IsPrefix(s, t) <=> Len(s) <= Len(t) /\ s = SubSeq(t, 1, Len(s))
<1>1. /\ Len(s) \in Nat /\ Len(t) \in Nat /\ SubSeq(s, 1, Len(s)) = s
  OBVIOUS
<1>2. ASSUME Len(s) <= Len(t)
      PROVE  /\ Len(SubSeq(t, 1, Len(s))) = Len(s) /\ SubSeq(t, 1, Len(s)) \in Seq(S)
             /\ \A i \in 1..Len(s) : SubSeq(t, 1, Len(s))[i] = t[i]
  BY <1>1, <1>2
<1>3. ASSUME Len(s) <= Len(t), \A i \in 1..Len(s) : s[i] = t[i]
      PROVE  s = SubSeq(t, 1, Len(s))
  <2> DEFINE u == SubSeq(t, 1, Len(s))
  <2>1. u \in Seq(S) /\ Len(u) = Len(s) /\ \A i \in 1..Len(s) : s[i] = u[i]
    BY <1>2, <1>3
  <2> HIDE DEF u
  <2>2. s \in [1..Len(s) -> S] /\ u \in [1..Len(s) -> S]
    BY <2>1
  <2>3. s = u
    BY <2>1, <2>2
  <2> QED BY <2>3 DEF u
<1>4. ASSUME Len(s) <= Len(t), s = SubSeq(t, 1, Len(s))
      PROVE  \A i \in 1..Len(s) : s[i] = t[i]
  BY <1>2, <1>4
<1> QED BY <1>1, <1>3, <1>4 DEF IsPrefix

\* A queue without duplicates is as long as there are elements in it.
LEMMA QueueLength ==
  ASSUME NEW S, NEW s \in Seq(S), IsInjective(s)
  PROVE  IsFiniteSet(ToSet(s)) /\ Cardinality(ToSet(s)) = Len(s)
<1>1. Len(s) \in Nat /\ DOMAIN s = 1..Len(s)
  OBVIOUS
<1>2. IsFiniteSet(1..Len(s)) /\ Cardinality(1..Len(s)) = Len(s)
  BY <1>1, Places
<1>3. s \in Bijection(1..Len(s), ToSet(s))
  <2>1. s \in [1..Len(s) -> ToSet(s)]
    BY <1>1 DEF ToSet
  <2>2. \A a, b \in 1..Len(s) : s[a] = s[b] => a = b
    BY <1>1 DEF IsInjective
  <2>3. \A y \in ToSet(s) : \E x \in 1..Len(s) : s[x] = y
    BY <1>1 DEF ToSet
  <2> QED BY <2>1, <2>2, <2>3 DEF Bijection, Injection, Surjection
<1>4. ExistsBijection(1..Len(s), ToSet(s))
  BY <1>3 DEF ExistsBijection
<1> QED BY <1>2, <1>4, FS_Bijection

MovedIn(s, k) == Append(Selected(s, ToSet(s) \ {k}), k)

\* An element is moved to the end of the queue, or put there.
LEMMA MovedToEnd ==
  ASSUME NEW S, NEW s \in Seq(S), IsInjective(s), NEW k \in S
  PROVE  /\ MovedIn(s, k) \in Seq(S) /\ IsInjective(MovedIn(s, k))
         /\ ToSet(MovedIn(s, k)) = ToSet(s) \cup {k}
         /\ Len(MovedIn(s, k)) \in Nat /\ Len(MovedIn(s, k)) <= Len(s) + 1 /\ Len(MovedIn(s, k)) # 0
         /\ k \in ToSet(s) => Len(MovedIn(s, k)) = Len(s)
<1> DEFINE u == Selected(s, ToSet(s) \ {k})
           t == Append(u, k)
<1>1. /\ u \in Seq(S) /\ ToSet(u) = ToSet(s) \ {k} /\ IsInjective(u) /\ Len(u) <= Len(s)
  BY SelectedQueue
<1>2. /\ t \in Seq(S) /\ ToSet(t) = ToSet(u) \cup {k} /\ IsInjective(t) /\ Len(t) = Len(u) + 1
  <2> HIDE DEF u
  <2>1. k \notin ToSet(u)
    BY <1>1
  <2>2. t \in Seq(S) /\ ToSet(t) = ToSet(u) \cup {k} /\ IsInjective(t)
    BY <1>1, <2>1, AppendToQueue
  <2>3. Len(t) = Len(u) + 1
    BY <1>1
  <2> QED BY <2>2, <2>3
<1> HIDE DEF u, t
<1>3. Len(u) \in Nat /\ Len(s) \in Nat
  BY <1>1
<1>4. ASSUME k \in ToSet(s) PROVE Len(t) = Len(s)
  <2>1. ToSet(t) = ToSet(s)
    BY <1>1, <1>2, <1>4
  <2>2. Cardinality(ToSet(t)) = Len(t) /\ Cardinality(ToSet(s)) = Len(s)
    BY <1>2, QueueLength
  <2> QED BY <2>1, <2>2
<1>5. ToSet(t) = ToSet(s) \cup {k}
  BY <1>1, <1>2
<1>6. Len(t) \in Nat /\ Len(t) <= Len(s) + 1 /\ Len(t) # 0
  BY <1>1, <1>2, <1>3
<1>7. MovedIn(s, k) = t
  BY DEF MovedIn, t, u
<1> QED BY <1>2, <1>4, <1>5, <1>6, <1>7

\* A queue of the elements that are in it.
LEMMA OwnElements ==
  ASSUME NEW S, NEW s \in Seq(S)
  PROVE  s \in Seq(ToSet(s))
<1>1. DOMAIN s = 1..Len(s) /\ Len(s) \in Nat
  OBVIOUS
<1>2. \A i \in 1..Len(s) : s[i] \in ToSet(s)
  BY <1>1 DEF ToSet
<1> QED BY <1>1, <1>2

\* An element comes to the end of a queue, of whatever its elements are.
LEMMA QueueReordered ==
  ASSUME NEW S, NEW s \in Seq(S), IsInjective(s), NEW k
  PROVE  /\ MovedIn(s, k) \in Seq(ToSet(MovedIn(s, k))) /\ IsInjective(MovedIn(s, k))
         /\ ToSet(MovedIn(s, k)) = ToSet(s) \cup {k}
         /\ Len(MovedIn(s, k)) \in Nat /\ Len(MovedIn(s, k)) <= Len(s) + 1 /\ Len(s) \in Nat
         /\ k \in ToSet(s) => Len(MovedIn(s, k)) = Len(s)
<1> DEFINE T == S \cup {k}
<1>1. s \in Seq(T)
  <2>1. DOMAIN s = 1..Len(s) /\ Len(s) \in Nat /\ \A i \in 1..Len(s) : s[i] \in S
    OBVIOUS
  <2> QED BY <2>1
<1>2. k \in T
  OBVIOUS
<1>3. Len(s) \in Nat
  OBVIOUS
<1> HIDE DEF T
<1>4. ASSUME NEW q \in Seq(T), IsInjective(q)
      PROVE  /\ MovedIn(q, k) \in Seq(T) /\ IsInjective(MovedIn(q, k))
             /\ ToSet(MovedIn(q, k)) = ToSet(q) \cup {k}
             /\ Len(MovedIn(q, k)) \in Nat /\ Len(MovedIn(q, k)) <= Len(q) + 1
             /\ k \in ToSet(q) => Len(MovedIn(q, k)) = Len(q)
  <2>1. MovedIn(q, k) \in Seq(T)
    BY <1>2, <1>4, MovedToEnd
  <2>2. IsInjective(MovedIn(q, k))
    BY <1>2, <1>4, MovedToEnd
  <2>3. ToSet(MovedIn(q, k)) = ToSet(q) \cup {k}
    BY <1>2, <1>4, MovedToEnd
  <2>4. Len(MovedIn(q, k)) \in Nat /\ Len(MovedIn(q, k)) <= Len(q) + 1
    BY <1>2, <1>4, MovedToEnd
  <2>5. k \in ToSet(q) => Len(MovedIn(q, k)) = Len(q)
    BY <1>2, <1>4, MovedToEnd
  <2> QED BY <2>1, <2>2, <2>3, <2>4, <2>5
<1> QED BY <1>1, <1>3, <1>4, OwnElements

--------------------------------------------------------------------------------
(* Sums over a finite set, as the recursion of MapThenFoldSet makes them.     *)

\* What one more application of the recursion behind a sum needs.
SumStep(f, it, s) ==
  IF s = {} THEN 0 ELSE f[CHOOSE x \in s : TRUE] + it[s \ {CHOOSE x \in s : TRUE}]

\* A set loses one of its elements.
LEMMA OneLess ==
  ASSUME NEW s, IsFiniteSet(s), NEW x \in s
  PROVE  /\ IsFiniteSet(s \ {x}) /\ Cardinality(s \ {x}) = Cardinality(s) - 1
         /\ Cardinality(s) \in Nat /\ Cardinality(s) # 0
<1>1. Cardinality(s) \in Nat /\ (Cardinality(s) = 0 <=> s = {})
  BY FS_CardinalityType, FS_EmptySet
<1>2. IsFiniteSet(s \ {x}) /\ Cardinality(s \ {x}) = IF x \in s THEN Cardinality(s) - 1 ELSE Cardinality(s)
  BY FS_RemoveElement
<1> QED BY <1>1, <1>2

\* The recursion behind a sum over a finite set has a solution.
LEMMA SumUnfolds ==
  ASSUME NEW f, NEW S, IsFiniteSet(S)
  PROVE  \E it : /\ SumFunctionOnSet(f, S) = it[S]
                 /\ it = [s \in SUBSET S |-> SumStep(f, it, s)]
<1> DEFINE E(g) == [s \in SUBSET S |-> SumStep(f, g, s)]
           it == CHOOSE g : g = E(g)
           c(s) == CHOOSE x \in s : TRUE
           H == {n \in Nat : \E g : \A s \in SUBSET S : Cardinality(s) <= n => g[s] = SumStep(f, g, s)}
<1>1. SumFunctionOnSet(f, S) = it[S]
  BY DEF SumFunctionOnSet, FoldFunctionOnSet, MapThenFoldSet, SumStep
<1>2. \A s \in SUBSET S : IsFiniteSet(s) /\ Cardinality(s) \in Nat
  BY FS_Subset, FS_CardinalityType
<1>3. 0 \in H
  <2> DEFINE g == [s \in SUBSET S |-> 0]
  <2>1. ASSUME NEW s \in SUBSET S, Cardinality(s) <= 0 PROVE g[s] = SumStep(f, g, s)
    <3>1. s = {}
      BY <1>2, <2>1, FS_EmptySet
    <3> QED BY <3>1 DEF SumStep
  <2>2. \A s \in SUBSET S : Cardinality(s) <= 0 => g[s] = SumStep(f, g, s)
    BY <2>1
  <2> HIDE DEF g
  <2> QED BY <2>2
<1>4. ASSUME NEW n \in Nat, n \in H PROVE n + 1 \in H
  <2>1. PICK g : \A s \in SUBSET S : Cardinality(s) <= n => g[s] = SumStep(f, g, s)
    BY <1>4
  <2> DEFINE h == [s \in SUBSET S |-> IF Cardinality(s) <= n THEN g[s] ELSE SumStep(f, g, s)]
  <2>2. ASSUME NEW s \in SUBSET S, Cardinality(s) <= n + 1 PROVE h[s] = SumStep(f, h, s)
    <3>1. h[s] = SumStep(f, g, s)
      BY <2>1
    <3>2. CASE s = {}
      BY <3>1, <3>2 DEF SumStep
    <3>3. CASE s # {}
      <4>1. c(s) \in s /\ s \ {c(s)} \in SUBSET S
        BY <3>3
      <4>2. Cardinality(s \ {c(s)}) <= n
        <5>1. IsFiniteSet(s) /\ Cardinality(s) \in Nat
          BY <1>2
        <5>2. Cardinality(s \ {c(s)}) = Cardinality(s) - 1
          BY <4>1, <5>1, OneLess
        <5> QED BY <2>2, <5>1, <5>2
      <4>3. h[s \ {c(s)}] = g[s \ {c(s)}]
        BY <4>1, <4>2
      <4> HIDE DEF h
      <4> QED BY <3>1, <3>3, <4>3 DEF SumStep
    <3> QED BY <3>2, <3>3
  <2>3. \A s \in SUBSET S : Cardinality(s) <= n + 1 => h[s] = SumStep(f, h, s)
    BY <2>2
  <2> HIDE DEF h
  <2> QED BY <2>3
<1>5. Cardinality(S) \in H
  <2> HIDE DEF H
  <2>1. Nat \subseteq H
    BY <1>3, <1>4, Induction
  <2> QED BY <1>2, <2>1
<1>6. PICK g : \A s \in SUBSET S : g[s] = SumStep(f, g, s)
  <2>1. \A s \in SUBSET S : Cardinality(s) <= Cardinality(S)
    BY FS_Subset
  <2> QED BY <1>5, <2>1
<1>7. E(g) = E(E(g))
  <2>1. ASSUME NEW s \in SUBSET S PROVE SumStep(f, g, s) = SumStep(f, E(g), s)
    <3>1. CASE s = {}
      BY <3>1 DEF SumStep
    <3>2. CASE s # {}
      <4>1. s \ {c(s)} \in SUBSET S
        OBVIOUS
      <4>2. E(g)[s \ {c(s)}] = g[s \ {c(s)}]
        BY <1>6, <4>1
      <4> HIDE DEF E
      <4> QED BY <3>2, <4>2 DEF SumStep
    <3> QED BY <3>1, <3>2
  <2> QED BY <2>1
<1>8. it = E(it)
  <2>1. \E x : x = E(x)
    <3> HIDE DEF E
    <3> QED BY <1>7
  <2> HIDE DEF E
  <2> QED BY <2>1
<1>9. SumFunctionOnSet(f, S) = it[S] /\ it = [s \in SUBSET S |-> SumStep(f, it, s)]
  BY <1>1, <1>8
<1> HIDE DEF it
<1> QED BY <1>9
\* The first element that the recursion takes.
LEMMA SumFirst ==
  ASSUME NEW f, NEW S, IsFiniteSet(S)
  PROVE  /\ SumFunctionOnSet(f, {}) = 0
         /\ S # {} => SumFunctionOnSet(f, S) = f[CHOOSE x \in S : TRUE] + SumFunctionOnSet(f, S \ {CHOOSE x \in S : TRUE})
<1> DEFINE c(s) == CHOOSE x \in s : TRUE
           Solves(g, s) == \A t \in SUBSET s : g[t] = SumStep(f, g, t)
           H == {n \in Nat : \A s \in SUBSET S : \A g, h :
                  Cardinality(s) = n /\ Solves(g, s) /\ Solves(h, s) => g[s] = h[s]}
<1>1. \A s \in SUBSET S : IsFiniteSet(s) /\ Cardinality(s) \in Nat
  BY FS_Subset, FS_CardinalityType
<1>2. \A s \in SUBSET S : \E g : SumFunctionOnSet(f, s) = g[s] /\ Solves(g, s)
  <2> SUFFICES ASSUME NEW s \in SUBSET S PROVE \E g : SumFunctionOnSet(f, s) = g[s] /\ Solves(g, s)
    OBVIOUS
  <2>1. PICK it : SumFunctionOnSet(f, s) = it[s] /\ it = [t \in SUBSET s |-> SumStep(f, it, t)]
    BY <1>1, SumUnfolds
  <2>2. \A t \in SUBSET s : it[t] = SumStep(f, it, t)
    BY <2>1
  <2> QED BY <2>1, <2>2
<1>3. 0 \in H
  <2> SUFFICES ASSUME NEW s \in SUBSET S, NEW g, NEW h, Cardinality(s) = 0, Solves(g, s), Solves(h, s)
               PROVE  g[s] = h[s]
    OBVIOUS
  <2>1. s = {}
    BY <1>1, FS_EmptySet
  <2> QED BY <2>1 DEF SumStep
<1>4. ASSUME NEW n \in Nat, n \in H PROVE n + 1 \in H
  <2> SUFFICES ASSUME NEW s \in SUBSET S, NEW g, NEW h, Cardinality(s) = n + 1, Solves(g, s), Solves(h, s)
               PROVE  g[s] = h[s]
    OBVIOUS
  <2>1. s # {} /\ c(s) \in s
    <3>1. s # {}
      BY <1>1, FS_EmptySet
    <3> QED BY <3>1
  <2>2. /\ s \ {c(s)} \in SUBSET S /\ Cardinality(s \ {c(s)}) = n
        /\ SUBSET (s \ {c(s)}) \subseteq SUBSET s
    <3>1. IsFiniteSet(s) /\ Cardinality(s) = n + 1
      BY <1>1
    <3>2. Cardinality(s \ {c(s)}) = Cardinality(s) - 1
      BY <2>1, <3>1, OneLess
    <3> QED BY <3>1, <3>2
  <2>3. Solves(g, s \ {c(s)}) /\ Solves(h, s \ {c(s)})
    BY <2>2
  <2>4. g[s \ {c(s)}] = h[s \ {c(s)}]
    <3> HIDE DEF Solves, c
    <3> QED BY <1>4, <2>2, <2>3
  <2>5. g[s] = SumStep(f, g, s) /\ h[s] = SumStep(f, h, s)
    OBVIOUS
  <2> QED BY <2>1, <2>4, <2>5 DEF SumStep
<1>5. Nat \subseteq H
  <2> HIDE DEF H
  <2> QED BY <1>3, <1>4, Induction
<1>6. \A s \in SUBSET S : \A g, h : Solves(g, s) /\ Solves(h, s) => g[s] = h[s]
  BY <1>1, <1>5
<1>7. SumFunctionOnSet(f, {}) = 0
  <2>1. PICK g : SumFunctionOnSet(f, {}) = g[{}] /\ Solves(g, {})
    BY <1>2
  <2> QED BY <2>1 DEF SumStep
<1>8. ASSUME S # {} PROVE SumFunctionOnSet(f, S) = f[c(S)] + SumFunctionOnSet(f, S \ {c(S)})
  <2>1. c(S) \in S /\ S \ {c(S)} \in SUBSET S /\ SUBSET (S \ {c(S)}) \subseteq SUBSET S
    BY <1>8
  <2>2. PICK g : SumFunctionOnSet(f, S) = g[S] /\ Solves(g, S)
    BY <1>2
  <2>3. PICK h : SumFunctionOnSet(f, S \ {c(S)}) = h[S \ {c(S)}] /\ Solves(h, S \ {c(S)})
    BY <1>2, <2>1
  <2>4. Solves(g, S \ {c(S)})
    BY <2>1, <2>2
  <2>5. g[S \ {c(S)}] = h[S \ {c(S)}]
    <3> HIDE DEF Solves, c
    <3> QED BY <1>6, <2>1, <2>3, <2>4
  <2>6. g[S] = SumStep(f, g, S)
    BY <2>2
  <2> QED BY <1>8, <2>2, <2>3, <2>5, <2>6 DEF SumStep
<1> QED BY <1>7, <1>8

\* A sum of integers, and what any element adds to it.
LEMMA SumTaken ==
  ASSUME NEW f, NEW S, IsFiniteSet(S), \A x \in S : f[x] \in Int
  PROVE  /\ SumFunctionOnSet(f, {}) = 0 /\ SumFunctionOnSet(f, S) \in Int
         /\ \A x \in S : /\ SumFunctionOnSet(f, S \ {x}) \in Int
                         /\ SumFunctionOnSet(f, S) = f[x] + SumFunctionOnSet(f, S \ {x})
<1> DEFINE T(s) == SumFunctionOnSet(f, s)
           c(s) == CHOOSE x \in s : TRUE
           Adds(s) == T(s) \in Int /\ \A x \in s : T(s \ {x}) \in Int /\ T(s) = f[x] + T(s \ {x})
           H == {n \in Nat : \A s \in SUBSET S : Cardinality(s) = n => Adds(s)}
<1>1. \A s \in SUBSET S : IsFiniteSet(s) /\ Cardinality(s) \in Nat
  BY FS_Subset, FS_CardinalityType
<1>2. T({}) = 0 /\ \A s \in SUBSET S : s # {} => T(s) = f[c(s)] + T(s \ {c(s)})
  BY <1>1, SumFirst
<1>3. 0 \in H
  <2> SUFFICES ASSUME NEW s \in SUBSET S, Cardinality(s) = 0 PROVE Adds(s)
    OBVIOUS
  <2>1. s = {}
    BY <1>1, FS_EmptySet
  <2> HIDE DEF T
  <2> QED BY <1>2, <2>1
<1>4. ASSUME NEW n \in Nat, n \in H PROVE n + 1 \in H
  <2> SUFFICES ASSUME NEW s \in SUBSET S, Cardinality(s) = n + 1 PROVE Adds(s)
    OBVIOUS
  <2>1. s # {} /\ c(s) \in s
    <3>1. s # {}
      BY <1>1, FS_EmptySet
    <3> QED BY <3>1
  <2>2. \A x \in s : s \ {x} \in SUBSET S /\ Adds(s \ {x}) /\ f[x] \in Int
    <3> SUFFICES ASSUME NEW x \in s PROVE Adds(s \ {x})
      OBVIOUS
    <3>1. IsFiniteSet(s) /\ Cardinality(s) = n + 1
      BY <1>1
    <3>2. Cardinality(s \ {x}) = Cardinality(s) - 1
      BY <3>1, OneLess
    <3>3. Cardinality(s \ {x}) = n
      BY <3>1, <3>2
    <3> HIDE DEF Adds
    <3> QED BY <1>4, <3>3
  <2>3. \A x \in s : T(s \ {x}) \in Int
    BY <2>2
  <2>4. T(s) = f[c(s)] + T(s \ {c(s)}) /\ T(s) \in Int
    <3> HIDE DEF T, c
    <3> QED BY <1>2, <2>1, <2>2, <2>3
  <2>5. ASSUME NEW x \in s, x # c(s) PROVE T(s) = f[x] + T(s \ {x})
    <3>1. x \in s \ {c(s)} /\ c(s) \in s \ {x} /\ (s \ {c(s)}) \ {x} = (s \ {x}) \ {c(s)}
      BY <2>1, <2>5
    <3>2. /\ T(s \ {c(s)}) = f[x] + T((s \ {c(s)}) \ {x}) /\ T((s \ {c(s)}) \ {x}) \in Int
          /\ T(s \ {x}) = f[c(s)] + T((s \ {x}) \ {c(s)})
      BY <2>1, <2>2, <3>1
    <3>3. f[x] \in Int /\ f[c(s)] \in Int
      BY <2>1, <2>2
    <3>4. T((s \ {c(s)}) \ {x}) = T((s \ {x}) \ {c(s)})
      BY <3>1
    <3>5. /\ T(s) = f[c(s)] + T(s \ {c(s)}) /\ T(s \ {c(s)}) = f[x] + T((s \ {x}) \ {c(s)})
          /\ T(s \ {x}) = f[c(s)] + T((s \ {x}) \ {c(s)}) /\ T((s \ {x}) \ {c(s)}) \in Int
      BY <2>4, <3>2, <3>4
    <3> HIDE DEF T, c
    <3> QED BY <3>3, <3>5
  <2> HIDE DEF T, c
  <2> QED BY <2>3, <2>4, <2>5
<1>5. Nat \subseteq H
  <2> HIDE DEF H
  <2> QED BY <1>3, <1>4, Induction
<1>6. Adds(S)
  <2> HIDE DEF Adds
  <2> QED BY <1>1, <1>5
<1> QED BY <1>2, <1>6
\* A sum depends on the values at its indices only.
LEMMA SumAgrees ==
  ASSUME NEW f, NEW g, NEW S, IsFiniteSet(S), \A x \in S : f[x] \in Int /\ f[x] = g[x]
  PROVE  SumFunctionOnSet(f, S) = SumFunctionOnSet(g, S)
<1> DEFINE H == {n \in Nat : \A s \in SUBSET S : Cardinality(s) = n => SumFunctionOnSet(f, s) = SumFunctionOnSet(g, s)}
<1>1. \A s \in SUBSET S : IsFiniteSet(s) /\ Cardinality(s) \in Nat
  BY FS_Subset, FS_CardinalityType
<1>2. 0 \in H
  <2> SUFFICES ASSUME NEW s \in SUBSET S, Cardinality(s) = 0
               PROVE  SumFunctionOnSet(f, s) = SumFunctionOnSet(g, s)
    OBVIOUS
  <2>1. s = {} /\ IsFiniteSet(s)
    BY <1>1, FS_EmptySet
  <2> QED BY <2>1, SumFirst
<1>3. ASSUME NEW n \in Nat, n \in H PROVE n + 1 \in H
  <2> SUFFICES ASSUME NEW s \in SUBSET S, Cardinality(s) = n + 1
               PROVE  SumFunctionOnSet(f, s) = SumFunctionOnSet(g, s)
    OBVIOUS
  <2>1. PICK x : x \in s
    <3>1. s # {}
      BY <1>1, FS_EmptySet
    <3> QED BY <3>1
  <2>2. IsFiniteSet(s) /\ \A y \in s : f[y] \in Int /\ g[y] \in Int
    BY <1>1
  <2>3. Cardinality(s \ {x}) = Cardinality(s) - 1
    BY <2>1, <2>2, OneLess
  <2>4. SumFunctionOnSet(f, s \ {x}) = SumFunctionOnSet(g, s \ {x})
    BY <1>3, <2>3
  <2>5. SumFunctionOnSet(f, s) = f[x] + SumFunctionOnSet(f, s \ {x})
    BY <2>1, <2>2, SumTaken
  <2>6. SumFunctionOnSet(g, s) = g[x] + SumFunctionOnSet(g, s \ {x})
    BY <2>1, <2>2, SumTaken
  <2> QED BY <2>1, <2>4, <2>5, <2>6
<1>4. Nat \subseteq H
  <2> HIDE DEF H
  <2> QED BY <1>2, <1>3, Induction
<1> QED BY <1>1, <1>4

\* What is at the places of A.
AreAt(p, A) == {p[x] : x \in A}

\* A sum over places is the sum over what is at them, when nothing is at two of them.
LEMMA SumMoved ==
  ASSUME NEW A, IsFiniteSet(A), NEW p, NEW f, NEW g,
         \A x, y \in A : p[x] = p[y] => x = y,
         \A x \in A : f[x] \in Int /\ f[x] = g[p[x]]
  PROVE  SumFunctionOnSet(f, A) = SumFunctionOnSet(g, AreAt(p, A))
<1> DEFINE At(s) == {p[x] : x \in s}
           H == {n \in Nat : \A s \in SUBSET A : Cardinality(s) = n =>
                               IsFiniteSet(At(s)) /\ SumFunctionOnSet(f, s) = SumFunctionOnSet(g, At(s))}
<1>1. \A s \in SUBSET A : IsFiniteSet(s) /\ Cardinality(s) \in Nat
  BY FS_Subset, FS_CardinalityType
<1>2. 0 \in H
  <2> SUFFICES ASSUME NEW s \in SUBSET A, Cardinality(s) = 0
               PROVE  IsFiniteSet(At(s)) /\ SumFunctionOnSet(f, s) = SumFunctionOnSet(g, At(s))
    OBVIOUS
  <2>1. s = {} /\ At(s) = {} /\ IsFiniteSet({})
    BY <1>1, FS_EmptySet
  <2>2. SumFunctionOnSet(f, {}) = 0 /\ SumFunctionOnSet(g, {}) = 0
    BY <2>1, SumFirst
  <2> QED BY <2>1, <2>2
<1>3. ASSUME NEW n \in Nat, n \in H PROVE n + 1 \in H
  <2> SUFFICES ASSUME NEW s \in SUBSET A, Cardinality(s) = n + 1
               PROVE  IsFiniteSet(At(s)) /\ SumFunctionOnSet(f, s) = SumFunctionOnSet(g, At(s))
    OBVIOUS
  <2>1. PICK x : x \in s
    <3>1. s # {}
      BY <1>1, FS_EmptySet
    <3> QED BY <3>1
  <2>2. IsFiniteSet(s) /\ \A y \in s : f[y] \in Int
    BY <1>1
  <2>3. Cardinality(s \ {x}) = Cardinality(s) - 1
    BY <2>1, <2>2, OneLess
  <2>4. IsFiniteSet(At(s \ {x})) /\ SumFunctionOnSet(f, s \ {x}) = SumFunctionOnSet(g, At(s \ {x}))
    <3> HIDE DEF At
    <3> QED BY <1>3, <2>3
  <2>5. At(s) = At(s \ {x}) \cup {p[x]} /\ p[x] \in At(s) /\ At(s \ {x}) = At(s) \ {p[x]}
    BY <2>1
  <2>6. IsFiniteSet(At(s))
    <3> HIDE DEF At
    <3>1. IsFiniteSet(At(s \ {x}) \cup {p[x]})
      BY <2>4, FS_AddElement
    <3> QED BY <2>5, <3>1
  <2>7. SumFunctionOnSet(f, s) = f[x] + SumFunctionOnSet(f, s \ {x})
    BY <2>1, <2>2, SumTaken
  <2>8. SumFunctionOnSet(g, At(s)) = g[p[x]] + SumFunctionOnSet(g, At(s) \ {p[x]})
    <3>1. \A y \in At(s) : g[y] \in Int
      BY <2>2
    <3>2. p[x] \in At(s)
      BY <2>1
    <3> DEFINE C == At(s)
               c == p[x]
    <3>3. c \in C /\ IsFiniteSet(C) /\ \A y \in C : g[y] \in Int
      BY <2>6, <3>1, <3>2
    <3> HIDE DEF C, c
    <3>4. SumFunctionOnSet(g, C) = g[c] + SumFunctionOnSet(g, C \ {c})
      BY <3>3, SumTaken
    <3> QED BY <3>4 DEF C, c
  <2> HIDE DEF At
  <2> QED BY <2>1, <2>4, <2>5, <2>6, <2>7, <2>8
<1>4. Nat \subseteq H
  <2> HIDE DEF H
  <2> QED BY <1>2, <1>3, Induction
<1>5. SumFunctionOnSet(f, A) = SumFunctionOnSet(g, At(A))
  <2> HIDE DEF At
  <2> QED BY <1>1, <1>4
<1>6. AreAt(p, A) = At(A)
  BY DEF AreAt
<1> HIDE DEF At
<1> QED BY <1>5, <1>6

\* Costs are not negative: more of them are not less.
LEMMA SumGrows ==
  ASSUME NEW f, NEW S, IsFiniteSet(S), \A x \in S : f[x] \in Nat, NEW T \in SUBSET S
  PROVE  /\ SumFunctionOnSet(f, T) \in Nat /\ SumFunctionOnSet(f, S) \in Nat
         /\ SumFunctionOnSet(f, T) <= SumFunctionOnSet(f, S)
<1> DEFINE H == {n \in Nat : \A s \in SUBSET S : Cardinality(s) = n =>
                    /\ SumFunctionOnSet(f, s) \in Nat
                    /\ \A t \in SUBSET s : SumFunctionOnSet(f, t) <= SumFunctionOnSet(f, s)}
<1>1. \A s \in SUBSET S : IsFiniteSet(s) /\ Cardinality(s) \in Nat
  BY FS_Subset, FS_CardinalityType
<1>2. 0 \in H
  <2> SUFFICES ASSUME NEW s \in SUBSET S, Cardinality(s) = 0
               PROVE  /\ SumFunctionOnSet(f, s) \in Nat
                      /\ \A t \in SUBSET s : SumFunctionOnSet(f, t) <= SumFunctionOnSet(f, s)
    OBVIOUS
  <2>1. s = {} /\ IsFiniteSet({})
    BY <1>1, FS_EmptySet
  <2>2. SumFunctionOnSet(f, {}) = 0
    BY <2>1, SumFirst
  <2> QED BY <2>1, <2>2
<1>3. ASSUME NEW n \in Nat, n \in H PROVE n + 1 \in H
  <2> SUFFICES ASSUME NEW s \in SUBSET S, Cardinality(s) = n + 1
               PROVE  /\ SumFunctionOnSet(f, s) \in Nat
                      /\ \A t \in SUBSET s : SumFunctionOnSet(f, t) <= SumFunctionOnSet(f, s)
    OBVIOUS
  <2>1. IsFiniteSet(s) /\ \A y \in s : f[y] \in Int
    BY <1>1
  <2>2. ASSUME NEW x \in s
        PROVE  /\ SumFunctionOnSet(f, s) = f[x] + SumFunctionOnSet(f, s \ {x})
               /\ f[x] \in Nat /\ SumFunctionOnSet(f, s \ {x}) \in Nat
               /\ \A t \in SUBSET (s \ {x}) : SumFunctionOnSet(f, t) <= SumFunctionOnSet(f, s \ {x})
    <3>1. Cardinality(s \ {x}) = Cardinality(s) - 1
      BY <2>1, OneLess
    <3>2. SumFunctionOnSet(f, s) = f[x] + SumFunctionOnSet(f, s \ {x})
      BY <2>1, SumTaken
    <3>3. Cardinality(s \ {x}) = n /\ s \ {x} \in SUBSET S
      BY <3>1
    <3> QED BY <1>3, <3>2, <3>3
  <2>3. SumFunctionOnSet(f, s) \in Nat
    <3>1. s # {}
      BY <1>1, FS_EmptySet
    <3>2. PICK x : x \in s
      BY <3>1
    <3>3. /\ SumFunctionOnSet(f, s) = f[x] + SumFunctionOnSet(f, s \ {x})
          /\ f[x] \in Nat /\ SumFunctionOnSet(f, s \ {x}) \in Nat
      BY <2>2, <3>2
    <3> QED BY <3>3
  <2>4. ASSUME NEW t \in SUBSET s PROVE SumFunctionOnSet(f, t) <= SumFunctionOnSet(f, s)
    <3>1. CASE t = s
      BY <2>3, <3>1
    <3>2. CASE t # s
      <4>1. PICK x \in s : x \notin t
        BY <3>2
      <4>2. t \in SUBSET (s \ {x}) /\ t \in SUBSET S /\ IsFiniteSet(t)
        BY <1>1, <4>1
      <4>3. SumFunctionOnSet(f, t) \in Int
        BY <4>2, SumTaken
      <4>4. /\ SumFunctionOnSet(f, s) = f[x] + SumFunctionOnSet(f, s \ {x})
            /\ f[x] \in Nat /\ SumFunctionOnSet(f, s \ {x}) \in Nat
            /\ SumFunctionOnSet(f, t) <= SumFunctionOnSet(f, s \ {x})
        BY <2>2, <4>1, <4>2
      <4> QED BY <4>3, <4>4
    <3> QED BY <3>1, <3>2
  <2> QED BY <2>3, <2>4
<1>4. Nat \subseteq H
  <2> HIDE DEF H
  <2> QED BY <1>2, <1>3, Induction
<1>5. /\ SumFunctionOnSet(f, S) \in Nat /\ SumFunctionOnSet(f, T) <= SumFunctionOnSet(f, S)
      /\ SumFunctionOnSet(f, T) \in Nat
  BY <1>1, <1>4
<1> QED BY <1>5

\* What is summed in two parts.
LEMMA SumSplit ==
  ASSUME NEW f, NEW A, NEW B, IsFiniteSet(A), IsFiniteSet(B), A \cap B = {},
         \A x \in A \cup B : f[x] \in Int
  PROVE  /\ SumFunctionOnSet(f, A \cup B) = SumFunctionOnSet(f, A) + SumFunctionOnSet(f, B)
         /\ SumFunctionOnSet(f, A) \in Int /\ SumFunctionOnSet(f, B) \in Int
<1> DEFINE H == {n \in Nat : \A b \in SUBSET B : Cardinality(b) = n =>
                    SumFunctionOnSet(f, A \cup b) = SumFunctionOnSet(f, A) + SumFunctionOnSet(f, b)}
<1>1. \A b \in SUBSET B : /\ IsFiniteSet(b) /\ Cardinality(b) \in Nat /\ IsFiniteSet(A \cup b)
                          /\ SumFunctionOnSet(f, b) \in Int
  <2> SUFFICES ASSUME NEW b \in SUBSET B
               PROVE  /\ IsFiniteSet(b) /\ Cardinality(b) \in Nat /\ IsFiniteSet(A \cup b)
                      /\ SumFunctionOnSet(f, b) \in Int
    OBVIOUS
  <2>1. IsFiniteSet(b) /\ Cardinality(b) \in Nat
    BY FS_Subset, FS_CardinalityType
  <2>2. IsFiniteSet(A \cup b)
    BY <2>1, FS_Union
  <2>3. SumFunctionOnSet(f, b) \in Int
    BY <2>1, SumTaken
  <2> QED BY <2>1, <2>2, <2>3
<1>2. SumFunctionOnSet(f, A) \in Int
  BY SumTaken
<1>3. 0 \in H
  <2> SUFFICES ASSUME NEW b \in SUBSET B, Cardinality(b) = 0
               PROVE  SumFunctionOnSet(f, A \cup b) = SumFunctionOnSet(f, A) + SumFunctionOnSet(f, b)
    OBVIOUS
  <2>1. b = {} /\ A \cup b = A
    BY <1>1, FS_EmptySet
  <2>2. SumFunctionOnSet(f, b) = 0
    BY <1>1, <2>1, SumTaken
  <2> QED BY <1>2, <2>1, <2>2
<1>4. ASSUME NEW n \in Nat, n \in H PROVE n + 1 \in H
  <2> SUFFICES ASSUME NEW b \in SUBSET B, Cardinality(b) = n + 1
               PROVE  SumFunctionOnSet(f, A \cup b) = SumFunctionOnSet(f, A) + SumFunctionOnSet(f, b)
    OBVIOUS
  <2>1. PICK x : x \in b
    <3>1. b # {}
      BY <1>1, FS_EmptySet
    <3> QED BY <3>1
  <2> DEFINE c == b \ {x}
             all == A \cup b
  <2>2. /\ c \in SUBSET B /\ x \in all /\ all \ {x} = A \cup c /\ IsFiniteSet(all) /\ IsFiniteSet(b)
        /\ \A y \in all : f[y] \in Int
    BY <1>1, <2>1
  <2>3. Cardinality(c) = n
    <3>1. Cardinality(c) = Cardinality(b) - 1
      BY <2>1, <2>2, OneLess
    <3> QED BY <3>1
  <2>4. SumFunctionOnSet(f, b) = f[x] + SumFunctionOnSet(f, c)
    BY <2>1, <2>2, SumTaken
  <2> HIDE DEF c, all
  <2>5. SumFunctionOnSet(f, all) = f[x] + SumFunctionOnSet(f, all \ {x})
    BY <2>2, SumTaken
  <2>6. SumFunctionOnSet(f, A \cup c) = SumFunctionOnSet(f, A) + SumFunctionOnSet(f, c)
    BY <1>4, <2>2, <2>3
  <2>7. f[x] \in Int /\ SumFunctionOnSet(f, c) \in Int
    BY <1>1, <2>2
  <2>8. SumFunctionOnSet(f, all) = SumFunctionOnSet(f, A) + SumFunctionOnSet(f, b)
    <3>1. SumFunctionOnSet(f, all \ {x}) = SumFunctionOnSet(f, A) + SumFunctionOnSet(f, c)
      BY <2>2, <2>6
    <3> QED BY <1>2, <2>4, <2>5, <2>7, <3>1
  <2> QED BY <2>8 DEF all
<1>5. Nat \subseteq H
  <2> HIDE DEF H
  <2> QED BY <1>3, <1>4, Induction
<1> QED BY <1>1, <1>2, <1>5

================================================================================

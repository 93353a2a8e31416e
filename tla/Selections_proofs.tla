--------------------------- MODULE Selections_proofs ---------------------------
(***************************************************************************)
(* Induction and recursion for proofs about data, and the lemmas about     *)
(* Selections.  The library's induction theorems take an operator as a     *)
(* parameter; those here speak of sets and functions instead, so that the  *)
(* provers can use them.                                                   *)
(***************************************************************************)
EXTENDS Selections, WellFoundedInduction, TLAPS

(***************************************************************************)
(* Induction.                                                              *)
(***************************************************************************)
LEMMA Least ==
  ASSUME NEW T \in SUBSET Nat, T # {}
  PROVE  \E x \in T : \A y \in T : x <= y
<1> DEFINE R == OpToRel(<, Nat)
<1>1. IsWellFoundedOn(R, Nat)
  BY NatLessThanWellFounded
<1>2. \A x, y \in Nat : y < x => <<y, x>> \in R
  BY DEF OpToRel
<1> HIDE DEF R
<1>3. PICK x \in T : \A y \in T : <<y, x>> \notin R
  BY <1>1, WFMin
<1>4. \A y \in T : ~ (y < x)
  BY <1>2, <1>3
<1>5. \A y \in T : x <= y
  BY <1>4
<1> QED
  BY <1>5

LEMMA Induction ==
  ASSUME NEW P, 0 \in P, \A n \in Nat : n \in P => n + 1 \in P
  PROVE  Nat \subseteq P
<1> DEFINE T == Nat \ P
<1> SUFFICES ASSUME T # {} PROVE FALSE
  OBVIOUS
<1>1. PICK x \in T : \A y \in T : x <= y
  BY Least
<1>2. x # 0 /\ x - 1 \in Nat /\ x - 1 \notin T
  BY <1>1
<1> QED
  BY <1>2

LEMMA StrongInduction ==
  ASSUME NEW P, \A n \in Nat : (\A m \in 0..(n - 1) : m \in P) => n \in P
  PROVE  Nat \subseteq P
<1> DEFINE T == Nat \ P
<1> SUFFICES ASSUME T # {} PROVE FALSE
  OBVIOUS
<1>1. PICK x \in T : \A y \in T : x <= y
  BY Least
<1>2. \A m \in 0..(x - 1) : m \in P
  BY <1>1
<1> QED
  BY <1>2

\* A finite set of numbers has a greatest one.
LEMMA Greatest ==
  ASSUME NEW n \in Nat, NEW T \in SUBSET (0..n), T # {}
  PROVE  \E x \in T : \A y \in T : y <= x
<1> DEFINE T0 == {m \in Nat : \A y \in T : y <= m}
<1>1. n \in T0 /\ T0 \in SUBSET Nat
  OBVIOUS
<1>2. PICK m \in T0 : \A y \in T0 : m <= y
  BY <1>1, Least
<1>3. m \in T
  <2> SUFFICES ASSUME m \notin T PROVE FALSE
    OBVIOUS
  <2>1. \A y \in T : y <= m /\ y # m /\ y \in Nat
    BY <1>2
  <2>2. m # 0
    <3>1. PICK y \in T : TRUE
      OBVIOUS
    <3>2. y <= m /\ y # m /\ y \in Nat /\ m \in Nat
      BY <2>1
    <3> QED
      BY <3>2
  <2>3. m - 1 \in Nat /\ \A y \in T : y <= m - 1
    BY <1>2, <2>1, <2>2
  <2> QED
    BY <1>2, <2>3
<1> QED
  BY <1>2, <1>3

(***************************************************************************)
(* Recursion: a function may be defined by its values at places that are   *)
(* smaller in some measure.                                                *)
(***************************************************************************)
\* G makes the value at r of those at smaller places alone.
LooksBelow(D, X, mu, G) ==
  \A r \in D : \A g, h \in [D -> X] :
    (\A q \in D : mu[q] < mu[r] => g[q] = h[q]) => G[<<r, g>>] = G[<<r, h>>]

\* f follows G below n.
Solves(f, D, mu, G, n) == \A r \in D : mu[r] < n => f[r] = G[<<r, f>>]

LEMMA SolutionsAgree ==
  ASSUME NEW D, NEW X, NEW mu \in [D -> Nat], NEW G,
         LooksBelow(D, X, mu, G),
         NEW f \in [D -> X], NEW h \in [D -> X], NEW k \in Nat, NEW l \in Nat, k <= l,
         Solves(f, D, mu, G, k), Solves(h, D, mu, G, l)
  PROVE  \A r \in D : mu[r] < k => f[r] = h[r]
<1> DEFINE P == {n \in Nat : \A r \in D : mu[r] = n /\ n < k => f[r] = h[r]}
<1>1. ASSUME NEW n \in Nat, \A m \in 0..(n - 1) : m \in P PROVE n \in P
  <2> SUFFICES ASSUME NEW r \in D, mu[r] = n, n < k PROVE f[r] = h[r]
    OBVIOUS
  <2>1. \A q \in D : mu[q] < mu[r] => f[q] = h[q]
    BY <1>1
  <2>2. G[<<r, f>>] = G[<<r, h>>]
    BY <2>1 DEF LooksBelow
  <2>3. f[r] = G[<<r, f>>] /\ h[r] = G[<<r, h>>]
    BY DEF Solves
  <2> QED
    BY <2>2, <2>3
<1> HIDE DEF P
<1>2. Nat \subseteq P
  BY <1>1, StrongInduction
<1> QED
  BY <1>2 DEF P

\* What the equation f[r] = G[<<r, f>>] needs to have a solution.
IsRecursion(D, X, mu, G) ==
  X # {} /\ mu \in [D -> Nat] /\ G \in [D \X [D -> X] -> X] /\ LooksBelow(D, X, mu, G)

HasSolution(D, X, G) == \E f \in [D -> X] : \A r \in D : f[r] = G[<<r, f>>]

LEMMA RecursionHasSolution ==
  ASSUME NEW D, NEW X, NEW mu \in [D -> Nat], NEW G \in [D \X [D -> X] -> X], X # {},
         LooksBelow(D, X, mu, G)
  PROVE  HasSolution(D, X, G)
<1> DEFINE P == {n \in Nat : \E f \in [D -> X] : Solves(f, D, mu, G, n)}
<1>1. 0 \in P
  <2>1. PICK x \in X : TRUE
    OBVIOUS
  <2>2. [r \in D |-> x] \in [D -> X]
    OBVIOUS
  <2>3. \A r \in D : ~ (mu[r] < 0)
    OBVIOUS
  <2>4. Solves([r \in D |-> x], D, mu, G, 0)
    BY <2>3 DEF Solves
  <2> QED
    BY <2>2, <2>4
<1>2. ASSUME NEW n \in Nat, n \in P PROVE n + 1 \in P
  <2>1. PICK f \in [D -> X] : Solves(f, D, mu, G, n)
    BY <1>2
  <2> DEFINE next == [r \in D |-> IF mu[r] = n THEN G[<<r, f>>] ELSE f[r]]
  <2>2. next \in [D -> X]
    OBVIOUS
  <2>3. \A q \in D : mu[q] < n => next[q] = f[q]
    OBVIOUS
  <2>4. ASSUME NEW r \in D, mu[r] < n + 1 PROVE next[r] = G[<<r, next>>]
    <3>1. \A q \in D : mu[q] < mu[r] => next[q] = f[q]
      BY <2>3, <2>4
    <3>2. next[r] = G[<<r, f>>]
      BY <2>1, <2>4 DEF Solves
    <3> HIDE DEF next
    <3>3. G[<<r, next>>] = G[<<r, f>>]
      BY <2>2, <3>1 DEF LooksBelow
    <3> QED
      BY <3>2, <3>3
  <2> HIDE DEF next
  <2>5. Solves(next, D, mu, G, n + 1)
    BY <2>4 DEF Solves
  <2> QED
    BY <2>2, <2>5
<1> HIDE DEF P
<1>3. Nat \subseteq P
  BY <1>1, <1>2, Induction
<1>4. \A n \in Nat : \E f \in [D -> X] : Solves(f, D, mu, G, n)
  BY <1>3 DEF P
<1> DEFINE at == [n \in Nat |-> CHOOSE f \in [D -> X] : Solves(f, D, mu, G, n)]
           whole == [r \in D |-> at[mu[r] + 1][r]]
<1>5. \A n \in Nat : at[n] \in [D -> X] /\ Solves(at[n], D, mu, G, n)
  BY <1>4
<1> HIDE DEF at
<1>6. whole \in [D -> X]
  BY <1>5
<1>7. ASSUME NEW r \in D PROVE whole[r] = G[<<r, whole>>]
  <2>0. mu[r] + 1 \in Nat /\ mu[r] < mu[r] + 1
    OBVIOUS
  <2>1. PICK f \in [D -> X] : f = at[mu[r] + 1] /\ Solves(f, D, mu, G, mu[r] + 1)
    BY <1>5, <2>0
  <2>2. whole[r] = f[r]
    BY <2>1
  <2>3. f[r] = G[<<r, f>>]
    BY <2>0, <2>1 DEF Solves
  <2>4. ASSUME NEW q \in D, mu[q] < mu[r] PROVE whole[q] = f[q]
    <3>0. mu[q] + 1 \in Nat
      OBVIOUS
    <3>1. PICK g \in [D -> X] : g = at[mu[q] + 1] /\ Solves(g, D, mu, G, mu[q] + 1)
      BY <1>5, <3>0
    <3>2. mu[q] + 1 \in Nat /\ mu[r] + 1 \in Nat /\ mu[q] + 1 <= mu[r] + 1 /\ mu[q] < mu[q] + 1
      BY <2>4
    <3>3. whole[q] = g[q]
      BY <3>1
    <3> HIDE DEF whole
    <3>4. g[q] = f[q]
      BY <2>1, <3>1, <3>2, SolutionsAgree
    <3> QED
      BY <3>3, <3>4
  <2> HIDE DEF whole
  <2>5. G[<<r, whole>>] = G[<<r, f>>]
    BY <1>6, <2>4 DEF LooksBelow
  <2> QED
    BY <2>2, <2>3, <2>5
<1> HIDE DEF whole
<1> QED
  BY <1>6, <1>7 DEF HasSolution

LEMMA Recursion ==
  \A D, X, mu, G : IsRecursion(D, X, mu, G) => HasSolution(D, X, G)
BY RecursionHasSolution DEF IsRecursion

\* The same for a function of how many elements a loop has seen.
IsLoop(N, X, b, step) == N \in Nat /\ b \in X /\ step \in [(1..N) \X X -> X]

Runs(f, N, b, step) == f = [n \in 0..N |-> IF n = 0 THEN b ELSE step[<<n, f[n - 1]>>]]

LEMMA LoopRuns ==
  ASSUME NEW N \in Nat, NEW X, NEW b \in X, NEW step \in [(1..N) \X X -> X]
  PROVE  \E f \in [0..N -> X] : Runs(f, N, b, step)
<1> DEFINE D == 0..N
           mu == [n \in D |-> n]
           G == [p \in D \X [D -> X] |-> IF p[1] = 0 THEN b ELSE step[<<p[1], p[2][p[1] - 1]>>]]
<1>1. mu \in [D -> Nat]
  OBVIOUS
<1>2. ASSUME NEW n \in D, NEW g \in [D -> X], n # 0
      PROVE  n - 1 \in D /\ n \in 1..N /\ g[n - 1] \in X
  BY <1>2
<1>3. G \in [D \X [D -> X] -> X]
  <2> SUFFICES ASSUME NEW n \in D, NEW g \in [D -> X]
               PROVE  (IF n = 0 THEN b ELSE step[<<n, g[n - 1]>>]) \in X
    OBVIOUS
  <2> QED
    BY <1>2
<1>4. \A n \in D : \A g \in [D -> X] : G[<<n, g>>] = IF n = 0 THEN b ELSE step[<<n, g[n - 1]>>]
  OBVIOUS
<1>5. LooksBelow(D, X, mu, G)
  <2> SUFFICES ASSUME NEW n \in D, NEW g \in [D -> X], NEW h \in [D -> X],
                      \A q \in D : mu[q] < mu[n] => g[q] = h[q]
               PROVE  G[<<n, g>>] = G[<<n, h>>]
    BY DEF LooksBelow
  <2>1. n # 0 => g[n - 1] = h[n - 1]
    BY <1>2
  <2> QED
    BY <1>4, <2>1
<1> HIDE DEF mu, G
<1>6. X # {}
  OBVIOUS
<1>7. PICK f \in [D -> X] : \A n \in D : f[n] = G[<<n, f>>]
  <2> HIDE DEF D
  <2>1. IsRecursion(D, X, mu, G)
    BY <1>1, <1>3, <1>5, <1>6 DEF IsRecursion
  <2>2. HasSolution(D, X, G)
    BY <2>1, Recursion
  <2> QED
    BY <2>2 DEF HasSolution
<1>8. f = [n \in D |-> IF n = 0 THEN b ELSE step[<<n, f[n - 1]>>]]
  BY <1>4, <1>7
<1> QED
  BY <1>8 DEF Runs

LEMMA PrefixRecursion ==
  \A N, X, b, step : IsLoop(N, X, b, step) => \E f \in [0..N -> X] : Runs(f, N, b, step)
BY LoopRuns DEF IsLoop

(***************************************************************************)
(* Kept.                                                                   *)
(***************************************************************************)
KeptUpTo(s, S) ==
  CHOOSE kept : kept = [n \in 0..Len(s) |->
    IF n = 0 THEN <<>> ELSE IF s[n] \in S THEN Append(kept[n - 1], s[n]) ELSE kept[n - 1]]

LEMMA KeptIsDefined ==
  ASSUME NEW T, NEW s \in Seq(T), NEW S
  PROVE  /\ Kept(s, S) = KeptUpTo(s, S)[Len(s)]
         /\ KeptUpTo(s, S) \in [0..Len(s) -> Seq(T)]
         /\ KeptUpTo(s, S)[0] = <<>>
         /\ \A n \in 1..Len(s) :
              KeptUpTo(s, S)[n] = IF s[n] \in S THEN Append(KeptUpTo(s, S)[n - 1], s[n])
                                                ELSE KeptUpTo(s, S)[n - 1]
<1> DEFINE X == Seq(T)
           N == Len(s)
           step == [p \in (1..N) \X X |->
                      IF s[p[1]] \in S THEN Append(p[2], s[p[1]]) ELSE p[2]]
<1>1. N \in Nat /\ <<>> \in X
  OBVIOUS
<1>2. step \in [(1..N) \X X -> X]
  OBVIOUS
<1>3. \A n \in 1..N : \A x \in X :
        step[<<n, x>>] = IF s[n] \in S THEN Append(x, s[n]) ELSE x
  OBVIOUS
<1> HIDE DEF step, N, X
<1>4. PICK f \in [0..N -> X] : Runs(f, N, <<>>, step)
  <2>1. IsLoop(N, X, <<>>, step)
    BY <1>1, <1>2 DEF IsLoop
  <2> QED
    BY <2>1, PrefixRecursion
<1>5. \A n \in 0..N : n # 0 => n \in 1..N /\ f[n - 1] \in X
  BY <1>1, <1>4
<1>6a. f = [n \in 0..N |-> IF n = 0 THEN <<>> ELSE step[<<n, f[n - 1]>>]]
  BY <1>4 DEF Runs
<1>6. f = [n \in 0..N |->
             IF n = 0 THEN <<>> ELSE IF s[n] \in S THEN Append(f[n - 1], s[n]) ELSE f[n - 1]]
  BY <1>3, <1>6a, <1>5
<1> DEFINE k == KeptUpTo(s, S)
<1>7. k = [n \in 0..N |->
             IF n = 0 THEN <<>> ELSE IF s[n] \in S THEN Append(k[n - 1], s[n]) ELSE k[n - 1]]
  BY <1>6 DEF KeptUpTo, N
<1>8. Kept(s, S) = k[N]
  BY DEF Kept, KeptUpTo, N
<1> HIDE DEF k
<1>9. k[0] = <<>> /\ \A n \in 1..N : k[n] = IF s[n] \in S THEN Append(k[n - 1], s[n]) ELSE k[n - 1]
  <2>1. 0 \in 0..N /\ \A n \in 1..N : n \in 0..N /\ n # 0
    BY <1>1
  <2> QED
    BY <1>7, <2>1
<1>10. \A n \in 0..N : k[n] \in X
  <2> DEFINE P == {n \in Nat : n \in 0..N => k[n] \in X}
  <2>1. 0 \in P
    BY <1>1, <1>9
  <2>2. ASSUME NEW n \in Nat, n \in P PROVE n + 1 \in P
    <3> SUFFICES ASSUME n + 1 \in 0..N PROVE k[n + 1] \in X
      OBVIOUS
    <3>1. n \in 0..N /\ n + 1 \in 1..N /\ (n + 1) - 1 = n
      BY <1>1
    <3>2. k[n] \in X /\ k[n + 1] = IF s[n + 1] \in S THEN Append(k[n], s[n + 1]) ELSE k[n]
      BY <1>9, <2>2, <3>1
    <3>3. s[n + 1] \in T
      BY <3>1 DEF N
    <3> QED
      BY <3>2, <3>3 DEF X
  <2> HIDE DEF P
  <2>3. Nat \subseteq P
    BY <2>1, <2>2, Induction
  <2> QED
    BY <1>1, <2>3 DEF P
<1>11. k \in [0..N -> X]
  BY <1>7, <1>10
<1> QED
  BY <1>8, <1>9, <1>11 DEF k, N, X

LEMMA ConcatIs ==
  ASSUME NEW T, NEW s \in Seq(T), NEW t \in Seq(T)
  PROVE  /\ s \o t \in Seq(T) /\ Len(s \o t) = Len(s) + Len(t)
         /\ \A i \in 1..(Len(s) + Len(t)) :
              (s \o t)[i] = IF i <= Len(s) THEN s[i] ELSE t[i - Len(s)]
OBVIOUS

LEMMA AppendIs ==
  ASSUME NEW T, NEW s \in Seq(T), NEW e \in T
  PROVE  /\ Append(s, e) \in Seq(T)
         /\ Len(Append(s, e)) = Len(s) + 1 /\ Append(s, e) # <<>> /\ Len(s) \in Nat
         /\ Append(s, e)[Len(s) + 1] = e
         /\ \A i \in 1..Len(s) : Append(s, e)[i] = s[i]
OBVIOUS

LEMMA KeptElements ==
  ASSUME NEW T, NEW s \in Seq(T), NEW S
  PROVE  /\ Kept(s, S) \in Seq(T)
         /\ \A i \in 1..Len(Kept(s, S)) :
              Kept(s, S)[i] \in S /\ \E j \in 1..Len(s) : s[j] = Kept(s, S)[i]
         /\ Kept(s, S) = <<>> <=> \A j \in 1..Len(s) : s[j] \notin S
<1> DEFINE k == KeptUpTo(s, S)
           N == Len(s)
           Good(n) == /\ \A i \in 1..Len(k[n]) : k[n][i] \in S /\ \E j \in 1..n : s[j] = k[n][i]
                      /\ k[n] = <<>> <=> \A j \in 1..n : s[j] \notin S
           P == {n \in Nat : n \in 0..N => Good(n)}
<1>1. /\ N \in Nat
      /\ k \in [0..N -> Seq(T)]
      /\ k[0] = <<>>
      /\ \A n \in 1..N : k[n] = IF s[n] \in S THEN Append(k[n - 1], s[n]) ELSE k[n - 1]
  BY KeptIsDefined
<1>2. Kept(s, S) = k[N]
  BY KeptIsDefined
<1> HIDE DEF k, N
<1>3. 0 \in P
  BY <1>1
<1>4. ASSUME NEW n \in Nat, n \in P PROVE n + 1 \in P
  <2> SUFFICES ASSUME n + 1 \in 0..N PROVE Good(n + 1)
    OBVIOUS
  <2>1. n \in 0..N /\ n + 1 \in 1..N /\ (n + 1) - 1 = n
    BY <1>1
  <2>2. Good(n)
    BY <1>4, <2>1
  <2>3. k[n] \in Seq(T) /\ s[n + 1] \in T
    BY <1>1, <2>1 DEF N
  <2>4. k[n + 1] = IF s[n + 1] \in S THEN Append(k[n], s[n + 1]) ELSE k[n]
    BY <1>1, <2>1
  <2>5. CASE s[n + 1] \in S
    <3>1. k[n + 1] = Append(k[n], s[n + 1])
      BY <2>4, <2>5
    <3>2. /\ Len(k[n + 1]) = Len(k[n]) + 1 /\ k[n + 1] # <<>> /\ Len(k[n]) \in Nat
          /\ k[n + 1][Len(k[n]) + 1] = s[n + 1]
          /\ \A i \in 1..Len(k[n]) : k[n + 1][i] = k[n][i]
      BY <2>3, <3>1, AppendIs
    <3>3. \A i \in 1..Len(k[n + 1]) : i \in 1..Len(k[n]) \/ i = Len(k[n]) + 1
      BY <3>2
    <3>4. 1..n \subseteq 1..(n + 1) /\ n + 1 \in 1..(n + 1)
      OBVIOUS
    <3>5. ASSUME NEW i \in 1..Len(k[n + 1])
          PROVE  k[n + 1][i] \in S /\ \E j \in 1..(n + 1) : s[j] = k[n + 1][i]
      <4>1. CASE i \in 1..Len(k[n])
        BY <2>2, <3>2, <3>4, <4>1
      <4>2. CASE i = Len(k[n]) + 1
        BY <2>5, <3>2, <3>4, <4>2
      <4> QED
        BY <3>3, <4>1, <4>2
    <3> QED
      BY <2>5, <3>2, <3>4, <3>5
  <2>6. CASE s[n + 1] \notin S
    <3>1. k[n + 1] = k[n]
      BY <2>4, <2>6
    <3>2. 1..(n + 1) = 1..n \cup {n + 1}
      OBVIOUS
    <3> QED
      BY <2>2, <2>6, <3>1, <3>2
  <2> QED
    BY <2>5, <2>6
<1> HIDE DEF P
<1>5. Nat \subseteq P
  BY <1>3, <1>4, Induction
<1>6. Good(N) /\ k[N] \in Seq(T)
  BY <1>1, <1>5 DEF P
<1> QED
  BY <1>2, <1>6 DEF N

\* Only what the set says of the elements matters.
LEMMA KeptBySame ==
  ASSUME NEW T, NEW s \in Seq(T), NEW S, NEW R, \A i \in 1..Len(s) : s[i] \in S <=> s[i] \in R
  PROVE  Kept(s, S) = Kept(s, R)
<1> DEFINE k == KeptUpTo(s, S)
           l == KeptUpTo(s, R)
           N == Len(s)
           P == {n \in Nat : n \in 0..N => k[n] = l[n]}
<1>1. /\ N \in Nat /\ k[0] = <<>> /\ l[0] = <<>> /\ Kept(s, S) = k[N] /\ Kept(s, R) = l[N]
      /\ \A n \in 1..N : k[n] = IF s[n] \in S THEN Append(k[n - 1], s[n]) ELSE k[n - 1]
      /\ \A n \in 1..N : l[n] = IF s[n] \in R THEN Append(l[n - 1], s[n]) ELSE l[n - 1]
  BY KeptIsDefined
<1>2. \A n \in 1..N : s[n] \in S <=> s[n] \in R
  OBVIOUS
<1> HIDE DEF k, l, N
<1>3. 0 \in P
  BY <1>1
<1>4. ASSUME NEW n \in Nat, n \in P PROVE n + 1 \in P
  <2> SUFFICES ASSUME n + 1 \in 0..N PROVE k[n + 1] = l[n + 1]
    OBVIOUS
  <2>1. n \in 0..N /\ n + 1 \in 1..N /\ (n + 1) - 1 = n
    BY <1>1
  <2> QED
    BY <1>1, <1>2, <1>4, <2>1
<1> HIDE DEF P
<1>5. Nat \subseteq P
  BY <1>3, <1>4, Induction
<1> QED
  BY <1>1, <1>5 DEF P

LEMMA SameSequence ==
  ASSUME NEW T, NEW s \in Seq(T), NEW t \in Seq(T), Len(s) = Len(t),
         \A i \in 1..Len(t) : s[i] = t[i]
  PROVE  s = t
OBVIOUS

\* A sequence without its ith element.
Cut(s, i) == SubSeq(s, 1, i - 1) \o SubSeq(s, i + 1, Len(s))

LEMMA CutIs ==
  ASSUME NEW T, NEW s \in Seq(T), NEW i \in 1..Len(s)
  PROVE  /\ Cut(s, i) \in Seq(T) /\ Len(Cut(s, i)) = Len(s) - 1
         /\ \A n \in 1..(Len(s) - 1) : Cut(s, i)[n] = IF n < i THEN s[n] ELSE s[n + 1]
<1> DEFINE t == Cut(s, i)
           N == Len(s)
<1>0. N \in Nat /\ i \in 1..N
  OBVIOUS
<1>1. SubSeq(s, 1, i - 1) \in Seq(T) /\ Len(SubSeq(s, 1, i - 1)) = i - 1
  OBVIOUS
<1>2. SubSeq(s, i + 1, N) \in Seq(T) /\ Len(SubSeq(s, i + 1, N)) = N - i
  OBVIOUS
<1>3. \A n \in 1..(i - 1) : SubSeq(s, 1, i - 1)[n] = s[n]
  OBVIOUS
<1>4. \A n \in 1..(N - i) : SubSeq(s, i + 1, N)[n] = s[i + n]
  OBVIOUS
<1> DEFINE left == SubSeq(s, 1, i - 1)
           right == SubSeq(s, i + 1, N)
<1> HIDE DEF left, right, N
<1>5. left \in Seq(T) /\ right \in Seq(T) /\ Len(left) = i - 1 /\ Len(right) = N - i
  BY <1>1, <1>2 DEF left, right
<1>6. t = left \o right
  BY DEF Cut, left, right, N
<1> HIDE DEF t
<1>6a. /\ t \in Seq(T) /\ Len(t) = Len(left) + Len(right)
       /\ \A n \in 1..(Len(left) + Len(right)) :
            t[n] = IF n <= Len(left) THEN left[n] ELSE right[n - Len(left)]
  BY <1>5, <1>6, ConcatIs
<1>7. t \in Seq(T) /\ Len(t) = N - 1
  BY <1>0, <1>5, <1>6a
<1>8. ASSUME NEW n \in 1..(N - 1)
      PROVE  t[n] = IF n < i THEN s[n] ELSE s[n + 1]
  <2>1. t[n] = IF n <= i - 1 THEN left[n] ELSE right[n - (i - 1)]
    BY <1>0, <1>5, <1>6a
  <2>2. CASE n < i
    <3>1. n \in 1..(i - 1)
      BY <1>0, <2>2
    <3> QED
      BY <1>0, <1>3, <2>1, <2>2, <3>1 DEF left
  <2>3. CASE ~ (n < i)
    <3>1. n - (i - 1) \in 1..(N - i) /\ i + (n - (i - 1)) = n + 1 /\ ~ (n <= i - 1)
      BY <1>0, <2>3
    <3> QED
      BY <1>4, <2>1, <2>3, <3>1 DEF right
  <2> QED
    BY <2>2, <2>3
<1> QED
  BY <1>0, <1>7, <1>8 DEF t, N

\* What is not kept may as well be missing.
LEMMA KeptWithout ==
  ASSUME NEW T, NEW s \in Seq(T), NEW S, NEW i \in 1..Len(s), s[i] \notin S
  PROVE  Cut(s, i) \in Seq(T) /\ Kept(Cut(s, i), S) = Kept(s, S)
<1> DEFINE t == Cut(s, i)
           k == KeptUpTo(s, S)
           l == KeptUpTo(t, S)
           N == Len(s)
<1>1. /\ N \in Nat /\ i \in 1..N
      /\ t \in Seq(T) /\ Len(t) = N - 1
      /\ \A n \in 1..(N - 1) : t[n] = IF n < i THEN s[n] ELSE s[n + 1]
  BY CutIs
<1>2. /\ k[0] = <<>> /\ Kept(s, S) = k[N]
      /\ \A n \in 1..N : k[n] = IF s[n] \in S THEN Append(k[n - 1], s[n]) ELSE k[n - 1]
  BY KeptIsDefined
<1>3. /\ l[0] = <<>> /\ Kept(t, S) = l[N - 1]
      /\ \A n \in 1..(N - 1) : l[n] = IF t[n] \in S THEN Append(l[n - 1], t[n]) ELSE l[n - 1]
  <2> HIDE DEF t
  <2> QED
    BY <1>1, KeptIsDefined
<1> DEFINE P == {n \in Nat : n \in 0..(N - 1) => l[n] = IF n < i THEN k[n] ELSE k[n + 1]}
<1>4. s[i] \notin S
  OBVIOUS
<1> HIDE DEF t, k, l, N
<1>5. 0 \in P
  BY <1>1, <1>2, <1>3
<1>6. ASSUME NEW n \in Nat, n \in P PROVE n + 1 \in P
  <2> SUFFICES ASSUME n + 1 \in 0..(N - 1)
               PROVE  l[n + 1] = IF n + 1 < i THEN k[n + 1] ELSE k[n + 2]
    BY <1>1
  <2>1. n \in 0..(N - 1) /\ n + 1 \in 1..(N - 1) /\ (n + 1) - 1 = n /\ (n + 1) + 1 = n + 2
    BY <1>1
  <2>2. l[n] = IF n < i THEN k[n] ELSE k[n + 1]
    BY <1>6, <2>1
  <2>3. l[n + 1] = IF t[n + 1] \in S THEN Append(l[n], t[n + 1]) ELSE l[n]
    BY <1>3, <2>1
  <2>4. t[n + 1] = IF n + 1 < i THEN s[n + 1] ELSE s[n + 2]
    BY <1>1, <2>1
  <2>5. n + 1 \in 1..N /\ n + 2 \in 1..N /\ (n + 2) - 1 = n + 1
    BY <1>1, <2>1
  <2>6. /\ k[n + 1] = IF s[n + 1] \in S THEN Append(k[n], s[n + 1]) ELSE k[n]
        /\ k[n + 2] = IF s[n + 2] \in S THEN Append(k[n + 1], s[n + 2]) ELSE k[n + 1]
    BY <1>2, <2>1, <2>5
  <2>7. CASE n + 1 < i
    BY <1>1, <2>2, <2>3, <2>4, <2>6, <2>7
  <2>8. CASE n + 1 = i
    BY <1>1, <1>4, <2>2, <2>3, <2>4, <2>6, <2>8
  <2>9. CASE n + 1 > i
    BY <1>1, <2>2, <2>3, <2>4, <2>6, <2>9
  <2> QED
    BY <1>1, <2>7, <2>8, <2>9
<1> HIDE DEF P
<1>7. Nat \subseteq P
  BY <1>5, <1>6, Induction
<1>8. l[N - 1] = k[N]
  <2>1. N - 1 \in Nat /\ N - 1 \in 0..(N - 1) /\ (N - 1) + 1 = N
    BY <1>1
  <2>2. l[N - 1] = IF N - 1 < i THEN k[N - 1] ELSE k[N]
    BY <1>7, <2>1 DEF P
  <2>3. CASE N - 1 < i
    <3>1. N = i
      BY <1>1, <2>3
    <3> QED
      BY <1>1, <1>2, <1>4, <2>2, <2>3, <3>1
  <2> QED
    BY <2>2, <2>3
<1> QED
  BY <1>1, <1>2, <1>3, <1>8 DEF t, N

(***************************************************************************)
(* Deduplicated.                                                           *)
(***************************************************************************)
SeenUpTo(s) ==
  CHOOSE seen : seen = [n \in 0..Len(s) |->
    IF n = 0 THEN <<>>
    ELSE IF \E i \in DOMAIN seen[n - 1] : seen[n - 1][i] = s[n] THEN seen[n - 1]
    ELSE Append(seen[n - 1], s[n])]

LEMMA DeduplicatedIsDefined ==
  ASSUME NEW T, NEW s \in Seq(T)
  PROVE  /\ Deduplicated(s) = SeenUpTo(s)[Len(s)]
         /\ SeenUpTo(s)[0] = <<>>
         /\ \A n \in 1..Len(s) :
              SeenUpTo(s)[n] =
                IF \E i \in DOMAIN SeenUpTo(s)[n - 1] : SeenUpTo(s)[n - 1][i] = s[n]
                  THEN SeenUpTo(s)[n - 1] ELSE Append(SeenUpTo(s)[n - 1], s[n])
<1> DEFINE X == Seq(T)
           N == Len(s)
           step == [p \in (1..N) \X X |->
                      IF \E i \in DOMAIN p[2] : p[2][i] = s[p[1]]
                        THEN p[2] ELSE Append(p[2], s[p[1]])]
<1>1. N \in Nat /\ <<>> \in X
  OBVIOUS
<1>2. step \in [(1..N) \X X -> X]
  OBVIOUS
<1>3. \A n \in 1..N : \A x \in X :
        step[<<n, x>>] = IF \E i \in DOMAIN x : x[i] = s[n] THEN x ELSE Append(x, s[n])
  OBVIOUS
<1> HIDE DEF step, N, X
<1>4. PICK f \in [0..N -> X] : Runs(f, N, <<>>, step)
  <2>1. IsLoop(N, X, <<>>, step)
    BY <1>1, <1>2 DEF IsLoop
  <2> QED
    BY <2>1, PrefixRecursion
<1>5. \A n \in 0..N : n # 0 => n \in 1..N /\ f[n - 1] \in X
  BY <1>1, <1>4
<1>6a. f = [n \in 0..N |-> IF n = 0 THEN <<>> ELSE step[<<n, f[n - 1]>>]]
  BY <1>4 DEF Runs
<1>6. f = [n \in 0..N |->
             IF n = 0 THEN <<>>
             ELSE IF \E i \in DOMAIN f[n - 1] : f[n - 1][i] = s[n] THEN f[n - 1]
             ELSE Append(f[n - 1], s[n])]
  BY <1>3, <1>6a, <1>5
<1> DEFINE k == SeenUpTo(s)
<1>7. k = [n \in 0..N |->
             IF n = 0 THEN <<>>
             ELSE IF \E i \in DOMAIN k[n - 1] : k[n - 1][i] = s[n] THEN k[n - 1]
             ELSE Append(k[n - 1], s[n])]
  BY <1>6 DEF SeenUpTo, N
<1>8. Deduplicated(s) = k[N]
  BY DEF Deduplicated, SeenUpTo, N
<1> HIDE DEF k
<1>9. 0 \in 0..N /\ \A n \in 1..N : n \in 0..N /\ n # 0
  BY <1>1
<1> QED
  BY <1>7, <1>8, <1>9 DEF k, N

\* t has each of the first n elements of s once.
HasEach(t, s, n) ==
  /\ \A i, j \in 1..Len(t) : t[i] = t[j] => i = j
  /\ \A i \in 1..Len(t) : \E j \in 1..n : s[j] = t[i]
  /\ \A j \in 1..n : \E i \in 1..Len(t) : t[i] = s[j]

LEMMA HasEachMore ==
  ASSUME NEW T, NEW s, NEW n \in Nat, s[n + 1] \in T, NEW t \in Seq(T), HasEach(t, s, n)
  PROVE  /\ (\E i \in DOMAIN t : t[i] = s[n + 1]) => HasEach(t, s, n + 1)
         /\ (~ \E i \in DOMAIN t : t[i] = s[n + 1]) => HasEach(Append(t, s[n + 1]), s, n + 1)
<1> DEFINE L == Len(t)
           e == s[n + 1]
<1>1. 1..(n + 1) = 1..n \cup {n + 1} /\ L \in Nat /\ DOMAIN t = 1..L /\ 1..(L + 1) = 1..L \cup {L + 1}
  OBVIOUS
<1>2. ASSUME \E i \in DOMAIN t : t[i] = s[n + 1] PROVE HasEach(t, s, n + 1)
  BY <1>1, <1>2 DEF HasEach
<1>3. ASSUME ~ \E i \in DOMAIN t : t[i] = s[n + 1] PROVE HasEach(Append(t, s[n + 1]), s, n + 1)
  <2>0. PICK u : u = Append(t, e)
    OBVIOUS
  <2>1. Len(u) = L + 1 /\ u[L + 1] = e /\ \A i \in 1..L : u[i] = t[i]
    BY <2>0, AppendIs
  <2>2. \A i \in 1..L : t[i] # e
    BY <1>1, <1>3
  <2> HIDE DEF L, e
  <2>3. \A i, j \in 1..L : t[i] = t[j] => i = j
    BY DEF HasEach, L
  <2>4. \A i, j \in 1..(L + 1) : u[i] = u[j] => i = j
    BY <1>1, <2>1, <2>2, <2>3
  <2>5. \A i \in 1..L : \E j \in 1..n : s[j] = t[i]
    BY DEF HasEach, L
  <2>6. \A i \in 1..(L + 1) : \E j \in 1..(n + 1) : s[j] = u[i]
    BY <1>1, <2>1, <2>5 DEF e
  <2>7. \A j \in 1..n : \E i \in 1..L : t[i] = s[j]
    BY DEF HasEach, L
  <2>8. \A j \in 1..(n + 1) : \E i \in 1..(L + 1) : u[i] = s[j]
    BY <1>1, <2>1, <2>7 DEF e
  <2>9. HasEach(u, s, n + 1)
    BY <2>1, <2>4, <2>6, <2>8 DEF HasEach
  <2> QED
    BY <2>0, <2>9 DEF e
<1> QED
  BY <1>2, <1>3

LEMMA DeduplicatedElements ==
  ASSUME NEW T, NEW s \in Seq(T)
  PROVE  Deduplicated(s) \in Seq(T) /\ HasEach(Deduplicated(s), s, Len(s))
<1> DEFINE k == SeenUpTo(s)
           N == Len(s)
           P == {n \in Nat : n \in 0..N => k[n] \in Seq(T) /\ HasEach(k[n], s, n)}
<1>1. /\ N \in Nat /\ k[0] = <<>> /\ Deduplicated(s) = k[N]
      /\ \A n \in 1..N : k[n] = IF \E i \in DOMAIN k[n - 1] : k[n - 1][i] = s[n]
                                  THEN k[n - 1] ELSE Append(k[n - 1], s[n])
  BY DeduplicatedIsDefined
<1> HIDE DEF k, N
<1>2. 0 \in P
  <2>1. k[0] = <<>> /\ 1..0 = {} /\ Len(<<>>) = 0 /\ <<>> \in Seq(T)
    BY <1>1
  <2>2. HasEach(<<>>, s, 0)
    BY <2>1 DEF HasEach
  <2> QED
    BY <2>1, <2>2
<1>3. ASSUME NEW n \in Nat, n \in P PROVE n + 1 \in P
  <2> SUFFICES ASSUME n + 1 \in 0..N PROVE k[n + 1] \in Seq(T) /\ HasEach(k[n + 1], s, n + 1)
    OBVIOUS
  <2>1. n \in 0..N /\ n + 1 \in 1..N /\ (n + 1) - 1 = n
    BY <1>1
  <2>2. k[n] \in Seq(T) /\ HasEach(k[n], s, n)
    BY <1>3, <2>1
  <2>3. s[n + 1] \in T
    BY <2>1 DEF N
  <2>4. k[n + 1] = IF \E i \in DOMAIN k[n] : k[n][i] = s[n + 1]
                     THEN k[n] ELSE Append(k[n], s[n + 1])
    BY <1>1, <2>1
  <2>5. Append(k[n], s[n + 1]) \in Seq(T)
    BY <2>2, <2>3
  <2> QED
    BY <2>2, <2>3, <2>4, <2>5, HasEachMore
<1> HIDE DEF P
<1>4. Nat \subseteq P
  BY <1>2, <1>3, Induction
<1>5. N \in 0..N
  BY <1>1
<1> QED
  BY <1>1, <1>4, <1>5 DEF N, P
=============================================================================

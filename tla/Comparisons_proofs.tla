--------------------------- MODULE Comparisons_proofs ---------------------------
(***************************************************************************)
(* Proofs about the two engines and the jobs that call them: for texts of  *)
(* any length and any lines, and for values of JSON of any shape and       *)
(* depth.                                                                  *)
(***************************************************************************)
EXTENDS Comparisons, Selections_proofs, FiniteSetTheorems

(***************************************************************************)
(* What difflib matches: pairs of positions with equal lines, in the same  *)
(* order on both sides.                                                    *)
(***************************************************************************)
Pairs == [a: Nat, b: Nat]
Blocks(N) == [a: Nat \ {0}, b: Nat \ {0}, size: 1..N]

\* There is a longest block, and a first one among the longest.
LEMMA LongestIsBlock ==
  ASSUME NEW N \in Nat, NEW blocks \in SUBSET Blocks(N), blocks # {}
  PROVE  /\ LongestBlock(blocks) \in blocks
         /\ \A n \in blocks : Precedes(LongestBlock(blocks), n)
<1> USE DEF Blocks
<1> DEFINE sizes == {m.size : m \in blocks}
<1>1. sizes \in SUBSET (0..N) /\ sizes # {}
  OBVIOUS
<1> HIDE DEF sizes
<1>2. PICK size \in sizes : \A n \in sizes : n <= size
  BY <1>1, Greatest
<1> DEFINE longest == {m \in blocks : m.size = size}
           as == {m.a : m \in longest}
<1>3. as \in SUBSET Nat /\ as # {}
  BY <1>2 DEF sizes
<1> HIDE DEF as
<1>4. PICK a \in as : \A n \in as : a <= n
  BY <1>3, Least
<1> DEFINE firsts == {m \in longest : m.a = a}
           bs == {m.b : m \in firsts}
<1>5. bs \in SUBSET Nat /\ bs # {}
  BY <1>4 DEF as
<1> HIDE DEF bs
<1>6. PICK b \in bs : \A n \in bs : b <= n
  BY <1>5, Least
<1>7. PICK m \in blocks : m.size = size /\ m.a = a /\ m.b = b
  BY <1>6 DEF bs
<1>8. ASSUME NEW n \in blocks PROVE Precedes(m, n)
  <2>1. n.size \in sizes /\ n.size \in Nat /\ m.size \in Nat /\ n.size <= size
    BY <1>2 DEF sizes
  <2>2. CASE n.size < size
    BY <1>7, <2>2 DEF Precedes
  <2>3. CASE n.size = size
    <3>1. n.a \in as /\ n.a \in Nat /\ m.a \in Nat
      BY <2>3 DEF as
    <3>2. a <= n.a
      BY <1>4, <3>1
    <3>3. CASE n.a = a
      <4>1. n.b \in bs
        BY <2>3, <3>3 DEF bs
      <4>2. b <= n.b
        BY <1>6, <4>1
      <4> QED
        BY <1>7, <2>3, <3>3, <4>2 DEF Precedes
    <3>4. CASE n.a # a
      BY <1>7, <2>3, <3>1, <3>2, <3>4 DEF Precedes
    <3> QED
      BY <3>3, <3>4
  <2> QED
    BY <1>2, <1>7, <2>1, <2>2, <2>3
<1>9. \E k \in blocks : \A n \in blocks : Precedes(k, n)
  BY <1>8
<1> QED
  BY <1>9 DEF LongestBlock

\* A block of a range splits it into smaller ones.
LEMMA SplitRanges ==
  ASSUME NEW golden, Len(golden) \in Nat, NEW snapshot, NEW r \in Ranges,
         NEW blocks, blocks = CommonBlocks(golden, snapshot, r), blocks # {},
         NEW m, m = LongestBlock(blocks)
  PROVE  /\ m \in blocks
         /\ m.a \in Nat \ {0} /\ m.b \in Nat \ {0} /\ m.size \in Nat \ {0}
         /\ r.alo <= m.a /\ m.a + m.size - 1 <= r.ahi
         /\ r.blo <= m.b /\ m.b + m.size - 1 <= r.bhi
         /\ \A n \in 0..m.size - 1 : golden[m.a + n] = snapshot[m.b + n]
         /\ LeftOf(r, m) \in Ranges /\ RightOf(r, m) \in Ranges
<1>1. blocks \in SUBSET Blocks(Len(golden))
  BY DEF CommonBlocks, Ranges, Blocks
<1>2. m \in blocks
  BY <1>1, LongestIsBlock
<1>3. /\ m.a \in Nat \ {0} /\ m.b \in Nat \ {0} /\ m.size \in Nat \ {0}
      /\ r.alo <= m.a /\ m.a + m.size - 1 <= r.ahi
      /\ r.blo <= m.b /\ m.b + m.size - 1 <= r.bhi
      /\ \A n \in 0..m.size - 1 : golden[m.a + n] = snapshot[m.b + n]
  <2>1. r.alo \in Nat \ {0} /\ r.ahi \in Nat /\ r.blo \in Nat \ {0} /\ r.bhi \in Nat
    BY DEF Ranges
  <2>2. /\ m.a \in r.alo..r.ahi /\ m.b \in r.blo..r.bhi /\ m.size \in 1..Len(golden)
        /\ m.a + m.size - 1 <= r.ahi
        /\ m.b + m.size - 1 <= r.bhi
        /\ \A n \in 0..m.size - 1 : golden[m.a + n] = snapshot[m.b + n]
    BY <1>2 DEF CommonBlocks
  <2> QED
    BY <2>1, <2>2
<1>4. LeftOf(r, m) \in Ranges /\ RightOf(r, m) \in Ranges
  <2>1. /\ m.a - 1 \in Nat /\ m.b - 1 \in Nat
        /\ m.a + m.size \in Nat \ {0} /\ m.b + m.size \in Nat \ {0}
    <3>1. (\A i \in Nat \ {0} : i - 1 \in Nat) /\ \A i, j \in Nat \ {0} : i + j \in Nat \ {0}
      OBVIOUS
    <3>2. m.a \in Nat \ {0} /\ m.b \in Nat \ {0} /\ m.size \in Nat \ {0}
      BY <1>3
    <3> QED
      BY <3>1, <3>2, Zenon
  <2> QED
    BY <2>1 DEF LeftOf, RightOf, Ranges
<1> QED
  BY <1>2, <1>3, <1>4

\* The positions of golden in a range.
Width(r) == IF r.ahi < r.alo THEN 0 ELSE r.ahi + 1 - r.alo

LEMMA SplitsAreNarrower ==
  ASSUME NEW r \in Ranges, NEW m, m.a \in Nat \ {0}, m.b \in Nat \ {0}, m.size \in Nat \ {0},
         r.alo <= m.a, m.a + m.size - 1 <= r.ahi
  PROVE  Width(LeftOf(r, m)) < Width(r) /\ Width(RightOf(r, m)) < Width(r)
<1>1. LeftOf(r, m).ahi = m.a - 1 /\ LeftOf(r, m).alo = r.alo
  BY DEF LeftOf, Ranges
<1>2. RightOf(r, m).ahi = r.ahi /\ RightOf(r, m).alo = m.a + m.size
  BY DEF RightOf, Ranges
<1>3. r.alo \in Nat /\ r.ahi \in Nat
  BY DEF Ranges
<1> QED
  BY <1>1, <1>2, <1>3 DEF Width

\* One step of the recursion, with f for what the smaller ranges match.
Step(golden, snapshot, r, f) ==
  LET blocks == CommonBlocks(golden, snapshot, r)
      m == LongestBlock(blocks)
  IN  IF blocks = {} THEN {} ELSE f[LeftOf(r, m)] \cup Diagonal(m) \cup f[RightOf(r, m)]

MatchedOf(golden, snapshot) ==
  CHOOSE matched : matched = [r \in Ranges |->
    LET blocks == CommonBlocks(golden, snapshot, r)
        m == LongestBlock(blocks)
    IN  IF blocks = {}
          THEN {}
          ELSE matched[LeftOf(r, m)] \cup Diagonal(m) \cup matched[RightOf(r, m)]]

LEMMA MatchedIsDefined ==
  ASSUME NEW golden, Len(golden) \in Nat, NEW snapshot
  PROVE  /\ Matched(golden, snapshot) =
              MatchedOf(golden, snapshot)[[alo |-> 1, ahi |-> Len(golden),
                                           blo |-> 1, bhi |-> Len(snapshot)]]
         /\ \A r \in Ranges : MatchedOf(golden, snapshot)[r] =
                                Step(golden, snapshot, r, MatchedOf(golden, snapshot))
<1> DEFINE D == Ranges
           X == SUBSET Pairs
           mu == [r \in D |-> Width(r)]
           G == [p \in D \X [D -> X] |-> Step(golden, snapshot, p[1], p[2])]
<1>1. mu \in [D -> Nat] /\ X # {}
  <2>1. ASSUME NEW r \in Ranges PROVE Width(r) \in Nat
    <3>1. r.alo \in Nat /\ r.ahi \in Nat
      BY DEF Ranges
    <3> QED
      BY <3>1 DEF Width
  <2>2. {} \in X
    OBVIOUS
  <2> HIDE DEF X
  <2> QED
    BY <2>1, <2>2
<1>2. ASSUME NEW r \in D, NEW f \in [D -> X] PROVE Step(golden, snapshot, r, f) \in X
  <2> DEFINE blocks == CommonBlocks(golden, snapshot, r)
             m == LongestBlock(blocks)
  <2>1. CASE blocks = {}
    BY <2>1 DEF Step
  <2>2. CASE blocks # {}
    <3>1. /\ m.a \in Nat \ {0} /\ m.b \in Nat \ {0} /\ m.size \in Nat \ {0}
          /\ LeftOf(r, m) \in Ranges /\ RightOf(r, m) \in Ranges
      <4> HIDE DEF m
      <4> QED
        BY <2>2, SplitRanges DEF m
    <3>2. Step(golden, snapshot, r, f) = f[LeftOf(r, m)] \cup Diagonal(m) \cup f[RightOf(r, m)]
      BY <2>2 DEF Step
    <3> HIDE DEF m
    <3>3. Diagonal(m) \in X
      BY <3>1 DEF Diagonal, Pairs
    <3>4. f[LeftOf(r, m)] \in X /\ f[RightOf(r, m)] \in X
      BY <3>1
    <3> QED
      BY <3>2, <3>3, <3>4
  <2> QED
    BY <2>1, <2>2
<1>3. G \in [D \X [D -> X] -> X]
  <2> HIDE DEF D, X
  <2> QED
    BY <1>2
<1>4. LooksBelow(D, X, mu, G)
  <2> SUFFICES ASSUME NEW r \in D, NEW g \in [D -> X], NEW h \in [D -> X],
                      \A q \in D : mu[q] < mu[r] => g[q] = h[q]
               PROVE  G[<<r, g>>] = G[<<r, h>>]
    BY DEF LooksBelow
  <2> DEFINE blocks == CommonBlocks(golden, snapshot, r)
             m == LongestBlock(blocks)
  <2>1. G[<<r, g>>] = Step(golden, snapshot, r, g) /\ G[<<r, h>>] = Step(golden, snapshot, r, h)
    <3> HIDE DEF D, X
    <3> QED
      OBVIOUS
  <2>2. CASE blocks = {}
    BY <2>1, <2>2 DEF Step
  <2>3. CASE blocks # {}
    <3>1. /\ m.a \in Nat \ {0} /\ m.b \in Nat \ {0} /\ m.size \in Nat \ {0}
          /\ r.alo <= m.a /\ m.a + m.size - 1 <= r.ahi
          /\ LeftOf(r, m) \in Ranges /\ RightOf(r, m) \in Ranges
      <4> HIDE DEF m
      <4> QED
        BY <2>3, SplitRanges DEF m
    <3>2. /\ Step(golden, snapshot, r, g) = g[LeftOf(r, m)] \cup Diagonal(m) \cup g[RightOf(r, m)]
          /\ Step(golden, snapshot, r, h) = h[LeftOf(r, m)] \cup Diagonal(m) \cup h[RightOf(r, m)]
      BY <2>3 DEF Step
    <3> HIDE DEF m
    <3>3. Width(LeftOf(r, m)) < Width(r) /\ Width(RightOf(r, m)) < Width(r)
      BY <3>1, SplitsAreNarrower
    <3>4. g[LeftOf(r, m)] = h[LeftOf(r, m)] /\ g[RightOf(r, m)] = h[RightOf(r, m)]
      BY <3>1, <3>3
    <3> QED
      BY <2>1, <3>2, <3>4
  <2> QED
    BY <2>2, <2>3
<1> HIDE DEF mu
<1>5. PICK f \in [D -> X] : \A r \in D : f[r] = G[<<r, f>>]
  <2> HIDE DEF D, X, G
  <2>1. IsRecursion(D, X, mu, G)
    BY <1>1, <1>3, <1>4 DEF IsRecursion
  <2>2. HasSolution(D, X, G)
    BY <2>1, Recursion
  <2> QED
    BY <2>2 DEF HasSolution
<1>6. \A r \in D : f[r] = Step(golden, snapshot, r, f)
  <2> HIDE DEF D, X
  <2> QED
    BY <1>5
<1>7. f = [r \in Ranges |-> Step(golden, snapshot, r, f)]
  <2>1. f \in [Ranges -> X]
    BY <1>5
  <2> HIDE DEF X
  <2> QED
    BY <1>6, <2>1
<1> DEFINE k == MatchedOf(golden, snapshot)
<1>8. k = [r \in Ranges |-> Step(golden, snapshot, r, k)]
  BY <1>7 DEF MatchedOf, Step
<1>9. \A r \in Ranges : k[r] = Step(golden, snapshot, r, k)
  <2> HIDE DEF k
  <2> QED
    BY <1>8
<1>10. Matched(golden, snapshot) = k[[alo |-> 1, ahi |-> Len(golden), blo |-> 1, bhi |-> Len(snapshot)]]
  BY DEF Matched, MatchedOf
<1> QED
  BY <1>9, <1>10

\* What is matched in a range.
Sound(golden, snapshot, r, M) ==
  /\ M \subseteq Pairs
  /\ \A p \in M : /\ r.alo <= p.a /\ p.a <= r.ahi /\ r.blo <= p.b /\ p.b <= r.bhi
                  /\ golden[p.a] = snapshot[p.b]
  /\ \A p, q \in M : p.a < q.a <=> p.b < q.b

LEMMA StepIsSound ==
  ASSUME NEW golden, NEW snapshot, NEW r \in Ranges, NEW m,
         m.a \in Nat \ {0}, m.b \in Nat \ {0}, m.size \in Nat \ {0},
         r.alo <= m.a, m.a + m.size - 1 <= r.ahi, r.blo <= m.b, m.b + m.size - 1 <= r.bhi,
         \A n \in 0..m.size - 1 : golden[m.a + n] = snapshot[m.b + n],
         NEW L, Sound(golden, snapshot, LeftOf(r, m), L),
         NEW R, Sound(golden, snapshot, RightOf(r, m), R)
  PROVE  Sound(golden, snapshot, r, L \cup Diagonal(m) \cup R)
<1>1. r.alo \in Nat \ {0} /\ r.ahi \in Nat /\ r.blo \in Nat \ {0} /\ r.bhi \in Nat
  BY DEF Ranges
<1> DEFINE a == m.a
           b == m.b
           z == m.size
           O == Diagonal(m)
<1>2. /\ LeftOf(r, m).alo = r.alo /\ LeftOf(r, m).ahi = a - 1
      /\ LeftOf(r, m).blo = r.blo /\ LeftOf(r, m).bhi = b - 1
      /\ RightOf(r, m).alo = a + z /\ RightOf(r, m).ahi = r.ahi
      /\ RightOf(r, m).blo = b + z /\ RightOf(r, m).bhi = r.bhi
  BY DEF LeftOf, RightOf, Ranges
<1>3. /\ \A p \in L : /\ p.a \in Nat /\ p.b \in Nat /\ r.alo <= p.a /\ p.a <= a - 1
                      /\ r.blo <= p.b /\ p.b <= b - 1 /\ golden[p.a] = snapshot[p.b]
      /\ \A p, q \in L : p.a < q.a <=> p.b < q.b
      /\ L \subseteq Pairs
  BY <1>2 DEF Sound, Pairs
<1>4. /\ \A p \in R : /\ p.a \in Nat /\ p.b \in Nat /\ a + z <= p.a /\ p.a <= r.ahi
                      /\ b + z <= p.b /\ p.b <= r.bhi /\ golden[p.a] = snapshot[p.b]
      /\ \A p, q \in R : p.a < q.a <=> p.b < q.b
      /\ R \subseteq Pairs
  BY <1>2 DEF Sound, Pairs
<1>5. /\ \A p \in O : \E n \in 0..z - 1 : p.a = a + n /\ p.b = b + n
      /\ O \subseteq Pairs
  BY DEF Diagonal, Pairs
<1>6. /\ \A p \in O : /\ p.a \in Nat /\ p.b \in Nat /\ a <= p.a /\ p.a <= a + z - 1
                      /\ b <= p.b /\ p.b <= b + z - 1 /\ golden[p.a] = snapshot[p.b]
                      /\ p.a - a = p.b - b
      /\ O \subseteq Pairs
  BY <1>5
<1>7. a \in Nat /\ b \in Nat /\ z \in Nat \ {0}
  OBVIOUS
<1>8. r.alo <= a /\ a + z - 1 <= r.ahi /\ r.blo <= b /\ b + z - 1 <= r.bhi
  OBVIOUS
<1> HIDE DEF a, b, z, O
<1>9. L \cup O \cup R \subseteq Pairs
  BY <1>3, <1>4, <1>6
<1>10. ASSUME NEW p \in L \cup O \cup R
       PROVE  /\ r.alo <= p.a /\ p.a <= r.ahi /\ r.blo <= p.b /\ p.b <= r.bhi
              /\ golden[p.a] = snapshot[p.b]
  <2>1. CASE p \in L
    BY <1>1, <1>3, <1>7, <1>8, <2>1
  <2>2. CASE p \in O
    BY <1>1, <1>6, <1>7, <1>8, <2>2
  <2>3. CASE p \in R
    BY <1>1, <1>4, <1>7, <1>8, <2>3
  <2> QED
    BY <2>1, <2>2, <2>3
<1>11. ASSUME NEW p \in L \cup O \cup R, NEW q \in L \cup O \cup R
       PROVE  p.a < q.a <=> p.b < q.b
  <2>1. CASE p \in L /\ q \in L
    BY <1>3, <2>1
  <2>2. CASE p \in R /\ q \in R
    BY <1>4, <2>2
  <2>3. CASE p \in O /\ q \in O
    BY <1>6, <1>7, <2>3
  <2>4. CASE p \in L /\ q \in O \cup R
    BY <1>3, <1>4, <1>6, <1>7, <2>4
  <2>5. CASE p \in O /\ q \in R
    BY <1>4, <1>6, <1>7, <2>5
  <2>6. CASE p \in O \cup R /\ q \in L
    BY <1>3, <1>4, <1>6, <1>7, <2>6
  <2>7. CASE p \in R /\ q \in O
    BY <1>4, <1>6, <1>7, <2>7
  <2> QED
    BY <2>1, <2>2, <2>3, <2>4, <2>5, <2>6, <2>7
<1>12. Sound(golden, snapshot, r, L \cup O \cup R)
  BY <1>9, <1>10, <1>11 DEF Sound
<1> QED
  BY <1>12 DEF O

LEMMA MatchedIsSound ==
  ASSUME NEW golden, Len(golden) \in Nat, NEW snapshot
  PROVE  \A r \in Ranges : Sound(golden, snapshot, r, MatchedOf(golden, snapshot)[r])
<1> DEFINE k == MatchedOf(golden, snapshot)
           P == {n \in Nat : \A r \in Ranges : Width(r) = n => Sound(golden, snapshot, r, k[r])}
<1>1. \A r \in Ranges : k[r] = Step(golden, snapshot, r, k)
  BY MatchedIsDefined
<1> HIDE DEF k
<1>2. \A r \in Ranges : Width(r) \in Nat
  BY DEF Width, Ranges
<1>3. ASSUME NEW n \in Nat, \A i \in 0..(n - 1) : i \in P PROVE n \in P
  <2> SUFFICES ASSUME NEW r \in Ranges, Width(r) = n PROVE Sound(golden, snapshot, r, k[r])
    OBVIOUS
  <2> DEFINE blocks == CommonBlocks(golden, snapshot, r)
             m == LongestBlock(blocks)
  <2>1. CASE blocks = {}
    <3>1. k[r] = {}
      BY <1>1, <2>1 DEF Step
    <3> QED
      BY <3>1 DEF Sound
  <2>2. CASE blocks # {}
    <3>1. /\ m.a \in Nat \ {0} /\ m.b \in Nat \ {0} /\ m.size \in Nat \ {0}
          /\ r.alo <= m.a /\ m.a + m.size - 1 <= r.ahi
          /\ r.blo <= m.b /\ m.b + m.size - 1 <= r.bhi
          /\ \A j \in 0..m.size - 1 : golden[m.a + j] = snapshot[m.b + j]
          /\ LeftOf(r, m) \in Ranges /\ RightOf(r, m) \in Ranges
      <4> HIDE DEF m
      <4> QED
        BY <2>2, SplitRanges DEF m
    <3>2. k[r] = k[LeftOf(r, m)] \cup Diagonal(m) \cup k[RightOf(r, m)]
      BY <1>1, <2>2 DEF Step
    <3> HIDE DEF m
    <3>3. Width(LeftOf(r, m)) < Width(r) /\ Width(RightOf(r, m)) < Width(r)
      BY <3>1, SplitsAreNarrower
    <3>4. /\ Sound(golden, snapshot, LeftOf(r, m), k[LeftOf(r, m)])
          /\ Sound(golden, snapshot, RightOf(r, m), k[RightOf(r, m)])
      BY <1>2, <1>3, <3>1, <3>3
    <3>5. Sound(golden, snapshot, r, k[LeftOf(r, m)] \cup Diagonal(m) \cup k[RightOf(r, m)])
      BY <3>1, <3>4, StepIsSound, Zenon
    <3> QED
      BY <3>2, <3>5
  <2> QED
    BY <2>1, <2>2
<1> HIDE DEF P
<1>4. Nat \subseteq P
  BY <1>3, StrongInduction
<1> QED
  BY <1>2, <1>4 DEF P, k

\* A matching that keeps the order and leaves nothing out pairs each position
\* with itself.
LEMMA FullMatchIsIdentity ==
  ASSUME NEW n \in Nat, NEW k \in Nat, NEW M \in SUBSET Pairs,
         \A p, q \in M : p.a < q.a <=> p.b < q.b,
         \A p \in M : p.a \in 1..n /\ p.b \in 1..k,
         \A i \in 1..n : \E p \in M : p.a = i,
         \A i \in 1..k : \E p \in M : p.b = i
  PROVE  n = k /\ \A p \in M : p.a = p.b
<1>1. \A p \in M : p.a \in 1..n /\ p.b \in 1..k
  OBVIOUS
<1>2. (\A i \in 1..n : \E p \in M : p.a = i) /\ (\A i \in 1..k : \E p \in M : p.b = i)
  OBVIOUS
<1>3. \A p, q \in M : p.a < q.a <=> p.b < q.b
  OBVIOUS
<1> DEFINE P == {i \in Nat : \A p \in M : p.a = i \/ p.b = i => p.a = p.b}
<1>4. ASSUME NEW i \in Nat, \A j \in 0..(i - 1) : j \in P PROVE i \in P
  <2>1. ASSUME NEW p \in M, p.a = i, p.b # i PROVE FALSE
    <3>1. CASE p.b < i
      <4>1. p.b \in P
        BY <1>1, <1>4, <3>1
      <4> QED
        BY <2>1, <4>1
    <3>2. CASE p.b > i
      <4>1. i \in 1..k
        BY <1>1, <2>1, <3>2
      <4>2. PICK q \in M : q.b = i
        BY <1>2, <4>1
      <4>3. q.a < i
        BY <1>3, <2>1, <3>2, <4>2
      <4>4. q.a \in P
        BY <1>1, <1>4, <4>3
      <4> QED
        BY <1>1, <4>2, <4>3, <4>4
    <3> QED
      BY <1>1, <2>1, <3>1, <3>2
  <2>2. ASSUME NEW p \in M, p.b = i, p.a # i PROVE FALSE
    <3>1. CASE p.a < i
      <4>1. p.a \in P
        BY <1>1, <1>4, <3>1
      <4> QED
        BY <2>2, <4>1
    <3>2. CASE p.a > i
      <4>1. i \in 1..n
        BY <1>1, <2>2, <3>2
      <4>2. PICK q \in M : q.a = i
        BY <1>2, <4>1
      <4>3. q.b < i
        BY <1>3, <2>2, <3>2, <4>2
      <4>4. q.b \in P
        BY <1>1, <1>4, <4>3
      <4> QED
        BY <1>1, <4>2, <4>3, <4>4
    <3> QED
      BY <1>1, <2>2, <3>1, <3>2
  <2> QED
    BY <2>1, <2>2
<1> HIDE DEF P
<1>5. Nat \subseteq P
  BY <1>4, StrongInduction
<1>6. \A p \in M : p.a = p.b
  BY <1>1, <1>5 DEF P
<1>7. 1..n = 1..k
  <2>1. \A i \in 1..n : i \in 1..k
    BY <1>1, <1>2, <1>6
  <2>2. \A i \in 1..k : i \in 1..n
    BY <1>1, <1>2, <1>6
  <2> QED
    BY <2>1, <2>2
<1>8. n = k
  BY <1>7
<1> QED
  BY <1>6, <1>8
LEMMA MatchedIsIdentity ==
  ASSUME NEW T, NEW golden \in Seq(T), NEW snapshot \in Seq(T),
         {p.a : p \in Matched(golden, snapshot)} = DOMAIN golden,
         {p.b : p \in Matched(golden, snapshot)} = DOMAIN snapshot
  PROVE  golden = snapshot
<1> DEFINE top == [alo |-> 1, ahi |-> Len(golden), blo |-> 1, bhi |-> Len(snapshot)]
           M == Matched(golden, snapshot)
<1>1. top \in Ranges
  BY DEF Ranges
<1>2. Sound(golden, snapshot, top, M)
  <2>1. Len(golden) \in Nat /\ M = MatchedOf(golden, snapshot)[top]
    BY MatchedIsDefined
  <2> HIDE DEF top, M
  <2> QED
    BY <1>1, <2>1, MatchedIsSound
<1>3. /\ M \in SUBSET Pairs /\ \A p, q \in M : p.a < q.a <=> p.b < q.b
      /\ \A p \in M : golden[p.a] = snapshot[p.b]
  BY <1>2 DEF Sound
<1>4. DOMAIN golden = 1..Len(golden) /\ DOMAIN snapshot = 1..Len(snapshot)
  OBVIOUS
<1>5. {p.a : p \in M} = 1..Len(golden) /\ {p.b : p \in M} = 1..Len(snapshot)
  BY <1>4
<1> HIDE DEF M
<1>6. Len(golden) = Len(snapshot) /\ \A p \in M : p.a = p.b
  <2>1. PICK n \in Nat, k \in Nat : n = Len(golden) /\ k = Len(snapshot)
    OBVIOUS
  <2>2. /\ \A p \in M : p.a \in 1..n /\ p.b \in 1..k
        /\ \A i \in 1..n : \E p \in M : p.a = i
        /\ \A i \in 1..k : \E p \in M : p.b = i
    BY <1>5, <2>1
  <2>3. n = k /\ \A p \in M : p.a = p.b
    BY <1>3, <2>2, FullMatchIsIdentity
  <2> QED
    BY <2>1, <2>3
<1>7. \A i \in 1..Len(golden) : golden[i] = snapshot[i]
  <2> SUFFICES ASSUME NEW i \in 1..Len(golden) PROVE golden[i] = snapshot[i]
    OBVIOUS
  <2>1. PICK p \in M : p.a = i
    BY <1>5
  <2> QED
    BY <1>3, <1>6, <2>1
<1> QED
  BY <1>6, <1>7

LEMMA EqualTextsMatch ==
  ASSUME NEW T, NEW golden \in Seq(T), golden # <<>>
  PROVE  /\ {p.a : p \in Matched(golden, golden)} = DOMAIN golden
         /\ {p.b : p \in Matched(golden, golden)} = DOMAIN golden
<1> DEFINE N == Len(golden)
           r == [alo |-> 1, ahi |-> N, blo |-> 1, bhi |-> N]
           blocks == CommonBlocks(golden, golden, r)
           m == LongestBlock(blocks)
           whole == [a |-> 1, b |-> 1, size |-> N]
           k == MatchedOf(golden, golden)
           M == Matched(golden, golden)
<1>1. N \in Nat \ {0} /\ DOMAIN golden = 1..N /\ r \in Ranges
  BY DEF Ranges
<1>2. M = k[r] /\ k[r] = Step(golden, golden, r, k)
  BY <1>1, MatchedIsDefined
<1>3. whole \in blocks
  BY <1>1 DEF CommonBlocks
<1>4. blocks \in SUBSET Blocks(N)
  BY <1>1 DEF CommonBlocks, Blocks
<1>5. m \in blocks /\ Precedes(m, whole)
  <2> HIDE DEF blocks, whole, N
  <2> QED
    BY <1>1, <1>3, <1>4, LongestIsBlock
<1>6. m.a = 1 /\ m.b = 1 /\ m.size = N
  <2>1. whole.a = 1 /\ whole.b = 1 /\ whole.size = N
    OBVIOUS
  <2>2. m.a \in Nat \ {0} /\ m.b \in Nat \ {0} /\ m.size \in 1..N
    <3> HIDE DEF m, blocks
    <3> QED
      BY <1>4, <1>5 DEF Blocks
  <2> HIDE DEF m, whole, N
  <2> QED
    BY <1>1, <1>5, <2>1, <2>2 DEF Precedes
<1>7. Diagonal(m) \subseteq M
  <2>1. k[r] = k[LeftOf(r, m)] \cup Diagonal(m) \cup k[RightOf(r, m)]
    BY <1>2, <1>3 DEF Step
  <2> HIDE DEF m, k, M
  <2> QED
    BY <1>2, <2>1
<1>8. \A i \in 1..N : [a |-> i, b |-> i] \in M
  <2> HIDE DEF m, M, N
  <2> SUFFICES ASSUME NEW i \in 1..N PROVE [a |-> i, b |-> i] \in M
    OBVIOUS
  <2>1. i - 1 \in 0..N - 1 /\ 1 + (i - 1) = i
    BY <1>1
  <2>2. [a |-> m.a + (i - 1), b |-> m.b + (i - 1)] \in Diagonal(m)
    BY <1>6, <2>1 DEF Diagonal
  <2> QED
    BY <1>6, <1>7, <2>1, <2>2
<1>9. \A p \in M : p.a \in 1..N /\ p.b \in 1..N
  <2>1. Sound(golden, golden, r, M)
    <3> HIDE DEF r
    <3> QED
      BY <1>1, <1>2, MatchedIsSound
  <2> HIDE DEF M, N
  <2> QED
    BY <1>1, <2>1 DEF Sound, Pairs
<1>10. {p.a : p \in M} = 1..N /\ {p.b : p \in M} = 1..N
  <2> HIDE DEF M, N
  <2>1. ASSUME NEW i \in 1..N PROVE (\E p \in M : p.a = i) /\ (\E p \in M : p.b = i)
    <3>1. PICK p \in M : p = [a |-> i, b |-> i]
      BY <1>8
    <3>2. p.a = i /\ p.b = i
      BY <3>1
    <3> QED
      BY <3>2
  <2> QED
    BY <1>9, <2>1
<1> QED
  BY <1>1, <1>10

(***************************************************************************)
(* The verdict.                                                            *)
(***************************************************************************)
LEMMA AtIsEmpty ==
  ASSUME NEW T, NEW s \in Seq(T), NEW is
  PROVE  Len(At(s, is)) \in Nat /\ (Len(At(s, is)) = 0 <=> DOMAIN s \cap is = {})
<1> DEFINE places == [i \in DOMAIN s |-> i]
           order == Kept(places, is)
<1>1. places \in Seq(Nat) /\ Len(places) = Len(s) /\ \A i \in 1..Len(s) : places[i] = i
  OBVIOUS
<1> HIDE DEF places
<1>2. order \in Seq(Nat) /\ (order = <<>> <=> \A i \in 1..Len(s) : i \notin is)
  <2>1. order \in Seq(Nat) /\ (order = <<>> <=> \A i \in 1..Len(places) : places[i] \notin is)
    BY <1>1, KeptElements
  <2> QED
    BY <1>1, <2>1
<1>3. At(s, is) = [n \in DOMAIN order |-> s[order[n]]]
  BY DEF At, places
<1> HIDE DEF order
<1>4. DOMAIN order = 1..Len(order) /\ Len(order) \in Nat /\ (order = <<>> <=> Len(order) = 0)
  BY <1>2
<1>5. Len(At(s, is)) = Len(order)
  BY <1>3, <1>4
<1> QED
  BY <1>2, <1>4, <1>5

LEMMA SetToSeqIsEmpty ==
  ASSUME NEW S, IsFiniteSet(S)
  PROVE  Len(SetToSeq(S)) \in Nat /\ (Len(SetToSeq(S)) = 0 <=> S = {})
<1>1. Cardinality(S) \in Nat /\ (Cardinality(S) = 0 <=> S = {})
  BY FS_CardinalityType, FS_EmptySet
<1>2. \E f \in [1..Cardinality(S) -> S] : IsInjective(f)
  <2>1. ExistsBijection(1..Cardinality(S), S)
    BY FS_CardinalityType
  <2> QED
    BY <2>1 DEF ExistsBijection, Bijection, Injection, IsInjective
<1>3. SetToSeq(S) \in [1..Cardinality(S) -> S]
  BY <1>2 DEF SetToSeq
<1>4. Len(SetToSeq(S)) = Cardinality(S)
  BY <1>1, <1>3
<1> QED
  BY <1>1, <1>4

LEMMA ElementsFinite ==
  ASSUME NEW T, NEW s \in Seq(T)
  PROVE  IsFiniteSet(ToSet(s))
<1>1. IsFiniteSet(1..Len(s))
  BY FS_Interval
<1>2. DOMAIN s = 1..Len(s)
  OBVIOUS
<1>3. IsFiniteSet({s[i] : i \in DOMAIN s})
  <2>1. [i \in DOMAIN s |-> s[i]] \in Surjection(DOMAIN s, {s[i] : i \in DOMAIN s})
    BY DEF Surjection
  <2> QED
    BY <1>1, <1>2, <2>1, FS_Surjection
<1> QED
  BY <1>3 DEF ToSet

LEMMA DriftOf ==
  ASSUME NEW unchanged, NEW added, Len(added) \in Nat, NEW removed, Len(removed) \in Nat, NEW mode
  PROVE  HasDrift(BuildTree(unchanged, added, removed, mode).summary) <=>
           Len(added) # 0 \/ Len(removed) # 0
<1>1. BuildTree(unchanged, added, removed, mode).summary =
        [added |-> Len(added), removed |-> Len(removed), changed |-> 0, unchanged |-> Len(unchanged)]
  BY DEF BuildTree
<1> QED
  BY <1>1 DEF HasDrift

LEMMA OrderedVerdict ==
  ASSUME NEW T, NEW golden \in Seq(T), NEW snapshot \in Seq(T), golden # <<>>
  PROVE  HasDrift(OrderedDiff(golden, snapshot).summary) <=> golden # snapshot
<1> DEFINE M == Matched(golden, snapshot)
           inGolden == {m.a : m \in M}
           inSnapshot == {m.b : m \in M}
           same == At(golden, inGolden)
           added == At(snapshot, DOMAIN snapshot \ inSnapshot)
           removed == At(golden, DOMAIN golden \ inGolden)
<1>1. OrderedDiff(golden, snapshot) = BuildTree(same, added, removed, "ordered")
  BY DEF OrderedDiff
<1>2. /\ Len(added) \in Nat /\ (Len(added) = 0 <=> DOMAIN snapshot \subseteq inSnapshot)
      /\ Len(removed) \in Nat /\ (Len(removed) = 0 <=> DOMAIN golden \subseteq inGolden)
  <2> HIDE DEF inGolden, inSnapshot
  <2> QED
    BY AtIsEmpty
<1>3. inGolden \subseteq DOMAIN golden /\ inSnapshot \subseteq DOMAIN snapshot
  <2> DEFINE top == [alo |-> 1, ahi |-> Len(golden), blo |-> 1, bhi |-> Len(snapshot)]
  <2>1. top \in Ranges
    BY DEF Ranges
  <2>2. Sound(golden, snapshot, top, M)
    <3>1. Len(golden) \in Nat /\ M = MatchedOf(golden, snapshot)[top]
      BY MatchedIsDefined
    <3> HIDE DEF top, M
    <3> QED
      BY <2>1, <3>1, MatchedIsSound
  <2>3. \A p \in M : p.a \in 1..Len(golden) /\ p.b \in 1..Len(snapshot)
    <3> HIDE DEF M
    <3> QED
      BY <2>2 DEF Sound, Pairs
  <2> HIDE DEF M
  <2> QED
    BY <2>3
<1>4. HasDrift(OrderedDiff(golden, snapshot).summary) <=> Len(added) # 0 \/ Len(removed) # 0
  <2> HIDE DEF added, removed, same
  <2> QED
    BY <1>1, <1>2, DriftOf
<1>5. ASSUME inGolden = DOMAIN golden, inSnapshot = DOMAIN snapshot PROVE golden = snapshot
  BY <1>5, MatchedIsIdentity
<1>6. ASSUME golden = snapshot PROVE inGolden = DOMAIN golden /\ inSnapshot = DOMAIN snapshot
  BY <1>6, EqualTextsMatch
<1> HIDE DEF inGolden, inSnapshot, added, removed
<1> QED
  BY <1>2, <1>3, <1>4, <1>5, <1>6

LEMMA SetVerdict ==
  ASSUME NEW T, NEW golden \in Seq(T), NEW snapshot \in Seq(T)
  PROVE  HasDrift(SetDiff(golden, snapshot).summary) <=> ToSet(golden) # ToSet(snapshot)
<1> DEFINE G == ToSet(golden)
           S == ToSet(snapshot)
           same == SetToSeq(G \cap S)
           added == SetToSeq(S \ G)
           removed == SetToSeq(G \ S)
<1>1. SetDiff(golden, snapshot) = BuildTree(same, added, removed, "set")
  BY DEF SetDiff
<1>2. IsFiniteSet(S \ G) /\ IsFiniteSet(G \ S)
  BY ElementsFinite, FS_Subset
<1>3. /\ Len(added) \in Nat /\ (Len(added) = 0 <=> S \ G = {})
      /\ Len(removed) \in Nat /\ (Len(removed) = 0 <=> G \ S = {})
  BY <1>2, SetToSeqIsEmpty
<1>4. HasDrift(SetDiff(golden, snapshot).summary) <=> Len(added) # 0 \/ Len(removed) # 0
  <2> HIDE DEF added, removed, same
  <2> QED
    BY <1>1, <1>3, DriftOf
<1> HIDE DEF added, removed
<1> QED
  BY <1>3, <1>4
(***************************************************************************)
(* The job: normalisation and the verdict together.                        *)
(***************************************************************************)
LinesOf(text) == [i \in DOMAIN text |-> text[i].line]

LEMMA LinesAre ==
  ASSUME NEW text \in Seq(TextLines)
  PROVE  /\ LinesOf(text) \in Seq(TokenLines) /\ Len(LinesOf(text)) = Len(text)
         /\ \A i \in 1..Len(text) : LinesOf(text)[i] = text[i].line
<1>1. DOMAIN text = 1..Len(text) /\ Len(text) \in Nat
  OBVIOUS
<1>2. \A i \in 1..Len(text) : text[i].line \in TokenLines
  <2>1. \A i \in 1..Len(text) : text[i] \in TextLines
    OBVIOUS
  <2> QED
    BY <2>1 DEF TextLines
<1>3. PICK lines : lines = [i \in 1..Len(text) |-> text[i].line]
  OBVIOUS
<1>4. lines \in Seq(TokenLines) /\ Len(lines) = Len(text)
  BY <1>1, <1>2, <1>3
<1>5. LinesOf(text) = lines
  BY <1>1, <1>3 DEF LinesOf
<1> QED
  BY <1>3, <1>4, <1>5

LEMMA NormalizedLines ==
  ASSUME NEW text \in Seq(TextLines)
  PROVE  /\ NormalizeLines(text) = Kept(LinesOf(text), ToSet(LinesOf(text)) \ Noise)
         /\ NormalizeLines(text) \in Seq(TokenLines)
<1>1. NormalizeLines(text) = Kept(LinesOf(text), ToSet(LinesOf(text)) \ Noise)
  BY DEF NormalizeLines, LinesOf
<1>2. LinesOf(text) \in Seq(TokenLines)
  BY LinesAre
<1> QED
  BY <1>1, <1>2, KeptElements

\* A line that is noise may as well be missing, ...
LEMMA NoiseDropped ==
  ASSUME NEW text \in Seq(TextLines), NEW i \in 1..Len(text), text[i].line \in Noise
  PROVE  NormalizeLines(WithoutLine(text, i)) = NormalizeLines(text)
<1> DEFINE less == WithoutLine(text, i)
           lines == LinesOf(text)
           fewer == LinesOf(less)
           cut == Cut(lines, i)
           S == ToSet(lines) \ Noise
           R == ToSet(fewer) \ Noise
<1>1. /\ lines \in Seq(TokenLines) /\ Len(lines) = Len(text)
      /\ \A j \in 1..Len(text) : lines[j] = text[j].line
  BY LinesAre
<1>2. /\ less \in Seq(TextLines) /\ Len(less) = Len(text) - 1
      /\ \A n \in 1..(Len(text) - 1) : less[n] = IF n < i THEN text[n] ELSE text[n + 1]
  <2>1. less = Cut(text, i)
    BY DEF WithoutLine, Cut
  <2> HIDE DEF less
  <2> QED
    BY <2>1, CutIs
<1>3. /\ cut \in Seq(TokenLines) /\ Len(cut) = Len(text) - 1
      /\ \A n \in 1..(Len(text) - 1) : cut[n] = IF n < i THEN lines[n] ELSE lines[n + 1]
  <2> HIDE DEF lines
  <2>1. i \in 1..Len(lines)
    BY <1>1
  <2>2. /\ Cut(lines, i) \in Seq(TokenLines) /\ Len(Cut(lines, i)) = Len(lines) - 1
        /\ \A n \in 1..(Len(lines) - 1) :
             Cut(lines, i)[n] = IF n < i THEN lines[n] ELSE lines[n + 1]
    BY <1>1, <2>1, CutIs
  <2> QED
    BY <1>1, <2>2
<1> HIDE DEF less
<1>4. fewer \in Seq(TokenLines) /\ Len(fewer) = Len(less)
      /\ \A n \in 1..Len(less) : fewer[n] = less[n].line
  BY <1>2, LinesAre
<1> HIDE DEF lines, fewer, cut
<1>5. fewer = cut
  <2>1. Len(text) \in Nat /\ Len(fewer) = Len(cut)
    BY <1>2, <1>3, <1>4
  <2>2. \A n \in 1..Len(cut) : fewer[n] = cut[n]
    <3> SUFFICES ASSUME NEW n \in 1..Len(cut) PROVE fewer[n] = cut[n]
      OBVIOUS
    <3>1. n \in 1..(Len(text) - 1) /\ n \in 1..Len(text) /\ n + 1 \in 1..Len(text)
      BY <1>3, <2>1
    <3>2. fewer[n] = less[n].line
      BY <1>2, <1>4, <3>1
    <3> QED
      BY <1>1, <1>2, <1>3, <3>1, <3>2
  <2> QED
    BY <1>3, <1>4, <2>1, <2>2, SameSequence
<1>6. lines[i] \notin S
  BY <1>1
<1>7. Kept(cut, S) = Kept(lines, S)
  <2> HIDE DEF S
  <2>1. i \in 1..Len(lines)
    BY <1>1
  <2> QED
    BY <1>1, <1>6, <2>1, KeptWithout DEF cut
<1>8. Kept(cut, S) = Kept(cut, R)
  <2>1. \A n \in 1..Len(cut) : cut[n] \in S <=> cut[n] \in R
    <3> SUFFICES ASSUME NEW n \in 1..Len(cut) PROVE cut[n] \in ToSet(lines) /\ cut[n] \in ToSet(fewer)
      OBVIOUS
    <3>1. n \in 1..(Len(text) - 1) /\ n \in 1..Len(text) /\ n + 1 \in 1..Len(text)
      BY <1>3
    <3>2. DOMAIN lines = 1..Len(text) /\ DOMAIN fewer = 1..Len(cut)
      BY <1>1, <1>3, <1>5
    <3>3. cut[n] = fewer[n] /\ (cut[n] = lines[n] \/ cut[n] = lines[n + 1])
      BY <1>3, <1>5, <3>1
    <3> QED
      BY <3>1, <3>2, <3>3 DEF ToSet
  <2> HIDE DEF S, R
  <2> QED
    BY <1>3, <2>1, KeptBySame
<1>9. /\ NormalizeLines(text) = Kept(lines, S)
      /\ NormalizeLines(less) = Kept(fewer, R)
  BY <1>2, NormalizedLines DEF lines, fewer
<1> QED
  BY <1>5, <1>7, <1>8, <1>9 DEF less

\* ... and white space at the end of a line too.
LEMMA SpacesDropped ==
  ASSUME NEW text \in Seq(TextLines), NEW i \in 1..Len(text)
  PROVE  NormalizeLines([text EXCEPT ![i].spaces = FALSE]) = NormalizeLines(text)
<1> DEFINE cut == [text EXCEPT ![i].spaces = FALSE]
<1>1. DOMAIN cut = DOMAIN text
  OBVIOUS
<1>2. \A j \in DOMAIN text : cut[j].line = text[j].line
  <2>1. \A j \in DOMAIN text : text[j] \in TextLines
    OBVIOUS
  <2>2. \A j \in DOMAIN text : cut[j] = IF j = i THEN [text[i] EXCEPT !.spaces = FALSE] ELSE text[j]
    OBVIOUS
  <2>3. [text[i] EXCEPT !.spaces = FALSE].line = text[i].line
    BY <2>1 DEF TextLines
  <2> HIDE DEF cut
  <2> QED
    BY <2>2, <2>3
<1> HIDE DEF cut
<1>3. [j \in DOMAIN cut |-> cut[j].line] = [j \in DOMAIN text |-> text[j].line]
  BY <1>1, <1>2
<1>4. NormalizeLines(cut) = NormalizeLines(text)
  BY <1>3 DEF NormalizeLines
<1> QED
  BY <1>4 DEF cut

Verdict(golden, actual, mode) ==
  LET agree == IF mode = "set" THEN ToSet(golden) = ToSet(actual) ELSE golden = actual
  IN  CASE golden = <<>> \/ actual = <<>> -> "error"
        [] golden # <<>> /\ actual # <<>> /\ agree -> "compliant"
        [] OTHER -> "drift"

LEMMA RunComplianceVerdict ==
  ASSUME NEW goldenText \in Seq(TextLines), NEW snapshotText \in Seq(TextLines), NEW requested,
         NEW o, o = RunCompliance(goldenText, snapshotText, requested)
  PROVE  o.result = Verdict(NormalizeLines(goldenText), NormalizeLines(snapshotText), o.mode)
<1> DEFINE golden == NormalizeLines(goldenText)
           snapshot == NormalizeLines(snapshotText)
           mode == EffectiveMode(requested)
<1>1. golden \in Seq(TokenLines) /\ snapshot \in Seq(TokenLines)
  BY NormalizedLines
<1>2. o = CASE golden = <<>> -> NotCompared("golden is empty", mode)
            [] golden # <<>> /\ snapshot = <<>> -> NotCompared("snapshot is empty", mode)
            [] golden # <<>> /\ snapshot # <<>> /\ mode = "set" ->
                 Compared(SetDiff(golden, snapshot), mode)
            [] OTHER -> Compared(OrderedDiff(golden, snapshot), mode)
  BY DEF RunCompliance
<1> HIDE DEF golden, snapshot, mode
<1>3. CASE golden = <<>> \/ snapshot = <<>>
  <2>1. PICK warning : o = NotCompared(warning, mode)
    BY <1>2, <1>3
  <2>2. o.result = "error"
    BY <2>1 DEF NotCompared
  <2> QED
    BY <1>3, <2>2 DEF Verdict, golden, snapshot
<1>4. CASE golden # <<>> /\ snapshot # <<>> /\ mode = "set"
  <2>1. o = Compared(SetDiff(golden, snapshot), mode)
    BY <1>2, <1>4
  <2>2. o.mode = "set" /\ o.result = IF ToSet(golden) = ToSet(snapshot) THEN "compliant" ELSE "drift"
    BY <1>1, <1>4, <2>1, SetVerdict DEF Compared
  <2> QED
    BY <1>4, <2>2 DEF Verdict, golden, snapshot
<1>5. CASE golden # <<>> /\ snapshot # <<>> /\ mode # "set"
  <2>1. o = Compared(OrderedDiff(golden, snapshot), mode)
    BY <1>2, <1>5
  <2>2. o.mode # "set" /\ o.result = IF golden = snapshot THEN "compliant" ELSE "drift"
    BY <1>1, <1>5, <2>1, OrderedVerdict DEF Compared
  <2> QED
    BY <1>5, <2>2 DEF Verdict, golden, snapshot
<1> QED
  BY <1>3, <1>4, <1>5

(***************************************************************************)
(* The diff tree of the lines.                                             *)
(***************************************************************************)
\* Sets whose elements correspond have as many.
Pairing(f, S, T) ==
  /\ \A x \in S : f[x] \in T
  /\ \A x, y \in S : f[x] = f[y] => x = y
  /\ \A z \in T : \E x \in S : f[x] = z

LEMMA SameSize ==
  ASSUME NEW S, IsFiniteSet(S), NEW T, NEW f, Pairing(f, S, T)
  PROVE  IsFiniteSet(T) /\ Cardinality(T) = Cardinality(S)
<1> USE DEF Pairing
<1> DEFINE g == [x \in S |-> f[x]]
<1>1. g \in Bijection(S, T)
  <2>1. g \in [S -> T] /\ \A x \in S : g[x] = f[x]
    OBVIOUS
  <2> HIDE DEF g
  <2>2. g \in Injection(S, T) /\ g \in Surjection(S, T)
    BY <2>1 DEF Injection, Surjection, IsInjective
  <2> QED
    BY <2>2 DEF Bijection
<1>2. ExistsBijection(S, T)
  BY <1>1 DEF ExistsBijection
<1> QED
  BY <1>2, FS_Bijection

LEMMA PlacesFinite ==
  ASSUME NEW N \in Nat, NEW S \in SUBSET (1..N)
  PROVE  IsFiniteSet(S) /\ Cardinality(S) \in Nat /\ Cardinality(S) <= N
<1>1. IsFiniteSet(1..N) /\ Cardinality(1..N) = N
  <2>1. IsFiniteSet(1..N) /\ Cardinality(1..N) = IF 1 > N THEN 0 ELSE N - 1 + 1
    BY FS_Interval
  <2> QED
    BY <2>1
<1>2. IsFiniteSet(S) /\ Cardinality(S) <= Cardinality(1..N)
  BY <1>1, FS_Subset
<1> QED
  BY <1>1, <1>2, FS_CardinalityType

\* How often the line of a leaf has been there so far.
NumberOf(leaves, n) == Cardinality({i \in 1..n : leaves[i].line = leaves[n].line})

LEMMA NumbersGrow ==
  ASSUME NEW N \in Nat, NEW leaves, NEW i \in 1..N, NEW j \in 1..N,
         i < j, leaves[i].line = leaves[j].line
  PROVE  /\ NumberOf(leaves, i) \in 1..N /\ NumberOf(leaves, j) \in 2..N
         /\ NumberOf(leaves, i) < NumberOf(leaves, j)
<1> DEFINE A == {k \in 1..i : leaves[k].line = leaves[i].line}
           B == {k \in 1..j : leaves[k].line = leaves[j].line}
<1>1. A \in SUBSET (1..N) /\ B \in SUBSET (1..N)
  OBVIOUS
<1>2. A \subseteq B /\ i \in A /\ j \in B /\ j \notin A
  OBVIOUS
<1>3. NumberOf(leaves, i) = Cardinality(A) /\ NumberOf(leaves, j) = Cardinality(B)
  BY DEF NumberOf
<1> HIDE DEF A, B
<1>4. /\ IsFiniteSet(A) /\ Cardinality(A) \in Nat /\ Cardinality(A) <= N
      /\ IsFiniteSet(B) /\ Cardinality(B) \in Nat /\ Cardinality(B) <= N
  BY <1>1, PlacesFinite
<1>5. Cardinality(A) <= Cardinality(B) /\ (Cardinality(A) = Cardinality(B) => A = B)
  BY <1>2, <1>4, FS_Subset
<1>6. Cardinality(A) # 0
  BY <1>2, <1>4, FS_EmptySet
<1> QED
  BY <1>2, <1>3, <1>4, <1>5, <1>6

LEMMA PlacesCounted ==
  ASSUME NEW N \in Nat
  PROVE  IsFiniteSet(1..N) /\ Cardinality(1..N) = N
<1>1. IsFiniteSet(1..N) /\ Cardinality(1..N) = IF 1 > N THEN 0 ELSE N - 1 + 1
  BY FS_Interval
<1> QED
  BY <1>1

LEMMA NumberIs ==
  ASSUME NEW N \in Nat, NEW leaves, NEW i \in 1..N
  PROVE  NumberOf(leaves, i) \in 1..N
<1> DEFINE A == {k \in 1..i : leaves[k].line = leaves[i].line}
<1>1. A \in SUBSET (1..N) /\ i \in A
  OBVIOUS
<1>2. NumberOf(leaves, i) = Cardinality(A)
  BY DEF NumberOf
<1> HIDE DEF A
<1>3. IsFiniteSet(A) /\ Cardinality(A) \in Nat /\ Cardinality(A) <= N
  BY <1>1, PlacesFinite
<1>4. Cardinality(A) # 0
  BY <1>1, <1>3, FS_EmptySet
<1> QED
  BY <1>2, <1>3, <1>4

\* Leaves that no numbered key can be mistaken for: no line is repeated, or no
\* line ends in a number that the key of another one could end in.
Distinct(leaves, N) == \A i, j \in 1..N : leaves[i].line = leaves[j].line => i = j
Unambiguous(leaves, N) ==
  \A i, j \in 1..N, n \in 2..N : leaves[j].line # Append(leaves[i].line, n)

LEMMA AppendsDiffer ==
  ASSUME NEW T, NEW s \in Seq(T), NEW t \in Seq(T), NEW m \in T, NEW n \in T,
         Append(s, m) = Append(t, n)
  PROVE  s = t /\ m = n
<1>1. Len(s) = Len(t)
  BY AppendIs
<1>2. m = n /\ \A i \in 1..Len(t) : s[i] = t[i]
  BY <1>1, AppendIs
<1> QED
  BY <1>1, <1>2, SameSequence

KeysApart(leaves, N) == \A i, j \in 1..N : Key(leaves, i) = Key(leaves, j) => i = j

LEMMA KeysDiffer ==
  ASSUME NEW N \in Nat, NEW leaves, \A n \in 1..N : leaves[n].line \in TokenLines,
         Distinct(leaves, N) \/ Unambiguous(leaves, N)
  PROVE  KeysApart(leaves, N)
<1> USE DEF KeysApart
<1> DEFINE num(n) == NumberOf(leaves, n)
           l(n) == leaves[n].line
<1>1. \A n \in 1..N : Key(leaves, n) = IF num(n) = 1 THEN l(n) ELSE Append(l(n), num(n))
  BY DEF Key, NumberOf
<1>2. \A n \in 1..N : num(n) \in 1..N
  BY NumberIs
<1>3. \A i, j \in 1..N : i < j /\ l(i) = l(j) => num(i) < num(j) /\ num(i) # num(j) /\ num(j) # 1
  <2> SUFFICES ASSUME NEW i \in 1..N, NEW j \in 1..N, i < j, l(i) = l(j)
               PROVE  num(i) < num(j) /\ num(i) # num(j) /\ num(j) # 1
    OBVIOUS
  <2>1. num(i) \in 1..N /\ num(j) \in 2..N /\ num(i) < num(j)
    BY NumbersGrow
  <2> HIDE DEF num
  <2> QED
    BY <2>1
<1>4. \A i, j \in 1..N : l(i) = l(j) /\ num(i) = num(j) => i = j
  <2> SUFFICES ASSUME NEW i \in 1..N, NEW j \in 1..N, l(i) = l(j), num(i) = num(j)
               PROVE  i = j
    OBVIOUS
  <2>1. ~(i < j) /\ ~(j < i)
    BY <1>3
  <2> QED
    BY <2>1
<1>5. \A n \in 1..N : l(n) \in Seq(Tokens \cup Nat)
  BY DEF TokenLines
<1>6. CASE Distinct(leaves, N)
  <2>1. \A n \in 1..N : num(n) = 1
    <3> SUFFICES ASSUME NEW n \in 1..N PROVE num(n) = 1
      OBVIOUS
    <3>1. {i \in 1..n : leaves[i].line = leaves[n].line} = {n}
      BY <1>6 DEF Distinct
    <3> QED
      BY <3>1, FS_Singleton DEF NumberOf
  <2> HIDE DEF num
  <2> QED
    BY <1>1, <1>6, <2>1 DEF Distinct
<1>7. CASE Unambiguous(leaves, N)
  <2> SUFFICES ASSUME NEW i \in 1..N, NEW j \in 1..N, Key(leaves, i) = Key(leaves, j)
               PROVE  i = j
    OBVIOUS
  <2>1. num(i) # 1 => num(i) \in 2..N
    BY <1>2
  <2>2. num(j) # 1 => num(j) \in 2..N
    BY <1>2
  <2>3. /\ num(i) # 1 => l(j) # Append(l(i), num(i))
        /\ num(j) # 1 => l(i) # Append(l(j), num(j))
    BY <1>7, <2>1, <2>2 DEF Unambiguous
  <2>4. CASE num(i) # 1 /\ num(j) # 1
    <3>1. Append(l(i), num(i)) = Append(l(j), num(j))
      BY <1>1, <2>4
    <3>2. num(i) \in Tokens \cup Nat /\ num(j) \in Tokens \cup Nat
      BY <1>2
    <3> HIDE DEF num, l
    <3>3. l(i) = l(j) /\ num(i) = num(j)
      BY <1>5, <3>1, <3>2, AppendsDiffer
    <3> QED
      BY <1>4, <3>3
  <2>5. CASE num(i) = 1 /\ num(j) = 1
    BY <1>1, <1>4, <2>5
  <2> HIDE DEF num, l
  <2> QED
    BY <1>1, <2>3, <2>4, <2>5
<1> QED
  BY <1>6, <1>7

TreeLeaves(unchanged, added, removed) ==
  Leaves(unchanged, "unchanged") \o Leaves(added, "added") \o Leaves(removed, "removed")

Buckets == {"unchanged", "added", "removed"}

LEMMA LeavesOne ==
  ASSUME NEW T, NEW s \in Seq(T), NEW status \in Buckets
  PROVE  /\ Leaves(s, status) \in Seq([line: T, status: Buckets])
         /\ Len(Leaves(s, status)) = Len(s)
         /\ \A i \in 1..Len(s) : Leaves(s, status)[i] = [line |-> s[i], status |-> status]
<1>1. DOMAIN s = 1..Len(s) /\ Len(s) \in Nat /\ \A i \in 1..Len(s) : s[i] \in T
  OBVIOUS
<1>2. Leaves(s, status) = [i \in 1..Len(s) |-> [line |-> s[i], status |-> status]]
  BY <1>1 DEF Leaves
<1> QED
  BY <1>1, <1>2

LeafSequences(T) == Seq([line: T, status: Buckets])

\* The leaves of a bucket are next to each other.
Segment(leaves, s, from, status) ==
  \A i \in 1..Len(s) : leaves[from + i] = [line |-> s[i], status |-> status]

LEMMA LeavesAre ==
  ASSUME NEW T, NEW unchanged \in Seq(T), NEW added \in Seq(T), NEW removed \in Seq(T),
         NEW leaves, leaves = TreeLeaves(unchanged, added, removed)
  PROVE  /\ leaves \in LeafSequences(T)
         /\ Len(leaves) = Len(unchanged) + Len(added) + Len(removed)
         /\ Segment(leaves, unchanged, 0, "unchanged")
         /\ Segment(leaves, added, Len(unchanged), "added")
         /\ Segment(leaves, removed, Len(unchanged) + Len(added), "removed")
<1> DEFINE U == Len(unchanged)
           A == Len(added)
           R == Len(removed)
<1> DEFINE L == [line: T, status: Buckets]
           u == Leaves(unchanged, "unchanged")
           a == Leaves(added, "added")
           r == Leaves(removed, "removed")
<1>1. U \in Nat /\ A \in Nat /\ R \in Nat
  OBVIOUS
<1>0. "unchanged" \in Buckets /\ "added" \in Buckets /\ "removed" \in Buckets
  BY DEF Buckets
<1>2. /\ u \in Seq(L) /\ Len(u) = U
      /\ \A i \in 1..U : u[i] = [line |-> unchanged[i], status |-> "unchanged"]
  BY <1>0, LeavesOne, Zenon
<1>3. /\ a \in Seq(L) /\ Len(a) = A
      /\ \A i \in 1..A : a[i] = [line |-> added[i], status |-> "added"]
  BY <1>0, LeavesOne, Zenon
<1>4. /\ r \in Seq(L) /\ Len(r) = R
      /\ \A i \in 1..R : r[i] = [line |-> removed[i], status |-> "removed"]
  BY <1>0, LeavesOne, Zenon
<1>5. leaves = (u \o a) \o r
  BY DEF TreeLeaves
<1> HIDE DEF L, u, a, r, U, A, R
<1>6. /\ u \o a \in Seq(L) /\ Len(u \o a) = U + A
      /\ \A i \in 1..(U + A) : (u \o a)[i] = IF i <= U THEN u[i] ELSE a[i - U]
  <2>1. /\ u \o a \in Seq(L) /\ Len(u \o a) = Len(u) + Len(a)
        /\ \A i \in 1..(Len(u) + Len(a)) : (u \o a)[i] = IF i <= Len(u) THEN u[i] ELSE a[i - Len(u)]
    BY <1>2, <1>3, ConcatIs, Zenon
  <2> QED
    BY <1>2, <1>3, <2>1, Zenon
<1>7. /\ leaves \in Seq(L) /\ Len(leaves) = (U + A) + R
      /\ \A i \in 1..((U + A) + R) : leaves[i] = IF i <= U + A THEN (u \o a)[i] ELSE r[i - (U + A)]
  <2> DEFINE ua == u \o a
  <2>0. ua \in Seq(L) /\ Len(ua) = U + A
    BY <1>6
  <2> HIDE DEF ua
  <2>1. /\ ua \o r \in Seq(L) /\ Len(ua \o r) = Len(ua) + Len(r)
        /\ \A i \in 1..(Len(ua) + Len(r)) : (ua \o r)[i] = IF i <= Len(ua) THEN ua[i] ELSE r[i - Len(ua)]
    <3>1. ua \in Seq(L) /\ r \in Seq(L)
      BY <1>4, <2>0
    <3> QED
      BY ONLY <3>1, ConcatIs
  <2>2. leaves = ua \o r
    BY <1>5 DEF ua
  <2>3. /\ leaves \in Seq(L) /\ Len(leaves) = (U + A) + R
        /\ \A i \in 1..((U + A) + R) : leaves[i] = IF i <= U + A THEN ua[i] ELSE r[i - (U + A)]
    BY <1>4, <2>0, <2>1, <2>2, Zenon
  <2> QED
    BY <2>3 DEF ua
<1>8. ASSUME NEW i \in 1..U PROVE leaves[i] = u[i]
  <2>1. i \in 1..(U + A) /\ i \in 1..((U + A) + R) /\ i <= U + A /\ i <= U
    BY <1>1
  <2> QED
    BY <1>6, <1>7, <2>1
<1>9. ASSUME NEW i \in 1..A PROVE leaves[U + i] = a[i]
  <2>1. /\ U + i \in 1..(U + A) /\ U + i \in 1..((U + A) + R) /\ U + i <= U + A /\ ~(U + i <= U)
        /\ (U + i) - U = i
    BY <1>1
  <2> QED
    BY <1>6, <1>7, <2>1
<1>10. ASSUME NEW i \in 1..R PROVE leaves[U + A + i] = r[i]
  <2>1. /\ U + A + i \in 1..((U + A) + R) /\ ~(U + A + i <= U + A)
        /\ (U + A + i) - (U + A) = i
    BY <1>1
  <2> QED
    BY <1>7, <2>1
<1>11. /\ \A i \in 1..U : leaves[0 + i] = [line |-> unchanged[i], status |-> "unchanged"]
       /\ \A i \in 1..A : leaves[U + i] = [line |-> added[i], status |-> "added"]
       /\ \A i \in 1..R : leaves[U + A + i] = [line |-> removed[i], status |-> "removed"]
  BY <1>1, <1>2, <1>3, <1>4, <1>8, <1>9, <1>10
<1> QED
  BY <1>7, <1>11 DEF L, U, A, R, Segment, LeafSequences

\* With keys that differ no leaf hides another in the tree.
Children(c, leaves, N) ==
  /\ DOMAIN c = {Key(leaves, n) : n \in 1..N}
  /\ \A n \in 1..N : c[Key(leaves, n)] = leaves[n]

LEMMA ChildrenAre ==
  ASSUME NEW leaves, NEW N \in Nat, DOMAIN leaves = 1..N, Len(leaves) = N, KeysApart(leaves, N),
         NEW unchanged, NEW added, NEW removed, leaves = TreeLeaves(unchanged, added, removed),
         NEW mode, NEW c, c = BuildTree(unchanged, added, removed, mode).tree.children
  PROVE  Children(c, leaves, N)
<1> USE DEF KeysApart, Children
<1> DEFINE last(key) == CHOOSE n \in DOMAIN leaves :
             /\ Key(leaves, n) = key
             /\ \A i \in n + 1..Len(leaves) : Key(leaves, i) # key
<1>1. c = [key \in {Key(leaves, n) : n \in DOMAIN leaves} |-> leaves[last(key)]]
  BY DEF BuildTree, TreeLeaves
<1>2. ASSUME NEW n \in 1..N PROVE last(Key(leaves, n)) = n
  <2>1. \A i \in n + 1..Len(leaves) : Key(leaves, i) # Key(leaves, n)
    <3>1. \A i \in n + 1..Len(leaves) : i \in 1..N /\ i # n
      OBVIOUS
    <3> QED
      BY <3>1
  <2>2. \E m \in DOMAIN leaves :
           /\ Key(leaves, m) = Key(leaves, n)
           /\ \A i \in m + 1..Len(leaves) : Key(leaves, i) # Key(leaves, n)
    BY <2>1
  <2>3. last(Key(leaves, n)) \in DOMAIN leaves /\ Key(leaves, last(Key(leaves, n))) = Key(leaves, n)
    BY <2>2
  <2> HIDE DEF last
  <2> QED
    BY <2>3
<1> HIDE DEF last
<1>3. DOMAIN c = {Key(leaves, n) : n \in 1..N}
  BY <1>1
<1>4. ASSUME NEW n \in 1..N PROVE c[Key(leaves, n)] = leaves[n]
  <2>1. Key(leaves, n) \in {Key(leaves, m) : m \in DOMAIN leaves}
    OBVIOUS
  <2>2. c[Key(leaves, n)] = leaves[last(Key(leaves, n))]
    BY <1>1, <2>1
  <2> QED
    BY <1>2, <2>2
<1> QED
  BY <1>3, <1>4

\* How often a tree shows a line with a status, and how many lines with it.
ShownIn(c, line, status) ==
  Cardinality({k \in DOMAIN c : c[k].line = line /\ c[k].status = status})
SizeIn(c, status) == Cardinality({k \in DOMAIN c : c[k].status = status})

Shows(c, s, status) ==
  /\ \A line : ShownIn(c, line, status) = Occurrences(line, s)
  /\ SizeIn(c, status) = Len(s)

\* A segment has all the leaves with its status.
Bucket(leaves, N, s, from, status) ==
  /\ Segment(leaves, s, from, status)
  /\ from + Len(s) <= N
  /\ \A n \in 1..N : leaves[n].status = status => n - from \in 1..Len(s)

LEMMA BucketShows ==
  ASSUME NEW leaves, NEW N \in Nat, KeysApart(leaves, N), NEW c, Children(c, leaves, N),
         NEW T, NEW s \in Seq(T), NEW from \in Nat, NEW status, Bucket(leaves, N, s, from, status)
  PROVE  Shows(c, s, status)
<1> USE DEF KeysApart, Children, Bucket, Segment, Shows
<1> DEFINE f == [i \in 1..Len(s) |-> Key(leaves, from + i)]
<1>1. Len(s) \in Nat /\ DOMAIN s = 1..Len(s)
  OBVIOUS
<1>2. \A i \in 1..Len(s) : from + i \in 1..N
  BY <1>1
<1>3. \A i \in 1..Len(s) :
        f[i] \in DOMAIN c /\ c[f[i]].line = s[i] /\ c[f[i]].status = status
  <2> SUFFICES ASSUME NEW i \in 1..Len(s)
               PROVE  f[i] \in DOMAIN c /\ c[f[i]].line = s[i] /\ c[f[i]].status = status
    OBVIOUS
  <2>1. f[i] = Key(leaves, from + i) /\ from + i \in 1..N
    BY <1>2
  <2>2. c[f[i]] = leaves[from + i]
    BY <2>1
  <2>3. leaves[from + i] = [line |-> s[i], status |-> status]
    OBVIOUS
  <2>4. c[f[i]].line = s[i] /\ c[f[i]].status = status
    BY <2>2, <2>3
  <2> QED
    BY <2>1, <2>4
<1>4. \A i, j \in 1..Len(s) : f[i] = f[j] => i = j
  <2> SUFFICES ASSUME NEW i \in 1..Len(s), NEW j \in 1..Len(s), f[i] = f[j] PROVE i = j
    OBVIOUS
  <2>1. Key(leaves, from + i) = Key(leaves, from + j) /\ from + i \in 1..N /\ from + j \in 1..N
    BY <1>2
  <2>2. from + i = from + j
    BY <2>1
  <2> QED
    BY <2>2
<1>5. \A k \in DOMAIN c : c[k].status = status => \E i \in 1..Len(s) : f[i] = k
  <2> SUFFICES ASSUME NEW k \in DOMAIN c, c[k].status = status PROVE \E i \in 1..Len(s) : f[i] = k
    OBVIOUS
  <2>1. PICK n \in 1..N : k = Key(leaves, n)
    OBVIOUS
  <2>2. n - from \in 1..Len(s) /\ from + (n - from) = n
    BY <2>1
  <2> QED
    BY <2>1, <2>2
<1> HIDE DEF f
<1>6. ASSUME NEW line PROVE ShownIn(c, line, status) = Occurrences(line, s)
  <2> DEFINE S == {i \in DOMAIN s : s[i] = line}
             K == {k \in DOMAIN c : c[k].line = line /\ c[k].status = status}
  <2>1. S \in SUBSET (1..Len(s))
    BY <1>1
  <2>2. IsFiniteSet(S)
    <3> HIDE DEF S
    <3> QED
      BY <1>1, <2>1, PlacesFinite
  <2>3. \A i \in S : f[i] \in K
    BY <1>1, <1>3
  <2>4. \A i, j \in S : f[i] = f[j] => i = j
    BY <1>1, <1>4
  <2>5. \A k \in K : \E i \in S : f[i] = k
    <3> SUFFICES ASSUME NEW k \in K PROVE \E i \in S : f[i] = k
      OBVIOUS
    <3>1. k \in DOMAIN c /\ c[k].line = line /\ c[k].status = status
      OBVIOUS
    <3>2. PICK i \in 1..Len(s) : f[i] = k
      BY <1>5, <3>1
    <3>3. s[i] = line
      BY <1>3, <3>1, <3>2
    <3> QED
      BY <1>1, <3>2, <3>3
  <2>6. Cardinality(K) = Cardinality(S)
    <3> HIDE DEF S, K
    <3> QED
      BY <2>2, <2>3, <2>4, <2>5, SameSize DEF Pairing
  <2> QED
    BY <2>6 DEF ShownIn, Occurrences
<1>7. SizeIn(c, status) = Len(s)
  <2> DEFINE S == 1..Len(s)
             K == {k \in DOMAIN c : c[k].status = status}
  <2>1. IsFiniteSet(S) /\ Cardinality(S) = Len(s)
    <3>1. PICK n \in Nat : n = Len(s)
      BY <1>1
    <3>2. IsFiniteSet(1..n) /\ Cardinality(1..n) = n
      BY PlacesCounted
    <3> QED
      BY <3>1, <3>2
  <2>2. \A i \in S : f[i] \in K
    BY <1>3
  <2>3. \A k \in K : \E i \in S : f[i] = k
    BY <1>5
  <2>4. \A i, j \in S : f[i] = f[j] => i = j
    BY <1>4
  <2>5. Cardinality(K) = Cardinality(S)
    <3> HIDE DEF S, K
    <3> QED
      BY <2>1, <2>2, <2>3, <2>4, SameSize DEF Pairing
  <2> QED
    BY <2>1, <2>5 DEF SizeIn
<1> QED
  BY <1>6, <1>7

\* A tree shows each line of each bucket, if no key can be mistaken for another.
LEMMA BucketsAre ==
  ASSUME NEW leaves, NEW u, NEW a, NEW r, NEW U \in Nat, U = Len(u), NEW A \in Nat, A = Len(a),
         NEW R \in Nat, R = Len(r), NEW N, N = U + A + R,
         Segment(leaves, u, 0, "unchanged"), Segment(leaves, a, U, "added"),
         Segment(leaves, r, U + A, "removed")
  PROVE  /\ Bucket(leaves, N, u, 0, "unchanged") /\ Bucket(leaves, N, a, U, "added")
         /\ Bucket(leaves, N, r, U + A, "removed")
<1>1. \A n \in 1..N : \/ n - 0 \in 1..U /\ leaves[n].status = "unchanged"
                      \/ n - U \in 1..A /\ leaves[n].status = "added"
                      \/ n - (U + A) \in 1..R /\ leaves[n].status = "removed"
  <2> SUFFICES ASSUME NEW n \in 1..N
               PROVE  \/ n - 0 \in 1..U /\ leaves[n].status = "unchanged"
                      \/ n - U \in 1..A /\ leaves[n].status = "added"
                      \/ n - (U + A) \in 1..R /\ leaves[n].status = "removed"
    OBVIOUS
  <2>1. n - 0 \in 1..U \/ n - U \in 1..A \/ n - (U + A) \in 1..R
    OBVIOUS
  <2>2. 0 + (n - 0) = n /\ U + (n - U) = n /\ (U + A) + (n - (U + A)) = n
    OBVIOUS
  <2>3. ASSUME NEW s, NEW from, NEW status, Segment(leaves, s, from, status), NEW i \in 1..Len(s),
               from + i = n
        PROVE  leaves[n].status = status
    <3>1. leaves[n] = [line |-> s[i], status |-> status]
      BY <2>3 DEF Segment
    <3> QED
      BY <3>1
  <2>4. n - 0 \in 1..U => leaves[n].status = "unchanged"
    BY <2>2, <2>3
  <2>5. n - U \in 1..A => leaves[n].status = "added"
    BY <2>2, <2>3
  <2>6. n - (U + A) \in 1..R => leaves[n].status = "removed"
    BY <2>2, <2>3
  <2> QED
    BY <2>1, <2>4, <2>5, <2>6
<1>2. 0 + U <= N /\ U + A <= N /\ (U + A) + R <= N
  OBVIOUS
<1> QED
  BY <1>1, <1>2 DEF Bucket

LEMMA TreeShows ==
  ASSUME NEW unchanged \in Seq(TokenLines), NEW added \in Seq(TokenLines),
         NEW removed \in Seq(TokenLines),
         NEW leaves, leaves = TreeLeaves(unchanged, added, removed),
         Distinct(leaves, Len(leaves)) \/ Unambiguous(leaves, Len(leaves)),
         NEW mode, NEW c, c = BuildTree(unchanged, added, removed, mode).tree.children
  PROVE  /\ Shows(c, unchanged, "unchanged") /\ Shows(c, added, "added")
         /\ Shows(c, removed, "removed")
<1>1. PICK U, A, R \in Nat : U = Len(unchanged) /\ A = Len(added) /\ R = Len(removed)
  OBVIOUS
<1>2. PICK N \in Nat : N = U + A + R
  OBVIOUS
<1>3. /\ leaves \in LeafSequences(TokenLines) /\ Len(leaves) = N
      /\ Segment(leaves, unchanged, 0, "unchanged")
      /\ Segment(leaves, added, U, "added")
      /\ Segment(leaves, removed, U + A, "removed")
  <2>1. /\ leaves \in LeafSequences(TokenLines)
        /\ Len(leaves) = Len(unchanged) + Len(added) + Len(removed)
        /\ Segment(leaves, unchanged, 0, "unchanged")
        /\ Segment(leaves, added, Len(unchanged), "added")
        /\ Segment(leaves, removed, Len(unchanged) + Len(added), "removed")
    BY LeavesAre
  <2> QED
    BY <1>1, <1>2, <2>1
<1>4. DOMAIN leaves = 1..N /\ \A n \in 1..N : leaves[n].line \in TokenLines
  <2>1. DOMAIN leaves = 1..N
    BY <1>3
  <2>2. \A n \in 1..N : leaves[n] \in [line: TokenLines, status: Buckets]
    <3>1. PICK X : X = [line: TokenLines, status: Buckets]
      OBVIOUS
    <3>2. leaves \in Seq(X)
      BY <1>3, <3>1, Zenon DEF LeafSequences
    <3>3. \A n \in 1..N : leaves[n] \in X
      BY <2>1, <3>2
    <3> QED
      BY <3>1, <3>3, Zenon
  <2> QED
    BY <2>1, <2>2
<1>5. KeysApart(leaves, N)
  <2>1. Distinct(leaves, N) \/ Unambiguous(leaves, N)
    BY <1>3
  <2> QED
    BY <1>4, <2>1, KeysDiffer
<1>6. Children(c, leaves, N)
  BY <1>3, <1>4, <1>5, ChildrenAre
<1>7. /\ Bucket(leaves, N, unchanged, 0, "unchanged") /\ Bucket(leaves, N, added, U, "added")
      /\ Bucket(leaves, N, removed, U + A, "removed")
  BY <1>1, <1>2, <1>3, BucketsAre
<1>8. Shows(c, unchanged, "unchanged")
  BY <1>5, <1>6, <1>7, BucketShows
<1>9. Shows(c, added, "added")
  BY <1>5, <1>6, <1>7, BucketShows
<1>10. Shows(c, removed, "removed")
  <2>1. PICK from \in Nat : from = U + A
    OBVIOUS
  <2> QED
    BY <1>5, <1>6, <1>7, <2>1, BucketShows
<1> QED
  BY <1>8, <1>9, <1>10

\* The positions that At takes, each once.
LEMMA KeptPlaces ==
  ASSUME NEW N \in Nat, NEW S, NEW order, order = Kept([i \in 1..N |-> i], S)
  PROVE  /\ order \in Seq(1..N)
         /\ Pairing(order, 1..Len(order), S \cap 1..N)
<1> DEFINE places == [i \in 1..N |-> i]
           k == KeptUpTo(places, S)
           Good(n) == /\ \A i \in 1..Len(k[n]) : k[n][i] \in 1..n /\ k[n][i] \in S
                      /\ \A j \in 1..n : j \in S => \E i \in 1..Len(k[n]) : k[n][i] = j
                      /\ \A i, j \in 1..Len(k[n]) : k[n][i] = k[n][j] => i = j
           P == {n \in Nat : n \in 0..N => Good(n)}
<1>1. places \in Seq(1..N) /\ Len(places) = N /\ \A i \in 1..N : places[i] = i
  OBVIOUS
<1>2. /\ order = k[N]
      /\ k \in [0..N -> Seq(1..N)]
      /\ k[0] = <<>>
      /\ \A n \in 1..N : k[n] = IF n \in S THEN Append(k[n - 1], n) ELSE k[n - 1]
  <2> HIDE DEF places
  <2>1. /\ order = Kept(places, S)
        /\ Kept(places, S) = k[Len(places)]
        /\ k \in [0..Len(places) -> Seq(1..N)]
        /\ k[0] = <<>>
        /\ \A n \in 1..Len(places) : k[n] = IF places[n] \in S THEN Append(k[n - 1], places[n]) ELSE k[n - 1]
    <3>1. places \in Seq(1..N)
      BY <1>1
    <3>2. order = Kept(places, S)
      BY DEF places
    <3> QED
      BY <3>1, <3>2, KeptIsDefined
  <2> HIDE DEF k
  <2> QED
    BY <1>1, <2>1
<1> HIDE DEF k, places
<1>3. 0 \in P
  BY <1>2
<1>4. ASSUME NEW n \in Nat, n \in P PROVE n + 1 \in P
  <2> SUFFICES ASSUME n + 1 \in 0..N PROVE Good(n + 1)
    OBVIOUS
  <2>1. n \in 0..N /\ n + 1 \in 1..N /\ (n + 1) - 1 = n
    OBVIOUS
  <2>2. Good(n)
    BY <1>4, <2>1
  <2>3. k[n] \in Seq(1..N)
    BY <1>2, <2>1
  <2>4. k[n + 1] = IF n + 1 \in S THEN Append(k[n], n + 1) ELSE k[n]
    BY <1>2, <2>1
  <2>5. \A j \in 1..(n + 1) : j \in 1..n \/ j = n + 1
    OBVIOUS
  <2>6. 1..n \subseteq 1..(n + 1) /\ n + 1 \in 1..(n + 1) /\ n + 1 \notin 1..n
    OBVIOUS
  <2>7. CASE n + 1 \in S
    <3>1. /\ Len(k[n + 1]) = Len(k[n]) + 1 /\ Len(k[n]) \in Nat
          /\ k[n + 1][Len(k[n]) + 1] = n + 1
          /\ \A i \in 1..Len(k[n]) : k[n + 1][i] = k[n][i]
      BY <2>1, <2>3, <2>4, <2>7, AppendIs
    <3>2. \A i \in 1..Len(k[n + 1]) : i \in 1..Len(k[n]) \/ i = Len(k[n]) + 1
      BY <3>1
    <3>3. 1..Len(k[n]) \subseteq 1..Len(k[n + 1]) /\ Len(k[n]) + 1 \in 1..Len(k[n + 1])
      BY <3>1
    <3>4. ASSUME NEW i \in 1..Len(k[n + 1]) PROVE k[n + 1][i] \in 1..(n + 1) /\ k[n + 1][i] \in S
      <4>1. CASE i \in 1..Len(k[n])
        BY <2>2, <2>6, <3>1, <4>1
      <4>2. CASE i = Len(k[n]) + 1
        BY <2>6, <2>7, <3>1, <4>2
      <4> QED
        BY <3>2, <4>1, <4>2
    <3>5. ASSUME NEW j \in 1..(n + 1), j \in S PROVE \E i \in 1..Len(k[n + 1]) : k[n + 1][i] = j
      <4>1. CASE j \in 1..n
        <5>1. PICK i \in 1..Len(k[n]) : k[n][i] = j
          BY <2>2, <3>5, <4>1
        <5> QED
          BY <3>1, <3>3, <5>1
      <4>2. CASE j = n + 1
        BY <3>1, <3>3, <4>2
      <4> QED
        BY <2>5, <4>1, <4>2
    <3>6. ASSUME NEW i \in 1..Len(k[n + 1]), NEW j \in 1..Len(k[n + 1]), k[n + 1][i] = k[n + 1][j]
          PROVE  i = j
      <4>1. CASE i \in 1..Len(k[n]) /\ j \in 1..Len(k[n])
        BY <2>2, <3>1, <3>6, <4>1
      <4>2. CASE i = Len(k[n]) + 1 /\ j = Len(k[n]) + 1
        BY <4>2
      <4>3. CASE i = Len(k[n]) + 1 /\ j \in 1..Len(k[n])
        <5>1. k[n + 1][i] = n + 1 /\ k[n + 1][j] \in 1..n
          BY <2>2, <3>1, <4>3
        <5> QED
          BY <2>6, <3>6, <5>1
      <4>4. CASE j = Len(k[n]) + 1 /\ i \in 1..Len(k[n])
        <5>1. k[n + 1][j] = n + 1 /\ k[n + 1][i] \in 1..n
          BY <2>2, <3>1, <4>4
        <5> QED
          BY <2>6, <3>6, <5>1
      <4> QED
        BY <3>2, <4>1, <4>2, <4>3, <4>4
    <3> QED
      BY <3>4, <3>5, <3>6
  <2>8. CASE n + 1 \notin S
    <3>1. k[n + 1] = k[n]
      BY <2>4, <2>8
    <3> QED
      BY <2>2, <2>5, <2>6, <2>8, <3>1
  <2> QED
    BY <2>7, <2>8
<1> HIDE DEF P
<1>5. Nat \subseteq P
  BY <1>3, <1>4, Induction
<1>6. Good(N) /\ k[N] \in Seq(1..N)
  <2>1. N \in 0..N /\ N \in P
    BY <1>5
  <2> QED
    BY <1>2, <2>1 DEF P
<1> QED
  BY <1>2, <1>6 DEF Pairing

LEMMA AtIs ==
  ASSUME NEW T, NEW s \in Seq(T), NEW is \in SUBSET (DOMAIN s)
  PROVE  /\ At(s, is) \in Seq(T)
         /\ Len(At(s, is)) = Cardinality(is)
         /\ \A line : Occurrences(line, At(s, is)) = Cardinality({i \in is : s[i] = line})
<1> DEFINE order == Kept([i \in DOMAIN s |-> i], is)
           lines == At(s, is)
<1>1. PICK N \in Nat : N = Len(s) /\ DOMAIN s = 1..N
  OBVIOUS
<1>2. order \in Seq(1..N) /\ Pairing(order, 1..Len(order), is \cap 1..N)
  <2>1. order = Kept([i \in 1..N |-> i], is)
    BY <1>1
  <2> HIDE DEF order
  <2> QED
    BY <2>1, KeptPlaces
<1>3. lines = [n \in DOMAIN order |-> s[order[n]]]
  BY DEF At
<1> HIDE DEF order, lines
<1>4. PICK M \in Nat : M = Len(order) /\ DOMAIN order = 1..M
  BY <1>2
<1>5. /\ Pairing(order, 1..M, is)
      /\ \A i \in 1..M : order[i] \in 1..N /\ lines[i] = s[order[i]] /\ s[order[i]] \in T
  <2>1. is \cap 1..N = is
    BY <1>1
  <2>2. Pairing(order, 1..M, is)
    BY <1>2, <1>4, <2>1
  <2>3. \A i \in 1..M : order[i] \in 1..N
    BY <1>2, <1>4
  <2> QED
    BY <1>1, <1>3, <1>4, <2>2, <2>3
<1>6. lines \in Seq(T) /\ Len(lines) = M /\ DOMAIN lines = 1..M
  <2>1. lines = [n \in 1..M |-> s[order[n]]]
    BY <1>3, <1>4
  <2>2. lines \in [1..M -> T]
    BY <1>5, <2>1
  <2> QED
    BY <2>2
<1>7. Len(lines) = Cardinality(is)
  <2>1. IsFiniteSet(1..M) /\ Cardinality(1..M) = M
    BY PlacesCounted
  <2>2. Cardinality(is) = Cardinality(1..M)
    BY <1>5, <2>1, SameSize
  <2> QED
    BY <1>6, <2>1, <2>2
<1>8. ASSUME NEW line PROVE Occurrences(line, lines) = Cardinality({i \in is : s[i] = line})
  <2> DEFINE S == {i \in DOMAIN lines : lines[i] = line}
             K == {i \in is : s[i] = line}
  <2>1. IsFiniteSet(S)
    <3>1. S \in SUBSET (1..M)
      BY <1>6
    <3> HIDE DEF S
    <3> QED
      BY <3>1, PlacesFinite
  <2>2. /\ \A i \in S : order[i] \in K
        /\ \A i, j \in S : order[i] = order[j] => i = j
    BY <1>5, <1>6 DEF Pairing
  <2>3. \A j \in K : \E i \in S : order[i] = j
    <3> SUFFICES ASSUME NEW j \in K PROVE \E i \in S : order[i] = j
      OBVIOUS
    <3>1. PICK i \in 1..M : order[i] = j
      BY <1>5 DEF Pairing
    <3> QED
      BY <1>5, <1>6, <3>1
  <2>4. Cardinality(K) = Cardinality(S)
    <3> HIDE DEF S, K
    <3> QED
      BY <2>1, <2>2, <2>3, SameSize DEF Pairing
  <2> QED
    BY <2>4 DEF Occurrences
<1> QED
  BY <1>6, <1>7, <1>8 DEF lines

LEMMA SetToSeqIs ==
  ASSUME NEW S, IsFiniteSet(S)
  PROVE  /\ SetToSeq(S) \in Seq(S) /\ Len(SetToSeq(S)) = Cardinality(S)
         /\ Pairing(SetToSeq(S), 1..Cardinality(S), S)
<1> DEFINE s == SetToSeq(S)
<1>1. PICK N \in Nat : N = Cardinality(S)
  BY FS_CardinalityType
<1>2. \E f \in [1..N -> S] : IsInjective(f)
  <2>1. ExistsBijection(1..N, S)
    BY <1>1, FS_CardinalityType
  <2> QED
    BY <2>1 DEF ExistsBijection, Bijection, Injection
<1>3. s \in [1..N -> S] /\ IsInjective(s)
  BY <1>1, <1>2 DEF SetToSeq
<1> HIDE DEF s
<1>4. s \in Seq(S) /\ Len(s) = N
  BY <1>3
<1>5. \A i, j \in 1..N : s[i] = s[j] => i = j
  BY <1>3 DEF IsInjective
<1>6. \A x \in S : \E i \in 1..N : s[i] = x
  <2>1. IsFiniteSet(1..N) /\ Cardinality(1..N) = N
    BY PlacesCounted
  <2>2. s \in Injection(1..N, S)
    BY <1>3 DEF Injection
  <2>3. s \in Surjection(1..N, S)
    BY <1>1, <2>1, <2>2, FS_Injection
  <2> QED
    BY <2>3 DEF Surjection
<1> QED
  BY <1>1, <1>3, <1>4, <1>5, <1>6 DEF s, Pairing

LEMMA OccursOnce ==
  ASSUME NEW S, IsFiniteSet(S), NEW line
  PROVE  Occurrences(line, SetToSeq(S)) = IF line \in S THEN 1 ELSE 0
<1> DEFINE s == SetToSeq(S)
           is == {i \in DOMAIN s : s[i] = line}
<1>1. PICK N \in Nat : N = Cardinality(S)
  BY FS_CardinalityType
<1>2. s \in Seq(S) /\ Len(s) = N /\ Pairing(s, 1..N, S)
  BY <1>1, SetToSeqIs
<1> HIDE DEF s
<1>3. DOMAIN s = 1..N
  BY <1>2
<1>4. CASE line \in S
  <2>1. PICK i \in 1..N : s[i] = line
    BY <1>2, <1>4 DEF Pairing
  <2>2. is = {i}
    BY <1>2, <1>3, <2>1 DEF Pairing
  <2>3. Cardinality(is) = 1
    <3> HIDE DEF is
    <3> QED
      BY <2>2, FS_Singleton
  <2> QED
    BY <1>4, <2>3 DEF Occurrences, s
<1>5. CASE line \notin S
  <2>1. is = {}
    BY <1>2, <1>3, <1>5 DEF Pairing
  <2>2. Cardinality(is) = 0
    <3> HIDE DEF is
    <3> QED
      BY <2>1, FS_EmptySet
  <2> QED
    BY <1>5, <2>2 DEF Occurrences, s
<1> QED
  BY <1>4, <1>5

\* Where the leaves are.
InSegment(leaves, n, s, from) == n - from \in 1..Len(s) /\ leaves[n].line = s[n - from]

LEMMA LeafPlaces ==
  ASSUME NEW leaves, NEW u, NEW a, NEW r, NEW U \in Nat, U = Len(u), NEW A \in Nat, A = Len(a),
         NEW R \in Nat, R = Len(r),
         Segment(leaves, u, 0, "unchanged"), Segment(leaves, a, U, "added"),
         Segment(leaves, r, U + A, "removed"),
         NEW n \in 1..(U + A + R)
  PROVE  InSegment(leaves, n, u, 0) \/ InSegment(leaves, n, a, U) \/ InSegment(leaves, n, r, U + A)
<1>1. n - 0 \in 1..U \/ n - U \in 1..A \/ n - (U + A) \in 1..R
  OBVIOUS
<1>2. 0 + (n - 0) = n /\ U + (n - U) = n /\ (U + A) + (n - (U + A)) = n
  OBVIOUS
<1>3. ASSUME NEW s, NEW from, NEW status, Segment(leaves, s, from, status), NEW i \in 1..Len(s),
             from + i = n
      PROVE  leaves[n].line = s[i]
  <2>1. leaves[n] = [line |-> s[i], status |-> status]
    BY <1>3 DEF Segment
  <2> QED
    BY <2>1
<1>4. n - 0 \in 1..U => leaves[n].line = u[n - 0]
  BY <1>2, <1>3
<1>5. n - U \in 1..A => leaves[n].line = a[n - U]
  BY <1>2, <1>3
<1>6. n - (U + A) \in 1..R => leaves[n].line = r[n - (U + A)]
  BY <1>2, <1>3
<1> QED
  BY <1>1, <1>4, <1>5, <1>6 DEF InSegment

LEMMA SetsAreDistinct ==
  ASSUME NEW X \in SUBSET TokenLines, IsFiniteSet(X), NEW Y \in SUBSET TokenLines, IsFiniteSet(Y),
         NEW Z \in SUBSET TokenLines, IsFiniteSet(Z),
         X \cap Y = {}, X \cap Z = {}, Y \cap Z = {},
         NEW leaves, leaves = TreeLeaves(SetToSeq(X), SetToSeq(Y), SetToSeq(Z))
  PROVE  Distinct(leaves, Len(leaves))
<1>0. PICK u, a, r : u = SetToSeq(X) /\ a = SetToSeq(Y) /\ r = SetToSeq(Z)
  OBVIOUS
<1>1. PICK U, A, R \in Nat : U = Cardinality(X) /\ A = Cardinality(Y) /\ R = Cardinality(Z)
  BY FS_CardinalityType
<1>2. /\ u \in Seq(X) /\ Len(u) = U /\ Pairing(u, 1..U, X)
      /\ a \in Seq(Y) /\ Len(a) = A /\ Pairing(a, 1..A, Y)
      /\ r \in Seq(Z) /\ Len(r) = R /\ Pairing(r, 1..R, Z)
  BY <1>0, <1>1, SetToSeqIs
<1>3. u \in Seq(TokenLines) /\ a \in Seq(TokenLines) /\ r \in Seq(TokenLines)
  BY <1>2
<1>4. /\ Len(leaves) = U + A + R
      /\ Segment(leaves, u, 0, "unchanged") /\ Segment(leaves, a, U, "added")
      /\ Segment(leaves, r, U + A, "removed")
  <2>1. leaves = TreeLeaves(u, a, r)
    BY <1>0
  <2>2. /\ Len(leaves) = Len(u) + Len(a) + Len(r)
        /\ Segment(leaves, u, 0, "unchanged") /\ Segment(leaves, a, Len(u), "added")
        /\ Segment(leaves, r, Len(u) + Len(a), "removed")
    BY <1>3, <2>1, LeavesAre
  <2> QED
    BY <1>2, <2>2
<1>5. ASSUME NEW i \in 1..(U + A + R), NEW j \in 1..(U + A + R), leaves[i].line = leaves[j].line
      PROVE  i = j
  <2> DEFINE InU(n) == InSegment(leaves, n, u, 0)
             InA(n) == InSegment(leaves, n, a, U)
             InR(n) == InSegment(leaves, n, r, U + A)
  <2>1. (InU(i) \/ InA(i) \/ InR(i)) /\ (InU(j) \/ InA(j) \/ InR(j))
    <3>1. U = Len(u) /\ A = Len(a) /\ R = Len(r)
      BY <1>2
    <3>2. ASSUME NEW n \in 1..(U + A + R) PROVE InU(n) \/ InA(n) \/ InR(n)
      BY <1>4, <3>1, LeafPlaces
    <3> HIDE DEF InU, InA, InR
    <3> QED
      BY <3>2
  <2>2. \A n : /\ InU(n) => leaves[n].line \in X
               /\ InA(n) => leaves[n].line \in Y
               /\ InR(n) => leaves[n].line \in Z
    BY <1>2 DEF Pairing, InSegment
  <2>3. \/ InU(i) /\ InU(j)
        \/ InA(i) /\ InA(j)
        \/ InR(i) /\ InR(j)
    <3> HIDE DEF InU, InA, InR
    <3> QED
      BY <1>5, <2>1, <2>2
  <2>4. CASE InU(i) /\ InU(j)
    <3>1. i - 0 = j - 0
      BY <1>2, <1>5, <2>4 DEF Pairing, InSegment
    <3> QED
      BY <3>1
  <2>5. CASE InA(i) /\ InA(j)
    <3>1. i - U = j - U
      BY <1>2, <1>5, <2>5 DEF Pairing, InSegment
    <3> QED
      BY <3>1
  <2>6. CASE InR(i) /\ InR(j)
    <3>0. /\ i - (U + A) \in 1..R /\ leaves[i].line = r[i - (U + A)]
          /\ j - (U + A) \in 1..R /\ leaves[j].line = r[j - (U + A)]
      BY <1>2, <2>6 DEF InSegment
    <3>1. i - (U + A) = j - (U + A)
      BY <1>2, <1>5, <3>0 DEF Pairing
    <3> QED
      BY <3>1
  <2> QED
    BY <2>3, <2>4, <2>5, <2>6
<1> QED
  BY <1>4, <1>5 DEF Distinct

LEMMA CountSplits ==
  ASSUME NEW T, NEW s \in Seq(T), NEW is \in SUBSET (DOMAIN s), NEW line
  PROVE  /\ Cardinality({i \in is : s[i] = line}) + Cardinality({i \in DOMAIN s \ is : s[i] = line})
              = Occurrences(line, s)
         /\ Cardinality(is) + Cardinality(DOMAIN s \ is) = Len(s)
         /\ Cardinality(is) \in Nat /\ Cardinality(DOMAIN s \ is) \in Nat
<1>1. PICK N \in Nat : N = Len(s) /\ DOMAIN s = 1..N
  OBVIOUS
<1>2. ASSUME NEW X \in SUBSET (1..N), NEW Y \in SUBSET (1..N), X \cap Y = {}
      PROVE  /\ Cardinality(X) + Cardinality(Y) = Cardinality(X \cup Y)
             /\ Cardinality(X) \in Nat /\ Cardinality(Y) \in Nat
  <2>1. IsFiniteSet(X) /\ IsFiniteSet(Y) /\ Cardinality(X) \in Nat /\ Cardinality(Y) \in Nat
    BY PlacesFinite
  <2>2. Cardinality(X \cup Y) = Cardinality(X) + Cardinality(Y) - Cardinality(X \cap Y)
    BY <2>1, FS_Union
  <2>3. Cardinality(X \cap Y) = 0
    BY <1>2, FS_EmptySet
  <2> QED
    BY <2>1, <2>2, <2>3
<1>3. Cardinality({i \in is : s[i] = line}) + Cardinality({i \in DOMAIN s \ is : s[i] = line})
        = Occurrences(line, s)
  <2> DEFINE X == {i \in is : s[i] = line}
             Y == {i \in DOMAIN s \ is : s[i] = line}
  <2>1. X \in SUBSET (1..N) /\ Y \in SUBSET (1..N) /\ X \cap Y = {}
    BY <1>1
  <2>2. X \cup Y = {i \in DOMAIN s : s[i] = line}
    OBVIOUS
  <2>3. Cardinality(X) + Cardinality(Y) = Cardinality(X \cup Y)
    <3> HIDE DEF X, Y
    <3> QED
      BY <1>2, <2>1
  <2> QED
    BY <2>2, <2>3 DEF Occurrences
<1>4. /\ Cardinality(is) + Cardinality(DOMAIN s \ is) = Len(s)
      /\ Cardinality(is) \in Nat /\ Cardinality(DOMAIN s \ is) \in Nat
  <2>1. is \cup (DOMAIN s \ is) = 1..N /\ is \cap (DOMAIN s \ is) = {}
        /\ is \in SUBSET (1..N) /\ DOMAIN s \ is \in SUBSET (1..N)
    BY <1>1
  <2>2. Cardinality(1..N) = N
    BY PlacesCounted
  <2> QED
    BY <1>1, <1>2, <2>1, <2>2
<1> QED
  BY <1>3, <1>4

\* What is matched is as often on both sides.
SameLines(golden, snapshot, inGolden, inSnapshot) ==
  /\ inGolden \in SUBSET (DOMAIN golden) /\ inSnapshot \in SUBSET (DOMAIN snapshot)
  /\ \A line : Cardinality({i \in inGolden : golden[i] = line})
                 = Cardinality({i \in inSnapshot : snapshot[i] = line})

LEMMA MatchedAlike ==
  ASSUME NEW T, NEW golden \in Seq(T), NEW snapshot \in Seq(T), NEW M, M = Matched(golden, snapshot),
         NEW inGolden, inGolden = {m.a : m \in M}, NEW inSnapshot, inSnapshot = {m.b : m \in M}
  PROVE  SameLines(golden, snapshot, inGolden, inSnapshot)
<1>1. PICK N, K \in Nat : N = Len(golden) /\ K = Len(snapshot)
  OBVIOUS
<1> DEFINE top == [alo |-> 1, ahi |-> N, blo |-> 1, bhi |-> K]
<1>2. Sound(golden, snapshot, top, M)
  <2>1. top \in Ranges
    BY DEF Ranges
  <2>2. M = MatchedOf(golden, snapshot)[top]
    BY <1>1, MatchedIsDefined
  <2> HIDE DEF top
  <2> QED
    BY <1>1, <2>1, <2>2, MatchedIsSound
<1>3. /\ \A p \in M : p.a \in 1..N /\ p.b \in 1..K /\ golden[p.a] = snapshot[p.b]
      /\ \A p, q \in M : p.a = q.a <=> p.b = q.b
  <2>1. /\ \A p \in M : /\ p.a \in Nat /\ p.b \in Nat /\ 1 <= p.a /\ p.a <= N /\ 1 <= p.b /\ p.b <= K
                        /\ golden[p.a] = snapshot[p.b]
        /\ \A p, q \in M : p.a < q.a <=> p.b < q.b
    BY <1>2 DEF Sound, Pairs
  <2>2. ASSUME NEW p \in M, NEW q \in M PROVE p.a = q.a <=> p.b = q.b
    <3>1. /\ p.a \in Nat /\ p.b \in Nat /\ q.a \in Nat /\ q.b \in Nat
          /\ p.a < q.a <=> p.b < q.b
          /\ q.a < p.a <=> q.b < p.b
      BY <2>1
    <3> QED
      BY <3>1
  <2>3. ASSUME NEW p \in M PROVE p.a \in 1..N /\ p.b \in 1..K /\ golden[p.a] = snapshot[p.b]
    BY <2>1
  <2> QED
    BY <2>2, <2>3
<1>4. inGolden \in SUBSET (1..N) /\ inSnapshot \in SUBSET (1..K)
  BY <1>3
<1> DEFINE f == [i \in inGolden |-> (CHOOSE p \in M : p.a = i).b]
<1>5. ASSUME NEW i \in inGolden PROVE \E p \in M : p.a = i /\ f[i] = p.b
  <2>1. \E p \in M : p.a = i
    OBVIOUS
  <2> QED
    BY <2>1
<1> HIDE DEF f
<1>6. ASSUME NEW line
      PROVE  Cardinality({i \in inGolden : golden[i] = line})
               = Cardinality({i \in inSnapshot : snapshot[i] = line})
  <2> DEFINE S == {i \in inGolden : golden[i] = line}
             K1 == {i \in inSnapshot : snapshot[i] = line}
  <2>1. IsFiniteSet(S)
    <3>1. S \in SUBSET (1..N)
      BY <1>4
    <3> HIDE DEF S
    <3> QED
      BY <3>1, PlacesFinite
  <2>2. \A i \in S : f[i] \in K1
    <3> SUFFICES ASSUME NEW i \in S PROVE f[i] \in K1
      OBVIOUS
    <3>1. PICK p \in M : p.a = i /\ f[i] = p.b
      BY <1>5
    <3> QED
      BY <1>3, <3>1
  <2>3. \A i, j \in S : f[i] = f[j] => i = j
    <3> SUFFICES ASSUME NEW i \in S, NEW j \in S, f[i] = f[j] PROVE i = j
      OBVIOUS
    <3>1. PICK p \in M : p.a = i /\ f[i] = p.b
      BY <1>5
    <3>2. PICK q \in M : q.a = j /\ f[j] = q.b
      BY <1>5
    <3>3. p.b = q.b
      BY <3>1, <3>2
    <3>4. p.a = q.a
      BY <1>3, <3>3
    <3> QED
      BY <3>1, <3>2, <3>4
  <2>4. \A k \in K1 : \E i \in S : f[i] = k
    <3> SUFFICES ASSUME NEW k \in K1 PROVE \E i \in S : f[i] = k
      OBVIOUS
    <3>1. PICK p \in M : p.b = k
      OBVIOUS
    <3>2. p.a \in S
      BY <1>3, <3>1
    <3>3. PICK q \in M : q.a = p.a /\ f[p.a] = q.b
      BY <1>5, <3>2
    <3>4. f[p.a] = k
      BY <1>3, <3>1, <3>3
    <3> QED
      BY <3>2, <3>4
  <2>5. Cardinality(K1) = Cardinality(S)
    <3> HIDE DEF S, K1
    <3> QED
      BY <2>1, <2>2, <2>3, <2>4, SameSize DEF Pairing
  <2> QED
    BY <2>5
<1>7. DOMAIN golden = 1..N /\ DOMAIN snapshot = 1..K
  BY <1>1
<1> QED
  BY <1>4, <1>6, <1>7 DEF SameLines

AmbiguousIn(golden, snapshot) ==
  LET lines == ToSet(golden) \cup ToSet(snapshot)
  IN  \E line \in lines, n \in 2..Len(golden) + Len(snapshot) : Append(line, n) \in lines

\* The lines of two texts in the buckets of a tree.
Once(lines, line) == Occurrences(line, SetToSeq(ToSet(lines)))

TreeOf(d, u, a, r, mode) ==
  /\ d = BuildTree(u, a, r, mode)
  /\ Shows(d.tree.children, u, "unchanged")
  /\ Shows(d.tree.children, a, "added")
  /\ Shows(d.tree.children, r, "removed")

OrderedTree(d, golden, snapshot) ==
  \E u, a, r \in Seq(TokenLines) :
    /\ TreeOf(d, u, a, r, "ordered")
    /\ \A line : /\ Occurrences(line, u) + Occurrences(line, r) = Occurrences(line, golden)
                 /\ Occurrences(line, u) + Occurrences(line, a) = Occurrences(line, snapshot)

SetTree(d, golden, snapshot) ==
  \E u, a, r \in Seq(TokenLines) :
    /\ TreeOf(d, u, a, r, "set")
    /\ \A line : /\ Occurrences(line, u) + Occurrences(line, r) = Once(golden, line)
                 /\ Occurrences(line, u) + Occurrences(line, a) = Once(snapshot, line)

LEMMA OrderedBuckets ==
  ASSUME NEW golden \in Seq(TokenLines), NEW snapshot \in Seq(TokenLines),
         ~AmbiguousIn(golden, snapshot),
         NEW d, d = OrderedDiff(golden, snapshot)
  PROVE  OrderedTree(d, golden, snapshot)
<1> DEFINE M == Matched(golden, snapshot)
           inGolden == {m.a : m \in M}
           inSnapshot == {m.b : m \in M}
           u == At(golden, inGolden)
           a == At(snapshot, DOMAIN snapshot \ inSnapshot)
           r == At(golden, DOMAIN golden \ inGolden)
           leaves == TreeLeaves(u, a, r)
           lines == ToSet(golden) \cup ToSet(snapshot)
<1>1. d = BuildTree(u, a, r, "ordered")
  BY DEF OrderedDiff
<1>2. /\ inGolden \in SUBSET (DOMAIN golden) /\ inSnapshot \in SUBSET (DOMAIN snapshot)
      /\ \A line : Cardinality({i \in inGolden : golden[i] = line})
                     = Cardinality({i \in inSnapshot : snapshot[i] = line})
  <2> HIDE DEF M
  <2>1. M = Matched(golden, snapshot) /\ inGolden = {m.a : m \in M} /\ inSnapshot = {m.b : m \in M}
    BY DEF M
  <2> HIDE DEF inGolden, inSnapshot
  <2> QED
    <3>1. SameLines(golden, snapshot, inGolden, inSnapshot)
      BY <2>1, MatchedAlike
    <3> QED
      BY <3>1 DEF SameLines
<1> HIDE DEF inGolden, inSnapshot
<1>3. lines \in SUBSET TokenLines /\ golden \in Seq(lines) /\ snapshot \in Seq(lines)
  BY DEF ToSet
<1> HIDE DEF lines
<1>4. /\ u \in Seq(lines) /\ Len(u) = Cardinality(inGolden)
      /\ \A line : Occurrences(line, u) = Cardinality({i \in inGolden : golden[i] = line})
  BY <1>2, <1>3, AtIs
<1>5. /\ a \in Seq(lines) /\ Len(a) = Cardinality(DOMAIN snapshot \ inSnapshot)
      /\ \A line : Occurrences(line, a)
                     = Cardinality({i \in DOMAIN snapshot \ inSnapshot : snapshot[i] = line})
  BY <1>3, AtIs
<1>6. /\ r \in Seq(lines) /\ Len(r) = Cardinality(DOMAIN golden \ inGolden)
      /\ \A line : Occurrences(line, r)
                     = Cardinality({i \in DOMAIN golden \ inGolden : golden[i] = line})
  BY <1>3, AtIs
<1> HIDE DEF u, a, r
<1>7. \A line : Occurrences(line, u) + Occurrences(line, r) = Occurrences(line, golden)
  <2> SUFFICES ASSUME NEW line
               PROVE  Occurrences(line, u) + Occurrences(line, r) = Occurrences(line, golden)
    OBVIOUS
  <2>1. Cardinality({i \in inGolden : golden[i] = line})
          + Cardinality({i \in DOMAIN golden \ inGolden : golden[i] = line}) = Occurrences(line, golden)
    BY <1>2, CountSplits
  <2> QED
    BY <1>4, <1>6, <2>1
<1>8. \A line : Occurrences(line, u) + Occurrences(line, a) = Occurrences(line, snapshot)
  <2> SUFFICES ASSUME NEW line
               PROVE  Occurrences(line, u) + Occurrences(line, a) = Occurrences(line, snapshot)
    OBVIOUS
  <2>1. Cardinality({i \in inSnapshot : snapshot[i] = line})
          + Cardinality({i \in DOMAIN snapshot \ inSnapshot : snapshot[i] = line})
          = Occurrences(line, snapshot)
    BY <1>2, CountSplits
  <2> QED
    BY <1>2, <1>4, <1>5, <2>1
<1>9. Len(u) + Len(a) + Len(r) \in Nat /\ Len(u) + Len(a) + Len(r) <= Len(golden) + Len(snapshot)
  <2>1. /\ Cardinality(inGolden) + Cardinality(DOMAIN golden \ inGolden) = Len(golden)
        /\ Cardinality(inGolden) \in Nat /\ Cardinality(DOMAIN golden \ inGolden) \in Nat
    BY <1>2, CountSplits
  <2>2. /\ Cardinality(inSnapshot) + Cardinality(DOMAIN snapshot \ inSnapshot) = Len(snapshot)
        /\ Cardinality(inSnapshot) \in Nat /\ Cardinality(DOMAIN snapshot \ inSnapshot) \in Nat
    BY <1>2, CountSplits
  <2> QED
    BY <1>4, <1>5, <1>6, <2>1, <2>2
<1>10. leaves \in LeafSequences(lines) /\ Len(leaves) = Len(u) + Len(a) + Len(r)
  <2>1. leaves = TreeLeaves(u, a, r) /\ u \in Seq(lines) /\ a \in Seq(lines) /\ r \in Seq(lines)
    BY <1>4, <1>5, <1>6
  <2> HIDE DEF leaves
  <2> QED
    BY <2>1, LeavesAre
<1> HIDE DEF leaves
<1>11. Unambiguous(leaves, Len(leaves))
  <2>1. PICK N \in Nat : N = Len(leaves) /\ N <= Len(golden) + Len(snapshot)
    BY <1>9, <1>10
  <2>2. \A i \in 1..N : leaves[i].line \in lines
    <3>1. PICK X : X = [line: lines, status: Buckets]
      OBVIOUS
    <3>2. leaves \in Seq(X)
      BY <1>10, <3>1, Zenon DEF LeafSequences
    <3>3. \A n \in 1..N : leaves[n] \in X
      BY <2>1, <3>2
    <3> QED
      BY <3>1, <3>3
  <2>3. \A line \in lines : \A n \in 2..Len(golden) + Len(snapshot) : Append(line, n) \notin lines
    BY DEF AmbiguousIn, lines
  <2>4. \A n \in 2..N : n \in 2..Len(golden) + Len(snapshot)
    BY <2>1
  <2> QED
    BY <2>1, <2>2, <2>3, <2>4 DEF Unambiguous
<1>12. u \in Seq(TokenLines) /\ a \in Seq(TokenLines) /\ r \in Seq(TokenLines)
  BY <1>3, <1>4, <1>5, <1>6
<1>13. PICK c : c = d.tree.children
  OBVIOUS
<1>14. Shows(c, u, "unchanged") /\ Shows(c, a, "added") /\ Shows(c, r, "removed")
  <2>1. c = BuildTree(u, a, r, "ordered").tree.children
    BY <1>1, <1>13
  <2>2. leaves = TreeLeaves(u, a, r)
    BY DEF leaves
  <2> QED
    BY <1>11, <1>12, <2>1, <2>2, TreeShows
<1> QED
  BY <1>1, <1>7, <1>8, <1>12, <1>13, <1>14 DEF OrderedTree, TreeOf

LEMMA SetBuckets ==
  ASSUME NEW golden \in Seq(TokenLines), NEW snapshot \in Seq(TokenLines),
         NEW d, d = SetDiff(golden, snapshot)
  PROVE  SetTree(d, golden, snapshot)
<1> DEFINE G == ToSet(golden)
           S == ToSet(snapshot)
           X == G \cap S
           Y == S \ G
           Z == G \ S
           u == SetToSeq(X)
           a == SetToSeq(Y)
           r == SetToSeq(Z)
           leaves == TreeLeaves(u, a, r)
<1>1. d = BuildTree(u, a, r, "set")
  BY DEF SetDiff
<1>2. G \in SUBSET TokenLines /\ S \in SUBSET TokenLines /\ IsFiniteSet(G) /\ IsFiniteSet(S)
  BY ElementsFinite DEF ToSet
<1> HIDE DEF G, S
<1>3. /\ X \in SUBSET TokenLines /\ Y \in SUBSET TokenLines /\ Z \in SUBSET TokenLines
      /\ IsFiniteSet(X) /\ IsFiniteSet(Y) /\ IsFiniteSet(Z)
      /\ X \cap Y = {} /\ X \cap Z = {} /\ Y \cap Z = {}
  BY <1>2, FS_Subset
<1>4. \A line : /\ line \in G <=> line \in X \/ line \in Z
                /\ line \in S <=> line \in X \/ line \in Y
                /\ ~(line \in X /\ line \in Y) /\ ~(line \in X /\ line \in Z)
  OBVIOUS
<1> HIDE DEF X, Y, Z
<1>5. u \in Seq(TokenLines) /\ a \in Seq(TokenLines) /\ r \in Seq(TokenLines)
  BY <1>3, SetToSeqIs
<1>6. ASSUME NEW line
      PROVE  /\ Occurrences(line, u) + Occurrences(line, r) = Once(golden, line)
             /\ Occurrences(line, u) + Occurrences(line, a) = Once(snapshot, line)
  <2>1. /\ Occurrences(line, u) = IF line \in X THEN 1 ELSE 0
        /\ Occurrences(line, a) = IF line \in Y THEN 1 ELSE 0
        /\ Occurrences(line, r) = IF line \in Z THEN 1 ELSE 0
    BY <1>3, OccursOnce
  <2>2. /\ Once(golden, line) = IF line \in G THEN 1 ELSE 0
        /\ Once(snapshot, line) = IF line \in S THEN 1 ELSE 0
    BY <1>2, OccursOnce DEF Once, G, S
  <2> QED
    BY <1>4, <2>1, <2>2
<1>7. Distinct(leaves, Len(leaves))
  BY <1>3, SetsAreDistinct
<1> HIDE DEF u, a, r
<1>8. PICK c : c = d.tree.children
  OBVIOUS
<1>9. Shows(c, u, "unchanged") /\ Shows(c, a, "added") /\ Shows(c, r, "removed")
  <2>1. c = BuildTree(u, a, r, "set").tree.children
    BY <1>1, <1>8
  <2> HIDE DEF leaves
  <2>2. leaves = TreeLeaves(u, a, r)
    BY DEF leaves
  <2> QED
    BY <1>5, <1>7, <2>1, <2>2, TreeShows
<1> QED
  BY <1>1, <1>5, <1>6, <1>8, <1>9 DEF SetTree, TreeOf

\* The tree of a comparison of two lists of lines.
TreeIsRight(golden, snapshot, mode, d) ==
  LET c == d.tree.children
      Has(lines, line) == IF mode = "ordered" THEN Occurrences(line, lines) ELSE Once(lines, line)
  IN  mode = "set" \/ ~AmbiguousIn(golden, snapshot) =>
        /\ \A line \in ToSet(golden) \cup ToSet(snapshot) :
             /\ ShownIn(c, line, "unchanged") + ShownIn(c, line, "removed") = Has(golden, line)
             /\ ShownIn(c, line, "unchanged") + ShownIn(c, line, "added") = Has(snapshot, line)
        /\ \A s \in {"added", "removed", "unchanged"} : d.summary[s] = SizeIn(c, s)

LEMMA SummaryIs ==
  ASSUME NEW u, NEW a, NEW r, NEW mode, NEW d, d = BuildTree(u, a, r, mode),
         Shows(d.tree.children, u, "unchanged"), Shows(d.tree.children, a, "added"),
         Shows(d.tree.children, r, "removed")
  PROVE  \A s \in {"added", "removed", "unchanged"} : d.summary[s] = SizeIn(d.tree.children, s)
<1>1. d.summary = [added |-> Len(a), removed |-> Len(r), changed |-> 0, unchanged |-> Len(u)]
  BY DEF BuildTree
<1>2. /\ SizeIn(d.tree.children, "unchanged") = Len(u) /\ SizeIn(d.tree.children, "added") = Len(a)
      /\ SizeIn(d.tree.children, "removed") = Len(r)
  BY DEF Shows
<1> QED
  BY <1>1, <1>2

LEMMA TreesAreRight ==
  ASSUME NEW goldenText \in Seq(TextLines), NEW snapshotText \in Seq(TextLines), NEW requested,
         NEW o, o = RunCompliance(goldenText, snapshotText, requested), NEW d \in o.diff
  PROVE  TreeIsRight(NormalizeLines(goldenText), NormalizeLines(snapshotText), o.mode, d)
<1> DEFINE golden == NormalizeLines(goldenText)
           snapshot == NormalizeLines(snapshotText)
           mode == EffectiveMode(requested)
<1>1. golden \in Seq(TokenLines) /\ snapshot \in Seq(TokenLines)
  BY NormalizedLines
<1>2. o = CASE golden = <<>> -> NotCompared("golden is empty", mode)
            [] golden # <<>> /\ snapshot = <<>> -> NotCompared("snapshot is empty", mode)
            [] golden # <<>> /\ snapshot # <<>> /\ mode = "set" ->
                 Compared(SetDiff(golden, snapshot), mode)
            [] OTHER -> Compared(OrderedDiff(golden, snapshot), mode)
  BY DEF RunCompliance
<1>0. mode \in {"set", "ordered"}
  BY DEF EffectiveMode, Modes
<1> HIDE DEF golden, snapshot, mode
<1>3. \A warning : o # NotCompared(warning, mode)
  BY DEF NotCompared
<1>4. \/ mode = "set" /\ o = Compared(SetDiff(golden, snapshot), mode)
      \/ mode = "ordered" /\ o = Compared(OrderedDiff(golden, snapshot), mode)
  <2>1. golden # <<>> /\ snapshot # <<>>
    BY <1>2, <1>3
  <2> QED
    BY <1>0, <1>2, <2>1
<1>5. CASE mode = "set" /\ o = Compared(SetDiff(golden, snapshot), mode)
  <2>1. d = SetDiff(golden, snapshot) /\ o.mode = "set"
    BY <1>5 DEF Compared
  <2>2. PICK u, a, r \in Seq(TokenLines) :
          /\ TreeOf(d, u, a, r, "set")
          /\ \A line : /\ Occurrences(line, u) + Occurrences(line, r) = Once(golden, line)
                       /\ Occurrences(line, u) + Occurrences(line, a) = Once(snapshot, line)
    <3>1. SetTree(d, golden, snapshot)
      BY <1>1, <2>1, SetBuckets
    <3> QED
      BY <3>1 DEF SetTree
  <2>3. \A s \in {"added", "removed", "unchanged"} : d.summary[s] = SizeIn(d.tree.children, s)
    BY <2>2, SummaryIs DEF TreeOf
  <2>4. \A line :
          /\ ShownIn(d.tree.children, line, "unchanged") + ShownIn(d.tree.children, line, "removed")
               = Once(golden, line)
          /\ ShownIn(d.tree.children, line, "unchanged") + ShownIn(d.tree.children, line, "added")
               = Once(snapshot, line)
    BY <2>2 DEF TreeOf, Shows
  <2>5. TreeIsRight(golden, snapshot, "set", d)
    BY <2>3, <2>4 DEF TreeIsRight
  <2> QED
    BY <2>1, <2>5 DEF golden, snapshot
<1>6. CASE mode = "ordered" /\ o = Compared(OrderedDiff(golden, snapshot), mode)
  <2>1. d = OrderedDiff(golden, snapshot) /\ o.mode = "ordered"
    BY <1>6 DEF Compared
  <2>2. TreeIsRight(golden, snapshot, "ordered", d)
    <3> SUFFICES ASSUME ~AmbiguousIn(golden, snapshot) PROVE TreeIsRight(golden, snapshot, "ordered", d)
      BY DEF TreeIsRight
    <3>1. PICK u, a, r \in Seq(TokenLines) :
            /\ TreeOf(d, u, a, r, "ordered")
            /\ \A line : /\ Occurrences(line, u) + Occurrences(line, r) = Occurrences(line, golden)
                         /\ Occurrences(line, u) + Occurrences(line, a) = Occurrences(line, snapshot)
      <4>1. OrderedTree(d, golden, snapshot)
        BY <1>1, <2>1, OrderedBuckets
      <4> QED
        BY <4>1 DEF OrderedTree
    <3>2. \A s \in {"added", "removed", "unchanged"} : d.summary[s] = SizeIn(d.tree.children, s)
      BY <3>1, SummaryIs DEF TreeOf
    <3>3. \A line :
            /\ ShownIn(d.tree.children, line, "unchanged") + ShownIn(d.tree.children, line, "removed")
                 = Occurrences(line, golden)
            /\ ShownIn(d.tree.children, line, "unchanged") + ShownIn(d.tree.children, line, "added")
                 = Occurrences(line, snapshot)
      BY <3>1 DEF TreeOf, Shows
    <3> QED
      BY <3>2, <3>3 DEF TreeIsRight
  <2> QED
    BY <2>1, <2>2 DEF golden, snapshot
<1> QED
  BY <1>4, <1>5, <1>6

(***************************************************************************)
(* The values of JSON.                                                     *)
(***************************************************************************)
IsContainerValue(v) == v.type \in ContainerTypes

LEMMA ValueIs ==
  ASSUME NEW v \in Values
  PROVE  /\ v.type \in ContainerTypes \cup ScalarTypes
         /\ Depth[v] \in Nat
         /\ IsContainerValue(v) =>
              /\ IsFiniteSet(DOMAIN v.at)
              /\ \A k \in DOMAIN v.at :
                   k \in STRING /\ v.at[k] \in Values /\ Depth[v.at[k]] < Depth[v]
BY SnapshotAssumption DEF IsContainerValue, ContainerTypes, ScalarTypes

\* What holds of every value when it holds of those whose parts have it.
LEMMA ValueInduction ==
  ASSUME NEW P \in SUBSET Values,
         \A v \in Values :
           (\A u \in Values : Depth[u] < Depth[v] => u \in P) => v \in P
  PROVE  P = Values
<1> DEFINE Q == {n \in Nat : \A v \in Values : Depth[v] = n => v \in P}
<1>1. ASSUME NEW n \in Nat, \A m \in 0..(n - 1) : m \in Q PROVE n \in Q
  <2> SUFFICES ASSUME NEW v \in Values, Depth[v] = n PROVE v \in P
    OBVIOUS
  <2>1. ASSUME NEW u \in Values, Depth[u] < Depth[v] PROVE u \in P
    <3>1. Depth[u] \in 0..(n - 1)
      BY <2>1, ValueIs
    <3> QED
      BY <1>1, <3>1
  <2> QED
    BY <2>1
<1> HIDE DEF Q
<1>2. Nat \subseteq Q
  BY <1>1, StrongInduction
<1> QED
  BY <1>2, ValueIs DEF Q

\* One step of the comparison of values.
EqualStep(v, w, f) ==
  CASE v.type \in ContainerTypes ->
         /\ w.type = v.type
         /\ DOMAIN v.at = DOMAIN w.at
         /\ \A k \in DOMAIN v.at : f[<<v.at[k], w.at[k]>>]
    [] v.type \in {"bool", "number"} ->
         w.type \in {"bool", "number"} /\ v.value = w.value
    [] OTHER -> v = w

LEMMA EqualIsDefined ==
  \A v, w \in Values : Equal(v, w) \in BOOLEAN /\ Equal(v, w) = EqualStep(v, w, EqualValues)
<1> DEFINE D == Values \X Values
           X == BOOLEAN
           mu == [p \in D |-> Depth[p[1]]]
           G == [p \in D \X [D -> X] |-> EqualStep(p[1][1], p[1][2], p[2])]
<1>1. mu \in [D -> Nat]
  BY ValueIs
<1>2. ASSUME NEW v \in Values, NEW w \in Values, NEW f \in [D -> X] PROVE EqualStep(v, w, f) \in X
  BY DEF EqualStep
<1>3. G \in [D \X [D -> X] -> X]
  BY <1>2
<1>4. \A r \in D : \A f \in [D -> X] : G[<<r, f>>] = EqualStep(r[1], r[2], f)
  OBVIOUS
<1>5. ASSUME NEW r \in D, NEW g \in [D -> X], NEW h \in [D -> X],
             \A q \in D : mu[q] < mu[r] => g[q] = h[q]
      PROVE  EqualStep(r[1], r[2], g) = EqualStep(r[1], r[2], h)
  <2>0. PICK v \in Values, w \in Values : v = r[1] /\ w = r[2]
    OBVIOUS
  <2>1. CASE v.type \in ContainerTypes /\ w.type = v.type /\ DOMAIN v.at = DOMAIN w.at
    <3>1. ASSUME NEW k \in DOMAIN v.at PROVE g[<<v.at[k], w.at[k]>>] = h[<<v.at[k], w.at[k]>>]
      <4>1. v.at[k] \in Values /\ w.at[k] \in Values /\ Depth[v.at[k]] < Depth[v]
        BY <2>1, ValueIs DEF IsContainerValue
      <4> QED
        BY <1>5, <2>0, <4>1
    <3>2. EqualStep(v, w, g) = EqualStep(v, w, h)
      BY <2>1, <3>1 DEF EqualStep
    <3> QED
      BY <2>0, <3>2
  <2>2. CASE ~(v.type \in ContainerTypes /\ w.type = v.type /\ DOMAIN v.at = DOMAIN w.at)
    BY <2>0, <2>2 DEF EqualStep
  <2> QED
    BY <2>1, <2>2
<1>6. LooksBelow(D, X, mu, G)
  <2> HIDE DEF mu, G, D, X
  <2> QED
    BY <1>4, <1>5 DEF LooksBelow
<1> HIDE DEF mu
<1>7. PICK f \in [D -> X] : \A r \in D : f[r] = G[<<r, f>>]
  <2> HIDE DEF D, X, G
  <2>1. IsRecursion(D, X, mu, G)
    BY <1>1, <1>3, <1>6 DEF IsRecursion, X
  <2>2. HasSolution(D, X, G)
    BY <2>1, Recursion
  <2> QED
    BY <2>2 DEF HasSolution
<1>8. \A p \in D : f[p] = EqualStep(p[1], p[2], f)
  BY <1>4, <1>7
<1>9. f = [p \in D |-> EqualStep(p[1], p[2], f)]
  BY <1>8
<1>10. EqualValues = [p \in D |-> EqualStep(p[1], p[2], EqualValues)]
  BY <1>9 DEF EqualValues, EqualStep
<1> HIDE DEF EqualStep
<1>11. \A v, w \in Values : EqualValues[<<v, w>>] = EqualStep(v, w, EqualValues)
  BY <1>10
<1>12. \A v, w \in Values : EqualStep(v, w, EqualValues) \in BOOLEAN
  BY DEF EqualStep
<1> QED
  BY <1>11, <1>12 DEF Equal

(***************************************************************************)
(* The tree of two values.  Its values are not in a set known beforehand,  *)
(* so that the lemma Recursion does not apply; the argument is the same.   *)
(***************************************************************************)
ValuePairs == Values \X Values

DiffStep(before, after, f) ==
  CASE IsDict(before) /\ IsDict(after) -> Container("dict", DiffParts(f, before.at, after.at))
    [] IsList(before) /\ IsList(after) -> Container("list", DiffParts(f, before.at, after.at))
    [] OTHER -> IF Equal(before, after) THEN Unchanged(before) ELSE Changed(before, after)

\* Both are dictionaries, or both are lists.
AreComparedByPart(v, w) == v.type \in ContainerTypes /\ w.type = v.type

LEMMA StepOf ==
  ASSUME NEW v \in Values, NEW w \in Values, NEW f
  PROVE  DiffStep(v, w, f) = IF AreComparedByPart(v, w)
                               THEN Container(v.type, DiffParts(f, v.at, w.at))
                               ELSE IF Equal(v, w) THEN Unchanged(v) ELSE Changed(v, w)
BY DEF DiffStep, AreComparedByPart, IsDict, IsList, ContainerTypes

LEMMA DiffStepLooksBelow ==
  ASSUME NEW r \in ValuePairs, NEW f, NEW g,
         \A q \in ValuePairs : Depth[q[1]] < Depth[r[1]] => f[q] = g[q]
  PROVE  DiffStep(r[1], r[2], f) = DiffStep(r[1], r[2], g)
<1>1. PICK v \in Values, w \in Values : v = r[1] /\ w = r[2]
  BY DEF ValuePairs
<1>2. CASE AreComparedByPart(v, w)
  <2>1. ASSUME NEW k \in DOMAIN v.at, k \in DOMAIN w.at
        PROVE  f[<<v.at[k], w.at[k]>>] = g[<<v.at[k], w.at[k]>>]
    <3>1. v.at[k] \in Values /\ w.at[k] \in Values /\ Depth[v.at[k]] < Depth[v]
      BY <1>2, <2>1, ValueIs DEF IsContainerValue, AreComparedByPart
    <3> QED
      BY <1>1, <3>1 DEF ValuePairs
  <2>2. DiffParts(f, v.at, w.at) = DiffParts(g, v.at, w.at)
    BY <2>1 DEF DiffParts
  <2> QED
    BY <1>1, <1>2, <2>2, StepOf
<1>3. CASE ~AreComparedByPart(v, w)
  BY <1>1, <1>3, StepOf
<1> QED
  BY <1>2, <1>3

\* f is the tree of the pairs below n.
MakesTrees(f, n) ==
  \A p \in ValuePairs : Depth[p[1]] < n => f[p] = DiffStep(p[1], p[2], f)

LEMMA TreesAgree ==
  ASSUME NEW f, NEW g, NEW k \in Nat, NEW l \in Nat, k <= l, MakesTrees(f, k), MakesTrees(g, l)
  PROVE  \A p \in ValuePairs : Depth[p[1]] < k => f[p] = g[p]
<1> DEFINE P == {v \in Values : \A w \in Values : Depth[v] < k => f[<<v, w>>] = g[<<v, w>>]}
<1>1. ASSUME NEW v \in Values, \A u \in Values : Depth[u] < Depth[v] => u \in P PROVE v \in P
  <2> SUFFICES ASSUME NEW w \in Values, Depth[v] < k PROVE f[<<v, w>>] = g[<<v, w>>]
    OBVIOUS
  <2>1. <<v, w>> \in ValuePairs /\ <<v, w>>[1] = v /\ <<v, w>>[2] = w
    BY DEF ValuePairs
  <2>2. f[<<v, w>>] = DiffStep(v, w, f) /\ g[<<v, w>>] = DiffStep(v, w, g)
    BY <2>1, ValueIs DEF MakesTrees
  <2>3. ASSUME NEW q \in ValuePairs, Depth[q[1]] < Depth[v] PROVE f[q] = g[q]
    <3>1. PICK a \in Values, b \in Values : q = <<a, b>>
      BY DEF ValuePairs
    <3>2. Depth[a] < Depth[v] /\ Depth[a] < k
      BY <2>3, <3>1, ValueIs
    <3> QED
      BY <1>1, <3>1, <3>2
  <2>4. DiffStep(v, w, f) = DiffStep(v, w, g)
    BY <2>1, <2>3, DiffStepLooksBelow
  <2> QED
    BY <2>2, <2>4
<1> HIDE DEF P
<1>2. P = Values
  <2>1. P \in SUBSET Values
    BY DEF P
  <2> QED
    BY <1>1, <2>1, ValueInduction
<1> SUFFICES ASSUME NEW p \in ValuePairs, Depth[p[1]] < k PROVE f[p] = g[p]
  OBVIOUS
<1>3. PICK a \in Values, b \in Values : p = <<a, b>>
  BY DEF ValuePairs
<1> QED
  BY <1>2, <1>3 DEF P

LEMMA TreesExist ==
  \E f : f = [p \in ValuePairs |-> DiffStep(p[1], p[2], f)]
<1> DEFINE P == {n \in Nat : \E f : MakesTrees(f, n)}
<1>0. \A p \in ValuePairs : Depth[p[1]] \in Nat
  BY ValueIs DEF ValuePairs
<1>1. 0 \in P
  BY <1>0 DEF MakesTrees
<1>2. ASSUME NEW n \in Nat, n \in P PROVE n + 1 \in P
  <2>1. PICK f : MakesTrees(f, n)
    BY <1>2
  <2> DEFINE next == [p \in ValuePairs |-> DiffStep(p[1], p[2], f)]
  <2>2. \A q \in ValuePairs : Depth[q[1]] < n => next[q] = f[q]
    BY <2>1 DEF MakesTrees
  <2>3. ASSUME NEW p \in ValuePairs, Depth[p[1]] < n + 1
        PROVE  next[p] = DiffStep(p[1], p[2], next)
    <3>1. \A q \in ValuePairs : Depth[q[1]] < Depth[p[1]] => next[q] = f[q]
      BY <1>0, <2>2, <2>3
    <3>2. next[p] = DiffStep(p[1], p[2], f)
      OBVIOUS
    <3> HIDE DEF next
    <3>3. DiffStep(p[1], p[2], next) = DiffStep(p[1], p[2], f)
      BY <3>1, DiffStepLooksBelow
    <3> QED
      BY <3>2, <3>3
  <2> HIDE DEF next
  <2>4. MakesTrees(next, n + 1)
    BY <2>3 DEF MakesTrees
  <2> QED
    BY <2>4
<1> HIDE DEF P
<1>3. Nat \subseteq P
  BY <1>1, <1>2, Induction
<1>4. \A n \in Nat : \E f : MakesTrees(f, n)
  BY <1>3 DEF P
<1> DEFINE at == [n \in Nat |-> CHOOSE f : MakesTrees(f, n)]
           whole == [p \in ValuePairs |-> at[Depth[p[1]] + 1][p]]
<1>5. \A n \in Nat : MakesTrees(at[n], n)
  <2> SUFFICES ASSUME NEW n \in Nat PROVE MakesTrees(CHOOSE f : MakesTrees(f, n), n)
    OBVIOUS
  <2> HIDE DEF at
  <2> QED
    BY <1>4
<1> HIDE DEF at
<1>6. ASSUME NEW p \in ValuePairs PROVE whole[p] = DiffStep(p[1], p[2], whole)
  <2>0. Depth[p[1]] + 1 \in Nat /\ Depth[p[1]] < Depth[p[1]] + 1
    BY <1>0
  <2>1. PICK f : f = at[Depth[p[1]] + 1]
    OBVIOUS
  <2>2. MakesTrees(f, Depth[p[1]] + 1) /\ whole[p] = f[p]
    BY <1>5, <2>0, <2>1
  <2>3. f[p] = DiffStep(p[1], p[2], f)
    BY <2>0, <2>2 DEF MakesTrees
  <2>4. ASSUME NEW q \in ValuePairs, Depth[q[1]] < Depth[p[1]] PROVE whole[q] = f[q]
    <3>0. Depth[q[1]] + 1 \in Nat /\ Depth[q[1]] < Depth[q[1]] + 1
          /\ Depth[q[1]] + 1 <= Depth[p[1]] + 1
      BY <1>0, <2>4
    <3>1. PICK g : g = at[Depth[q[1]] + 1]
      OBVIOUS
    <3>2. MakesTrees(g, Depth[q[1]] + 1) /\ whole[q] = g[q]
      BY <1>5, <3>0, <3>1
    <3> HIDE DEF whole
    <3>3. g[q] = f[q]
      BY <2>0, <2>2, <3>0, <3>2, TreesAgree
    <3> QED
      BY <3>2, <3>3
  <2> HIDE DEF whole
  <2>5. DiffStep(p[1], p[2], whole) = DiffStep(p[1], p[2], f)
    BY <2>4, DiffStepLooksBelow
  <2> QED
    BY <2>2, <2>3, <2>5
<1>7. whole = [p \in ValuePairs |-> whole[p]]
  OBVIOUS
<1> HIDE DEF whole
<1>8. whole = [p \in ValuePairs |-> DiffStep(p[1], p[2], whole)]
  BY <1>6, <1>7
<1> QED
  BY <1>8

LEMMA DiffIsDefined ==
  \A v, w \in Values : DiffValue(v, w) = DiffStep(v, w, DiffOf)
<1>1. DiffOf = CHOOSE f : f = [p \in ValuePairs |-> DiffStep(p[1], p[2], f)]
  BY DEF DiffOf, DiffStep, ValuePairs
<1>2. DiffOf = [p \in ValuePairs |-> DiffStep(p[1], p[2], DiffOf)]
  BY <1>1, TreesExist
<1>3. \A v, w \in Values : DiffOf[<<v, w>>] = DiffStep(v, w, DiffOf)
  BY <1>2 DEF ValuePairs
<1> QED
  BY <1>3 DEF DiffValue

(***************************************************************************)
(* The nodes of a tree.                                                    *)
(***************************************************************************)
PartsOf(v, w) == DiffParts(DiffOf, v.at, w.at)
ChildrenOf(v, w) == [k \in DOMAIN PartsOf(v, w) |-> PartsOf(v, w)[k].node]

LEMMA DiffIs ==
  ASSUME NEW v \in Values, NEW w \in Values
  PROVE  DiffValue(v, w) = IF AreComparedByPart(v, w) THEN Container(v.type, PartsOf(v, w))
                             ELSE IF Equal(v, w) THEN Unchanged(v) ELSE Changed(v, w)
BY DiffIsDefined, StepOf DEF PartsOf

\* A pair of values compared by part: its node, and what its parts are.
LEMMA ComparedNode ==
  ASSUME NEW v \in Values, NEW w \in Values, AreComparedByPart(v, w)
  PROVE  /\ DiffValue(v, w).node.type = v.type
         /\ DiffValue(v, w).node.status = NodeStatus(ChildrenOf(v, w))
         /\ DiffValue(v, w).node.children = ChildrenOf(v, w)
         /\ IsContainer(DiffValue(v, w).node)
         /\ "kept" \notin DOMAIN DiffValue(v, w).node
         /\ DiffValue(v, w).count = Counts(PartsOf(v, w))
         /\ DOMAIN PartsOf(v, w) = DOMAIN v.at \cup DOMAIN w.at
         /\ DOMAIN ChildrenOf(v, w) = DOMAIN v.at \cup DOMAIN w.at
         /\ IsFiniteSet(DOMAIN v.at \cup DOMAIN w.at)
<1>1. v.type \in ContainerTypes /\ w.type \in ContainerTypes
  BY DEF AreComparedByPart
<1>2. IsFiniteSet(DOMAIN v.at \cup DOMAIN w.at)
  <2>1. IsFiniteSet(DOMAIN v.at) /\ IsFiniteSet(DOMAIN w.at)
    BY <1>1, ValueIs DEF IsContainerValue
  <2> QED
    BY <2>1, FS_Union
<1>3. DiffValue(v, w) = Container(v.type, PartsOf(v, w))
  BY DiffIs
<1>4. DOMAIN PartsOf(v, w) = DOMAIN v.at \cup DOMAIN w.at
  BY DEF PartsOf, DiffParts
<1>5. DOMAIN ChildrenOf(v, w) = DOMAIN v.at \cup DOMAIN w.at
  BY <1>4 DEF ChildrenOf
<1>6. /\ DiffValue(v, w).node = [type |-> v.type, status |-> NodeStatus(ChildrenOf(v, w)),
                                 children |-> ChildrenOf(v, w)]
      /\ DiffValue(v, w).count = Counts(PartsOf(v, w))
  BY <1>3 DEF Container, ChildrenOf, Diffed
<1>7. /\ DiffValue(v, w).node.type = v.type
      /\ DiffValue(v, w).node.status = NodeStatus(ChildrenOf(v, w))
      /\ DiffValue(v, w).node.children = ChildrenOf(v, w)
      /\ IsContainer(DiffValue(v, w).node)
      /\ "kept" \notin DOMAIN DiffValue(v, w).node
  BY <1>6 DEF IsContainer
<1> QED
  BY <1>2, <1>4, <1>5, <1>6, <1>7

LEMMA ComparedPart ==
  ASSUME NEW v \in Values, NEW w \in Values, AreComparedByPart(v, w),
         NEW k \in DOMAIN v.at \cup DOMAIN w.at
  PROVE  /\ k \in STRING
         /\ k \in DOMAIN v.at => v.at[k] \in Values /\ Depth[v.at[k]] < Depth[v]
         /\ k \in DOMAIN w.at => w.at[k] \in Values /\ Depth[w.at[k]] < Depth[w]
         /\ ChildrenOf(v, w)[k] = PartsOf(v, w)[k].node
         /\ k \notin DOMAIN w.at => PartsOf(v, w)[k] = Removed(v.at[k])
         /\ k \notin DOMAIN v.at => PartsOf(v, w)[k] = Added(w.at[k])
         /\ k \in DOMAIN v.at /\ k \in DOMAIN w.at =>
              PartsOf(v, w)[k] = DiffValue(v.at[k], w.at[k])
<1>1. v.type \in ContainerTypes /\ w.type \in ContainerTypes
  BY DEF AreComparedByPart
<1>2. /\ k \in DOMAIN v.at => k \in STRING /\ v.at[k] \in Values /\ Depth[v.at[k]] < Depth[v]
      /\ k \in DOMAIN w.at => k \in STRING /\ w.at[k] \in Values /\ Depth[w.at[k]] < Depth[w]
  BY <1>1, ValueIs DEF IsContainerValue
<1>3. /\ DOMAIN PartsOf(v, w) = DOMAIN v.at \cup DOMAIN w.at
      /\ k \notin DOMAIN w.at => PartsOf(v, w)[k] = Removed(v.at[k])
      /\ k \notin DOMAIN v.at => PartsOf(v, w)[k] = Added(w.at[k])
      /\ k \in DOMAIN v.at /\ k \in DOMAIN w.at => PartsOf(v, w)[k] = DiffValue(v.at[k], w.at[k])
  BY DEF PartsOf, DiffParts, DiffValue
<1>4. ChildrenOf(v, w)[k] = PartsOf(v, w)[k].node
  BY <1>3 DEF ChildrenOf
<1> QED
  BY <1>2, <1>3, <1>4

LEMMA LeafIs ==
  \A v, w : /\ ~IsContainer(Removed(v).node) /\ Removed(v).node.status = "removed"
            /\ ~IsContainer(Added(v).node) /\ Added(v).node.status = "added"
            /\ ~IsContainer(Unchanged(v).node) /\ Unchanged(v).node.status = "unchanged"
            /\ ~IsContainer(Changed(v, w).node) /\ Changed(v, w).node.status = "changed"
BY DEF IsContainer, Removed, Added, Unchanged, Changed, Diffed

\* The nodes of pairs of values, by the first of the pair.
TreesAt(n, d) == \E v, w \in Values : n = DiffValue(v, w).node /\ Depth[v] = d

LeastDepth(n) == CHOOSE d \in Nat : TreesAt(n, d) /\ \A e \in Nat : TreesAt(n, e) => d <= e

NodeDepth == [n \in Nodes |-> IF IsContainer(n) THEN LeastDepth(n) + 1 ELSE 0]

\* A container is the tree of a pair, and the least there is.
LEMMA ContainerIs ==
  ASSUME NEW n \in Nodes, IsContainer(n)
  PROVE  /\ LeastDepth(n) \in Nat
         /\ \A e \in Nat : TreesAt(n, e) => LeastDepth(n) <= e
         /\ \E v, w \in Values :
              n = DiffValue(v, w).node /\ AreComparedByPart(v, w) /\ Depth[v] = LeastDepth(n)
<1> DEFINE T == {d \in Nat : TreesAt(n, d)}
<1>1. \E v, w \in Values : n = DiffValue(v, w).node
  BY LeafIs DEF Nodes
<1>2. T # {} /\ T \in SUBSET Nat
  BY <1>1, ValueIs DEF TreesAt
<1>3. PICK d \in T : \A e \in T : d <= e
  BY <1>2, Least
<1>4. \E e \in Nat : TreesAt(n, e) /\ \A m \in Nat : TreesAt(n, m) => e <= m
  BY <1>3
<1>5. /\ LeastDepth(n) \in Nat /\ TreesAt(n, LeastDepth(n))
      /\ \A e \in Nat : TreesAt(n, e) => LeastDepth(n) <= e
  BY <1>4 DEF LeastDepth
<1>6. PICK v \in Values, w \in Values : n = DiffValue(v, w).node /\ Depth[v] = LeastDepth(n)
  BY <1>5 DEF TreesAt
<1>7. AreComparedByPart(v, w)
  BY <1>6, DiffIs, LeafIs
<1> QED
  BY <1>5, <1>6, <1>7

LEMMA NodeStatusIs ==
  \A children : NodeStatus(children) \in {"changed", "unchanged"}
BY DEF NodeStatus

\* Comparing two values never makes an added or a removed node.
LEMMA DiffStatus ==
  \A v, w \in Values : DiffValue(v, w).node.status \in {"changed", "unchanged"}
<1> SUFFICES ASSUME NEW v \in Values, NEW w \in Values
             PROVE  DiffValue(v, w).node.status \in {"changed", "unchanged"}
  OBVIOUS
<1>1. CASE AreComparedByPart(v, w)
  BY <1>1, ComparedNode, NodeStatusIs
<1>2. CASE ~AreComparedByPart(v, w)
  BY <1>2, DiffIs, LeafIs
<1> QED
  BY <1>1, <1>2

\* The tree of a node is finite, and its children are nodes.
LEMMA NodeIs ==
  ASSUME NEW n \in Nodes
  PROVE  /\ NodeDepth[n] \in Nat
         /\ n.status \in Statuses
         /\ IsContainer(n) =>
              /\ n.type \in ContainerTypes
              /\ n.status = NodeStatus(n.children)
              /\ IsFiniteSet(DOMAIN n.children)
              /\ \A k \in DOMAIN n.children :
                   /\ k \in STRING
                   /\ n.children[k] \in Nodes
                   /\ NodeDepth[n.children[k]] < NodeDepth[n]
<1>1. CASE ~IsContainer(n)
  <2>1. n.status \in Statuses
    BY LeafIs, DiffStatus DEF Nodes, Statuses
  <2> QED
    BY <1>1, <2>1 DEF NodeDepth
<1>2. CASE IsContainer(n)
  <2>1. PICK v \in Values, w \in Values :
          n = DiffValue(v, w).node /\ AreComparedByPart(v, w) /\ Depth[v] = LeastDepth(n)
    BY <1>2, ContainerIs
  <2>2. LeastDepth(n) \in Nat /\ NodeDepth[n] = LeastDepth(n) + 1
    BY <1>2, ContainerIs DEF NodeDepth
  <2>3. /\ n.children = ChildrenOf(v, w) /\ n.status = NodeStatus(n.children) /\ n.type = v.type
        /\ DOMAIN n.children = DOMAIN v.at \cup DOMAIN w.at
    BY <2>1, ComparedNode
  <2>4. ASSUME NEW k \in DOMAIN n.children
        PROVE  /\ k \in STRING /\ n.children[k] \in Nodes
               /\ NodeDepth[n.children[k]] < NodeDepth[n]
    <3>0. k \in DOMAIN v.at \cup DOMAIN w.at
      BY <2>3
    <3>1. CASE k \notin DOMAIN w.at
      <4>1. v.at[k] \in Values /\ k \in STRING /\ n.children[k] = Removed(v.at[k]).node
        BY <2>1, <2>3, <3>0, <3>1, ComparedPart
      <4>2. n.children[k] \in Nodes /\ ~IsContainer(n.children[k])
        BY <4>1, LeafIs DEF Nodes
      <4> QED
        BY <2>2, <4>1, <4>2 DEF NodeDepth
    <3>2. CASE k \notin DOMAIN v.at
      <4>1. w.at[k] \in Values /\ k \in STRING /\ n.children[k] = Added(w.at[k]).node
        BY <2>1, <2>3, <3>0, <3>2, ComparedPart
      <4>2. n.children[k] \in Nodes /\ ~IsContainer(n.children[k])
        BY <4>1, LeafIs DEF Nodes
      <4> QED
        BY <2>2, <4>1, <4>2 DEF NodeDepth
    <3>3. CASE k \in DOMAIN v.at /\ k \in DOMAIN w.at
      <4>1. /\ v.at[k] \in Values /\ w.at[k] \in Values /\ k \in STRING
            /\ Depth[v.at[k]] < Depth[v]
            /\ n.children[k] = DiffValue(v.at[k], w.at[k]).node
        BY <2>1, <2>3, <3>0, <3>3, ComparedPart
      <4>2. n.children[k] \in Nodes
        BY <4>1 DEF Nodes
      <4>3. CASE ~IsContainer(n.children[k])
        BY <2>2, <4>1, <4>2, <4>3 DEF NodeDepth
      <4>4. CASE IsContainer(n.children[k])
        <5>1. Depth[v.at[k]] \in Nat /\ TreesAt(n.children[k], Depth[v.at[k]])
          BY <4>1, ValueIs DEF TreesAt
        <5>2. LeastDepth(n.children[k]) \in Nat /\ LeastDepth(n.children[k]) <= Depth[v.at[k]]
          BY <4>2, <4>4, <5>1, ContainerIs
        <5>3. NodeDepth[n.children[k]] = LeastDepth(n.children[k]) + 1
          BY <4>2, <4>4 DEF NodeDepth
        <5> QED
          BY <2>1, <2>2, <4>1, <4>2, <5>1, <5>2, <5>3
      <4> QED
        BY <4>3, <4>4
    <3> QED
      BY <3>0, <3>1, <3>2, <3>3
  <2>5. n.status \in Statuses
    BY <2>3, NodeStatusIs DEF Statuses
  <2>6. n.type \in ContainerTypes /\ IsFiniteSet(DOMAIN n.children)
    BY <2>1, <2>3, ComparedNode DEF AreComparedByPart
  <2> QED
    BY <2>2, <2>3, <2>4, <2>5, <2>6
<1> QED
  BY <1>1, <1>2

LEMMA NodeInduction ==
  ASSUME NEW P \in SUBSET Nodes,
         \A n \in Nodes :
           (\A m \in Nodes : NodeDepth[m] < NodeDepth[n] => m \in P) => n \in P
  PROVE  P = Nodes
<1> DEFINE Q == {d \in Nat : \A n \in Nodes : NodeDepth[n] = d => n \in P}
<1>0. \A n \in Nodes : NodeDepth[n] \in Nat
  BY NodeIs
<1>1. ASSUME NEW d \in Nat, \A m \in 0..(d - 1) : m \in Q PROVE d \in Q
  <2> SUFFICES ASSUME NEW n \in Nodes, NodeDepth[n] = d PROVE n \in P
    OBVIOUS
  <2>1. ASSUME NEW m \in Nodes, NodeDepth[m] < NodeDepth[n] PROVE m \in P
    <3>1. NodeDepth[m] \in 0..(d - 1)
      BY <1>0, <2>1
    <3> QED
      BY <1>1, <3>1
  <2> QED
    BY <2>1
<1> HIDE DEF Q
<1>2. Nat \subseteq Q
  BY <1>1, StrongInduction
<1> QED
  BY <1>0, <1>2 DEF Q

(***************************************************************************)
(* Equality is an equivalence as far as the trees need it, and a tree is   *)
(* unchanged exactly for equal values.                                     *)
(***************************************************************************)
LEMMA EqualIs ==
  ASSUME NEW v \in Values, NEW w \in Values
  PROVE  /\ AreComparedByPart(v, w) =>
              (Equal(v, w) <=>
                 /\ DOMAIN v.at = DOMAIN w.at
                 /\ \A k \in DOMAIN v.at : Equal(v.at[k], w.at[k]))
         /\ v.type \in ContainerTypes /\ w.type # v.type => ~Equal(v, w)
         /\ v.type \in {"bool", "number"} =>
              (Equal(v, w) <=> w.type \in {"bool", "number"} /\ v.value = w.value)
         /\ v.type \in {"null", "string"} => (Equal(v, w) <=> v = w)
<1>1. Equal(v, w) = EqualStep(v, w, EqualValues)
  BY EqualIsDefined
<1> QED
  BY <1>1 DEF EqualStep, Equal, AreComparedByPart, ContainerTypes

LEMMA EqualReflexive ==
  \A v \in Values : Equal(v, v)
<1> DEFINE P == {v \in Values : Equal(v, v)}
<1>1. ASSUME NEW v \in Values, \A u \in Values : Depth[u] < Depth[v] => u \in P PROVE Equal(v, v)
  <2>1. CASE v.type \in ContainerTypes
    <3>1. ASSUME NEW k \in DOMAIN v.at PROVE Equal(v.at[k], v.at[k])
      BY <1>1, <2>1, ValueIs DEF IsContainerValue
    <3> QED
      BY <2>1, <3>1, EqualIs DEF AreComparedByPart
  <2>2. CASE v.type \notin ContainerTypes
    BY <2>2, EqualIs, ValueIs DEF ScalarTypes
  <2> QED
    BY <2>1, <2>2
<1>2. P \in SUBSET Values
  OBVIOUS
<1>3. P = Values
  BY <1>1, <1>2, ValueInduction
<1> QED
  BY <1>3

LEMMA EqualSymmetric ==
  \A v, w \in Values : Equal(v, w) = Equal(w, v)
<1> DEFINE P == {v \in Values : \A w \in Values : Equal(v, w) <=> Equal(w, v)}
<1>1. ASSUME NEW v \in Values, \A u \in Values : Depth[u] < Depth[v] => u \in P,
             NEW w \in Values
      PROVE  Equal(v, w) <=> Equal(w, v)
  <2>1. CASE AreComparedByPart(v, w)
    <3>1. ASSUME NEW k \in DOMAIN v.at, k \in DOMAIN w.at
          PROVE  Equal(v.at[k], w.at[k]) <=> Equal(w.at[k], v.at[k])
      <4>1. k \in DOMAIN v.at \cup DOMAIN w.at
        OBVIOUS
      <4>2. v.at[k] \in Values /\ Depth[v.at[k]] < Depth[v] /\ w.at[k] \in Values
        BY <2>1, <3>1, <4>1, ComparedPart
      <4> QED
        BY <1>1, <4>2
    <3>2. Equal(v, w) <=> /\ DOMAIN v.at = DOMAIN w.at
                          /\ \A k \in DOMAIN v.at : Equal(v.at[k], w.at[k])
      BY <2>1, EqualIs
    <3>3. Equal(w, v) <=> /\ DOMAIN w.at = DOMAIN v.at
                          /\ \A k \in DOMAIN w.at : Equal(w.at[k], v.at[k])
      BY <2>1, EqualIs DEF AreComparedByPart
    <3> QED
      BY <3>1, <3>2, <3>3
  <2>2. CASE ~AreComparedByPart(v, w)
    <3>1. v.type \in ContainerTypes => ~Equal(v, w) /\ ~Equal(w, v)
      BY <2>2, EqualIs, ValueIs DEF AreComparedByPart, ContainerTypes, ScalarTypes
    <3>2. w.type \in ContainerTypes => ~Equal(v, w) /\ ~Equal(w, v)
      BY <2>2, EqualIs, ValueIs DEF AreComparedByPart, ContainerTypes, ScalarTypes
    <3>3. v.type \in ScalarTypes /\ w.type \in ScalarTypes => (Equal(v, w) <=> Equal(w, v))
      BY EqualIs DEF ScalarTypes
    <3> QED
      BY <3>1, <3>2, <3>3, ValueIs
  <2> QED
    BY <2>1, <2>2
<1>2. P \in SUBSET Values
  OBVIOUS
<1>3. P = Values
  BY <1>1, <1>2, ValueInduction
<1>4. \A v, w \in Values : Equal(v, w) <=> Equal(w, v)
  BY <1>3
<1> QED
  BY <1>4, EqualIsDefined

LEMMA UnchangedIsEqual ==
  \A v, w \in Values : DiffValue(v, w).node.status = "unchanged" <=> Equal(v, w)
<1> DEFINE P == {v \in Values :
                   \A w \in Values : DiffValue(v, w).node.status = "unchanged" <=> Equal(v, w)}
<1>1. ASSUME NEW v \in Values, \A u \in Values : Depth[u] < Depth[v] => u \in P,
             NEW w \in Values
      PROVE  DiffValue(v, w).node.status = "unchanged" <=> Equal(v, w)
  <2>1. CASE AreComparedByPart(v, w)
    <3>1. ASSUME NEW k \in DOMAIN v.at \cup DOMAIN w.at
          PROVE  ChildrenOf(v, w)[k].status \in {"added", "removed", "changed"} <=>
                   ~(k \in DOMAIN v.at /\ k \in DOMAIN w.at /\ Equal(v.at[k], w.at[k]))
      <4>1. CASE k \in DOMAIN v.at /\ k \in DOMAIN w.at
        <5>1. /\ v.at[k] \in Values /\ Depth[v.at[k]] < Depth[v] /\ w.at[k] \in Values
              /\ ChildrenOf(v, w)[k] = DiffValue(v.at[k], w.at[k]).node
          BY <2>1, <3>1, <4>1, ComparedPart
        <5>2. ChildrenOf(v, w)[k].status = "unchanged" <=> Equal(v.at[k], w.at[k])
          BY <1>1, <5>1
        <5>3. ChildrenOf(v, w)[k].status \in {"changed", "unchanged"}
          BY <5>1, DiffStatus
        <5> QED
          BY <4>1, <5>2, <5>3
      <4>2. CASE k \notin DOMAIN w.at
        BY <2>1, <3>1, <4>2, ComparedPart, LeafIs
      <4>3. CASE k \notin DOMAIN v.at
        BY <2>1, <3>1, <4>3, ComparedPart, LeafIs
      <4> QED
        BY <4>1, <4>2, <4>3
    <3>2. /\ DiffValue(v, w).node.status = NodeStatus(ChildrenOf(v, w))
          /\ DOMAIN ChildrenOf(v, w) = DOMAIN v.at \cup DOMAIN w.at
      BY <2>1, ComparedNode
    <3>3. DiffValue(v, w).node.status = "unchanged" <=>
            \A k \in DOMAIN v.at \cup DOMAIN w.at :
              k \in DOMAIN v.at /\ k \in DOMAIN w.at /\ Equal(v.at[k], w.at[k])
      BY <3>1, <3>2 DEF NodeStatus
    <3>4. Equal(v, w) <=> /\ DOMAIN v.at = DOMAIN w.at
                          /\ \A k \in DOMAIN v.at : Equal(v.at[k], w.at[k])
      BY <2>1, EqualIs
    <3> QED
      BY <3>3, <3>4
  <2>2. CASE ~AreComparedByPart(v, w)
    BY <2>2, DiffIs, LeafIs
  <2> QED
    BY <2>1, <2>2
<1>2. P \in SUBSET Values
  OBVIOUS
<1>3. P = Values
  BY <1>1, <1>2, ValueInduction
<1> QED
  BY <1>3

(***************************************************************************)
(* The tree holds both values.                                             *)
(***************************************************************************)
Sides == {"before", "after"}
OtherStatus(side) == IF side = "before" THEN "added" ELSE "removed"
OnSide(node, side) == {k \in DOMAIN node.children : node.children[k].status # OtherStatus(side)}

ReadStep(node, side, v, f) ==
  CASE IsContainer(node) ->
         /\ v.type = node.type
         /\ DOMAIN v.at = OnSide(node, side)
         /\ \A k \in DOMAIN v.at : f[<<node.children[k], side, v.at[k]>>]
    [] "kept" \in DOMAIN node -> Equal(node.kept, v)
    [] OTHER -> Equal(node[side], v)

\* The side of a leaf that has not that side is left open.
ReadsAsValues ==
  BOOLEAN \cup {Equal(n.kept, u) : n \in Nodes, u \in Values}
          \cup {Equal(n[s], u) : n \in Nodes, s \in Sides, u \in Values}

LEMMA ReadsAsIsDefined ==
  ASSUME NEW node \in Nodes, NEW side \in Sides, NEW v \in Values
  PROVE  ReadsAs[<<node, side, v>>] = ReadStep(node, side, v, ReadsAs)
<1> DEFINE D == Nodes \X Sides \X Values
           X == ReadsAsValues
           mu == [p \in D |-> NodeDepth[p[1]]]
           G == [p \in D \X [D -> X] |-> ReadStep(p[1][1], p[1][2], p[1][3], p[2])]
<1>1. mu \in [D -> Nat]
  BY NodeIs
<1>2. ASSUME NEW n \in Nodes, NEW s \in Sides, NEW u \in Values, NEW f PROVE ReadStep(n, s, u, f) \in X
  BY DEF ReadStep, ReadsAsValues
<1>3. G \in [D \X [D -> X] -> X]
  <2> HIDE DEF X
  <2>1. ASSUME NEW p \in D, NEW f PROVE ReadStep(p[1], p[2], p[3], f) \in X
    <3>1. p[1] \in Nodes /\ p[2] \in Sides /\ p[3] \in Values
      OBVIOUS
    <3> QED
      BY <1>2, <3>1
  <2> HIDE DEF D
  <2> QED
    BY <2>1
<1>4. \A r \in D : \A f \in [D -> X] : G[<<r, f>>] = ReadStep(r[1], r[2], r[3], f)
  <2> HIDE DEF D, X
  <2> QED
    OBVIOUS
<1>5. ASSUME NEW r \in D, NEW g \in [D -> X], NEW h \in [D -> X],
             \A q \in D : mu[q] < mu[r] => g[q] = h[q]
      PROVE  ReadStep(r[1], r[2], r[3], g) = ReadStep(r[1], r[2], r[3], h)
  <2>0. PICK n \in Nodes, s \in Sides, u \in Values : r = <<n, s, u>>
    OBVIOUS
  <2>1. CASE IsContainer(n) /\ u.type = n.type /\ DOMAIN u.at = OnSide(n, s)
    <3>1. ASSUME NEW k \in DOMAIN u.at
          PROVE  g[<<n.children[k], s, u.at[k]>>] = h[<<n.children[k], s, u.at[k]>>]
      <4>1. k \in DOMAIN n.children
        BY <2>1 DEF OnSide
      <4>2. n.type \in ContainerTypes /\ n.children[k] \in Nodes
            /\ NodeDepth[n.children[k]] < NodeDepth[n]
        BY <2>1, <4>1, NodeIs
      <4>3. u.at[k] \in Values
        BY <2>1, <4>2, ValueIs DEF IsContainerValue
      <4> DEFINE q == <<n.children[k], s, u.at[k]>>
      <4>4. q \in D /\ mu[q] < mu[r]
        BY <2>0, <4>2, <4>3
      <4> QED
        BY <1>5, <4>4
    <3>2. ReadStep(n, s, u, g) = ReadStep(n, s, u, h)
      BY <2>1, <3>1 DEF ReadStep
    <3> QED
      BY <2>0, <3>2
  <2>2. CASE ~(IsContainer(n) /\ u.type = n.type /\ DOMAIN u.at = OnSide(n, s))
    <3>1. ReadStep(n, s, u, g) = ReadStep(n, s, u, h)
      BY <2>2 DEF ReadStep
    <3> QED
      BY <2>0, <3>1
  <2> QED
    BY <2>1, <2>2
<1>6. LooksBelow(D, X, mu, G)
  <2> HIDE DEF mu, G, D, X
  <2> QED
    BY <1>4, <1>5 DEF LooksBelow
<1> HIDE DEF mu
<1>7. PICK f \in [D -> X] : \A r \in D : f[r] = G[<<r, f>>]
  <2>0. X # {}
    BY DEF ReadsAsValues
  <2> HIDE DEF D, X, G
  <2>1. IsRecursion(D, X, mu, G)
    BY <1>1, <1>3, <1>6, <2>0 DEF IsRecursion
  <2>2. HasSolution(D, X, G)
    BY <2>1, Recursion
  <2> QED
    BY <2>2 DEF HasSolution
<1>8. f = [p \in D |-> ReadStep(p[1], p[2], p[3], f)]
  <2> HIDE DEF D, X, G
  <2> QED
    BY <1>4, <1>7
<1>9. ReadsAs = [p \in D |-> ReadStep(p[1], p[2], p[3], ReadsAs)]
  <2>1. ReadsAs = CHOOSE g : g = [p \in D |-> ReadStep(p[1], p[2], p[3], g)]
    BY DEF ReadsAs, ReadStep, Sides, OtherStatus, OnSide
  <2> HIDE DEF D
  <2> QED
    BY <1>8, <2>1
<1>10. <<node, side, v>> \in D
  OBVIOUS
<1> HIDE DEF D
<1>11. ReadsAs[<<node, side, v>>] = ReadStep(<<node, side, v>>[1], <<node, side, v>>[2], <<node, side, v>>[3], ReadsAs)
  BY <1>9, <1>10
<1> QED
  BY <1>11

\* Whether a leaf that is not a container reads as a value.
LEMMA LeafReads ==
  ASSUME NEW v \in Values, NEW w \in Values, NEW u \in Values
  PROVE  /\ ReadsAs[<<Removed(v).node, "before", u>>] = Equal(v, u)
         /\ ReadsAs[<<Added(v).node, "after", u>>] = Equal(v, u)
         /\ ~AreComparedByPart(v, w) /\ Equal(v, w) =>
              \A side \in Sides : ReadsAs[<<DiffValue(v, w).node, side, u>>] = Equal(v, u)
         /\ ~AreComparedByPart(v, w) /\ ~Equal(v, w) =>
              /\ ReadsAs[<<DiffValue(v, w).node, "before", u>>] = Equal(v, u)
              /\ ReadsAs[<<DiffValue(v, w).node, "after", u>>] = Equal(w, u)
<1>0. "before" \in Sides /\ "after" \in Sides
  BY DEF Sides
<1>1. ReadsAs[<<Removed(v).node, "before", u>>] = Equal(v, u)
  <2>1. Removed(v).node \in Nodes
    BY DEF Nodes
  <2>2. ReadsAs[<<Removed(v).node, "before", u>>] = ReadStep(Removed(v).node, "before", u, ReadsAs)
    BY <1>0, <2>1, ReadsAsIsDefined
  <2> QED
    BY <2>2 DEF ReadStep, Removed, Diffed, IsContainer
<1>2. ReadsAs[<<Added(v).node, "after", u>>] = Equal(v, u)
  <2>1. Added(v).node \in Nodes
    BY DEF Nodes
  <2>2. ReadsAs[<<Added(v).node, "after", u>>] = ReadStep(Added(v).node, "after", u, ReadsAs)
    BY <1>0, <2>1, ReadsAsIsDefined
  <2> QED
    BY <2>2 DEF ReadStep, Added, Diffed, IsContainer
<1>3. ASSUME NEW side \in Sides
      PROVE  ReadsAs[<<DiffValue(v, w).node, side, u>>] = ReadStep(DiffValue(v, w).node, side, u, ReadsAs)
  <2>1. DiffValue(v, w).node \in Nodes
    BY DEF Nodes
  <2> QED
    BY <2>1, ReadsAsIsDefined
<1>4. ASSUME ~AreComparedByPart(v, w), Equal(v, w), NEW side \in Sides
      PROVE  ReadStep(DiffValue(v, w).node, side, u, ReadsAs) = Equal(v, u)
  <2>1. DiffValue(v, w) = Unchanged(v)
    BY <1>4, DiffIs
  <2> QED
    BY <2>1 DEF ReadStep, Unchanged, Diffed, IsContainer
<1>5. ASSUME ~AreComparedByPart(v, w), ~Equal(v, w)
      PROVE  /\ ReadStep(DiffValue(v, w).node, "before", u, ReadsAs) = Equal(v, u)
             /\ ReadStep(DiffValue(v, w).node, "after", u, ReadsAs) = Equal(w, u)
  <2>1. DiffValue(v, w) = Changed(v, w)
    BY <1>5, DiffIs
  <2> QED
    BY <2>1 DEF ReadStep, Changed, Diffed, IsContainer
<1> QED
  BY <1>0, <1>1, <1>2, <1>3, <1>4, <1>5

\* The tree of two values reads as the first before and as the second after.
LEMMA TreeHoldsBoth ==
  \A v, w \in Values : /\ ReadsAs[<<DiffValue(v, w).node, "before", v>>]
                       /\ ReadsAs[<<DiffValue(v, w).node, "after", w>>]
<1> DEFINE Right(v, w) == /\ ReadsAs[<<DiffValue(v, w).node, "before", v>>]
                          /\ ReadsAs[<<DiffValue(v, w).node, "after", w>>]
           P == {v \in Values : \A w \in Values : Right(v, w)}
<1>0. "before" \in Sides /\ "after" \in Sides
  BY DEF Sides
<1>1. ASSUME NEW v \in Values, \A u \in Values : Depth[u] < Depth[v] => u \in P,
             NEW w \in Values
      PROVE  Right(v, w)
  <2>1. CASE AreComparedByPart(v, w)
    <3> DEFINE node == DiffValue(v, w).node
    <3>1. /\ node \in Nodes /\ IsContainer(node) /\ node.type = v.type /\ node.type = w.type
          /\ "kept" \notin DOMAIN node
          /\ node.children = ChildrenOf(v, w)
          /\ DOMAIN node.children = DOMAIN v.at \cup DOMAIN w.at
      <4>1. v.type = w.type /\ node \in Nodes
        BY <2>1 DEF Nodes, AreComparedByPart
      <4> QED
        BY <2>1, <4>1, ComparedNode
    <3> HIDE DEF node
    <3>2. ASSUME NEW k \in DOMAIN v.at
          PROVE  /\ node.children[k].status # "added"
                 /\ ReadsAs[<<node.children[k], "before", v.at[k]>>]
      <4>1. CASE k \in DOMAIN w.at
        <5>1. /\ v.at[k] \in Values /\ Depth[v.at[k]] < Depth[v] /\ w.at[k] \in Values
              /\ node.children[k] = DiffValue(v.at[k], w.at[k]).node
          BY <2>1, <3>1, <4>1, ComparedPart
        <5>2. Right(v.at[k], w.at[k])
          BY <1>1, <5>1
        <5>3. node.children[k].status \in {"changed", "unchanged"}
          BY <5>1, DiffStatus
        <5> QED
          BY <5>1, <5>2, <5>3
      <4>2. CASE k \notin DOMAIN w.at
        <5>1. v.at[k] \in Values /\ node.children[k] = Removed(v.at[k]).node
          BY <2>1, <3>1, <4>2, ComparedPart
        <5> QED
          BY <5>1, LeafIs, LeafReads, EqualReflexive
      <4> QED
        BY <4>1, <4>2
    <3>3. ASSUME NEW k \in DOMAIN w.at
          PROVE  /\ node.children[k].status # "removed"
                 /\ ReadsAs[<<node.children[k], "after", w.at[k]>>]
      <4>1. CASE k \in DOMAIN v.at
        <5>1. /\ v.at[k] \in Values /\ Depth[v.at[k]] < Depth[v] /\ w.at[k] \in Values
              /\ node.children[k] = DiffValue(v.at[k], w.at[k]).node
          BY <2>1, <3>1, <4>1, ComparedPart
        <5>2. Right(v.at[k], w.at[k])
          BY <1>1, <5>1
        <5>3. node.children[k].status \in {"changed", "unchanged"}
          BY <5>1, DiffStatus
        <5> QED
          BY <5>1, <5>2, <5>3
      <4>2. CASE k \notin DOMAIN v.at
        <5>1. w.at[k] \in Values /\ node.children[k] = Added(w.at[k]).node
          BY <2>1, <3>1, <4>2, ComparedPart
        <5> QED
          BY <5>1, LeafIs, LeafReads, EqualReflexive
      <4> QED
        BY <4>1, <4>2
    <3>4. ASSUME NEW k \in DOMAIN w.at, k \notin DOMAIN v.at
          PROVE  node.children[k].status = "added"
      <4>1. node.children[k] = Added(w.at[k]).node
        BY <2>1, <3>1, <3>4, ComparedPart
      <4> QED
        BY <4>1, LeafIs
    <3>5. ASSUME NEW k \in DOMAIN v.at, k \notin DOMAIN w.at
          PROVE  node.children[k].status = "removed"
      <4>1. node.children[k] = Removed(v.at[k]).node
        BY <2>1, <3>1, <3>5, ComparedPart
      <4> QED
        BY <4>1, LeafIs
    <3>6. DOMAIN v.at = OnSide(node, "before")
      BY <3>1, <3>2, <3>4 DEF OnSide, OtherStatus
    <3>7. DOMAIN w.at = OnSide(node, "after")
      BY <3>1, <3>3, <3>5 DEF OnSide, OtherStatus
    <3>8. /\ ReadsAs[<<node, "before", v>>] = ReadStep(node, "before", v, ReadsAs)
          /\ ReadsAs[<<node, "after", w>>] = ReadStep(node, "after", w, ReadsAs)
      BY <1>0, <3>1, ReadsAsIsDefined
    <3>9. ReadStep(node, "before", v, ReadsAs) /\ ReadStep(node, "after", w, ReadsAs)
      <4>1. ReadStep(node, "before", v, ReadsAs)
        <5>1. \A k \in DOMAIN v.at : ReadsAs[<<node.children[k], "before", v.at[k]>>]
          BY <3>2
        <5>2. ReadStep(node, "before", v, ReadsAs) =
                (/\ v.type = node.type
                 /\ DOMAIN v.at = OnSide(node, "before")
                 /\ \A k \in DOMAIN v.at : ReadsAs[<<node.children[k], "before", v.at[k]>>])
          BY <3>1, Zenon DEF ReadStep
        <5> QED
          BY <3>1, <3>6, <5>1, <5>2, Zenon
      <4>2. ReadStep(node, "after", w, ReadsAs)
        <5>1. \A k \in DOMAIN w.at : ReadsAs[<<node.children[k], "after", w.at[k]>>]
          BY <3>3
        <5>2. ReadStep(node, "after", w, ReadsAs) =
                (/\ w.type = node.type
                 /\ DOMAIN w.at = OnSide(node, "after")
                 /\ \A k \in DOMAIN w.at : ReadsAs[<<node.children[k], "after", w.at[k]>>])
          BY <3>1, Zenon DEF ReadStep
        <5> QED
          BY <3>1, <3>7, <5>1, <5>2, Zenon
      <4> QED
        BY <4>1, <4>2
    <3> QED
      BY <3>8, <3>9 DEF node
  <2>2. CASE ~AreComparedByPart(v, w)
    <3>1. CASE Equal(v, w)
      BY <1>0, <2>2, <3>1, LeafReads, EqualReflexive
    <3>2. CASE ~Equal(v, w)
      BY <2>2, <3>2, LeafReads, EqualReflexive
    <3> QED
      BY <3>1, <3>2
  <2> QED
    BY <2>1, <2>2
<1>2. P \in SUBSET Values
  OBVIOUS
<1>3. P = Values
  <2> HIDE DEF Right
  <2> QED
    BY <1>1, <1>2, ValueInduction
<1> QED
  BY <1>3

(***************************************************************************)
(* The other way round.                                                    *)
(***************************************************************************)
MirrorStep(n, m, f) ==
  /\ m.status = Mirrored(n.status)
  /\ n.status \in {"added", "removed", "changed"} => m.type = n.type
  /\ IsContainer(n) = IsContainer(m)
  /\ IsContainer(n) =>
       /\ DOMAIN n.children = DOMAIN m.children
       /\ \A k \in DOMAIN n.children : f[<<n.children[k], m.children[k]>>]

LEMMA MirrorIsDefined ==
  ASSUME NEW n \in Nodes, NEW m \in Nodes
  PROVE  MirrorImages[<<n, m>>] = MirrorStep(n, m, MirrorImages)
<1> DEFINE D == Nodes \X Nodes
           X == BOOLEAN
           mu == [p \in D |-> NodeDepth[p[1]]]
           G == [p \in D \X [D -> X] |-> MirrorStep(p[1][1], p[1][2], p[2])]
<1>1. mu \in [D -> Nat]
  BY NodeIs
<1>2. \A a, b, f : MirrorStep(a, b, f) \in X
  BY DEF MirrorStep
<1>3. G \in [D \X [D -> X] -> X]
  <2> HIDE DEF D, X
  <2> QED
    BY <1>2
<1>4. \A r \in D : \A f \in [D -> X] : G[<<r, f>>] = MirrorStep(r[1], r[2], f)
  <2> HIDE DEF D, X
  <2> QED
    OBVIOUS
<1>5. ASSUME NEW r \in D, NEW g \in [D -> X], NEW h \in [D -> X],
             \A q \in D : mu[q] < mu[r] => g[q] = h[q]
      PROVE  MirrorStep(r[1], r[2], g) = MirrorStep(r[1], r[2], h)
  <2>0. PICK a \in Nodes, b \in Nodes : r = <<a, b>>
    OBVIOUS
  <2>1. CASE IsContainer(a) /\ IsContainer(b) /\ DOMAIN a.children = DOMAIN b.children
    <3>1. ASSUME NEW k \in DOMAIN a.children
          PROVE  g[<<a.children[k], b.children[k]>>] = h[<<a.children[k], b.children[k]>>]
      <4>1. a.children[k] \in Nodes /\ b.children[k] \in Nodes
            /\ NodeDepth[a.children[k]] < NodeDepth[a]
        BY <2>1, NodeIs
      <4> DEFINE q == <<a.children[k], b.children[k]>>
      <4>2. q \in D /\ mu[q] < mu[r]
        BY <2>0, <4>1
      <4> QED
        BY <1>5, <4>2
    <3>2. MirrorStep(a, b, g) = MirrorStep(a, b, h)
      BY <2>1, <3>1 DEF MirrorStep
    <3> QED
      BY <2>0, <3>2
  <2>2. CASE ~(IsContainer(a) /\ IsContainer(b) /\ DOMAIN a.children = DOMAIN b.children)
    <3>1. MirrorStep(a, b, g) = MirrorStep(a, b, h)
      BY <2>2 DEF MirrorStep, IsContainer
    <3> QED
      BY <2>0, <3>1
  <2> QED
    BY <2>1, <2>2
<1>6. LooksBelow(D, X, mu, G)
  <2> HIDE DEF mu, G, D, X
  <2> QED
    BY <1>4, <1>5 DEF LooksBelow
<1> HIDE DEF mu
<1>7. PICK f \in [D -> X] : \A r \in D : f[r] = G[<<r, f>>]
  <2>0. X # {}
    OBVIOUS
  <2> HIDE DEF D, X, G
  <2>1. IsRecursion(D, X, mu, G)
    BY <1>1, <1>3, <1>6, <2>0 DEF IsRecursion
  <2>2. HasSolution(D, X, G)
    BY <2>1, Recursion
  <2> QED
    BY <2>2 DEF HasSolution
<1>8. f = [p \in D |-> MirrorStep(p[1], p[2], f)]
  <2> HIDE DEF D, X, G
  <2> QED
    BY <1>4, <1>7
<1>9. MirrorImages = [p \in D |-> MirrorStep(p[1], p[2], MirrorImages)]
  <2>1. MirrorImages = CHOOSE g : g = [p \in D |-> MirrorStep(p[1], p[2], g)]
    BY DEF MirrorImages, MirrorStep
  <2> HIDE DEF D
  <2> QED
    BY <1>8, <2>1
<1>10. <<n, m>> \in D
  OBVIOUS
<1> HIDE DEF D
<1>11. MirrorImages[<<n, m>>] = MirrorStep(<<n, m>>[1], <<n, m>>[2], MirrorImages)
  BY <1>9, <1>10
<1> QED
  BY <1>11

LEMMA LeafMirrors ==
  ASSUME NEW v \in Values, NEW w \in Values
  PROVE  /\ MirrorImages[<<Removed(v).node, Added(v).node>>]
         /\ MirrorImages[<<Added(v).node, Removed(v).node>>]
         /\ ~AreComparedByPart(v, w) =>
              MirrorImages[<<DiffValue(v, w).node, DiffValue(w, v).node>>]
<1>1. MirrorImages[<<Removed(v).node, Added(v).node>>] /\ MirrorImages[<<Added(v).node, Removed(v).node>>]
  <2>1. Removed(v).node \in Nodes /\ Added(v).node \in Nodes
    BY DEF Nodes
  <2>2. MirrorStep(Removed(v).node, Added(v).node, MirrorImages)
    BY DEF MirrorStep, Mirrored, Removed, Added, Diffed, IsContainer
  <2>3. MirrorStep(Added(v).node, Removed(v).node, MirrorImages)
    BY DEF MirrorStep, Mirrored, Removed, Added, Diffed, IsContainer
  <2> QED
    BY <2>1, <2>2, <2>3, MirrorIsDefined
<1>2. ASSUME ~AreComparedByPart(v, w)
      PROVE  MirrorImages[<<DiffValue(v, w).node, DiffValue(w, v).node>>]
  <2>0. ~AreComparedByPart(w, v)
    BY <1>2 DEF AreComparedByPart
  <2>1. DiffValue(v, w).node \in Nodes /\ DiffValue(w, v).node \in Nodes
    BY DEF Nodes
  <2>2. CASE Equal(v, w)
    <3>1. DiffValue(v, w) = Unchanged(v) /\ DiffValue(w, v) = Unchanged(w)
      BY <1>2, <2>0, <2>2, DiffIs, EqualSymmetric
    <3>2. MirrorStep(DiffValue(v, w).node, DiffValue(w, v).node, MirrorImages)
      BY <3>1 DEF MirrorStep, Mirrored, Unchanged, Diffed, IsContainer
    <3> QED
      BY <2>1, <3>2, MirrorIsDefined
  <2>3. CASE ~Equal(v, w)
    <3>1. DiffValue(v, w) = Changed(v, w) /\ DiffValue(w, v) = Changed(w, v)
      BY <1>2, <2>0, <2>3, DiffIs, EqualSymmetric
    <3>2. MirrorStep(DiffValue(v, w).node, DiffValue(w, v).node, MirrorImages)
      BY <3>1 DEF MirrorStep, Mirrored, Changed, Diffed, IsContainer, ChangedType
    <3> QED
      BY <2>1, <3>2, MirrorIsDefined
  <2> QED
    BY <2>2, <2>3
<1> QED
  BY <1>1, <1>2

LEMMA TreesMirror ==
  \A v, w \in Values : MirrorImages[<<DiffValue(v, w).node, DiffValue(w, v).node>>]
<1> DEFINE Right(v, w) == MirrorImages[<<DiffValue(v, w).node, DiffValue(w, v).node>>]
           P == {v \in Values : \A w \in Values : Right(v, w)}
<1>1. ASSUME NEW v \in Values, \A u \in Values : Depth[u] < Depth[v] => u \in P,
             NEW w \in Values
      PROVE  Right(v, w)
  <2>1. CASE AreComparedByPart(v, w)
    <3>0. AreComparedByPart(w, v)
      BY <2>1 DEF AreComparedByPart
    <3> DEFINE n == DiffValue(v, w).node
               m == DiffValue(w, v).node
    <3>1. n \in Nodes /\ m \in Nodes /\ v.type = w.type
      BY <2>1 DEF Nodes, AreComparedByPart
    <3>2. /\ IsContainer(n) /\ IsContainer(m) /\ n.type = v.type /\ m.type = w.type
          /\ n.children = ChildrenOf(v, w) /\ m.children = ChildrenOf(w, v)
          /\ n.status = NodeStatus(n.children) /\ m.status = NodeStatus(m.children)
          /\ DOMAIN n.children = DOMAIN v.at \cup DOMAIN w.at
          /\ DOMAIN m.children = DOMAIN v.at \cup DOMAIN w.at
      <4>1. /\ IsContainer(n) /\ n.type = v.type /\ n.children = ChildrenOf(v, w)
            /\ n.status = NodeStatus(n.children)
            /\ DOMAIN n.children = DOMAIN v.at \cup DOMAIN w.at
        BY <2>1, ComparedNode
      <4>2. /\ IsContainer(m) /\ m.type = w.type /\ m.children = ChildrenOf(w, v)
            /\ m.status = NodeStatus(m.children)
            /\ DOMAIN m.children = DOMAIN w.at \cup DOMAIN v.at
        BY <3>0, ComparedNode
      <4> HIDE DEF n, m
      <4> QED
        BY <4>1, <4>2
    <3> HIDE DEF n, m
    <3>3. ASSUME NEW k \in DOMAIN n.children
          PROVE  /\ MirrorImages[<<n.children[k], m.children[k]>>]
                 /\ n.children[k] \in Nodes /\ m.children[k] \in Nodes
      <4>0. k \in DOMAIN v.at \cup DOMAIN w.at /\ k \in DOMAIN w.at \cup DOMAIN v.at
        BY <3>2
      <4>1. CASE k \in DOMAIN v.at /\ k \in DOMAIN w.at
        <5>1. /\ v.at[k] \in Values /\ Depth[v.at[k]] < Depth[v] /\ w.at[k] \in Values
              /\ n.children[k] = DiffValue(v.at[k], w.at[k]).node
              /\ m.children[k] = DiffValue(w.at[k], v.at[k]).node
          BY <2>1, <3>0, <3>2, <4>0, <4>1, ComparedPart
        <5>2. Right(v.at[k], w.at[k])
          BY <1>1, <5>1
        <5> QED
          BY <5>1, <5>2 DEF Nodes
      <4>2. CASE k \notin DOMAIN w.at
        <5>1. /\ v.at[k] \in Values
              /\ n.children[k] = Removed(v.at[k]).node /\ m.children[k] = Added(v.at[k]).node
          BY <2>1, <3>0, <3>2, <4>0, <4>2, ComparedPart
        <5>2. Removed(v.at[k]).node \in Nodes /\ Added(v.at[k]).node \in Nodes
          BY <5>1 DEF Nodes
        <5> QED
          BY <5>1, <5>2, LeafMirrors
      <4>3. CASE k \notin DOMAIN v.at
        <5>1. /\ w.at[k] \in Values
              /\ n.children[k] = Added(w.at[k]).node /\ m.children[k] = Removed(w.at[k]).node
          BY <2>1, <3>0, <3>2, <4>0, <4>3, ComparedPart
        <5>2. Removed(w.at[k]).node \in Nodes /\ Added(w.at[k]).node \in Nodes
          BY <5>1 DEF Nodes
        <5> QED
          BY <5>1, <5>2, LeafMirrors
      <4> QED
        BY <4>1, <4>2, <4>3
    <3>4. ASSUME NEW k \in DOMAIN n.children
          PROVE  m.children[k].status = Mirrored(n.children[k].status)
      <4>1. MirrorImages[<<n.children[k], m.children[k]>>] =
              MirrorStep(n.children[k], m.children[k], MirrorImages)
        BY <3>3, MirrorIsDefined
      <4>2. MirrorStep(n.children[k], m.children[k], MirrorImages)
        BY <3>3, <4>1
      <4> QED
        BY <4>2 DEF MirrorStep
    <3>5. n.status = m.status /\ n.status \in {"changed", "unchanged"}
      <4>1. ASSUME NEW k \in DOMAIN n.children
            PROVE  n.children[k].status \in {"added", "removed", "changed"} <=>
                     m.children[k].status \in {"added", "removed", "changed"}
        BY <3>4 DEF Mirrored
      <4>2. NodeStatus(n.children) = NodeStatus(m.children)
        BY <3>2, <4>1 DEF NodeStatus
      <4> QED
        BY <3>2, <4>2, NodeStatusIs
    <3>6. m.status = Mirrored(n.status)
      BY <3>5 DEF Mirrored
    <3>7. DOMAIN n.children = DOMAIN m.children /\ m.type = n.type
          /\ IsContainer(n) = IsContainer(m)
      BY <3>1, <3>2 DEF IsContainer
    <3>8. \A k \in DOMAIN n.children : MirrorImages[<<n.children[k], m.children[k]>>]
      BY <3>3
    <3>9. MirrorStep(n, m, MirrorImages)
      BY <3>6, <3>7, <3>8, Zenon DEF MirrorStep
    <3> QED
      BY <3>1, <3>9, MirrorIsDefined DEF n, m
  <2>2. CASE ~AreComparedByPart(v, w)
    BY <2>2, LeafMirrors
  <2> QED
    BY <2>1, <2>2
<1>2. P \in SUBSET Values
  OBVIOUS
<1>3. P = Values
  <2> HIDE DEF Right
  <2> QED
    BY <1>1, <1>2, ValueInduction
<1> QED
  BY <1>3

(***************************************************************************)
(* Sums over the values of a function.                                     *)
(***************************************************************************)
TotalStep(f, S, g) ==
  IF S = {} THEN 0 ELSE LET k == CHOOSE k \in S : TRUE IN f[k] + g[S \ {k}]

TotalOf(f) == CHOOSE g : g = [S \in SUBSET DOMAIN f |-> TotalStep(f, S, g)]

LEMMA TotalIsDefined ==
  ASSUME NEW f, f \in [DOMAIN f -> Nat], IsFiniteSet(DOMAIN f)
  PROVE  /\ InTotal(f) = TotalOf(f)[DOMAIN f]
         /\ \A S \in SUBSET DOMAIN f :
              TotalOf(f)[S] \in Nat /\ TotalOf(f)[S] = TotalStep(f, S, TotalOf(f))
<1> DEFINE D == SUBSET DOMAIN f
           X == Nat
           mu == [S \in D |-> Cardinality(S)]
           G == [p \in D \X [D -> X] |-> TotalStep(f, p[1], p[2])]
<1>0. ASSUME NEW S \in D
      PROVE  /\ IsFiniteSet(S) /\ Cardinality(S) \in Nat
             /\ \A k \in S : f[k] \in Nat /\ S \ {k} \in D /\ Cardinality(S \ {k}) < Cardinality(S)
  <2>1. IsFiniteSet(S) /\ Cardinality(S) \in Nat
    BY FS_Subset, FS_CardinalityType
  <2>2. ASSUME NEW k \in S PROVE f[k] \in Nat /\ S \ {k} \in D /\ Cardinality(S \ {k}) < Cardinality(S)
    <3>1. Cardinality(S \ {k}) = Cardinality(S) - 1 /\ S \ {k} \in D /\ k \in DOMAIN f
      BY <2>1, FS_RemoveElement
    <3> QED
      BY <2>1, <3>1
  <2> QED
    BY <2>1, <2>2
<1>1. mu \in [D -> Nat]
  BY <1>0
<1>2. ASSUME NEW S \in D, NEW g \in [D -> X] PROVE TotalStep(f, S, g) \in X
  BY <1>0 DEF TotalStep
<1>3. G \in [D \X [D -> X] -> X]
  <2> HIDE DEF D, X
  <2> QED
    BY <1>2
<1>4. \A r \in D : \A g \in [D -> X] : G[<<r, g>>] = TotalStep(f, r, g)
  <2> HIDE DEF D, X
  <2> QED
    OBVIOUS
<1>5. ASSUME NEW r \in D, NEW g \in [D -> X], NEW h \in [D -> X],
             \A q \in D : mu[q] < mu[r] => g[q] = h[q]
      PROVE  TotalStep(f, r, g) = TotalStep(f, r, h)
  <2>1. CASE r = {}
    BY <2>1 DEF TotalStep
  <2>2. CASE r # {}
    <3>1. PICK k \in r : k = CHOOSE e \in r : TRUE
      BY <2>2
    <3>2. r \ {k} \in D /\ mu[r \ {k}] < mu[r]
      BY <1>0
    <3>3. g[r \ {k}] = h[r \ {k}]
      BY <1>5, <3>2
    <3> QED
      BY <2>2, <3>1, <3>3 DEF TotalStep
  <2> QED
    BY <2>1, <2>2
<1>6. LooksBelow(D, X, mu, G)
  <2> HIDE DEF mu, G, D, X
  <2> QED
    BY <1>4, <1>5 DEF LooksBelow
<1> HIDE DEF mu
<1>7. PICK t \in [D -> X] : \A r \in D : t[r] = G[<<r, t>>]
  <2>0. X # {}
    OBVIOUS
  <2> HIDE DEF D, X, G
  <2>1. IsRecursion(D, X, mu, G)
    BY <1>1, <1>3, <1>6, <2>0 DEF IsRecursion
  <2>2. HasSolution(D, X, G)
    BY <2>1, Recursion
  <2> QED
    BY <2>2 DEF HasSolution
<1>8. t = [S \in D |-> TotalStep(f, S, t)]
  <2> HIDE DEF D, X, G
  <2> QED
    BY <1>4, <1>7
<1>9. TotalOf(f) = [S \in D |-> TotalStep(f, S, TotalOf(f))]
  <2>1. TotalOf(f) = CHOOSE g : g = [S \in D |-> TotalStep(f, S, g)]
    BY DEF TotalOf
  <2> HIDE DEF D
  <2> QED
    BY <1>8, <2>1
<1>10. InTotal(f) = TotalOf(f)[DOMAIN f]
  BY DEF InTotal, TotalOf, TotalStep
<1> DEFINE total == TotalOf(f)
<1>11. \A S \in D : total[S] = TotalStep(f, S, total)
  <2>1. total = [S \in D |-> TotalStep(f, S, total)]
    BY <1>9
  <2> HIDE DEF D, total
  <2> QED
    BY <2>1
<1>12. \A S \in D : total[S] \in Nat
  <2> DEFINE P == {n \in Nat : \A S \in D : Cardinality(S) = n => total[S] \in Nat}
  <2>1. ASSUME NEW n \in Nat, \A m \in 0..(n - 1) : m \in P PROVE n \in P
    <3> SUFFICES ASSUME NEW S \in D, Cardinality(S) = n PROVE total[S] \in Nat
      OBVIOUS
    <3> HIDE DEF total
    <3>1. CASE S = {}
      <4>1. total[S] = TotalStep(f, S, total)
        BY <1>11
      <4>2. TotalStep(f, S, total) = 0
        BY <3>1 DEF TotalStep
      <4> QED
        BY <4>1, <4>2
    <3>2. CASE S # {}
      <4>1. PICK k \in S : k = CHOOSE e \in S : TRUE
        BY <3>2
      <4>2. f[k] \in Nat /\ S \ {k} \in D /\ Cardinality(S \ {k}) \in 0..(n - 1)
        <5>1. f[k] \in Nat /\ S \ {k} \in D /\ Cardinality(S \ {k}) < Cardinality(S)
          BY <1>0
        <5>2. Cardinality(S \ {k}) \in Nat
          BY <1>0, <5>1
        <5> QED
          BY <5>1, <5>2
      <4>3. total[S \ {k}] \in Nat
        BY <2>1, <4>2
      <4>4. total[S] = f[k] + total[S \ {k}]
        BY <1>11, <3>2, <4>1 DEF TotalStep
      <4> QED
        BY <4>2, <4>3, <4>4
    <3> QED
      BY <3>1, <3>2
  <2> HIDE DEF P
  <2>2. Nat \subseteq P
    BY <2>1, StrongInduction
  <2> QED
    BY <1>0, <2>2 DEF P
<1> QED
  BY <1>10, <1>11, <1>12

\* The size of a disjoint union is the sum of the sizes.
LEMMA TotalIsSize ==
  ASSUME NEW f, f \in [DOMAIN f -> Nat], IsFiniteSet(DOMAIN f), NEW R,
         \A k \in DOMAIN f : IsFiniteSet(R[k]) /\ Cardinality(R[k]) = f[k],
         \A k, l \in DOMAIN f : k # l => R[k] \cap R[l] = {}
  PROVE  /\ IsFiniteSet(UNION {R[k] : k \in DOMAIN f})
         /\ Cardinality(UNION {R[k] : k \in DOMAIN f}) = InTotal(f)
<1> DEFINE total == TotalOf(f)
           All(S) == UNION {R[k] : k \in S}
           P == {n \in Nat : \A S \in SUBSET DOMAIN f : Cardinality(S) = n =>
                               IsFiniteSet(All(S)) /\ Cardinality(All(S)) = total[S]}
<1>1. \A S \in SUBSET DOMAIN f : total[S] \in Nat /\ total[S] = TotalStep(f, S, total)
  BY TotalIsDefined
<1>2. ASSUME NEW n \in Nat, \A m \in 0..(n - 1) : m \in P PROVE n \in P
  <2> SUFFICES ASSUME NEW S \in SUBSET DOMAIN f, Cardinality(S) = n
               PROVE  IsFiniteSet(All(S)) /\ Cardinality(All(S)) = total[S]
    OBVIOUS
  <2>0. IsFiniteSet(S)
    BY FS_Subset
  <2> HIDE DEF total
  <2>1. CASE S = {}
    <3>1. All(S) = {}
      BY <2>1
    <3>2. total[S] = 0
      BY <1>1, <2>1 DEF TotalStep
    <3> HIDE DEF All
    <3> QED
      BY <3>1, <3>2, FS_EmptySet
  <2>2. CASE S # {}
    <3>1. PICK k \in S : k = CHOOSE e \in S : TRUE
      BY <2>2
    <3> DEFINE T == S \ {k}
    <3>2. T \in SUBSET DOMAIN f /\ Cardinality(T) \in 0..(n - 1)
      <4>1. Cardinality(T) = Cardinality(S) - 1 /\ IsFiniteSet(T)
        BY <2>0, FS_RemoveElement
      <4>2. Cardinality(T) \in Nat
        BY <4>1, FS_CardinalityType
      <4> QED
        BY <4>1, <4>2
    <3>3. IsFiniteSet(All(T)) /\ Cardinality(All(T)) = total[T]
      <4>1. Cardinality(T) \in P
        BY <1>2, <3>2
      <4> HIDE DEF T
      <4> QED
        BY <3>2, <4>1
    <3>4. total[S] = f[k] + total[T]
      BY <1>1, <2>2, <3>1 DEF TotalStep
    <3>5. All(S) = R[k] \cup All(T) /\ R[k] \cap All(T) = {}
      OBVIOUS
    <3>6. IsFiniteSet(R[k]) /\ Cardinality(R[k]) = f[k] /\ f[k] \in Nat /\ total[T] \in Nat
      BY <1>1, <3>2
    <3> HIDE DEF All, T
    <3>7. /\ IsFiniteSet(R[k] \cup All(T))
          /\ Cardinality(R[k] \cup All(T)) =
               Cardinality(R[k]) + Cardinality(All(T)) - Cardinality(R[k] \cap All(T))
      BY <3>3, <3>6, FS_Union
    <3>8. Cardinality(R[k] \cap All(T)) = 0
      BY <3>5, FS_EmptySet
    <3> QED
      BY <3>3, <3>4, <3>5, <3>6, <3>7, <3>8
  <2> QED
    BY <2>1, <2>2
<1> HIDE DEF P
<1>3. Nat \subseteq P
  BY <1>2, StrongInduction
<1>4. Cardinality(DOMAIN f) \in P
  BY <1>3, FS_CardinalityType
<1>5. IsFiniteSet(All(DOMAIN f)) /\ Cardinality(All(DOMAIN f)) = total[DOMAIN f]
  <2> HIDE DEF All, total
  <2> QED
    BY <1>4 DEF P
<1> QED
  BY <1>5, TotalIsDefined

(***************************************************************************)
(* The rows of the table.                                                  *)
(***************************************************************************)
Rows == [path: Seq(STRING), status: Statuses]

FlattenStep(n, path, f) ==
  IF IsContainer(n) /\ n.type \in ContainerTypes
    THEN UNION {f[<<n.children[k], Append(path, k)>>] : k \in DOMAIN n.children}
    ELSE {[path |-> path, status |-> n.status]}

LEMMA AppendTyped ==
  \A T : \A s \in Seq(T) : \A e \in T : Append(s, e) \in Seq(T)
OBVIOUS

\* The tree below a node is shorter, and so is the path.
LEMMA ChildAt ==
  ASSUME NEW n \in Nodes, NEW path \in Seq(STRING), IsContainer(n), NEW k \in DOMAIN n.children
  PROVE  /\ n.children[k] \in Nodes /\ Append(path, k) \in Seq(STRING) /\ k \in STRING
         /\ NodeDepth[n.children[k]] < NodeDepth[n]
<1>1. n.children[k] \in Nodes /\ k \in STRING /\ NodeDepth[n.children[k]] < NodeDepth[n]
  BY NodeIs
<1> QED
  BY <1>1

LEMMA FlattenIsDefined ==
  ASSUME NEW n \in Nodes, NEW path \in Seq(STRING)
  PROVE  /\ FlattenNode[<<n, path>>] \in SUBSET Rows
         /\ FlattenNode[<<n, path>>] = FlattenStep(n, path, FlattenNode)
<1> DEFINE D == Nodes \X Seq(STRING)
           X == SUBSET Rows
           mu == [p \in D |-> NodeDepth[p[1]]]
           G == [p \in D \X [D -> X] |-> FlattenStep(p[1][1], p[1][2], p[2])]
<1>1. mu \in [D -> Nat]
  BY NodeIs
<1>2. ASSUME NEW r \in D, NEW f \in [D -> X] PROVE FlattenStep(r[1], r[2], f) \in X
  <2>0. PICK a \in Nodes, at \in Seq(STRING) : r = <<a, at>>
    OBVIOUS
  <2>1. CASE IsContainer(a) /\ a.type \in ContainerTypes
    <3>1. ASSUME NEW k \in DOMAIN a.children PROVE f[<<a.children[k], Append(at, k)>>] \in X
      <4> DEFINE q == <<a.children[k], Append(at, k)>>
      <4>1. q \in D
        BY <2>1, ChildAt
      <4> HIDE DEF q, D, X
      <4>2. f[q] \in X
        BY <4>1
      <4> QED
        BY <4>2 DEF q
    <3>2. FlattenStep(a, at, f) = UNION {f[<<a.children[k], Append(at, k)>>] : k \in DOMAIN a.children}
      BY <2>1 DEF FlattenStep
    <3>3. FlattenStep(a, at, f) \in X
      BY <3>1, <3>2
    <3> QED
      BY <2>0, <3>3
  <2>2. CASE ~(IsContainer(a) /\ a.type \in ContainerTypes)
    <3>1. FlattenStep(a, at, f) = {[path |-> at, status |-> a.status]}
      BY <2>2 DEF FlattenStep
    <3>2. a.status \in Statuses
      BY NodeIs
    <3>3. FlattenStep(a, at, f) \in X
      BY <3>1, <3>2 DEF Rows
    <3> QED
      BY <2>0, <3>3
  <2> QED
    BY <2>1, <2>2
<1>3. G \in [D \X [D -> X] -> X]
  <2> HIDE DEF D, X
  <2> QED
    BY <1>2
<1>4. \A r \in D : \A f \in [D -> X] : G[<<r, f>>] = FlattenStep(r[1], r[2], f)
  <2> HIDE DEF D, X
  <2> QED
    OBVIOUS
<1>5. ASSUME NEW r \in D, NEW g \in [D -> X], NEW h \in [D -> X],
             \A q \in D : mu[q] < mu[r] => g[q] = h[q]
      PROVE  FlattenStep(r[1], r[2], g) = FlattenStep(r[1], r[2], h)
  <2>0. PICK a \in Nodes, at \in Seq(STRING) : r = <<a, at>>
    OBVIOUS
  <2>1. CASE IsContainer(a)
    <3>1. ASSUME NEW k \in DOMAIN a.children
          PROVE  g[<<a.children[k], Append(at, k)>>] = h[<<a.children[k], Append(at, k)>>]
      <4> DEFINE q == <<a.children[k], Append(at, k)>>
      <4>1. q \in D /\ mu[q] < mu[r]
        BY <2>0, <2>1, ChildAt
      <4> QED
        BY <1>5, <4>1
    <3>2. FlattenStep(a, at, g) = FlattenStep(a, at, h)
      BY <3>1 DEF FlattenStep
    <3> QED
      BY <2>0, <3>2
  <2>2. CASE ~IsContainer(a)
    BY <2>0, <2>2 DEF FlattenStep
  <2> QED
    BY <2>1, <2>2
<1>6. LooksBelow(D, X, mu, G)
  <2> HIDE DEF mu, G, D, X
  <2> QED
    BY <1>4, <1>5 DEF LooksBelow
<1> HIDE DEF mu
<1>7. PICK f \in [D -> X] : \A r \in D : f[r] = G[<<r, f>>]
  <2>0. X # {}
    OBVIOUS
  <2> HIDE DEF D, X, G
  <2>1. IsRecursion(D, X, mu, G)
    BY <1>1, <1>3, <1>6, <2>0 DEF IsRecursion
  <2>2. HasSolution(D, X, G)
    BY <2>1, Recursion
  <2> QED
    BY <2>2 DEF HasSolution
<1>8. f = [p \in D |-> FlattenStep(p[1], p[2], f)]
  <2> HIDE DEF D, X, G
  <2> QED
    BY <1>4, <1>7
<1>9. FlattenNode = [p \in D |-> FlattenStep(p[1], p[2], FlattenNode)]
  <2>1. FlattenNode = CHOOSE g : g = [p \in D |-> FlattenStep(p[1], p[2], g)]
    BY DEF FlattenNode, FlattenStep
  <2> HIDE DEF D
  <2> QED
    BY <1>8, <2>1
<1>10. ASSUME NEW a \in Nodes, NEW at \in Seq(STRING)
       PROVE  FlattenNode[<<a, at>>] = FlattenStep(a, at, FlattenNode)
  <2>1. <<a, at>> \in D
    OBVIOUS
  <2> HIDE DEF D
  <2>2. FlattenNode[<<a, at>>] = FlattenStep(<<a, at>>[1], <<a, at>>[2], FlattenNode)
    BY <1>9, <2>1
  <2> QED
    BY <2>2
<1>11. \A a \in Nodes : \A at \in Seq(STRING) : FlattenNode[<<a, at>>] \in X
  <2> DEFINE P == {a \in Nodes : \A at \in Seq(STRING) : FlattenNode[<<a, at>>] \in X}
  <2>1. ASSUME NEW a \in Nodes, \A b \in Nodes : NodeDepth[b] < NodeDepth[a] => b \in P,
               NEW at \in Seq(STRING)
        PROVE  FlattenNode[<<a, at>>] \in X
    <3>1. CASE IsContainer(a) /\ a.type \in ContainerTypes
      <4>1. ASSUME NEW k \in DOMAIN a.children
            PROVE  FlattenNode[<<a.children[k], Append(at, k)>>] \in X
        <5>1. /\ a.children[k] \in Nodes /\ Append(at, k) \in Seq(STRING)
              /\ NodeDepth[a.children[k]] < NodeDepth[a]
          BY <3>1, ChildAt
        <5> QED
          BY <2>1, <5>1
      <4>2. FlattenNode[<<a, at>>] =
              UNION {FlattenNode[<<a.children[k], Append(at, k)>>] : k \in DOMAIN a.children}
        BY <1>10, <3>1 DEF FlattenStep
      <4> QED
        BY <4>1, <4>2
    <3>2. CASE ~(IsContainer(a) /\ a.type \in ContainerTypes)
      <4>1. FlattenNode[<<a, at>>] = {[path |-> at, status |-> a.status]}
        BY <1>10, <3>2 DEF FlattenStep
      <4>2. a.status \in Statuses
        BY NodeIs
      <4> QED
        BY <4>1, <4>2 DEF Rows
    <3> QED
      BY <3>1, <3>2
  <2>2. P \in SUBSET Nodes
    OBVIOUS
  <2>3. P = Nodes
    <3> HIDE DEF X
    <3> QED
      BY <2>1, <2>2, NodeInduction
  <2> QED
    BY <2>3
<1> QED
  BY <1>10, <1>11

\* The rows of a container are those of its children, those of a leaf its own.
LEMMA FlattenIs ==
  ASSUME NEW n \in Nodes, NEW path \in Seq(STRING)
  PROVE  /\ IsContainer(n) =>
              FlattenNode[<<n, path>>] =
                UNION {FlattenNode[<<n.children[k], Append(path, k)>>] : k \in DOMAIN n.children}
         /\ ~IsContainer(n) => FlattenNode[<<n, path>>] = {[path |-> path, status |-> n.status]}
<1>1. FlattenNode[<<n, path>>] = FlattenStep(n, path, FlattenNode)
  BY FlattenIsDefined
<1>2. IsContainer(n) => n.type \in ContainerTypes
  BY NodeIs
<1> QED
  BY <1>1, <1>2 DEF FlattenStep

\* The path of a row begins with that of the node.
Begins(long, short) ==
  /\ long \in Seq(STRING) /\ Len(short) <= Len(long)
  /\ \A i \in 1..Len(short) : long[i] = short[i]

LEMMA RowsBegin ==
  \A n \in Nodes : \A path \in Seq(STRING) :
    \A row \in FlattenNode[<<n, path>>] : Begins(row.path, path)
<1> DEFINE P == {n \in Nodes : \A path \in Seq(STRING) :
                   \A row \in FlattenNode[<<n, path>>] : Begins(row.path, path)}
<1>1. ASSUME NEW n \in Nodes, \A m \in Nodes : NodeDepth[m] < NodeDepth[n] => m \in P,
             NEW path \in Seq(STRING), NEW row \in FlattenNode[<<n, path>>]
      PROVE  Begins(row.path, path)
  <2>1. CASE IsContainer(n)
    <3>1. PICK k \in DOMAIN n.children : row \in FlattenNode[<<n.children[k], Append(path, k)>>]
      <4>1. FlattenNode[<<n, path>>] =
              UNION {FlattenNode[<<n.children[k], Append(path, k)>>] : k \in DOMAIN n.children}
        BY <2>1, FlattenIs
      <4> QED
        BY <1>1, <4>1
    <3>2. /\ n.children[k] \in Nodes /\ Append(path, k) \in Seq(STRING)
          /\ NodeDepth[n.children[k]] < NodeDepth[n] /\ k \in STRING
      BY <2>1, ChildAt
    <3>3. Begins(row.path, Append(path, k))
      BY <1>1, <3>1, <3>2
    <3> QED
      BY <3>2, <3>3 DEF Begins
  <2>2. CASE ~IsContainer(n)
    <3>1. row.path = path
      BY <1>1, <2>2, FlattenIs
    <3> QED
      BY <3>1 DEF Begins
  <2> QED
    BY <2>1, <2>2
<1>2. P \in SUBSET Nodes
  OBVIOUS
<1>3. P = Nodes
  BY <1>1, <1>2, NodeInduction
<1> QED
  BY <1>3

\* The rows of two children are different.
LEMMA RowsApart ==
  ASSUME NEW n \in Nodes, NEW m \in Nodes, NEW path \in Seq(STRING),
         NEW k \in STRING, NEW l \in STRING, k # l
  PROVE  FlattenNode[<<n, Append(path, k)>>] \cap FlattenNode[<<m, Append(path, l)>>] = {}
<1>1. Append(path, k) \in Seq(STRING) /\ Append(path, l) \in Seq(STRING)
  BY AppendTyped
<1> SUFFICES ASSUME NEW row \in FlattenNode[<<n, Append(path, k)>>],
                    row \in FlattenNode[<<m, Append(path, l)>>]
             PROVE  FALSE
  OBVIOUS
<1>2. Begins(row.path, Append(path, k)) /\ Begins(row.path, Append(path, l))
  BY <1>1, RowsBegin
<1>3. row.path[Len(path) + 1] = k /\ row.path[Len(path) + 1] = l
  BY <1>2 DEF Begins
<1> QED
  BY <1>3

\* A node is unchanged when no row below it is a difference.
LEMMA DifferencesShow ==
  \A n \in Nodes : \A path \in Seq(STRING) :
    n.status # "unchanged" <=> \E row \in FlattenNode[<<n, path>>] : row.status # "unchanged"
<1> DEFINE Right(n, path) ==
             n.status # "unchanged" <=> \E row \in FlattenNode[<<n, path>>] : row.status # "unchanged"
           P == {n \in Nodes : \A path \in Seq(STRING) : Right(n, path)}
<1>1. ASSUME NEW n \in Nodes, \A m \in Nodes : NodeDepth[m] < NodeDepth[n] => m \in P,
             NEW path \in Seq(STRING)
      PROVE  Right(n, path)
  <2>1. CASE IsContainer(n)
    <3>1. ASSUME NEW k \in DOMAIN n.children
          PROVE  /\ n.children[k].status \in {"added", "removed", "changed"} <=>
                      n.children[k].status # "unchanged"
                 /\ n.children[k].status # "unchanged" <=>
                      \E row \in FlattenNode[<<n.children[k], Append(path, k)>>] :
                        row.status # "unchanged"
      <4>1. /\ n.children[k] \in Nodes /\ Append(path, k) \in Seq(STRING)
            /\ NodeDepth[n.children[k]] < NodeDepth[n]
        BY <2>1, ChildAt
      <4>2. Right(n.children[k], Append(path, k))
        BY <1>1, <4>1
      <4>3. n.children[k].status \in Statuses
        BY <4>1, NodeIs
      <4> QED
        BY <4>2, <4>3 DEF Statuses
    <3>2. FlattenNode[<<n, path>>] =
            UNION {FlattenNode[<<n.children[k], Append(path, k)>>] : k \in DOMAIN n.children}
      BY <2>1, FlattenIs
    <3>3. (\E row \in FlattenNode[<<n, path>>] : row.status # "unchanged") <=>
            \E k \in DOMAIN n.children :
              \E row \in FlattenNode[<<n.children[k], Append(path, k)>>] : row.status # "unchanged"
      BY <3>2
    <3>4. n.status = NodeStatus(n.children)
      BY <2>1, NodeIs
    <3>5. n.status # "unchanged" <=>
            \E k \in DOMAIN n.children : n.children[k].status \in {"added", "removed", "changed"}
      BY <3>4 DEF NodeStatus
    <3> QED
      BY <3>1, <3>3, <3>5
  <2>2. CASE ~IsContainer(n)
    <3>1. FlattenNode[<<n, path>>] = {[path |-> path, status |-> n.status]}
      BY <2>2, FlattenIs
    <3> QED
      BY <3>1
  <2> QED
    BY <2>1, <2>2
<1>2. P \in SUBSET Nodes
  OBVIOUS
<1>3. P = Nodes
  <2> HIDE DEF Right
  <2> QED
    BY <1>1, <1>2, NodeInduction
<1> QED
  BY <1>3

StatusStep(n, f) ==
  IsContainer(n) =>
    /\ (n.status = "changed") = Differs(n)
    /\ \A k \in DOMAIN n.children : f[n.children[k]]

LEMMA StatusesAreDefined ==
  ASSUME NEW n \in Nodes
  PROVE  StatusesAreRight[n] = StatusStep(n, StatusesAreRight)
<1> DEFINE D == Nodes
           X == BOOLEAN
           mu == NodeDepth
           G == [p \in D \X [D -> X] |-> StatusStep(p[1], p[2])]
<1>1. mu \in [D -> Nat]
  BY NodeIs DEF NodeDepth
<1>2. \A a, f : StatusStep(a, f) \in X
  BY DEF StatusStep
<1>3. G \in [D \X [D -> X] -> X]
  <2> HIDE DEF D, X
  <2> QED
    BY <1>2
<1>4. \A r \in D : \A f \in [D -> X] : G[<<r, f>>] = StatusStep(r, f)
  <2> HIDE DEF D, X
  <2> QED
    OBVIOUS
<1>5. ASSUME NEW r \in D, NEW g \in [D -> X], NEW h \in [D -> X],
             \A q \in D : mu[q] < mu[r] => g[q] = h[q]
      PROVE  StatusStep(r, g) = StatusStep(r, h)
  <2>1. ASSUME IsContainer(r), NEW k \in DOMAIN r.children PROVE g[r.children[k]] = h[r.children[k]]
    BY <1>5, <2>1, NodeIs
  <2> QED
    BY <2>1 DEF StatusStep
<1>6. LooksBelow(D, X, mu, G)
  <2> HIDE DEF mu, G, D, X
  <2> QED
    BY <1>4, <1>5 DEF LooksBelow
<1> HIDE DEF mu
<1>7. PICK f \in [D -> X] : \A r \in D : f[r] = G[<<r, f>>]
  <2>0. X # {}
    OBVIOUS
  <2> HIDE DEF D, X, G
  <2>1. IsRecursion(D, X, mu, G)
    BY <1>1, <1>3, <1>6, <2>0 DEF IsRecursion
  <2>2. HasSolution(D, X, G)
    BY <2>1, Recursion
  <2> QED
    BY <2>2 DEF HasSolution
<1>8. f = [a \in D |-> StatusStep(a, f)]
  <2> HIDE DEF D, X, G
  <2> QED
    BY <1>4, <1>7
<1>9. StatusesAreRight = [a \in D |-> StatusStep(a, StatusesAreRight)]
  <2>1. StatusesAreRight = CHOOSE g : g = [a \in D |-> StatusStep(a, g)]
    BY DEF StatusesAreRight, StatusStep
  <2> HIDE DEF D
  <2> QED
    BY <1>8, <2>1
<1> QED
  BY <1>9

LEMMA AllStatusesAreRight ==
  \A n \in Nodes : StatusesAreRight[n]
<1> DEFINE P == {n \in Nodes : StatusesAreRight[n]}
<1>1. ASSUME NEW n \in Nodes, \A m \in Nodes : NodeDepth[m] < NodeDepth[n] => m \in P
      PROVE  StatusesAreRight[n]
  <2>1. ASSUME IsContainer(n) PROVE (n.status = "changed") = Differs(n)
    <3>1. n.status \in {"changed", "unchanged"}
      BY <2>1, NodeIs, NodeStatusIs
    <3>2. <<>> \in Seq(STRING)
      OBVIOUS
    <3>3. n.status # "unchanged" <=> \E row \in FlattenNode[<<n, <<>>>>] : row.status # "unchanged"
      BY <3>2, DifferencesShow
    <3> QED
      BY <3>1, <3>3 DEF Differs
  <2>2. ASSUME IsContainer(n), NEW k \in DOMAIN n.children PROVE StatusesAreRight[n.children[k]]
    BY <1>1, <2>2, NodeIs
  <2>3. StatusStep(n, StatusesAreRight)
    BY <2>1, <2>2, Zenon DEF StatusStep
  <2> QED
    BY <2>3, StatusesAreDefined
<1>2. P \in SUBSET Nodes
  OBVIOUS
<1>3. P = Nodes
  BY <1>1, <1>2, NodeInduction
<1> QED
  BY <1>3

RowsWith(n, path, s) == {row \in FlattenNode[<<n, path>>] : row.status = s}

LEMMA LeafCounts ==
  ASSUME NEW n \in Nodes, ~IsContainer(n), NEW path \in Seq(STRING), NEW s \in Statuses
  PROVE  IsFiniteSet(RowsWith(n, path, s)) /\ Cardinality(RowsWith(n, path, s)) = One(n.status)[s]
<1> DEFINE row == [path |-> path, status |-> n.status]
<1>1. FlattenNode[<<n, path>>] = {row}
  BY FlattenIs
<1>2. row.status = n.status /\ n.status \in Statuses
  BY NodeIs
<1> HIDE DEF row
<1>3. RowsWith(n, path, s) = IF n.status = s THEN {row} ELSE {}
  BY <1>1, <1>2 DEF RowsWith
<1>4. One(n.status)[s] = IF n.status = s THEN 1 ELSE 0
  BY <1>2 DEF One, NoCounts
<1>5. /\ IsFiniteSet({row}) /\ Cardinality({row}) = 1
      /\ IsFiniteSet({}) /\ Cardinality({}) = 0
  BY FS_Singleton, FS_EmptySet
<1> QED
  BY <1>3, <1>4, <1>5

\* The summary counts the rows.
LEMMA SummaryCounts ==
  \A v, w \in Values : \A path \in Seq(STRING) : \A s \in Statuses :
    /\ IsFiniteSet(RowsWith(DiffValue(v, w).node, path, s))
    /\ Cardinality(RowsWith(DiffValue(v, w).node, path, s)) = DiffValue(v, w).count[s]
<1> DEFINE Right(d, path, s) ==
             /\ IsFiniteSet(RowsWith(d.node, path, s))
             /\ Cardinality(RowsWith(d.node, path, s)) = d.count[s]
           P == {v \in Values : \A w \in Values : \A path \in Seq(STRING) : \A s \in Statuses :
                   Right(DiffValue(v, w), path, s)}
<1>1. ASSUME NEW v \in Values, \A u \in Values : Depth[u] < Depth[v] => u \in P,
             NEW w \in Values, NEW path \in Seq(STRING), NEW s \in Statuses
      PROVE  Right(DiffValue(v, w), path, s)
  <2>0. DiffValue(v, w).node \in Nodes
    BY DEF Nodes
  <2>1. CASE AreComparedByPart(v, w)
    <3> DEFINE node == DiffValue(v, w).node
               K == DOMAIN v.at \cup DOMAIN w.at
               parts == PartsOf(v, w)
    <3>1. /\ IsContainer(node) /\ node.children = ChildrenOf(v, w) /\ DOMAIN node.children = K
          /\ DiffValue(v, w).count = Counts(parts) /\ DOMAIN parts = K
          /\ IsFiniteSet(K)
      BY <2>1, ComparedNode
    <3>2. ASSUME NEW k \in K
          PROVE  /\ k \in STRING /\ node.children[k] = parts[k].node
                 /\ Append(path, k) \in Seq(STRING)
                 /\ Right(parts[k], Append(path, k), s)
      <4>1. k \in STRING /\ node.children[k] = parts[k].node
        BY <2>1, <3>1, ComparedPart
      <4>2. Append(path, k) \in Seq(STRING)
        BY <4>1
      <4>3. CASE k \in DOMAIN v.at /\ k \in DOMAIN w.at
        <5>1. /\ v.at[k] \in Values /\ Depth[v.at[k]] < Depth[v] /\ w.at[k] \in Values
              /\ parts[k] = DiffValue(v.at[k], w.at[k])
          BY <2>1, <4>3, ComparedPart
        <5> HIDE DEF Right
        <5> QED
          BY <1>1, <4>1, <4>2, <5>1
      <4>4. CASE k \notin DOMAIN w.at
        <5>1. v.at[k] \in Values /\ parts[k] = Removed(v.at[k])
          BY <2>1, <4>4, ComparedPart
        <5>2. /\ Removed(v.at[k]).node \in Nodes /\ ~IsContainer(Removed(v.at[k]).node)
              /\ Removed(v.at[k]).count = One(Removed(v.at[k]).node.status)
          <6>1. Removed(v.at[k]).node \in Nodes /\ ~IsContainer(Removed(v.at[k]).node)
            BY <5>1, LeafIs DEF Nodes
          <6>2. Removed(v.at[k]).count = One(Removed(v.at[k]).node.status)
            BY DEF Removed, Diffed
          <6> QED
            BY <6>1, <6>2
        <5> QED
          BY <4>1, <4>2, <5>1, <5>2, LeafCounts
      <4>5. CASE k \notin DOMAIN v.at
        <5>1. w.at[k] \in Values /\ parts[k] = Added(w.at[k])
          BY <2>1, <4>5, ComparedPart
        <5>2. /\ Added(w.at[k]).node \in Nodes /\ ~IsContainer(Added(w.at[k]).node)
              /\ Added(w.at[k]).count = One(Added(w.at[k]).node.status)
          <6>1. Added(w.at[k]).node \in Nodes /\ ~IsContainer(Added(w.at[k]).node)
            BY <5>1, LeafIs DEF Nodes
          <6>2. Added(w.at[k]).count = One(Added(w.at[k]).node.status)
            BY DEF Added, Diffed
          <6> QED
            BY <6>1, <6>2
        <5> QED
          BY <4>1, <4>2, <5>1, <5>2, LeafCounts
      <4> QED
        BY <4>3, <4>4, <4>5
    <3>3. node \in Nodes /\ \A k \in K : node.children[k] \in Nodes
      BY <2>0, <3>1, NodeIs
    <3> DEFINE f == [k \in K |-> parts[k].count[s]]
               R == [k \in K |-> RowsWith(node.children[k], Append(path, k), s)]
    <3>4. DiffValue(v, w).count[s] = InTotal(f)
      BY <3>1 DEF Counts
    <3>5. RowsWith(node, path, s) = UNION {R[k] : k \in K}
      <4>1. FlattenNode[<<node, path>>] =
              UNION {FlattenNode[<<node.children[k], Append(path, k)>>] : k \in K}
        BY <3>1, <3>3, FlattenIs
      <4> HIDE DEF node, K
      <4> QED
        <5>1. \A row : row \in RowsWith(node, path, s) <=>
                \E k \in K : row \in RowsWith(node.children[k], Append(path, k), s)
          BY <4>1 DEF RowsWith
        <5>2. \A k \in K : R[k] = RowsWith(node.children[k], Append(path, k), s)
          OBVIOUS
        <5> HIDE DEF R
        <5> QED
          BY <5>1, <5>2
    <3> HIDE DEF node, K, parts
    <3>6. \A k \in K : IsFiniteSet(R[k]) /\ Cardinality(R[k]) = f[k] /\ f[k] \in Nat
      <4> SUFFICES ASSUME NEW k \in K
                   PROVE  IsFiniteSet(R[k]) /\ Cardinality(R[k]) = f[k] /\ f[k] \in Nat
        OBVIOUS
      <4>1. /\ IsFiniteSet(RowsWith(node.children[k], Append(path, k), s))
            /\ Cardinality(RowsWith(node.children[k], Append(path, k), s)) = parts[k].count[s]
        BY <3>2
      <4> QED
        BY <4>1, FS_CardinalityType
    <3>7. \A k, l \in K : k # l => R[k] \cap R[l] = {}
      <4> SUFFICES ASSUME NEW k \in K, NEW l \in K, k # l PROVE R[k] \cap R[l] = {}
        OBVIOUS
      <4>1. FlattenNode[<<node.children[k], Append(path, k)>>]
              \cap FlattenNode[<<node.children[l], Append(path, l)>>] = {}
        BY <3>2, <3>3, RowsApart
      <4>2. R[k] \subseteq FlattenNode[<<node.children[k], Append(path, k)>>]
            /\ R[l] \subseteq FlattenNode[<<node.children[l], Append(path, l)>>]
        BY DEF RowsWith
      <4> QED
        BY <4>1, <4>2
    <3>8. f \in [DOMAIN f -> Nat] /\ DOMAIN f = K
      BY <3>6
    <3> HIDE DEF f, R
    <3>9. /\ IsFiniteSet(UNION {R[k] : k \in K})
          /\ Cardinality(UNION {R[k] : k \in K}) = InTotal(f)
      <4>1. /\ IsFiniteSet(DOMAIN f)
            /\ \A k \in DOMAIN f : IsFiniteSet(R[k]) /\ Cardinality(R[k]) = f[k]
            /\ \A k, l \in DOMAIN f : k # l => R[k] \cap R[l] = {}
        BY <3>1, <3>6, <3>7, <3>8
      <4>2. /\ IsFiniteSet(UNION {R[k] : k \in DOMAIN f})
            /\ Cardinality(UNION {R[k] : k \in DOMAIN f}) = InTotal(f)
        BY <3>8, <4>1, TotalIsSize
      <4> QED
        BY <3>8, <4>2
    <3> QED
      BY <3>4, <3>5, <3>9 DEF node
  <2>2. CASE ~AreComparedByPart(v, w)
    <3>1. DiffValue(v, w) = Unchanged(v) \/ DiffValue(v, w) = Changed(v, w)
      BY <2>2, DiffIs
    <3>2. /\ ~IsContainer(DiffValue(v, w).node)
          /\ DiffValue(v, w).count = One(DiffValue(v, w).node.status)
      BY <3>1 DEF Unchanged, Changed, Diffed, IsContainer
    <3> QED
      BY <2>0, <3>2, LeafCounts
  <2> QED
    BY <2>1, <2>2
<1>2. P \in SUBSET Values
  OBVIOUS
<1>3. P = Values
  <2> HIDE DEF Right
  <2> QED
    BY <1>1, <1>2, ValueInduction
<1> QED
  BY <1>3

(***************************************************************************)
(* The jobs.                                                               *)
(***************************************************************************)
DiffOfRequest(r) == DiffSnapshots(r.before, r.after)

\* What has run is what was asked.
ComparisonInv ==
  /\ request \in [engine: {"compliance"}, of: ComplianceRequests]
                 \cup [engine: {"diff"}, of: DiffRequests]
  /\ Outcomes("compliance") \subseteq {ComplianceOf(request.of)}
  /\ Outcomes("diff") \subseteq {DiffOfRequest(request.of)}

LEMMA ComparisonInvariant == Spec => []ComparisonInv
<1>1. Init => ComparisonInv
  BY DEF Init, ComparisonInv, Outcomes
<1>2. ComparisonInv /\ [Next]_vars => ComparisonInv'
  <2> SUFFICES ASSUME ComparisonInv, [Next]_vars PROVE ComparisonInv'
    OBVIOUS
  <2>1. CASE RunComplianceJob
    BY <2>1 DEF ComparisonInv, RunComplianceJob, Outcomes
  <2>2. CASE RunDiffJob
    BY <2>2 DEF ComparisonInv, RunDiffJob, Outcomes, DiffOfRequest
  <2>3. CASE UNCHANGED vars
    BY <2>3 DEF ComparisonInv, vars, Outcomes
  <2> QED
    BY <2>1, <2>2, <2>3 DEF Next
<1> QED
  BY <1>1, <1>2, PTL DEF Spec

LEMMA RequestIsTyped ==
  ASSUME ComparisonInv, Outcomes("compliance") # {}
  PROVE  /\ request.of \in [golden: Seq(TextLines), data: RawData, mode: STRING]
         /\ ExtractSnapshotRawConfig(request.of.data) \in Seq(TextLines)
<1>1. request.engine = "compliance"
  BY DEF Outcomes
<1>2. request.of \in [golden: Seq(TextLines), data: RawData, mode: STRING]
  BY <1>1, ComplianceAssumption DEF ComparisonInv
<1> QED
  BY <1>2 DEF ExtractSnapshotRawConfig, RawData

\* The verdict of run_compliance is that of the lines, for any texts: difflib's
\* choice of blocks, which need not be the longest common subsequence, never
\* makes drift of equal texts, nor the other way round.
THEOREM VerdictsAreRight == Spec => []VerdictIsRight
<1>1. ComparisonInv => VerdictIsRight
  <2> SUFFICES ASSUME ComparisonInv, NEW o \in Outcomes("compliance")
               PROVE  o.result = Verdict(Golden, Actual, o.mode)
    BY DEF VerdictIsRight, Verdict
  <2> DEFINE actual == ExtractSnapshotRawConfig(request.of.data)
  <2>1. o = RunCompliance(request.of.golden, actual, request.of.mode)
    BY DEF ComparisonInv, ComplianceOf
  <2>2. request.of.golden \in Seq(TextLines) /\ actual \in Seq(TextLines)
    BY RequestIsTyped
  <2>3. Actual = NormalizeLines(actual)
    BY DEF Actual, ExtractSnapshotRawConfig
  <2> HIDE DEF actual
  <2> QED
    BY <2>1, <2>2, <2>3, RunComplianceVerdict DEF Golden
<1> QED
  BY <1>1, ComparisonInvariant, PTL

\* Noise anywhere in a golden text of any length changes nothing of the outcome.
THEOREM NoiseAlwaysIgnored == Spec => []NoiseIsIgnored
<1>1. ComparisonInv => NoiseIsIgnored
  <2> SUFFICES ASSUME ComparisonInv, NEW o \in Outcomes("compliance"), NEW r, r = request.of,
                      NEW i \in DOMAIN r.golden
               PROVE  /\ r.golden[i].line \in {Blank, Bang} =>
                           ComplianceOf([r EXCEPT !.golden = WithoutLine(@, i)]) = o
                      /\ ComplianceOf([r EXCEPT !.golden[i].spaces = FALSE]) = o
    BY DEF NoiseIsIgnored
  <2>1. o = ComplianceOf(r)
    BY DEF ComparisonInv
  <2>2. r \in [golden: Seq(TextLines), data: RawData, mode: STRING] /\ r.golden \in Seq(TextLines)
    BY RequestIsTyped
  <2>3. i \in 1..Len(r.golden)
    BY <2>2
  <2>4. ASSUME NEW text, NormalizeLines(text) = NormalizeLines(r.golden)
        PROVE  ComplianceOf([r EXCEPT !.golden = text]) = o
    <3>1. /\ [r EXCEPT !.golden = text].golden = text
          /\ [r EXCEPT !.golden = text].data = r.data
          /\ [r EXCEPT !.golden = text].mode = r.mode
      BY <2>2
    <3> QED
      BY <2>1, <2>4, <3>1 DEF ComplianceOf, RunCompliance
  <2>5. ASSUME r.golden[i].line \in {Blank, Bang}
        PROVE  ComplianceOf([r EXCEPT !.golden = WithoutLine(@, i)]) = o
    <3>1. NormalizeLines(WithoutLine(r.golden, i)) = NormalizeLines(r.golden)
      BY <2>2, <2>3, <2>5, NoiseDropped DEF Noise
    <3> QED
      BY <2>4, <3>1
  <2>6. ComplianceOf([r EXCEPT !.golden[i].spaces = FALSE]) = o
    <3>1. NormalizeLines([r.golden EXCEPT ![i].spaces = FALSE]) = NormalizeLines(r.golden)
      BY <2>2, <2>3, SpacesDropped
    <3> QED
      BY <2>4, <3>1
  <2> QED
    BY <2>5, <2>6
<1> QED
  BY <1>1, ComparisonInvariant, PTL

\* The tree of a compliance check shows every line of both texts as often as it
\* is there, for texts of any length; unless a line reads like the numbered key
\* of another one.
THEOREM TreesHoldEveryLine == Spec => []TreeHoldsEveryLine
<1>1. ComparisonInv => TreeHoldsEveryLine
  <2> SUFFICES ASSUME ComparisonInv, NEW o \in Outcomes("compliance"), NEW d \in o.diff
               PROVE  TreeIsRight(Golden, Actual, o.mode, d)
    BY Zenon DEF TreeHoldsEveryLine, TreeIsRight, AmbiguousKeys, AmbiguousIn, ShownIn, SizeIn, Once
  <2> DEFINE actual == ExtractSnapshotRawConfig(request.of.data)
  <2>1. o = RunCompliance(request.of.golden, actual, request.of.mode)
    BY DEF ComparisonInv, ComplianceOf
  <2>2. request.of.golden \in Seq(TextLines) /\ actual \in Seq(TextLines)
    BY RequestIsTyped
  <2>3. Actual = NormalizeLines(actual)
    BY DEF Actual, ExtractSnapshotRawConfig
  <2> HIDE DEF actual
  <2> QED
    BY <2>1, <2>2, <2>3, TreesAreRight DEF Golden
<1> QED
  BY <1>1, ComparisonInvariant, PTL

LEMMA ValuesCompared ==
  ASSUME NEW v \in Values PROVE OrEmpty(v) \in Values
BY SnapshotAssumption DEF OrEmpty

\* A comparison of two dictionaries holds their tree and its counts.
LEMMA TreeOfOutcome ==
  ASSUME ComparisonInv, NEW o \in Outcomes("diff"),
         NEW before, before = OrEmpty(request.of.before),
         NEW after, after = OrEmpty(request.of.after)
  PROVE  /\ before \in Values /\ after \in Values
         /\ o = DiffSnapshots(request.of.before, request.of.after)
         /\ o.status # "error" <=> IsDict(before) /\ IsDict(after)
         /\ o.status # "error" =>
              /\ o.diff = DiffValue(before, after).node
              /\ o.summary = DiffValue(before, after).count
              /\ IsContainer(o.diff)
<1>1. request.engine = "diff"
  BY DEF Outcomes
<1>2. request.of \in [before: Values, after: Values]
  BY <1>1, DiffAssumption DEF ComparisonInv
<1>3. before \in Values /\ after \in Values
  BY <1>2, ValuesCompared
<1>4. o = DiffSnapshots(request.of.before, request.of.after)
  BY DEF ComparisonInv, DiffOfRequest
<1>5. CASE IsDict(before) /\ IsDict(after)
  <2>1. /\ o.status = IF before = EmptyDict /\ after = EmptyDict THEN "empty" ELSE "success"
        /\ o.diff = DiffValue(before, after).node
        /\ o.summary = DiffValue(before, after).count
    BY <1>4, <1>5 DEF DiffSnapshots
  <2>2. AreComparedByPart(before, after)
    BY <1>5 DEF AreComparedByPart, IsDict, ContainerTypes
  <2>3. IsContainer(DiffValue(before, after).node)
    BY <1>3, <2>2, ComparedNode
  <2>4. o.status # "error"
    BY <2>1
  <2> QED
    BY <1>3, <1>4, <1>5, <2>1, <2>3, <2>4
<1>6. CASE ~(IsDict(before) /\ IsDict(after))
  <2>1. o.status = "error"
    BY <1>4, <1>6 DEF DiffSnapshots
  <2> QED
    BY <1>3, <1>4, <1>6, <2>1
<1> QED
  BY <1>5, <1>6

\* Whatever two snapshots hold and however deep, both can be read back from
\* the tree of diff_snapshots, up to Python's equality.
THEOREM DiffsAreLossless == Spec => []DiffIsLossless
<1>1. ComparisonInv => DiffIsLossless
  <2> SUFFICES ASSUME ComparisonInv, NEW o \in Outcomes("diff"), o.status # "error"
               PROVE  /\ ReadsAs[<<o.diff, "before", OrEmpty(request.of.before)>>]
                      /\ ReadsAs[<<o.diff, "after", OrEmpty(request.of.after)>>]
    BY Zenon DEF DiffIsLossless
  <2>1. PICK before : before = OrEmpty(request.of.before)
    OBVIOUS
  <2>2. PICK after : after = OrEmpty(request.of.after)
    OBVIOUS
  <2>3. before \in Values /\ after \in Values /\ o.diff = DiffValue(before, after).node
    BY <2>1, <2>2, TreeOfOutcome
  <2>4. ReadsAs[<<o.diff, "before", before>>] /\ ReadsAs[<<o.diff, "after", after>>]
    BY <2>3, TreeHoldsBoth
  <2> QED
    BY <2>1, <2>2, <2>4
<1> QED
  BY <1>1, ComparisonInvariant, PTL

\* Comparing any two snapshots the other way round gives the mirror image of
\* the tree, added for removed, and fails exactly when this way does.
THEOREM DiffsAreSymmetric == Spec => []DiffIsSymmetric
<1>1. ComparisonInv => DiffIsSymmetric
  <2> DEFINE other == DiffSnapshots(request.of.after, request.of.before)
  <2> SUFFICES ASSUME ComparisonInv, NEW o \in Outcomes("diff")
               PROVE  /\ other.status = o.status
                      /\ o.status # "error" => MirrorImages[<<o.diff, other.diff>>]
    BY Zenon DEF DiffIsSymmetric
  <2>1. PICK before : before = OrEmpty(request.of.before)
    OBVIOUS
  <2>2. PICK after : after = OrEmpty(request.of.after)
    OBVIOUS
  <2>3. before \in Values /\ after \in Values /\ o = DiffSnapshots(request.of.before, request.of.after)
    BY <2>1, <2>2, TreeOfOutcome
  <2>4. CASE IsDict(before) /\ IsDict(after)
    <3>1. o.diff = DiffValue(before, after).node /\ other.diff = DiffValue(after, before).node
      BY <2>1, <2>2, <2>3, <2>4 DEF DiffSnapshots
    <3>2. o.status = other.status
      BY <2>1, <2>2, <2>3, <2>4 DEF DiffSnapshots
    <3> HIDE DEF other
    <3> QED
      BY <2>3, <3>1, <3>2, TreesMirror
  <2>5. CASE ~(IsDict(before) /\ IsDict(after))
    BY <2>1, <2>2, <2>3, <2>5 DEF DiffSnapshots
  <2> QED
    BY <2>4, <2>5
<1> QED
  BY <1>1, ComparisonInvariant, PTL

NoneInSum(x, y, z) == x + y + z = 0 <=> x = 0 /\ y = 0 /\ z = 0

LEMMA SumsOfNone == \A x, y, z \in Nat : NoneInSum(x, y, z)
BY DEF NoneInSum

\* The tree of any two snapshots, each container of it and the summary say
\* changed exactly when the snapshots differ there, and the summary counts the
\* rows that the other walk makes.
THEOREM ChangesAreAlwaysReal == Spec => []ChangesAreReal
<1> DEFINE Right(o, same) ==
      /\ (o.diff.status = "unchanged") = same
      /\ (o.summary.added + o.summary.removed + o.summary.changed = 0) = same
      /\ \A s \in Statuses : o.summary[s] = Cardinality(RowsOf(o, s))
      /\ StatusesAreRight[o.diff]
<1>1. ComparisonInv => ChangesAreReal
  <2>1. ASSUME ComparisonInv, NEW o \in Outcomes("diff"), o.status # "error"
        PROVE  Right(o, Equal(OrEmpty(request.of.before), OrEmpty(request.of.after)))
    <3>1. PICK before : before = OrEmpty(request.of.before)
      OBVIOUS
    <3>2. PICK after : after = OrEmpty(request.of.after)
      OBVIOUS
    <3>3. /\ before \in Values /\ after \in Values
          /\ o.diff = DiffValue(before, after).node
          /\ o.summary = DiffValue(before, after).count
          /\ IsContainer(o.diff)
      BY <2>1, <3>1, <3>2, TreeOfOutcome
    <3>4. o.diff \in Nodes /\ <<>> \in Seq(STRING)
      BY <3>3 DEF Nodes
    <3> DEFINE same == Equal(before, after)
               rows == FlattenNode[<<o.diff, <<>>>>]
    <3>5. (o.diff.status = "unchanged") = same
      <4>1. same \in BOOLEAN
        BY <3>3, EqualIsDefined
      <4>2. (o.diff.status = "unchanged") <=> same
        BY <3>3, UnchangedIsEqual
      <4> QED
        BY <4>1, <4>2
    <3>6. FlattenDiffTree(o.diff) = rows
      <4>1. o.diff # <<>>
        BY <3>3 DEF IsContainer
      <4> QED
        BY <4>1 DEF FlattenDiffTree
    <3>7. ASSUME NEW s \in Statuses
          PROVE  /\ RowsOf(o, s) = RowsWith(o.diff, <<>>, s)
                 /\ IsFiniteSet(RowsOf(o, s)) /\ o.summary[s] = Cardinality(RowsOf(o, s))
                 /\ o.summary[s] \in Nat
      <4>1. RowsOf(o, s) = RowsWith(o.diff, <<>>, s)
        BY <3>6 DEF RowsOf, RowsWith
      <4>2. /\ IsFiniteSet(RowsWith(o.diff, <<>>, s))
            /\ Cardinality(RowsWith(o.diff, <<>>, s)) = o.summary[s]
        BY <3>3, <3>4, SummaryCounts
      <4> QED
        BY <4>1, <4>2, FS_CardinalityType
    <3>8. ASSUME NEW s \in Statuses
          PROVE  o.summary[s] = 0 <=> ~ \E row \in rows : row.status = s
      <4>1. o.summary[s] = 0 <=> RowsOf(o, s) = {}
        BY <3>7, FS_EmptySet
      <4> QED
        BY <3>6, <4>1 DEF RowsOf
    <3>9. (o.diff.status # "unchanged") <=> \E row \in rows : row.status # "unchanged"
      BY <3>4, DifferencesShow
    <3>10. \A row \in rows : row.status \in Statuses
      BY <3>4, FlattenIsDefined DEF Rows
    <3>11. (o.summary.added + o.summary.removed + o.summary.changed = 0) = same
      <4> HIDE DEF rows
      <4>1. /\ o.summary.added \in Nat /\ o.summary.removed \in Nat /\ o.summary.changed \in Nat
            /\ o.summary.added = 0 <=> ~ \E row \in rows : row.status = "added"
            /\ o.summary.removed = 0 <=> ~ \E row \in rows : row.status = "removed"
            /\ o.summary.changed = 0 <=> ~ \E row \in rows : row.status = "changed"
        BY <3>7, <3>8 DEF Statuses
      <4>2. (o.summary.added + o.summary.removed + o.summary.changed = 0) <=>
              ~ \E row \in rows : row.status # "unchanged"
        <5>1. (o.summary.added + o.summary.removed + o.summary.changed = 0) <=>
                o.summary.added = 0 /\ o.summary.removed = 0 /\ o.summary.changed = 0
          <6>1. NoneInSum(o.summary.added, o.summary.removed, o.summary.changed)
            BY <4>1, SumsOfNone
          <6> QED
            BY <6>1 DEF NoneInSum
        <5>2. \A row \in rows : row.status # "unchanged" <=>
                row.status = "added" \/ row.status = "removed" \/ row.status = "changed"
          BY <3>10 DEF Statuses
        <5> QED
          BY <4>1, <5>1, <5>2
      <4> QED
        BY <3>5, <3>9, <4>2
    <3>12. StatusesAreRight[o.diff]
      BY <3>4, AllStatusesAreRight
    <3> QED
      BY <3>1, <3>2, <3>5, <3>7, <3>11, <3>12
  <2>2. ChangesAreReal <=> \A o \in Outcomes("diff") : o.status # "error" =>
          Right(o, Equal(OrEmpty(request.of.before), OrEmpty(request.of.after)))
    BY Zenon DEF ChangesAreReal
  <2> HIDE DEF Right
  <2> QED
    BY <2>1, <2>2
<1> QED
  BY <1>1, ComparisonInvariant, PTL
=============================================================================

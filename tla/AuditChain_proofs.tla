-------------------------- MODULE AuditChain_proofs --------------------------
(***************************************************************************)
(* Theorems about the audit chain worker and its Merkle trees, for any set *)
(* of contents and chains and trees of any size.                           *)
(*                                                                         *)
(* The claims about trees are inductions over the levels.  The induction   *)
(* theorems of the library take a predicate as a parameter, which the      *)
(* provers cannot instantiate; SetInduction states induction for a set and *)
(* rests on the well-foundedness of inclusion between finite sets, a       *)
(* theorem of the library without such a parameter.  Recursion likewise    *)
(* gives the recursive functions of MerkleTree their equations.            *)
(***************************************************************************)
EXTENDS AuditChain, FiniteSetTheorems, SequenceTheorems, TLAPS

-----------------------------------------------------------------------------
(* Induction and recursion over the natural numbers                         *)

\* Every set of natural numbers that is not empty has a least element: the
\* intervals below its elements are finite, and inclusion of finite sets is
\* well-founded.
LEMMA LeastNat ==
  ASSUME NEW S, S \subseteq Nat, S # {}
  PROVE  \E n \in S : \A m \in S : n <= m
<1> DEFINE T == {1..n : n \in S}
<1>1. T \subseteq FiniteSubsetsOf(Nat)
  <2> SUFFICES ASSUME NEW n \in S PROVE 1..n \in FiniteSubsetsOf(Nat) OBVIOUS
  <2>1. n \in Nat /\ IsFiniteSet(1..n) BY FS_Interval
  <2> QED BY <2>1 DEF FiniteSubsetsOf
<1>2. T # {} OBVIOUS
<1>3. PICK t \in T : \A u \in T : ~(<<u, t>> \in StrictSubsetOrdering(Nat))
  <2> HIDE DEF T
  <2> QED BY <1>1, <1>2, FS_StrictSubsetOrderingWellFounded, WFMin
<1>4. PICK n \in S : t = 1..n OBVIOUS
<1> SUFFICES ASSUME NEW m \in S, m < n PROVE FALSE OBVIOUS
<1>5. (1..m) \subseteq t /\ 1..m # t
  <2>1. m \in Nat /\ n \in Nat OBVIOUS
  <2>2. n \in 1..n /\ n \notin 1..m BY <2>1
  <2> QED BY <2>1, <2>2, <1>4
<1>6. <<1..m, t>> \in StrictSubsetOrdering(Nat)
  BY <1>1, <1>5 DEF StrictSubsetOrdering
<1> QED BY <1>3, <1>6

\* Induction, for a set instead of a predicate: every use below names the set
\* of the numbers for which its claim holds.
LEMMA SetInduction ==
  ASSUME NEW S, 0 \in S, \A n \in Nat : n \in S => n + 1 \in S
  PROVE  Nat \subseteq S
<1> DEFINE T == Nat \ S
<1> SUFFICES ASSUME T # {} PROVE FALSE OBVIOUS
<1>1. PICK n \in T : \A m \in T : n <= m
  <2> HIDE DEF T
  <2>1. T \subseteq Nat BY DEF T
  <2> QED BY <2>1, LeastNat
<1>2. n # 0 /\ n \in Nat OBVIOUS
<1>3. n - 1 \in Nat /\ n - 1 \notin T BY <1>1, <1>2
<1>4. (n - 1) + 1 \in S BY <1>3
<1> QED BY <1>2, <1>4

\* The value at n of the recursive function named by rule with parameter p,
\* from its value v at n - 1.
Rule(rule, p, v, n) ==
  IF rule = "power" THEN IF n = 0 THEN 1 ELSE 2 * v
  ELSE IF rule = "level" THEN IF n = 0 THEN p ELSE NextLevel(v)
  ELSE IF rule = "proof" THEN
    IF n = 0 THEN p.leaf
    ELSE IF p.proof[n].position = "right" THEN NodeHash(v, p.proof[n].hash)
    ELSE NodeHash(p.proof[n].hash, v)
  ELSE [k \in {j \in 0..(Len(p) - 1) : j * PowerOfTwo[n] < Len(p)} |->
          IF n = 0 THEN p[k + 1]
          ELSE NodeHash(v[2 * k],
                        IF (2 * k + 1) * PowerOfTwo[n - 1] < Len(p)
                        THEN v[2 * k + 1] ELSE v[2 * k])]

\* f computes the rule on D, an initial segment of the natural numbers.
Computes(f, D, rule, p) == f = [n \in D |-> Rule(rule, p, f[n - 1], n)]

\* Two computations of a rule agree as far as both go.
LEMMA PrefixesAgree ==
  ASSUME NEW rule, NEW p, \A v, w : Rule(rule, p, v, 0) = Rule(rule, p, w, 0),
         NEW a \in Nat, NEW b \in Nat, NEW g, NEW h,
         Computes(g, 0..a, rule, p), Computes(h, 0..b, rule, p),
         NEW k \in Nat, k <= a, k <= b
  PROVE  g[k] = h[k]
<1> DEFINE S == {n \in Nat : n <= a /\ n <= b => g[n] = h[n]}
<1>0. /\ \A n \in 0..a : g[n] = Rule(rule, p, g[n - 1], n)
      /\ \A n \in 0..b : h[n] = Rule(rule, p, h[n - 1], n)
  BY DEF Computes
<1>1. 0 \in S BY <1>0
<1>2. ASSUME NEW n \in Nat, n \in S PROVE n + 1 \in S
  <2> SUFFICES ASSUME n + 1 <= a, n + 1 <= b PROVE g[n + 1] = h[n + 1] OBVIOUS
  <2>1. n + 1 \in 0..a /\ n + 1 \in 0..b /\ (n + 1) - 1 = n OBVIOUS
  <2>2. g[n] = h[n] BY <1>2
  <2> QED BY <1>0, <2>1, <2>2
<1> HIDE DEF S
<1>3. k \in S BY <1>1, <1>2, SetInduction
<1> QED BY <1>3 DEF S

\* Every rule whose first value does not look back has a computation over all
\* natural numbers, which a recursive function of MerkleTree then is.
LEMMA Recursion ==
  ASSUME NEW rule, NEW p, \A v, w : Rule(rule, p, v, 0) = Rule(rule, p, w, 0)
  PROVE  \E f : Computes(f, Nat, rule, p)
<1> DEFINE S == {n \in Nat : \E g : Computes(g, 0..n, rule, p)}
<1>1. 0 \in S
  <2> DEFINE g == [n \in 0..0 |-> Rule(rule, p, 0, 0)]
  <2>1. g = [n \in 0..0 |-> Rule(rule, p, g[n - 1], n)] OBVIOUS
  <2>2. Computes(g, 0..0, rule, p)
    <3> HIDE DEF g
    <3> QED BY <2>1 DEF Computes
  <2> QED BY <2>2
<1>2. ASSUME NEW n \in Nat, n \in S PROVE n + 1 \in S
  <2>1. PICK g : Computes(g, 0..n, rule, p) BY <1>2
  <2> DEFINE h == [k \in 0..(n + 1) |-> IF k = n + 1 THEN Rule(rule, p, g[n], k) ELSE g[k]]
  <2>2. \A k \in 0..n : g[k] = Rule(rule, p, g[k - 1], k) BY <2>1 DEF Computes
  <2>3. ASSUME NEW k \in 0..(n + 1) PROVE h[k] = Rule(rule, p, h[k - 1], k)
    <3>1. CASE k = n + 1 BY <3>1
    <3>2. CASE k # n + 1 /\ k # 0
      <4>1. k \in 0..n /\ k - 1 \in 0..n BY <3>2
      <4>2. h[k] = g[k] /\ h[k - 1] = g[k - 1] BY <3>2, <4>1
      <4> QED BY <2>2, <4>1, <4>2
    <3>3. CASE k = 0
      <4>1. h[k] = g[k] /\ 0 \in 0..n BY <3>3
      <4>2. g[0] = Rule(rule, p, g[0 - 1], 0) BY <2>2, <4>1
      <4> HIDE DEF h
      <4> QED BY <3>3, <4>1, <4>2
    <3> QED BY <3>1, <3>2, <3>3
  <2>4. h = [k \in 0..(n + 1) |-> h[k]] OBVIOUS
  <2>5. Computes(h, 0..(n + 1), rule, p)
    <3> HIDE DEF h
    <3> QED BY <2>3, <2>4 DEF Computes
  <2> QED BY <2>5
<1>3. \A n \in Nat : n \in S
  <2> HIDE DEF S
  <2> QED BY <1>1, <1>2, SetInduction
<1> DEFINE G(n) == CHOOSE g : Computes(g, 0..n, rule, p)
           f == [n \in Nat |-> G(n)[n]]
<1>4. \A n \in Nat : Computes(G(n), 0..n, rule, p) BY <1>3
<1>5. ASSUME NEW n \in Nat PROVE f[n] = Rule(rule, p, f[n - 1], n)
  <2> HIDE DEF G
  <2>1. f[n] = Rule(rule, p, G(n)[n - 1], n) BY <1>4 DEF Computes
  <2>2. CASE n = 0
    <3> HIDE DEF f
    <3> QED BY <2>1, <2>2
  <2>3. CASE n # 0
    <3>1. n - 1 \in Nat /\ n - 1 <= n BY <2>3
    <3>1a. n - 1 \in Nat /\ n - 1 <= n - 1 BY <2>3
    <3>2. G(n)[n - 1] = G(n - 1)[n - 1]
      BY <1>4, <2>3, <3>1, <3>1a, PrefixesAgree
    <3>3. f[n - 1] = G(n - 1)[n - 1] BY <2>3
    <3> QED BY <2>1, <3>2, <3>3
  <2> QED BY <2>2, <2>3
<1>6. f = [n \in Nat |-> f[n]] OBVIOUS
<1>7. Computes(f, Nat, rule, p)
  <2> HIDE DEF f
  <2> QED BY <1>5, <1>6 DEF Computes
<1> QED BY <1>7

\* PowerOfTwo satisfies its recursion.
LEMMA PowerRecursion ==
  PowerOfTwo[0] = 1 /\ \A n \in Nat : PowerOfTwo[n + 1] = 2 * PowerOfTwo[n]
<1> DEFINE P(f) == f = [n \in Nat |-> IF n = 0 THEN 1 ELSE 2 * f[n - 1]]
<1>1. PICK f : Computes(f, Nat, "power", 0)
  <2>1. \A v, w : Rule("power", 0, v, 0) = Rule("power", 0, w, 0) BY DEF Rule
  <2> QED BY <2>1, Recursion
<1>2. P(f) BY <1>1 DEF Computes, Rule
<1>3. P(PowerOfTwo)
  <2>1. PowerOfTwo = CHOOSE g : P(g) BY DEF PowerOfTwo
  <2> HIDE DEF P
  <2> QED BY <1>2, <2>1
<1> HIDE DEF PowerOfTwo
<1> QED BY <1>3

\* The levels of a tree are made one from the other by NextLevel, as in the
\* while loop of compute_merkle_root.
LEMMA LevelRecursion ==
  ASSUME NEW hashes
  PROVE  /\ Level(hashes, 0) = hashes
         /\ \A n \in Nat : Level(hashes, n + 1) = NextLevel(Level(hashes, n))
<1> DEFINE P(f) == f = [k \in Nat |-> IF k = 0 THEN hashes ELSE NextLevel(f[k - 1])]
           level == CHOOSE f : P(f)
<1>1. PICK f : Computes(f, Nat, "level", hashes)
  <2>1. \A v, w : Rule("level", hashes, v, 0) = Rule("level", hashes, w, 0) BY DEF Rule
  <2> QED BY <2>1, Recursion
<1>2. P(f) BY <1>1 DEF Computes, Rule
<1>3. P(level)
  <2> HIDE DEF P
  <2> QED BY <1>2
<1>4. \A n : Level(hashes, n) = level[n] BY DEF Level
<1> HIDE DEF level
<1>5. level[0] = hashes /\ \A n \in Nat : level[n + 1] = NextLevel(level[n]) BY <1>3
<1> QED BY <1>4, <1>5

\* One round of the loop of get_proof.
RootStep(c, node) == IF node.position = "right" THEN NodeHash(c, node.hash)
                     ELSE NodeHash(node.hash, c)

\* c holds the values of current in get_proof, and the last one is its result.
RunsThrough(c, leaf, proof) ==
  /\ c[0] = leaf
  /\ \A h \in Nat : c[h + 1] = RootStep(c[h], proof[h + 1])
  /\ RootFromProof(leaf, proof) = c[Len(proof)]

\* The loop of get_proof over the nodes of a proof.
LEMMA ProofRecursion ==
  ASSUME NEW leaf, NEW proof
  PROVE  \E c : RunsThrough(c, leaf, proof)
<1> DEFINE P(f) ==
      f = [h \in Nat |->
             IF h = 0 THEN leaf
             ELSE IF proof[h].position = "right" THEN NodeHash(f[h - 1], proof[h].hash)
             ELSE NodeHash(proof[h].hash, f[h - 1])]
           p == [leaf |-> leaf, proof |-> proof]
           current == CHOOSE f : P(f)
<1>1. PICK f : Computes(f, Nat, "proof", p)
  <2> HIDE DEF p
  <2>1. \A v, w : Rule("proof", p, v, 0) = Rule("proof", p, w, 0) BY DEF Rule
  <2> QED BY <2>1, Recursion
<1>2. P(f) BY <1>1 DEF Computes, Rule
<1>3. P(current)
  <2> HIDE DEF P
  <2> QED BY <1>2
<1>4. RootFromProof(leaf, proof) = current[Len(proof)] BY DEF RootFromProof
<1> HIDE DEF current
<1>5. current[0] = leaf /\ \A h \in Nat : current[h + 1] = RootStep(current[h], proof[h + 1])
  BY <1>3 DEF RootStep
<1> QED BY <1>4, <1>5 DEF RunsThrough

\* The subtrees of height h that have a leaf.
Subtrees(hashes, h) == {j \in 0..(Len(hashes) - 1) : j * PowerOfTwo[h] < Len(hashes)}

\* The subtrees of the reference definition.
LEMMA TreeRecursion ==
  ASSUME NEW hashes, Len(hashes) \in Nat \ {0}
  PROVE  \E tree :
           /\ tree[0] = [k \in Subtrees(hashes, 0) |-> hashes[k + 1]]
           /\ \A h \in Nat : tree[h + 1] =
                [k \in Subtrees(hashes, h + 1) |->
                   NodeHash(tree[h][2 * k],
                            IF (2 * k + 1) * PowerOfTwo[h] < Len(hashes)
                            THEN tree[h][2 * k + 1] ELSE tree[h][2 * k])]
           /\ ReferenceRoot(hashes) = tree[Height(Len(hashes))][0]
<1> USE DEF Subtrees
<1> DEFINE P(f) ==
      f = [h \in Nat |->
        [k \in {j \in 0..(Len(hashes) - 1) : j * PowerOfTwo[h] < Len(hashes)} |->
           IF h = 0 THEN hashes[k + 1]
           ELSE NodeHash(f[h - 1][2 * k],
                         IF (2 * k + 1) * PowerOfTwo[h - 1] < Len(hashes)
                         THEN f[h - 1][2 * k + 1]
                         ELSE f[h - 1][2 * k])]]
           tree == CHOOSE f : P(f)
<1>1. PICK f : Computes(f, Nat, "tree", hashes)
  <2>1. \A v, w : Rule("tree", hashes, v, 0) = Rule("tree", hashes, w, 0) BY DEF Rule
  <2> QED BY <2>1, Recursion
<1>2. P(f) BY <1>1, Zenon DEF Computes, Rule
<1>3. P(tree)
  <2> HIDE DEF P
  <2> QED BY <1>2
<1>4. ReferenceRoot(hashes) = tree[Height(Len(hashes))][0] BY DEF ReferenceRoot
<1> HIDE DEF tree
<1>5. tree[0] = [k \in Subtrees(hashes, 0) |-> hashes[k + 1]] BY <1>3
<1>6. ASSUME NEW h \in Nat PROVE tree[h + 1] =
                [k \in Subtrees(hashes, h + 1) |->
                   NodeHash(tree[h][2 * k],
                            IF (2 * k + 1) * PowerOfTwo[h] < Len(hashes)
                            THEN tree[h][2 * k + 1] ELSE tree[h][2 * k])]
  <2>1. h + 1 \in Nat /\ h + 1 # 0 /\ (h + 1) - 1 = h OBVIOUS
  <2> QED BY <1>3, <2>1
<1> QED BY <1>4, <1>5, <1>6

\* A function over 1..m is a sequence of length m.
LEMMA LenOfFcn == ASSUME NEW m \in Nat, NEW f, f = [k \in 1..m |-> f[k]] PROVE Len(f) = m
OBVIOUS

\* The height is the least power of two that n leaves fit below.
LEMMA HeightFacts ==
  ASSUME NEW n \in Nat \ {0}
  PROVE  /\ Height(n) \in 0..n
         /\ PowerOfTwo[Height(n)] >= n
         /\ \A g \in 0..(Height(n) - 1) : PowerOfTwo[g] < n
<1> DEFINE S == {h \in Nat : PowerOfTwo[h] \in Nat /\ PowerOfTwo[h] >= h + 1}
<1>1. 0 \in S /\ \A h \in Nat : h \in S => h + 1 \in S BY PowerRecursion
<1>2. \A h \in Nat : PowerOfTwo[h] \in Nat /\ PowerOfTwo[h] >= h + 1
  <2>1. \A h \in Nat : h \in S
    <3> HIDE DEF S
    <3> QED BY <1>1, SetInduction
  <2> QED BY <2>1
<1> DEFINE T == {h \in 0..n : PowerOfTwo[h] >= n}
<1>3. n \in T BY <1>2
<1>4. PICK h \in T : \A g \in T : h <= g
  <2>1. T \subseteq Nat OBVIOUS
  <2> HIDE DEF T
  <2> QED BY <1>3, <2>1, LeastNat
<1>5. ASSUME NEW g \in 0..(h - 1) PROVE PowerOfTwo[g] < n
  <2>1. g \in 0..n /\ g \notin T BY <1>4
  <2> QED BY <1>2, <2>1
<1> DEFINE Q(x) == PowerOfTwo[x] >= n /\ \A g \in 0..(x - 1) : PowerOfTwo[g] < n
<1>6. h \in 0..n /\ Q(h) BY <1>5
<1>7. Height(n) = CHOOSE x \in 0..n : Q(x) BY DEF Height
<1>8. Height(n) \in 0..n /\ Q(Height(n))
  <2> HIDE DEF Q
  <2> QED BY <1>6, <1>7
<1> QED BY <1>8

\* Digests are not typed, so neither are sequences of them.
IsSequence(s) == Len(s) \in Nat /\ s = [k \in 1..Len(s) |-> s[k]]

-----------------------------------------------------------------------------
(* Merkle trees                                                             *)

\* No power of two is zero.
LEMMA PowersArePositive == \A h \in Nat : PowerOfTwo[h] \in Nat \ {0}
<1> DEFINE S == {h \in Nat : PowerOfTwo[h] \in Nat \ {0}}
<1>1. 0 \in S /\ \A h \in Nat : h \in S => h + 1 \in S BY PowerRecursion
<1> HIDE DEF S
<1>2. \A h \in Nat : h \in S BY <1>1, SetInduction
<1> QED BY <1>2 DEF S

\* The next level has half the nodes, rounded up.
LEMMA NextLevelFacts ==
  ASSUME NEW level, IsSequence(level)
  PROVE  /\ IsSequence(NextLevel(level))
         /\ Len(NextLevel(level)) = (Len(level) + 1) \div 2
         /\ \A k \in 1..((Len(level) + 1) \div 2) :
              NextLevel(level)[k] =
                NodeHash(level[2 * k - 1],
                         IF 2 * k <= Len(level) THEN level[2 * k] ELSE level[2 * k - 1])
<1> DEFINE w == (Len(level) + 1) \div 2
           next == NextLevel(level)
<1>1. w \in Nat BY DEF IsSequence
<1>2. next = [k \in 1..w |-> next[k]] /\ \A k \in 1..w : next[k] =
                NodeHash(level[2 * k - 1],
                         IF 2 * k <= Len(level) THEN level[2 * k] ELSE level[2 * k - 1])
  BY DEF NextLevel
<1> HIDE DEF w, next
<1>3. Len(next) = w BY <1>1, <1>2, LenOfFcn
<1> QED BY <1>1, <1>2, <1>3 DEF w, next, IsSequence

\* After h rounds there is a node k exactly if its first leaf is one of the
\* leaves.
LEMMA LevelWidth ==
  ASSUME NEW hashes, IsSequence(hashes), hashes # <<>>
  PROVE  \A h \in Nat :
           /\ IsSequence(Level(hashes, h))
           /\ \A k \in Nat : k < Len(Level(hashes, h)) <=> k * PowerOfTwo[h] < Len(hashes)
<1> DEFINE Width(h) ==
      /\ IsSequence(Level(hashes, h))
      /\ \A k \in Nat : k < Len(Level(hashes, h)) <=> k * PowerOfTwo[h] < Len(hashes)
           S == {h \in Nat : Width(h)}
<1>1. 0 \in S
  <2>1. Level(hashes, 0) = hashes /\ PowerOfTwo[0] = 1 BY LevelRecursion, PowerRecursion
  <2> QED BY <2>1
<1>2. ASSUME NEW h \in Nat, h \in S PROVE h + 1 \in S
  <2> DEFINE level == Level(hashes, h)
             next == Level(hashes, h + 1)
             n == Len(hashes)
             p == PowerOfTwo[h]
  <2>0. n \in Nat /\ p \in Nat /\ PowerOfTwo[h + 1] = 2 * p
    BY PowersArePositive, PowerRecursion DEF IsSequence
  <2>1. IsSequence(level) /\ \A k \in Nat : k < Len(level) <=> k * p < n BY <1>2
  <2>2. IsSequence(next) /\ Len(next) = (Len(level) + 1) \div 2
    BY <2>1, LevelRecursion, NextLevelFacts, ZenonT(60)
  <2> HIDE DEF level, next, n, p
  <2>3. ASSUME NEW k \in Nat PROVE k < Len(next) <=> k * (2 * p) < n
    <3>1. Len(level) \in Nat BY <2>1 DEF IsSequence
    <3>2. k < Len(next) <=> 2 * k < Len(level) BY <3>1, <2>2
    <3>3. 2 * k < Len(level) <=> (2 * k) * p < n BY <2>1
    <3>4. (2 * k) * p = k * (2 * p) BY <2>0
    <3> QED BY <3>2, <3>3, <3>4
  <2>4. h + 1 \in Nat /\ Width(h + 1) BY <2>0, <2>2, <2>3 DEF next, n, p
  <2> HIDE DEF Width
  <2> QED BY <2>4
<1>3. \A h \in Nat : h \in S
  <2> HIDE DEF S
  <2> QED BY <1>1, <1>2, SetInduction
<1> QED BY <1>3

\* The while loop ends after Height rounds, with one node, and not before.
LEMMA TopLevel ==
  ASSUME NEW hashes, IsSequence(hashes), hashes # <<>>
  PROVE  /\ Height(Len(hashes)) \in Nat
         /\ Len(Level(hashes, Height(Len(hashes)))) = 1
         /\ \A h \in 0..(Height(Len(hashes)) - 1) : Len(Level(hashes, h)) > 1
<1> DEFINE n == Len(hashes)
           H == Height(n)
<1>0. n \in Nat \ {0} BY DEF IsSequence
<1>1. H \in 0..n /\ PowerOfTwo[H] >= n /\ \A g \in 0..(H - 1) : PowerOfTwo[g] < n
  BY <1>0, HeightFacts
<1>2. H \in Nat BY <1>0, <1>1
<1> HIDE DEF n, H
<1>3. ASSUME NEW h \in Nat
      PROVE  /\ Len(Level(hashes, h)) \in Nat \ {0}
             /\ Len(Level(hashes, h)) > 1 <=> PowerOfTwo[h] < n
  <2>1. Len(Level(hashes, h)) \in Nat BY LevelWidth DEF IsSequence
  <2>2. PowerOfTwo[h] \in Nat BY PowersArePositive
  <2>3. 0 < Len(Level(hashes, h)) <=> 0 * PowerOfTwo[h] < n BY LevelWidth DEF n
  <2>4. 1 < Len(Level(hashes, h)) <=> 1 * PowerOfTwo[h] < n BY LevelWidth DEF n
  <2> QED BY <1>0, <2>1, <2>2, <2>3, <2>4
<1>4. PowerOfTwo[H] \in Nat BY <1>2, PowersArePositive
<1>5. Len(Level(hashes, H)) = 1
  <2> DEFINE w == Len(Level(hashes, H))
  <2>1. w \in Nat \ {0} /\ (w > 1 <=> PowerOfTwo[H] < n) BY <1>2, <1>3
  <2> HIDE DEF w
  <2>2. w = 1 BY <1>0, <1>1, <1>4, <2>1
  <2> QED BY <2>2 DEF w
<1>6. ASSUME NEW h \in 0..(H - 1) PROVE Len(Level(hashes, h)) > 1
  BY <1>1, <1>2, <1>3
<1> QED BY <1>2, <1>5, <1>6 DEF n, H

\* compute_merkle_root, which hashes level by level from the leaves, computes
\* for every number of leaves the root of the tree defined from the root down.
THEOREM MerkleRootIsReference ==
  ASSUME NEW hashes, IsSequence(hashes)
  PROVE  compute_merkle_root(hashes) = ReferenceRoot(hashes)
<1>1. CASE Len(hashes) = 0
  <2>1. hashes = <<>> BY <1>1 DEF IsSequence
  <2> QED BY <1>1, <2>1 DEF compute_merkle_root, ReferenceRoot
<1>2. CASE Len(hashes) # 0
  <2> DEFINE n == Len(hashes)
  <2>1. n \in Nat \ {0} /\ hashes # <<>> BY <1>2 DEF IsSequence
  <2>2. PICK tree :
           /\ tree[0] = [k \in Subtrees(hashes, 0) |-> hashes[k + 1]]
           /\ \A h \in Nat : tree[h + 1] =
                [k \in Subtrees(hashes, h + 1) |->
                   NodeHash(tree[h][2 * k],
                            IF (2 * k + 1) * PowerOfTwo[h] < Len(hashes)
                            THEN tree[h][2 * k + 1] ELSE tree[h][2 * k])]
           /\ ReferenceRoot(hashes) = tree[Height(Len(hashes))][0]
    BY <2>1, TreeRecursion
  <2> DEFINE S == {h \in Nat : \A k \in Nat :
                     k < Len(Level(hashes, h)) => tree[h][k] = Level(hashes, h)[k + 1]}
  <2>3. ASSUME NEW h \in Nat, NEW k \in Nat
        PROVE  k \in Subtrees(hashes, h) <=> k < Len(Level(hashes, h))
    <3>1. k < Len(Level(hashes, h)) <=> k * PowerOfTwo[h] < n BY <2>1, LevelWidth
    <3>2. k * PowerOfTwo[h] < n => k < n
      <4>1. PowerOfTwo[h] \in Nat \ {0} BY PowersArePositive
      <4>2. ASSUME NEW q \in Nat \ {0} PROVE k <= k * q OBVIOUS
      <4>3. k <= k * PowerOfTwo[h] /\ k * PowerOfTwo[h] \in Nat BY <4>1, <4>2
      <4> QED BY <4>3, <2>1
    <3> QED BY <2>1, <3>1, <3>2 DEF Subtrees
  <2>4. 0 \in S
    <3> SUFFICES ASSUME NEW k \in Nat, k < Len(Level(hashes, 0))
                 PROVE  tree[0][k] = Level(hashes, 0)[k + 1]
      OBVIOUS
    <3> QED BY <2>2, <2>3, LevelRecursion
  <2>5. ASSUME NEW h \in Nat, h \in S PROVE h + 1 \in S
    <3> DEFINE level == Level(hashes, h)
               next == Level(hashes, h + 1)
    <3> SUFFICES ASSUME NEW k \in Nat, k < Len(next)
                 PROVE  tree[h + 1][k] = next[k + 1]
      OBVIOUS
    <3>1. IsSequence(level) BY <2>1, LevelWidth
    <3>2. next = NextLevel(level) BY LevelRecursion
    <3>3. \A j \in Nat : j < Len(level) => tree[h][j] = level[j + 1] BY <2>5
    <3>4. Len(level) \in Nat BY <3>1 DEF IsSequence
    <3>5. (2 * k + 1) * PowerOfTwo[h] < n <=> 2 * k + 1 < Len(level)
      <4>1. \A j \in Nat : j < Len(level) <=> j * PowerOfTwo[h] < n BY <2>1, LevelWidth
      <4>2. 2 * k + 1 \in Nat OBVIOUS
      <4> HIDE DEF level, n
      <4> QED BY <4>1, <4>2
    <3>6. tree[h + 1][k] =
            NodeHash(tree[h][2 * k],
                     IF (2 * k + 1) * PowerOfTwo[h] < n
                     THEN tree[h][2 * k + 1] ELSE tree[h][2 * k])
      <4>1. k \in Subtrees(hashes, h + 1) BY <2>3
      <4> QED BY <2>2, <4>1
    <3> HIDE DEF level, next, n
    <3>7. Len(next) = (Len(level) + 1) \div 2
          /\ \A j \in 1..((Len(level) + 1) \div 2) :
               next[j] = NodeHash(level[2 * j - 1],
                         IF 2 * j <= Len(level) THEN level[2 * j] ELSE level[2 * j - 1])
      BY <3>1, <3>2, NextLevelFacts
    <3>8. 2 * k < Len(level) /\ k + 1 \in 1..((Len(level) + 1) \div 2) BY <3>4, <3>7
    <3>9. next[k + 1] = NodeHash(level[2 * k + 1],
             IF 2 * k + 1 < Len(level) THEN level[2 * k + 2] ELSE level[2 * k + 1])
      <4>1. 2 * (k + 1) - 1 = 2 * k + 1 /\ 2 * (k + 1) = 2 * k + 2 OBVIOUS
      <4>2. 2 * k + 2 <= Len(level) <=> 2 * k + 1 < Len(level) BY <3>4
      <4> QED BY <3>7, <3>8, <4>1, <4>2
    <3>10. tree[h][2 * k] = level[2 * k + 1] BY <3>3, <3>8
    <3>11. 2 * k + 1 < Len(level) => tree[h][2 * k + 1] = level[2 * k + 2]
      <4>1. 2 * k + 1 \in Nat /\ (2 * k + 1) + 1 = 2 * k + 2 OBVIOUS
      <4> QED BY <3>3, <4>1
    <3> QED BY <3>5, <3>6, <3>9, <3>10, <3>11
  <2>6. \A h \in Nat : h \in S
    <3> HIDE DEF S
    <3> QED BY <2>4, <2>5, SetInduction
  <2> DEFINE H == Height(n)
  <2>7. H \in Nat /\ Len(Level(hashes, H)) = 1 BY <2>1, TopLevel
  <2>8. tree[H][0] = Level(hashes, H)[1]
    <3> HIDE DEF H
    <3>1. \A k \in Nat : k < Len(Level(hashes, H)) => tree[H][k] = Level(hashes, H)[k + 1]
      BY <2>6, <2>7
    <3> QED BY <2>7, <3>1
  <2> QED BY <2>1, <2>2, <2>8 DEF compute_merkle_root
<1> QED BY <1>1, <1>2

\* The proof compute_merkle_proof answers, node by node.
LEMMA ProofOfHeight ==
  ASSUME NEW hashes, IsSequence(hashes), hashes # <<>>, NEW index \in Nat
  PROVE  /\ Len(compute_merkle_proof(hashes, index)) = Height(Len(hashes))
         /\ \A h \in 0..(Height(Len(hashes)) - 1) :
              compute_merkle_proof(hashes, index)[h + 1] =
                [hash     |-> Sibling(Level(hashes, h), index \div PowerOfTwo[h]),
                 position |-> IF (index \div PowerOfTwo[h]) % 2 = 0 THEN "right" ELSE "left"]
<1> DEFINE H == Height(Len(hashes))
           proof == compute_merkle_proof(hashes, index)
<1>1. H \in Nat BY TopLevel
<1>2. /\ proof = [h \in 1..H |-> proof[h]]
      /\ \A h \in 1..H : proof[h] =
           [hash     |-> Sibling(Level(hashes, h - 1), index \div PowerOfTwo[h - 1]),
            position |-> IF (index \div PowerOfTwo[h - 1]) % 2 = 0 THEN "right" ELSE "left"]
  BY DEF compute_merkle_proof
<1> HIDE DEF H, proof
<1>3. Len(proof) = H BY <1>1, <1>2, LenOfFcn
<1>4. ASSUME NEW h \in 0..(H - 1)
      PROVE  proof[h + 1] =
                [hash     |-> Sibling(Level(hashes, h), index \div PowerOfTwo[h]),
                 position |-> IF (index \div PowerOfTwo[h]) % 2 = 0 THEN "right" ELSE "left"]
  <2>1. h + 1 \in 1..H /\ (h + 1) - 1 = h BY <1>1
  <2> QED BY <1>2, <2>1
<1> QED BY <1>3, <1>4 DEF H, proof

\* One round of get_proof: hashing a node with its sibling gives its parent.
LEMMA SiblingGivesParent ==
  ASSUME NEW level, IsSequence(level), NEW idx \in Nat, idx < Len(level)
  PROVE  RootStep(level[idx + 1],
                  [hash     |-> Sibling(level, idx),
                   position |-> IF idx % 2 = 0 THEN "right" ELSE "left"])
           = NextLevel(level)[(idx \div 2) + 1]
<1> DEFINE m == idx \div 2
<1>0. m \in Nat /\ Len(level) \in Nat /\ (idx % 2 = 0 => idx = 2 * m)
      /\ (idx % 2 # 0 => idx = 2 * m + 1 /\ idx % 2 = 1)
  BY DEF IsSequence
<1> HIDE DEF m
<1>1. m + 1 \in 1..((Len(level) + 1) \div 2) BY <1>0
<1>2. NextLevel(level)[m + 1] =
        NodeHash(level[2 * m + 1],
                 IF 2 * m + 2 <= Len(level) THEN level[2 * m + 2] ELSE level[2 * m + 1])
  <2>1. 2 * (m + 1) - 1 = 2 * m + 1 /\ 2 * (m + 1) = 2 * m + 2 BY <1>0
  <2> QED BY <1>1, <2>1, NextLevelFacts
<1>3. CASE idx % 2 = 0
  <2>1. idx = 2 * m BY <1>0, <1>3
  <2>2. Sibling(level, idx) =
          IF 2 * m + 2 <= Len(level) THEN level[2 * m + 2] ELSE level[2 * m + 1]
    BY <1>0, <2>1, <1>3 DEF Sibling
  <2> QED BY <1>2, <1>3, <2>1, <2>2 DEF RootStep, m
<1>4. CASE idx % 2 # 0
  <2>1. idx = 2 * m + 1 /\ idx % 2 = 1 BY <1>0, <1>4
  <2>2. Sibling(level, idx) = level[2 * m + 1] BY <2>1 DEF Sibling
  <2>3. 2 * m + 2 <= Len(level) /\ idx + 1 = 2 * m + 2 BY <1>0, <2>1
  <2> QED BY <1>2, <1>4, <2>1, <2>2, <2>3 DEF RootStep, m
<1> QED BY <1>3, <1>4

\* For every number of leaves and every leaf, get_proof recomputes the root
\* from the leaf and the proof compute_merkle_proof has made for it.
THEOREM MerkleProofVerifies ==
  ASSUME NEW hashes, IsSequence(hashes), NEW index \in Nat, index < Len(hashes)
  PROVE  RootFromProof(hashes[index + 1], compute_merkle_proof(hashes, index))
           = compute_merkle_root(hashes)
<1> DEFINE n == Len(hashes)
           H == Height(n)
           proof == compute_merkle_proof(hashes, index)
           idx(h) == index \div PowerOfTwo[h]
<1>0. n \in Nat \ {0} /\ hashes # <<>> BY DEF IsSequence
<1>1. H \in Nat /\ Len(Level(hashes, H)) = 1 /\ Len(proof) = H
  BY <1>0, TopLevel, ProofOfHeight
<1>2. PICK c : RunsThrough(c, hashes[index + 1], proof) BY ProofRecursion
<1>2a. /\ c[0] = hashes[index + 1]
       /\ \A h \in Nat : c[h + 1] = RootStep(c[h], proof[h + 1])
       /\ RootFromProof(hashes[index + 1], proof) = c[H]
  <2> HIDE DEF proof, H
  <2> QED BY <1>1, <1>2 DEF RunsThrough
<1>3. ASSUME NEW h \in Nat
      PROVE  idx(h) \in Nat /\ idx(h) < Len(Level(hashes, h)) /\ idx(h + 1) = idx(h) \div 2
  <2> DEFINE p == PowerOfTwo[h]
  <2>1. p \in Nat \ {0} /\ PowerOfTwo[h + 1] = 2 * p BY PowersArePositive, PowerRecursion
  <2> HIDE DEF p
  <2>2. index \div p \in Nat /\ (index \div p) * p <= index BY <2>1
  <2>3. index \div (2 * p) = (index \div p) \div 2 BY <2>1
  <2>4. (index \div p) * p < n BY <1>0, <2>1, <2>2
  <2>5. \A k \in Nat : k < Len(Level(hashes, h)) <=> k * p < n BY <1>0, LevelWidth DEF p
  <2>6. (index \div p) < Len(Level(hashes, h)) BY <2>2, <2>4, <2>5
  <2> QED BY <2>1, <2>2, <2>3, <2>6 DEF p
<1> DEFINE S == {h \in Nat : h <= H => c[h] = Level(hashes, h)[idx(h) + 1]}
<1>4. 0 \in S
  <2>1. idx(0) = index BY PowerRecursion
  <2> QED BY <1>2a, <2>1, LevelRecursion
<1>5. ASSUME NEW h \in Nat, h \in S PROVE h + 1 \in S
  <2> SUFFICES ASSUME h + 1 <= H PROVE c[h + 1] = Level(hashes, h + 1)[idx(h + 1) + 1]
    OBVIOUS
  <2> DEFINE level == Level(hashes, h)
  <2>1. c[h] = level[idx(h) + 1] BY <1>1, <1>5
  <2>2. h \in 0..(H - 1) BY <1>1
  <2>3. proof[h + 1] = [hash     |-> Sibling(level, idx(h)),
                        position |-> IF idx(h) % 2 = 0 THEN "right" ELSE "left"]
    BY <1>0, <2>2, ProofOfHeight
  <2>4. IsSequence(level) /\ idx(h) \in Nat /\ idx(h) < Len(level)
        /\ idx(h + 1) = idx(h) \div 2
    BY <1>0, <1>3, LevelWidth
  <2>5. Level(hashes, h + 1) = NextLevel(level) BY LevelRecursion
  <2> HIDE DEF level, proof, idx
  <2>6. RootStep(level[idx(h) + 1], proof[h + 1]) = NextLevel(level)[(idx(h) \div 2) + 1]
    BY <2>3, <2>4, SiblingGivesParent
  <2> QED BY <1>2a, <2>1, <2>4, <2>5, <2>6
<1>6. c[H] = Level(hashes, H)[idx(H) + 1]
  <2> HIDE DEF S
  <2>1. H \in S BY <1>1, <1>4, <1>5, SetInduction
  <2> QED BY <1>1, <2>1 DEF S
<1>7. idx(H) = 0
  <2> HIDE DEF idx, H
  <2>1. idx(H) \in Nat /\ idx(H) < 1 BY <1>1, <1>3
  <2> QED BY <2>1
<1>8. c[H] = Level(hashes, H)[1]
  <2> HIDE DEF idx, H
  <2> QED BY <1>6, <1>7
<1> HIDE DEF idx
<1> QED BY <1>0, <1>2a, <1>8 DEF compute_merkle_root

\* A proof leads two different leaves to two different roots.
LEMMA ProofFitsOneLeaf ==
  ASSUME NEW leaf, NEW other, leaf # other, NEW proof, Len(proof) \in Nat
  PROVE  RootFromProof(leaf, proof) # RootFromProof(other, proof)
<1>1. PICK c : RunsThrough(c, leaf, proof) BY ProofRecursion
<1>2. PICK d : RunsThrough(d, other, proof) BY ProofRecursion
<1> DEFINE S == {h \in Nat : c[h] # d[h]}
<1>3. 0 \in S BY <1>1, <1>2 DEF RunsThrough
<1>4. ASSUME NEW h \in Nat, h \in S PROVE h + 1 \in S
  <2>1. c[h] # d[h] BY <1>4
  <2>2. ASSUME NEW node PROVE RootStep(c[h], node) # RootStep(d[h], node)
    BY <2>1 DEF RootStep, NodeHash
  <2> QED BY <1>1, <1>2, <2>2 DEF RunsThrough
<1>5. Len(proof) \in S
  <2> HIDE DEF S
  <2> QED BY <1>3, <1>4, SetInduction
<1> QED BY <1>1, <1>2, <1>5 DEF RunsThrough

-----------------------------------------------------------------------------
(* Sequences of untyped elements                                            *)

\* A sequence, whatever its elements are.
LEMMA SequenceInSeq ==
  ASSUME NEW s, IsSequence(s), NEW S, \A k \in 1..Len(s) : s[k] \in S PROVE s \in Seq(S)
<1>1. s \in [1..Len(s) -> S] BY DEF IsSequence
<1> QED BY <1>1, SeqDef DEF IsSequence

\* Members of Seq(S) are sequences in that sense.
LEMMA SeqIsSequence ==
  ASSUME NEW S, NEW s \in Seq(S) PROVE IsSequence(s)
<1>1. Len(s) \in Nat /\ s \in [1..Len(s) -> S] BY LenProperties
<1> QED BY <1>1 DEF IsSequence

\* What Append does to a sequence of untyped elements.
LEMMA AppendFacts ==
  ASSUME NEW s, IsSequence(s), NEW e
  PROVE  /\ IsSequence(Append(s, e))
         /\ Len(Append(s, e)) = Len(s) + 1
         /\ \A k \in 1..Len(s) : Append(s, e)[k] = s[k]
         /\ Append(s, e)[Len(s) + 1] = e
<1> DEFINE S == {s[k] : k \in 1..Len(s)} \cup {e}
<1>1. s \in Seq(S) BY SequenceInSeq
<1>2. e \in S OBVIOUS
<1> HIDE DEF S
<1>3. /\ Append(s, e) \in Seq(S)
      /\ Len(Append(s, e)) = Len(s) + 1
      /\ \A k \in 1..Len(s) : Append(s, e)[k] = s[k]
      /\ Append(s, e)[Len(s) + 1] = e
  BY <1>1, <1>2, AppendProperties
<1>4. IsSequence(Append(s, e)) BY <1>3, SeqIsSequence
<1> QED BY <1>3, <1>4

\* What a prefix of one is.
LEMMA PrefixFacts ==
  ASSUME NEW s, IsSequence(s), NEW m \in 0..Len(s)
  PROVE  /\ IsSequence(SubSeq(s, 1, m))
         /\ Len(SubSeq(s, 1, m)) = m
         /\ SubSeq(s, 1, m) = [k \in 1..m |-> s[k]]
<1> DEFINE S == {s[k] : k \in 1..Len(s)}
<1>0. Len(s) \in Nat BY DEF IsSequence
<1>1. s \in Seq(S) BY SequenceInSeq
<1>2. SubSeq(s, 1, m) = [k \in 1..m |-> s[k]] BY <1>0, <1>1
<1>3. Len(SubSeq(s, 1, m)) = m BY <1>0, <1>2, LenOfFcn
<1> QED BY <1>0, <1>2, <1>3 DEF IsSequence

\* What RemoveAt leaves of one.
LEMMA RemoveFacts ==
  ASSUME NEW s, IsSequence(s), NEW j \in 1..Len(s)
  PROVE  /\ Len(RemoveAt(s, j)) = Len(s) - 1
         /\ \A k \in 1..(Len(s) - 1) :
              RemoveAt(s, j)[k] = IF k < j THEN s[k] ELSE s[k + 1]
<1> DEFINE S == {s[k] : k \in 1..Len(s)}
<1>0. Len(s) \in Nat BY DEF IsSequence
<1>1. s \in Seq(S) BY SequenceInSeq
<1>2. /\ SubSeq(s, 1, j - 1) \in Seq(S) /\ SubSeq(s, j + 1, Len(s)) \in Seq(S)
      /\ Len(SubSeq(s, 1, j - 1)) = j - 1
      /\ Len(SubSeq(s, j + 1, Len(s))) = Len(s) - j
      /\ \A k \in 1..(j - 1) : SubSeq(s, 1, j - 1)[k] = s[k]
      /\ \A k \in 1..(Len(s) - j) : SubSeq(s, j + 1, Len(s))[k] = s[j + k]
  BY <1>0, <1>1, SubSeqProperties
<1> DEFINE a == SubSeq(s, 1, j - 1)
           b == SubSeq(s, j + 1, Len(s))
<1>3. RemoveAt(s, j) = a \o b BY DEF RemoveAt
<1>4. /\ Len(a \o b) = Len(s) - 1
      /\ \A k \in 1..(Len(s) - 1) : (a \o b)[k] = IF k < j THEN a[k] ELSE b[k - (j - 1)]
  <2>1. a \in Seq(S) /\ b \in Seq(S) /\ Len(a) = j - 1 /\ Len(b) = Len(s) - j BY <1>2
  <2> HIDE DEF a, b, S
  <2>2. /\ Len(a \o b) = Len(a) + Len(b)
        /\ \A k \in 1..(Len(a) + Len(b)) :
             (a \o b)[k] = IF k <= Len(a) THEN a[k] ELSE b[k - Len(a)]
    BY <2>1, ConcatProperties
  <2> QED BY <1>0, <2>1, <2>2
<1>5. ASSUME NEW k \in 1..(Len(s) - 1)
      PROVE  (a \o b)[k] = IF k < j THEN s[k] ELSE s[k + 1]
  <2>1. CASE k < j
    <3>1. k \in 1..(j - 1) BY <1>0, <2>1
    <3> QED BY <1>2, <1>4, <2>1, <3>1
  <2>2. CASE ~(k < j)
    <3>1. k - (j - 1) \in 1..(Len(s) - j) /\ j + (k - (j - 1)) = k + 1 BY <1>0, <2>2
    <3> QED BY <1>2, <1>4, <2>2, <3>1
  <2> QED BY <2>1, <2>2
<1> QED BY <1>3, <1>4, <1>5

-----------------------------------------------------------------------------
(* The inductive invariant                                                  *)

\* Every entry is the record append_entry makes, linked to the one before.
Chained ==
  /\ IsSequence(entries)
  /\ \A k \in 1..Len(entries) :
       /\ entries[k] = [id |-> entries[k].id, content |-> entries[k].content,
                        timestamp |-> entries[k].timestamp, prev_hash |-> entries[k].prev_hash,
                        hash |-> entries[k].hash]
       /\ entries[k].id = k
       /\ entries[k].prev_hash = IF k = 1 THEN Genesis ELSE entries[k - 1].hash
       /\ entries[k].hash = compute_entry_hash(entries[k])

\* The inductive invariant: Chained is what AlterationsAreLocated needs of the
\* chain, and the bound on entry_count in TypeOK what RootsCoverPrefixes needs.
IInv == TypeOK /\ Chained /\ RootsCoverPrefixes

\* Hashes of any chain.
HashesOf(es) == [k \in 1..Len(es) |-> es[k].hash]

\* The digests of a chain and of its prefixes.
LEMMA HashesFacts ==
  ASSUME NEW es, IsSequence(es)
  PROVE  /\ IsSequence(HashesOf(es))
         /\ Len(HashesOf(es)) = Len(es)
         /\ \A k \in 1..Len(es) : HashesOf(es)[k] = es[k].hash
         /\ \A m \in 0..Len(es) : SubSeq(HashesOf(es), 1, m) = [k \in 1..m |-> es[k].hash]
<1> DEFINE hashes == HashesOf(es)
<1>0. Len(es) \in Nat BY DEF IsSequence
<1>1. /\ hashes = [k \in 1..Len(es) |-> hashes[k]]
      /\ \A k \in 1..Len(es) : hashes[k] = es[k].hash
  BY DEF HashesOf
<1> HIDE DEF hashes
<1>2. Len(hashes) = Len(es) BY <1>0, <1>1, LenOfFcn
<1>3. IsSequence(hashes) BY <1>0, <1>1, <1>2 DEF IsSequence
<1>4. ASSUME NEW m \in 0..Len(es)
      PROVE  SubSeq(hashes, 1, m) = [k \in 1..m |-> es[k].hash]
  <2>1. SubSeq(hashes, 1, m) = [k \in 1..m |-> hashes[k]] BY <1>2, <1>3, PrefixFacts
  <2>2. \A k \in 1..m : hashes[k] = es[k].hash BY <1>0, <1>1
  <2> QED BY <2>1, <2>2
<1> QED BY <1>1, <1>2, <1>3, <1>4 DEF hashes

\* Hashes is the operator above, for the entries of now and of the next state.
LEMMA HashesAreOfEntries == Hashes = HashesOf(entries) /\ Hashes' = HashesOf(entries')
BY DEF Hashes, HashesOf

\* The worker starts with an empty chain and no roots.
LEMMA InitIInv == Init => IInv
<1> SUFFICES ASSUME Init PROVE IInv OBVIOUS
<1>1. entries = <<>> /\ Len(entries) = 0 BY DEF Init
<1>2. DOMAIN merkle_roots = {} BY DEF Init
<1>3. TypeOK BY AuditChainAssumption, <1>1, <1>2 DEF TypeOK, Init, Days
<1>4. Chained
  <2>1. entries \in Seq({}) BY <1>1
  <2>2. IsSequence(entries) BY <2>1, SeqIsSequence
  <2> QED BY <1>1, <2>2 DEF Chained
<1> QED BY <1>2, <1>3, <1>4 DEF IInv, RootsCoverPrefixes

\* append_entry links the new entry to the last one and leaves the entries
\* under every kept root as they are.
LEMMA AppendKeepsIInv ==
  ASSUME IInv, NEW c \in Contents, append_entry(c) PROVE IInv'
<1> DEFINE n == Len(entries)
           prev == IF entries = <<>> THEN Genesis ELSE Last(entries).hash
           e == [id |-> n + 1, content |-> c, timestamp |-> today, prev_hash |-> prev,
                 hash |-> <<n + 1, Joined(c), c.payload_hash, prev>>]
<1>1. IsSequence(entries) /\ n \in Nat /\ n < MaxEntries
  BY DEF IInv, Chained, IsSequence, append_entry
<1>2. entries' = Append(entries, e) /\ merkle_roots' = merkle_roots /\ today' = today
  BY DEF append_entry, compute_entry_hash
<1>3. prev = IF n + 1 = 1 THEN Genesis ELSE entries[n].hash
  <2>1. CASE n = 0
    <3>1. entries = <<>> BY <1>1, <2>1 DEF IsSequence
    <3> QED BY <2>1, <3>1
  <2>2. CASE n # 0
    <3>1. entries # <<>> BY <2>2
    <3>2. Last(entries) = entries[n] BY DEF Last
    <3> QED BY <1>1, <2>2, <3>1, <3>2
  <2> QED BY <2>1, <2>2
<1> HIDE DEF prev
<1>4. /\ IsSequence(entries') /\ Len(entries') = n + 1
      /\ \A k \in 1..n : entries'[k] = entries[k]
      /\ entries'[n + 1] = e
  <2> HIDE DEF e
  <2> QED BY <1>1, <1>2, AppendFacts
<1>5. TypeOK'
  <2>1. ASSUME NEW k \in 1..(n + 1)
        PROVE  entries'[k].id = k /\ entries'[k].content \in Contents
               /\ entries'[k].timestamp \in 1..today
    <3>1. CASE k = n + 1
      <4>1. today \in 1..today BY AuditChainAssumption DEF IInv, TypeOK, Days
      <4> QED BY <1>4, <3>1, <4>1
    <3>2. CASE k \in 1..n BY <1>4, <3>2 DEF IInv, TypeOK
    <3> QED BY <1>1, <3>1, <3>2
  <2>2. \A d \in DOMAIN merkle_roots : merkle_roots[d].entry_count \in 0..(n + 1)
    BY <1>1 DEF IInv, TypeOK
  <2>3. n + 1 <= MaxEntries BY <1>1, AuditChainAssumption
  <2> HIDE DEF e
  <2> QED BY <1>2, <1>4, <2>1, <2>2, <2>3 DEF IInv, TypeOK
<1>6. Chained'
  <2> SUFFICES ASSUME NEW k \in 1..(n + 1)
               PROVE  LET x == entries'[k] IN
                      /\ x = [id |-> x.id, content |-> x.content, timestamp |-> x.timestamp,
                              prev_hash |-> x.prev_hash, hash |-> x.hash]
                      /\ x.id = k
                      /\ x.prev_hash = IF k = 1 THEN Genesis ELSE entries'[k - 1].hash
                      /\ x.hash = compute_entry_hash(x)
    BY <1>4 DEF Chained, Genesis, compute_entry_hash
  <2>1. CASE k = n + 1
    <3>1. entries'[k] = e BY <1>4, <2>1
    <3>2. e.prev_hash = IF k = 1 THEN Genesis ELSE entries'[k - 1].hash
      <4>1. k # 1 => k - 1 \in 1..n /\ k - 1 = n BY <1>1, <2>1
      <4>2. k # 1 => entries'[k - 1] = entries[n] BY <1>4, <4>1
      <4> QED BY <1>3, <2>1, <4>2
    <3> QED BY <2>1, <3>1, <3>2 DEF compute_entry_hash
  <2>2. CASE k \in 1..n
    <3>1. entries'[k] = entries[k] BY <1>4, <2>2
    <3>2. k # 1 => entries'[k - 1] = entries[k - 1] BY <1>1, <1>4, <2>2
    <3> QED BY <2>2, <3>1, <3>2 DEF IInv, Chained
  <2> QED BY <1>1, <2>1, <2>2
<1>7. RootsCoverPrefixes'
  <2> SUFFICES ASSUME NEW d \in DOMAIN merkle_roots
               PROVE  merkle_roots[d].root_hash =
                        ReferenceRoot(SubSeq(Hashes', 1, merkle_roots[d].entry_count))
    BY <1>2 DEF RootsCoverPrefixes
  <2> DEFINE m == merkle_roots[d].entry_count
  <2>1. m \in 0..n BY DEF IInv, TypeOK
  <2>2. SubSeq(Hashes, 1, m) = [k \in 1..m |-> entries[k].hash]
    BY <1>1, <2>1, HashesFacts, HashesAreOfEntries
  <2>3. SubSeq(Hashes', 1, m) = [k \in 1..m |-> entries'[k].hash]
    <3>1. IsSequence(entries') /\ m \in 0..Len(entries') BY <1>1, <1>4, <2>1
    <3>2. SubSeq(HashesOf(entries'), 1, m) = [k \in 1..m |-> entries'[k].hash]
      BY <3>1, HashesFacts
    <3> QED BY <3>2, HashesAreOfEntries
  <2>4. \A k \in 1..m : entries'[k] = entries[k] BY <1>1, <1>4, <2>1
  <2> QED BY <2>2, <2>3, <2>4 DEF IInv, RootsCoverPrefixes
<1> QED BY <1>5, <1>6, <1>7 DEF IInv

\* get_merkle_root keeps the root of all entries of the moment.
LEMMA RootKeepsIInv ==
  ASSUME IInv, get_merkle_root PROVE IInv'
<1> DEFINE n == Len(entries)
<1>0. IsSequence(entries) /\ n \in Nat /\ today \in Days BY DEF IInv, Chained, IsSequence, TypeOK
<1>1. /\ entries' = entries /\ today' = today
      /\ DOMAIN merkle_roots' = DOMAIN merkle_roots \cup {today}
      /\ merkle_roots'[today] = [root_hash |-> compute_merkle_root(Hashes), entry_count |-> n]
      /\ \A d \in DOMAIN merkle_roots : merkle_roots'[d] = merkle_roots[d]
  BY DEF get_merkle_root
<1>2. TypeOK'
  <2>1. today \in 1..today BY <1>0, AuditChainAssumption DEF Days
  <2>2. merkle_roots'[today].entry_count \in 0..n BY <1>0, <1>1
  <2>3. DOMAIN merkle_roots' \subseteq 1..today BY <1>1, <2>1 DEF IInv, TypeOK
  <2>4. \A d \in DOMAIN merkle_roots' : merkle_roots'[d].entry_count \in 0..n
    BY <1>1, <2>2 DEF IInv, TypeOK
  <2> QED BY <1>1, <2>3, <2>4 DEF IInv, TypeOK
<1>3. Chained' BY <1>1 DEF IInv, Chained, compute_entry_hash, Genesis
<1>4. RootsCoverPrefixes'
  <2>1. Hashes' = Hashes BY <1>1 DEF Hashes
  <2>2. SubSeq(Hashes, 1, n) = Hashes
    BY <1>0, HashesFacts, HashesAreOfEntries DEF Hashes
  <2>3. compute_merkle_root(Hashes) = ReferenceRoot(Hashes)
    BY <1>0, HashesFacts, HashesAreOfEntries, MerkleRootIsReference
  <2>4. merkle_roots'[today].root_hash = ReferenceRoot(SubSeq(Hashes, 1, n))
    <3>1. merkle_roots'[today].root_hash = compute_merkle_root(Hashes) BY <1>1
    <3> HIDE DEF n
    <3> QED BY <2>2, <2>3, <3>1
  <2> QED BY <1>1, <2>1, <2>4 DEF IInv, RootsCoverPrefixes
<1> QED BY <1>2, <1>3, <1>4 DEF IInv

\* Midnight touches neither the chain nor the roots.
LEMMA DayKeepsIInv ==
  ASSUME IInv, DayPasses \/ UNCHANGED vars PROVE IInv'
<1>1. entries' = entries /\ merkle_roots' = merkle_roots /\ today' \in Days
      /\ (today' = today \/ today' = today + 1)
  BY AuditChainAssumption DEF DayPasses, vars, IInv, TypeOK, Days
<1>2. 1..today \subseteq 1..today'
  BY <1>1, AuditChainAssumption DEF IInv, TypeOK, Days
<1>3. Hashes' = Hashes BY <1>1 DEF Hashes
<1> QED BY <1>1, <1>2, <1>3 DEF IInv, TypeOK, Chained, RootsCoverPrefixes, Days,
           compute_entry_hash, Genesis

\* IInv holds in every reachable state.
LEMMA ChainInductive == Spec => []IInv
<1>1. IInv /\ [Next]_vars => IInv'
  BY AppendKeepsIInv, RootKeepsIInv, DayKeepsIInv DEF Next
<1> QED BY <1>1, InitIInv, PTL DEF Spec

-----------------------------------------------------------------------------
(* The properties                                                           *)

\* The loop of verify_chain stops at entry k.
BreaksAt(es, k) ==
  \/ es[k].prev_hash # IF k = 1 THEN Genesis ELSE es[k - 1].hash
  \/ compute_entry_hash(es[k]) # es[k].hash

\* verify_chain refuses a chain at the first entry that breaks it.
LEMMA FirstBreak ==
  ASSUME NEW es, Len(es) \in Nat, NEW k \in 1..Len(es), BreaksAt(es, k),
         \A j \in 1..(k - 1) : ~BreaksAt(es, j)
  PROVE  ~chain_valid(es) /\ BrokenAt(es) = es[k].id
<1> DEFINE B == Breaks(es)
           First(x) == x \in B /\ \A y \in B : x <= y
<1>1. B = {j \in 1..Len(es) : BreaksAt(es, j)} BY DEF Breaks, BreaksAt
<1> HIDE DEF B
<1>2. First(k) BY <1>1
<1>3. \A x : First(x) => x = k BY <1>1
<1>4. Min(B) = CHOOSE x \in B : \A y \in B : x <= y BY DEF Min
<1>5. Min(B) = k BY <1>2, <1>3, <1>4
<1>6. B # {} BY <1>2
<1>7. BrokenAt(es) = es[Min(B)].id BY DEF BrokenAt, B
<1> QED BY <1>5, <1>6, <1>7 DEF chain_valid, B

\* A chain append_entry has built has no break.
LEMMA ChainedIsValid ==
  ASSUME IInv PROVE \A k \in 1..Len(entries) : ~BreaksAt(entries, k)
BY DEF IInv, Chained, BreaksAt

\* A content that the digest tells from the stored one breaks the chain there;
\* any other content, and any timestamp, leaves it valid.
LEMMA AlteredBreaks ==
  ASSUME IInv, NEW k \in 1..Len(entries), NEW c \in Alterations, NEW t \in Days
  PROVE  LET altered == [entries EXCEPT ![k].content = c, ![k].timestamp = t] IN
         IF Distinguished(c, entries[k].content)
         THEN ~chain_valid(altered) /\ BrokenAt(altered) = k
         ELSE chain_valid(altered)
<1> DEFINE altered == [entries EXCEPT ![k].content = c, ![k].timestamp = t]
           x == [entries[k] EXCEPT !.content = c, !.timestamp = t]
<1>0. IsSequence(entries) /\ Len(entries) \in Nat BY DEF IInv, Chained, IsSequence
<1>1. /\ altered = [j \in 1..Len(entries) |-> altered[j]]
      /\ altered[k] = x
      /\ \A j \in 1..Len(entries) : j # k => altered[j] = entries[j]
  BY <1>0 DEF IsSequence
<1>2. /\ entries[k] = [id |-> entries[k].id, content |-> entries[k].content,
                        timestamp |-> entries[k].timestamp,
                        prev_hash |-> entries[k].prev_hash, hash |-> entries[k].hash]
      /\ entries[k].id = k
      /\ entries[k].hash = <<entries[k].id, Joined(entries[k].content),
                             entries[k].content.payload_hash, entries[k].prev_hash>>
  BY DEF IInv, Chained, compute_entry_hash
<1>3. /\ x.id = entries[k].id /\ x.content = c /\ x.prev_hash = entries[k].prev_hash
      /\ x.hash = entries[k].hash
  BY <1>2
<1> HIDE DEF altered, x
<1>4. Len(altered) = Len(entries) BY <1>0, <1>1, LenOfFcn
<1>5. compute_entry_hash(x) # x.hash <=> Distinguished(c, entries[k].content)
  <2>1. compute_entry_hash(x) = <<x.id, Joined(c), c.payload_hash, x.prev_hash>>
    BY <1>3 DEF compute_entry_hash
  <2>2. x.hash = <<x.id, Joined(entries[k].content),
                   entries[k].content.payload_hash, x.prev_hash>>
    BY <1>2, <1>3
  <2> QED BY <2>1, <2>2 DEF Distinguished
<1>6. \A j \in 1..Len(entries) : altered[j].hash = entries[j].hash BY <1>1, <1>3
<1>7. ASSUME NEW j \in 1..Len(entries), j # k PROVE ~BreaksAt(altered, j)
  <2>1. j # 1 => j - 1 \in 1..Len(entries) BY <1>0
  <2>2. altered[j] = entries[j] BY <1>1, <1>7
  <2>3. j # 1 => altered[j - 1].hash = entries[j - 1].hash BY <1>6, <2>1
  <2>4. ~BreaksAt(entries, j) BY ChainedIsValid
  <2> QED BY <2>2, <2>3, <2>4 DEF BreaksAt
<1>8. BreaksAt(altered, k) <=> Distinguished(c, entries[k].content)
  <2>1. k # 1 => k - 1 \in 1..Len(entries) BY <1>0
  <2>2. k # 1 => altered[k - 1].hash = entries[k - 1].hash BY <1>6, <2>1
  <2>3. ~BreaksAt(entries, k) BY ChainedIsValid
  <2>4. altered[k].prev_hash = entries[k].prev_hash BY <1>1, <1>3
  <2> QED BY <1>1, <1>5, <2>2, <2>3, <2>4 DEF BreaksAt
<1>9. CASE Distinguished(c, entries[k].content)
  <2>1. \A j \in 1..(k - 1) : j \in 1..Len(entries) /\ j # k BY <1>0
  <2>2. \A j \in 1..(k - 1) : ~BreaksAt(altered, j) BY <1>7, <2>1
  <2>3. ~chain_valid(altered) /\ BrokenAt(altered) = altered[k].id
    BY <1>0, <1>4, <1>8, <1>9, <2>2, FirstBreak
  <2>4. altered[k].id = k BY <1>1, <1>2, <1>3
  <2> QED BY <1>9, <2>3, <2>4 DEF altered
<1>10. CASE ~Distinguished(c, entries[k].content)
  <2>1. \A j \in 1..Len(altered) : ~BreaksAt(altered, j) BY <1>4, <1>7, <1>8, <1>10
  <2>2. chain_valid(altered) BY <2>1 DEF chain_valid, Breaks, BreaksAt
  <2> QED BY <1>10, <2>2 DEF altered
<1> QED BY <1>9, <1>10

\* Where an entry is missing the next one's link breaks the chain.
LEMMA ShorterBreaks ==
  ASSUME IInv, NEW k \in 1..Len(entries), k < Len(entries)
  PROVE  LET shorter == RemoveAt(entries, k) IN
         ~chain_valid(shorter) /\ BrokenAt(shorter) = k + 1
<1> DEFINE shorter == RemoveAt(entries, k)
           n == Len(entries)
<1>0. IsSequence(entries) /\ n \in Nat BY DEF IInv, Chained, IsSequence
<1>1. Len(shorter) = n - 1
      /\ \A j \in 1..(n - 1) : shorter[j] = IF j < k THEN entries[j] ELSE entries[j + 1]
  BY <1>0, RemoveFacts
<1> HIDE DEF shorter
<1>2. k \in 1..(n - 1) /\ k + 1 \in 1..n BY <1>0
<1>3. BreaksAt(shorter, k)
  <2>1. shorter[k] = entries[k + 1] BY <1>1, <1>2
  <2>2. shorter[k].prev_hash = entries[k].hash
    <3>1. (k + 1) - 1 = k /\ k + 1 # 1 BY <1>0
    <3> QED BY <1>2, <2>1, <3>1 DEF IInv, Chained
  <2>3. entries[k].hash = <<k, Joined(entries[k].content),
                            entries[k].content.payload_hash, entries[k].prev_hash>>
    BY DEF IInv, Chained, compute_entry_hash
  <2>4. CASE k = 1
    <3>1. entries[k].hash # Genesis BY <2>3 DEF Genesis
    <3> QED BY <2>2, <2>4, <3>1 DEF BreaksAt
  <2>5. CASE k # 1
    <3>1. k - 1 \in 1..(n - 1) /\ k - 1 \in 1..n /\ k - 1 < k BY <1>0, <1>2, <2>5
    <3>2. shorter[k - 1] = entries[k - 1] BY <1>1, <3>1
    <3>3. entries[k - 1].hash = <<k - 1, Joined(entries[k - 1].content),
                                  entries[k - 1].content.payload_hash,
                                  entries[k - 1].prev_hash>>
      BY <3>1 DEF IInv, Chained, compute_entry_hash
    <3>4. entries[k - 1].hash # entries[k].hash BY <2>3, <3>1, <3>3
    <3> QED BY <2>2, <2>5, <3>2, <3>4 DEF BreaksAt
  <2> QED BY <2>4, <2>5
<1>4. ASSUME NEW j \in 1..(k - 1) PROVE ~BreaksAt(shorter, j)
  <2>1. j \in 1..n /\ j \in 1..(n - 1) /\ j < k
        /\ (j # 1 => j - 1 \in 1..(n - 1) /\ j - 1 < k)
    BY <1>0, <1>2
  <2>2. shorter[j] = entries[j] /\ (j # 1 => shorter[j - 1] = entries[j - 1]) BY <1>1, <2>1
  <2>3. ~BreaksAt(entries, j) BY <2>1, ChainedIsValid
  <2> QED BY <2>2, <2>3 DEF BreaksAt
<1>5. ~chain_valid(shorter) /\ BrokenAt(shorter) = k + 1
  <2>1. Len(shorter) \in Nat /\ k \in 1..Len(shorter) BY <1>0, <1>1, <1>2
  <2>2. shorter[k].id = k + 1
    <3>1. shorter[k] = entries[k + 1] BY <1>1, <1>2
    <3> QED BY <1>2, <3>1 DEF IInv, Chained
  <2>3. ~chain_valid(shorter) /\ BrokenAt(shorter) = shorter[k].id
    BY <1>3, <1>4, <2>1, FirstBreak
  <2> QED BY <2>2, <2>3
<1> QED BY <1>5 DEF shorter

\* The entries are numbered and dated, and every kept root is of some day so
\* far and of no more entries than there are.
THEOREM ChainTyping == Spec => []TypeOK
<1>1. IInv => TypeOK BY DEF IInv
<1> QED BY <1>1, ChainInductive, PTL

\* A chain of any length is accepted by verify_chain; one altered content is
\* located exactly when the joined string or the payload digest differs, and a
\* missing entry that is not the last by the one behind it.
THEOREM ChainLocatesAlterations == Spec => []AlterationsAreLocated
<1>1. IInv => AlterationsAreLocated
  <2> SUFFICES ASSUME IInv PROVE AlterationsAreLocated OBVIOUS
  <2>1. chain_valid(entries) BY ChainedIsValid DEF chain_valid, Breaks, BreaksAt
  <2> QED BY <2>1, AlteredBreaks, ShorterBreaks DEF AlterationsAreLocated
<1> QED BY <1>1, ChainInductive, PTL

\* The root of a day stays, for ever, the root of the entries it counts, and
\* it is the one the reference definition of the tree describes.
THEOREM ChainKeepsRoots == Spec => []RootsCoverPrefixes
<1>1. IInv => RootsCoverPrefixes BY DEF IInv
<1> QED BY <1>1, ChainInductive, PTL

\* For a chain of any length get_proof answers verified for every entry, and
\* no proof it makes verifies another entry.
THEOREM ChainProofsVerify == Spec => []ProofsVerify
<1>1. IInv => ProofsVerify
  <2> SUFFICES ASSUME IInv, NEW k \in 1..Len(entries)
               PROVE  /\ verified(k)
                      /\ \A j \in 1..Len(entries) \ {k} :
                           RootFromProof(Hashes[j], compute_merkle_proof(Hashes, k - 1))
                             # compute_merkle_root(Hashes)
    BY DEF ProofsVerify
  <2>1. IsSequence(entries) /\ Len(entries) \in Nat BY DEF IInv, Chained, IsSequence
  <2>2. /\ IsSequence(Hashes) /\ Len(Hashes) = Len(entries)
        /\ \A j \in 1..Len(entries) : Hashes[j] = entries[j].hash
    BY <2>1, HashesFacts, HashesAreOfEntries
  <2>3. k - 1 \in Nat /\ k - 1 < Len(Hashes) /\ (k - 1) + 1 = k BY <2>1, <2>2
  <2> HIDE DEF Hashes
  <2>4. RootFromProof(Hashes[k], compute_merkle_proof(Hashes, k - 1))
          = compute_merkle_root(Hashes)
    BY <2>2, <2>3, MerkleProofVerifies
  <2>5. Len(compute_merkle_proof(Hashes, k - 1)) \in Nat
    <3>1. Hashes # <<>> BY <2>2, <2>3
    <3> QED BY <2>2, <2>3, <3>1, ProofOfHeight, TopLevel
  <2>6. ASSUME NEW j \in 1..Len(entries) \ {k}
        PROVE  RootFromProof(Hashes[j], compute_merkle_proof(Hashes, k - 1))
                 # compute_merkle_root(Hashes)
    <3>1. Hashes[j] # Hashes[k]
      <4>1. Hashes[j] = entries[j].hash /\ Hashes[k] = entries[k].hash BY <2>2
      <4>2. \A i \in {j, k} :
              entries[i].hash = <<i, Joined(entries[i].content),
                                  entries[i].content.payload_hash, entries[i].prev_hash>>
        BY DEF IInv, Chained, compute_entry_hash
      <4> QED BY <4>1, <4>2
    <3> QED BY <2>4, <2>5, <3>1, ProofFitsOneLeaf
  <2> QED BY <2>4, <2>6 DEF verified
<1> QED BY <1>1, ChainInductive, PTL
=============================================================================

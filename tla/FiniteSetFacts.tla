------------------------------ MODULE FiniteSetFacts ------------------------------
(***************************************************************************)
(* Facts about finite sets the proofs of this project share: a smallest    *)
(* subset and a highest element, what a sum over a set is, whatever the    *)
(* order in which MapThenSumSet takes the elements, and what a fold of     *)
(* MapThenFoldSet returns, for FoldLeft prefix by prefix.                  *)
(***************************************************************************)
EXTENDS Integers, FiniteSets, Functions, FiniteSetTheorems, WellFoundedInduction, TLAPS

(* Any subsets of a finite set have a smallest one among them: this stands in for induction *)
(* on finite sets, of which the sums below are the main use.                                *)
LEMMA SmallestSubset ==
  ASSUME NEW S, IsFiniteSet(S), NEW B, B \subseteq SUBSET S, B # {}
  PROVE  \E A \in B : \A C \in B : C \subseteq A => C = A
<1>1. IsWellFoundedOn(StrictSubsetOrdering(S), SUBSET S)
  BY FS_StrictSubsetOrderingWellFounded, FS_FiniteSubsetsOfFinite
<1>2. PICK A \in B : \A C \in B : ~(<<C, A>> \in StrictSubsetOrdering(S))
  BY <1>1, WFMin
<1>3. ASSUME NEW C \in B, C \subseteq A, C # A PROVE FALSE
  BY <1>2, <1>3 DEF StrictSubsetOrdering
<1> QED  BY <1>2, <1>3

(* Of the elements of a finite set one has the highest rank. *)
LEMMA HighestOf ==
  ASSUME NEW D, IsFiniteSet(D), D # {}, NEW rank \in [D -> Nat]
  PROVE  \E t \in D : \A u \in D : rank[u] <= rank[t]
<1> DEFINE Above(t) == {u \in D : rank[u] > rank[t]}
           B == {Above(t) : t \in D}
<1>1. PICK A \in B : \A C \in B : C \subseteq A => C = A
  <2>1. B \subseteq SUBSET D
    OBVIOUS
  <2>2. PICK d \in D : TRUE
    OBVIOUS
  <2>3. Above(d) \in B
    OBVIOUS
  <2> HIDE DEF B
  <2> QED  BY <2>1, <2>3, SmallestSubset
<1>2. PICK t \in D : A = Above(t)
  OBVIOUS
<1>3. ASSUME NEW u \in D, rank[u] > rank[t] PROVE FALSE
  <2>1. u \in Above(t) /\ u \notin Above(u)
    BY <1>3
  <2>2. Above(u) \subseteq Above(t)
    BY <1>3
  <2>3. Above(u) \in B
    OBVIOUS
  <2> HIDE DEF Above, B
  <2> QED  BY <1>1, <1>2, <2>1, <2>2, <2>3
<1> QED  BY <1>3

(* A finite union of finite sets, one for each element of a set. *)
LEMMA FiniteUnionOf ==
  ASSUME NEW S, IsFiniteSet(S), NEW f, \A x \in S : IsFiniteSet(f[x])
  PROVE  IsFiniteSet(UNION {f[x] : x \in S})
<1> DEFINE T == {f[x] : x \in S}
           g == [x \in S |-> f[x]]
<1>1. g \in Surjection(S, T)
  BY DEF Surjection
<1>2. IsFiniteSet(T)
  <2> HIDE DEF T, g
  <2> QED  BY <1>1, FS_Surjection
<1> QED  BY <1>2, FS_UNION

--------------------------------------------------------------------------------
(* Sums over finite sets *)

(* MapThenSumSet takes the elements of a set in the order CHOOSE gives them: a table of the *)
(* sums of all the subsets says what it returns, and that the order does not matter.        *)
Pick(A) == CHOOSE x \in A : TRUE

SumTable(g, f, S) ==
  g = [A \in SUBSET S |-> IF A = {} THEN 0 ELSE f[Pick(A)] + g[A \ {Pick(A)}]]

LEMMA PickIn ==
  ASSUME NEW A, A # {}
  PROVE  Pick(A) \in A
BY DEF Pick

(* Two tables agree on a set both of them have. *)
LEMMA TablesAgree ==
  ASSUME NEW S, IsFiniteSet(S), NEW T, NEW f, NEW g, NEW h, SumTable(g, f, S), SumTable(h, f, T),
         NEW A, A \subseteq S, A \subseteq T
  PROVE  g[A] = h[A]
<1> DEFINE B == {X \in SUBSET S : X \subseteq T /\ g[X] # h[X]}
<1> SUFFICES ASSUME B # {} PROVE FALSE
  OBVIOUS
<1>1. PICK X \in B : \A C \in B : C \subseteq X => C = X
  <2>1. B \subseteq SUBSET S
    OBVIOUS
  <2> HIDE DEF B
  <2> QED  BY <2>1, SmallestSubset
<1>2. \A C \in SUBSET S : g[C] = IF C = {} THEN 0 ELSE f[Pick(C)] + g[C \ {Pick(C)}]
  BY DEF SumTable
<1>3. \A C \in SUBSET T : h[C] = IF C = {} THEN 0 ELSE f[Pick(C)] + h[C \ {Pick(C)}]
  BY DEF SumTable
<1>4. X # {}
  BY <1>2, <1>3
<1>5. Pick(X) \in X
  BY <1>4, PickIn
<1>6. X \ {Pick(X)} \notin B
  BY <1>1, <1>5
<1>7. g[X \ {Pick(X)}] = h[X \ {Pick(X)}]
  BY <1>6
<1> QED  BY <1>2, <1>3, <1>4, <1>7

(* Every finite set has a table. *)
LEMMA TableExists ==
  ASSUME NEW S, IsFiniteSet(S), NEW f
  PROVE  \E g : SumTable(g, f, S)
<1> DEFINE B == {X \in SUBSET S : ~\E g : SumTable(g, f, X)}
<1> SUFFICES ASSUME B # {} PROVE FALSE
  OBVIOUS
<1>1. PICK X \in B : \A C \in B : C \subseteq X => C = X
  <2>1. B \subseteq SUBSET S
    OBVIOUS
  <2> HIDE DEF B
  <2> QED  BY <2>1, SmallestSubset
<1> DEFINE tab(C) == CHOOSE g : SumTable(g, f, C)
           G == [C \in SUBSET X |-> IF C = {} THEN 0
                                    ELSE f[Pick(C)] + tab(C \ {Pick(C)})[C \ {Pick(C)}]]
<1>2. ASSUME NEW C \in SUBSET X, C # X PROVE SumTable(tab(C), f, C)
  <2>1. \E g : SumTable(g, f, C)
    BY <1>1, <1>2
  <2> QED  BY <2>1
<1>3. ASSUME NEW C \in SUBSET X, C # X PROVE G[C] = tab(C)[C]
  <2>1. SumTable(tab(C), f, C)
    BY <1>2, <1>3
  <2>2. tab(C)[C] = IF C = {} THEN 0 ELSE f[Pick(C)] + tab(C)[C \ {Pick(C)}]
    BY <2>1 DEF SumTable
  <2>3. CASE C # {}
    <3>1. Pick(C) \in C
      BY <2>3, PickIn
    <3>2. SumTable(tab(C \ {Pick(C)}), f, C \ {Pick(C)})
      BY <1>2, <1>3, <3>1
    <3>3. IsFiniteSet(C)
      BY <1>1, FS_Subset
    <3>4. tab(C)[C \ {Pick(C)}] = tab(C \ {Pick(C)})[C \ {Pick(C)}]
      <4> HIDE DEF tab
      <4> QED BY <2>1, <3>2, <3>3, TablesAgree
    <3> QED  BY <2>2, <2>3, <3>4
  <2>4. CASE C = {}
    BY <2>2, <2>4
  <2> QED  BY <2>3, <2>4
<1>4. SumTable(G, f, X)
  <2>1. ASSUME NEW C \in SUBSET X, C # {} PROVE G[C] = f[Pick(C)] + G[C \ {Pick(C)}]
    <3>1. Pick(C) \in C
      BY <2>1, PickIn
    <3>2. C \ {Pick(C)} \in SUBSET X /\ C \ {Pick(C)} # X
      BY <3>1
    <3>3. G[C \ {Pick(C)}] = tab(C \ {Pick(C)})[C \ {Pick(C)}]
      <4> HIDE DEF tab, G
      <4> QED BY <1>3, <3>2
    <3>4. G[C] = f[Pick(C)] + tab(C \ {Pick(C)})[C \ {Pick(C)}]
      <4> HIDE DEF tab
      <4> QED BY <2>1
    <3> QED  BY <3>3, <3>4
  <2>2. G[{}] = 0
    OBVIOUS
  <2>3. G = [C \in SUBSET X |-> G[C]]
    OBVIOUS
  <2> HIDE DEF G
  <2>4. \A C \in SUBSET X : G[C] = IF C = {} THEN 0 ELSE f[Pick(C)] + G[C \ {Pick(C)}]
    BY <2>1, <2>2
  <2> QED  BY <2>3, <2>4 DEF SumTable
<1> QED  BY <1>1, <1>4

Adds(g, f, S) ==
  /\ g \in [SUBSET S -> Nat]
  /\ g[{}] = 0
  /\ \A A \in SUBSET S : \A x \in A : g[A] = f[x] + g[A \ {x}]

(* Taking any element away takes its amount away. *)
LEMMA TableAdds ==
  ASSUME NEW S, IsFiniteSet(S), NEW f \in [S -> Nat], NEW g, SumTable(g, f, S)
  PROVE  Adds(g, f, S)
<1>1. /\ g = [A \in SUBSET S |-> g[A]]
      /\ \A A \in SUBSET S : g[A] = IF A = {} THEN 0 ELSE f[Pick(A)] + g[A \ {Pick(A)}]
  BY DEF SumTable
<1>0. g[{}] = 0
  BY <1>1
<1>2. \A A \in SUBSET S : g[A] \in Nat
  <2> DEFINE B == {A \in SUBSET S : g[A] \notin Nat}
  <2> SUFFICES ASSUME B # {} PROVE FALSE
    OBVIOUS
  <2>1. PICK A \in B : \A C \in B : C \subseteq A => C = A
    <3>1. B \subseteq SUBSET S
      OBVIOUS
    <3> HIDE DEF B
    <3> QED  BY <3>1, SmallestSubset
  <2>2. A # {} /\ A \in SUBSET S /\ g[A] \notin Nat
    BY <1>0
  <2>3. Pick(A) \in A
    BY <2>2, PickIn
  <2>4. g[A \ {Pick(A)}] \in Nat
    BY <2>1, <2>3
  <2>5. f[Pick(A)] \in Nat
    BY <2>3
  <2> HIDE DEF B
  <2>6. g[A] = f[Pick(A)] + g[A \ {Pick(A)}]
    BY <1>1, <2>2
  <2> QED  BY <2>2, <2>4, <2>5, <2>6
<1>3. \A A \in SUBSET S : \A x \in A : g[A] = f[x] + g[A \ {x}]
  <2> DEFINE B == {A \in SUBSET S : \E x \in A : g[A] # f[x] + g[A \ {x}]}
  <2> SUFFICES ASSUME B # {} PROVE FALSE
    OBVIOUS
  <2>1. PICK A \in B : \A C \in B : C \subseteq A => C = A
    <3>1. B \subseteq SUBSET S
      OBVIOUS
    <3> HIDE DEF B
    <3> QED  BY <3>1, SmallestSubset
  <2>2. PICK x \in A : g[A] # f[x] + g[A \ {x}]
    OBVIOUS
  <2> DEFINE y == Pick(A)
  <2>3. y \in A /\ g[A] = f[y] + g[A \ {y}]
    BY <1>1, <2>2, PickIn
  <2> HIDE DEF y
  <2>4. x # y
    BY <2>2, <2>3
  <2>5. g[A \ {y}] = f[x] + g[(A \ {y}) \ {x}]
    <3>1. A \ {y} \in SUBSET S /\ A \ {y} \notin B /\ x \in A \ {y}
      BY <2>1, <2>3, <2>4
    <3> QED  BY <3>1
  <2>6. g[A \ {x}] = f[y] + g[(A \ {x}) \ {y}]
    <3>1. A \ {x} \in SUBSET S /\ A \ {x} \notin B /\ y \in A \ {x}
      BY <2>1, <2>2, <2>3, <2>4
    <3> QED  BY <3>1
  <2>7. (A \ {y}) \ {x} = (A \ {x}) \ {y}
    OBVIOUS
  <2>8. f[x] \in Nat /\ f[y] \in Nat /\ g[(A \ {x}) \ {y}] \in Nat
    BY <1>2, <2>2, <2>3
  <2> DEFINE d == g[(A \ {x}) \ {y}]
  <2>9. g[A \ {y}] = f[x] + d
    BY <2>5, <2>7
  <2> HIDE DEF B, d
  <2>10. g[A] = f[y] + (f[x] + d)
    BY <2>3, <2>9
  <2>11. g[A \ {x}] = f[y] + d
    BY <2>6 DEF d
  <2>12. f[x] \in Nat /\ f[y] \in Nat /\ d \in Nat
    BY <2>8 DEF d
  <2> QED  BY <2>2, <2>10, <2>11, <2>12
<1> QED  BY <1>0, <1>1, <1>2, <1>3 DEF Adds

(* The sum over a set of amounts that a set of pairs repeats is at most that of the pairs. *)
LEMMA TableBelow ==
  ASSUME NEW S, IsFiniteSet(S), NEW f \in [S -> Nat], NEW g, SumTable(g, f, S),
         NEW P, IsFiniteSet(P), NEW f2 \in [P -> Nat], NEW g2, SumTable(g2, f2, P),
         NEW A \in SUBSET S, \A x \in A : <<x, f[x]>> \in P /\ f2[<<x, f[x]>>] = f[x]
  PROVE  g[A] <= g2[P]
<1>1. /\ g \in [SUBSET S -> Nat] /\ g[{}] = 0
      /\ \A C \in SUBSET S : \A x \in C : g[C] = f[x] + g[C \ {x}]
  <2>1. Adds(g, f, S)
    BY TableAdds
  <2> QED  BY <2>1 DEF Adds
<1>2. /\ g2 \in [SUBSET P -> Nat] /\ g2[{}] = 0
      /\ \A C \in SUBSET P : \A x \in C : g2[C] = f2[x] + g2[C \ {x}]
  <2>1. Adds(g2, f2, P)
    BY TableAdds
  <2> QED  BY <2>1 DEF Adds
(* Of what is left of the pairs once those of X are taken away. *)
<1> DEFINE Left(C) == {p \in P : \A x \in C : p # <<x, f[x]>>}
           B == {C \in SUBSET S : C \subseteq A /\ ~(g[C] + g2[Left(C)] <= g2[P])}
<1>3. ASSUME B # {} PROVE FALSE
  <2>1. PICK C \in B : \A D \in B : D \subseteq C => D = C
    <3>1. B \subseteq SUBSET S
      OBVIOUS
    <3> HIDE DEF B
    <3> QED  BY <1>3, <3>1, SmallestSubset
  <2>2. C # {}
    <3>1. Left({}) = P /\ P \in SUBSET P
      OBVIOUS
    <3>2. g2[P] \in Nat
      BY <1>2
    <3>3. ~(g[C] + g2[Left(C)] <= g2[P])
      OBVIOUS
    <3> SUFFICES ASSUME C = {} PROVE FALSE
      OBVIOUS
    <3>4. g[C] = 0 /\ g2[Left(C)] = g2[P]
      BY <1>1, <3>1
    <3> HIDE DEF B, Left
    <3> QED  BY <3>2, <3>3, <3>4
  <2>3. PICK x \in C : TRUE
    BY <2>2
  <2>4. g[C \ {x}] + g2[Left(C \ {x})] <= g2[P]
    <3>1. C \ {x} \in SUBSET S /\ C \ {x} \subseteq A /\ C \ {x} \notin B
      BY <2>1, <2>3
    <3> QED  BY <3>1
  <2>5. g[C] = f[x] + g[C \ {x}]
    BY <1>1, <2>3
  <2>6. g2[Left(C \ {x})] = f[x] + g2[Left(C)]
    <3>1. <<x, f[x]>> \in Left(C \ {x}) /\ f2[<<x, f[x]>>] = f[x]
      BY <2>3
    <3>2. Left(C \ {x}) \ {<<x, f[x]>>} = Left(C)
      BY <2>3
    <3>3. Left(C \ {x}) \in SUBSET P
      OBVIOUS
    <3> HIDE DEF Left, B
    <3> QED  BY <1>2, <3>1, <3>2, <3>3
  <2>7. f[x] \in Nat /\ g[C \ {x}] \in Nat /\ g2[Left(C)] \in Nat
    BY <1>1, <1>2, <2>3
  <2> QED  BY <2>1, <2>4, <2>5, <2>6, <2>7
<1>4. g[A] + g2[Left(A)] <= g2[P]
  BY <1>3
<1>5. g[A] \in Nat /\ g2[Left(A)] \in Nat /\ g2[P] \in Nat
  BY <1>1, <1>2
<1> QED  BY <1>4, <1>5

--------------------------------------------------------------------------------
(* Folds over finite sets *)

(* What MapThenFoldSet computes of every subset of S: the step takes what the set without *)
(* its picked element folds to, and that element.                                          *)
FoldTable(g, base, step, pick, S) ==
  g = [A \in SUBSET S |-> IF A = {} THEN base ELSE step[<<g[A \ {pick[A]}], pick[A]>>]]

PicksFrom(pick, S) == \A A \in SUBSET S : A # {} => pick[A] \in A

(* Two tables agree on a set both of them have. *)
LEMMA FoldsAgree ==
  ASSUME NEW S, IsFiniteSet(S), NEW T, NEW base, NEW step, NEW pick, PicksFrom(pick, S),
         NEW g, NEW h, FoldTable(g, base, step, pick, S), FoldTable(h, base, step, pick, T),
         NEW A, A \subseteq S, A \subseteq T
  PROVE  g[A] = h[A]
<1> DEFINE B == {X \in SUBSET S : X \subseteq T /\ g[X] # h[X]}
<1> SUFFICES ASSUME B # {} PROVE FALSE
  OBVIOUS
<1>1. PICK X \in B : \A C \in B : C \subseteq X => C = X
  <2>1. B \subseteq SUBSET S
    OBVIOUS
  <2> HIDE DEF B
  <2> QED  BY <2>1, SmallestSubset
<1>2. \A C \in SUBSET S : g[C] = IF C = {} THEN base ELSE step[<<g[C \ {pick[C]}], pick[C]>>]
  BY DEF FoldTable
<1>3. \A C \in SUBSET T : h[C] = IF C = {} THEN base ELSE step[<<h[C \ {pick[C]}], pick[C]>>]
  BY DEF FoldTable
<1>4. X # {}
  BY <1>2, <1>3
<1>5. pick[X] \in X
  BY <1>4 DEF PicksFrom
<1>6. X \ {pick[X]} \notin B
  BY <1>1, <1>5
<1>7. g[X \ {pick[X]}] = h[X \ {pick[X]}]
  BY <1>6
<1> QED  BY <1>2, <1>3, <1>4, <1>7

(* Every finite set has a table. *)
LEMMA FoldTableExists ==
  ASSUME NEW S, IsFiniteSet(S), NEW base, NEW step, NEW pick, PicksFrom(pick, S)
  PROVE  \E g : FoldTable(g, base, step, pick, S)
<1> DEFINE B == {X \in SUBSET S : ~\E g : FoldTable(g, base, step, pick, X)}
<1> SUFFICES ASSUME B # {} PROVE FALSE
  OBVIOUS
<1>1. PICK X \in B : \A C \in B : C \subseteq X => C = X
  <2>1. B \subseteq SUBSET S
    OBVIOUS
  <2> HIDE DEF B
  <2> QED  BY <2>1, SmallestSubset
<1> DEFINE tab(C) == CHOOSE g : FoldTable(g, base, step, pick, C)
           rest(C) == C \ {pick[C]}
           G == [C \in SUBSET X |-> IF C = {} THEN base
                                    ELSE step[<<tab(rest(C))[rest(C)], pick[C]>>]]
<1>2. ASSUME NEW C \in SUBSET X, C # X PROVE FoldTable(tab(C), base, step, pick, C)
  <2>1. \E g : FoldTable(g, base, step, pick, C)
    BY <1>1, <1>2
  <2> QED  BY <2>1
<1>3. ASSUME NEW C \in SUBSET X, C # X PROVE G[C] = tab(C)[C]
  <2>1. FoldTable(tab(C), base, step, pick, C)
    BY <1>2, <1>3
  <2>2. tab(C)[C] = IF C = {} THEN base ELSE step[<<tab(C)[rest(C)], pick[C]>>]
    BY <2>1 DEF FoldTable
  <2>3. CASE C # {}
    <3>1. pick[C] \in C
      BY <2>3 DEF PicksFrom
    <3>2. FoldTable(tab(rest(C)), base, step, pick, rest(C))
      BY <1>2, <1>3, <3>1
    <3>3. IsFiniteSet(C) /\ PicksFrom(pick, C)
      BY <1>1, FS_Subset DEF PicksFrom
    <3>4. tab(C)[rest(C)] = tab(rest(C))[rest(C)]
      <4>1. rest(C) \subseteq C
        OBVIOUS
      <4> HIDE DEF tab, rest
      <4> QED BY <2>1, <3>2, <3>3, <4>1, FoldsAgree
    <3> QED  BY <2>2, <2>3, <3>4
  <2>4. CASE C = {}
    BY <2>2, <2>4
  <2> QED  BY <2>3, <2>4
<1>4. FoldTable(G, base, step, pick, X)
  <2>1. ASSUME NEW C \in SUBSET X, C # {} PROVE G[C] = step[<<G[rest(C)], pick[C]>>]
    <3>1. pick[C] \in C
      BY <2>1 DEF PicksFrom
    <3>2. rest(C) \in SUBSET X /\ rest(C) # X
      BY <3>1
    <3>3. G[rest(C)] = tab(rest(C))[rest(C)]
      <4> HIDE DEF tab, G, rest
      <4> QED BY <1>3, <3>2
    <3>4. G[C] = step[<<tab(rest(C))[rest(C)], pick[C]>>]
      <4> HIDE DEF tab, rest
      <4> QED BY <2>1
    <3> QED  BY <3>3, <3>4
  <2>2. G[{}] = base
    OBVIOUS
  <2>3. G = [C \in SUBSET X |-> G[C]]
    OBVIOUS
  <2> HIDE DEF G
  <2>4. \A C \in SUBSET X : G[C] = IF C = {} THEN base ELSE step[<<G[C \ {pick[C]}], pick[C]>>]
    BY <2>1, <2>2
  <2> QED  BY <2>3, <2>4 DEF FoldTable
<1> QED  BY <1>1, <1>4

(* A fold stays in a set its steps stay in. *)
LEMMA FoldStaysIn ==
  ASSUME NEW S, IsFiniteSet(S), NEW pick, PicksFrom(pick, S), NEW V, NEW g, g[{}] \in V,
         \A A \in SUBSET S : A # {} /\ g[A \ {pick[A]}] \in V => g[A] \in V
  PROVE  \A A \in SUBSET S : g[A] \in V
<1> DEFINE B == {A \in SUBSET S : g[A] \notin V}
<1> SUFFICES ASSUME B # {} PROVE FALSE
  OBVIOUS
<1>1. PICK A \in B : \A C \in B : C \subseteq A => C = A
  <2>1. B \subseteq SUBSET S
    OBVIOUS
  <2> HIDE DEF B
  <2> QED  BY <2>1, SmallestSubset
<1>2. A # {}
  OBVIOUS
<1>3. pick[A] \in A
  BY <1>2 DEF PicksFrom
<1>4. g[A \ {pick[A]}] \in V
  BY <1>1, <1>3
<1> QED  BY <1>2, <1>4

(* What holds of 0 and of the successor of every number up to n it holds of. *)
LEMMA UpTo ==
  ASSUME NEW n \in Nat, NEW B, 0 \in B, \A k \in 1 .. n : k - 1 \in B => k \in B
  PROVE  0 .. n \subseteq B
<1> DEFINE M == {1 .. k : k \in (0 .. n) \ B}
<1> SUFFICES ASSUME M # {} PROVE FALSE
  OBVIOUS
<1>1. PICK A \in M : \A C \in M : C \subseteq A => C = A
  <2>1. IsFiniteSet(1 .. n)
    <3>1. 1 \in Int /\ n \in Int
      OBVIOUS
    <3> QED  BY <3>1, FS_Interval
  <2>2. M \subseteq SUBSET (1 .. n)
    <3>1. ASSUME NEW k \in 0 .. n PROVE 1 .. k \subseteq 1 .. n
      OBVIOUS
    <3> QED  BY <3>1
  <2> DEFINE N == 1 .. n
  <2>3. IsFiniteSet(N) /\ M \subseteq SUBSET N
    BY <2>1, <2>2
  <2> HIDE DEF M, N
  <2> QED  BY <2>3, SmallestSubset
<1>2. PICK k \in (0 .. n) \ B : A = 1 .. k
  OBVIOUS
<1>3. k \in 1 .. n /\ k - 1 \in (0 .. n) \ B
  OBVIOUS
<1>4. 1 .. (k - 1) \in M /\ 1 .. (k - 1) \subseteq A /\ k \in A /\ k \notin 1 .. (k - 1)
  BY <1>2, <1>3
<1> QED  BY <1>1, <1>4

(* FoldLeft takes the last position away first. *)
Topmost == [A \in SUBSET Nat |-> CHOOSE x \in A : \A y \in A : x >= y]

LEMMA TopmostOf ==
  ASSUME NEW n \in Nat
  PROVE  /\ IsFiniteSet(1 .. n)
         /\ PicksFrom(Topmost, 1 .. n)
         /\ \A k \in 1 .. n : Topmost[1 .. k] = k
<1>1. IsFiniteSet(1 .. n)
  <2>1. 1 \in Int /\ n \in Int
    OBVIOUS
  <2> QED  BY <2>1, FS_Interval
<1>2. ASSUME NEW A \in SUBSET (1 .. n), A # {} PROVE Topmost[A] \in A
  <2>1. IsFiniteSet(A)
    BY <1>1, FS_Subset
  <2> DEFINE rank == [x \in A |-> x]
  <2>2. rank \in [A -> Nat]
    OBVIOUS
  <2>3. \E t \in A : \A u \in A : rank[u] <= rank[t]
    <3> HIDE DEF rank
    <3> QED  BY <1>2, <2>1, <2>2, HighestOf
  <2>4. PICK t \in A : \A u \in A : u <= t
    BY <2>3
  <2>5. \A y \in A : t >= y
    BY <2>4
  <2>6. A \in SUBSET Nat
    OBVIOUS
  <2> QED  BY <2>5, <2>6 DEF Topmost
<1>3. ASSUME NEW k \in 1 .. n PROVE Topmost[1 .. k] = k
  <2>1. 1 .. k \in SUBSET Nat /\ k \in 1 .. k /\ \A y \in 1 .. k : k >= y
    OBVIOUS
  <2>2. \A x \in 1 .. k : (\A y \in 1 .. k : x >= y) => x = k
    BY <2>1
  <2> QED  BY <2>1, <2>2 DEF Topmost
<1> QED  BY <1>1, <1>2, <1>3 DEF PicksFrom

(* Over positions, with steps that stay in V: the table exists, and any function that takes *)
(* those steps as long as it is in V gives the folds of the prefixes.                         *)
Positions(D, n) == n \in Nat /\ D = 1 .. n

LEMMA FoldExists ==
  ASSUME NEW n, NEW D, Positions(D, n), NEW V, NEW base \in V, NEW step \in [V \X D -> V]
  PROVE  \E g : /\ FoldTable(g, base, step, Topmost, D)
               /\ \A A \in SUBSET D : g[A] \in V
<1>1. IsFiniteSet(D) /\ PicksFrom(Topmost, D)
  BY TopmostOf DEF Positions
<1>2. PICK g : FoldTable(g, base, step, Topmost, D)
  BY <1>1, FoldTableExists
<1>3. \A A \in SUBSET D : g[A] = IF A = {} THEN base ELSE step[<<g[A \ {Topmost[A]}], Topmost[A]>>]
  BY <1>2 DEF FoldTable
<1>4. \A A \in SUBSET D : g[A] \in V
  <2>1. g[{}] \in V
    BY <1>3
  <2>2. \A A \in SUBSET D : A # {} /\ g[A \ {Topmost[A]}] \in V => g[A] \in V
    BY <1>1, <1>3 DEF PicksFrom
  <2> QED  BY <1>1, <2>1, <2>2, FoldStaysIn
<1> QED  BY <1>2, <1>4 

StepsThrough(g, base, step, V, D) ==
  /\ g[{}] = base
  /\ \A A \in SUBSET D :
       A # {} /\ g[A \ {Topmost[A]}] \in V => g[A] = step[<<g[A \ {Topmost[A]}], Topmost[A]>>]

FoldsAlong(p, base, step, V, n) ==
  /\ p[0] = base
  /\ \A k \in 1 .. n : p[k] = step[<<p[k - 1], k>>]
  /\ \A k \in 0 .. n : p[k] \in V

(* The value is what the steps arrive at. *)
FoldsTo(value, base, step, V, n) == \E p : FoldsAlong(p, base, step, V, n) /\ p[n] = value

LEMMA PrefixesFold ==
  ASSUME NEW n, NEW D, Positions(D, n), NEW V, NEW base \in V, NEW step \in [V \X D -> V],
         NEW g, StepsThrough(g, base, step, V, D)
  PROVE  FoldsTo(g[D], base, step, V, n)
<1> DEFINE p == [k \in 0 .. n |-> g[1 .. k]]
<1>1. IsFiniteSet(D) /\ PicksFrom(Topmost, D)
  BY TopmostOf DEF Positions
<1>2. \A A \in SUBSET D : g[A] \in V
  <2>1. step \in [V \X D -> V] /\ g[{}] \in V
    BY DEF StepsThrough
  <2>2. \A A \in SUBSET D :
         A # {} /\ g[A \ {Topmost[A]}] \in V => g[A] = step[<<g[A \ {Topmost[A]}], Topmost[A]>>]
    BY DEF StepsThrough
  <2>3. \A A \in SUBSET D : A # {} /\ g[A \ {Topmost[A]}] \in V => g[A] \in V
    BY <1>1, <2>1, <2>2 DEF PicksFrom
  <2> QED  BY <1>1, <2>1, <2>3, FoldStaysIn
<1>3. p[0] = base
  <2>1. 1 .. 0 = {} /\ p[0] = g[1 .. 0]
    BY DEF Positions
  <2> QED  BY <2>1 DEF StepsThrough
<1>4. ASSUME NEW k \in 1 .. n PROVE p[k] = step[<<p[k - 1], k>>]
  <2>1. 1 .. k \in SUBSET D /\ 1 .. (k - 1) \in SUBSET D
    BY DEF Positions
  <2>5. n \in Nat
    BY DEF Positions
  <2>6. 1 .. k # {} /\ (1 .. k) \ {k} = 1 .. (k - 1)
    BY <2>5
  <2>2. Topmost[1 .. k] = k
    BY TopmostOf DEF Positions
  <2>3. g[1 .. k] = step[<<g[1 .. (k - 1)], k>>]
    BY <1>2, <2>1, <2>2, <2>6 DEF StepsThrough
  <2>4. p[k] = g[1 .. k] /\ p[k - 1] = g[1 .. (k - 1)]
    BY <2>5
  <2> QED  BY <2>3, <2>4
<1>5. ASSUME NEW k \in 0 .. n PROVE p[k] \in V
  <2>1. 1 .. k \in SUBSET D
    BY DEF Positions
  <2> QED  BY <1>2, <2>1
<1>6. p[n] = g[D]
  BY DEF Positions
<1> QED  BY <1>3, <1>4, <1>5, <1>6 DEF FoldsAlong, FoldsTo
================================================================================

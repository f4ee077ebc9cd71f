---------------------------- MODULE JsonItems_proofs ----------------------------
(***************************************************************************)
(* The memory of cJSON stays well-formed and keeps documents, whatever     *)
(* operations the application calls and however many items there are.  What*)
(* an operation does to the links is shown to be what it does to the lists;*)
(* what it does to the lists keeps them a forest, and is an operation of   *)
(* JsonDocument.                                                           *)
(***************************************************************************)
EXTENDS JsonItems, FiniteSetTheorems, SequenceTheorems, WellFoundedInduction, TLAPS
-----------------------------------------------------------------------------
(* Induction over the natural numbers, for sets of them.                   *)

LEMMA Least ==
  ASSUME NEW A \in SUBSET Nat, A # {}
  PROVE  \E m \in A : \A k \in A : m <= k
<1>. DEFINE T == {0 .. m : m \in A}
<1>1. T \subseteq FiniteSubsetsOf(Nat)
  <2>1. ASSUME NEW m \in A PROVE 0 .. m \in SUBSET Nat /\ IsFiniteSet(0 .. m)
    BY FS_Interval
  <2>. QED  BY <2>1 DEF FiniteSubsetsOf
<1>2. T # {}
  OBVIOUS
<1>3. PICK x \in T : \A y \in T : <<y, x>> \notin StrictSubsetOrdering(Nat)
  BY <1>1, <1>2, FS_StrictSubsetOrderingWellFounded, WFMin
<1>4. PICK m \in A : x = 0 .. m
  BY <1>3
<1>5. ASSUME NEW k \in A, k < m PROVE FALSE
  <2>1. k \in Nat /\ m \in Nat
    OBVIOUS
  <2>2. m \in 0 .. m /\ m \notin 0 .. k
    BY <1>5, <2>1
  <2>3. <<0 .. k, 0 .. m>> \in StrictSubsetOrdering(Nat)
    BY <1>5, <2>1, <2>2 DEF StrictSubsetOrdering
  <2>. QED  BY <1>3, <1>4, <2>3
<1>. QED  BY <1>5

LEMMA Induct ==
  ASSUME NEW S, 0 \in S, \A n \in Nat : n \in S => n + 1 \in S
  PROVE  Nat \subseteq S
<1>. SUFFICES ASSUME Nat \ S # {} PROVE FALSE
  OBVIOUS
<1>1. PICK m \in Nat \ S : \A k \in Nat \ S : m <= k
  <2>1. Nat \ S \in SUBSET Nat
    OBVIOUS
  <2>. QED  BY <2>1, Least
<1>2. m - 1 \in Nat /\ m - 1 \notin S
  BY <1>1
<1>. QED  BY <1>1, <1>2

\* There is a function that starts so and goes on so.
Recursive(L, S, base, step) ==
  \E f \in [0 .. L -> S] : f[0] = base /\ \A n \in 1 .. L : f[n] = step[n][f[n - 1]]

\* What is defined by recursion is there.
LEMMA Recursion ==
  ASSUME NEW L \in Nat, NEW S, NEW base \in S, NEW step \in [1 .. L -> [S -> S]]
  PROVE  Recursive(L, S, base, step)
<1>. DEFINE Starts(f) == f[0] = base
            Steps(f, k) == \A n \in 1 .. k : f[n] = step[n][f[n - 1]]
            Defined(k) == \E f \in [0 .. k -> S] : Starts(f) /\ Steps(f, k)
            A == {k \in Nat : k <= L => Defined(k)}
<1>1. 0 \in A
  <2>. DEFINE f == [n \in 0 .. 0 |-> base]
  <2>1. f \in [0 .. 0 -> S] /\ Starts(f) /\ Steps(f, 0)
    OBVIOUS
  <2>. HIDE DEF f, Starts, Steps
  <2>. QED  BY <2>1
<1>2. ASSUME NEW k \in Nat, k \in A PROVE k + 1 \in A
  <2>. SUFFICES ASSUME k + 1 <= L PROVE Defined(k + 1)
    OBVIOUS
  <2>1. PICK f \in [0 .. k -> S] : Starts(f) /\ Steps(f, k)
    <3>. HIDE DEF Starts, Steps
    <3>. QED  BY <1>2
  <2>. DEFINE g == [n \in 0 .. k + 1 |-> IF n <= k THEN f[n] ELSE step[k + 1][f[k]]]
  <2>2. step[k + 1][f[k]] \in S
    <3>1. k + 1 \in 1 .. L /\ f[k] \in S
      OBVIOUS
    <3>. QED  BY <3>1
  <2>3. g \in [0 .. k + 1 -> S]
    BY <2>2
  <2>4. /\ \A n \in 0 .. k : g[n] = f[n]
        /\ g[k + 1] = step[k + 1][f[k]]
    OBVIOUS
  <2>. HIDE DEF g
  <2>5. Starts(g) /\ Steps(g, k + 1)
    BY <2>1, <2>4
  <2>. HIDE DEF Starts, Steps
  <2>. QED  BY <2>3, <2>5
<1>3. L \in A
  <2>. HIDE DEF A
  <2>. QED  BY <1>1, <1>2, Induct
<1>. QED  BY <1>3 DEF Recursive
-----------------------------------------------------------------------------
(* Trees and forests of items, by the set M[c] of the members of each.     *)

WholeIn(M, S) == \A c \in S : M[c] \subseteq S

IsTree(M, T, n) ==
  /\ T \in SUBSET Items /\ n \in T /\ WholeIn(M, T)
  /\ \A S \in SUBSET Items : n \in S /\ WholeIn(M, S) => T \subseteq S

\* A are in use, and R of them are roots.
IsForest(M, A, R) ==
  /\ M \in [Items -> SUBSET Items] /\ R \subseteq A /\ A \subseteq Items
  /\ \A c \in Items : M[c] \subseteq A \ R /\ (c \notin A => M[c] = {})
  /\ \A m \in A \ R : \E c \in A : m \in M[c]
  /\ \A c, d \in Items : c # d => M[c] \cap M[d] = {}
  /\ \A S \in SUBSET Items : R \subseteq S /\ WholeIn(M, S) => A \subseteq S

\* The set with the members of a set, level by level, is a tree at the latest when no more
\* items can be added.
Grows(M, n, t) ==
  /\ t[0] = {n}
  /\ \A i \in 1 .. Cardinality(Items) : t[i] = UNION {{c} \cup M[c] : c \in t[i - 1]}

LEMMA LevelsMakeTree ==
  ASSUME NEW M \in [Items -> SUBSET Items], NEW n \in Items, NEW t, Grows(M, n, t)
  PROVE  IsTree(M, t[Cardinality(Items)], n)
<1>. DEFINE N == Cardinality(Items)
            Large(i) == WholeIn(M, t[i]) \/ Cardinality(t[i]) > i
            Smallest(i) == \A S \in SUBSET Items : n \in S /\ WholeIn(M, S) => t[i] \subseteq S
            A == {i \in Nat : i <= N => /\ t[i] \in SUBSET Items /\ n \in t[i]
                                        /\ Large(i) /\ Smallest(i)}
<1>1. N \in Nat /\ IsFiniteSet(Items)
  BY ItemsAssumption, FS_CardinalityType
<1>2. 0 \in A
  <2>1. t[0] = {n} /\ Cardinality({n}) = 1
    BY FS_Singleton DEF Grows
  <2>2. Large(0) /\ Smallest(0) /\ t[0] \in SUBSET Items /\ n \in t[0]
    BY <2>1
  <2>. QED  BY <2>2
<1>3. ASSUME NEW i \in Nat, i \in A PROVE i + 1 \in A
  <2>. SUFFICES ASSUME i + 1 <= N
                PROVE  /\ t[i + 1] \in SUBSET Items /\ n \in t[i + 1]
                       /\ Large(i + 1) /\ Smallest(i + 1)
    OBVIOUS
  <2>1. /\ t[i] \in SUBSET Items /\ n \in t[i] /\ Large(i) /\ Smallest(i)
    BY <1>1, <1>3
  <2>2. t[i + 1] = UNION {{c} \cup M[c] : c \in t[i]}
    <3>1. i + 1 \in 1 .. N /\ (i + 1) - 1 = i
      BY <1>1
    <3>. QED  BY <3>1 DEF Grows
  <2>3. t[i + 1] \in SUBSET Items /\ t[i] \subseteq t[i + 1]
    BY <2>1, <2>2
  <2>4. Smallest(i + 1)
    BY <2>1, <2>2 DEF WholeIn
  <2>5. Large(i + 1)
    <3>1. CASE WholeIn(M, t[i])
      <4>1. t[i + 1] = t[i]
        BY <2>1, <2>2, <3>1 DEF WholeIn
      <4>. QED  BY <3>1, <4>1
    <3>2. CASE ~WholeIn(M, t[i])
      <4>1. t[i] # t[i + 1]
        BY <2>1, <2>2, <3>2 DEF WholeIn
      <4>2. /\ IsFiniteSet(t[i + 1]) /\ Cardinality(t[i]) <= Cardinality(t[i + 1])
            /\ Cardinality(t[i]) # Cardinality(t[i + 1])
            /\ Cardinality(t[i]) \in Nat /\ Cardinality(t[i + 1]) \in Nat
        <5>1. IsFiniteSet(t[i + 1])
          BY <1>1, <2>3, FS_Subset
        <5>. QED  BY <2>3, <4>1, <5>1, FS_Subset, FS_CardinalityType
      <4>3. Cardinality(t[i]) > i
        BY <2>1, <3>2
      <4>. QED  BY <4>2, <4>3
    <3>. QED  BY <3>1, <3>2
  <2>. QED  BY <2>1, <2>3, <2>4, <2>5
<1>4. N \in A
  <2>. HIDE DEF A
  <2>. QED  BY <1>1, <1>2, <1>3, Induct
<1>5. WholeIn(M, t[N])
  <2>1. Cardinality(t[N]) <= N
    BY <1>1, <1>4, FS_Subset
  <2>2. Cardinality(t[N]) \in Nat
    BY <1>1, <1>4, FS_Subset, FS_CardinalityType
  <2>. QED  BY <1>1, <1>4, <2>1, <2>2
<1>. QED  BY <1>1, <1>4, <1>5 DEF IsTree

\* Such levels are there.
LEMMA LevelsAreThere ==
  ASSUME NEW M \in [Items -> SUBSET Items], NEW n \in Items
  PROVE  \E t \in [0 .. Cardinality(Items) -> SUBSET Items] :
                /\ Grows(M, n, t)
                /\ t = [i \in 0 .. Cardinality(Items) |->
                         IF i = 0 THEN {n} ELSE UNION {{c} \cup M[c] : c \in t[i - 1]}]
<1>. DEFINE N == Cardinality(Items)
            S == SUBSET Items
            step == [i \in 1 .. N |-> [A \in S |-> UNION {{c} \cup M[c] : c \in A}]]
<1>1. N \in Nat
  BY ItemsAssumption, FS_CardinalityType
<1>2. step \in [1 .. N -> [S -> S]] /\ {n} \in S
  OBVIOUS
<1>3. \A i \in 1 .. N, A \in S : step[i][A] = UNION {{c} \cup M[c] : c \in A}
  OBVIOUS
<1>. HIDE DEF step
<1>4. PICK t \in [0 .. N -> S] : t[0] = {n} /\ \A i \in 1 .. N : t[i] = step[i][t[i - 1]]
  <2>. DEFINE base == {n}
  <2>. HIDE DEF N, S, base
  <2>1. Recursive(N, S, base, step)
    BY <1>1, <1>2, Recursion DEF base
  <2>. QED  BY <2>1 DEF Recursive, base
<1>5. \A i \in 1 .. N : t[i] = UNION {{c} \cup M[c] : c \in t[i - 1]}
  <2>. HIDE DEF S
  <2>1. \A i \in 1 .. N : i - 1 \in 0 .. N
    BY <1>1
  <2>. QED  BY <1>3, <1>4, <2>1
<1>6. Grows(M, n, t)
  BY <1>4, <1>5 DEF Grows
<1>7. t = [i \in 0 .. N |-> IF i = 0 THEN {n} ELSE UNION {{c} \cup M[c] : c \in t[i - 1]}]
  <2>1. \A i \in 0 .. N : i = 0 \/ i \in 1 .. N
    BY <1>1
  <2>. HIDE DEF S
  <2>. QED  BY <1>4, <1>5, <2>1
<1>. QED  BY <1>4, <1>6, <1>7

\* A tree has what its root has, and all but the root are members of something in it.
LEMMA TreeInForest ==
  ASSUME NEW M, NEW A, NEW R, IsForest(M, A, R), NEW n \in A, NEW T, IsTree(M, T, n)
  PROVE  /\ T \subseteq A
         /\ \A m \in T : m # n => \E c \in T : m \in M[c]
         /\ \A m \in T : m # n => m \notin R
         /\ \A c \in Items, m \in T : m \in M[c] /\ m # n => c \in T
<1>1. T \subseteq A
  BY DEF IsForest, IsTree, WholeIn
<1>2. ASSUME NEW m \in T, m # n PROVE \E c \in T : m \in M[c]
  <2>. SUFFICES ASSUME \A c \in T : m \notin M[c] PROVE FALSE
    OBVIOUS
  <2>1. /\ T \ {m} \in SUBSET Items /\ n \in T \ {m}
    BY <1>2 DEF IsTree
  <2>2. WholeIn(M, T \ {m})
    BY DEF IsTree, WholeIn
  <2>3. T \subseteq T \ {m}
    BY <2>1, <2>2 DEF IsTree
  <2>. QED  BY <2>3
<1>3. ASSUME NEW m \in T, m # n PROVE m \notin R
  <2>1. PICK c \in T : m \in M[c]
    BY <1>2, <1>3
  <2>. QED  BY <1>1, <2>1 DEF IsForest
<1>4. ASSUME NEW c \in Items, NEW m \in T, m \in M[c], m # n PROVE c \in T
  <2>1. PICK d \in T : m \in M[d]
    BY <1>2, <1>4
  <2>2. d \in Items
    BY <2>1 DEF IsTree
  <2>3. c = d
    BY <1>4, <2>1, <2>2 DEF IsForest
  <2>. QED  BY <2>1, <2>3
<1>. QED  BY <1>1, <1>2, <1>3, <1>4

\* No item is in the tree of one of its members.
LEMMA NoCycles ==
  ASSUME NEW M, NEW A, NEW R, IsForest(M, A, R), NEW n \in A, NEW T, IsTree(M, T, n)
  PROVE  \A c \in T : n \notin M[c]
<1>. SUFFICES ASSUME NEW b \in T, n \in M[b] PROVE FALSE
  OBVIOUS
<1>1. T \subseteq A /\ A \subseteq Items /\ R \subseteq A
  <2>1. T \subseteq A
    BY TreeInForest
  <2>. QED  BY <2>1 DEF IsForest
<1>2. n \notin R
  BY <1>1 DEF IsForest
<1>3. ASSUME NEW c \in Items, NEW m \in T, m \in M[c] PROVE c \in T
  <2>1. CASE m # n
    BY <1>3, <2>1, TreeInForest
  <2>2. CASE m = n
    <3>1. b \in Items /\ M[b] \cap M[c] # {}
      BY <1>1, <1>3, <2>2
    <3>2. b = c
      BY <1>3, <3>1 DEF IsForest
    <3>. QED  BY <3>2
  <2>. QED  BY <2>1, <2>2
<1>4. A \ T \in SUBSET Items /\ R \subseteq A \ T
  BY <1>1, <1>2, TreeInForest
<1>5. WholeIn(M, A \ T)
  <2>. SUFFICES ASSUME NEW c \in A \ T, NEW m \in M[c] PROVE m \in A \ T
    BY DEF WholeIn
  <2>1. c \in Items /\ m \in A
    BY <1>1 DEF IsForest
  <2>. QED  BY <1>3, <2>1
<1>6. A \subseteq A \ T
  BY <1>4, <1>5 DEF IsForest
<1>. QED  BY <1>6 DEF IsTree

LEMMA ForestGains ==
  ASSUME NEW M, NEW A, NEW R, IsForest(M, A, R), NEW n \in Items \ A
  PROVE  IsForest(M, A \cup {n}, R \cup {n})
<1>. DEFINE B == A \cup {n}
            Q == R \cup {n}
<1>1. M \in [Items -> SUBSET Items] /\ Q \subseteq B /\ B \subseteq Items
  BY DEF IsForest
<1>2. \A c \in Items : M[c] \subseteq B \ Q /\ (c \notin B => M[c] = {})
  BY DEF IsForest
<1>3. \A m \in B \ Q : \E c \in B : m \in M[c]
  BY DEF IsForest
<1>4. \A c, d \in Items : c # d => M[c] \cap M[d] = {}
  BY DEF IsForest
<1>5. \A S \in SUBSET Items : Q \subseteq S /\ WholeIn(M, S) => B \subseteq S
  BY DEF IsForest
<1>. HIDE DEF B, Q
<1>6. IsForest(M, B, Q)
  BY <1>1, <1>2, <1>3, <1>4, <1>5 DEF IsForest
<1>. QED  BY <1>6 DEF B, Q

\* A root becomes a member of an item that is not in its tree.
LEMMA ForestJoins ==
  ASSUME NEW M, NEW A, NEW R, IsForest(M, A, R), NEW n \in R, NEW c \in A,
         NEW T, IsTree(M, T, n), c \notin T
  PROVE  IsForest([M EXCEPT ![c] = @ \cup {n}], A, R \ {n})
<1>. DEFINE K == [M EXCEPT ![c] = @ \cup {n}]
            Q == R \ {n}
<1>0. /\ M \in [Items -> SUBSET Items] /\ R \subseteq A /\ A \subseteq Items /\ c \in Items
      /\ \A d \in Items : K[d] = IF d = c THEN M[c] \cup {n} ELSE M[d]
  BY DEF IsForest
<1>1. K \in [Items -> SUBSET Items] /\ Q \subseteq A
  BY <1>0
<1>. HIDE DEF K
<1>2. \A d \in Items : K[d] \subseteq A \ Q /\ (d \notin A => K[d] = {})
  BY <1>0 DEF IsForest
<1>3. \A m \in A \ Q : \E d \in A : m \in K[d]
  <2>. TAKE m \in A \ Q
  <2>1. CASE m = n
    BY <1>0, <2>1
  <2>2. CASE m # n
    <3>1. PICK d \in A : m \in M[d]
      BY <2>2 DEF IsForest
    <3>. QED  BY <1>0, <3>1
  <2>. QED  BY <2>1, <2>2
<1>4. \A d, e \in Items : d # e => K[d] \cap K[e] = {}
  <2>1. \A d \in Items : n \notin M[d]
    BY DEF IsForest
  <2>. QED  BY <1>0, <2>1 DEF IsForest
<1>5. ASSUME NEW S \in SUBSET Items, Q \subseteq S, WholeIn(K, S) PROVE A \subseteq S
  <2>1. S \cup T \in SUBSET Items /\ R \subseteq S \cup T
    BY <1>5 DEF IsTree
  <2>2. WholeIn(M, S) /\ WholeIn(M, S \cup T)
    BY <1>0, <1>5 DEF WholeIn, IsTree
  <2>3. A \subseteq S \cup T
    BY <2>1, <2>2 DEF IsForest
  <2>4. n \in S
    BY <1>0, <1>5, <2>3 DEF WholeIn
  <2>5. T \subseteq S
    BY <2>2, <2>4 DEF IsTree
  <2>. QED  BY <2>3, <2>5
<1>6. IsForest(K, A, Q)
  BY <1>0, <1>1, <1>2, <1>3, <1>4, <1>5 DEF IsForest
<1>. QED  BY <1>6 DEF K

\* A member becomes a root.
LEMMA ForestLeaves ==
  ASSUME NEW M, NEW A, NEW R, IsForest(M, A, R), NEW c \in A, NEW n \in M[c]
  PROVE  IsForest([M EXCEPT ![c] = @ \ {n}], A, R \cup {n})
<1>. DEFINE K == [M EXCEPT ![c] = @ \ {n}]
            Q == R \cup {n}
<1>0. /\ M \in [Items -> SUBSET Items] /\ R \subseteq A /\ A \subseteq Items /\ c \in Items
      /\ n \in A
      /\ \A d \in Items : K[d] = IF d = c THEN M[c] \ {n} ELSE M[d]
  BY DEF IsForest
<1>1. K \in [Items -> SUBSET Items] /\ Q \subseteq A
  BY <1>0
<1>. HIDE DEF K
<1>2. \A d \in Items : K[d] \subseteq A \ Q /\ (d \notin A => K[d] = {})
  <2>1. \A d \in Items : d # c => n \notin M[d]
    BY <1>0 DEF IsForest
  <2>. QED  BY <1>0, <2>1 DEF IsForest
<1>3. \A m \in A \ Q : \E d \in A : m \in K[d]
  <2>. TAKE m \in A \ Q
  <2>1. PICK d \in A : m \in M[d]
    BY DEF IsForest
  <2>. QED  BY <1>0, <2>1
<1>4. \A d, e \in Items : d # e => K[d] \cap K[e] = {}
  BY <1>0 DEF IsForest
<1>5. ASSUME NEW S \in SUBSET Items, Q \subseteq S, WholeIn(K, S) PROVE A \subseteq S
  <2>1. WholeIn(M, S)
    BY <1>0, <1>5 DEF WholeIn
  <2>. QED  BY <1>5, <2>1 DEF IsForest
<1>6. IsForest(K, A, Q)
  BY <1>0, <1>1, <1>2, <1>3, <1>4, <1>5 DEF IsForest
<1>. QED  BY <1>6 DEF K

\* The tree of a root goes.
LEMMA ForestLoses ==
  ASSUME NEW M, NEW A, NEW R, IsForest(M, A, R), NEW n \in R, NEW T, IsTree(M, T, n)
  PROVE  IsForest([m \in Items |-> IF m \in T THEN {} ELSE M[m]], A \ T, R \ {n})
<1>. DEFINE K == [m \in Items |-> IF m \in T THEN {} ELSE M[m]]
            B == A \ T
            Q == R \ {n}
<1>0. /\ M \in [Items -> SUBSET Items] /\ R \subseteq A /\ A \subseteq Items /\ n \in A
      /\ \A d \in Items : K[d] = IF d \in T THEN {} ELSE M[d]
  BY DEF IsForest
<1>1. K \in [Items -> SUBSET Items]
  BY <1>0
<1>. HIDE DEF K
<1>2. /\ T \subseteq A /\ \A m \in T : m # n => m \notin R
      /\ \A c \in Items, m \in T : m \in M[c] /\ m # n => c \in T
  BY <1>0, TreeInForest
<1>3. Q \subseteq B /\ B \subseteq Items
  BY <1>0, <1>2
<1>4. \A d \in Items : n \notin M[d]
  BY DEF IsForest
<1>5. \A d \in Items : K[d] \subseteq B \ Q /\ (d \notin B => K[d] = {})
  BY <1>0, <1>2, <1>4 DEF IsForest
<1>6. \A m \in B \ Q : \E d \in B : m \in K[d]
  <2>. TAKE m \in B \ Q
  <2>1. m \in A \ R
    BY DEF IsTree
  <2>2. PICK d \in A : m \in M[d]
    BY <2>1 DEF IsForest
  <2>3. d \notin T
    BY <2>2 DEF IsTree, WholeIn
  <2>. QED  BY <1>0, <2>2, <2>3
<1>7. \A d, e \in Items : d # e => K[d] \cap K[e] = {}
  BY <1>0 DEF IsForest
<1>8. ASSUME NEW S \in SUBSET Items, Q \subseteq S, WholeIn(K, S) PROVE B \subseteq S
  <2>1. S \cup T \in SUBSET Items /\ R \subseteq S \cup T
    BY <1>8 DEF IsTree
  <2>2. WholeIn(M, S \cup T)
    BY <1>0, <1>8 DEF WholeIn, IsTree
  <2>. QED  BY <2>1, <2>2 DEF IsForest
<1>. HIDE DEF B, Q
<1>9. IsForest(K, B, Q)
  BY <1>1, <1>3, <1>5, <1>6, <1>7, <1>8 DEF IsForest
<1>. QED  BY <1>9 DEF K, B, Q

Mapped(S, f) == {f[x] : x \in S}

OneToOne(f, T, S) == f \in [T -> S] /\ \A x, y \in T : f[x] = f[y] => x = y

\* K is M with a copy of T.
CopyOf(K, M, f, T) ==
  /\ K \in [Items -> SUBSET Items]
  /\ \A x \in T : K[f[x]] = Mapped(M[x], f)
  /\ \A d \in Items : d \notin In(f) => K[d] = M[d]

\* A tree is copied: f[x] for x.
LEMMA ForestCopies ==
  ASSUME NEW M, NEW A, NEW R, IsForest(M, A, R), NEW n \in A, NEW T, IsTree(M, T, n),
         NEW f, OneToOne(f, T, Items \ A), NEW K, CopyOf(K, M, f, T)
  PROVE  IsForest(K, A \cup In(f), R \cup {f[n]})
<1>. DEFINE C == In(f)
            B == A \cup C
            Q == R \cup {f[n]}
<1>. /\ f \in [T -> Items \ A] /\ \A x, y \in T : f[x] = f[y] => x = y
     /\ K \in [Items -> SUBSET Items] /\ \A x \in T : K[f[x]] = Mapped(M[x], f)
     /\ \A d \in Items : d \notin In(f) => K[d] = M[d]
  BY DEF OneToOne, CopyOf
<1>0. /\ M \in [Items -> SUBSET Items] /\ R \subseteq A /\ A \subseteq Items
      /\ n \in T /\ T \subseteq A /\ \A x \in T : M[x] \subseteq T
      /\ \A x \in T : x # n => \E c \in T : x \in M[c]
      /\ \A x \in T : n \notin M[x]
  <2>1. M \in [Items -> SUBSET Items] /\ R \subseteq A /\ A \subseteq Items
    BY DEF IsForest
  <2>2. n \in T /\ \A x \in T : M[x] \subseteq T
    BY DEF IsTree, WholeIn
  <2>3. T \subseteq A /\ \A x \in T : x # n => \E c \in T : x \in M[c]
    BY TreeInForest
  <2>4. \A x \in T : n \notin M[x]
    BY NoCycles
  <2>. QED  BY <2>1, <2>2, <2>3, <2>4
<1>1. /\ C = {f[x] : x \in T} /\ C \subseteq Items \ A
      /\ \A d \in Items : d \notin C => K[d] = M[d]
      /\ \A x \in T : K[f[x]] = {f[y] : y \in M[x]}
  BY DEF In, Mapped
<1>. HIDE DEF C
<1>2. Q \subseteq B /\ B \subseteq Items
  BY <1>0, <1>1
<1>3. ASSUME NEW d \in Items PROVE K[d] \subseteq B \ Q /\ (d \notin B => K[d] = {})
  <2>1. CASE d \in C
    <3>1. PICK x \in T : d = f[x]
      BY <1>1, <2>1
    <3>2. K[d] = {f[y] : y \in M[x]}
      BY <1>1, <3>1
    <3>3. \A y \in M[x] : y \in T /\ y # n /\ f[y] \in C /\ f[y] # f[n] /\ f[y] \notin R
      BY <1>0, <1>1
    <3>. QED  BY <2>1, <3>2, <3>3
  <2>2. CASE d \notin C
    <3>1. K[d] = M[d] /\ M[d] \subseteq A \ R /\ (d \notin A => M[d] = {})
      BY <1>1, <2>2 DEF IsForest
    <3>2. f[n] \notin A
      BY <1>0
    <3>. QED  BY <2>2, <3>1, <3>2
  <2>. QED  BY <2>1, <2>2
<1>4. ASSUME NEW m \in B \ Q PROVE \E d \in B : m \in K[d]
  <2>1. CASE m \in C
    <3>1. PICK y \in T : m = f[y]
      BY <1>1, <2>1
    <3>2. PICK x \in T : y \in M[x]
      BY <1>0, <3>1
    <3>. QED  BY <1>1, <3>1, <3>2
  <2>2. CASE m \notin C
    <3>1. PICK d \in A : m \in M[d]
      BY <2>2 DEF IsForest
    <3>. QED  BY <1>0, <1>1, <3>1
  <2>. QED  BY <2>1, <2>2
<1>5. ASSUME NEW d \in Items, NEW e \in Items, NEW m, m \in K[d], m \in K[e] PROVE d = e
  <2>1. ASSUME NEW a \in Items, m \in K[a]
        PROVE  \/ a \in C /\ m \in C
               \/ a \notin C /\ m \notin C /\ m \in M[a]
    <3>1. CASE a \in C
      <4>1. PICK x \in T : a = f[x]
        BY <1>1, <3>1
      <4>2. PICK y \in M[x] : m = f[y]
        BY <1>1, <2>1, <4>1
      <4>. QED  BY <1>0, <1>1, <3>1, <4>2
    <3>2. CASE a \notin C
      BY <1>1, <2>1, <3>2 DEF IsForest
    <3>. QED  BY <3>1, <3>2
  <2>2. CASE m \notin C
    BY <1>5, <2>1, <2>2 DEF IsForest
  <2>3. CASE m \in C
    <3>1. d \in C /\ e \in C
      BY <1>5, <2>1, <2>3
    <3>2. PICK x \in T, w \in T : d = f[x] /\ e = f[w]
      BY <1>1, <3>1
    <3>3. PICK y \in M[x], z \in M[w] : m = f[y] /\ m = f[z]
      BY <1>1, <1>5, <3>2
    <3>4. y = z /\ x \in Items /\ w \in Items
      BY <1>0, <3>3
    <3>5. x = w
      BY <3>3, <3>4 DEF IsForest
    <3>. QED  BY <3>2, <3>5
  <2>. QED  BY <2>2, <2>3
<1>6. ASSUME NEW S \in SUBSET Items, Q \subseteq S, WholeIn(K, S) PROVE B \subseteq S
  <2>1. WholeIn(M, S)
    <3>. SUFFICES ASSUME NEW c \in S PROVE M[c] \subseteq S
      BY DEF WholeIn
    <3>1. CASE c \in A
      BY <1>1, <1>6, <3>1 DEF WholeIn
    <3>2. CASE c \notin A
      BY <3>2 DEF IsForest
    <3>. QED  BY <3>1, <3>2
  <2>2. A \subseteq S
    BY <1>6, <2>1 DEF IsForest
  <2>. DEFINE P == {x \in T : f[x] \in S}
  <2>3. P \in SUBSET Items /\ n \in P
    BY <1>0, <1>6
  <2>4. WholeIn(M, P)
    <3>. SUFFICES ASSUME NEW x \in P, NEW y \in M[x] PROVE y \in P
      BY DEF WholeIn
    <3>1. y \in T /\ f[y] \in K[f[x]] /\ f[x] \in S
      BY <1>0, <1>1
    <3>. QED  BY <1>6, <3>1 DEF WholeIn
  <2>5. T \subseteq P
    BY <2>3, <2>4 DEF IsTree
  <2>. QED  BY <1>1, <2>2, <2>5
<1>7. \A d, e \in Items : d # e => K[d] \cap K[e] = {}
  BY <1>5
<1>. HIDE DEF B, Q
<1>8. IsForest(K, B, Q)
  BY <1>2, <1>3, <1>4, <1>6, <1>7 DEF IsForest
<1>. QED  BY <1>8 DEF B, C, Q
-----------------------------------------------------------------------------
(* The links in the memory and the lists they make.                        *)

LeafValues == [kind : {"number"}, int : Nat, double : Nat] \cup [kind : {"string"}, text : Strings]

Cells == [type : {"free", "object", "array", "leaf"},
          child : Items \cup {NULL}, next : Items \cup {NULL}, prev : Items \cup {NULL},
          key : Keys \cup {NoKey}, value : LeafValues \cup {NoKey}]

\* Links along a sequence of items.
Chain(h, c, s) ==
  /\ s \in Seq(Items)
  /\ \A i, j \in 1 .. Len(s) : s[i] = s[j] => i = j
  /\ h[c].child = IF Len(s) = 0 THEN NULL ELSE s[1]
  /\ \A i \in 1 .. Len(s) :
       /\ h[s[i]].next = IF i < Len(s) THEN s[i + 1] ELSE NULL
       /\ h[s[i]].prev = IF i > 1 THEN s[i - 1] ELSE s[Len(s)]

\* What is left of a sequence from a place on.
Rest(s, i) == [j \in 1 .. Len(s) + 1 - i |-> s[i + j - 1]]

LEMMA RestOfSequence ==
  ASSUME NEW s \in Seq(Items)
  PROVE  /\ Rest(s, 1) = s
         /\ Rest(s, Len(s) + 1) = <<>>
         /\ \A i \in 1 .. Len(s) : <<s[i]>> \o Rest(s, i + 1) = Rest(s, i)
<1>1. Len(s) \in Nat /\ s = [j \in 1 .. Len(s) |-> s[j]] /\ \A j \in 1 .. Len(s) : s[j] \in Items
  OBVIOUS
<1>2. Rest(s, 1) = s
  <2>1. 1 .. Len(s) + 1 - 1 = 1 .. Len(s) /\ \A j \in 1 .. Len(s) : 1 + j - 1 = j
    BY <1>1
  <2>. QED  BY <1>1, <2>1 DEF Rest
<1>3. Rest(s, Len(s) + 1) = <<>>
  <2>1. 1 .. Len(s) + 1 - (Len(s) + 1) = {}
    BY <1>1
  <2>. QED  BY <2>1 DEF Rest
<1>4. ASSUME NEW i \in 1 .. Len(s) PROVE <<s[i]>> \o Rest(s, i + 1) = Rest(s, i)
  <2>. DEFINE a == <<s[i]>>
              b == Rest(s, i + 1)
              n == Len(s) - i
  <2>1. a \in Seq(Items) /\ Len(a) = 1 /\ a[1] = s[i]
    BY <1>1
  <2>2. /\ n \in Nat /\ b = [j \in 1 .. n |-> s[i + j]]
    <3>1. 1 .. Len(s) + 1 - (i + 1) = 1 .. n /\ \A j \in 1 .. n : (i + 1) + j - 1 = i + j
      BY <1>1
    <3>. QED  BY <1>1, <3>1 DEF Rest
  <2>3. \A j \in 1 .. n : s[i + j] \in Items
    BY <1>1
  <2>. HIDE DEF a, b, n
  <2>4. b \in Seq(Items) /\ Len(b) = n /\ \A j \in 1 .. n : b[j] = s[i + j]
    BY <2>2, <2>3
  <2>5. /\ a \o b \in Seq(Items) /\ Len(a \o b) = 1 + n
        /\ \A j \in 1 .. 1 + n : (a \o b)[j] = IF j <= 1 THEN a[j] ELSE b[j - 1]
    <3>1. /\ a \o b \in Seq(Items) /\ Len(a \o b) = Len(a) + Len(b)
          /\ \A j \in 1 .. Len(a) + Len(b) :
               (a \o b)[j] = IF j <= Len(a) THEN a[j] ELSE b[j - Len(a)]
      BY <2>1, <2>4, ConcatProperties
    <3>. QED  BY <2>1, <2>4, <3>1
  <2>6. /\ Rest(s, i) = [j \in 1 .. 1 + n |-> s[i + j - 1]]
    <3>1. Len(s) + 1 - i = 1 + n
      BY <1>1 DEF n
    <3>. QED  BY <3>1 DEF Rest
  <2>7. \A j \in 1 .. 1 + n : (a \o b)[j] = s[i + j - 1]
    <3>. TAKE j \in 1 .. 1 + n
    <3>1. CASE j = 1
      BY <1>1, <2>1, <2>2, <2>5, <3>1
    <3>2. CASE j # 1
      <4>1. j - 1 \in 1 .. n /\ i + (j - 1) = i + j - 1
        BY <1>1, <2>2, <3>2
      <4>2. (a \o b)[j] = b[j - 1]
        <5>1. j \in 1 .. 1 + n /\ ~(j <= 1)
          BY <2>2, <3>2
        <5>. QED  BY <2>5, <5>1
      <4>. QED  BY <2>4, <4>1, <4>2
    <3>. QED  BY <3>1, <3>2
  <2>8. a \o b = [j \in 1 .. 1 + n |-> (a \o b)[j]]
    <3>. DEFINE ab == a \o b
    <3>1. ab \in Seq(Items) /\ Len(ab) = 1 + n
      BY <2>5
    <3>. HIDE DEF ab
    <3>2. ab = [j \in 1 .. 1 + n |-> ab[j]]
      BY <3>1
    <3>. QED  BY <3>2 DEF ab
  <2>9. a \o b = Rest(s, i)
    BY <2>6, <2>7, <2>8
  <2>. QED  BY <2>9 DEF a, b
<1>. QED  BY <1>2, <1>3, <1>4

\* The links decide what the list is.
LEMMA ListIs ==
  ASSUME NEW h \in [Items -> Cells], NEW c \in Items, NEW s, Chain(h, c, s)
  PROVE  List(h, c) = s
<1>. DEFINE N == Cardinality(Items)
            L == Len(s)
            X == Items \cup {NULL}
            D == X \X (0 .. N)
            IsFrom(f) == f = [p \in D |-> IF p[1] = NULL \/ p[2] = 0 THEN <<>>
                                         ELSE <<p[1]>> \o f[<<h[p[1]].next, p[2] - 1>>]]
            from == CHOOSE f : IsFrom(f)
            node(i) == IF i = L + 1 THEN NULL ELSE s[i]
            P(k) == \A i \in 1 .. L + 1 : L + 1 - i <= k => from[<<node(i), k>>] = Rest(s, i)
            A == {k \in Nat : k <= N => P(k)}
<1>1. N \in Nat /\ IsFiniteSet(Items) /\ NULL \notin Items
  BY ItemsAssumption, FS_CardinalityType
<1>2. /\ s \in Seq(Items) /\ L \in Nat /\ \A i \in 1 .. L : s[i] \in Items
      /\ h[c].child = IF L = 0 THEN NULL ELSE s[1]
      /\ \A i \in 1 .. L : h[s[i]].next = IF i < L THEN s[i + 1] ELSE NULL
  BY DEF Chain
<1>3. L <= N
  <2>1. s \in Injection(1 .. L, Items)
    BY <1>2 DEF Chain, Injection, IsInjective
  <2>2. Cardinality(1 .. L) <= N
    BY <1>1, <2>1, FS_Injection
  <2>3. Cardinality(1 .. L) = L
    BY <1>2, FS_Interval
  <2>. QED  BY <2>2, <2>3
<1>4. \A x \in Items : h[x].next \in X
  BY DEF Cells
<1>5. \E f : IsFrom(f)
  <2>. DEFINE S == [X -> Seq(Items)]
              base == [x \in X |-> <<>>]
              step == [k \in 1 .. N |-> [g \in S |->
                        [x \in X |-> IF x = NULL THEN <<>> ELSE <<x>> \o g[h[x].next]]]]
  <2>1. step \in [1 .. N -> [S -> S]]
    <3>1. ASSUME NEW g \in S, NEW x \in X, x # NULL PROVE <<x>> \o g[h[x].next] \in Seq(Items)
      <4>1. g[h[x].next] \in Seq(Items) /\ <<x>> \in Seq(Items)
        BY <1>4, <3>1
      <4>. QED  BY <4>1
    <3>2. ASSUME NEW g \in S
          PROVE  [x \in X |-> IF x = NULL THEN <<>> ELSE <<x>> \o g[h[x].next]] \in S
      <4>. DEFINE e(x) == IF x = NULL THEN <<>> ELSE <<x>> \o g[h[x].next]
      <4>1. \A x \in X : e(x) \in Seq(Items)
        <5>. TAKE x \in X
        <5>1. CASE x = NULL
          BY <5>1
        <5>2. CASE x # NULL
          BY <3>1, <5>2
        <5>. QED  BY <5>1, <5>2
      <4>. HIDE DEF e, X
      <4>2. [x \in X |-> e(x)] \in S
        BY <4>1
      <4>. QED  BY <4>2 DEF e
    <3>. HIDE DEF S
    <3>. QED  BY <3>2
  <2>2. base \in S
    OBVIOUS
  <2>3. \A k \in 1 .. N, g \in S, x \in X :
          step[k][g][x] = IF x = NULL THEN <<>> ELSE <<x>> \o g[h[x].next]
    <3>. HIDE DEF S, X
    <3>. QED  OBVIOUS
  <2>. HIDE DEF step, base
  <2>4. PICK G \in [0 .. N -> S] : G[0] = base /\ \A k \in 1 .. N : G[k] = step[k][G[k - 1]]
    <3>. HIDE DEF N, S
    <3>1. Recursive(N, S, base, step)
      BY <1>1, <2>1, <2>2, Recursion
    <3>. QED  BY <3>1 DEF Recursive
  <2>. DEFINE f == [p \in D |-> G[p[2]][p[1]]]
  <2>5. \A x \in X, k \in 0 .. N : f[<<x, k>>] = G[k][x]
    OBVIOUS
  <2>6. ASSUME NEW x \in X, NEW k \in 0 .. N
        PROVE  f[<<x, k>>] = IF x = NULL \/ k = 0 THEN <<>>
                            ELSE <<x>> \o f[<<h[x].next, k - 1>>]
    <3>. HIDE DEF f
    <3>1. CASE k = 0
      BY <2>4, <2>5, <3>1 DEF base
    <3>2. CASE k # 0
      <4>1. k \in 1 .. N /\ k - 1 \in 0 .. N /\ G[k - 1] \in S
        <5>1. k \in 1 .. N /\ k - 1 \in 0 .. N
          BY <1>1, <3>2
        <5>. HIDE DEF S, N
        <5>. QED  BY <5>1
      <4>2. G[k][x] = IF x = NULL THEN <<>> ELSE <<x>> \o G[k - 1][h[x].next]
        <5>. HIDE DEF S
        <5>. QED  BY <2>3, <2>4, <4>1
      <4>3. x # NULL => h[x].next \in X
        BY <1>4
      <4>. HIDE DEF X
      <4>. QED  BY <2>5, <3>2, <4>1, <4>2, <4>3
    <3>. QED  BY <3>1, <3>2
  <2>7. IsFrom(f)
    <3>1. \A p \in D : p = <<p[1], p[2]>> /\ p[1] \in X /\ p[2] \in 0 .. N
      OBVIOUS
    <3>2. f = [p \in D |-> f[p]]
      OBVIOUS
    <3>3. \A p \in D : f[p] = IF p[1] = NULL \/ p[2] = 0 THEN <<>>
                             ELSE <<p[1]>> \o f[<<h[p[1]].next, p[2] - 1>>]
      <4>. HIDE DEF f, D
      <4>. QED  BY <2>6, <3>1
    <3>. HIDE DEF D, f
    <3>. QED  BY <3>2, <3>3
  <2>. HIDE DEF IsFrom, f
  <2>. QED  BY <2>7
<1>6. IsFrom(from)
  <2>. HIDE DEF IsFrom
  <2>. QED  BY <1>5
<1>7. List(h, c) = from[<<h[c].child, N>>]
  BY DEF List
<1>8. \A x \in X, k \in 0 .. N :
        from[<<x, k>>] = IF x = NULL \/ k = 0 THEN <<>> ELSE <<x>> \o from[<<h[x].next, k - 1>>]
  <2>. HIDE DEF from
  <2>1. \A x \in X, k \in 0 .. N : <<x, k>> \in D
    OBVIOUS
  <2>. HIDE DEF X
  <2>. QED  BY <1>6, <2>1
<1>. HIDE DEF from
<1>9. Rest(s, L + 1) = <<>>
  BY <1>2, RestOfSequence
<1>10. \A k \in 0 .. N : from[<<NULL, k>>] = <<>>
  BY <1>8
<1>11. 0 \in A
  <2>1. ASSUME NEW i \in 1 .. L + 1, L + 1 - i <= 0 PROVE i = L + 1
    BY <1>2, <2>1
  <2>2. 0 \in 0 .. N
    BY <1>1
  <2>. QED  BY <1>9, <1>10, <2>1, <2>2
<1>12. ASSUME NEW k \in Nat, k \in A PROVE k + 1 \in A
  <2>. SUFFICES ASSUME k + 1 <= N PROVE P(k + 1)
    <3>. HIDE DEF P
    <3>. QED  OBVIOUS
  <2>. SUFFICES ASSUME NEW i \in 1 .. L + 1, L + 1 - i <= k + 1
                PROVE  from[<<node(i), k + 1>>] = Rest(s, i)
    <3>. HIDE DEF node
    <3>. QED  OBVIOUS
  <2>1. k + 1 \in 0 .. N /\ k <= N /\ (k + 1) - 1 = k /\ k + 1 # 0
    BY <1>1
  <2>2. CASE i = L + 1
    BY <1>9, <1>10, <2>1, <2>2
  <2>3. CASE i # L + 1
    <3>1. i \in 1 .. L /\ i + 1 \in 1 .. L + 1 /\ L + 1 - (i + 1) <= k
      BY <1>2, <2>3
    <3>2. from[<<node(i + 1), k>>] = Rest(s, i + 1)
      BY <1>12, <2>1, <3>1
    <3>3. h[s[i]].next = node(i + 1) /\ s[i] \in Items
      <4>1. /\ s[i] \in Items /\ h[s[i]].next = IF i < L THEN s[i + 1] ELSE NULL
        BY <1>2, <3>1
      <4>2. i + 1 = L + 1 <=> ~(i < L)
        BY <1>2, <3>1
      <4>. QED  BY <4>1, <4>2
    <3>. DEFINE m == node(i + 1)
    <3>. HIDE DEF m
    <3>4. from[<<s[i], k + 1>>] = <<s[i]>> \o Rest(s, i + 1)
      <4>1. from[<<s[i], k + 1>>] = <<s[i]>> \o from[<<h[s[i]].next, (k + 1) - 1>>]
        BY <1>1, <1>8, <2>1, <3>3
      <4>. QED  BY <2>1, <3>2, <3>3, <4>1
    <3>5. from[<<s[i], k + 1>>] = Rest(s, i)
      BY <1>2, <3>1, <3>4, RestOfSequence
    <3>. QED  BY <2>3, <3>5
  <2>. QED  BY <2>2, <2>3
<1>13. N \in A
  <2>. HIDE DEF A
  <2>. QED  BY <1>1, <1>11, <1>12, Induct
<1>14. from[<<node(1), N>>] = Rest(s, 1)
  <2>1. 1 \in 1 .. L + 1 /\ L + 1 - 1 <= N
    BY <1>2, <1>3
  <2>. QED  BY <1>1, <1>13, <2>1
<1>15. h[c].child = node(1)
  BY <1>2
<1>. HIDE DEF node
<1>. QED  BY <1>2, <1>7, <1>14, <1>15, RestOfSequence
-----------------------------------------------------------------------------
(* Memory that is in order.                                                *)

Memory(h) ==
  /\ h \in [Items -> Cells]
  /\ \A n \in Items :
       /\ h[n].type = "free" => h[n] = Blank
       /\ h[n].type \notin {"object", "array"} => h[n].child = NULL
       /\ h[n].value \in IF h[n].type = "leaf" THEN LeafValues ELSE {NoKey}

InUse(h) == {n \in Items : h[n].type # "free"}

Members(h) == [c \in Items |-> In(List(h, c))]

\* With roots R.
InOrder(h, R) ==
  /\ Memory(h)
  /\ \A c \in Items : Chain(h, c, List(h, c))
  /\ \A n \in R : h[n].next = NULL
  /\ IsForest(Members(h), InUse(h), R)

SameData(g, h) ==
  \A x \in Items : g[x].type = h[x].type /\ g[x].key = h[x].key /\ g[x].value = h[x].value

\* Between two memories the links of items, and the first members, stay.
LinksKept(g, h, S) ==
  \A x \in Items \ S : g[x].next = h[x].next /\ g[x].prev = h[x].prev

ChildrenKept(g, h, c) == \A x \in Items : x # c => g[x].child = h[x].child

LEMMA SequenceFacts ==
  ASSUME NEW s \in Seq(Items)
  PROVE  /\ Len(s) \in Nat /\ DOMAIN s = 1 .. Len(s)
         /\ \A i \in 1 .. Len(s) : s[i] \in Items /\ s[i] \in In(s)
         /\ In(s) = {s[i] : i \in 1 .. Len(s)} /\ In(s) \subseteq Items
BY DEF In

\* What is to be shown of an operation.
LEMMA InOrderBy ==
  ASSUME NEW g, NEW s, Memory(g), \A c \in Items : Chain(g, c, s[c]),
         NEW Q, \A n \in Q : g[n].next = NULL,
         IsForest([c \in Items |-> In(s[c])], InUse(g), Q)
  PROVE  InOrder(g, Q) /\ \A c \in Items : List(g, c) = s[c]
<1>1. \A c \in Items : List(g, c) = s[c]
  BY ListIs DEF Memory
<1>2. Members(g) = [c \in Items |-> In(s[c])]
  BY <1>1 DEF Members
<1>. QED  BY <1>1, <1>2 DEF InOrder

LEMMA ChainKept ==
  ASSUME NEW h, NEW g, NEW d, NEW s, Chain(h, d, s), g[d].child = h[d].child,
         \A x \in In(s) : g[x].next = h[x].next /\ g[x].prev = h[x].prev
  PROVE  Chain(g, d, s)
<1>1. s \in Seq(Items) /\ \A i \in 1 .. Len(s) : s[i] \in In(s)
  BY SequenceFacts DEF Chain
<1>. QED  BY <1>1 DEF Chain

\* The links of the members of an item.
LEMMA MemberLinks ==
  ASSUME NEW h, NEW R, InOrder(h, R), NEW c \in Items
  PROVE  LET l == List(h, c)
         IN  /\ l \in Seq(Items) /\ Len(l) \in Nat /\ DOMAIN l = 1 .. Len(l)
             /\ \A i \in 1 .. Len(l) : l[i] \in Items /\ l[i] \notin R /\ l[i] \in InUse(h)
             /\ \A i, j \in 1 .. Len(l) : l[i] = l[j] => i = j
             /\ \A d \in Items : d # c => \A i \in 1 .. Len(l) : l[i] \notin In(List(h, d))
             /\ h[c].child = IF Len(l) = 0 THEN NULL ELSE l[1]
             /\ \A i \in 1 .. Len(l) :
                  /\ h[l[i]].next = IF i < Len(l) THEN l[i + 1] ELSE NULL
                  /\ h[l[i]].prev = IF i > 1 THEN l[i - 1] ELSE l[Len(l)]
<1>. DEFINE l == List(h, c)
<1>1. Chain(h, c, l) /\ IsForest(Members(h), InUse(h), R)
  BY DEF InOrder
<1>. HIDE DEF l
<1>2. l \in Seq(Items)
  BY <1>1 DEF Chain
<1>3. \A i \in 1 .. Len(l) : l[i] \in In(l)
  BY <1>2, SequenceFacts
<1>4. /\ In(l) \subseteq InUse(h) \ R
      /\ \A d \in Items : d # c => In(l) \cap In(List(h, d)) = {}
  <2>1. Members(h)[c] = In(l) /\ \A d \in Items : Members(h)[d] = In(List(h, d))
    BY DEF Members, l
  <2>. QED  BY <1>1, <2>1 DEF IsForest
<1>5. \A i \in 1 .. Len(l) : l[i] \in InUse(h) \ R
  BY <1>3, <1>4
<1>6. /\ Len(l) \in Nat /\ DOMAIN l = 1 .. Len(l)
      /\ \A i \in 1 .. Len(l) : l[i] \in Items
  BY <1>2, SequenceFacts
<1>. QED  BY <1>1, <1>2, <1>3, <1>4, <1>5, <1>6 DEF Chain, l

Link(v) == v \in Items \/ v = NULL

LEMMA LinksAre == Link(NULL) /\ \A x \in Items : Link(x)
BY DEF Link

\* One link is set.
ChildSet(g, h, x, v) == g = [h EXCEPT ![x].child = v]
NextSet(g, h, x, v) == g = [h EXCEPT ![x].next = v]
PrevSet(g, h, x, v) == g = [h EXCEPT ![x].prev = v]

LEMMA SetChild ==
  ASSUME NEW h \in [Items -> Cells], NEW x \in Items, NEW v, Link(v),
         NEW g, ChildSet(g, h, x, v)
  PROVE  /\ g \in [Items -> Cells] /\ SameData(g, h)
         /\ \A y \in Items : /\ g[y].child = IF y = x THEN v ELSE h[y].child
                             /\ g[y].next = h[y].next /\ g[y].prev = h[y].prev
<1>. h[x] \in Cells
  OBVIOUS
<1>. QED  BY DEF Cells, SameData, Link, ChildSet

LEMMA SetNext ==
  ASSUME NEW h \in [Items -> Cells], NEW x \in Items, NEW v, Link(v),
         NEW g, NextSet(g, h, x, v)
  PROVE  /\ g \in [Items -> Cells] /\ SameData(g, h)
         /\ \A y \in Items : /\ g[y].next = IF y = x THEN v ELSE h[y].next
                             /\ g[y].child = h[y].child /\ g[y].prev = h[y].prev
<1>. h[x] \in Cells
  OBVIOUS
<1>. QED  BY DEF Cells, SameData, Link, NextSet

LEMMA SetPrev ==
  ASSUME NEW h \in [Items -> Cells], NEW x \in Items, NEW v, Link(v),
         NEW g, PrevSet(g, h, x, v)
  PROVE  /\ g \in [Items -> Cells] /\ SameData(g, h)
         /\ \A y \in Items : /\ g[y].prev = IF y = x THEN v ELSE h[y].prev
                             /\ g[y].child = h[y].child /\ g[y].next = h[y].next
<1>. h[x] \in Cells
  OBVIOUS
<1>. QED  BY DEF Cells, SameData, Link, PrevSet

LEMMA MemoryKept ==
  ASSUME NEW h, Memory(h), NEW g \in [Items -> Cells], SameData(g, h),
         \A x \in Items : x \notin InUse(h) => g[x].next = h[x].next /\ g[x].prev = h[x].prev,
         \A x \in Items : h[x].type \notin {"object", "array"} => g[x].child = h[x].child
  PROVE  Memory(g) /\ InUse(g) = InUse(h)
<1>1. InUse(g) = InUse(h)
  BY DEF SameData, InUse
<1>2. ASSUME NEW x \in Items, g[x].type = "free" PROVE g[x] = Blank
  <2>1. h[x] = Blank /\ x \notin InUse(h)
    BY <1>2 DEF Memory, SameData, InUse
  <2>2. /\ g[x].type = "free" /\ g[x].child = NULL /\ g[x].next = NULL /\ g[x].prev = NULL
        /\ g[x].key = NoKey /\ g[x].value = NoKey
    BY <2>1 DEF SameData, Blank
  <2>3. g[x] \in Cells
    OBVIOUS
  <2>. QED  BY <2>2, <2>3 DEF Cells, Blank
<1>. QED  BY <1>1, <1>2 DEF Memory, SameData

\* A sequence with an item more.
LEMMA WithItem ==
  ASSUME NEW s \in Seq(Items), NEW k \in 1 .. Len(s) + 1, NEW n \in Items,
         \A i, j \in 1 .. Len(s) : s[i] = s[j] => i = j, n \notin In(s)
  PROVE  LET t == Document!With(s, k, n)
         IN  /\ t \in Seq(Items) /\ Len(t) = Len(s) + 1 /\ In(t) = In(s) \cup {n}
             /\ \A i \in 1 .. Len(s) + 1 :
                  t[i] = IF i < k THEN s[i] ELSE IF i = k THEN n ELSE s[i - 1]
             /\ \A i, j \in 1 .. Len(t) : t[i] = t[j] => i = j
<1>. DEFINE t == Document!With(s, k, n)
            L == Len(s)
<1>1. /\ L \in Nat /\ \A i \in 1 .. L : s[i] \in Items /\ s[i] \in In(s) /\ s[i] # n
      /\ In(s) = {s[i] : i \in 1 .. L}
  BY SequenceFacts
<1>2. /\ t = [i \in 1 .. L + 1 |-> IF i < k THEN s[i] ELSE IF i = k THEN n ELSE s[i - 1]]
  BY DEF Document!With
<1>3. \A i \in 1 .. L + 1 : t[i] = IF i < k THEN s[i] ELSE IF i = k THEN n ELSE s[i - 1]
  BY <1>2
<1>4. \A i \in 1 .. L + 1 : /\ i < k => i \in 1 .. L
                            /\ ~(i < k) /\ i # k => i - 1 \in 1 .. L
  BY <1>1
<1>5. t \in Seq(Items) /\ Len(t) = L + 1 /\ DOMAIN t = 1 .. L + 1
  <2>1. \A i \in 1 .. L + 1 : t[i] \in Items
    BY <1>1, <1>3, <1>4
  <2>. QED  BY <1>1, <1>2, <2>1
<1>. HIDE DEF t
<1>6. ASSUME NEW x PROVE x \in In(t) <=> x \in In(s) \cup {n}
  <2>1. ASSUME x \in In(t) PROVE x \in In(s) \cup {n}
    <3>1. PICK i \in 1 .. L + 1 : x = t[i]
      BY <1>5, <2>1 DEF In
    <3>. QED  BY <1>1, <1>3, <1>4, <3>1
  <2>2. ASSUME x = n PROVE x \in In(t)
    BY <1>1, <1>3, <1>5, <2>2 DEF In
  <2>3. ASSUME x \in In(s) PROVE x \in In(t)
    <3>1. PICK i \in 1 .. L : x = s[i]
      BY <1>1, <2>3
    <3>2. CASE i < k
      <4>1. i \in 1 .. L + 1 /\ t[i] = x
        BY <1>1, <1>3, <3>1, <3>2
      <4>. QED  BY <1>5, <4>1 DEF In
    <3>3. CASE ~(i < k)
      <4>1. i + 1 \in 1 .. L + 1 /\ ~(i + 1 < k) /\ i + 1 # k /\ (i + 1) - 1 = i
        BY <1>1, <3>1, <3>3
      <4>2. t[i + 1] = x
        BY <1>3, <3>1, <4>1
      <4>. QED  BY <1>5, <4>1, <4>2 DEF In
    <3>. QED  BY <3>2, <3>3
  <2>. QED  BY <2>1, <2>2, <2>3
<1>7. ASSUME NEW i \in 1 .. L + 1, NEW j \in 1 .. L + 1, t[i] = t[j] PROVE i = j
  <2>1. CASE i = k \/ j = k
    BY <1>1, <1>3, <1>4, <1>7, <2>1
  <2>2. CASE i # k /\ j # k
    <3>. DEFINE at(m) == IF m < k THEN m ELSE m - 1
    <3>1. \A m \in 1 .. L + 1 : m # k => at(m) \in 1 .. L /\ t[m] = s[at(m)]
      BY <1>3, <1>4
    <3>2. at(i) = at(j)
      <4>. HIDE DEF at
      <4>. QED  BY <1>7, <2>2, <3>1
    <3>. QED  BY <1>1, <2>2, <3>2
  <2>. QED  BY <2>1, <2>2
<1>8. In(t) = In(s) \cup {n}
  BY <1>6
<1>. QED  BY <1>3, <1>5, <1>7, <1>8 DEF t

\* A sequence with an item less.
LEMMA WithoutItem ==
  ASSUME NEW s \in Seq(Items), NEW k \in 1 .. Len(s),
         \A i, j \in 1 .. Len(s) : s[i] = s[j] => i = j
  PROVE  LET t == Document!Without(s, k)
         IN  /\ t \in Seq(Items) /\ Len(t) = Len(s) - 1 /\ In(t) = In(s) \ {s[k]}
             /\ \A i \in 1 .. Len(s) - 1 : t[i] = IF i < k THEN s[i] ELSE s[i + 1]
             /\ \A i, j \in 1 .. Len(t) : t[i] = t[j] => i = j
<1>. DEFINE t == Document!Without(s, k)
            L == Len(s)
<1>1. /\ L \in Nat /\ \A i \in 1 .. L : s[i] \in Items /\ s[i] \in In(s)
      /\ In(s) = {s[i] : i \in 1 .. L}
  BY SequenceFacts
<1>2. t = [i \in 1 .. L - 1 |-> IF i < k THEN s[i] ELSE s[i + 1]]
  BY DEF Document!Without
<1>. DEFINE at(i) == IF i < k THEN i ELSE i + 1
<1>3. \A i \in 1 .. L - 1 : t[i] = s[at(i)] /\ at(i) \in 1 .. L /\ at(i) # k
  BY <1>1, <1>2
<1>4. t \in Seq(Items) /\ Len(t) = L - 1 /\ DOMAIN t = 1 .. L - 1
  <2>1. \A i \in 1 .. L - 1 : t[i] \in Items
    BY <1>1, <1>3
  <2>2. L - 1 \in Nat
    BY <1>1
  <2>. QED  BY <1>2, <2>1, <2>2
<1>5. \A i \in 1 .. L - 1 : t[i] = IF i < k THEN s[i] ELSE s[i + 1]
  BY <1>2
<1>. HIDE DEF t
<1>6. ASSUME NEW x PROVE x \in In(t) <=> x \in In(s) \ {s[k]}
  <2>1. ASSUME x \in In(t) PROVE x \in In(s) \ {s[k]}
    <3>1. PICK i \in 1 .. L - 1 : x = t[i]
      BY <1>4, <2>1 DEF In
    <3>. HIDE DEF at
    <3>. QED  BY <1>1, <1>3, <3>1
  <2>2. ASSUME x \in In(s) \ {s[k]} PROVE x \in In(t)
    <3>1. PICK i \in 1 .. L : x = s[i] /\ i # k
      BY <1>1, <2>2
    <3>2. CASE i < k
      <4>1. i \in 1 .. L - 1 /\ at(i) = i
        BY <1>1, <3>1, <3>2
      <4>. HIDE DEF at
      <4>. QED  BY <1>3, <1>4, <3>1, <4>1 DEF In
    <3>3. CASE ~(i < k)
      <4>1. i - 1 \in 1 .. L - 1 /\ at(i - 1) = i
        BY <1>1, <3>1, <3>3
      <4>. HIDE DEF at
      <4>. QED  BY <1>3, <1>4, <3>1, <4>1 DEF In
    <3>. QED  BY <3>1, <3>2, <3>3
  <2>. QED  BY <2>1, <2>2
<1>7. ASSUME NEW i \in 1 .. L - 1, NEW j \in 1 .. L - 1, t[i] = t[j] PROVE i = j
  <2>1. at(i) = at(j)
    <3>. HIDE DEF at
    <3>. QED  BY <1>3, <1>7
  <2>. QED  BY <1>1, <2>1
<1>8. In(t) = In(s) \ {s[k]}
  BY <1>6
<1>. QED  BY <1>4, <1>5, <1>7, <1>8 DEF t

\* A sequence with another item in a place.
LEMMA OtherItem ==
  ASSUME NEW s \in Seq(Items), NEW k \in 1 .. Len(s), NEW n \in Items,
         \A i, j \in 1 .. Len(s) : s[i] = s[j] => i = j, n \notin In(s)
  PROVE  LET t == [s EXCEPT ![k] = n]
         IN  /\ t \in Seq(Items) /\ Len(t) = Len(s) /\ In(t) = (In(s) \ {s[k]}) \cup {n}
             /\ \A i \in 1 .. Len(s) : t[i] = IF i = k THEN n ELSE s[i]
             /\ \A i, j \in 1 .. Len(t) : t[i] = t[j] => i = j
<1>. DEFINE t == [s EXCEPT ![k] = n]
            L == Len(s)
<1>1. /\ L \in Nat /\ \A i \in 1 .. L : s[i] \in Items /\ s[i] \in In(s) /\ s[i] # n
      /\ In(s) = {s[i] : i \in 1 .. L}
  BY SequenceFacts
<1>2. /\ t \in Seq(Items) /\ Len(t) = L /\ DOMAIN t = 1 .. L
      /\ \A i \in 1 .. L : t[i] = IF i = k THEN n ELSE s[i]
  BY <1>1
<1>. HIDE DEF t
<1>3. In(t) = {t[i] : i \in 1 .. L}
  BY <1>2 DEF In
<1>4. In(t) = (In(s) \ {s[k]}) \cup {n}
  BY <1>1, <1>2, <1>3
<1>5. \A i, j \in 1 .. L : t[i] = t[j] => i = j
  BY <1>1, <1>2
<1>. QED  BY <1>2, <1>4, <1>5 DEF t
\* Levels that are defined by recursion are of items.
LEMMA LevelsOfItems ==
  ASSUME NEW M \in [Items -> SUBSET Items], NEW n \in Items, NEW t,
         t[0] = {n},
         \A i \in 1 .. Cardinality(Items) :
           t[i - 1] \subseteq Items => t[i] = UNION {{c} \cup M[c] : c \in t[i - 1]}
  PROVE  Grows(M, n, t)
<1>. DEFINE N == Cardinality(Items)
            A == {i \in Nat : i <= N => t[i] \subseteq Items}
<1>1. N \in Nat
  BY ItemsAssumption, FS_CardinalityType
<1>2. 0 \in A
  OBVIOUS
<1>3. ASSUME NEW i \in Nat, i \in A PROVE i + 1 \in A
  <2>. SUFFICES ASSUME i + 1 <= N PROVE t[i + 1] \subseteq Items
    OBVIOUS
  <2>1. i + 1 \in 1 .. N /\ (i + 1) - 1 = i /\ t[i] \subseteq Items
    BY <1>1, <1>3
  <2>2. t[i + 1] = UNION {{c} \cup M[c] : c \in t[i]}
    BY <2>1
  <2>. QED  BY <2>1, <2>2
<1>4. \A i \in 1 .. N : i - 1 \in A /\ i - 1 <= N
  <2>. HIDE DEF A
  <2>1. Nat \subseteq A
    BY <1>2, <1>3, Induct
  <2>. QED  BY <1>1, <2>1
<1>. QED  BY <1>4 DEF Grows

\* What is reachable by lists is a tree.
LEMMA SubtreeIsTree ==
  ASSUME NEW h, \A c \in Items : List(h, c) \in Seq(Items), NEW n \in Items
  PROVE  IsTree(Members(h), Subtree(h, n), n)
<1>. DEFINE N == Cardinality(Items)
            M == Members(h)
            IsLevels(t) == t = [i \in 0 .. N |-> IF i = 0 THEN {n}
                                     ELSE UNION {{c} \cup In(List(h, c)) : c \in t[i - 1]}]
            t == CHOOSE t : IsLevels(t)
<1>1. M \in [Items -> SUBSET Items] /\ \A c \in Items : M[c] = In(List(h, c))
  BY SequenceFacts DEF Members
<1>2. N \in Nat
  BY ItemsAssumption, FS_CardinalityType
<1>. HIDE DEF M
<1>3. \E u : IsLevels(u)
  <2>1. PICK u \in [0 .. N -> SUBSET Items] :
          u = [i \in 0 .. N |-> IF i = 0 THEN {n} ELSE UNION {{c} \cup M[c] : c \in u[i - 1]}]
    <3>1. M \in [Items -> SUBSET Items] /\ n \in Items
      BY <1>1
    <3>. QED  BY <3>1, LevelsAreThere
  <2>2. \A i \in 0 .. N : i # 0 =>
          {{c} \cup M[c] : c \in u[i - 1]} = {{c} \cup In(List(h, c)) : c \in u[i - 1]}
    <3>. TAKE i \in 0 .. N
    <3>. HAVE i # 0
    <3>1. u[i - 1] \subseteq Items
      <4>1. i - 1 \in 0 .. N
        BY <1>2
      <4>. QED  BY <4>1
    <3>. QED  BY <1>1, <3>1
  <2>3. IsLevels(u)
    BY <2>1, <2>2
  <2>. HIDE DEF IsLevels
  <2>. QED  BY <2>3
<1>4. IsLevels(t)
  <2>. HIDE DEF IsLevels
  <2>. QED  BY <1>3
<1>5. Subtree(h, n) = t[N]
  BY DEF Subtree
<1>. HIDE DEF t
<1>6. t[0] = {n} /\ \A i \in 1 .. N : t[i] = UNION {{c} \cup In(List(h, c)) : c \in t[i - 1]}
  <2>1. 0 \in 0 .. N /\ \A i \in 1 .. N : i \in 0 .. N /\ i # 0
    BY <1>2
  <2>. QED  BY <1>4, <2>1
<1>7. Grows(M, n, t)
  <2>1. ASSUME NEW i \in 1 .. N, t[i - 1] \subseteq Items
        PROVE  t[i] = UNION {{c} \cup M[c] : c \in t[i - 1]}
    <3>1. {{c} \cup M[c] : c \in t[i - 1]} = {{c} \cup In(List(h, c)) : c \in t[i - 1]}
      BY <1>1, <2>1
    <3>. QED  BY <1>6, <3>1
  <2>. HIDE DEF N
  <2>. QED  BY <1>1, <1>6, <2>1, LevelsOfItems DEF N
<1>8. IsTree(M, t[N], n)
  BY <1>1, <1>7, LevelsMakeTree
<1>. QED  BY <1>5, <1>8 DEF M

\* The tree is one and does not change when what is not in it changes.
LEMMA SameTree ==
  ASSUME NEW M, NEW K, NEW T, NEW S, NEW n, IsTree(M, T, n), IsTree(K, S, n),
         \A x \in T : K[x] = M[x]
  PROVE  S = T
<1>1. WholeIn(K, T) /\ T \in SUBSET Items /\ n \in T
  BY DEF IsTree, WholeIn
<1>2. S \subseteq T
  BY <1>1 DEF IsTree
<1>3. WholeIn(M, S) /\ S \in SUBSET Items /\ n \in S
  BY <1>2 DEF IsTree, WholeIn
<1>. QED  BY <1>2, <1>3 DEF IsTree

LEMMA TreeOfItem ==
  ASSUME NEW h, NEW R, InOrder(h, R), NEW n \in InUse(h)
  PROVE  /\ IsTree(Members(h), Subtree(h, n), n) /\ IsForest(Members(h), InUse(h), R)
         /\ Members(h) \in [Items -> SUBSET Items]
         /\ \A c \in Items : Members(h)[c] = In(List(h, c)) /\ List(h, c) \in Seq(Items)
         /\ Subtree(h, n) \subseteq InUse(h) /\ n \in Subtree(h, n) /\ R \subseteq InUse(h)
<1>1. /\ \A c \in Items : Members(h)[c] = In(List(h, c)) /\ List(h, c) \in Seq(Items)
      /\ IsForest(Members(h), InUse(h), R)
  BY DEF InOrder, Chain, Members
<1>2. n \in Items
  BY DEF InUse
<1>3. IsTree(Members(h), Subtree(h, n), n)
  BY <1>1, <1>2, SubtreeIsTree
<1>4. Subtree(h, n) \subseteq InUse(h)
  BY <1>1, <1>3, TreeInForest
<1>5. Members(h) \in [Items -> SUBSET Items] /\ R \subseteq InUse(h)
  BY <1>1 DEF IsForest
<1>6. n \in Subtree(h, n)
  BY <1>3 DEF IsTree
<1>. QED  BY <1>1, <1>3, <1>4, <1>5, <1>6

\* From h to g an item has other members.
MembersWritten(g, h, c, new) ==
  \A d \in Items : List(g, d) = IF d = c THEN new ELSE List(h, d)

\* A root becomes member k of c.
LEMMA MemberIn ==
  ASSUME NEW h, NEW R, InOrder(h, R), NEW n \in R, NEW c \in InUse(h),
         h[c].type \in {"object", "array"}, c \notin Subtree(h, n),
         NEW k \in 1 .. Len(List(h, c)) + 1,
         NEW g \in [Items -> Cells], SameData(g, h),
         Chain(g, c, Document!With(List(h, c), k, n)),
         ChildrenKept(g, h, c), LinksKept(g, h, In(List(h, c)) \cup {n})
  PROVE  /\ InOrder(g, R \ {n})
         /\ MembersWritten(g, h, c, Document!With(List(h, c), k, n))
<1>. DEFINE l == List(h, c)
            t == Document!With(List(h, c), k, n)
            s == [d \in Items |-> IF d = c THEN t ELSE List(h, d)]
            M == Members(h)
<1>0. /\ \A x \in Items : x # c => g[x].child = h[x].child
      /\ \A x \in Items : x # n /\ x \notin In(List(h, c)) =>
           g[x].next = h[x].next /\ g[x].prev = h[x].prev
  BY DEF ChildrenKept, LinksKept
<1>1. /\ M \in [Items -> SUBSET Items] /\ IsForest(M, InUse(h), R) /\ R \subseteq InUse(h)
      /\ IsTree(M, Subtree(h, n), n) /\ \A d \in Items : M[d] = In(List(h, d))
  <2>1. n \in InUse(h)
    BY DEF InOrder, IsForest
  <2>. QED  BY <2>1, TreeOfItem
<1>2. c \in Items /\ n \in Items
  BY <1>1 DEF InUse
<1>3. \A d \in Items : n \notin M[d] /\ M[d] \subseteq InUse(h)
  BY <1>1 DEF IsForest
<1>4. In(t) = In(l) \cup {n}
  <2>1. l \in Seq(Items) /\ \A i, j \in 1 .. Len(l) : l[i] = l[j] => i = j
    BY <1>2, MemberLinks
  <2>2. n \notin In(l)
    BY <1>1, <1>2, <1>3
  <2>. QED  BY <1>2, <2>1, <2>2, WithItem
<1>5. Memory(g) /\ InUse(g) = InUse(h)
  <2>1. \A x \in Items : x \notin InUse(h) => x # n /\ x \notin In(l)
    BY <1>1, <1>2, <1>3
  <2>2. Memory(h)
    BY DEF InOrder
  <2>. QED  BY <1>0, <2>1, <2>2, MemoryKept
<1>6. \A d \in Items : Chain(g, d, s[d])
  <2>. TAKE d \in Items
  <2>1. CASE d = c
    BY <1>2, <2>1
  <2>2. CASE d # c
    <3>1. Chain(h, d, List(h, d))
      BY DEF InOrder
    <3>2. \A x \in In(List(h, d)) : x \in Items /\ x # n /\ x \notin In(l)
      BY <1>1, <1>2, <1>3, <2>2 DEF IsForest
    <3>3. Chain(g, d, List(h, d))
      BY <1>0, <2>2, <3>1, <3>2, ChainKept
    <3>. QED  BY <2>2, <3>3
  <2>. QED  BY <2>1, <2>2
<1>7. \A x \in R \ {n} : g[x].next = NULL
  <2>. TAKE x \in R \ {n}
  <2>1. x \in Items /\ x \notin In(l)
    <3>1. M[c] \subseteq InUse(h) \ R /\ x \in Items
      BY <1>1, <1>2 DEF IsForest
    <3>. QED  BY <1>1, <1>2, <3>1
  <2>2. g[x].next = h[x].next
    BY <1>0, <2>1
  <2>. QED  BY <2>2 DEF InOrder
<1>8. [d \in Items |-> In(s[d])] = [M EXCEPT ![c] = @ \cup {n}]
  BY <1>1, <1>2, <1>4
<1>9. IsForest([M EXCEPT ![c] = @ \cup {n}], InUse(h), R \ {n})
  <2>. HIDE DEF M
  <2>. QED  BY <1>1, ForestJoins
<1>10. \A d \in Items : s[d] = IF d = c THEN t ELSE List(h, d)
  OBVIOUS
<1>. HIDE DEF s, t
<1>11. InOrder(g, R \ {n}) /\ \A d \in Items : List(g, d) = s[d]
  BY <1>5, <1>6, <1>7, <1>8, <1>9, InOrderBy
<1>. QED  BY <1>10, <1>11 DEF t, MembersWritten

\* Member k of c becomes a root.
LEMMA MemberOut ==
  ASSUME NEW h, NEW R, InOrder(h, R), NEW c \in InUse(h), NEW k \in 1 .. Len(List(h, c)),
         NEW g \in [Items -> Cells], SameData(g, h),
         Chain(g, c, Document!Without(List(h, c), k)), g[List(h, c)[k]].next = NULL,
         ChildrenKept(g, h, c), LinksKept(g, h, In(List(h, c)))
  PROVE  /\ InOrder(g, R \cup {List(h, c)[k]})
         /\ MembersWritten(g, h, c, Document!Without(List(h, c), k))
<1>. DEFINE l == List(h, c)
            t == Document!Without(List(h, c), k)
            n == l[k]
            s == [d \in Items |-> IF d = c THEN t ELSE List(h, d)]
            M == Members(h)
<1>0. /\ \A x \in Items : x # c => g[x].child = h[x].child
      /\ \A x \in Items : x \notin In(List(h, c)) =>
           g[x].next = h[x].next /\ g[x].prev = h[x].prev
  BY DEF ChildrenKept, LinksKept
<1>1. /\ M \in [Items -> SUBSET Items] /\ IsForest(M, InUse(h), R) /\ R \subseteq InUse(h)
      /\ \A d \in Items : M[d] = In(List(h, d))
  BY TreeOfItem
<1>2. c \in Items
  BY DEF InUse
<1>3. l \in Seq(Items) /\ n \in In(l) /\ \A i, j \in 1 .. Len(l) : l[i] = l[j] => i = j
  BY <1>2, MemberLinks, SequenceFacts
<1>4. In(t) = In(l) \ {n}
  BY <1>3, WithoutItem
<1>5. Memory(g) /\ InUse(g) = InUse(h)
  <2>1. \A x \in Items : x \notin InUse(h) => x \notin In(l)
    BY <1>1, <1>2 DEF IsForest
  <2>2. \A x \in Items : h[x].type \notin {"object", "array"} => g[x].child = h[x].child
    <3>1. c \in Items /\ h[c].type \notin {"object", "array"} => In(l) = {}
      <4>1. ASSUME h[c].type \notin {"object", "array"} PROVE l = <<>>
        <5>1. h[c].child = NULL /\ h[c].child = IF Len(l) = 0 THEN NULL ELSE l[1]
          BY <1>2, <4>1, MemberLinks DEF InOrder, Memory
        <5>2. Len(l) # 0 => l[1] \in Items
          BY <1>3
        <5>. QED  BY <1>3, <5>1, <5>2, ItemsAssumption
      <4>. QED  BY <1>2, <4>1 DEF In
    <3>. QED  BY <1>0, <1>3, <3>1
  <2>3. Memory(h)
    BY DEF InOrder
  <2>. QED  BY <1>0, <2>1, <2>2, <2>3, MemoryKept
<1>6. \A d \in Items : Chain(g, d, s[d])
  <2>. TAKE d \in Items
  <2>1. CASE d = c
    BY <1>2, <2>1
  <2>2. CASE d # c
    <3>1. Chain(h, d, List(h, d))
      BY DEF InOrder
    <3>2. \A x \in In(List(h, d)) : x \in Items /\ x \notin In(l)
      BY <1>1, <1>2, <2>2 DEF IsForest
    <3>3. Chain(g, d, List(h, d))
      BY <1>0, <2>2, <3>1, <3>2, ChainKept
    <3>. QED  BY <2>2, <3>3
  <2>. QED  BY <2>1, <2>2
<1>7. \A x \in R \cup {n} : g[x].next = NULL
  <2>. TAKE x \in R \cup {n}
  <2>1. CASE x # n
    <3>1. M[c] \subseteq InUse(h) \ R /\ x \in Items /\ x \in R
      BY <1>1, <1>2, <2>1 DEF IsForest
    <3>2. g[x].next = h[x].next
      BY <1>0, <1>1, <1>2, <3>1
    <3>. QED  BY <3>1, <3>2 DEF InOrder
  <2>. QED  BY <2>1
<1>8. [d \in Items |-> In(s[d])] = [M EXCEPT ![c] = @ \ {n}]
  BY <1>1, <1>2, <1>4
<1>9. IsForest([M EXCEPT ![c] = @ \ {n}], InUse(h), R \cup {n})
  <2>1. n \in M[c]
    BY <1>1, <1>2, <1>3
  <2>. HIDE DEF M, n
  <2>. QED  BY <1>1, <2>1, ForestLeaves
<1>10. \A d \in Items : s[d] = IF d = c THEN t ELSE List(h, d)
  OBVIOUS
<1>. HIDE DEF s, t, n
<1>11. InOrder(g, R \cup {n}) /\ \A d \in Items : List(g, d) = s[d]
  BY <1>5, <1>6, <1>7, <1>8, <1>9, InOrderBy
<1>. QED  BY <1>10, <1>11 DEF t, n, MembersWritten

\* A sequence with another item in a place.
Changed(s, k, n) == [s EXCEPT ![k] = n]

\* A root takes the place of member k of c, which becomes a root.
LEMMA MemberChanged ==
  ASSUME NEW h, NEW R, InOrder(h, R), NEW n \in R, NEW c \in InUse(h),
         c \notin Subtree(h, n), NEW k \in 1 .. Len(List(h, c)),
         NEW g \in [Items -> Cells], SameData(g, h),
         Chain(g, c, Changed(List(h, c), k, n)), g[List(h, c)[k]].next = NULL,
         ChildrenKept(g, h, c), LinksKept(g, h, In(List(h, c)) \cup {n})
  PROVE  /\ InOrder(g, (R \cup {List(h, c)[k]}) \ {n})
         /\ MembersWritten(g, h, c, Changed(List(h, c), k, n))
<1>. DEFINE l == List(h, c)
            t == Changed(List(h, c), k, n)
            old == l[k]
            s == [d \in Items |-> IF d = c THEN t ELSE List(h, d)]
            M == Members(h)
            K == [M EXCEPT ![c] = @ \ {old}]
            T == Subtree(h, n)
            Q == R \cup {old}
<1>0. /\ \A x \in Items : x # c => g[x].child = h[x].child
      /\ \A x \in Items : x # n /\ x \notin In(List(h, c)) =>
           g[x].next = h[x].next /\ g[x].prev = h[x].prev
  BY DEF ChildrenKept, LinksKept
<1>1. /\ M \in [Items -> SUBSET Items] /\ IsForest(M, InUse(h), R) /\ R \subseteq InUse(h)
      /\ \A d \in Items : M[d] = In(List(h, d))
      /\ IsTree(M, T, n)
  <2>1. n \in InUse(h)
    BY DEF InOrder, IsForest
  <2>. QED  BY <2>1, TreeOfItem
<1>2. c \in Items /\ n \in Items
  BY <1>1 DEF InUse
<1>3. /\ l \in Seq(Items) /\ old \in In(l) /\ old \in Items
      /\ \A i, j \in 1 .. Len(l) : l[i] = l[j] => i = j
  BY <1>2, MemberLinks, SequenceFacts
<1>4. \A d \in Items : n \notin M[d] /\ M[d] \subseteq InUse(h)
  BY <1>1 DEF IsForest
<1>5. In(t) = (In(l) \ {old}) \cup {n}
  BY <1>1, <1>2, <1>3, <1>4, OtherItem DEF Changed
<1>6. Memory(g) /\ InUse(g) = InUse(h)
  <2>1. \A x \in Items : x \notin InUse(h) => x # n /\ x \notin In(l)
    BY <1>1, <1>2, <1>4
  <2>2. \A x \in Items : h[x].type \notin {"object", "array"} => g[x].child = h[x].child
    <3>1. c \in Items /\ h[c].type \in {"object", "array"}
      <4>1. h[c].child # NULL
        <5>1. h[c].child = IF Len(l) = 0 THEN NULL ELSE l[1]
          BY <1>2, MemberLinks
        <5>2. Len(l) # 0 /\ l[1] \in Items
          BY <1>3
        <5>. QED  BY <5>1, <5>2, ItemsAssumption
      <4>. QED  BY <1>2, <4>1 DEF InOrder, Memory
    <3>. QED  BY <1>0, <3>1
  <2>3. Memory(h)
    BY DEF InOrder
  <2>. QED  BY <1>0, <2>1, <2>2, <2>3, MemoryKept
<1>7. \A d \in Items : Chain(g, d, s[d])
  <2>. TAKE d \in Items
  <2>1. CASE d = c
    BY <1>2, <2>1
  <2>2. CASE d # c
    <3>1. Chain(h, d, List(h, d))
      BY DEF InOrder
    <3>2. \A x \in In(List(h, d)) : x \in Items /\ x # n /\ x \notin In(l)
      BY <1>1, <1>2, <1>4, <2>2 DEF IsForest
    <3>3. Chain(g, d, List(h, d))
      BY <1>0, <2>2, <3>1, <3>2, ChainKept
    <3>. QED  BY <2>2, <3>3
  <2>. QED  BY <2>1, <2>2
<1>8. \A x \in Q \ {n} : g[x].next = NULL
  <2>. TAKE x \in Q \ {n}
  <2>1. CASE x # old
    <3>1. M[c] \subseteq InUse(h) \ R /\ x \in Items /\ x \in R
      BY <1>1, <1>2, <2>1 DEF IsForest
    <3>2. g[x].next = h[x].next
      BY <1>0, <1>1, <1>2, <3>1
    <3>. QED  BY <3>1, <3>2 DEF InOrder
  <2>. QED  BY <2>1
<1>9. [d \in Items |-> In(s[d])] = [K EXCEPT ![c] = @ \cup {n}]
  BY <1>1, <1>2, <1>5
<1>. HIDE DEF M, T, t, s
<1>10. IsForest(K, InUse(h), Q)
  <2>1. old \in M[c]
    BY <1>1, <1>2, <1>3
  <2>. HIDE DEF old
  <2>. QED  BY <1>1, <2>1, ForestLeaves
<1>. HIDE DEF old
<1>11. K \in [Items -> SUBSET Items] /\ \A x \in Items : K[x] \subseteq M[x]
  BY <1>1, <1>2
<1>. HIDE DEF K
<1>12. PICK S : IsTree(K, S, n)
  <2>1. PICK u : Grows(K, n, u)
    BY <1>2, <1>11, LevelsAreThere
  <2>. QED  BY <1>2, <1>11, <2>1, LevelsMakeTree
<1>13. c \notin S
  <2>1. T \in SUBSET Items /\ n \in T /\ WholeIn(K, T)
    BY <1>1, <1>11 DEF IsTree, WholeIn
  <2>2. S \subseteq T
    BY <1>12, <2>1 DEF IsTree
  <2>. QED  BY <2>2 DEF T
<1>14. n \in Q
  OBVIOUS
<1>15. IsForest([K EXCEPT ![c] = @ \cup {n}], InUse(h), Q \ {n})
  <2>. HIDE DEF Q
  <2>. QED  BY <1>10, <1>12, <1>13, <1>14, ForestJoins
<1>16. \A d \in Items : s[d] = IF d = c THEN t ELSE List(h, d)
  BY DEF s
<1>17. InOrder(g, Q \ {n}) /\ \A d \in Items : List(g, d) = s[d]
  BY <1>6, <1>7, <1>8, <1>9, <1>15, InOrderBy
<1>. QED  BY <1>16, <1>17 DEF t, Q, old, MembersWritten

-----------------------------------------------------------------------------
(* The operations on links and what they are on lists.                     *)

\* add_item_to_array().
LEMMA Appends ==
  ASSUME NEW h, NEW R, InOrder(h, R), NEW n \in R, NEW c \in InUse(h),
         h[c].type \in {"object", "array"}, c \notin Subtree(h, n)
  PROVE  /\ InOrder(Appended(h, c, n), R \ {n}) /\ SameData(Appended(h, c, n), h)
         /\ MembersWritten(Appended(h, c, n), h, c, Document!With(List(h, c), Len(List(h, c)) + 1, n))
<1>. DEFINE l == List(h, c)
            L == Len(l)
            t == Document!With(l, L + 1, n)
            g == Appended(h, c, n)
<1>1. h \in [Items -> Cells] /\ n \in InUse(h) /\ n \in Items /\ c \in Items /\ n # c
  <2>1. h \in [Items -> Cells] /\ n \in InUse(h)
    BY DEF InOrder, Memory, IsForest
  <2>. QED  BY <2>1, TreeOfItem DEF InUse
<1>2. /\ l \in Seq(Items) /\ L \in Nat /\ \A i \in 1 .. L : l[i] \in Items /\ l[i] # n
      /\ \A i, j \in 1 .. L : l[i] = l[j] => i = j
      /\ h[c].child = IF L = 0 THEN NULL ELSE l[1]
      /\ \A i \in 1 .. L : /\ h[l[i]].next = IF i < L THEN l[i + 1] ELSE NULL
                           /\ h[l[i]].prev = IF i > 1 THEN l[i - 1] ELSE l[L]
      /\ h[n].next = NULL
  <2>1. h[n].next = NULL
    BY DEF InOrder
  <2>. QED  BY <1>1, <2>1, MemberLinks
<1>3. In(l) = {l[i] : i \in 1 .. L} /\ n \notin In(l)
  BY <1>2, SequenceFacts
<1>4. /\ t \in Seq(Items) /\ Len(t) = L + 1
      /\ \A i \in 1 .. L + 1 : t[i] = IF i < L + 1 THEN l[i] ELSE n
      /\ \A i, j \in 1 .. Len(t) : t[i] = t[j] => i = j
  <2>1. L + 1 \in 1 .. L + 1
    BY <1>2
  <2>2. /\ t \in Seq(Items) /\ Len(t) = L + 1
        /\ \A i \in 1 .. L + 1 : t[i] = IF i < L + 1 THEN l[i] ELSE IF i = L + 1 THEN n ELSE l[i - 1]
        /\ \A i, j \in 1 .. Len(t) : t[i] = t[j] => i = j
    BY <1>1, <1>2, <1>3, <2>1, WithItem
  <2>3. \A i \in 1 .. L + 1 : ~(i < L + 1) => i = L + 1
    BY <1>2
  <2>. QED  BY <2>2, <2>3
<1>5. NULL \notin Items
  BY ItemsAssumption
<1>. HIDE DEF l, L, t
<1>6. CASE L = 0
  <2>. DEFINE e == [h EXCEPT ![c].child = n]
              f == [e EXCEPT ![n].prev = n]
              z == [f EXCEPT ![n].next = NULL]
  <2>1. g = z
    <3>1. h[c].child = NULL
      BY <1>2, <1>6
    <3>. QED  BY <1>1, <3>1 DEF Appended
  <2>2. /\ e \in [Items -> Cells] /\ SameData(e, h)
        /\ \A y \in Items : /\ e[y].child = IF y = c THEN n ELSE h[y].child
                            /\ e[y].next = h[y].next /\ e[y].prev = h[y].prev
    <3>1. ChildSet(e, h, c, n)
      BY DEF ChildSet
    <3>. HIDE DEF e
    <3>. QED  BY <1>1, <3>1, LinksAre, SetChild
  <2>. HIDE DEF e
  <2>3. /\ f \in [Items -> Cells] /\ SameData(f, e)
        /\ \A y \in Items : /\ f[y].prev = IF y = n THEN n ELSE e[y].prev
                            /\ f[y].next = e[y].next /\ f[y].child = e[y].child
    <3>1. PrevSet(f, e, n, n)
      BY DEF PrevSet
    <3>. HIDE DEF f
    <3>. QED  BY <1>1, <2>2, <3>1, LinksAre, SetPrev
  <2>. HIDE DEF f
  <2>4. /\ z \in [Items -> Cells] /\ SameData(z, f)
        /\ \A y \in Items : /\ z[y].next = IF y = n THEN NULL ELSE f[y].next
                            /\ z[y].prev = f[y].prev /\ z[y].child = f[y].child
    <3>1. NextSet(z, f, n, NULL)
      BY DEF NextSet
    <3>. HIDE DEF z
    <3>2. f \in [Items -> Cells] /\ n \in Items
      BY <1>1, <2>3
    <3>. QED  BY <3>1, <3>2, LinksAre, SetNext
  <2>. HIDE DEF z
  <2>5. SameData(z, h)
    BY <2>2, <2>3, <2>4 DEF SameData
  <2>6. /\ z[c].child = n
        /\ \A y \in Items : y # c => z[y].child = h[y].child
        /\ \A y \in Items : y # n => z[y].next = h[y].next /\ z[y].prev = h[y].prev
        /\ z[n].next = NULL /\ z[n].prev = n
    BY <1>1, <2>2, <2>3, <2>4
  <2>7. Chain(z, c, t)
    <3>1. Len(t) = 1 /\ t[1] = n /\ \A i \in 1 .. Len(t) : i = 1
      BY <1>4, <1>6
    <3>2. z[t[1]].next = NULL /\ z[t[1]].prev = t[1] /\ z[c].child = t[1] /\ ~(1 < 1)
      BY <2>6, <3>1
    <3>3. t \in Seq(Items) /\ \A i, j \in 1 .. Len(t) : t[i] = t[j] => i = j
      BY <1>4
    <3>. QED  BY <3>1, <3>2, <3>3 DEF Chain
  <2>8. L + 1 \in 1 .. L + 1
    BY <1>2
  <2>10. \A x \in Items : x # n /\ x \notin In(l) => z[x].next = h[x].next /\ z[x].prev = h[x].prev
    BY <2>6
  <2>. HIDE DEF g
  <2>9. /\ InOrder(z, R \ {n})
        /\ MembersWritten(z, h, c, t)
    <3>1. ChildrenKept(z, h, c) /\ LinksKept(z, h, In(List(h, c)) \cup {n})
      BY <2>6, <2>10 DEF ChildrenKept, LinksKept, l
    <3>. QED  BY <2>4, <2>5, <2>7, <2>8, <3>1, MemberIn DEF t, L, l
  <2>. QED  BY <2>1, <2>5, <2>9 DEF t, L, l, g
<1>7. CASE L # 0
  <2>. DEFINE first == l[1]
              last == l[L]
              e == [h EXCEPT ![last].next = n]
              f == [e EXCEPT ![n].prev = last]
              z == [f EXCEPT ![first].prev = n]
  <2>0. /\ 1 \in 1 .. L /\ L \in 1 .. L /\ first \in Items /\ last \in Items
        /\ h[c].child = first /\ h[first].prev = last /\ first # n /\ last # n
    <3>1. 1 \in 1 .. L /\ L \in 1 .. L
      BY <1>2, <1>7
    <3>. QED  BY <1>2, <1>7, <3>1
  <2>1. g = z
    <3>1. first # NULL /\ last # NULL
      BY <1>5, <2>0
    <3>. QED  BY <1>1, <2>0, <3>1 DEF Appended
  <2>. HIDE DEF first, last
  <2>2. /\ e \in [Items -> Cells] /\ SameData(e, h)
        /\ \A y \in Items : /\ e[y].next = IF y = last THEN n ELSE h[y].next
                            /\ e[y].child = h[y].child /\ e[y].prev = h[y].prev
    <3>1. NextSet(e, h, last, n)
      BY DEF NextSet
    <3>. HIDE DEF e
    <3>. QED  BY <1>1, <2>0, <3>1, LinksAre, SetNext
  <2>. HIDE DEF e
  <2>3. /\ f \in [Items -> Cells] /\ SameData(f, e)
        /\ \A y \in Items : /\ f[y].prev = IF y = n THEN last ELSE e[y].prev
                            /\ f[y].next = e[y].next /\ f[y].child = e[y].child
    <3>1. PrevSet(f, e, n, last)
      BY DEF PrevSet
    <3>. HIDE DEF f
    <3>. QED  BY <1>1, <2>0, <2>2, <3>1, LinksAre, SetPrev
  <2>. HIDE DEF f
  <2>4. /\ z \in [Items -> Cells] /\ SameData(z, f)
        /\ \A y \in Items : /\ z[y].prev = IF y = first THEN n ELSE f[y].prev
                            /\ z[y].next = f[y].next /\ z[y].child = f[y].child
    <3>1. PrevSet(z, f, first, n)
      BY DEF PrevSet
    <3>. HIDE DEF z
    <3>. QED  BY <1>1, <2>0, <2>3, <3>1, LinksAre, SetPrev
  <2>. HIDE DEF z
  <2>5. SameData(z, h)
    BY <2>2, <2>3, <2>4 DEF SameData
  <2>6. /\ \A y \in Items : z[y].child = h[y].child
        /\ \A y \in Items : z[y].next = IF y = last THEN n ELSE h[y].next
        /\ \A y \in Items : z[y].prev = IF y = first THEN n ELSE IF y = n THEN last ELSE h[y].prev
    BY <1>1, <2>2, <2>3, <2>4
  <2>7. Chain(z, c, t)
    <3>1. Len(t) = L + 1 /\ t[1] = first /\ t[L + 1] = n /\ t[L] = last
      BY <1>2, <1>4, <2>0 DEF first, last
    <3>2. ASSUME NEW i \in 1 .. L + 1
          PROVE  /\ z[t[i]].next = IF i < L + 1 THEN t[i + 1] ELSE NULL
                 /\ z[t[i]].prev = IF i > 1 THEN t[i - 1] ELSE t[L + 1]
      <4>1. CASE i = L + 1
        <5>1. z[n].next = NULL /\ z[n].prev = last
          BY <1>1, <1>2, <2>0, <2>6
        <5>2. i > 1 /\ i - 1 = L
          BY <1>2, <1>7, <4>1
        <5>. QED  BY <3>1, <4>1, <5>1, <5>2
      <4>2. CASE i = L /\ i # L + 1
        <5>1. z[last].next = n /\ z[last].prev = IF last = first THEN n ELSE h[last].prev
          BY <2>0, <2>6
        <5>2. i < L + 1 /\ i + 1 = L + 1
          BY <1>2, <4>2
        <5>3. CASE L = 1
          <6>1. last = first
            BY <5>3 DEF first, last
          <6>. QED  BY <3>1, <4>2, <5>1, <5>2, <5>3, <6>1
        <5>4. CASE L # 1
          <6>1. last # first /\ h[last].prev = l[L - 1] /\ L > 1 /\ L - 1 \in 1 .. L + 1 /\ L - 1 < L + 1
            BY <1>2, <2>0, <5>4 DEF first, last
          <6>2. t[L - 1] = l[L - 1]
            BY <1>4, <6>1
          <6>. QED  BY <3>1, <4>2, <5>1, <5>2, <6>1, <6>2
        <5>. QED  BY <5>3, <5>4
      <4>3. CASE i < L
        <5>1. /\ i \in 1 .. L /\ i + 1 \in 1 .. L + 1 /\ i + 1 < L + 1 /\ i < L + 1
              /\ i > 1 => i - 1 \in 1 .. L + 1 /\ i - 1 < L + 1
          BY <1>2, <4>3
        <5>2. t[i] = l[i] /\ t[i + 1] = l[i + 1] /\ (i > 1 => t[i - 1] = l[i - 1])
          BY <1>4, <5>1
        <5>3. /\ l[i] # last /\ l[i] # n /\ l[i] \in Items /\ (i > 1 => l[i] # first)
              /\ ~(i > 1) => l[i] = first
          BY <1>2, <2>0, <4>3, <5>1 DEF first, last
        <5>4. z[l[i]].next = h[l[i]].next /\ h[l[i]].next = l[i + 1]
          BY <1>2, <2>6, <4>3, <5>1, <5>3
        <5>5. CASE i > 1
          <6>1. z[l[i]].prev = h[l[i]].prev
            BY <2>6, <5>3, <5>5
          <6>2. h[l[i]].prev = l[i - 1]
            BY <1>2, <5>1, <5>5
          <6>. QED  BY <5>1, <5>2, <5>4, <5>5, <6>1, <6>2
        <5>6. CASE ~(i > 1)
          BY <2>6, <3>1, <5>1, <5>2, <5>3, <5>4, <5>6
        <5>. QED  BY <5>5, <5>6
      <4>. QED  BY <1>2, <4>1, <4>2, <4>3
    <3>3. z[c].child = t[1]
      BY <1>1, <2>0, <2>6, <3>1
    <3>. QED  BY <1>2, <1>4, <3>1, <3>2, <3>3 DEF Chain
  <2>8. L + 1 \in 1 .. L + 1
    BY <1>2
  <2>9. \A x \in Items : x # n /\ x \notin In(l) => z[x].next = h[x].next /\ z[x].prev = h[x].prev
    BY <1>3, <2>0, <2>6 DEF first, last
  <2>. HIDE DEF g
  <2>10. /\ InOrder(z, R \ {n})
         /\ MembersWritten(z, h, c, t)
    <3>1. ChildrenKept(z, h, c) /\ LinksKept(z, h, In(List(h, c)) \cup {n})
      BY <2>6, <2>9 DEF ChildrenKept, LinksKept, l
    <3>. QED  BY <2>4, <2>5, <2>7, <2>8, <3>1, MemberIn DEF t, L, l
  <2>. QED  BY <2>1, <2>5, <2>10 DEF t, L, l, g
<1>. QED  BY <1>6, <1>7

\* cJSON_InsertItemInArray().
LEMMA Inserts ==
  ASSUME NEW h, NEW R, InOrder(h, R), NEW n \in R, NEW c \in InUse(h),
         h[c].type \in {"object", "array"}, c \notin Subtree(h, n),
         NEW k \in 1 .. Len(List(h, c))
  PROVE  LET g == Inserted(h, c, n, List(h, c)[k])
         IN  /\ InOrder(g, R \ {n}) /\ SameData(g, h)
             /\ MembersWritten(g, h, c, Document!With(List(h, c), k, n))
<1>. DEFINE l == List(h, c)
            L == Len(l)
            t == Document!With(l, k, n)
            after == l[k]
            before == h[after].prev
            g == Inserted(h, c, n, after)
<1>1. h \in [Items -> Cells] /\ n \in InUse(h) /\ n \in Items /\ c \in Items /\ n # c
  <2>1. h \in [Items -> Cells] /\ n \in InUse(h)
    BY DEF InOrder, Memory, IsForest
  <2>. QED  BY <2>1, TreeOfItem DEF InUse
<1>2. /\ l \in Seq(Items) /\ L \in Nat /\ \A i \in 1 .. L : l[i] \in Items /\ l[i] # n
      /\ \A i, j \in 1 .. L : l[i] = l[j] => i = j
      /\ h[c].child = IF L = 0 THEN NULL ELSE l[1]
      /\ \A i \in 1 .. L : /\ h[l[i]].next = IF i < L THEN l[i + 1] ELSE NULL
                           /\ h[l[i]].prev = IF i > 1 THEN l[i - 1] ELSE l[L]
  BY <1>1, MemberLinks
<1>3. In(l) = {l[i] : i \in 1 .. L} /\ n \notin In(l)
  <2>1. In(l) = {l[i] : i \in 1 .. L}
    BY <1>2, SequenceFacts
  <2>. QED  BY <1>2, <2>1
<1>4. k \in 1 .. L /\ k \in 1 .. L + 1 /\ 1 \in 1 .. L /\ L \in 1 .. L
  BY <1>2
<1>5. /\ t \in Seq(Items) /\ Len(t) = L + 1
      /\ \A i \in 1 .. L + 1 : t[i] = IF i < k THEN l[i] ELSE IF i = k THEN n ELSE l[i - 1]
      /\ \A i, j \in 1 .. Len(t) : t[i] = t[j] => i = j
  BY <1>1, <1>2, <1>3, <1>4, WithItem
<1>6. /\ after \in Items /\ after # n /\ h[c].child = l[1]
      /\ before = (IF k > 1 THEN l[k - 1] ELSE l[L]) /\ before \in Items /\ before # n
  <2>1. h[c].child = l[1]
    BY <1>2, <1>4
  <2>2. before = IF k > 1 THEN l[k - 1] ELSE l[L]
    BY <1>2, <1>4
  <2>3. k > 1 => k - 1 \in 1 .. L
    BY <1>2, <1>4
  <2>. QED  BY <1>2, <1>4, <2>1, <2>2, <2>3
<1>. DEFINE a == [h EXCEPT ![n].next = after]
            b == [a EXCEPT ![n].prev = before]
            e == [b EXCEPT ![after].prev = n]
            z == IF after = l[1] THEN [e EXCEPT ![c].child = n] ELSE [e EXCEPT ![before].next = n]
<1>7. g = z
  <2>1. after = h[c].child <=> after = l[1]
    BY <1>6
  <2>. QED  BY <1>1, <1>6, <2>1 DEF Inserted
<1>. HIDE DEF l, L, t, after, before
<1>8. /\ a \in [Items -> Cells] /\ SameData(a, h)
      /\ \A y \in Items : /\ a[y].next = IF y = n THEN after ELSE h[y].next
                          /\ a[y].child = h[y].child /\ a[y].prev = h[y].prev
  <2>1. NextSet(a, h, n, after)
    BY DEF NextSet
  <2>. HIDE DEF a
  <2>. QED  BY <1>1, <1>6, <2>1, LinksAre, SetNext
<1>. HIDE DEF a
<1>9. /\ b \in [Items -> Cells] /\ SameData(b, a)
      /\ \A y \in Items : /\ b[y].prev = IF y = n THEN before ELSE a[y].prev
                          /\ b[y].child = a[y].child /\ b[y].next = a[y].next
  <2>1. PrevSet(b, a, n, before)
    BY DEF PrevSet
  <2>. HIDE DEF b
  <2>. QED  BY <1>1, <1>6, <1>8, <2>1, LinksAre, SetPrev
<1>. HIDE DEF b
<1>10. /\ e \in [Items -> Cells] /\ SameData(e, b)
       /\ \A y \in Items : /\ e[y].prev = IF y = after THEN n ELSE b[y].prev
                           /\ e[y].child = b[y].child /\ e[y].next = b[y].next
  <2>1. PrevSet(e, b, after, n)
    BY DEF PrevSet
  <2>. HIDE DEF e
  <2>. QED  BY <1>1, <1>6, <1>9, <2>1, LinksAre, SetPrev
<1>. HIDE DEF e
<1>11. k = 1 <=> after = l[1]
  BY <1>2, <1>4 DEF after
<1>12. /\ z \in [Items -> Cells] /\ SameData(z, e)
       /\ \A y \in Items :
            /\ z[y].child = IF k = 1 /\ y = c THEN n ELSE e[y].child
            /\ z[y].next = IF k # 1 /\ y = before THEN n ELSE e[y].next
            /\ z[y].prev = e[y].prev
  <2>1. CASE k = 1
    <3>1. ChildSet(z, e, c, n)
      BY <1>11, <2>1 DEF ChildSet
    <3>. HIDE DEF z
    <3>2. /\ z \in [Items -> Cells] /\ SameData(z, e)
          /\ \A y \in Items : /\ z[y].child = IF y = c THEN n ELSE e[y].child
                              /\ z[y].next = e[y].next /\ z[y].prev = e[y].prev
      BY <1>1, <1>10, <3>1, LinksAre, SetChild
    <3>. QED  BY <2>1, <3>2
  <2>2. CASE k # 1
    <3>1. NextSet(z, e, before, n)
      BY <1>11, <2>2 DEF NextSet
    <3>. HIDE DEF z
    <3>2. /\ z \in [Items -> Cells] /\ SameData(z, e)
          /\ \A y \in Items : /\ z[y].next = IF y = before THEN n ELSE e[y].next
                              /\ z[y].child = e[y].child /\ z[y].prev = e[y].prev
      BY <1>1, <1>6, <1>10, <3>1, LinksAre, SetNext
    <3>. QED  BY <2>2, <3>2
  <2>. QED  BY <2>1, <2>2
<1>. HIDE DEF z
<1>13. SameData(z, h)
  BY <1>8, <1>9, <1>10, <1>12 DEF SameData
<1>14. \A y \in Items :
         /\ z[y].child = IF k = 1 /\ y = c THEN n ELSE h[y].child
         /\ z[y].next = IF k # 1 /\ y = before THEN n ELSE IF y = n THEN after ELSE h[y].next
         /\ z[y].prev = IF y = after THEN n ELSE IF y = n THEN before ELSE h[y].prev
  BY <1>8, <1>9, <1>10, <1>12
<1>15. z[n].next = l[k] /\ z[n].prev = IF k > 1 THEN l[k - 1] ELSE l[L]
  BY <1>1, <1>6, <1>14 DEF after
<1>16. \A j \in 1 .. L :
         /\ z[l[j]].next = IF j = k - 1 THEN n ELSE IF j < L THEN l[j + 1] ELSE NULL
         /\ z[l[j]].prev = IF j = k THEN n ELSE IF j > 1 THEN l[j - 1] ELSE l[L]
  <2>. TAKE j \in 1 .. L
  <2>1. l[j] = after <=> j = k
    BY <1>2, <1>4 DEF after
  <2>2. (k # 1 /\ l[j] = before) <=> j = k - 1
    <3>1. k # 1 => k > 1 /\ k - 1 \in 1 .. L
      BY <1>2, <1>4
    <3>2. k = 1 => j # k - 1
      BY <1>2
    <3>. QED  BY <1>2, <1>6, <3>1, <3>2
  <2>. QED  BY <1>2, <1>14, <2>1, <2>2
<1>17. Chain(z, c, t)
  <2>1. z[c].child = t[1]
    <3>1. 1 \in 1 .. L + 1 /\ (k # 1 => 1 < k)
      BY <1>2, <1>4
    <3>2. t[1] = IF k = 1 THEN n ELSE l[1]
      BY <1>4, <1>5, <3>1
    <3>. QED  BY <1>1, <1>6, <1>14, <3>2
  <2>2. t[L + 1] = l[L]
    <3>1. L + 1 \in 1 .. L + 1 /\ ~(L + 1 < k) /\ L + 1 # k /\ (L + 1) - 1 = L
      BY <1>2, <1>4
    <3>. QED  BY <1>5, <3>1
  <2>3. ASSUME NEW i \in 1 .. L + 1
        PROVE  /\ z[t[i]].next = IF i < L + 1 THEN t[i + 1] ELSE NULL
               /\ z[t[i]].prev = IF i > 1 THEN t[i - 1] ELSE t[L + 1]
    <3>1. CASE i = k
      <4>1. /\ i < L + 1 /\ i + 1 \in 1 .. L + 1 /\ ~(i + 1 < k) /\ i + 1 # k /\ (i + 1) - 1 = k
            /\ i > 1 => i - 1 \in 1 .. L + 1 /\ i - 1 < k
        BY <1>2, <1>4, <3>1
      <4>2. t[i] = n /\ t[i + 1] = l[k] /\ (i > 1 => t[i - 1] = l[k - 1])
        BY <1>5, <3>1, <4>1
      <4>. QED  BY <1>15, <2>2, <3>1, <4>1, <4>2
    <3>2. CASE i < k
      <4>1. /\ i \in 1 .. L /\ i < L + 1 /\ i + 1 \in 1 .. L + 1 /\ i # k /\ i < L
            /\ i > 1 => i - 1 \in 1 .. L + 1 /\ i - 1 < k
            /\ i = k - 1 => i + 1 = k
            /\ i # k - 1 => i + 1 < k
        BY <1>2, <1>4, <3>2
      <4>2. t[i] = l[i] /\ (i > 1 => t[i - 1] = l[i - 1])
        BY <1>5, <3>2, <4>1
      <4>3. t[i + 1] = IF i = k - 1 THEN n ELSE l[i + 1]
        BY <1>5, <4>1
      <4>4. z[l[i]].next = t[i + 1]
        BY <1>16, <4>1, <4>3
      <4>5. z[l[i]].prev = IF i > 1 THEN t[i - 1] ELSE t[L + 1]
        BY <1>16, <2>2, <4>1, <4>2
      <4>. QED  BY <4>1, <4>2, <4>4, <4>5
    <3>3. CASE i > k
      <4>. DEFINE j == i - 1
      <4>1. /\ j \in 1 .. L /\ ~(i < k) /\ i # k /\ i > 1 /\ j # k - 1
            /\ i < L + 1 <=> j < L
            /\ i < L + 1 => /\ i + 1 \in 1 .. L + 1 /\ ~(i + 1 < k) /\ i + 1 # k
                            /\ (i + 1) - 1 = i /\ j + 1 = i
            /\ j \in 1 .. L + 1 /\ ~(j < k)
            /\ j # k => j > 1
        BY <1>2, <1>4, <3>3
      <4>2. t[i] = l[j] /\ (i < L + 1 => t[i + 1] = l[i])
        BY <1>5, <4>1
      <4>3. t[j] = IF j = k THEN n ELSE l[j - 1]
        BY <1>5, <4>1
      <4>4. z[l[j]].next = IF i < L + 1 THEN t[i + 1] ELSE NULL
        BY <1>16, <4>1, <4>2
      <4>5. z[l[j]].prev = t[j]
        BY <1>16, <4>1, <4>3
      <4>. QED  BY <4>1, <4>2, <4>4, <4>5
    <3>. QED  BY <1>2, <1>4, <3>1, <3>2, <3>3
  <2>4. Len(t) # 0
    BY <1>2, <1>5
  <2>. QED  BY <1>5, <2>1, <2>3, <2>4 DEF Chain
<1>18. \A x \in Items : x # n /\ x \notin In(l) => z[x].next = h[x].next /\ z[x].prev = h[x].prev
  <2>1. after \in In(l) /\ before \in In(l)
    <3>1. k > 1 => k - 1 \in 1 .. L
      BY <1>2, <1>4
    <3>. QED  BY <1>3, <1>4, <1>6, <3>1 DEF after
  <2>. QED  BY <1>14, <2>1
<1>19. z \in [Items -> Cells] /\ \A x \in Items : x # c => z[x].child = h[x].child
  BY <1>12, <1>14
<1>. HIDE DEF g
<1>20. /\ InOrder(z, R \ {n})
       /\ MembersWritten(z, h, c, t)
  <2>1. k \in 1 .. Len(List(h, c)) + 1
    BY <1>4 DEF L, l
  <2>2. Chain(z, c, Document!With(List(h, c), k, n))
    BY <1>17 DEF t, l
  <2>3. ChildrenKept(z, h, c) /\ LinksKept(z, h, In(List(h, c)) \cup {n})
    BY <1>18, <1>19 DEF ChildrenKept, LinksKept, l
  <2>4. /\ InOrder(z, R \ {n})
        /\ MembersWritten(z, h, c, Document!With(List(h, c), k, n))
    BY <1>13, <1>19, <2>1, <2>2, <2>3, MemberIn
  <2>. QED  BY <2>4 DEF t, l
<1>. QED  BY <1>7, <1>13, <1>20 DEF t, L, l, g, after

\* cJSON_DetachItemViaPointer().
LEMMA Detaches ==
  ASSUME NEW h, NEW R, InOrder(h, R), NEW c \in InUse(h), NEW k \in 1 .. Len(List(h, c))
  PROVE  LET n == List(h, c)[k] g == Detached(h, c, n)
         IN  /\ InOrder(g, R \cup {n}) /\ SameData(g, h)
             /\ MembersWritten(g, h, c, Document!Without(List(h, c), k))
<1>. DEFINE l == List(h, c)
            L == Len(l)
            t == Document!Without(l, k)
            n == l[k]
            before == h[n].prev
            after == h[n].next
            g == Detached(h, c, n)
<1>1. h \in [Items -> Cells] /\ c \in Items
  BY DEF InOrder, Memory, InUse
<1>2. /\ l \in Seq(Items) /\ L \in Nat /\ \A i \in 1 .. L : l[i] \in Items
      /\ \A i, j \in 1 .. L : l[i] = l[j] => i = j
      /\ h[c].child = IF L = 0 THEN NULL ELSE l[1]
      /\ \A i \in 1 .. L : /\ h[l[i]].next = IF i < L THEN l[i + 1] ELSE NULL
                           /\ h[l[i]].prev = IF i > 1 THEN l[i - 1] ELSE l[L]
  BY <1>1, MemberLinks
<1>3. In(l) = {l[i] : i \in 1 .. L}
  BY <1>2, SequenceFacts
<1>4. /\ k \in 1 .. L /\ 1 \in 1 .. L /\ L \in 1 .. L /\ NULL \notin Items
      /\ k < L => k + 1 \in 1 .. L
      /\ k > 1 => k - 1 \in 1 .. L
      /\ k = 1 \/ k > 1
  BY <1>2, ItemsAssumption
<1>5. /\ t \in Seq(Items) /\ Len(t) = L - 1
      /\ \A i \in 1 .. L - 1 : t[i] = IF i < k THEN l[i] ELSE l[i + 1]
      /\ \A i, j \in 1 .. Len(t) : t[i] = t[j] => i = j
  BY <1>2, <1>4, WithoutItem
<1>6. /\ n \in Items /\ h[c].child = l[1] /\ (n = l[1] <=> k = 1)
      /\ before = (IF k > 1 THEN l[k - 1] ELSE l[L]) /\ before \in Items
      /\ after = (IF k < L THEN l[k + 1] ELSE NULL) /\ (after # NULL <=> k < L)
      /\ (k > 1 => before # n) /\ after # n
      /\ k < L => after \in Items
  <2>1. n \in Items /\ h[c].child = l[1] /\ (n = l[1] <=> k = 1)
    BY <1>2, <1>4
  <2>2. before = (IF k > 1 THEN l[k - 1] ELSE l[L]) /\ after = (IF k < L THEN l[k + 1] ELSE NULL)
    BY <1>2, <1>4
  <2>3. before \in Items /\ (k > 1 => before # n)
    BY <1>2, <1>4, <2>2
  <2>4. (after # NULL <=> k < L) /\ after # n /\ (k < L => after \in Items)
    BY <1>2, <1>4, <2>1, <2>2
  <2>. QED  BY <2>1, <2>2, <2>3, <2>4
<1>. DEFINE first == h[c].child
            a == IF n # first THEN [h EXCEPT ![h[n].prev].next = h[n].next] ELSE h
            b == IF a[n].next # NULL THEN [a EXCEPT ![a[n].next].prev = a[n].prev] ELSE a
            e == IF n = first THEN [b EXCEPT ![c].child = b[n].next]
                 ELSE IF b[n].next = NULL THEN [b EXCEPT ![first].prev = b[n].prev] ELSE b
            y == [e EXCEPT ![n].prev = NULL]
            z == [e EXCEPT ![n].prev = NULL, ![n].next = NULL]
<1>. HIDE DEF l, L, t, n
<1>14. g = z
  BY DEF Detached
<1>. HIDE DEF g, before, after
<1>0. Link(NULL) /\ Link(before) /\ Link(after) /\ \A x \in Items : Link(x)
  BY <1>6 DEF Link
<1>7. /\ a \in [Items -> Cells] /\ SameData(a, h)
      /\ \A x \in Items : /\ a[x].next = IF k > 1 /\ x = before THEN after ELSE h[x].next
                          /\ a[x].child = h[x].child /\ a[x].prev = h[x].prev
  <2>1. CASE k > 1
    <3>1. NextSet(a, h, before, after)
      BY <1>6, <2>1 DEF NextSet, before, after
    <3>. HIDE DEF a
    <3>3. /\ a \in [Items -> Cells] /\ SameData(a, h)
          /\ \A x \in Items : /\ a[x].next = IF x = before THEN after ELSE h[x].next
                              /\ a[x].child = h[x].child /\ a[x].prev = h[x].prev
      BY <1>0, <1>1, <1>6, <3>1, SetNext
    <3>. QED  BY <2>1, <3>3
  <2>2. CASE ~(k > 1)
    <3>1. a = h
      BY <1>4, <1>6, <2>2
    <3>. HIDE DEF a
    <3>. QED  BY <1>1, <2>2, <3>1 DEF SameData
  <2>. QED  BY <2>1, <2>2
<1>8. a[n].next = after /\ a[n].prev = before
  BY <1>6, <1>7 DEF before, after
<1>. HIDE DEF a
<1>9. /\ b \in [Items -> Cells] /\ SameData(b, a)
      /\ \A x \in Items : /\ b[x].prev = IF k < L /\ x = after THEN before ELSE a[x].prev
                          /\ b[x].child = a[x].child /\ b[x].next = a[x].next
  <2>1. CASE k < L
    <3>1. PrevSet(b, a, after, before)
      BY <1>6, <1>8, <2>1 DEF PrevSet
    <3>. HIDE DEF b
    <3>2. /\ b \in [Items -> Cells] /\ SameData(b, a)
          /\ \A x \in Items : /\ b[x].prev = IF x = after THEN before ELSE a[x].prev
                              /\ b[x].child = a[x].child /\ b[x].next = a[x].next
      BY <1>0, <1>6, <1>7, <2>1, <3>1, SetPrev
    <3>. QED  BY <2>1, <3>2
  <2>2. CASE ~(k < L)
    <3>1. b = a
      BY <1>6, <1>8, <2>2
    <3>. HIDE DEF b
    <3>. QED  BY <1>7, <2>2, <3>1 DEF SameData
  <2>. QED  BY <2>1, <2>2
<1>10. b[n].next = after /\ b[n].prev = before
  BY <1>6, <1>8, <1>9
<1>. HIDE DEF b
<1>11. /\ e \in [Items -> Cells] /\ SameData(e, b)
       /\ \A x \in Items : /\ e[x].child = IF k = 1 /\ x = c THEN after ELSE b[x].child
                           /\ e[x].prev = IF k # 1 /\ k = L /\ x = l[1] THEN before ELSE b[x].prev
                           /\ e[x].next = b[x].next
  <2>1. CASE k = 1
    <3>1. ChildSet(e, b, c, after)
      BY <1>6, <1>10, <2>1 DEF ChildSet
    <3>. HIDE DEF e
    <3>3. /\ e \in [Items -> Cells] /\ SameData(e, b)
          /\ \A x \in Items : /\ e[x].child = IF x = c THEN after ELSE b[x].child
                              /\ e[x].prev = b[x].prev /\ e[x].next = b[x].next
      BY <1>0, <1>1, <1>9, <3>1, SetChild
    <3>. QED  BY <2>1, <3>3
  <2>2. CASE k # 1 /\ k = L
    <3>1. PrevSet(e, b, l[1], before)
      BY <1>6, <1>10, <2>2 DEF PrevSet
    <3>2. l[1] \in Items
      BY <1>2, <1>4
    <3>. HIDE DEF e
    <3>3. /\ e \in [Items -> Cells] /\ SameData(e, b)
          /\ \A x \in Items : /\ e[x].prev = IF x = l[1] THEN before ELSE b[x].prev
                              /\ e[x].child = b[x].child /\ e[x].next = b[x].next
      BY <1>0, <1>6, <1>9, <3>1, <3>2, SetPrev
    <3>. QED  BY <2>2, <3>3
  <2>3. CASE k # 1 /\ k # L
    <3>1. e = b
      <4>1. k < L
        BY <1>2, <1>4, <2>3
      <4>. QED  BY <1>6, <1>10, <2>3, <4>1
    <3>. HIDE DEF e
    <3>. QED  BY <1>9, <2>3, <3>1 DEF SameData
  <2>. QED  BY <2>1, <2>2, <2>3
<1>. HIDE DEF e
<1>12. /\ y \in [Items -> Cells] /\ SameData(y, e)
       /\ \A x \in Items : /\ y[x].prev = IF x = n THEN NULL ELSE e[x].prev
                           /\ y[x].child = e[x].child /\ y[x].next = e[x].next
  <2>1. PrevSet(y, e, n, NULL)
    BY DEF PrevSet
  <2>. HIDE DEF y
  <2>. QED  BY <1>0, <1>6, <1>11, <2>1, SetPrev
<1>. HIDE DEF y
<1>13. /\ z \in [Items -> Cells] /\ SameData(z, y)
       /\ \A x \in Items : /\ z[x].next = IF x = n THEN NULL ELSE y[x].next
                           /\ z[x].child = y[x].child /\ z[x].prev = y[x].prev
  <2>1. NextSet(z, y, n, NULL)
    BY DEF NextSet, y
  <2>. HIDE DEF z
  <2>. QED  BY <1>0, <1>6, <1>12, <2>1, SetNext
<1>. HIDE DEF z
<1>15. SameData(z, h)
  BY <1>7, <1>9, <1>11, <1>12, <1>13 DEF SameData
<1>16. \A x \in Items :
         /\ z[x].child = IF k = 1 /\ x = c THEN after ELSE h[x].child
         /\ z[x].next = IF x = n THEN NULL ELSE IF k > 1 /\ x = before THEN after ELSE h[x].next
         /\ z[x].prev = IF x = n THEN NULL
                        ELSE IF k # 1 /\ k = L /\ x = l[1] THEN before
                        ELSE IF k < L /\ x = after THEN before ELSE h[x].prev
  BY <1>7, <1>9, <1>11, <1>12, <1>13
<1>17. \A j \in 1 .. L : j # k =>
         /\ z[l[j]].next = IF j = k - 1 THEN after ELSE IF j < L THEN l[j + 1] ELSE NULL
         /\ z[l[j]].prev = IF j = 1 /\ k = L THEN l[L - 1] ELSE IF j = k + 1 THEN before
                           ELSE IF j > 1 THEN l[j - 1] ELSE l[L]
  <2>. SUFFICES ASSUME NEW j \in 1 .. L, j # k
                PROVE  /\ z[l[j]].next = IF j = k - 1 THEN after ELSE IF j < L THEN l[j + 1] ELSE NULL
                       /\ z[l[j]].prev = IF j = 1 /\ k = L THEN l[L - 1] ELSE IF j = k + 1 THEN before
                                         ELSE IF j > 1 THEN l[j - 1] ELSE l[L]
    OBVIOUS
  <2>1. l[j] # n /\ (l[j] = l[1] <=> j = 1) /\ l[j] \in Items
    BY <1>2, <1>4 DEF n
  <2>2. (k > 1 /\ l[j] = before) <=> j = k - 1
    <3>1. ~(k > 1) => j # k - 1
      BY <1>2, <1>4
    <3>. QED  BY <1>2, <1>4, <1>6, <3>1
  <2>3. (k < L /\ l[j] = after) <=> j = k + 1
    <3>1. ~(k < L) => j # k + 1
      BY <1>2, <1>4
    <3>. QED  BY <1>2, <1>4, <1>6, <3>1
  <2>4. z[l[j]].next = IF j = k - 1 THEN after ELSE IF j < L THEN l[j + 1] ELSE NULL
    BY <1>2, <1>16, <2>1, <2>2
  <2>5. z[l[j]].prev = IF j = 1 /\ k = L THEN l[L - 1] ELSE IF j = k + 1 THEN before
                       ELSE IF j > 1 THEN l[j - 1] ELSE l[L]
    <3>1. CASE j = 1 /\ k = L
      <4>1. k # 1 /\ k > 1
        BY <1>2, <1>4, <2>1, <3>1
      <4>2. before = l[L - 1]
        BY <1>6, <3>1, <4>1
      <4>. QED  BY <1>16, <2>1, <3>1, <4>1, <4>2
    <3>2. CASE ~(j = 1 /\ k = L)
      BY <1>2, <1>16, <2>1, <2>3, <3>2
    <3>. QED  BY <3>1, <3>2
  <2>. QED  BY <2>4, <2>5
<1>18. Chain(z, c, t)
  <2>1. z[c].child = IF Len(t) = 0 THEN NULL ELSE t[1]
    <3>1. CASE k = 1
      <4>1. z[c].child = after
        BY <1>1, <1>16, <3>1
      <4>2. CASE L = 1
        BY <1>2, <1>5, <1>6, <3>1, <4>1, <4>2
      <4>3. CASE L # 1
        <5>1. 1 \in 1 .. L - 1 /\ ~(1 < k) /\ 1 < L /\ L - 1 # 0
          BY <1>2, <1>4, <3>1, <4>3
        <5>. QED  BY <1>5, <1>6, <3>1, <4>1, <5>1
      <4>. QED  BY <4>2, <4>3
    <3>2. CASE k # 1
      <4>1. z[c].child = l[1]
        BY <1>1, <1>6, <1>16, <3>2
      <4>2. 1 \in 1 .. L - 1 /\ 1 < k /\ L - 1 # 0
        BY <1>2, <1>4, <3>2
      <4>. QED  BY <1>5, <4>1, <4>2
    <3>. QED  BY <3>1, <3>2
  <2>2. L > 1 => t[L - 1] = IF k = L THEN l[L - 1] ELSE l[L]
    <3>. HAVE L > 1
    <3>1. L - 1 \in 1 .. L - 1 /\ (L - 1) + 1 = L /\ (k = L => L - 1 < k) /\ (k # L => ~(L - 1 < k))
      BY <1>2, <1>4
    <3>. QED  BY <1>5, <3>1
  <2>3. ASSUME NEW i \in 1 .. L - 1
        PROVE  /\ z[t[i]].next = IF i < L - 1 THEN t[i + 1] ELSE NULL
               /\ z[t[i]].prev = IF i > 1 THEN t[i - 1] ELSE t[L - 1]
    <3>0. L > 1
      BY <1>2
    <3>1. CASE i < k
      <4>1. /\ i \in 1 .. L /\ i # k /\ i < L /\ i # k + 1 /\ t[i] = l[i]
        BY <1>2, <1>4, <1>5, <3>1
      <4>2. z[l[i]].next = IF i < L - 1 THEN t[i + 1] ELSE NULL
        <5>1. CASE i = k - 1
          <6>1. z[l[i]].next = after /\ i + 1 = k /\ (i < L - 1 <=> k < L)
            BY <1>2, <1>4, <1>17, <4>1, <5>1
          <6>2. k < L => t[k] = l[k + 1]
            BY <1>2, <1>4, <1>5
          <6>. QED  BY <1>6, <6>1, <6>2
        <5>2. CASE i # k - 1
          <6>1. i + 1 \in 1 .. L - 1 /\ i + 1 < k /\ i < L - 1
            BY <1>2, <1>4, <3>1, <5>2
          <6>. QED  BY <1>5, <1>17, <4>1, <5>2, <6>1
        <5>. QED  BY <5>1, <5>2
      <4>3. z[l[i]].prev = IF i > 1 THEN t[i - 1] ELSE t[L - 1]
        <5>1. CASE i > 1
          <6>1. i - 1 \in 1 .. L - 1 /\ i - 1 < k /\ i # 1
            BY <1>2, <1>4, <3>1, <5>1
          <6>. QED  BY <1>5, <1>17, <4>1, <5>1, <6>1
        <5>2. CASE ~(i > 1)
          <6>1. i = 1
            BY <5>2
          <6>. QED  BY <1>17, <2>2, <3>0, <4>1, <5>2, <6>1
        <5>. QED  BY <5>1, <5>2
      <4>. QED  BY <4>1, <4>2, <4>3
    <3>2. CASE ~(i < k)
      <4>. DEFINE j == i + 1
      <4>1. /\ j \in 1 .. L /\ j # k /\ j # k - 1 /\ t[i] = l[j] /\ j > 1 /\ j # 1 /\ j - 1 = i
            /\ (j < L <=> i < L - 1)
        BY <1>2, <1>4, <1>5, <3>2
      <4>2. z[l[j]].next = IF i < L - 1 THEN t[j] ELSE NULL
        <5>1. i < L - 1 => t[j] = l[j + 1]
          BY <1>2, <1>4, <1>5, <3>2
        <5>. QED  BY <1>17, <4>1, <5>1
      <4>3. z[l[j]].prev = IF i > 1 THEN t[i - 1] ELSE t[L - 1]
        <5>1. CASE j = k + 1
          <6>1. z[l[j]].prev = before /\ i = k /\ k # L
            BY <1>2, <1>4, <1>17, <4>1, <5>1
          <6>2. k > 1 => t[k - 1] = l[k - 1]
            BY <1>2, <1>4, <1>5, <3>2, <6>1
          <6>. QED  BY <1>6, <2>2, <3>0, <6>1, <6>2
        <5>2. CASE j # k + 1
          <6>1. z[l[j]].prev = l[i]
            BY <1>17, <4>1, <5>2
          <6>2. i > 1 /\ i - 1 \in 1 .. L - 1 /\ ~(i - 1 < k) /\ (i - 1) + 1 = i
            BY <1>2, <1>4, <3>2, <5>2
          <6>. QED  BY <1>5, <6>1, <6>2
        <5>. QED  BY <5>1, <5>2
      <4>. QED  BY <4>1, <4>2, <4>3
    <3>. QED  BY <3>1, <3>2
  <2>. QED  BY <1>5, <2>1, <2>3 DEF Chain
<1>19. z[n].next = NULL
  BY <1>6, <1>16
<1>20. ChildrenKept(z, h, c) /\ LinksKept(z, h, In(l))
  <2>1. n \in In(l) /\ before \in In(l) /\ l[1] \in In(l) /\ (k < L => after \in In(l))
    BY <1>3, <1>4, <1>6 DEF n
  <2>. QED  BY <1>16, <2>1 DEF ChildrenKept, LinksKept
<1>21. /\ InOrder(z, R \cup {n})
       /\ MembersWritten(z, h, c, t)
  <2>1. /\ Chain(z, c, Document!Without(List(h, c), k)) /\ z[List(h, c)[k]].next = NULL
        /\ LinksKept(z, h, In(List(h, c)))
    BY <1>18, <1>19, <1>20 DEF t, n, l
  <2>2. /\ InOrder(z, R \cup {List(h, c)[k]})
        /\ MembersWritten(z, h, c, Document!Without(List(h, c), k))
    <3>1. z \in [Items -> Cells]
      BY <1>13
    <3>2. ChildrenKept(z, h, c) /\ k \in 1 .. Len(List(h, c))
      BY <1>20
    <3>. QED  BY <1>15, <2>1, <3>1, <3>2, MemberOut
  <2>. QED  BY <2>2 DEF t, n, l
<1>. QED  BY <1>14, <1>15, <1>21 DEF t, n, l, g

\* cJSON_ReplaceItemViaPointer() before it frees what it replaced.
Exchanged(h, c, old, new) ==
  LET g == [h EXCEPT ![new].next = h[old].next, ![new].prev = h[old].prev]
      f == IF g[new].next # NULL THEN [g EXCEPT ![g[new].next].prev = new] ELSE g
      e == IF f[c].child = old
           THEN [f EXCEPT ![c].child = new, ![new].prev = IF f[old].prev = old THEN new ELSE @]
           ELSE LET d == [f EXCEPT ![f[new].prev].next = new]
                IN  IF d[new].next = NULL THEN [d EXCEPT ![d[c].child].prev = new] ELSE d
  IN  [e EXCEPT ![old].next = NULL, ![old].prev = NULL]

LEMMA Exchanges ==
  ASSUME NEW h, NEW R, InOrder(h, R), NEW n \in R, NEW c \in InUse(h), c \notin Subtree(h, n),
         NEW k \in 1 .. Len(List(h, c))
  PROVE  LET old == List(h, c)[k] g == Exchanged(h, c, old, n)
         IN  /\ InOrder(g, (R \cup {old}) \ {n}) /\ SameData(g, h)
             /\ MembersWritten(g, h, c, Changed(List(h, c), k, n))
<1>. DEFINE l == List(h, c)
            L == Len(l)
            t == Changed(l, k, n)
            old == l[k]
            before == h[old].prev
            after == h[old].next
            g == Exchanged(h, c, old, n)
<1>1. h \in [Items -> Cells] /\ n \in InUse(h) /\ n \in Items /\ c \in Items /\ n # c
  <2>1. h \in [Items -> Cells] /\ n \in InUse(h)
    BY DEF InOrder, Memory, IsForest
  <2>. QED  BY <2>1, TreeOfItem DEF InUse
<1>2. /\ l \in Seq(Items) /\ L \in Nat /\ \A i \in 1 .. L : l[i] \in Items /\ l[i] # n
      /\ \A i, j \in 1 .. L : l[i] = l[j] => i = j
      /\ h[c].child = IF L = 0 THEN NULL ELSE l[1]
      /\ \A i \in 1 .. L : /\ h[l[i]].next = IF i < L THEN l[i + 1] ELSE NULL
                           /\ h[l[i]].prev = IF i > 1 THEN l[i - 1] ELSE l[L]
  BY <1>1, MemberLinks
<1>3. In(l) = {l[i] : i \in 1 .. L} /\ n \notin In(l)
  <2>1. In(l) = {l[i] : i \in 1 .. L}
    BY <1>2, SequenceFacts
  <2>. QED  BY <1>2, <2>1
<1>4. /\ k \in 1 .. L /\ 1 \in 1 .. L /\ L \in 1 .. L /\ NULL \notin Items
      /\ k < L => k + 1 \in 1 .. L
      /\ k > 1 => k - 1 \in 1 .. L
      /\ k = 1 \/ k > 1
  BY <1>2, ItemsAssumption
<1>5. /\ t \in Seq(Items) /\ Len(t) = L
      /\ \A i \in 1 .. L : t[i] = IF i = k THEN n ELSE l[i]
      /\ \A i, j \in 1 .. Len(t) : t[i] = t[j] => i = j
  BY <1>1, <1>2, <1>3, <1>4, OtherItem DEF Changed
<1>6. /\ old \in Items /\ h[c].child = l[1] /\ (old = l[1] <=> k = 1) /\ old # n
      /\ before = (IF k > 1 THEN l[k - 1] ELSE l[L]) /\ before \in Items /\ before # n
      /\ after = (IF k < L THEN l[k + 1] ELSE NULL) /\ (after # NULL <=> k < L)
      /\ (before = old <=> L = 1) /\ after # old /\ after # n
      /\ k < L => after \in Items
  <2>1. old \in Items /\ h[c].child = l[1] /\ (old = l[1] <=> k = 1) /\ old # n
    BY <1>2, <1>4
  <2>2. before = (IF k > 1 THEN l[k - 1] ELSE l[L]) /\ after = (IF k < L THEN l[k + 1] ELSE NULL)
    BY <1>2, <1>4
  <2>3. before \in Items /\ before # n
    BY <1>2, <1>4, <2>2
  <2>4. before = old <=> L = 1
    <3>1. CASE k > 1
      BY <1>2, <1>4, <2>2, <3>1
    <3>2. CASE k = 1
      <4>1. before = l[L] /\ old = l[1]
        BY <2>2, <3>2
      <4>. QED  BY <1>2, <1>4, <4>1
    <3>. QED  BY <1>4, <3>1, <3>2
  <2>5. (after # NULL <=> k < L) /\ after # old /\ after # n /\ (k < L => after \in Items)
    <3>1. CASE k < L
      BY <1>2, <1>4, <2>2, <3>1
    <3>2. CASE ~(k < L)
      BY <1>1, <1>4, <2>1, <2>2, <3>2
    <3>. QED  BY <3>1, <3>2
  <2>. QED  BY <2>1, <2>2, <2>3, <2>4, <2>5
<1>. DEFINE a0 == [h EXCEPT ![n].next = h[old].next]
            a == [h EXCEPT ![n].next = h[old].next, ![n].prev = h[old].prev]
            b == IF a[n].next # NULL THEN [a EXCEPT ![a[n].next].prev = n] ELSE a
            c0 == [b EXCEPT ![c].child = n]
            c1 == [b EXCEPT ![c].child = n, ![n].prev = IF b[old].prev = old THEN n ELSE @]
            d0 == [b EXCEPT ![b[n].prev].next = n]
            e == IF b[c].child = old THEN c1
                 ELSE IF d0[n].next = NULL THEN [d0 EXCEPT ![d0[c].child].prev = n] ELSE d0
            y == [e EXCEPT ![old].next = NULL]
            z == [e EXCEPT ![old].next = NULL, ![old].prev = NULL]
<1>. HIDE DEF l, L, t, old
<1>7. g = z
  BY DEF Exchanged
<1>. HIDE DEF g, before, after
<1>8. Link(NULL) /\ Link(before) /\ Link(after) /\ \A x \in Items : Link(x)
  BY <1>6 DEF Link
<1>9. /\ a \in [Items -> Cells] /\ SameData(a, h)
      /\ \A x \in Items : /\ a[x].next = IF x = n THEN after ELSE h[x].next
                          /\ a[x].prev = IF x = n THEN before ELSE h[x].prev
                          /\ a[x].child = h[x].child
  <2>1. NextSet(a0, h, n, after) /\ PrevSet(a, a0, n, before)
    BY DEF NextSet, PrevSet, before, after
  <2>. HIDE DEF a, a0
  <2>2. /\ a0 \in [Items -> Cells] /\ SameData(a0, h)
        /\ \A x \in Items : /\ a0[x].next = IF x = n THEN after ELSE h[x].next
                            /\ a0[x].child = h[x].child /\ a0[x].prev = h[x].prev
    BY <1>1, <1>8, <2>1, SetNext
  <2>3. /\ a \in [Items -> Cells] /\ SameData(a, a0)
        /\ \A x \in Items : /\ a[x].prev = IF x = n THEN before ELSE a0[x].prev
                            /\ a[x].child = a0[x].child /\ a[x].next = a0[x].next
    BY <1>1, <1>8, <2>1, <2>2, SetPrev
  <2>. QED  BY <2>2, <2>3 DEF SameData
<1>10. a[n].next = after /\ a[n].prev = before
  BY <1>1, <1>9
<1>. HIDE DEF a
<1>11. /\ b \in [Items -> Cells] /\ SameData(b, a)
       /\ \A x \in Items : /\ b[x].prev = IF k < L /\ x = after THEN n ELSE a[x].prev
                           /\ b[x].child = a[x].child /\ b[x].next = a[x].next
  <2>1. CASE k < L
    <3>1. PrevSet(b, a, after, n)
      BY <1>6, <1>10, <2>1 DEF PrevSet
    <3>. HIDE DEF b
    <3>2. /\ b \in [Items -> Cells] /\ SameData(b, a)
          /\ \A x \in Items : /\ b[x].prev = IF x = after THEN n ELSE a[x].prev
                              /\ b[x].child = a[x].child /\ b[x].next = a[x].next
      BY <1>1, <1>6, <1>8, <1>9, <2>1, <3>1, SetPrev
    <3>. QED  BY <2>1, <3>2
  <2>2. CASE ~(k < L)
    <3>1. b = a
      BY <1>6, <1>10, <2>2
    <3>. HIDE DEF b
    <3>. QED  BY <1>9, <2>2, <3>1 DEF SameData
  <2>. QED  BY <2>1, <2>2
<1>12. b[n].next = after /\ b[n].prev = before /\ b[old].prev = before /\ b[c].child = l[1]
  <2>1. a[old].prev = before /\ a[c].child = l[1]
    <3>1. a[old].prev = h[old].prev /\ a[c].child = h[c].child
      BY <1>1, <1>6, <1>9
    <3>. QED  BY <1>6, <3>1 DEF before
  <2>2. b[n].next = a[n].next /\ b[c].child = a[c].child
    BY <1>1, <1>11
  <2>3. b[n].prev = a[n].prev /\ b[old].prev = a[old].prev
    BY <1>1, <1>6, <1>11
  <2>. QED  BY <1>10, <2>1, <2>2, <2>3
<1>. HIDE DEF b
<1>13. /\ e \in [Items -> Cells] /\ SameData(e, b)
       /\ \A x \in Items :
            /\ e[x].child = IF k = 1 /\ x = c THEN n ELSE b[x].child
            /\ e[x].next = IF k # 1 /\ x = before THEN n ELSE b[x].next
            /\ e[x].prev = IF k # 1 /\ k = L /\ x = l[1] THEN n
                           ELSE IF k = 1 /\ L = 1 /\ x = n THEN n ELSE b[x].prev
  <2>1. CASE k = 1
    <3>1. e = c1
      BY <1>6, <1>12, <2>1
    <3>2. ChildSet(c0, b, c, n)
      BY DEF ChildSet
    <3>3. c0[n].prev = b[n].prev
      BY <1>1, <1>11, <1>12
    <3>4. PrevSet(c1, c0, n, IF L = 1 THEN n ELSE before)
      <4>1. c0[n].prev = before /\ (b[old].prev = old <=> L = 1)
        BY <1>6, <1>12, <3>3
      <4>2. c1 = [c0 EXCEPT ![n].prev = IF b[old].prev = old THEN n ELSE c0[n].prev]
        OBVIOUS
      <4>. HIDE DEF c0, c1
      <4>. QED  BY <4>1, <4>2 DEF PrevSet
    <3>. HIDE DEF c0, c1, e
    <3>5. /\ c0 \in [Items -> Cells] /\ SameData(c0, b)
          /\ \A x \in Items : /\ c0[x].child = IF x = c THEN n ELSE b[x].child
                              /\ c0[x].next = b[x].next /\ c0[x].prev = b[x].prev
      BY <1>1, <1>8, <1>11, <3>2, SetChild
    <3>6. Link(IF L = 1 THEN n ELSE before)
      BY <1>1, <1>8
    <3>7. /\ c1 \in [Items -> Cells] /\ SameData(c1, c0)
          /\ \A x \in Items : /\ c1[x].prev = IF x = n THEN IF L = 1 THEN n ELSE before ELSE c0[x].prev
                              /\ c1[x].child = c0[x].child /\ c1[x].next = c0[x].next
      BY <1>1, <3>4, <3>5, <3>6, SetPrev
    <3>8. SameData(c1, b)
      BY <3>5, <3>7 DEF SameData
    <3>. QED  BY <1>12, <2>1, <3>1, <3>5, <3>7, <3>8
  <2>2. CASE k # 1
    <3>1. NextSet(d0, b, before, n)
      <4>1. b[n].prev = before
        BY <1>12
      <4>. QED  BY <4>1, Zenon DEF NextSet
    <3>2. e = IF d0[n].next = NULL THEN [d0 EXCEPT ![d0[c].child].prev = n] ELSE d0
      <4>1. b[c].child # old
        BY <1>6, <1>12, <2>2
      <4>. QED  BY <4>1, Zenon
    <3>. HIDE DEF d0, e
    <3>3. /\ d0 \in [Items -> Cells] /\ SameData(d0, b)
          /\ \A x \in Items : /\ d0[x].next = IF x = before THEN n ELSE b[x].next
                              /\ d0[x].child = b[x].child /\ d0[x].prev = b[x].prev
      BY <1>1, <1>6, <1>8, <1>11, <3>1, SetNext
    <3>4. d0[n].next = after /\ d0[c].child = l[1]
      BY <1>1, <1>6, <1>12, <3>3
    <3>5. CASE k = L
      <4>1. PrevSet(e, d0, l[1], n)
        <5>1. ~(k < L)
          BY <1>2, <3>5
        <5>. QED  BY <1>6, <3>2, <3>4, <5>1 DEF PrevSet
      <4>2. l[1] \in Items
        BY <1>2, <1>4
      <4>3. /\ e \in [Items -> Cells] /\ SameData(e, d0)
            /\ \A x \in Items : /\ e[x].prev = IF x = l[1] THEN n ELSE d0[x].prev
                                /\ e[x].child = d0[x].child /\ e[x].next = d0[x].next
        BY <1>1, <1>8, <3>3, <4>1, <4>2, SetPrev
      <4>4. SameData(e, b)
        BY <3>3, <4>3 DEF SameData
      <4>. QED  BY <2>2, <3>3, <3>5, <4>3, <4>4
    <3>6. CASE k # L
      <4>1. k < L
        BY <1>2, <1>4, <3>6
      <4>2. e = d0
        BY <1>6, <3>2, <3>4, <4>1
      <4>. QED  BY <2>2, <3>3, <3>6, <4>2
    <3>. QED  BY <3>5, <3>6
  <2>. QED  BY <2>1, <2>2, Zenon
<1>. HIDE DEF e
<1>14. /\ z \in [Items -> Cells] /\ SameData(z, e)
       /\ \A x \in Items : /\ z[x].next = IF x = old THEN NULL ELSE e[x].next
                           /\ z[x].prev = IF x = old THEN NULL ELSE e[x].prev
                           /\ z[x].child = e[x].child
  <2>1. NextSet(y, e, old, NULL) /\ PrevSet(z, y, old, NULL)
    BY DEF NextSet, PrevSet
  <2>. HIDE DEF y, z
  <2>2. /\ y \in [Items -> Cells] /\ SameData(y, e)
        /\ \A x \in Items : /\ y[x].next = IF x = old THEN NULL ELSE e[x].next
                            /\ y[x].child = e[x].child /\ y[x].prev = e[x].prev
    BY <1>6, <1>8, <1>13, <2>1, SetNext
  <2>3. /\ z \in [Items -> Cells] /\ SameData(z, y)
        /\ \A x \in Items : /\ z[x].prev = IF x = old THEN NULL ELSE y[x].prev
                            /\ z[x].child = y[x].child /\ z[x].next = y[x].next
    BY <1>6, <1>8, <2>1, <2>2, SetPrev
  <2>. QED  BY <2>2, <2>3 DEF SameData
<1>. HIDE DEF z
<1>15. SameData(z, h)
  BY <1>9, <1>11, <1>13, <1>14 DEF SameData
<1>16. \A x \in Items :
         /\ z[x].child = IF k = 1 /\ x = c THEN n ELSE h[x].child
         /\ z[x].next = IF x = old THEN NULL ELSE IF k # 1 /\ x = before THEN n
                        ELSE IF x = n THEN after ELSE h[x].next
         /\ z[x].prev = IF x = old THEN NULL ELSE IF k # 1 /\ k = L /\ x = l[1] THEN n
                        ELSE IF k = 1 /\ L = 1 /\ x = n THEN n
                        ELSE IF k < L /\ x = after THEN n
                        ELSE IF x = n THEN before ELSE h[x].prev
  BY <1>9, <1>11, <1>13, <1>14
<1>17. /\ z[n].next = after
       /\ z[n].prev = IF k > 1 THEN l[k - 1] ELSE IF L = 1 THEN n ELSE l[L]
  <2>1. n # l[1] /\ n # before /\ n # old
    BY <1>2, <1>4, <1>6
  <2>. QED  BY <1>1, <1>2, <1>4, <1>6, <1>16, <2>1
<1>18. \A j \in 1 .. L : j # k =>
         /\ z[l[j]].next = IF j = k - 1 THEN n ELSE IF j < L THEN l[j + 1] ELSE NULL
         /\ z[l[j]].prev = IF (j = 1 /\ k = L) \/ j = k + 1 THEN n
                           ELSE IF j > 1 THEN l[j - 1] ELSE l[L]
  <2>. SUFFICES ASSUME NEW j \in 1 .. L, j # k
                PROVE  /\ z[l[j]].next = IF j = k - 1 THEN n ELSE IF j < L THEN l[j + 1] ELSE NULL
                       /\ z[l[j]].prev = IF (j = 1 /\ k = L) \/ j = k + 1 THEN n
                                         ELSE IF j > 1 THEN l[j - 1] ELSE l[L]
    OBVIOUS
  <2>1. l[j] # old /\ (l[j] = l[1] <=> j = 1) /\ l[j] \in Items /\ l[j] # n
    BY <1>2, <1>4 DEF old
  <2>2. (k # 1 /\ l[j] = before) <=> j = k - 1
    <3>1. k = 1 => j # k - 1
      BY <1>2, <1>4
    <3>. QED  BY <1>2, <1>4, <1>6, <3>1
  <2>3. (k < L /\ l[j] = after) <=> j = k + 1
    <3>1. ~(k < L) => j # k + 1
      BY <1>2, <1>4
    <3>. QED  BY <1>2, <1>4, <1>6, <3>1
  <2>4. z[l[j]].next = IF j = k - 1 THEN n ELSE IF j < L THEN l[j + 1] ELSE NULL
    BY <1>2, <1>16, <2>1, <2>2
  <2>5. z[l[j]].prev = IF (j = 1 /\ k = L) \/ j = k + 1 THEN n
                       ELSE IF j > 1 THEN l[j - 1] ELSE l[L]
    <3>1. CASE j = 1 /\ k = L
      <4>1. k # 1
        BY <1>2, <1>4, <2>1, <3>1
      <4>. QED  BY <1>16, <2>1, <3>1, <4>1
    <3>2. CASE ~(j = 1 /\ k = L)
      BY <1>2, <1>16, <2>1, <2>3, <3>2
    <3>. QED  BY <3>1, <3>2
  <2>. QED  BY <2>4, <2>5
<1>19. Chain(z, c, t)
  <2>1. z[c].child = t[1] /\ L # 0
    BY <1>1, <1>2, <1>4, <1>5, <1>6, <1>16
  <2>2. ASSUME NEW i \in 1 .. L
        PROVE  /\ z[t[i]].next = IF i < L THEN t[i + 1] ELSE NULL
               /\ z[t[i]].prev = IF i > 1 THEN t[i - 1] ELSE t[L]
    <3>0. (i < L => i + 1 \in 1 .. L) /\ (i > 1 => i - 1 \in 1 .. L) /\ (i > 1 \/ i = 1)
      BY <1>2
    <3>1. CASE i = k
      <4>1. t[i] = n /\ (i < L => t[i + 1] = l[i + 1]) /\ (i > 1 => t[i - 1] = l[i - 1])
        <5>1. i + 1 # k /\ i - 1 # k
          BY <1>2, <3>1
        <5>. QED  BY <1>5, <3>0, <3>1, <5>1
      <4>2. t[L] = IF L = k THEN n ELSE l[L]
        BY <1>4, <1>5
      <4>. QED  BY <1>6, <1>17, <3>0, <3>1, <4>1, <4>2
    <3>2. CASE i # k
      <4>1. t[i] = l[i] /\ (i < L => t[i + 1] = IF i = k - 1 THEN n ELSE l[i + 1])
        <5>1. i + 1 = k <=> i = k - 1
          BY <1>2, <1>4
        <5>. QED  BY <1>5, <3>0, <3>2, <5>1
      <4>2. i = k - 1 => i < L
        BY <1>2, <1>4
      <4>3. i > 1 => t[i - 1] = IF i = k + 1 THEN n ELSE l[i - 1]
        <5>1. i - 1 = k <=> i = k + 1
          BY <1>2, <1>4
        <5>. QED  BY <1>5, <3>0, <5>1
      <4>4. t[L] = IF L = k THEN n ELSE l[L]
        BY <1>4, <1>5
      <4>5. ~(i > 1) => i # k + 1
        BY <1>2, <1>4
      <4>6. i > 1 => i # 1
        OBVIOUS
      <4>. QED  BY <1>18, <3>0, <3>2, <4>1, <4>2, <4>3, <4>4, <4>5, <4>6
    <3>. QED  BY <3>1, <3>2
  <2>. QED  BY <1>5, <2>1, <2>2 DEF Chain
<1>20. z[old].next = NULL
  BY <1>6, <1>16
<1>21. ChildrenKept(z, h, c) /\ LinksKept(z, h, In(l) \cup {n})
  <2>1. old \in In(l) /\ before \in In(l) /\ l[1] \in In(l) /\ (k < L => after \in In(l))
    BY <1>3, <1>4, <1>6 DEF old
  <2>. QED  BY <1>16, <2>1 DEF ChildrenKept, LinksKept
<1>22. /\ InOrder(z, (R \cup {old}) \ {n})
       /\ MembersWritten(z, h, c, t)
  <2>1. /\ Chain(z, c, Changed(List(h, c), k, n)) /\ z[List(h, c)[k]].next = NULL
        /\ LinksKept(z, h, In(List(h, c)) \cup {n})
    BY <1>19, <1>20, <1>21 DEF t, old, l
  <2>2. z \in [Items -> Cells] /\ ChildrenKept(z, h, c) /\ k \in 1 .. Len(List(h, c))
    BY <1>14, <1>21
  <2>3. /\ InOrder(z, (R \cup {List(h, c)[k]}) \ {n})
        /\ MembersWritten(z, h, c, Changed(List(h, c), k, n))
    BY <1>15, <2>1, <2>2, MemberChanged, Z3T(30)
  <2>. QED  BY <2>3 DEF t, old, l
<1>. QED  BY <1>7, <1>15, <1>22 DEF t, old, l, g

\* cJSON_Delete().
LEMMA Frees ==
  ASSUME NEW h, NEW R, InOrder(h, R), NEW n \in R
  PROVE  LET T == Subtree(h, n)
         IN  /\ InOrder(Freed(h, n), R \ {n})
             /\ InUse(Freed(h, n)) = InUse(h) \ T
             /\ \A x \in Items : Freed(h, n)[x] = IF x \in T THEN Blank ELSE h[x]
             /\ \A d \in Items : List(Freed(h, n), d) = IF d \in T THEN <<>> ELSE List(h, d)
<1>. DEFINE T == Subtree(h, n)
            g == Freed(h, n)
            M == Members(h)
            s == [d \in Items |-> IF d \in T THEN <<>> ELSE List(h, d)]
<1>1. /\ M \in [Items -> SUBSET Items] /\ IsForest(M, InUse(h), R) /\ IsTree(M, T, n)
      /\ \A d \in Items : M[d] = In(List(h, d)) /\ List(h, d) \in Seq(Items)
      /\ T \subseteq InUse(h) /\ R \subseteq InUse(h) /\ T \subseteq Items
  <2>1. n \in InUse(h)
    BY DEF InOrder, IsForest
  <2>2. Subtree(h, n) \subseteq InUse(h)
    BY <2>1, TreeOfItem
  <2>. QED  BY <2>1, <2>2, TreeOfItem DEF InUse
<1>2. h \in [Items -> Cells] /\ Memory(h)
  BY DEF InOrder, Memory
<1>3. g = [x \in Items |-> IF x \in T THEN Blank ELSE h[x]]
  BY DEF Freed
<1>. HIDE DEF T, g
<1>4. \A x \in Items : g[x] = IF x \in T THEN Blank ELSE h[x]
  BY <1>3
<1>5. Blank \in Cells /\ Blank.type = "free" /\ Blank.child = NULL /\ Blank.value = NoKey
  BY DEF Blank, Cells
<1>6. g \in [Items -> Cells]
  BY <1>2, <1>3, <1>5
<1>7. Memory(g)
  BY <1>2, <1>4, <1>5, <1>6 DEF Memory
<1>8. InUse(g) = InUse(h) \ T
  BY <1>4, <1>5 DEF InUse
<1>9. \A d \in Items \ T : \A x \in M[d] : x \notin T
  <2>. SUFFICES ASSUME NEW d \in Items \ T, NEW x \in M[d], x \in T PROVE FALSE
    OBVIOUS
  <2>1. x # n
    BY <1>1 DEF IsForest
  <2>2. n \in InUse(h)
    BY <1>1
  <2>. QED  BY <1>1, <2>1, <2>2, TreeInForest
<1>10. \A d \in Items : Chain(g, d, s[d])
  <2>. TAKE d \in Items
  <2>1. CASE d \in T
    <3>1. g[d].child = NULL /\ s[d] = <<>>
      BY <1>4, <1>5, <2>1
    <3>2. <<>> \in Seq(Items) /\ Len(<<>>) = 0 /\ 1 .. 0 = {}
      OBVIOUS
    <3>3. Chain(g, d, <<>>)
      BY <3>1, <3>2 DEF Chain
    <3>. QED  BY <3>1, <3>3
  <2>2. CASE d \notin T
    <3>1. Chain(h, d, List(h, d))
      BY DEF InOrder
    <3>2. \A x \in In(List(h, d)) : x \in Items /\ g[x] = h[x]
      BY <1>1, <1>4, <1>9, <2>2
    <3>3. Chain(g, d, List(h, d))
      BY <1>4, <2>2, <3>1, <3>2, ChainKept
    <3>. QED  BY <2>2, <3>3
  <2>. QED  BY <2>1, <2>2
<1>11. \A x \in R \ {n} : g[x].next = NULL
  <2>. TAKE x \in R \ {n}
  <2>1. x \notin T /\ x \in Items
    <3>1. n \in InUse(h) /\ x \in InUse(h) /\ InUse(h) \subseteq Items
      BY <1>1 DEF InUse
    <3>. QED  BY <1>1, <3>1, TreeInForest
  <2>. QED  BY <1>4, <2>1 DEF InOrder
<1>12. [d \in Items |-> In(s[d])] = [d \in Items |-> IF d \in T THEN {} ELSE M[d]]
  <2>1. In(<<>>) = {}
    BY DEF In
  <2>. QED  BY <1>1, <2>1
<1>13. IsForest([d \in Items |-> IF d \in T THEN {} ELSE M[d]], InUse(h) \ T, R \ {n})
  <2>. HIDE DEF M
  <2>. QED  BY <1>1, ForestLoses
<1>14. \A d \in Items : s[d] = IF d \in T THEN <<>> ELSE List(h, d)
  OBVIOUS
<1>. HIDE DEF s
<1>15. InOrder(g, R \ {n}) /\ \A d \in Items : List(g, d) = s[d]
  <2>1. IsForest([c \in Items |-> In(s[c])], InUse(g), R \ {n})
    BY <1>8, <1>12, <1>13
  <2>. QED  BY <1>7, <1>10, <1>11, <2>1, InOrderBy
<1>. QED  BY <1>4, <1>8, <1>14, <1>15 DEF T, g

\* An item found by its name is a member.
LEMMA FoundIsMember ==
  ASSUME NEW h, NEW c, List(h, c) \in Seq(Items), NEW k, Find(h, c, k) # NULL
  PROVE  \E i \in 1 .. Len(List(h, c)) : Find(h, c, k) = List(h, c)[i]
<1>. DEFINE l == List(h, c)
            at == {i \in DOMAIN l : h[l[i]].key # NoKey /\ Lower[h[l[i]].key] = Lower[k]}
            first == CHOOSE i \in at : \A j \in at : i <= j
<1>1. Find(h, c, k) = IF at = {} THEN NULL ELSE l[first]
  BY DEF Find
<1>2. at \in SUBSET Nat /\ at \subseteq 1 .. Len(l)
  OBVIOUS
<1>3. at # {}
  BY <1>1
<1>. HIDE DEF at
<1>4. first \in at
  <2>1. \E i \in at : \A j \in at : i <= j
    BY <1>2, <1>3, Least
  <2>. QED  BY <2>1
<1>. QED  BY <1>1, <1>2, <1>3, <1>4

\* Names and values are written, links stay.
LEMMA EditKeeps ==
  ASSUME NEW h, NEW R, InOrder(h, R), NEW g, Memory(g),
         \A x \in Items : /\ g[x].type = h[x].type /\ g[x].child = h[x].child
                          /\ g[x].next = h[x].next /\ g[x].prev = h[x].prev
  PROVE  /\ InOrder(g, R) /\ InUse(g) = InUse(h)
         /\ \A d \in Items : List(g, d) = List(h, d)
<1>. DEFINE s == [d \in Items |-> List(h, d)]
<1>1. IsForest(Members(h), InUse(h), R) /\ \A d \in Items : Chain(h, d, s[d])
  BY DEF InOrder
<1>2. InUse(g) = InUse(h)
  BY DEF InUse
<1>3. \A d \in Items : Chain(g, d, s[d])
  <2>. TAKE d \in Items
  <2>1. s[d] \in Seq(Items)
    BY <1>1 DEF Chain
  <2>2. In(s[d]) \subseteq Items
    BY <2>1, SequenceFacts
  <2>. HIDE DEF s
  <2>. QED  BY <1>1, <2>2, ChainKept
<1>4. \A x \in R : g[x].next = NULL
  BY <1>1 DEF InOrder, IsForest, InUse
<1>5. Members(h) = [d \in Items |-> In(s[d])]
  BY DEF Members
<1>6. \A d \in Items : s[d] = List(h, d)
  OBVIOUS
<1>. HIDE DEF s
<1>7. InOrder(g, R) /\ \A d \in Items : List(g, d) = s[d]
  BY <1>1, <1>2, <1>3, <1>4, <1>5, InOrderBy
<1>. QED  BY <1>2, <1>6, <1>7

\* A free item is taken.
LEMMA Creates ==
  ASSUME NEW h, NEW R, InOrder(h, R), NEW n \in Items \ InUse(h), NEW g, Memory(g),
         g[n].type # "free", g[n].child = NULL, g[n].next = NULL,
         \A x \in Items : x # n => g[x] = h[x]
  PROVE  /\ InOrder(g, R \cup {n}) /\ InUse(g) = InUse(h) \cup {n}
         /\ \A d \in Items : List(g, d) = List(h, d)
<1>. DEFINE s == [d \in Items |-> List(h, d)]
            M == Members(h)
<1>1. /\ IsForest(M, InUse(h), R) /\ \A d \in Items : Chain(h, d, s[d]) /\ M[d] = In(s[d])
      /\ \A d \in Items : s[d] = List(h, d)
      /\ M = [d \in Items |-> In(s[d])]
  BY DEF InOrder, Members
<1>2. InUse(g) = InUse(h) \cup {n}
  BY DEF InUse
<1>. HIDE DEF s, M
<1>3. \A d \in Items : M[d] \subseteq InUse(h) /\ M[d] \subseteq Items
  BY <1>1 DEF IsForest
<1>4. \A d \in Items : Chain(g, d, s[d])
  <2>. TAKE d \in Items
  <2>1. \A x \in In(s[d]) : g[x].next = h[x].next /\ g[x].prev = h[x].prev
    BY <1>1, <1>3
  <2>2. g[d].child = h[d].child
    <3>1. h[n].child = NULL
      BY DEF InOrder, Memory, InUse, Blank
    <3>. QED  BY <3>1
  <2>. QED  BY <1>1, <2>1, <2>2, ChainKept
<1>5. \A x \in R \cup {n} : g[x].next = NULL
  <2>1. \A x \in R : x \in Items /\ h[x].next = NULL
    BY <1>1 DEF InOrder, IsForest
  <2>. QED  BY <2>1
<1>6. IsForest([d \in Items |-> In(s[d])], InUse(g), R \cup {n})
  <2>1. IsForest(M, InUse(h) \cup {n}, R \cup {n})
    BY <1>1, ForestGains
  <2>. QED  BY <1>1, <1>2, <2>1
<1>7. InOrder(g, R \cup {n}) /\ \A d \in Items : List(g, d) = s[d]
  BY <1>4, <1>5, <1>6, InOrderBy
<1>. QED  BY <1>1, <1>2, <1>7

\* The links of a tree do not lead out of it.
LEMMA TreeLinks ==
  ASSUME NEW h, NEW R, InOrder(h, R), NEW n \in InUse(h)
  PROVE  LET T == Subtree(h, n)
         IN  \A x \in T : /\ x \in Items /\ In(List(h, x)) \subseteq T
                          /\ h[x].child = NULL \/ h[x].child \in T
                          /\ x # n => /\ h[x].next = NULL \/ h[x].next \in T
                                      /\ h[x].prev \in T
<1>. DEFINE T == Subtree(h, n)
            M == Members(h)
<1>1. /\ IsTree(M, T, n) /\ IsForest(M, InUse(h), R) /\ T \subseteq Items
      /\ \A c \in Items : M[c] = In(List(h, c)) /\ List(h, c) \in Seq(Items)
  BY TreeOfItem DEF InUse
<1>. HIDE DEF T, M
<1>2. ASSUME NEW x \in T
      PROVE  LET l == List(h, x) IN In(l) \subseteq T /\ \A i \in 1 .. Len(l) : l[i] \in T
  <2>1. In(List(h, x)) \subseteq T
    BY <1>1 DEF IsTree, WholeIn
  <2>2. \A i \in 1 .. Len(List(h, x)) : List(h, x)[i] \in In(List(h, x))
    BY <1>1, SequenceFacts
  <2>. QED  BY <2>1, <2>2
<1>3. ASSUME NEW x \in T PROVE h[x].child = NULL \/ h[x].child \in T
  <2>. DEFINE l == List(h, x)
  <2>1. h[x].child = (IF Len(l) = 0 THEN NULL ELSE l[1]) /\ Len(l) \in Nat
    BY <1>1, MemberLinks
  <2>2. Len(l) # 0 => 1 \in 1 .. Len(l)
    BY <2>1
  <2>. HIDE DEF l
  <2>3. \A i \in 1 .. Len(l) : l[i] \in T
    BY <1>2 DEF l
  <2>. QED  BY <2>1, <2>2, <2>3
<1>4. ASSUME NEW x \in T, x # n
      PROVE  (h[x].next = NULL \/ h[x].next \in T) /\ h[x].prev \in T
  <2>1. PICK c \in T : x \in M[c]
    BY <1>1, <1>4, TreeInForest
  <2>. DEFINE l == List(h, c)
  <2>2. /\ Len(l) \in Nat
        /\ \A i \in 1 .. Len(l) : /\ h[l[i]].next = IF i < Len(l) THEN l[i + 1] ELSE NULL
                                  /\ h[l[i]].prev = IF i > 1 THEN l[i - 1] ELSE l[Len(l)]
    BY <1>1, MemberLinks
  <2>3. In(l) = {l[i] : i \in 1 .. Len(l)} /\ M[c] = In(l)
    BY <1>1, SequenceFacts
  <2>. HIDE DEF l
  <2>4. \A i \in 1 .. Len(l) : l[i] \in T
    BY <1>2 DEF l
  <2>5. PICK i \in 1 .. Len(l) : x = l[i]
    BY <2>1, <2>3
  <2>6. /\ i < Len(l) => i + 1 \in 1 .. Len(l)
        /\ i > 1 => i - 1 \in 1 .. Len(l)
        /\ Len(l) \in 1 .. Len(l)
    BY <2>2
  <2>. QED  BY <2>2, <2>4, <2>5, <2>6
<1>. QED  BY <1>1, <1>2, <1>3, <1>4 DEF T

\* A sequence of items and what each is mapped to.
Image(s, f) == [i \in 1 .. Len(s) |-> f[s[i]]]

LEMMA ImageOf ==
  ASSUME NEW T \in SUBSET Items, NEW f \in [T -> Items], \A x, y \in T : f[x] = f[y] => x = y,
         NEW s \in Seq(Items), In(s) \subseteq T, \A i, j \in 1 .. Len(s) : s[i] = s[j] => i = j
  PROVE  LET t == Image(s, f)
         IN  /\ t \in Seq(Items) /\ Len(t) = Len(s) /\ In(t) = Mapped(In(s), f)
             /\ \A i \in 1 .. Len(s) : t[i] = f[s[i]] /\ s[i] \in T
             /\ \A i, j \in 1 .. Len(t) : t[i] = t[j] => i = j
<1>. DEFINE t == Image(s, f)
<1>1. Len(s) \in Nat /\ In(s) = {s[i] : i \in 1 .. Len(s)} /\ \A i \in 1 .. Len(s) : s[i] \in T
  BY SequenceFacts
<1>2. t = [i \in 1 .. Len(s) |-> f[s[i]]]
  BY DEF Image
<1>. HIDE DEF t
<1>3. t \in Seq(Items) /\ Len(t) = Len(s) /\ DOMAIN t = 1 .. Len(s)
  <2>1. \A i \in 1 .. Len(s) : f[s[i]] \in Items
    BY <1>1
  <2>. QED  BY <1>1, <1>2, <2>1
<1>4. \A i \in 1 .. Len(s) : t[i] = f[s[i]]
  BY <1>2
<1>5. In(t) = {t[i] : i \in 1 .. Len(s)}
  BY <1>3 DEF In
<1>6. In(t) = Mapped(In(s), f)
  BY <1>1, <1>4, <1>5 DEF Mapped
<1>. QED  BY <1>1, <1>3, <1>4, <1>6 DEF t

\* In g the items of the tree n are copied to f and linked as in h.
CopyLinks(g, h, n, f) ==
  /\ \A m \in Items : m \notin In(f) => g[m] = h[m]
  /\ \A x \in Subtree(h, n) :
       /\ g[f[x]].type = h[x].type
       /\ g[f[x]].child = IF h[x].child = NULL THEN NULL ELSE f[h[x].child]
       /\ g[f[x]].next = IF x = n \/ h[x].next = NULL THEN NULL ELSE f[h[x].next]
       /\ x # n => g[f[x]].prev = f[h[x].prev]

\* In g the lists of the tree n are copied to f.
CopyLists(g, h, n, f) ==
  /\ \A d \in Items : d \notin In(f) => List(g, d) = List(h, d)
  /\ \A x \in Subtree(h, n) : List(g, f[x]) = Image(List(h, x), f)

LEMMA CopyInOrder ==
  ASSUME NEW h, NEW R, InOrder(h, R), NEW n \in InUse(h),
         NEW f, OneToOne(f, Subtree(h, n), Items \ InUse(h)),
         NEW g, Memory(g), CopyLinks(g, h, n, f)
  PROVE  InOrder(g, R \cup {f[n]}) /\ CopyLists(g, h, n, f)
<1>. DEFINE T == Subtree(h, n)
            M == Members(h)
            C == In(f)
            from(d) == CHOOSE x \in T : f[x] = d
            s == [d \in Items |-> IF d \in C THEN Image(List(h, from(d)), f) ELSE List(h, d)]
<1>. /\ f \in [Subtree(h, n) -> Items \ InUse(h)]
     /\ \A x, y \in Subtree(h, n) : f[x] = f[y] => x = y
     /\ \A m \in Items : m \notin In(f) => g[m] = h[m]
     /\ \A x \in Subtree(h, n) :
          /\ g[f[x]].type = h[x].type
          /\ g[f[x]].child = IF h[x].child = NULL THEN NULL ELSE f[h[x].child]
          /\ g[f[x]].next = IF x = n \/ h[x].next = NULL THEN NULL ELSE f[h[x].next]
          /\ x # n => g[f[x]].prev = f[h[x].prev]
  BY DEF OneToOne, CopyLinks
<1>1. /\ M \in [Items -> SUBSET Items] /\ IsForest(M, InUse(h), R) /\ IsTree(M, T, n)
      /\ \A d \in Items : M[d] = In(List(h, d)) /\ List(h, d) \in Seq(Items)
      /\ T \in SUBSET Items /\ n \in T /\ T \subseteq InUse(h) /\ R \subseteq InUse(h)
  BY TreeOfItem DEF InUse
<1>2. C = {f[x] : x \in T} /\ \A x \in T : f[x] \in Items /\ f[x] \notin InUse(h)
  BY DEF In
<1>3. \A x \in T : from(f[x]) = x
  OBVIOUS
<1>4. /\ \A d \in Items : d \notin C => s[d] = List(h, d)
      /\ \A x \in T : s[f[x]] = Image(List(h, x), f)
  <2>. HIDE DEF from
  <2>. QED  BY <1>2, <1>3
<1>. HIDE DEF s, C, from
<1>5. /\ \A d \in Items, i, j \in Nat : i \in 1 .. Len(List(h, d)) /\ j \in 1 .. Len(List(h, d))
                           /\ List(h, d)[i] = List(h, d)[j] => i = j
      /\ \A x \in T : In(List(h, x)) \subseteq T
  BY MemberLinks, TreeLinks
<1>6. ASSUME NEW x \in T
      PROVE  LET l == List(h, x) t == Image(l, f)
             IN  /\ t \in Seq(Items) /\ Len(t) = Len(l) /\ In(t) = Mapped(In(l), f)
                 /\ \A i \in 1 .. Len(l) : t[i] = f[l[i]] /\ l[i] \in T
                 /\ \A i, j \in 1 .. Len(t) : t[i] = t[j] => i = j
  <2>1. f \in [T -> Items] /\ List(h, x) \in Seq(Items) /\ In(List(h, x)) \subseteq T
    BY <1>1, <1>5
  <2>2. \A i, j \in 1 .. Len(List(h, x)) : List(h, x)[i] = List(h, x)[j] => i = j
    BY <1>1, MemberLinks
  <2>. HIDE DEF T
  <2>3. \A y, z \in T : f[y] = f[z] => y = z
    BY DEF T
  <2>. QED  BY <1>1, <2>1, <2>2, <2>3, ImageOf
<1>7. InUse(g) = InUse(h) \cup C
  <2>. SUFFICES ASSUME NEW m \in Items PROVE g[m].type # "free" <=> m \in InUse(h) \cup C
    <3>1. C \subseteq Items
      BY <1>2
    <3>. QED  BY <3>1 DEF InUse
  <2>1. CASE m \in C
    <3>1. PICK x \in T : m = f[x]
      BY <1>2, <2>1
    <3>2. g[f[x]].type = h[x].type /\ h[x].type # "free"
      BY <1>1 DEF InUse
    <3>. QED  BY <2>1, <3>1, <3>2
  <2>2. CASE m \notin C
    BY <2>2 DEF InUse, C
  <2>. QED  BY <2>1, <2>2
<1>8. \A d \in Items : Chain(g, d, s[d])
  <2>. TAKE d \in Items
  <2>1. CASE d \notin C
    <3>1. Chain(h, d, List(h, d))
      BY DEF InOrder
    <3>2. \A x \in In(List(h, d)) : x \in Items /\ x \notin C
      <4>1. M[d] \subseteq InUse(h)
        BY <1>1 DEF IsForest
      <4>. QED  BY <1>1, <1>2, <4>1
    <3>3. g[d] = h[d] /\ \A x \in In(List(h, d)) : g[x] = h[x]
      BY <2>1, <3>2 DEF C
    <3>4. Chain(g, d, List(h, d))
      BY <3>1, <3>3, ChainKept
    <3>. QED  BY <1>4, <2>1, <3>4
  <2>2. CASE d \in C
    <3>1. PICK x \in T : d = f[x]
      BY <1>2, <2>2
    <3>. DEFINE l == List(h, x)
                t == Image(l, f)
    <3>2. /\ t \in Seq(Items) /\ Len(t) = Len(l)
          /\ \A i \in 1 .. Len(l) : t[i] = f[l[i]] /\ l[i] \in T
          /\ \A i, j \in 1 .. Len(t) : t[i] = t[j] => i = j
      BY <1>6
    <3>3. /\ Len(l) \in Nat
          /\ \A i \in 1 .. Len(l) : l[i] \in Items /\ l[i] # n
          /\ h[x].child = IF Len(l) = 0 THEN NULL ELSE l[1]
          /\ \A i \in 1 .. Len(l) : /\ h[l[i]].next = IF i < Len(l) THEN l[i + 1] ELSE NULL
                                    /\ h[l[i]].prev = IF i > 1 THEN l[i - 1] ELSE l[Len(l)]
      <4>1. \A i \in 1 .. Len(l) : l[i] \in In(l)
        BY <1>1, SequenceFacts
      <4>2. n \notin In(l)
        <5>1. n \notin M[x]
          BY <1>1, NoCycles
        <5>. QED  BY <1>1, <5>1
      <4>3. \A i \in 1 .. Len(l) : l[i] # n
        BY <4>1, <4>2
      <4>. HIDE DEF l
      <4>4. /\ Len(l) \in Nat
            /\ \A i \in 1 .. Len(l) : l[i] \in Items
            /\ h[x].child = IF Len(l) = 0 THEN NULL ELSE l[1]
            /\ \A i \in 1 .. Len(l) : /\ h[l[i]].next = IF i < Len(l) THEN l[i + 1] ELSE NULL
                                      /\ h[l[i]].prev = IF i > 1 THEN l[i - 1] ELSE l[Len(l)]
        BY <1>1, MemberLinks DEF l
      <4>. QED  BY <4>3, <4>4
    <3>. HIDE DEF l, t
    <3>4. NULL \notin Items
      BY ItemsAssumption
    <3>5. g[d].child = IF Len(t) = 0 THEN NULL ELSE t[1]
      <4>1. CASE Len(l) = 0
        BY <3>1, <3>2, <3>3, <4>1
      <4>2. CASE Len(l) # 0
        <5>1. 1 \in 1 .. Len(l) /\ h[x].child = l[1] /\ l[1] # NULL
          BY <3>3, <3>4, <4>2
        <5>2. g[d].child = f[l[1]]
          BY <3>1, <5>1
        <5>. QED  BY <3>2, <4>2, <5>1, <5>2
      <4>. QED  BY <4>1, <4>2
    <3>6. ASSUME NEW i \in 1 .. Len(l)
          PROVE  /\ g[t[i]].next = IF i < Len(t) THEN t[i + 1] ELSE NULL
                 /\ g[t[i]].prev = IF i > 1 THEN t[i - 1] ELSE t[Len(t)]
      <4>1. /\ l[i] \in T /\ t[i] = f[l[i]] /\ l[i] # n
            /\ i < Len(l) => i + 1 \in 1 .. Len(l)
            /\ i > 1 => i - 1 \in 1 .. Len(l)
            /\ Len(l) \in 1 .. Len(l)
        BY <3>2, <3>3
      <4>2. g[t[i]].next = IF h[l[i]].next = NULL THEN NULL ELSE f[h[l[i]].next]
        BY <4>1
      <4>3. g[t[i]].prev = f[h[l[i]].prev]
        BY <4>1
      <4>4. i < Len(l) => l[i + 1] # NULL /\ t[i + 1] = f[l[i + 1]]
        BY <3>2, <3>3, <3>4, <4>1
      <4>5. (i > 1 => t[i - 1] = f[l[i - 1]]) /\ t[Len(l)] = f[l[Len(l)]]
        BY <3>2, <4>1
      <4>. QED  BY <3>2, <3>3, <4>2, <4>3, <4>4, <4>5
    <3>7. Chain(g, d, t)
      BY <3>2, <3>5, <3>6 DEF Chain
    <3>. QED  BY <1>4, <3>1, <3>7 DEF t, l
  <2>. QED  BY <2>1, <2>2
<1>9. \A x \in R \cup {f[n]} : g[x].next = NULL
  <2>. TAKE x \in R \cup {f[n]}
  <2>1. CASE x = f[n]
    BY <1>1, <2>1
  <2>2. CASE x # f[n]
    <3>1. x \in R /\ x \in Items /\ x \notin C
      <4>1. x \in InUse(h) /\ InUse(h) \subseteq Items
        BY <1>1, <2>2 DEF InUse
      <4>. QED  BY <1>2, <2>2, <4>1
    <3>2. g[x] = h[x]
      BY <3>1 DEF C
    <3>. QED  BY <3>1, <3>2 DEF InOrder
  <2>. QED  BY <2>1, <2>2
<1>. DEFINE K == [d \in Items |-> In(s[d])]
<1>10. /\ K \in [Items -> SUBSET Items]
       /\ \A x \in T : K[f[x]] = Mapped(M[x], f)
       /\ \A d \in Items : d \notin C => K[d] = M[d]
  <2>1. \A d \in Items : K[d] = In(s[d]) /\ K[d] \subseteq Items
    <3>. TAKE d \in Items
    <3>1. s[d] \in Seq(Items)
      BY <1>8 DEF Chain
    <3>. QED  BY <3>1, SequenceFacts
  <2>2. K \in [Items -> SUBSET Items]
    BY <2>1
  <2>. HIDE DEF K
  <2>3. \A x \in T : K[f[x]] = Mapped(M[x], f)
    <3>. TAKE x \in T
    <3>1. f[x] \in Items /\ M[x] = In(List(h, x))
      BY <1>1, <1>2
    <3>2. In(Image(List(h, x), f)) = Mapped(In(List(h, x)), f)
      BY <1>6
    <3>. QED  BY <1>4, <2>1, <3>1, <3>2
  <2>4. ASSUME NEW d \in Items, d \notin C PROVE K[d] = M[d]
    <3>1. K[d] = In(s[d]) /\ s[d] = List(h, d) /\ M[d] = In(List(h, d))
      BY <1>1, <1>4, <2>1, <2>4
    <3>. QED  BY <3>1
  <2>. QED  BY <2>2, <2>3, <2>4
<1>11. IsForest(K, InUse(g), R \cup {f[n]})
  <2>1. OneToOne(f, T, Items \ InUse(h)) /\ CopyOf(K, M, f, T)
    <3>. HIDE DEF K
    <3>. QED  BY <1>10 DEF C, OneToOne, CopyOf
  <2>. HIDE DEF K, T, M
  <2>2. IsForest(K, InUse(h) \cup In(f), R \cup {f[n]})
    BY <1>1, <2>1, ForestCopies
  <2>. QED  BY <1>7, <2>2 DEF C
<1>12. InOrder(g, R \cup {f[n]}) /\ \A d \in Items : List(g, d) = s[d]
  BY <1>8, <1>9, <1>11, InOrderBy
<1>. QED  BY <1>2, <1>4, <1>12 DEF C, CopyLists

\* What Copied() puts where.
LEMMA CopyCells ==
  ASSUME NEW h, NEW R, InOrder(h, R), NEW n \in InUse(h),
         NEW f, OneToOne(f, Subtree(h, n), Items \ InUse(h))
  PROVE  LET g == Copied(h, n, f)
         IN  /\ g \in [Items -> Cells] /\ CopyLinks(g, h, n, f)
             /\ \A x \in Subtree(h, n) : /\ f[x] \in Items /\ f[x] \in In(f)
                                         /\ g[f[x]].key = h[x].key
                                         /\ g[f[x]].value = h[x].value
<1>. DEFINE T == Subtree(h, n)
            copy(m) == IF m = NULL THEN NULL ELSE f[m]
            at(m) == CHOOSE x \in DOMAIN f : f[x] = m
            cell(x) == [h[x] EXCEPT !.child = copy(@), !.next = IF x = n THEN NULL ELSE copy(@),
                                    !.prev = IF x = n THEN NULL ELSE copy(@)]
            g == Copied(h, n, f)
<1>1. /\ h \in [Items -> Cells] /\ T \subseteq Items /\ n \in T
      /\ f \in [T -> Items \ InUse(h)] /\ \A x, y \in T : f[x] = f[y] => x = y
      /\ NULL \notin Items /\ NULL \notin T
  <2>1. h \in [Items -> Cells]
    BY DEF InOrder, Memory
  <2>2. f \in [T -> Items \ InUse(h)] /\ \A x, y \in T : f[x] = f[y] => x = y
    BY DEF OneToOne
  <2>3. T \subseteq Items /\ n \in T
    BY TreeOfItem DEF InUse
  <2>. QED  BY <2>1, <2>2, <2>3, ItemsAssumption
<1>2. g = [m \in Items |-> IF m \notin In(f) THEN h[m] ELSE cell(at(m))]
  BY DEF Copied
<1>. HIDE DEF T, g
<1>3. /\ In(f) = {f[x] : x \in T} /\ In(f) \subseteq Items /\ DOMAIN f = T
      /\ \A x \in T : f[x] \in Items /\ f[x] \in In(f)
  BY <1>1 DEF In
<1>4. \A x \in T : at(f[x]) = x
  BY <1>1
<1>. HIDE DEF at
<1>5. \A x \in T :
        /\ h[x].child = NULL \/ h[x].child \in T
        /\ x # n => (h[x].next = NULL \/ h[x].next \in T) /\ h[x].prev \in T
  BY TreeLinks DEF T
<1>6. ASSUME NEW x \in T
      PROVE  /\ cell(x) \in Cells
             /\ cell(x).type = h[x].type /\ cell(x).key = h[x].key /\ cell(x).value = h[x].value
             /\ cell(x).child = IF h[x].child = NULL THEN NULL ELSE f[h[x].child]
             /\ cell(x).next = IF x = n \/ h[x].next = NULL THEN NULL ELSE f[h[x].next]
             /\ x # n => cell(x).prev = f[h[x].prev]
  <2>1. h[x] \in Cells
    BY <1>1
  <2>. DEFINE child == copy(h[x].child)
              next == IF x = n THEN NULL ELSE copy(h[x].next)
              prev == IF x = n THEN NULL ELSE copy(h[x].prev)
  <2>2. /\ child = IF h[x].child = NULL THEN NULL ELSE f[h[x].child]
        /\ next = IF x = n \/ h[x].next = NULL THEN NULL ELSE f[h[x].next]
        /\ x # n => prev = f[h[x].prev]
    BY <1>1, <1>5
  <2>3. \A y \in T : f[y] \in Items
    BY <1>1
  <2>4. /\ child = NULL \/ child \in Items
        /\ next = NULL \/ next \in Items
    BY <1>5, <2>2, <2>3
  <2>5. prev = NULL \/ prev \in Items
    BY <1>5, <2>2, <2>3
  <2>6. cell(x) = [h[x] EXCEPT !.child = child, !.next = next, !.prev = prev]
    OBVIOUS
  <2>. HIDE DEF child, next, prev, cell
  <2>7. /\ cell(x) \in Cells
        /\ cell(x).type = h[x].type /\ cell(x).key = h[x].key /\ cell(x).value = h[x].value
        /\ cell(x).child = child /\ cell(x).next = next /\ cell(x).prev = prev
    BY <2>1, <2>4, <2>5, <2>6 DEF Cells
  <2>. QED  BY <2>2, <2>7
<1>. HIDE DEF cell
<1>7. /\ \A x \in T : g[f[x]] = cell(x)
      /\ \A m \in Items : m \notin In(f) => g[m] = h[m]
  BY <1>2, <1>3, <1>4
<1>8. g \in [Items -> Cells]
  <2>1. \A m \in Items : g[m] \in Cells
    <3>. TAKE m \in Items
    <3>1. CASE m \in In(f)
      <4>1. PICK x \in T : m = f[x]
        BY <1>3, <3>1
      <4>. QED  BY <1>6, <1>7, <4>1
    <3>2. CASE m \notin In(f)
      BY <1>1, <1>7, <3>2
    <3>. QED  BY <3>1, <3>2
  <2>2. g = [m \in Items |-> g[m]]
    BY <1>2
  <2>. QED  BY <2>1, <2>2
<1>9. CopyLinks(g, h, n, f)
  BY <1>6, <1>7 DEF CopyLinks, T
<1>. QED  BY <1>3, <1>6, <1>7, <1>8, <1>9 DEF T, g

\* What is copied with its links is memory when values and names are good.
LEMMA CopyMemory ==
  ASSUME NEW h, NEW R, InOrder(h, R), NEW n \in InUse(h),
         NEW f, OneToOne(f, Subtree(h, n), Items \ InUse(h)),
         NEW g \in [Items -> Cells], CopyLinks(g, h, n, f),
         \A x \in Subtree(h, n) :
           g[f[x]].value \in IF h[x].type = "leaf" THEN LeafValues ELSE {NoKey}
  PROVE  Memory(g)
<1>. DEFINE T == Subtree(h, n)
<1>1. /\ \A m \in Items : m \notin In(f) => g[m] = h[m]
      /\ \A x \in T : /\ g[f[x]].type = h[x].type
                      /\ g[f[x]].child = IF h[x].child = NULL THEN NULL ELSE f[h[x].child]
  BY DEF CopyLinks
<1>2. \A x \in T : x \in Items /\ h[x].type # "free"
  BY TreeOfItem DEF InUse
<1>3. \A m \in In(f) : \E x \in T : m = f[x]
  BY DEF In, OneToOne
<1>. HIDE DEF T
<1>4. ASSUME NEW m \in Items
      PROVE  /\ g[m].type = "free" => g[m] = Blank
             /\ g[m].type \notin {"object", "array"} => g[m].child = NULL
             /\ g[m].value \in IF g[m].type = "leaf" THEN LeafValues ELSE {NoKey}
  <2>1. CASE m \in In(f)
    <3>1. PICK x \in T : m = f[x]
      BY <1>3, <2>1
    <3>2. g[m].type = h[x].type /\ g[m].type # "free"
      BY <1>1, <1>2, <3>1
    <3>3. h[x].type \notin {"object", "array"} => h[x].child = NULL
      BY <1>2 DEF InOrder, Memory
    <3>4. g[m].type \notin {"object", "array"} => g[m].child = NULL
      BY <1>1, <3>1, <3>2, <3>3
    <3>5. g[m].value \in IF h[x].type = "leaf" THEN LeafValues ELSE {NoKey}
      BY <3>1 DEF T
    <3>. QED  BY <3>2, <3>4, <3>5
  <2>2. CASE m \notin In(f)
    <3>1. g[m] = h[m]
      BY <1>1, <2>2
    <3>. QED  BY <3>1 DEF InOrder, Memory
  <2>. QED  BY <2>1, <2>2
<1>. QED  BY <1>4 DEF Memory

\* cJSON_Duplicate().
LEMMA Duplicates ==
  ASSUME NEW h, NEW R, InOrder(h, R), NEW n \in InUse(h),
         NEW f, OneToOne(f, Subtree(h, n), Items \ InUse(h))
  PROVE  LET g == Copied(h, n, f)
         IN  InOrder(g, R \cup {f[n]}) /\ CopyLists(g, h, n, f)
<1>. DEFINE g == Copied(h, n, f)
<1>1. /\ g \in [Items -> Cells] /\ CopyLinks(g, h, n, f)
      /\ \A x \in Subtree(h, n) : g[f[x]].value = h[x].value
  BY CopyCells
<1>. HIDE DEF g
<1>2. \A x \in Subtree(h, n) : g[f[x]].value \in IF h[x].type = "leaf" THEN LeafValues ELSE {NoKey}
  <2>1. \A x \in Subtree(h, n) : x \in Items
    BY TreeOfItem DEF InUse
  <2>. QED  BY <1>1, <2>1 DEF InOrder, Memory
<1>3. Memory(g)
  BY <1>1, <1>2, CopyMemory
<1>4. CopyLinks(g, h, n, f)
  BY <1>1
<1>5. InOrder(g, R \cup {f[n]}) /\ CopyLists(g, h, n, f)
  BY <1>3, <1>4, CopyInOrder
<1>. QED  BY <1>5 DEF g

\* A copy has the values and the names of the original, or those that are printed and read.
CopySame(g, h, n, f) ==
  \A x \in Subtree(h, n) : g[f[x]].value = h[x].value /\ g[f[x]].key = h[x].key

CopyRead(g, h, n, f) ==
  \A x \in Subtree(h, n) :
    /\ g[f[x]].value = IF h[x].type = "leaf" THEN Read(h[x].value) ELSE NoKey
    /\ g[f[x]].key = IF \E c \in Subtree(h, n) : h[c].type = "object" /\ x \in In(List(h, c))
                     THEN h[x].key ELSE NoKey

LEMMA ReadValues ==
  \A v \in LeafValues : Read(v) \in LeafValues
<1>. TAKE v \in LeafValues
<1>1. CASE v.kind = "number"
  <2>1. v.double \in Nat
    BY <1>1 DEF LeafValues
  <2>2. ToInt(v.double) \in Nat
    BY <2>1, ItemsAssumption DEF ToInt
  <2>. QED  BY <1>1, <2>1, <2>2 DEF LeafValues, Read, Number
<1>2. CASE v.kind # "number"
  BY <1>2 DEF LeafValues, Read
<1>. QED  BY <1>1, <1>2

\* Printed and parsed.
LEMMA Reads ==
  ASSUME NEW h, NEW R, InOrder(h, R), NEW n \in InUse(h),
         NEW f, OneToOne(f, Subtree(h, n), Items \ InUse(h))
  PROVE  LET g == AsRead(h, n, f)
         IN  /\ InOrder(g, R \cup {f[n]}) /\ CopyLinks(g, h, n, f) /\ CopyLists(g, h, n, f)
             /\ CopyRead(g, h, n, f)
<1>. DEFINE T == Subtree(h, n)
            p == Copied(h, n, f)
            inObject(x) == \E c \in T : h[c].type = "object" /\ x \in In(List(h, c))
            named == {f[m] : m \in {x \in DOMAIN f : \E c \in DOMAIN f : h[c].type = "object" /\ x \in In(List(h, c))}}
            cell(m) == [p[m] EXCEPT !.key = IF m \in named THEN @ ELSE NoKey,
                                    !.value = IF p[m].type = "leaf" THEN Read(@) ELSE @]
            g == AsRead(h, n, f)
<1>1. /\ p \in [Items -> Cells] /\ CopyLinks(p, h, n, f)
      /\ \A x \in T : /\ f[x] \in Items /\ f[x] \in In(f)
                      /\ p[f[x]].key = h[x].key /\ p[f[x]].value = h[x].value
  BY CopyCells, Zenon
<1>2. g = [m \in Items |-> IF m \notin In(f) THEN p[m] ELSE cell(m)]
  BY DEF AsRead
<1>3. DOMAIN f = T /\ \A x, y \in T : f[x] = f[y] => x = y
  BY DEF OneToOne
<1>4. \A x \in T : f[x] \in named <=> inObject(x)
  BY <1>3
<1>5. \A x \in T : x \in Items /\ (h[x].value \in IF h[x].type = "leaf" THEN LeafValues ELSE {NoKey})
  <2>1. \A x \in T : x \in Items
    BY TreeOfItem DEF InUse
  <2>. QED  BY <2>1 DEF InOrder, Memory
<1>. HIDE DEF p, T, named, g, inObject
<1>6. \A x \in T : p[f[x]].type = h[x].type
  BY <1>1 DEF CopyLinks, T
<1>7. ASSUME NEW x \in T
      PROVE  LET m == f[x]
             IN  /\ cell(m) \in Cells /\ cell(m).type = p[m].type /\ cell(m).child = p[m].child
                 /\ cell(m).next = p[m].next /\ cell(m).prev = p[m].prev
                 /\ cell(m).value = IF h[x].type = "leaf" THEN Read(h[x].value) ELSE h[x].value
                 /\ cell(m).key = IF inObject(x) THEN h[x].key ELSE NoKey
  <2>. DEFINE m == f[x]
              key == IF m \in named THEN p[m].key ELSE NoKey
              value == IF p[m].type = "leaf" THEN Read(p[m].value) ELSE p[m].value
  <2>1. p[m] \in Cells
    BY <1>1
  <2>2. key \in Keys \cup {NoKey} /\ key = IF inObject(x) THEN h[x].key ELSE NoKey
    BY <1>1, <1>4, <2>1 DEF Cells
  <2>3. value = IF h[x].type = "leaf" THEN Read(h[x].value) ELSE h[x].value
    BY <1>1, <1>6
  <2>4. value \in LeafValues \cup {NoKey}
    BY <1>5, <2>3, ReadValues
  <2>5. cell(m) = [p[m] EXCEPT !.key = key, !.value = value]
    OBVIOUS
  <2>. HIDE DEF key, value, cell, m
  <2>6. /\ cell(m) \in Cells /\ cell(m).type = p[m].type /\ cell(m).child = p[m].child
        /\ cell(m).next = p[m].next /\ cell(m).prev = p[m].prev
        /\ cell(m).value = value /\ cell(m).key = key
    BY <2>1, <2>2, <2>4, <2>5 DEF Cells
  <2>. QED  BY <2>2, <2>3, <2>6 DEF m
<1>. HIDE DEF cell
<1>8. /\ \A m \in Items : m \notin In(f) => g[m] = p[m]
      /\ \A x \in T : g[f[x]] = cell(f[x])
  BY <1>1, <1>2
<1>9. g \in [Items -> Cells]
  <2>1. \A m \in Items : g[m] \in Cells
    <3>. TAKE m \in Items
    <3>1. CASE m \in In(f)
      <4>1. PICK x \in T : m = f[x]
        BY <1>3, <3>1 DEF In
      <4>. QED  BY <1>7, <1>8, <4>1
    <3>2. CASE m \notin In(f)
      BY <1>1, <1>8, <3>2
    <3>. QED  BY <3>1, <3>2
  <2>. QED  BY <1>2, <2>1
<1>10. CopyLinks(g, h, n, f)
  <2>1. \A m \in Items : m \notin In(f) => g[m] = h[m]
    BY <1>1, <1>8 DEF CopyLinks
  <2>2. ASSUME NEW x \in T
        PROVE  /\ g[f[x]].type = h[x].type
               /\ g[f[x]].child = IF h[x].child = NULL THEN NULL ELSE f[h[x].child]
               /\ g[f[x]].next = IF x = n \/ h[x].next = NULL THEN NULL ELSE f[h[x].next]
               /\ x # n => g[f[x]].prev = f[h[x].prev]
    <3>1. /\ p[f[x]].type = h[x].type
          /\ p[f[x]].child = IF h[x].child = NULL THEN NULL ELSE f[h[x].child]
          /\ p[f[x]].next = IF x = n \/ h[x].next = NULL THEN NULL ELSE f[h[x].next]
          /\ x # n => p[f[x]].prev = f[h[x].prev]
      BY <1>1 DEF CopyLinks, T
    <3>2. /\ g[f[x]].type = p[f[x]].type /\ g[f[x]].child = p[f[x]].child
          /\ g[f[x]].next = p[f[x]].next /\ g[f[x]].prev = p[f[x]].prev
      BY <1>7, <1>8
    <3>. QED  BY <3>1, <3>2
  <2>. QED  BY <2>1, <2>2 DEF CopyLinks, T
<1>11. \A x \in T :
         /\ g[f[x]].value = IF h[x].type = "leaf" THEN Read(h[x].value) ELSE h[x].value
         /\ g[f[x]].key = IF inObject(x) THEN h[x].key ELSE NoKey
  BY <1>7, <1>8
<1>12. Memory(g)
  <2>1. ASSUME NEW x \in T
        PROVE  g[f[x]].value \in IF h[x].type = "leaf" THEN LeafValues ELSE {NoKey}
    <3>1. CASE h[x].type = "leaf"
      BY <1>5, <1>11, <3>1, ReadValues
    <3>2. CASE h[x].type # "leaf"
      BY <1>5, <1>11, <3>2
    <3>. QED  BY <3>1, <3>2
  <2>. QED  BY <1>9, <1>10, <2>1, CopyMemory DEF T
<1>13. InOrder(g, R \cup {f[n]}) /\ CopyLists(g, h, n, f)
  BY <1>10, <1>12, CopyInOrder
<1>14. CopyRead(g, h, n, f)
  BY <1>5, <1>11 DEF CopyRead, T, inObject
<1>. QED  BY <1>10, <1>13, <1>14 DEF g

-----------------------------------------------------------------------------
(* The invariant, and that the operations keep it.                         *)

\* The memory is in order, with the items as roots that the application has.
ItemsInv == InOrder(item, held)

LEMMA Facts ==
  ASSUME ItemsInv
  PROVE  /\ InUse(item) = Live /\ held \subseteq Live /\ Live \subseteq Items
         /\ item \in [Items -> Cells]
         /\ \A c \in Containers : c \in Live /\ item[c].type \in {"object", "array"}
         /\ \A c \in Items : List(item, c) \in Seq(Items)
         /\ \A c \in Items, n \in held : n \notin In(List(item, c))
         /\ \A n \in held : item[n].next = NULL
<1>1. InUse(item) = Live /\ Live \subseteq Items
  BY DEF InUse, Live
<1>2. /\ IsForest(Members(item), InUse(item), held) /\ item \in [Items -> Cells]
      /\ \A n \in held : item[n].next = NULL
  BY DEF ItemsInv, InOrder, Memory
<1>3. \A c \in Items : List(item, c) \in Seq(Items) /\ Members(item)[c] = In(List(item, c))
  BY DEF ItemsInv, InOrder, Chain, Members
<1>4. held \subseteq Live /\ \A c \in Items, n \in held : n \notin In(List(item, c))
  BY <1>1, <1>2, <1>3 DEF IsForest
<1>5. \A c \in Containers : c \in Live /\ item[c].type \in {"object", "array"}
  BY DEF Containers
<1>. QED  BY <1>1, <1>2, <1>3, <1>4, <1>5

\* Trees with the same lists are the same.
LEMMA SameSubtree ==
  ASSUME NEW h, NEW R, InOrder(h, R), NEW g, NEW Q, InOrder(g, Q),
         NEW n \in InUse(h), n \in InUse(g),
         \A x \in Subtree(h, n) : List(g, x) = List(h, x)
  PROVE  Subtree(g, n) = Subtree(h, n)
<1>1. /\ IsTree(Members(h), Subtree(h, n), n) /\ IsTree(Members(g), Subtree(g, n), n)
      /\ Subtree(h, n) \subseteq Items
  BY TreeOfItem DEF InUse
<1>2. \A x \in Subtree(h, n) : Members(g)[x] = Members(h)[x]
  BY <1>1 DEF Members
<1>. QED  BY <1>1, <1>2, SameTree

Named(h, n, k) == [h EXCEPT ![n].key = k]

\* An item is given a name.
LEMMA NameKeeps ==
  ASSUME NEW h, NEW R, InOrder(h, R), NEW n \in InUse(h), NEW k \in Keys
  PROVE  LET g == Named(h, n, k)
         IN  /\ InOrder(g, R) /\ InUse(g) = InUse(h)
             /\ \A x \in Items : /\ List(g, x) = List(h, x) /\ g[x].type = h[x].type
                                 /\ g[x].value = h[x].value
                                 /\ g[x].key = IF x = n THEN k ELSE h[x].key
             /\ \A m \in InUse(h) : Subtree(g, m) = Subtree(h, m)
<1>. DEFINE g == Named(h, n, k)
<1>1. h \in [Items -> Cells] /\ Memory(h) /\ n \in Items /\ h[n].type # "free" /\ h[n] \in Cells
  BY DEF InOrder, Memory, InUse
<1>2. /\ g \in [Items -> Cells]
      /\ \A x \in Items : /\ g[x].type = h[x].type /\ g[x].value = h[x].value
                          /\ g[x].child = h[x].child /\ g[x].next = h[x].next
                          /\ g[x].prev = h[x].prev
                          /\ g[x].key = IF x = n THEN k ELSE h[x].key
                          /\ x # n => g[x] = h[x]
  BY <1>1 DEF Cells, Named
<1>. HIDE DEF g
<1>3. Memory(g)
  BY <1>1, <1>2 DEF Memory
<1>4. InOrder(g, R) /\ InUse(g) = InUse(h) /\ \A d \in Items : List(g, d) = List(h, d)
  BY <1>2, <1>3, EditKeeps
<1>5. \A m \in InUse(h) : Subtree(g, m) = Subtree(h, m)
  <2>. TAKE m \in InUse(h)
  <2>1. \A x \in Subtree(h, m) : List(g, x) = List(h, x)
    BY <1>4, TreeOfItem DEF InUse
  <2>. QED  BY <1>4, <2>1, SameSubtree
<1>. QED  BY <1>2, <1>4, <1>5 DEF g

LEMMA InitInOrder == Init => ItemsInv
<1>. SUFFICES ASSUME Init PROVE ItemsInv
  OBVIOUS
<1>. DEFINE s == [c \in Items |-> <<>>]
<1>1. \A n \in Items : item[n] = Blank
  BY DEF Init
<1>2. Blank \in Cells /\ Blank.type = "free" /\ Blank.child = NULL /\ Blank.value = NoKey
  BY DEF Blank, Cells
<1>3. Memory(item)
  <2>1. item \in [Items -> Cells]
    BY <1>2 DEF Init
  <2>. QED  BY <1>1, <1>2, <2>1 DEF Memory
<1>4. \A c \in Items : Chain(item, c, s[c]) /\ In(s[c]) = {}
  <2>. TAKE c \in Items
  <2>1. item[c].child = NULL /\ s[c] = <<>>
    BY <1>1, <1>2
  <2>2. <<>> \in Seq(Items) /\ Len(<<>>) = 0 /\ 1 .. 0 = {} /\ In(<<>>) = {}
    BY DEF In
  <2>3. Chain(item, c, <<>>)
    BY <2>1, <2>2 DEF Chain
  <2>. QED  BY <2>1, <2>2, <2>3
<1>5. held = {} /\ InUse(item) = {}
  BY <1>1, <1>2 DEF Init, InUse
<1>. HIDE DEF s
<1>6. IsForest([c \in Items |-> In(s[c])], InUse(item), held)
  BY <1>4, <1>5 DEF IsForest
<1>7. \A n \in held : item[n].next = NULL
  BY <1>5
<1>. QED  BY <1>3, <1>4, <1>6, <1>7, InOrderBy DEF ItemsInv

LEMMA InOrderIsWellFormed == ItemsInv => WellFormed
<1>. SUFFICES ASSUME ItemsInv PROVE WellFormed
  OBVIOUS
<1>1. /\ InOrder(item, held) /\ Memory(item) /\ InUse(item) = Live /\ held \subseteq Live
      /\ Live \subseteq Items /\ IsForest(Members(item), Live, held)
  BY Facts DEF ItemsInv, InOrder
<1>2. \A c \in Items : Members(item)[c] = In(List(item, c))
  BY DEF Members
<1>3. ASSUME NEW c \in Containers
      PROVE  Linked(c) /\ In(List(item, c)) \subseteq Live \ held
  <2>. DEFINE l == List(item, c)
  <2>1. c \in Items
    BY <1>1 DEF Containers
  <2>2. /\ l \in Seq(Items) /\ Len(l) \in Nat
        /\ \A i \in 1 .. Len(l) :
             /\ item[l[i]].next = IF i < Len(l) THEN l[i + 1] ELSE NULL
             /\ item[l[i]].prev = IF i > 1 THEN l[i - 1] ELSE l[Len(l)]
    BY <1>1, <2>1, MemberLinks
  <2>. HIDE DEF l
  <2>3. l # <<>> => item[l[Len(l)]].next = NULL /\ item[l[1]].prev = l[Len(l)]
    <3>1. l # <<>> => Len(l) \in 1 .. Len(l) /\ 1 \in 1 .. Len(l)
      BY <2>2
    <3>. QED  BY <2>2, <3>1
  <2>4. \A i \in 2..Len(l) : item[l[i]].prev = l[i - 1]
    <3>1. \A i \in 2..Len(l) : i \in 1 .. Len(l) /\ i > 1
      BY <2>2
    <3>. QED  BY <2>2, <3>1
  <2>5. In(l) \subseteq Live \ held
    BY <1>1, <1>2, <2>1 DEF IsForest, l
  <2>. QED  BY <2>3, <2>4, <2>5 DEF Linked, l
<1>4. ASSUME NEW n \in Live \ held
      PROVE  \E c \in Containers : /\ n \in In(List(item, c))
                                   /\ \A d \in Containers \ {c} : n \notin In(List(item, d))
  <2>1. PICK c \in Live : n \in In(List(item, c))
    BY <1>1, <1>2 DEF IsForest
  <2>2. c \in Containers
    <3>1. c \in Items /\ item[c].child # NULL
      <4>1. /\ List(item, c) \in Seq(Items) /\ Len(List(item, c)) \in Nat
            /\ DOMAIN List(item, c) = 1 .. Len(List(item, c))
            /\ \A i \in 1 .. Len(List(item, c)) : List(item, c)[i] \in Items
            /\ item[c].child = IF Len(List(item, c)) = 0 THEN NULL ELSE List(item, c)[1]
        BY <1>1, MemberLinks
      <4>2. DOMAIN List(item, c) # {}
        BY <2>1 DEF In
      <4>3. Len(List(item, c)) # 0 /\ 1 \in 1 .. Len(List(item, c))
        BY <4>1, <4>2
      <4>. QED  BY <1>1, <4>1, <4>3, ItemsAssumption
    <3>. QED  BY <1>1, <2>1, <3>1 DEF Memory, Containers
  <2>3. \A d \in Containers \ {c} : n \notin In(List(item, d))
    BY <1>1, <1>2, <2>1 DEF IsForest, Containers
  <2>. QED  BY <2>1, <2>2, <2>3
<1>5. Live \subseteq UNION {Subtree(item, n) : n \in held}
  <2>. DEFINE S == UNION {Subtree(item, n) : n \in held}
  <2>1. \A n \in held : /\ n \in Subtree(item, n) /\ Subtree(item, n) \in SUBSET Items
                        /\ WholeIn(Members(item), Subtree(item, n))
    BY <1>1, TreeOfItem DEF IsTree
  <2>2. held \subseteq S /\ S \in SUBSET Items /\ WholeIn(Members(item), S)
    BY <2>1 DEF WholeIn
  <2>. HIDE DEF S
  <2>3. Live \subseteq S
    BY <1>1, <2>2 DEF IsForest
  <2>. QED  BY <2>3 DEF S
<1>6. \A n \in Items : n \notin Containers => item[n].child = NULL
  BY <1>1 DEF Memory, Containers, Live, Blank
<1>7. \A n \in Items \ Live : item[n] = Blank
  BY <1>1 DEF Memory, Live
<1>. QED  BY <1>1, <1>3, <1>4, <1>5, <1>6, <1>7 DEF WellFormed

-----------------------------------------------------------------------------
(* The operations are those of JsonDocument.                               *)

\* Its trees are the same.
LEMMA DocumentTree ==
  ASSUME ItemsInv, NEW n \in Live
  PROVE  Document!TreeOf(n) = Subtree(item, n)
<1>. DEFINE N == Cardinality(Items)
            M == Members(item)
            members == [c \in Items |-> List(item, c)]
            IsLevels(t) == t = [i \in 0 .. N |-> IF i = 0 THEN {n}
                                     ELSE UNION {{c} \cup In(members[c]) : c \in t[i - 1]}]
            t == CHOOSE t : IsLevels(t)
<1>1. /\ M \in [Items -> SUBSET Items] /\ \A c \in Items : M[c] = In(members[c])
      /\ IsTree(M, Subtree(item, n), n) /\ n \in Items
  <2>1. InOrder(item, held) /\ n \in InUse(item) /\ n \in Items
    BY Facts DEF ItemsInv
  <2>2. /\ IsTree(M, Subtree(item, n), n) /\ M \in [Items -> SUBSET Items]
        /\ \A c \in Items : M[c] = In(List(item, c))
    BY <2>1, TreeOfItem
  <2>. HIDE DEF M
  <2>. QED  BY <2>1, <2>2
<1>2. N \in Nat
  BY ItemsAssumption, FS_CardinalityType
<1>3. Document!TreeOf(n) = t[N]
  BY DEF Document!TreeOf, Document!In, In, Document!Cardinality, Cardinality
<1>. HIDE DEF M, members
<1>4. \E u : IsLevels(u)
  <2>1. PICK u \in [0 .. N -> SUBSET Items] :
          u = [i \in 0 .. N |-> IF i = 0 THEN {n} ELSE UNION {{c} \cup M[c] : c \in u[i - 1]}]
    <3>1. M \in [Items -> SUBSET Items] /\ n \in Items
      BY <1>1
    <3>. QED  BY <3>1, LevelsAreThere
  <2>2. \A i \in 0 .. N : i # 0 =>
          {{c} \cup M[c] : c \in u[i - 1]} = {{c} \cup In(members[c]) : c \in u[i - 1]}
    <3>. TAKE i \in 0 .. N
    <3>. HAVE i # 0
    <3>1. u[i - 1] \subseteq Items
      <4>1. i - 1 \in 0 .. N
        BY <1>2
      <4>. QED  BY <4>1
    <3>. QED  BY <1>1, <3>1
  <2>3. IsLevels(u)
    BY <2>1, <2>2
  <2>. HIDE DEF IsLevels
  <2>. QED  BY <2>3
<1>5. IsLevels(t)
  <2>. HIDE DEF IsLevels
  <2>. QED  BY <1>4
<1>. HIDE DEF t
<1>6. t[0] = {n} /\ \A i \in 1 .. N : t[i] = UNION {{c} \cup In(members[c]) : c \in t[i - 1]}
  <2>1. 0 \in 0 .. N /\ \A i \in 1 .. N : i \in 0 .. N /\ i # 0
    BY <1>2
  <2>. QED  BY <1>5, <2>1
<1>7. Grows(M, n, t)
  <2>1. ASSUME NEW i \in 1 .. N, t[i - 1] \subseteq Items
        PROVE  t[i] = UNION {{c} \cup M[c] : c \in t[i - 1]}
    <3>1. {{c} \cup M[c] : c \in t[i - 1]} = {{c} \cup In(members[c]) : c \in t[i - 1]}
      BY <1>1, <2>1
    <3>. QED  BY <1>6, <3>1
  <2>. HIDE DEF N
  <2>. QED  BY <1>1, <1>6, <2>1, LevelsOfItems DEF N
<1>8. IsTree(M, t[N], n)
  BY <1>1, <1>7, LevelsMakeTree
<1>9. t[N] = Subtree(item, n)
  BY <1>1, <1>8, SameTree
<1>. QED  BY <1>3, <1>9

LEMMA DocumentCreate ==
  ASSUME NEW n \in Items \ Live, held' = held \cup {n},
         item'[n].type \in {"object", "array", "leaf"}, item'[n].key = item[n].key,
         \A x \in Items : x # n => item'[x] = item[x],
         \A d \in Items : List(item', d) = List(item, d)
  PROVE  Document!Create
<1>. DEFINE members == [d \in Items |-> List(item, d)]
            key == [d \in Items |-> item[d].key]
            type == [d \in Items |-> item[d].type]
            value == [d \in Items |-> item[d].value]
<1>1. n \in Document!Free /\ type'[n] \in {"object", "array", "leaf"}
  BY DEF Document!Free, Live
<1>2. type' = [type EXCEPT ![n] = type'[n]] /\ value' = [value EXCEPT ![n] = value'[n]]
  OBVIOUS
<1>3. key' = key
  OBVIOUS
<1>4. members' = members
  OBVIOUS
<1>. QED  BY <1>1, <1>2, <1>3, <1>4 DEF Document!Create

\* From h to g an item gets a name at most.
NameWritten(g, h, n) ==
  \A x \in Items : g[x].type = h[x].type /\ g[x].value = h[x].value /\ (x # n => g[x].key = h[x].key)

LEMMA DocumentInsert ==
  ASSUME NEW n \in held, n \in Items, held' = held \ {n}, NameWritten(item', item, n),
         NEW c \in Items, NEW i \in 1 .. Len(List(item, c)) + 1,
         MembersWritten(item', item, c, Document!With(List(item, c), i, n))
  PROVE  Document!Insert
<1>. DEFINE members == [d \in Items |-> List(item, d)]
            key == [d \in Items |-> item[d].key]
            type == [d \in Items |-> item[d].type]
            value == [d \in Items |-> item[d].value]
<1>1. type' = type /\ value' = value
  BY DEF NameWritten
<1>2. key' = [key EXCEPT ![n] = key'[n]]
  BY DEF NameWritten
<1>3. members' = [members EXCEPT ![c] = Document!With(@, i, n)]
  BY DEF MembersWritten
<1>4. i \in 1 .. Len(members[c]) + 1
  OBVIOUS
<1>5. \E d \in Items : \E j \in 1 .. Len(members[d]) + 1 :
        members' = [members EXCEPT ![d] = Document!With(@, j, n)]
  <2>. HIDE DEF members
  <2>. QED  BY <1>3, <1>4
<1>. QED  BY <1>1, <1>2, <1>5 DEF Document!Insert

LEMMA DocumentDetach ==
  ASSUME SameData(item', item), NEW c \in Items, NEW i \in 1 .. Len(List(item, c)),
         List(item, c) \in Seq(Items), held' = held \cup {List(item, c)[i]},
         MembersWritten(item', item, c, Document!Without(List(item, c), i))
  PROVE  Document!Detach
<1>. DEFINE members == [d \in Items |-> List(item, d)]
            key == [d \in Items |-> item[d].key]
            type == [d \in Items |-> item[d].type]
            value == [d \in Items |-> item[d].value]
<1>1. type' = type /\ value' = value /\ key' = key
  BY DEF SameData
<1>2. members' = [members EXCEPT ![c] = Document!Without(@, i)]
  BY DEF MembersWritten
<1>3. i \in DOMAIN members[c] /\ members[c][i] = List(item, c)[i]
  OBVIOUS
<1>. QED  BY <1>1, <1>2, <1>3 DEF Document!Detach

LEMMA DocumentDelete ==
  ASSUME ItemsInv, NEW n \in held, held' = held \ {n},
         \A x \in Items : item'[x] = IF x \in Subtree(item, n) THEN Blank ELSE item[x],
         \A d \in Items : List(item', d) = IF d \in Subtree(item, n) THEN <<>> ELSE List(item, d)
  PROVE  Document!Delete
<1>. DEFINE members == [d \in Items |-> List(item, d)]
            key == [d \in Items |-> item[d].key]
            type == [d \in Items |-> item[d].type]
            value == [d \in Items |-> item[d].value]
            T == Subtree(item, n)
<1>1. Document!TreeOf(n) = T /\ n \in T
  <2>1. n \in Live /\ InOrder(item, held) /\ n \in InUse(item)
    BY Facts DEF ItemsInv
  <2>. QED  BY <2>1, DocumentTree, TreeOfItem
<1>. HIDE DEF T
<1>2. \A x \in Items : item'[x] = IF x \in T THEN Blank ELSE item[x]
  BY DEF T
<1>3. /\ key' = [m \in Items |-> IF m \in T THEN NoKey ELSE key[m]]
      /\ type' = [m \in Items |-> IF m \in T THEN "free" ELSE type[m]]
      /\ value' = [m \in Items |-> IF m \in T THEN NoKey ELSE value[m]]
  BY <1>2 DEF Blank
<1>4. members' = [m \in Items |-> IF m \in T THEN <<>> ELSE IF m = n THEN <<>> ELSE members[m]]
  BY <1>1 DEF T
<1>5. Document!Freed(T, n, <<>>)
  BY <1>3, <1>4 DEF Document!Freed
<1>. QED  BY <1>1, <1>3, <1>5 DEF Document!Delete

LEMMA DocumentDeleteMember ==
  ASSUME ItemsInv, NEW c \in Items, NEW i \in 1 .. Len(List(item, c)), held' = held,
         NEW T, T = Subtree(item, List(item, c)[i]),
         \A x \in Items :
           /\ item'[x].type = IF x \in T THEN "free" ELSE item[x].type
           /\ item'[x].value = IF x \in T THEN NoKey ELSE item[x].value
           /\ item'[x].key = IF x \in T THEN NoKey ELSE item[x].key,
         \A d \in Items : List(item', d) =
           IF d \in T THEN <<>> ELSE IF d = c THEN Document!Without(List(item, c), i) ELSE List(item, d)
  PROVE  Document!DeleteMember
<1>. DEFINE members == [d \in Items |-> List(item, d)]
            key == [d \in Items |-> item[d].key]
            type == [d \in Items |-> item[d].type]
            value == [d \in Items |-> item[d].value]
<1>1. i \in DOMAIN members[c] /\ members[c][i] = List(item, c)[i] /\ members[c] = List(item, c)
  BY Facts
<1>2. Document!TreeOf(members[c][i]) = T
  <2>1. InOrder(item, held) /\ InUse(item) = Live
    BY Facts DEF ItemsInv
  <2>2. List(item, c)[i] \in Live
    BY <2>1, MemberLinks
  <2>3. Document!TreeOf(List(item, c)[i]) = T
    BY <2>2, DocumentTree
  <2>. QED  BY <1>1, <2>3
<1>3. /\ key' = [m \in Items |-> IF m \in T THEN NoKey ELSE key[m]]
      /\ type' = [m \in Items |-> IF m \in T THEN "free" ELSE type[m]]
      /\ value' = [m \in Items |-> IF m \in T THEN NoKey ELSE value[m]]
  OBVIOUS
<1>4. members' = [m \in Items |-> IF m \in T THEN <<>>
                    ELSE IF m = c THEN Document!Without(members[c], i) ELSE members[m]]
  BY <1>1
<1>. QED  BY <1>1, <1>2, <1>3, <1>4 DEF Document!DeleteMember, Document!Freed

LEMMA DocumentReplace ==
  ASSUME ItemsInv, NEW n \in held, held' = held \ {n},
         NEW c \in Items, NEW i \in 1 .. Len(List(item, c)),
         NEW T, T = Subtree(item, List(item, c)[i]),
         \A x \in Items :
           /\ item'[x].type = IF x \in T THEN "free" ELSE item[x].type
           /\ item'[x].value = IF x \in T THEN NoKey ELSE item[x].value
           /\ x # n => item'[x].key = IF x \in T THEN NoKey ELSE item[x].key,
         n \notin T,
         \A d \in Items : List(item', d) =
           IF d \in T THEN <<>> ELSE IF d = c THEN Changed(List(item, c), i, n) ELSE List(item, d)
  PROVE  Document!Replace
<1>. DEFINE members == [d \in Items |-> List(item, d)]
            key == [d \in Items |-> item[d].key]
            type == [d \in Items |-> item[d].type]
            value == [d \in Items |-> item[d].value]
<1>1. i \in DOMAIN members[c] /\ members[c][i] = List(item, c)[i] /\ members[c] = List(item, c)
  BY Facts
<1>2. Document!TreeOf(members[c][i]) = T
  <2>1. InOrder(item, held) /\ InUse(item) = Live
    BY Facts DEF ItemsInv
  <2>2. List(item, c)[i] \in Live
    BY <2>1, MemberLinks
  <2>3. Document!TreeOf(List(item, c)[i]) = T
    BY <2>2, DocumentTree
  <2>. QED  BY <1>1, <2>3
<1>3. /\ key' = [m \in Items |-> IF m \in T THEN NoKey ELSE IF m = n THEN key'[n] ELSE key[m]]
      /\ type' = [m \in Items |-> IF m \in T THEN "free" ELSE type[m]]
      /\ value' = [m \in Items |-> IF m \in T THEN NoKey ELSE value[m]]
  OBVIOUS
<1>4. members' = [m \in Items |-> IF m \in T THEN <<>>
                    ELSE IF m = c THEN [members[c] EXCEPT ![i] = n] ELSE members[m]]
  BY <1>1 DEF Changed
<1>. QED  BY <1>1, <1>2, <1>3, <1>4 DEF Document!Replace, Document!Freed

\* From h to g the name and the value of an item are written.
ItemWritten(g, h, n) ==
  \A x \in Items : /\ g[x].type = h[x].type /\ List(g, x) = List(h, x)
                   /\ x # n => g[x].key = h[x].key /\ g[x].value = h[x].value

LEMMA DocumentEdit ==
  ASSUME held' = held, NEW n \in Live, ItemWritten(item', item, n)
  PROVE  Document!Edit
<1>. DEFINE members == [d \in Items |-> List(item, d)]
            key == [d \in Items |-> item[d].key]
            type == [d \in Items |-> item[d].type]
            value == [d \in Items |-> item[d].value]
<1>1. n \in Items \ Document!Free
  BY DEF Document!Free, Live
<1>2. type' = type /\ members' = members
  BY DEF ItemWritten
<1>3. key' = [key EXCEPT ![n] = key'[n]] /\ value' = [value EXCEPT ![n] = value'[n]]
  BY DEF ItemWritten
<1>. QED  BY <1>1, <1>2, <1>3 DEF Document!Edit

LEMMA DocumentCopied ==
  ASSUME NEW T, NEW f, OneToOne(f, T, Items), NEW g, NEW old, NEW new,
         g = [m \in Items |-> g[m]], \A x \in T : g[f[x]] = new[x],
         \A m \in Items : m \notin In(f) => g[m] = old[m]
  PROVE  g = Document!Copied(old, new, f)
<1>1. f \in [T -> Items] /\ DOMAIN f = T /\ \A x, y \in T : f[x] = f[y] => x = y
  BY DEF OneToOne
<1>2. ASSUME NEW m \in Items, m \in In(f)
      PROVE  g[m] = new[CHOOSE x \in DOMAIN f : f[x] = m]
  <2>1. PICK x \in T : f[x] = m
    BY <1>1, <1>2 DEF In
  <2>2. (CHOOSE y \in DOMAIN f : f[y] = m) = x
    BY <1>1, <2>1
  <2>. QED  BY <2>1, <2>2
<1>3. Document!In(f) = In(f)
  BY DEF Document!In, In
<1>4. \A m \in Items : g[m] = IF m \in Document!In(f) THEN new[CHOOSE x \in DOMAIN f : f[x] = m]
                              ELSE old[m]
  BY <1>2, <1>3
<1>. QED  BY <1>4 DEF Document!Copied

LEMMA DocumentCopy ==
  ASSUME ItemsInv, NEW n \in Live, NEW f, OneToOne(f, Subtree(item, n), Items \ Live),
         held' = held \cup {f[n]}, item' \in [Items -> Cells],
         CopyLinks(item', item, n, f), CopyLists(item', item, n, f),
         CopySame(item', item, n, f) \/ CopyRead(item', item, n, f)
  PROVE  Document!Copy
<1>. DEFINE members == [d \in Items |-> List(item, d)]
            key == [d \in Items |-> item[d].key]
            type == [d \in Items |-> item[d].type]
            value == [d \in Items |-> item[d].value]
            T == Subtree(item, n)
<1>1. /\ Document!TreeOf(n) = T /\ T \subseteq Items /\ n \in Items \ Document!Free
      /\ Items \ Live = Document!Free
      /\ \A x \in T : In(List(item, x)) \subseteq T /\ List(item, x) \in Seq(Items)
  <2>1. InOrder(item, held) /\ n \in InUse(item)
    BY Facts DEF ItemsInv
  <2>2. Document!TreeOf(n) = T /\ T \subseteq Items
    BY <2>1, DocumentTree, TreeOfItem DEF InUse
  <2>3. \A x \in T : In(List(item, x)) \subseteq T
    BY <2>1, TreeLinks
  <2>4. \A x \in Items : List(item, x) \in Seq(Items)
    BY Facts
  <2>5. Items \ Live = Document!Free /\ n \in Items \ Document!Free
    BY DEF Document!Free, Live
  <2>. HIDE DEF T
  <2>. QED  BY <2>2, <2>3, <2>4, <2>5
<1>2. /\ f \in [T -> Document!Free] /\ \A x, y \in T : f[x] = f[y] => x = y
      /\ OneToOne(f, T, Items) /\ DOMAIN f = T
  BY <1>1 DEF OneToOne
<1>3. /\ \A m \in Items : m \notin In(f) => item'[m] = item[m]
      /\ \A x \in T : item'[f[x]].type = item[x].type
  BY DEF CopyLinks
<1>4. /\ \A d \in Items : d \notin In(f) => List(item', d) = List(item, d)
      /\ \A x \in T : List(item', f[x]) = Image(List(item, x), f)
  BY DEF CopyLists
<1>5. \A x \in T : x \in Items /\ f[x] \in Items
  BY <1>1, <1>2 DEF OneToOne
<1>. HIDE DEF T
<1>6. type' = Document!Copied(type, type, f)
  <2>1. type' = [m \in Items |-> type'[m]]
    OBVIOUS
  <2>2. \A x \in T : type'[f[x]] = type[x]
    BY <1>3, <1>5
  <2>3. \A m \in Items : m \notin In(f) => type'[m] = type[m]
    BY <1>3
  <2>. HIDE DEF type
  <2>. QED  BY <1>2, <2>1, <2>2, <2>3, DocumentCopied
<1>. DEFINE lists == [x \in DOMAIN f |-> [i \in DOMAIN members[x] |-> f[members[x][i]]]]
<1>7. members' = Document!Copied(members, lists, f)
  <2>1. members' = [m \in Items |-> members'[m]]
    OBVIOUS
  <2>2. \A x \in T : members'[f[x]] = lists[x]
    <3>. TAKE x \in T
    <3>1. members'[f[x]] = Image(List(item, x), f) /\ members[x] = List(item, x)
      BY <1>4, <1>5
    <3>2. DOMAIN List(item, x) = 1 .. Len(List(item, x))
      BY <1>1
    <3>3. lists[x] = [i \in DOMAIN members[x] |-> f[members[x][i]]]
      BY <1>2
    <3>. HIDE DEF members, lists
    <3>. QED  BY <3>1, <3>2, <3>3 DEF Image
  <2>3. \A m \in Items : m \notin In(f) => members'[m] = members[m]
    BY <1>4
  <2>. HIDE DEF members, lists
  <2>. QED  BY <1>2, <2>1, <2>2, <2>3, DocumentCopied
<1>. DEFINE read == [x \in DOMAIN f |-> IF type[x] = "leaf" THEN Read(value[x]) ELSE NoKey]
            names == [x \in DOMAIN f |-> IF Document!InObject(DOMAIN f, x) THEN key[x] ELSE NoKey]
<1>8. CopySame(item', item, n, f) =>
        value' = Document!Copied(value, value, f) /\ key' = Document!Copied(key, key, f)
  <2>. HAVE CopySame(item', item, n, f)
  <2>1. value' = [m \in Items |-> value'[m]] /\ key' = [m \in Items |-> key'[m]]
    OBVIOUS
  <2>2. \A x \in T : value'[f[x]] = value[x] /\ key'[f[x]] = key[x]
    BY <1>5 DEF CopySame, T
  <2>3. \A m \in Items : m \notin In(f) => value'[m] = value[m] /\ key'[m] = key[m]
    BY <1>3
  <2>. HIDE DEF value, key
  <2>4. value' = Document!Copied(value, value, f)
    BY <1>2, <2>1, <2>2, <2>3, DocumentCopied
  <2>5. key' = Document!Copied(key, key, f)
    BY <1>2, <2>1, <2>2, <2>3, DocumentCopied
  <2>. QED  BY <2>4, <2>5
<1>9. CopyRead(item', item, n, f) =>
        value' = Document!Copied(value, read, f) /\ key' = Document!Copied(key, names, f)
  <2>. HAVE CopyRead(item', item, n, f)
  <2>1. value' = [m \in Items |-> value'[m]] /\ key' = [m \in Items |-> key'[m]]
    OBVIOUS
  <2>2. \A x \in T : value'[f[x]] = read[x]
    BY <1>2, <1>5 DEF CopyRead, T
  <2>3. \A x \in T : key'[f[x]] = names[x]
    <3>. TAKE x \in T
    <3>1. Document!InObject(DOMAIN f, x)
            <=> \E c \in T : item[c].type = "object" /\ x \in In(List(item, c))
      <4>1. \A c \in T : type[c] = item[c].type /\ Document!In(members[c]) = In(List(item, c))
        BY <1>1 DEF Document!In, In
      <4>2. Document!InObject(T, x) <=> \E c \in T : type[c] = "object" /\ x \in Document!In(members[c])
        BY DEF Document!InObject
      <4>. HIDE DEF type, members
      <4>. QED  BY <1>2, <4>1, <4>2
    <3>2. item'[f[x]].key = IF \E c \in T : item[c].type = "object" /\ x \in In(List(item, c))
                            THEN item[x].key ELSE NoKey
      BY DEF CopyRead, T
    <3>3. key'[f[x]] = item'[f[x]].key /\ key[x] = item[x].key
      BY <1>5
    <3>4. names[x] = IF Document!InObject(DOMAIN f, x) THEN key[x] ELSE NoKey
      BY <1>2
    <3>. HIDE DEF names, key
    <3>. QED  BY <3>1, <3>2, <3>3, <3>4
  <2>4. \A m \in Items : m \notin In(f) => value'[m] = value[m] /\ key'[m] = key[m]
    BY <1>3
  <2>. HIDE DEF value, key, read, names
  <2>5. value' = Document!Copied(value, read, f)
    BY <1>2, <2>1, <2>2, <2>4, DocumentCopied
  <2>6. key' = Document!Copied(key, names, f)
    BY <1>2, <2>1, <2>3, <2>4, DocumentCopied
  <2>. QED  BY <2>5, <2>6
<1>10. f \in [Document!TreeOf(n) -> Document!Free] /\ \A x, y \in DOMAIN f : f[x] = f[y] => x = y
  BY <1>1, <1>2
<1>11. CASE CopySame(item', item, n, f)
  BY <1>1, <1>6, <1>7, <1>8, <1>10, <1>11 DEF Document!Copy
<1>12. CASE CopyRead(item', item, n, f)
  BY <1>1, <1>6, <1>7, <1>9, <1>10, <1>12 DEF Document!Copy, Document!InObject
<1>. QED  BY <1>11, <1>12

-----------------------------------------------------------------------------
(* What the application does with items keeps the memory in order, and is  *)
(* an operation of JsonDocument.                                           *)

\* No item is in the tree of a member of it.
LEMMA NotInMember ==
  ASSUME NEW h, NEW R, InOrder(h, R), NEW c \in Items, NEW i \in 1 .. Len(List(h, c))
  PROVE  c \notin Subtree(h, List(h, c)[i])
<1>. DEFINE n == List(h, c)[i]
<1>1. n \in InUse(h) /\ n \in In(List(h, c))
  BY MemberLinks DEF In
<1>. HIDE DEF n
<1>2. /\ IsForest(Members(h), InUse(h), R) /\ IsTree(Members(h), Subtree(h, n), n)
      /\ Members(h)[c] = In(List(h, c))
  BY <1>1, TreeOfItem
<1>3. \A d \in Subtree(h, n) : n \notin Members(h)[d]
  BY <1>1, <1>2, NoCycles
<1>. QED  BY <1>1, <1>2, <1>3 DEF n

LEMMA CreateKeeps == ItemsInv /\ Create => ItemsInv' /\ Document!Create
<1>. SUFFICES ASSUME ItemsInv, Create PROVE ItemsInv' /\ Document!Create
  OBVIOUS
<1>1. PICK n \in Items \ Live :
        /\ \/ \E v \in Leaves : item' = [item EXCEPT ![n].type = "leaf", ![n].value = v]
           \/ \E t \in {"object", "array"} : item' = [item EXCEPT ![n].type = t]
        /\ held' = held \cup {n}
  BY DEF Create
<1>2. /\ item \in [Items -> Cells] /\ Memory(item) /\ InUse(item) = Live
      /\ n \in Items /\ n \notin Live /\ item[n] = Blank
  BY Facts DEF ItemsInv, InOrder, Memory, Live
<1>3. Leaves \subseteq LeafValues
  <2>1. \A d \in Numbers : d \in Nat /\ ToInt(d) \in Nat
    BY ItemsAssumption DEF ToInt
  <2>. QED  BY <2>1 DEF Leaves, LeafValues, Number, String
<1>4. /\ item' \in [Items -> Cells] /\ \A x \in Items : x # n => item'[x] = item[x]
      /\ item'[n].type \in {"leaf", "object", "array"}
      /\ item'[n].value \in IF item'[n].type = "leaf" THEN LeafValues ELSE {NoKey}
      /\ item'[n].child = NULL /\ item'[n].next = NULL /\ item'[n].key = NoKey
  <2>1. ASSUME NEW v \in Leaves, item' = [item EXCEPT ![n].type = "leaf", ![n].value = v]
        PROVE  /\ item' \in [Items -> Cells] /\ \A x \in Items : x # n => item'[x] = item[x]
               /\ item'[n] = [Blank EXCEPT !.type = "leaf", !.value = v] /\ v \in LeafValues
    <3>1. v \in LeafValues /\ item[n] \in Cells
      BY <1>2, <1>3
    <3>2. [Blank EXCEPT !.type = "leaf", !.value = v] \in Cells
      BY <3>1 DEF Cells, Blank
    <3>3. item'[n] = [Blank EXCEPT !.type = "leaf", !.value = v] /\ \A x \in Items : x # n => item'[x] = item[x]
      BY <1>2, <2>1
    <3>4. item' = [x \in Items |-> item'[x]]
      BY <1>2, <2>1
    <3>5. \A x \in Items : item'[x] \in Cells
      BY <1>2, <3>2, <3>3
    <3>. QED  BY <3>1, <3>3, <3>4, <3>5
  <2>2. ASSUME NEW t \in {"object", "array"}, item' = [item EXCEPT ![n].type = t]
        PROVE  /\ item' \in [Items -> Cells] /\ \A x \in Items : x # n => item'[x] = item[x]
               /\ item'[n] = [Blank EXCEPT !.type = t]
    <3>2. [Blank EXCEPT !.type = t] \in Cells
      BY DEF Cells, Blank
    <3>3. item'[n] = [Blank EXCEPT !.type = t] /\ \A x \in Items : x # n => item'[x] = item[x]
      BY <1>2, <2>2
    <3>4. item' = [x \in Items |-> item'[x]]
      BY <1>2, <2>2
    <3>5. \A x \in Items : item'[x] \in Cells
      BY <1>2, <3>2, <3>3
    <3>. QED  BY <3>3, <3>4, <3>5
  <2>3. CASE \E v \in Leaves : item' = [item EXCEPT ![n].type = "leaf", ![n].value = v]
    <3>1. PICK v \in Leaves : item' = [item EXCEPT ![n].type = "leaf", ![n].value = v]
      BY <2>3
    <3>. DEFINE cell == [Blank EXCEPT !.type = "leaf", !.value = v]
    <3>2. /\ item' \in [Items -> Cells] /\ \A x \in Items : x # n => item'[x] = item[x]
          /\ item'[n] = cell /\ v \in LeafValues
      BY <2>1, <3>1
    <3>3. /\ cell.type = "leaf" /\ cell.value = v
          /\ cell.child = NULL /\ cell.next = NULL /\ cell.key = NoKey
      BY DEF Blank
    <3>. HIDE DEF cell
    <3>. QED  BY <3>2, <3>3
  <2>4. CASE \E t \in {"object", "array"} : item' = [item EXCEPT ![n].type = t]
    BY <2>2, <2>4 DEF Blank
  <2>. QED  BY <1>1, <2>3, <2>4
<1>5. Memory(item')
  BY <1>2, <1>4 DEF Memory
<1>6. InOrder(item', held \cup {n}) /\ \A d \in Items : List(item', d) = List(item, d)
  <2>1. InOrder(item, held) /\ n \in Items \ InUse(item) /\ item'[n].type # "free"
    BY <1>2, <1>4 DEF ItemsInv
  <2>. QED  BY <1>4, <1>5, <2>1, Creates
<1>7. item'[n].key = item[n].key
  BY <1>2, <1>4 DEF Blank
<1>8. Document!Create
  BY <1>1, <1>4, <1>6, <1>7, DocumentCreate
<1>. QED  BY <1>1, <1>6, <1>8 DEF ItemsInv

LEMMA AddToArrayKeeps == ItemsInv /\ AddToArray => ItemsInv' /\ Document!Insert
<1>. SUFFICES ASSUME ItemsInv, AddToArray PROVE ItemsInv' /\ Document!Insert
  OBVIOUS
<1>1. PICK n \in held, c \in Containers :
        /\ MayHold(c, n) /\ item' = Appended(item, c, n) /\ held' = held \ {n}
  BY DEF AddToArray
<1>2. InOrder(item, held) /\ c \in InUse(item) /\ item[c].type \in {"object", "array"}
  BY Facts DEF ItemsInv
<1>3. c \notin Subtree(item, n)
  BY <1>1 DEF MayHold
<1>4. /\ InOrder(Appended(item, c, n), held \ {n}) /\ SameData(Appended(item, c, n), item)
      /\ MembersWritten(Appended(item, c, n), item, c, Document!With(List(item, c), Len(List(item, c)) + 1, n))
  BY <1>2, <1>3, Appends
<1>5. Document!Insert
  <2>1. /\ c \in Items /\ n \in Items /\ List(item, c) \in Seq(Items)
        /\ Len(List(item, c)) + 1 \in 1 .. Len(List(item, c)) + 1
    BY Facts DEF InUse
  <2>2. NameWritten(item', item, n)
    BY <1>1, <1>4 DEF SameData, NameWritten
  <2>3. MembersWritten(item', item, c, Document!With(List(item, c), Len(List(item, c)) + 1, n))
    BY <1>1, <1>4 DEF MembersWritten
  <2>. QED  BY <1>1, <2>1, <2>2, <2>3, DocumentInsert
<1>. QED  BY <1>1, <1>4, <1>5 DEF ItemsInv

LEMMA AddToObjectKeeps == ItemsInv /\ AddToObject => ItemsInv' /\ Document!Insert
<1>. SUFFICES ASSUME ItemsInv, AddToObject PROVE ItemsInv' /\ Document!Insert
  OBVIOUS
<1>1. PICK n \in held, c \in Containers, k \in Keys :
        /\ MayHold(c, n) /\ item' = Appended(Named(item, n, k), c, n) /\ held' = held \ {n}
  BY DEF AddToObject, Named
<1>2. /\ InOrder(item, held) /\ c \in InUse(item) /\ item[c].type \in {"object", "array"}
      /\ n \in InUse(item) /\ c \in Items
  BY Facts DEF ItemsInv
<1>3. c \notin Subtree(item, n)
  BY <1>1 DEF MayHold
<1>. DEFINE g == Named(item, n, k)
<1>4. /\ InOrder(g, held) /\ c \in InUse(g) /\ g[c].type = item[c].type
      /\ Subtree(g, n) = Subtree(item, n)
  BY <1>2, NameKeeps
<1>5. \A x \in Items : /\ List(g, x) = List(item, x) /\ g[x].type = item[x].type
                       /\ g[x].value = item[x].value
                       /\ g[x].key = IF x = n THEN k ELSE item[x].key
  BY <1>2, NameKeeps
<1>. HIDE DEF g
<1>6. /\ InOrder(Appended(g, c, n), held \ {n}) /\ SameData(Appended(g, c, n), g)
      /\ MembersWritten(Appended(g, c, n), g, c, Document!With(List(g, c), Len(List(g, c)) + 1, n))
  <2>1. /\ InOrder(g, held) /\ c \in InUse(g) /\ g[c].type \in {"object", "array"}
        /\ c \notin Subtree(g, n)
    BY <1>2, <1>3, <1>4
  <2>. QED  BY <2>1, Appends
<1>7. Document!Insert
  <2>1. /\ n \in Items /\ List(item, c) \in Seq(Items) /\ List(g, c) = List(item, c)
        /\ Len(List(item, c)) + 1 \in 1 .. Len(List(item, c)) + 1
    BY <1>2, <1>5, Facts DEF InUse
  <2>2. item' = Appended(g, c, n)
    BY <1>1 DEF g
  <2>3. NameWritten(item', item, n)
    BY <1>5, <1>6, <2>2 DEF SameData, NameWritten
  <2>4. MembersWritten(item', item, c, Document!With(List(item, c), Len(List(item, c)) + 1, n))
    BY <1>5, <1>6, <2>1, <2>2 DEF MembersWritten
  <2>. QED  BY <1>1, <1>2, <2>1, <2>3, <2>4, DocumentInsert
<1>. QED  BY <1>1, <1>6, <1>7 DEF ItemsInv, g

LEMMA InsertKeeps == ItemsInv /\ Insert => ItemsInv' /\ Document!Insert
<1>. SUFFICES ASSUME ItemsInv, Insert PROVE ItemsInv' /\ Document!Insert
  OBVIOUS
<1>1. PICK n \in held, c \in Containers :
        \E i \in DOMAIN List(item, c) :
          /\ MayHold(c, n) /\ item' = Inserted(item, c, n, List(item, c)[i]) /\ held' = held \ {n}
  BY DEF Insert
<1>2. /\ InOrder(item, held) /\ c \in InUse(item) /\ item[c].type \in {"object", "array"}
      /\ DOMAIN List(item, c) = 1 .. Len(List(item, c))
  BY Facts DEF ItemsInv
<1>3. PICK i \in 1 .. Len(List(item, c)) :
        item' = Inserted(item, c, n, List(item, c)[i]) /\ held' = held \ {n}
  BY <1>1, <1>2
<1>4. c \notin Subtree(item, n)
  BY <1>1 DEF MayHold
<1>. DEFINE g == Inserted(item, c, n, List(item, c)[i])
<1>5. /\ InOrder(g, held \ {n}) /\ SameData(g, item)
      /\ MembersWritten(g, item, c, Document!With(List(item, c), i, n))
  <2>1. /\ InOrder(item, held) /\ c \in InUse(item) /\ item[c].type \in {"object", "array"}
        /\ c \notin Subtree(item, n)
    BY <1>2, <1>4
  <2>. QED  BY <2>1, Inserts
<1>6. item' = g /\ held' = held \ {n}
  BY <1>3
<1>. HIDE DEF g
<1>7. Document!Insert
  <2>1. /\ c \in Items /\ n \in Items /\ List(item, c) \in Seq(Items)
        /\ i \in 1 .. Len(List(item, c)) + 1
    BY Facts DEF InUse
  <2>2. NameWritten(item', item, n)
    BY <1>5, <1>6 DEF SameData, NameWritten
  <2>3. MembersWritten(item', item, c, Document!With(List(item, c), i, n))
    BY <1>5, <1>6 DEF MembersWritten
  <2>. QED  BY <1>6, <2>1, <2>2, <2>3, DocumentInsert
<1>. QED  BY <1>5, <1>6, <1>7 DEF ItemsInv

LEMMA DetachFromObjectKeeps == ItemsInv /\ DetachFromObject => ItemsInv' /\ Document!Detach
<1>. SUFFICES ASSUME ItemsInv, DetachFromObject PROVE ItemsInv' /\ Document!Detach
  OBVIOUS
<1>1. PICK c \in Containers, k \in Keys :
        /\ Find(item, c, k) # NULL
        /\ item' = Detached(item, c, Find(item, c, k)) /\ held' = held \cup {Find(item, c, k)}
  BY DEF DetachFromObject
<1>2. InOrder(item, held) /\ c \in InUse(item) /\ c \in Items /\ List(item, c) \in Seq(Items)
  BY Facts DEF ItemsInv
<1>3. PICK i \in 1 .. Len(List(item, c)) : Find(item, c, k) = List(item, c)[i]
  BY <1>1, <1>2, FoundIsMember
<1>. DEFINE g == Detached(item, c, List(item, c)[i])
<1>4. /\ InOrder(g, held \cup {List(item, c)[i]}) /\ SameData(g, item)
      /\ MembersWritten(g, item, c, Document!Without(List(item, c), i))
  BY <1>2, Detaches
<1>5. item' = g /\ held' = held \cup {List(item, c)[i]}
  BY <1>1, <1>3
<1>. HIDE DEF g
<1>6. Document!Detach
  BY <1>2, <1>4, <1>5, DocumentDetach
<1>. QED  BY <1>4, <1>5, <1>6 DEF ItemsInv

LEMMA DeleteFromObjectKeeps == ItemsInv /\ DeleteFromObject => ItemsInv' /\ Document!DeleteMember
<1>. SUFFICES ASSUME ItemsInv, DeleteFromObject PROVE ItemsInv' /\ Document!DeleteMember
  OBVIOUS
<1>1. PICK c \in Containers, k \in Keys :
        /\ Find(item, c, k) # NULL
        /\ item' = Freed(Detached(item, c, Find(item, c, k)), Find(item, c, k)) /\ held' = held
  BY DEF DeleteFromObject
<1>2. InOrder(item, held) /\ c \in InUse(item) /\ c \in Items /\ List(item, c) \in Seq(Items)
  BY Facts DEF ItemsInv
<1>3. PICK i \in 1 .. Len(List(item, c)) : Find(item, c, k) = List(item, c)[i]
  BY <1>1, <1>2, FoundIsMember
<1>. DEFINE n == List(item, c)[i]
            g == Detached(item, c, n)
<1>4. /\ InOrder(g, held \cup {n}) /\ SameData(g, item)
      /\ MembersWritten(g, item, c, Document!Without(List(item, c), i))
  BY <1>2, Detaches
<1>5. n \notin held
  BY <1>2, MemberLinks
<1>. HIDE DEF g
<1>6. /\ InOrder(Freed(g, n), (held \cup {n}) \ {n})
      /\ \A x \in Items : Freed(g, n)[x] = IF x \in Subtree(g, n) THEN Blank ELSE g[x]
      /\ \A d \in Items : List(Freed(g, n), d) = IF d \in Subtree(g, n) THEN <<>> ELSE List(g, d)
  <2>. DEFINE R == held \cup {n}
  <2>1. InOrder(g, R) /\ n \in R
    BY <1>4
  <2>. HIDE DEF R, n
  <2>2. /\ InOrder(Freed(g, n), R \ {n})
        /\ \A x \in Items : Freed(g, n)[x] = IF x \in Subtree(g, n) THEN Blank ELSE g[x]
        /\ \A d \in Items : List(Freed(g, n), d) = IF d \in Subtree(g, n) THEN <<>> ELSE List(g, d)
    BY <2>1, Frees
  <2>. QED  BY <2>2 DEF R
<1>7. (held \cup {n}) \ {n} = held
  BY <1>5
<1>8. item' = Freed(g, n) /\ held' = held
  BY <1>1, <1>3 DEF g
<1>9. Subtree(g, n) = Subtree(item, n)
  <2>1. n \in InUse(item) /\ c \notin Subtree(item, n) /\ Subtree(item, n) \subseteq Items
    BY <1>2, MemberLinks, NotInMember, TreeOfItem DEF InUse
  <2>2. n \in InUse(g)
    BY <1>4, <2>1 DEF SameData, InUse
  <2>3. \A x \in Subtree(item, n) : List(g, x) = List(item, x)
    BY <1>4, <2>1 DEF MembersWritten
  <2>. QED  BY <1>2, <1>4, <2>1, <2>2, <2>3, SameSubtree
<1>10. Document!DeleteMember
  <2>. DEFINE T == Subtree(item, n)
  <2>1. \A x \in Items :
          /\ item'[x].type = IF x \in T THEN "free" ELSE item[x].type
          /\ item'[x].value = IF x \in T THEN NoKey ELSE item[x].value
          /\ item'[x].key = IF x \in T THEN NoKey ELSE item[x].key
    BY <1>4, <1>6, <1>8, <1>9 DEF SameData, Blank
  <2>2. \A d \in Items : List(item', d) =
          IF d \in T THEN <<>> ELSE IF d = c THEN Document!Without(List(item, c), i) ELSE List(item, d)
    BY <1>4, <1>6, <1>8, <1>9 DEF MembersWritten
  <2>. QED  BY <1>2, <1>8, <2>1, <2>2, DocumentDeleteMember
<1>. QED  BY <1>6, <1>7, <1>8, <1>10 DEF ItemsInv

LEMMA ReplaceInObjectKeeps == ItemsInv /\ ReplaceInObject => ItemsInv' /\ (Document!Replace \/ Document!Edit)
<1>. SUFFICES ASSUME ItemsInv, ReplaceInObject PROVE ItemsInv' /\ (Document!Replace \/ Document!Edit)
  OBVIOUS
<1>1. PICK n \in held, c \in Containers, k \in Keys :
        /\ MayHold(c, n)
        /\ IF Find(Named(item, n, k), c, k) = NULL THEN item' = Named(item, n, k) /\ held' = held
           ELSE /\ item' = Replaced(Named(item, n, k), c, Find(Named(item, n, k), c, k), n)
                /\ held' = held \ {n}
  BY DEF ReplaceInObject, Named
<1>2. InOrder(item, held) /\ c \in InUse(item) /\ c \in Items /\ n \in InUse(item)
  BY Facts DEF ItemsInv
<1>3. c \notin Subtree(item, n)
  BY <1>1 DEF MayHold
<1>. DEFINE g == Named(item, n, k)
            old == Find(g, c, k)
<1>4. /\ InOrder(g, held) /\ InUse(g) = InUse(item) /\ Subtree(g, n) = Subtree(item, n)
  BY <1>2, NameKeeps
<1>5. /\ \A x \in Items : /\ List(g, x) = List(item, x) /\ g[x].type = item[x].type
                          /\ g[x].value = item[x].value
                          /\ g[x].key = IF x = n THEN k ELSE item[x].key
      /\ \A m \in InUse(item) : Subtree(g, m) = Subtree(item, m)
  BY <1>2, NameKeeps
<1>. HIDE DEF g
<1>6. CASE old = NULL
  <2>1. item' = g /\ held' = held /\ n \in Live
    BY <1>1, <1>6, Facts DEF g
  <2>2. ItemWritten(item', item, n)
    BY <1>5, <2>1 DEF ItemWritten
  <2>3. Document!Edit
    BY <2>1, <2>2, DocumentEdit
  <2>. QED  BY <1>4, <2>1, <2>3 DEF ItemsInv
<1>7. CASE old # NULL
  <2>1. List(g, c) \in Seq(Items)
    BY <1>2, <1>4 DEF InOrder, Chain
  <2>2. PICK i \in 1 .. Len(List(g, c)) : old = List(g, c)[i]
    BY <1>7, <2>1, FoundIsMember
  <2>. DEFINE e == Exchanged(g, c, old, n)
  <2>3. /\ InOrder(e, (held \cup {old}) \ {n}) /\ SameData(e, g)
        /\ MembersWritten(e, g, c, Changed(List(g, c), i, n))
    <3>. DEFINE o == List(g, c)[i]
                a == Exchanged(g, c, o, n)
    <3>1. /\ InOrder(a, (held \cup {o}) \ {n}) /\ SameData(a, g)
          /\ MembersWritten(a, g, c, Changed(List(g, c), i, n))
      <4>1. InOrder(g, held) /\ c \in InUse(g) /\ c \notin Subtree(g, n)
        BY <1>2, <1>3, <1>4
      <4>. QED  BY <4>1, Exchanges
    <3>. QED  BY <2>2, <3>1
  <2>4. old \notin held
    BY <1>2, <1>4, <2>2, MemberLinks
  <2>5. old \in (held \cup {old}) \ {n}
    BY <2>4
  <2>. HIDE DEF e
  <2>6. /\ InOrder(Freed(e, old), ((held \cup {old}) \ {n}) \ {old})
        /\ \A x \in Items : Freed(e, old)[x] = IF x \in Subtree(e, old) THEN Blank ELSE e[x]
        /\ \A d \in Items : List(Freed(e, old), d) = IF d \in Subtree(e, old) THEN <<>> ELSE List(e, d)
    <3>. DEFINE R == (held \cup {old}) \ {n}
    <3>1. InOrder(e, R) /\ old \in R
      BY <2>3, <2>5
    <3>. HIDE DEF R, old
    <3>2. /\ InOrder(Freed(e, old), R \ {old})
          /\ \A x \in Items : Freed(e, old)[x] = IF x \in Subtree(e, old) THEN Blank ELSE e[x]
          /\ \A d \in Items : List(Freed(e, old), d) = IF d \in Subtree(e, old) THEN <<>> ELSE List(e, d)
      BY <3>1, Frees, Zenon
    <3>. QED  BY <3>2 DEF R
  <2>7. ((held \cup {old}) \ {n}) \ {old} = held \ {n}
    BY <2>4
  <2>8. Replaced(g, c, old, n) = Freed(e, old)
    BY Zenon DEF Replaced, Exchanged, e
  <2>9. item' = Replaced(g, c, old, n) /\ held' = held \ {n}
    BY <1>1, <1>7 DEF g
  <2>10. item' = Freed(e, old)
    BY <2>8, <2>9
  <2>. DEFINE T == Subtree(item, old)
  <2>11. /\ old \in InUse(item) /\ old = List(item, c)[i] /\ i \in 1 .. Len(List(item, c))
         /\ c \notin T /\ T \subseteq Items /\ Subtree(g, old) = T
    <3>1. old = List(item, c)[i] /\ i \in 1 .. Len(List(item, c))
      BY <1>2, <1>5, <2>2
    <3>2. old \in InUse(item) /\ c \notin T
      BY <1>2, <3>1, MemberLinks, NotInMember
    <3>3. T \subseteq Items
      BY <1>2, <3>2, TreeOfItem DEF InUse
    <3>. QED  BY <1>5, <3>1, <3>2, <3>3
  <2>12. Subtree(e, old) = T
    <3>1. old \in InUse(g) /\ old \in InUse(e)
      BY <1>4, <2>3, <2>11 DEF SameData, InUse
    <3>2. \A x \in Subtree(g, old) : List(e, x) = List(g, x)
      BY <2>3, <2>11 DEF MembersWritten
    <3>3. Subtree(e, old) = Subtree(g, old)
      BY <1>4, <2>3, <3>1, <3>2, SameSubtree
    <3>. QED  BY <2>11, <3>3
  <2>13. n \notin T
    <3>1. n # old /\ old \in Subtree(item, old) /\ IsForest(Members(item), InUse(item), held)
          /\ IsTree(Members(item), T, old)
      BY <1>2, <2>4, <2>11, TreeOfItem
    <3>. HIDE DEF T
    <3>. QED  BY <2>11, <3>1, TreeInForest
  <2>. HIDE DEF T, old
  <2>14. \A x \in Items :
           /\ item'[x].type = IF x \in T THEN "free" ELSE item[x].type
           /\ item'[x].value = IF x \in T THEN NoKey ELSE item[x].value
           /\ x # n => item'[x].key = IF x \in T THEN NoKey ELSE item[x].key
    BY <1>5, <2>3, <2>6, <2>10, <2>12 DEF SameData, Blank
  <2>15. \A d \in Items : List(item', d) =
           IF d \in T THEN <<>> ELSE IF d = c THEN Changed(List(item, c), i, n) ELSE List(item, d)
    <3>1. List(g, c) = List(item, c) /\ \A d \in Items : List(g, d) = List(item, d)
      BY <1>2, <1>5
    <3>. QED  BY <2>3, <2>6, <2>10, <2>12, <3>1 DEF MembersWritten
  <2>16. T = Subtree(item, List(item, c)[i])
    BY <2>11 DEF T
  <2>17. Document!Replace
    BY <1>2, <2>9, <2>11, <2>13, <2>14, <2>15, <2>16, DocumentReplace
  <2>. QED  BY <2>6, <2>7, <2>9, <2>10, <2>17 DEF ItemsInv
<1>. QED  BY <1>6, <1>7

LEMMA DeleteKeeps == ItemsInv /\ Delete => ItemsInv' /\ Document!Delete
<1>. SUFFICES ASSUME ItemsInv, Delete PROVE ItemsInv' /\ Document!Delete
  OBVIOUS
<1>1. PICK n \in held : item' = Freed(item, n) /\ held' = held \ {n}
  BY DEF Delete
<1>2. InOrder(item, held)
  BY DEF ItemsInv
<1>3. /\ InOrder(Freed(item, n), held \ {n})
      /\ \A x \in Items : Freed(item, n)[x] = IF x \in Subtree(item, n) THEN Blank ELSE item[x]
      /\ \A d \in Items :
           List(Freed(item, n), d) = IF d \in Subtree(item, n) THEN <<>> ELSE List(item, d)
  BY <1>2, Frees
<1>4. Document!Delete
  BY <1>1, <1>3, DocumentDelete
<1>. QED  BY <1>1, <1>3, <1>4 DEF ItemsInv

LEMMA CopiesAreOneToOne ==
  ASSUME ItemsInv, NEW n \in Live, NEW f \in Copies(n)
  PROVE  OneToOne(f, Subtree(item, n), Items \ InUse(item))
BY Facts DEF Copies, OneToOne

LEMMA DuplicateKeeps == ItemsInv /\ Duplicate => ItemsInv' /\ Document!Copy
<1>. SUFFICES ASSUME ItemsInv, Duplicate PROVE ItemsInv' /\ Document!Copy
  OBVIOUS
<1>0. PICK n \in Live : \E f \in Copies(n) : item' = Copied(item, n, f) /\ held' = held \cup {f[n]}
  BY DEF Duplicate
<1>1. PICK f \in Copies(n) : item' = Copied(item, n, f) /\ held' = held \cup {f[n]}
  BY <1>0
<1>2. InOrder(item, held) /\ n \in InUse(item) /\ OneToOne(f, Subtree(item, n), Items \ InUse(item))
  BY Facts, CopiesAreOneToOne DEF ItemsInv
<1>. DEFINE g == Copied(item, n, f)
<1>3. InOrder(g, held \cup {f[n]}) /\ CopyLists(g, item, n, f)
  BY <1>2, Duplicates
<1>4. CopyLinks(g, item, n, f) /\ CopySame(g, item, n, f)
  BY <1>2, CopyCells DEF CopySame
<1>. HIDE DEF g
<1>5. item' = g /\ held' = held \cup {f[n]} /\ g \in [Items -> Cells]
  BY <1>1, <1>3 DEF g, InOrder, Memory
<1>6. OneToOne(f, Subtree(item, n), Items \ Live)
  BY <1>2, Facts
<1>7. Document!Copy
  BY <1>3, <1>4, <1>5, <1>6, DocumentCopy
<1>. QED  BY <1>3, <1>5, <1>7 DEF ItemsInv

LEMMA RereadKeeps == ItemsInv /\ Reread => ItemsInv' /\ Document!Copy
<1>. SUFFICES ASSUME ItemsInv, Reread PROVE ItemsInv' /\ Document!Copy
  OBVIOUS
<1>0. PICK n \in Live : \E f \in Copies(n) : item' = AsRead(item, n, f) /\ held' = held \cup {f[n]}
  BY DEF Reread
<1>1. PICK f \in Copies(n) : item' = AsRead(item, n, f) /\ held' = held \cup {f[n]}
  BY <1>0
<1>2. InOrder(item, held) /\ n \in InUse(item) /\ OneToOne(f, Subtree(item, n), Items \ InUse(item))
  BY Facts, CopiesAreOneToOne DEF ItemsInv
<1>. DEFINE g == AsRead(item, n, f)
<1>3. InOrder(g, held \cup {f[n]}) /\ CopyLists(g, item, n, f)
  BY <1>2, Reads
<1>4. CopyLinks(g, item, n, f) /\ CopyRead(g, item, n, f)
  BY <1>2, Reads
<1>. HIDE DEF g
<1>5. item' = g /\ held' = held \cup {f[n]} /\ g \in [Items -> Cells]
  BY <1>1, <1>3 DEF g, InOrder, Memory
<1>6. OneToOne(f, Subtree(item, n), Items \ Live)
  BY <1>2, Facts
<1>7. Document!Copy
  BY <1>3, <1>4, <1>5, <1>6, DocumentCopy
<1>. QED  BY <1>3, <1>5, <1>7 DEF ItemsInv

LEMMA AssignIntKeeps == ItemsInv /\ AssignInt => ItemsInv' /\ Document!Edit
<1>. SUFFICES ASSUME ItemsInv, AssignInt PROVE ItemsInv' /\ Document!Edit
  OBVIOUS
<1>1. PICK n \in Live : /\ item[n].type = "leaf" /\ item[n].value.kind = "number"
                        /\ item' = [item EXCEPT ![n].value.int = ToInt(2 * @)] /\ held' = held
  BY DEF AssignInt
<1>2. /\ InOrder(item, held) /\ Memory(item) /\ item \in [Items -> Cells] /\ n \in Items
      /\ item[n] \in Cells /\ item[n].value \in LeafValues
  BY <1>1, Facts DEF ItemsInv, InOrder, Memory, Live
<1>3. /\ item[n].value \in [kind : {"number"}, int : Nat, double : Nat]
  BY <1>1, <1>2 DEF LeafValues
<1>. DEFINE v == [item[n].value EXCEPT !.int = ToInt(2 * @)]
            e == [item[n] EXCEPT !.value = v]
<1>4. v \in LeafValues
  <2>1. ToInt(2 * item[n].value.int) \in Nat
    BY <1>3, ItemsAssumption DEF ToInt
  <2>. QED  BY <1>3, <2>1 DEF LeafValues
<1>5. item' = [item EXCEPT ![n] = e]
  BY <1>1, <1>2
<1>. HIDE DEF v
<1>6. e \in Cells /\ e.type = item[n].type /\ e.child = item[n].child /\ e.next = item[n].next
      /\ e.prev = item[n].prev /\ e.key = item[n].key /\ e.value = v
  BY <1>2, <1>4 DEF Cells
<1>. HIDE DEF e
<1>7. /\ item' \in [Items -> Cells]
      /\ \A x \in Items : item'[x] = IF x = n THEN e ELSE item[x]
  BY <1>2, <1>5, <1>6
<1>8. \A x \in Items : /\ item'[x].type = item[x].type /\ item'[x].child = item[x].child
                       /\ item'[x].next = item[x].next /\ item'[x].prev = item[x].prev
  BY <1>6, <1>7
<1>9. Memory(item')
  <2>1. ASSUME NEW x \in Items
        PROVE  /\ item'[x].type = "free" => item'[x] = Blank
               /\ item'[x].type \notin {"object", "array"} => item'[x].child = NULL
               /\ item'[x].value \in IF item'[x].type = "leaf" THEN LeafValues ELSE {NoKey}
    <3>1. CASE x = n
      <4>1. item'[x] = e /\ e.type = "leaf" /\ e.value \in LeafValues
        BY <1>1, <1>4, <1>6, <1>7, <3>1
      <4>2. e.child = NULL
        BY <1>1, <1>2, <1>6 DEF Memory
      <4>. QED  BY <4>1, <4>2
    <3>2. CASE x # n
      <4>1. item'[x] = item[x]
        BY <1>7, <3>2
      <4>. QED  BY <1>2, <4>1 DEF Memory
    <3>. QED  BY <3>1, <3>2
  <2>. QED  BY <1>7, <2>1 DEF Memory
<1>10. InOrder(item', held) /\ \A d \in Items : List(item', d) = List(item, d)
  BY <1>2, <1>8, <1>9, EditKeeps
<1>11. Document!Edit
  <2>1. ItemWritten(item', item, n)
    BY <1>7, <1>8, <1>10 DEF ItemWritten
  <2>. QED  BY <1>1, <2>1, DocumentEdit
<1>. QED  BY <1>1, <1>10, <1>11 DEF ItemsInv

LEMMA ItemsStep ==
  ItemsInv /\ [ItemsNext]_vars => ItemsInv' /\ [Document!Next]_(Document!doc)
<1>. SUFFICES ASSUME ItemsInv, [ItemsNext]_vars
              PROVE  ItemsInv' /\ (Document!Next \/ UNCHANGED Document!doc)
  OBVIOUS
<1>1. CASE Operations
  BY <1>1, CreateKeeps, AddToArrayKeeps, AddToObjectKeeps, InsertKeeps, DetachFromObjectKeeps,
     DeleteFromObjectKeeps, ReplaceInObjectKeeps, DeleteKeeps, DuplicateKeeps, AssignIntKeeps
     DEF Operations, Document!Next
<1>2. CASE Reread
  BY <1>2, RereadKeeps DEF Document!Next
<1>3. CASE UNCHANGED vars
  <2>1. item' = item /\ held' = held
    BY <1>3 DEF vars
  <2>2. ItemsInv'
    BY <2>1 DEF ItemsInv
  <2>3. \A d \in Items : List(item', d) = List(item, d)
    BY <2>1
  <2>. QED  BY <2>1, <2>2, <2>3 DEF Document!doc
<1>. QED  BY <1>1, <1>2, <1>3 DEF ItemsNext

LEMMA InitIsEmpty == Init => Document!Init
<1>. SUFFICES ASSUME Init PROVE Document!Init
  OBVIOUS
<1>1. held = {} /\ \A x \in Items : item[x] = Blank
  BY DEF Init
<1>2. \A c \in Items : List(item, c) = <<>>
  <2>. TAKE c \in Items
  <2>1. /\ List(item, c) \in Seq(Items) /\ Len(List(item, c)) \in Nat
        /\ item[c].child = IF Len(List(item, c)) = 0 THEN NULL ELSE List(item, c)[1]
        /\ \A i \in 1 .. Len(List(item, c)) : List(item, c)[i] \in Items
    BY InitInOrder, MemberLinks DEF ItemsInv
  <2>2. item[c].child = NULL
    BY <1>1 DEF Blank
  <2>3. Len(List(item, c)) = 0
    <3>1. Len(List(item, c)) # 0 => 1 \in 1 .. Len(List(item, c))
      BY <2>1
    <3>. QED  BY <2>1, <2>2, <3>1, ItemsAssumption
  <2>. QED  BY <2>1, <2>3
<1>. QED  BY <1>1, <1>2 DEF Document!Init, Blank

\* Whatever is created, added, inserted, detached, replaced, deleted, duplicated and read,
\* and however many items there are, the lists stay linked both ways, an item has one
\* owner, and none is lost or freed while it is in use (add_item_to_array(), cJSON.c:1974;
\* cJSON_DetachItemViaPointer(), cJSON.c:2205; cJSON_ReplaceItemViaPointer(), cJSON.c:2315;
\* cJSON_Delete(), cJSON.c:253).
THEOREM ItemsWellFormed == ItemsSpec => []WellFormed
<1>1. Init => ItemsInv
  BY InitInOrder
<1>2. ItemsInv /\ [ItemsNext]_vars => ItemsInv'
  BY ItemsStep
<1>3. ItemsInv => WellFormed
  BY InOrderIsWellFormed
<1>. QED  BY <1>1, <1>2, <1>3, PTL DEF ItemsSpec

\* Whatever is done to items, and however many there are, cJSON does to the sequences of
\* members what is asked: it inserts, takes out, exchanges or frees at the one place, links
\* all others as before, and a copy has the members, names and values of its original
\* (cJSON.c:1974, 2205, 2281, 2315, 2729).
THEOREM ItemsKeepDocuments == ItemsSpec => KeepsDocuments
<1>1. Init => ItemsInv /\ Document!Init
  BY InitInOrder, InitIsEmpty
<1>2. ItemsInv /\ [ItemsNext]_vars => ItemsInv' /\ [Document!Next]_(Document!doc)
  BY ItemsStep
<1>. QED  BY <1>1, <1>2, PTL DEF ItemsSpec, KeepsDocuments, Document!Spec
=============================================================================

------------------------- MODULE Settlement_proofs -------------------------
(***************************************************************************)
(* Proofs about Settlement and the day of MCSettlement, for any agents,    *)
(* occurrence, lease and bounds.                                           *)
(*                                                                         *)
(* First the score: sums over finite sets, the islands of the statement as *)
(* the maximal runs of instants, the instant the score was reached, and    *)
(* what may be changed about the end of a day without changing either.     *)
(* Then the day: what is settled is what the ledger says for good, if no   *)
(* transaction is open for the grace and a second, or if no opt-in         *)
(* overtakes a report that has read its mounts; in the second case the     *)
(* office lock is the settlement watermark.                                *)
(***************************************************************************)
EXTENDS MCSettlement, FiniteSetTheorems, WellFoundedInduction, TLAPS

-----------------------------------------------------------------------------
(***************************************************************************)
(* Numbers and sums.  The induction is over sets of numbers and of sets.   *)
(***************************************************************************)

LEMMA LeastExists ==
    ASSUME NEW N \in SUBSET Nat, N # {}
    PROVE  \E n \in N : \A m \in N : n <= m
<1>1. PICK n \in N : \A m \in N : ~ (<<m, n>> \in OpToRel(<, Nat))
  BY WFMin, NatLessThanWellFounded
<1>2. \A m \in N : ~ (m < n)
  BY <1>1 DEF OpToRel
<1> QED
  BY <1>2

LEMMA LeastIsMin ==
    ASSUME NEW N \in SUBSET Nat, N # {}
    PROVE  Min(N) \in N /\ \A m \in N : Min(N) <= m
BY LeastExists DEF Min

LEMMA GreatestIsMax ==
    ASSUME NEW N \in SUBSET Nat, N # {}, NEW b \in Nat, \A n \in N : n <= b
    PROVE  Max(N) \in N /\ \A m \in N : Max(N) >= m
<1> DEFINE U == {u \in Nat : \A n \in N : n <= u}
<1>1. PICK u \in U : \A v \in U : u <= v
  BY LeastExists
<1>2. u \in N
  <2>1. SUFFICES ASSUME u \notin N
                 PROVE  FALSE
    OBVIOUS
  <2>2. PICK n \in N : TRUE
    OBVIOUS
  <2>3. \A m \in N : m <= u - 1
    BY <1>1, <2>1
  <2>4. u - 1 \in Nat
    BY <2>2, <2>3, <1>1
  <2> QED
    BY <1>1, <2>3, <2>4
<1>3. \E x \in N : \A y \in N : x >= y
  BY <1>1, <1>2
<1> QED
  BY <1>3 DEF Max

LEMMA NaturalsByInduction ==
    ASSUME NEW Q, 0 \in Q, \A n \in Nat : n \in Q => n + 1 \in Q
    PROVE  Nat \subseteq Q
<1> SUFFICES ASSUME Nat \ Q # {}
             PROVE  FALSE
  OBVIOUS
<1>1. PICK n \in Nat \ Q : \A m \in Nat \ Q : n <= m
  BY LeastExists
<1>2. n # 0 /\ n - 1 \in Nat /\ n - 1 \in Q
  BY <1>1
<1> QED
  BY <1>1, <1>2

LEMMA SubsetsByInduction ==
    ASSUME NEW S, IsFiniteSet(S), NEW Q, {} \in Q,
           \A T \in SUBSET S : T \in Q => \A x \in S \ T : T \cup {x} \in Q
    PROVE  SUBSET S \subseteq Q
<1> DEFINE P == {n \in Nat : \A T \in SUBSET S : Cardinality(T) = n => T \in Q}
<1>1. \A T \in SUBSET S : IsFiniteSet(T) /\ Cardinality(T) \in Nat
  BY FS_Subset, FS_CardinalityType
<1>2. 0 \in P
  BY <1>1, FS_EmptySet
<1>3. ASSUME NEW n \in Nat, n \in P
      PROVE  n + 1 \in P
  <2> SUFFICES ASSUME NEW T \in SUBSET S, Cardinality(T) = n + 1
               PROVE  T \in Q
    OBVIOUS
  <2>1. T # {}
    <3>1. Cardinality({}) = 0 /\ n + 1 # 0
      BY FS_EmptySet
    <3> HIDE DEF P
    <3> QED
      BY <3>1
  <2>2. PICK x \in T : TRUE
    BY <2>1
  <2>3. T \ {x} \in SUBSET S /\ Cardinality(T \ {x}) = n
    BY <1>1, FS_RemoveElement
  <2>4. T \ {x} \in Q
    BY <1>3, <2>3
  <2>5. (T \ {x}) \cup {x} = T /\ x \in S \ (T \ {x})
    BY <2>2
  <2> HIDE DEF P
  <2> QED
    BY <2>3, <2>4, <2>5
<1> HIDE DEF P
<1>4. Nat \subseteq P
  BY <1>2, <1>3, NaturalsByInduction
<1> QED
  BY <1>1, <1>4 DEF P

\* g sums f over every subset of its domain, as the fold does it.
Adds(g, f) ==
    /\ g \in [SUBSET DOMAIN f -> Int]
    /\ g[{}] = 0
    /\ \A T \in SUBSET DOMAIN f : T # {} =>
          g[T] = f[CHOOSE x \in T : TRUE] + g[T \ {CHOOSE x \in T : TRUE}]

Total(f, T) == (CHOOSE g : Adds(g, f))[T]

LEMMA SumExists ==
    ASSUME NEW S, IsFiniteSet(S), NEW f \in [S -> Int]
    PROVE  \E g : Adds(g, f)
<1> DEFINE first(T) == CHOOSE x \in T : TRUE
           AddsTo(g, n) == \A T \in SUBSET S : T # {} /\ Cardinality(T) <= n =>
                              g[T] = f[first(T)] + g[T \ {first(T)}]
           G == {g \in [SUBSET S -> Int] : g[{}] = 0}
           P == {n \in Nat : \E g \in G : AddsTo(g, n)}
<1>1. ASSUME NEW T \in SUBSET S, T # {}
      PROVE  /\ first(T) \in S /\ Cardinality(T) \in Nat /\ Cardinality(T) # 0
             /\ T \ {first(T)} \in SUBSET S
             /\ Cardinality(T \ {first(T)}) = Cardinality(T) - 1
  BY <1>1, FS_Subset, FS_CardinalityType, FS_RemoveElement, FS_EmptySet
<1> HIDE DEF first
<1>2. 0 \in P
  <2> DEFINE g == [T \in SUBSET S |-> 0]
  <2>1. g \in G
    OBVIOUS
  <2>2. ASSUME NEW T \in SUBSET S, T # {}, Cardinality(T) <= 0
        PROVE  FALSE
    <3>1. Cardinality(T) \in Nat /\ Cardinality(T) # 0
      BY <1>1, <2>2
    <3> HIDE DEF g
    <3> QED
      BY <2>2, <3>1
  <2> QED
    BY <2>1, <2>2
<1>3. ASSUME NEW n \in Nat, n \in P
      PROVE  n + 1 \in P
  <2>1. PICK g \in G : AddsTo(g, n)
    BY <1>3
  <2> DEFINE h == [T \in SUBSET S |-> IF T = {} THEN 0 ELSE f[first(T)] + g[T \ {first(T)}]]
  <2>2. h \in G
    <3>1. ASSUME NEW T \in SUBSET S, T # {}
          PROVE  f[first(T)] + g[T \ {first(T)}] \in Int
      <4>1. first(T) \in S /\ T \ {first(T)} \in SUBSET S
        BY <1>1, <3>1
      <4>2. f[first(T)] \in Int /\ g[T \ {first(T)}] \in Int
        BY <4>1
      <4> QED
        BY <4>2
    <3> QED
      BY <3>1
  <2>3. ASSUME NEW T \in SUBSET S, Cardinality(T) <= n
        PROVE  h[T] = g[T]
    BY <2>1, <2>3
  <2>4. AddsTo(h, n + 1)
    <3> SUFFICES ASSUME NEW T \in SUBSET S, T # {}, Cardinality(T) <= n + 1
                 PROVE  h[T] = f[first(T)] + h[T \ {first(T)}]
      OBVIOUS
    <3>1. /\ T \ {first(T)} \in SUBSET S
          /\ Cardinality(T \ {first(T)}) <= n
      BY <1>1
    <3>2. h[T \ {first(T)}] = g[T \ {first(T)}]
      BY <2>3, <3>1
    <3> QED
      BY <3>2
  <2> HIDE DEF h, AddsTo
  <2> QED
    BY <2>2, <2>4
<1> HIDE DEF P
<1>4. Cardinality(S) \in P
  BY <1>2, <1>3, FS_CardinalityType, NaturalsByInduction
<1>5. PICK g \in G : AddsTo(g, Cardinality(S))
  BY <1>4 DEF P
<1>6. \A T \in SUBSET S : Cardinality(T) <= Cardinality(S)
  BY FS_Subset
<1>7. Adds(g, f)
  BY <1>5, <1>6 DEF Adds, first
<1> QED
  BY <1>7

LEMMA TotalAdds ==
    ASSUME NEW S, IsFiniteSet(S), NEW f \in [S -> Int]
    PROVE  /\ Total(f, {}) = 0
           /\ \A T \in SUBSET S : Total(f, T) \in Int
           /\ \A T \in SUBSET S : T # {} =>
                 Total(f, T) = f[CHOOSE x \in T : TRUE] + Total(f, T \ {CHOOSE x \in T : TRUE})
<1> DEFINE g == CHOOSE g : Adds(g, f)
<1>1. Adds(g, f)
  BY SumExists
<1>2. \A T : Total(f, T) = g[T]
  BY DEF Total
<1> HIDE DEF g
<1> QED
  BY <1>1, <1>2 DEF Adds

\* In whatever order.
LEMMA TotalRemove ==
    ASSUME NEW S, IsFiniteSet(S), NEW f \in [S -> Int], NEW T \in SUBSET S, NEW x \in T
    PROVE  Total(f, T) = f[x] + Total(f, T \ {x})
<1> DEFINE first(U) == CHOOSE y \in U : TRUE
           P == {n \in Nat : \A U \in SUBSET S : Cardinality(U) = n =>
                    \A y \in U : Total(f, U) = f[y] + Total(f, U \ {y})}
<1>1. /\ \A U \in SUBSET S : Total(f, U) \in Int
      /\ \A U \in SUBSET S : U # {} => /\ first(U) \in U
                                       /\ Total(f, U) = f[first(U)] + Total(f, U \ {first(U)})
  BY TotalAdds
<1>2. \A U \in SUBSET S : /\ IsFiniteSet(U) /\ Cardinality(U) \in Nat
                          /\ Cardinality(U) = 0 => U = {}
                          /\ \A y \in U : Cardinality(U \ {y}) = Cardinality(U) - 1
  BY FS_Subset, FS_CardinalityType, FS_RemoveElement, FS_EmptySet
<1> HIDE DEF first
<1>3. 0 \in P
  BY <1>2
<1>4. ASSUME NEW n \in Nat, n \in P
      PROVE  n + 1 \in P
  <2> SUFFICES ASSUME NEW U \in SUBSET S, Cardinality(U) = n + 1, NEW y \in U
               PROVE  Total(f, U) = f[y] + Total(f, U \ {y})
    OBVIOUS
  <2> DEFINE c == first(U)
  <2>1. c \in U /\ Total(f, U) = f[c] + Total(f, U \ {c})
    BY <1>1
  <2> HIDE DEF c
  <2>2. CASE y = c
    BY <2>1, <2>2
  <2>3. CASE y # c
    <3>1. /\ U \ {c} \in SUBSET S /\ U \ {y} \in SUBSET S
          /\ Cardinality(U \ {c}) = n /\ Cardinality(U \ {y}) = n
          /\ y \in U \ {c} /\ c \in U \ {y}
          /\ (U \ {c}) \ {y} = (U \ {y}) \ {c}
          /\ (U \ {y}) \ {c} \in SUBSET S
      BY <1>2, <2>1, <2>3
    <3>2. /\ Total(f, U \ {c}) = f[y] + Total(f, (U \ {y}) \ {c})
          /\ Total(f, U \ {y}) = f[c] + Total(f, (U \ {y}) \ {c})
      BY <1>4, <3>1
    <3>3. f[c] \in Int /\ f[y] \in Int /\ Total(f, (U \ {y}) \ {c}) \in Int
      BY <1>1, <2>1, <3>1
    <3> QED
      BY <2>1, <3>2, <3>3
  <2> QED
    BY <2>2, <2>3
<1> HIDE DEF P
<1>5. Cardinality(T) \in P
  BY <1>2, <1>3, <1>4, NaturalsByInduction
<1> QED
  BY <1>2, <1>5 DEF P

LEMMA ZeroTotal ==
    ASSUME NEW S, IsFiniteSet(S), NEW f \in [S -> Int], \A x \in S : f[x] = 0
    PROVE  Total(f, S) = 0
<1> DEFINE Q == {T \in SUBSET S : Total(f, T) = 0}
<1>1. {} \in Q
  BY TotalAdds
<1>2. ASSUME NEW T \in SUBSET S, T \in Q, NEW x \in S \ T
      PROVE  T \cup {x} \in Q
  <2>1. (T \cup {x}) \ {x} = T /\ x \in T \cup {x} /\ T \cup {x} \in SUBSET S
    BY <1>2
  <2>2. Total(f, T \cup {x}) = f[x] + Total(f, T)
    BY <2>1, TotalRemove
  <2> QED
    BY <1>2, <2>1, <2>2
<1> HIDE DEF Q
<1>3. SUBSET S \subseteq Q
  BY <1>1, <1>2, SubsetsByInduction
<1> QED
  BY <1>3 DEF Q

\* A sum is at most another one if its terms are at most some of the other's,
\* each at most its own; terms that are zero do not matter.
LEMMA DominatedIn ==
    ASSUME NEW D, IsFiniteSet(D), NEW f \in [D -> Nat], NEW A \in SUBSET D,
           NEW E, IsFiniteSet(E), NEW h \in [E -> Nat], NEW B \in SUBSET E,
           NEW m, \A x \in A : f[x] # 0 => m[x] \in B /\ f[x] <= h[m[x]],
           \A x, y \in A : f[x] # 0 /\ f[y] # 0 /\ m[x] = m[y] => x = y
    PROVE  Total(f, A) <= Total(h, B)
<1> DEFINE image(T) == {m[x] : x \in {y \in T : f[y] # 0}}
           Q == {T \in SUBSET A : \A U \in SUBSET B : image(T) \subseteq U =>
                    Total(f, T) <= Total(h, U)}
<1>1. /\ f \in [D -> Int] /\ h \in [E -> Int]
      /\ SUBSET A \subseteq SUBSET D /\ SUBSET B \subseteq SUBSET E
      /\ IsFiniteSet(A) /\ IsFiniteSet(B)
  BY FS_Subset
<1>2. /\ \A T \in SUBSET A : Total(f, T) \in Int
      /\ \A U \in SUBSET B : Total(h, U) \in Int
      /\ Total(f, {}) = 0
  BY <1>1, TotalAdds
<1>3. \A U \in SUBSET B : 0 <= Total(h, U)
  <2> DEFINE R == {U \in SUBSET B : 0 <= Total(h, U)}
  <2>1. {} \in R
    BY <1>1, TotalAdds
  <2>2. ASSUME NEW U \in SUBSET B, U \in R, NEW y \in B \ U
        PROVE  U \cup {y} \in R
    <3>1. (U \cup {y}) \ {y} = U /\ y \in U \cup {y} /\ U \cup {y} \in SUBSET B
      BY <2>2
    <3>2. Total(h, U \cup {y}) = h[y] + Total(h, U)
      BY <1>1, <3>1, TotalRemove
    <3> QED
      BY <1>2, <2>2, <3>1, <3>2
  <2> HIDE DEF R
  <2>3. SUBSET B \subseteq R
    BY <1>1, <2>1, <2>2, SubsetsByInduction
  <2> QED
    BY <2>3 DEF R
<1>4. {} \in Q
  BY <1>2, <1>3
<1>5. ASSUME NEW T \in SUBSET A, T \in Q, NEW x \in A \ T
      PROVE  T \cup {x} \in Q
  <2> SUFFICES ASSUME NEW U \in SUBSET B, image(T \cup {x}) \subseteq U
               PROVE  Total(f, T \cup {x}) <= Total(h, U)
    OBVIOUS
  <2>1. (T \cup {x}) \ {x} = T /\ x \in T \cup {x} /\ T \cup {x} \in SUBSET A
    OBVIOUS
  <2>2. Total(f, T \cup {x}) = f[x] + Total(f, T)
    BY <1>1, <2>1, TotalRemove
  <2>3. CASE f[x] = 0
    <3>1. image(T) \subseteq U
      OBVIOUS
    <3>2. Total(f, T) <= Total(h, U)
      BY <1>5, <3>1
    <3> HIDE DEF Q
    <3> QED
      BY <1>2, <2>2, <2>3, <3>2
  <2>4. CASE f[x] # 0
    <3>1. m[x] \in U /\ image(T) \subseteq U \ {m[x]}
      <4>1. m[x] \in image(T \cup {x})
        BY <2>4
      <4>2. \A y \in T : f[y] # 0 => m[y] # m[x] /\ m[y] \in image(T \cup {x})
        BY <2>4
      <4> QED
        BY <4>1, <4>2
    <3>2. U \ {m[x]} \in SUBSET B
      OBVIOUS
    <3>3. Total(f, T) <= Total(h, U \ {m[x]})
      BY <1>5, <3>1, <3>2
    <3>4. Total(h, U) = h[m[x]] + Total(h, U \ {m[x]})
      BY <1>1, <3>1, TotalRemove
    <3>5. f[x] \in Nat /\ h[m[x]] \in Nat /\ f[x] <= h[m[x]]
      BY <2>4
    <3>6. Total(f, T) \in Int /\ Total(h, U \ {m[x]}) \in Int
      BY <1>2, <3>2
    <3> HIDE DEF Q
    <3> QED
      BY <2>2, <3>3, <3>4, <3>5, <3>6
  <2> QED
    BY <2>3, <2>4
<1>6. SUBSET A \subseteq Q
  <2> HIDE DEF Q
  <2> QED
    BY <1>1, <1>4, <1>5, SubsetsByInduction
<1>7. A \in Q /\ image(A) \subseteq B
  BY <1>6
<1> QED
  BY <1>7

LEMMA Dominated ==
    ASSUME NEW A, IsFiniteSet(A), NEW f \in [A -> Nat],
           NEW B, IsFiniteSet(B), NEW h \in [B -> Nat],
           NEW m, \A x \in A : f[x] # 0 => m[x] \in B /\ f[x] <= h[m[x]],
           \A x, y \in A : f[x] # 0 /\ f[y] # 0 /\ m[x] = m[y] => x = y
    PROVE  Total(f, A) <= Total(h, B)
<1>1. A \in SUBSET A /\ B \in SUBSET B
  OBVIOUS
<1> QED
  BY <1>1, DominatedIn

\* Sums over the same terms, one of which may be less by some amount.
LEMMA TotalWithout ==
    ASSUME NEW S, IsFiniteSet(S), NEW f \in [S -> Nat], NEW h \in [S -> Nat],
           \A x \in S : f[x] <= h[x], NEW y \in S, NEW n \in Nat, f[y] + n <= h[y]
    PROVE  Total(f, S) + n <= Total(h, S)
<1> DEFINE R == S \ {y}
           m == [x \in R |-> x]
<1>1. Total(f, S) = f[y] + Total(f, R) /\ Total(h, S) = h[y] + Total(h, R)
  BY TotalRemove
<1>2. Total(f, R) \in Int /\ Total(h, R) \in Int /\ f[y] \in Nat /\ h[y] \in Nat
  BY TotalAdds
<1>3. Total(f, R) <= Total(h, R)
  <2>1. R \in SUBSET S /\ m \in [R -> R] /\ \A x \in R : m[x] = x
    OBVIOUS
  <2> HIDE DEF m
  <2> QED
    BY <2>1, DominatedIn
<1> HIDE DEF R
<1> QED
  BY <1>1, <1>2, <1>3

LEMMA TotalMonotone ==
    ASSUME NEW S, IsFiniteSet(S), NEW f \in [S -> Nat], NEW h \in [S -> Nat],
           \A x \in S : f[x] <= h[x]
    PROVE  Total(f, S) <= Total(h, S)
<1> DEFINE m == [x \in S |-> x]
<1>1. m \in [S -> S] /\ \A x \in S : m[x] = x
  OBVIOUS
<1> HIDE DEF m
<1> QED
  BY <1>1, Dominated

\* The same terms under other names.
LEMMA Renamed ==
    ASSUME NEW A, IsFiniteSet(A), NEW f \in [A -> Nat],
           NEW B, IsFiniteSet(B), NEW h \in [B -> Nat],
           NEW m \in [A -> B],
           \A x \in A : f[x] = h[m[x]],
           \A x, y \in A : m[x] = m[y] => x = y,
           \A z \in B : h[z] # 0 => \E x \in A : m[x] = z
    PROVE  Total(f, A) = Total(h, B)
<1>1. Total(f, A) <= Total(h, B)
  BY Dominated
<1>2. Total(h, B) <= Total(f, A)
  <2> DEFINE n == [z \in B |-> CHOOSE x \in A : m[x] = z]
  <2>1. \A z \in B : h[z] # 0 => n[z] \in A /\ m[n[z]] = z
    OBVIOUS
  <2> HIDE DEF n
  <2>2. \A z \in B : h[z] # 0 => n[z] \in A /\ h[z] <= f[n[z]]
    BY <2>1
  <2>3. \A z, y \in B : h[z] # 0 /\ h[y] # 0 /\ n[z] = n[y] => z = y
    BY <2>1
  <2> QED
    BY <2>2, <2>3, Dominated
<1>3. Total(f, A) \in Int /\ Total(h, B) \in Int
  BY TotalAdds
<1> QED
  BY <1>1, <1>2, <1>3

LEMMA TermInTotal ==
    ASSUME NEW S, IsFiniteSet(S), NEW f \in [S -> Nat], NEW x \in S
    PROVE  f[x] <= Total(f, S) /\ Total(f, S) \in Nat
<1> DEFINE a == [y \in {x} |-> f[x]]
           m == [y \in {x} |-> x]
<1>1. IsFiniteSet({x}) /\ IsFiniteSet({})
  BY FS_Singleton, FS_EmptySet
<1>2. Total(a, {x}) <= Total(f, S)
  <2>1. /\ a \in [{x} -> Nat] /\ m \in [{x} -> S]
        /\ \A y \in {x} : a[y] = f[m[y]] /\ f[m[y]] \in Nat
    OBVIOUS
  <2> HIDE DEF a, m
  <2> QED
    BY <1>1, <2>1, Dominated
<1>3. Total(a, {x}) = a[x] + Total(a, {x} \ {x})
  BY <1>1, TotalRemove
<1>4. {x} \ {x} = {} /\ Total(a, {}) = 0 /\ Total(f, S) \in Int
  BY <1>1, TotalAdds
<1> QED
  BY <1>2, <1>3, <1>4

\* How the fold chooses.
First(T) == CHOOSE x \in T : TRUE

Folds(g, f, S) ==
    g = [T \in SUBSET S |-> IF T = {} THEN 0 ELSE f[First(T)] + g[T \ {First(T)}]]

\* The fold is the sum.
LEMMA FoldIsTotal ==
    ASSUME NEW S, IsFiniteSet(S), NEW g, NEW f \in [S -> Int],
           Folds(g, f, S)
    PROVE  g[S] = Total(f, S)
<1> DEFINE P == {n \in Nat : \A T \in SUBSET S : Cardinality(T) = n => g[T] = Total(f, T)}
<1>1. /\ Total(f, {}) = 0
      /\ \A T \in SUBSET S : T # {} => Total(f, T) = f[First(T)] + Total(f, T \ {First(T)})
  BY TotalAdds DEF First
<1>2. /\ g[{}] = 0
      /\ \A T \in SUBSET S : T # {} => g[T] = f[First(T)] + g[T \ {First(T)}]
  BY Zenon DEF Folds
<1>3. ASSUME NEW T \in SUBSET S, T # {}
      PROVE  /\ T \ {First(T)} \in SUBSET S
             /\ Cardinality(T) \in Nat /\ Cardinality(T) # 0
             /\ Cardinality(T \ {First(T)}) = Cardinality(T) - 1
  BY <1>3, FS_Subset, FS_CardinalityType, FS_RemoveElement, FS_EmptySet DEF First
<1>4. 0 \in P
  <2> SUFFICES ASSUME NEW T \in SUBSET S, Cardinality(T) = 0
               PROVE  g[T] = Total(f, T)
    OBVIOUS
  <2> HIDE DEF P
  <2>1. T = {}
    BY <1>3
  <2> QED
    BY <1>1, <1>2, <2>1
<1>5. ASSUME NEW n \in Nat, n \in P
      PROVE  n + 1 \in P
  <2> SUFFICES ASSUME NEW T \in SUBSET S, Cardinality(T) = n + 1
               PROVE  g[T] = Total(f, T)
    OBVIOUS
  <2>1. CASE T = {}
    BY <1>1, <1>2, <2>1
  <2>2. CASE T # {}
    <3>1. T \ {First(T)} \in SUBSET S /\ Cardinality(T \ {First(T)}) = n
      BY <1>3, <2>2
    <3>2. g[T \ {First(T)}] = Total(f, T \ {First(T)})
      BY <1>5, <3>1
    <3> HIDE DEF P
    <3> QED
      BY <1>1, <1>2, <2>2, <3>2
  <2> QED
    BY <2>1, <2>2
<1> HIDE DEF P
<1>6. Cardinality(S) \in P
  BY <1>4, <1>5, FS_CardinalityType, NaturalsByInduction
<1> QED
  BY <1>6 DEF P

LEMMA FoldExists ==
    ASSUME NEW S, IsFiniteSet(S), NEW f \in [S -> Int]
    PROVE  \E g : Folds(g, f, S)
<1>1. PICK g : Adds(g, f)
  BY SumExists
<1>2. /\ g \in [SUBSET S -> Int] /\ g[{}] = 0
      /\ \A T \in SUBSET S : T # {} =>
            g[T] = f[First(T)] + g[T \ {First(T)}]
  <2>1. DOMAIN f = S
    OBVIOUS
  <2> QED
    BY <1>1, <2>1 DEF Adds, First
<1>3. Folds(g, f, S)
  BY <1>2 DEF Folds
<1> QED
  BY <1>3

LEMMA ContributionsTotal ==
    ASSUME NEW S, IsFiniteSet(S), \A x \in S : Contribution(x) \in Int
    PROVE  MapThenSumSet(Contribution, S) = Total([x \in S |-> Contribution(x)], S)
<1> DEFINE f == [x \in S |-> Contribution(x)]
           iter == CHOOSE g : g = [T \in SUBSET S |-> IF T = {} THEN 0
                       ELSE Contribution(First(T)) + g[T \ {First(T)}]]
<1>1. MapThenSumSet(Contribution, S) = iter[S]
  BY DEF MapThenSumSet, MapThenFoldSet, First
<1>2. f \in [S -> Int] /\ \A T \in SUBSET S : T # {} => f[First(T)] = Contribution(First(T))
  BY DEF First
<1> HIDE DEF f
<1>3. PICK g : Folds(g, f, S)
  BY <1>2, FoldExists
<1>4. g = [T \in SUBSET S |-> IF T = {} THEN 0
                       ELSE Contribution(First(T)) + g[T \ {First(T)}]]
  BY <1>2, <1>3 DEF Folds
<1>5. iter = [T \in SUBSET S |-> IF T = {} THEN 0
                       ELSE Contribution(First(T)) + iter[T \ {First(T)}]]
  BY <1>4, Zenon
<1> HIDE DEF iter
<1>6. Folds(iter, f, S)
  BY <1>2, <1>5 DEF Folds
<1>7. iter[S] = Total(f, S)
  BY <1>2, <1>6, FoldIsTotal
<1> QED
  BY <1>1, <1>7 DEF f

LEMMA RunScoreTotal ==
    ASSUME NEW S, IsFiniteSet(Runs(S)),
           NEW f \in [Runs(S) -> Int],
           \A r \in Runs(S) : f[r] = MaxOf(0, WholeSeconds(r.start, r.end) - Grace)
    PROVE  RunScore(S) = Total(f, Runs(S))
<1> DEFINE op(r) == MaxOf(0, WholeSeconds(r.start, r.end) - Grace)
           R == Runs(S)
           iter == CHOOSE g : g = [T \in SUBSET R |-> IF T = {} THEN 0
                       ELSE op(First(T)) + g[T \ {First(T)}]]
<1>1. RunScore(S) = iter[R]
  BY DEF RunScore, MapThenSumSet, MapThenFoldSet, First
<1> HIDE DEF op, R
<1>2. f \in [R -> Int] /\ \A T \in SUBSET R : T # {} => f[First(T)] = op(First(T))
  BY DEF First, op, R
<1>3. PICK g : Folds(g, f, R)
  BY <1>2, FoldExists DEF R
<1>4. g = [T \in SUBSET R |-> IF T = {} THEN 0
                       ELSE op(First(T)) + g[T \ {First(T)}]]
  BY <1>2, <1>3 DEF Folds
<1>5. iter = [T \in SUBSET R |-> IF T = {} THEN 0
                       ELSE op(First(T)) + iter[T \ {First(T)}]]
  BY <1>4, Zenon
<1> HIDE DEF iter
<1>6. Folds(iter, f, R)
  BY <1>2, <1>5 DEF Folds
<1>7. iter[R] = Total(f, R)
  BY <1>2, <1>6, FoldIsTotal DEF R
<1> QED
  BY <1>1, <1>7 DEF R

LEMMA CandidateTotal ==
    ASSUME NEW S, IsFiniteSet(S), NEW asOf,
           NEW f \in [S -> Int],
           \A i \in S : f[i] = IntervalSeconds(i, asOf)
    PROVE  CandidateScore(S, asOf).score = Total(f, S)
<1> DEFINE op(i) == IntervalSeconds(i, asOf)
           iter == CHOOSE g : g = [T \in SUBSET S |-> IF T = {} THEN 0
                       ELSE op(First(T)) + g[T \ {First(T)}]]
<1>1. CandidateScore(S, asOf).score = iter[S]
  BY DEF CandidateScore, MapThenSumSet, MapThenFoldSet, First
<1> HIDE DEF op
<1>2. \A T \in SUBSET S : T # {} => f[First(T)] = op(First(T))
  BY DEF First, op
<1>3. PICK g : Folds(g, f, S)
  BY FoldExists
<1>4. g = [T \in SUBSET S |-> IF T = {} THEN 0
                       ELSE op(First(T)) + g[T \ {First(T)}]]
  BY <1>2, <1>3 DEF Folds
<1>5. iter = [T \in SUBSET S |-> IF T = {} THEN 0
                       ELSE op(First(T)) + iter[T \ {First(T)}]]
  BY <1>4, Zenon
<1> HIDE DEF iter
<1>6. Folds(iter, f, S)
  BY <1>2, <1>5 DEF Folds
<1>7. iter[S] = Total(f, S)
  BY <1>6, FoldIsTotal
<1> QED
  BY <1>1, <1>7

-----------------------------------------------------------------------------
(***************************************************************************)
(* The islands of the statement are the maximal runs of the reference.     *)
(***************************************************************************)

Segs == {g \in [start : Instants, end : Instants] : g.start < g.end}

LEMMA SegType ==
    ASSUME NEW g \in Segs
    PROVE  /\ g.start \in Nat /\ g.end \in Nat /\ g.start < g.end
           /\ g.start <= MaxInstant /\ g.end <= MaxInstant
           /\ g = [start |-> g.start, end |-> g.end]
BY DayAssumption DEF Segs, Instants

LEMMA SegIs ==
    ASSUME NEW s \in Nat, NEW e \in Nat, s < e, e <= MaxInstant
    PROVE  [start |-> s, end |-> e] \in Segs
BY DayAssumption DEF Segs, Instants

LEMMA SegsFinite == IsFiniteSet(Segs)
<1> DEFINE f == [p \in Instants \X Instants |-> [start |-> p[1], end |-> p[2]]]
           R == [start : Instants, end : Instants]
<1>1. IsFiniteSet(Instants)
  BY DayAssumption, FS_Interval DEF Instants
<1>2. IsFiniteSet(Instants \X Instants)
  BY <1>1, FS_Product
<1>3. f \in Surjection(Instants \X Instants, R)
  <2>1. f \in [Instants \X Instants -> R]
    OBVIOUS
  <2>2. ASSUME NEW r \in R
        PROVE  \E p \in Instants \X Instants : f[p] = r
    <3>1. <<r.start, r.end>> \in Instants \X Instants /\ f[<<r.start, r.end>>] = r
      OBVIOUS
    <3> QED
      BY <3>1
  <2> QED
    BY <2>1, <2>2 DEF Surjection
<1>4. IsFiniteSet(R)
  BY <1>2, <1>3, FS_Surjection
<1> QED
  BY <1>4, FS_Subset DEF Segs

LEMMA RunIs ==
    ASSUME NEW S \in SUBSET Segs, NEW r
    PROVE  r \in Runs(S) <=>
              /\ r \in Segs
              /\ \A t \in r.start .. r.end - 1 : \E g \in S : g.start <= t /\ t < g.end
              /\ \A t \in r.start .. r.end - 2 : \E g \in S : g.start <= t /\ t + 1 < g.end
              /\ \A g \in S : ~(g.start <= r.start - 1 /\ r.start < g.end)
              /\ \A g \in S : ~(g.start <= r.end - 1 /\ r.end < g.end)
<1>1. \A g \in Segs : g.start \in Nat /\ g.end \in Nat
  BY SegType
<1>2. r \in Segs => \A t \in r.start .. r.end - 1 : t \in Instants
  BY DayAssumption, SegType DEF Instants
<1>3. r \in Segs => r.start - 1 + 1 = r.start /\ r.end - 1 + 1 = r.end
  BY SegType
<1>4. r \in Runs(S) => r \in Segs
  BY DEF Runs, Segs
<1>5. ASSUME r \in Segs
      PROVE  r \in Runs(S) <=>
              /\ \A t \in r.start .. r.end - 1 : t \in Cells(S)
              /\ \A t \in r.start .. r.end - 2 : Joined(S, t)
              /\ ~Joined(S, r.start - 1)
              /\ ~Joined(S, r.end - 1)
  BY <1>5 DEF Runs, Segs
<1> SUFFICES ASSUME r \in Segs
             PROVE  r \in Runs(S) <=>
              /\ \A t \in r.start .. r.end - 1 : \E g \in S : g.start <= t /\ t < g.end
              /\ \A t \in r.start .. r.end - 2 : \E g \in S : g.start <= t /\ t + 1 < g.end
              /\ \A g \in S : ~(g.start <= r.start - 1 /\ r.start < g.end)
              /\ \A g \in S : ~(g.start <= r.end - 1 /\ r.end < g.end)
  BY <1>4
<1>6. (\A t \in r.start .. r.end - 1 : t \in Cells(S))
         <=> \A t \in r.start .. r.end - 1 : \E g \in S : g.start <= t /\ t < g.end
  BY <1>2 DEF Cells
<1>7. /\ Joined(S, r.start - 1) <=> \E g \in S : g.start <= r.start - 1 /\ r.start < g.end
      /\ Joined(S, r.end - 1) <=> \E g \in S : g.start <= r.end - 1 /\ r.end < g.end
  BY <1>3 DEF Joined
<1> QED
  BY <1>5, <1>6, <1>7 DEF Joined

\* Runs that share an instant are one.
LEMMA SameRun ==
    ASSUME NEW S \in SUBSET Segs, NEW r \in Runs(S), NEW s \in Runs(S), NEW t \in Nat,
           r.start <= t, t < r.end, s.start <= t, t < s.end
    PROVE  r = s
<1>1. ASSUME NEW u \in Runs(S), NEW v \in Runs(S),
             u.start <= t, t < u.end, v.start <= t, t < v.end
      PROVE  v.start <= u.start /\ u.end <= v.end
  <2>1. u \in Segs /\ v \in Segs
    BY RunIs
  <2>2. /\ u.start \in Nat /\ u.end \in Nat /\ v.start \in Nat /\ v.end \in Nat
        /\ \A g \in S : g.start \in Nat /\ g.end \in Nat
    BY <2>1, SegType
  <2>3. v.start <= u.start
    <3>1. SUFFICES ASSUME u.start < v.start
                   PROVE  FALSE
      BY <2>2
    <3>2. v.start - 1 \in u.start .. u.end - 2
      BY <1>1, <2>2, <3>1
    <3>3. PICK g \in S : g.start <= v.start - 1 /\ v.start - 1 + 1 < g.end
      BY <3>2, RunIs
    <3>4. v.start < g.end
      BY <2>2, <3>3
    <3> QED
      BY <3>3, <3>4, RunIs
  <2>4. u.end <= v.end
    <3>1. SUFFICES ASSUME v.end < u.end
                   PROVE  FALSE
      BY <2>2
    <3>2. v.end - 1 \in u.start .. u.end - 2
      BY <1>1, <2>2, <3>1
    <3>3. PICK g \in S : g.start <= v.end - 1 /\ v.end - 1 + 1 < g.end
      BY <3>2, RunIs
    <3>4. v.end < g.end
      BY <2>2, <3>3
    <3> QED
      BY <3>3, <3>4, RunIs
  <2> QED
    BY <2>3, <2>4
<1>2. r \in Segs /\ s \in Segs
  BY RunIs
<1>3. r.start = s.start /\ r.end = s.end
  BY <1>1, <1>2, SegType
<1> QED
  BY <1>2, <1>3, SegType

\* A run begins with a segment.
LEMMA RunBegins ==
    ASSUME NEW S \in SUBSET Segs, NEW r \in Runs(S)
    PROVE  \E g \in S : g.start = r.start
<1>1. r \in Segs /\ r.start \in Nat /\ r.end \in Nat /\ r.start < r.end
  BY RunIs, SegType
<1>2. PICK g \in S : g.start <= r.start /\ r.start < g.end
  BY <1>1, RunIs
<1>3. g.start \in Nat /\ ~(g.start <= r.start - 1)
  BY <1>2, RunIs, SegType
<1> QED
  BY <1>1, <1>2, <1>3

LEMMA PrecedesTotal ==
    ASSUME NEW g \in Segs, NEW h \in Segs
    PROVE  /\ g = h \/ Precedes(g, h) \/ Precedes(h, g)
           /\ ~(Precedes(g, h) /\ Precedes(h, g)) /\ ~Precedes(g, g)
           /\ Precedes(g, h) => g.start <= h.start
           /\ \A k \in Segs : Precedes(g, h) /\ Precedes(h, k) => Precedes(g, k)
<1>1. \A k \in Segs : k.start \in Nat /\ k.end \in Nat
  BY SegType
<1>2. g.start = h.start /\ g.end = h.end => g = h
  BY SegType
<1> QED
  BY <1>1, <1>2 DEF Precedes

LEMMA FirstOf ==
    ASSUME NEW M \in SUBSET Segs, M # {}
    PROVE  \E g \in M : \A h \in M : g = h \/ Precedes(g, h)
<1> DEFINE A == {g.start : g \in M}
<1>1. A \in SUBSET Nat /\ A # {}
  BY SegType
<1>2. PICK a \in A : \A b \in A : a <= b
  BY <1>1, LeastExists
<1> DEFINE B == {g.end : g \in {h \in M : h.start = a}}
<1>3. B \in SUBSET Nat /\ B # {}
  BY <1>2, SegType
<1>4. PICK e \in B : \A b \in B : e <= b
  BY <1>3, LeastExists
<1>5. PICK g \in M : g.start = a /\ g.end = e
  BY <1>4
<1>6. ASSUME NEW h \in M
      PROVE  g = h \/ Precedes(g, h)
  <2>1. a <= h.start /\ (h.start = a => e <= h.end)
    BY <1>2, <1>4
  <2>2. g \in Segs /\ h \in Segs
    OBVIOUS
  <2>3. ~Precedes(h, g)
    BY <1>5, <2>1, <2>2, SegType DEF Precedes
  <2> QED
    BY <2>2, <2>3, PrecedesTotal
<1> QED
  BY <1>6

\* Segments are of one island unless one starts between them.
LEMMA SameIsland ==
    ASSUME NEW S \in SUBSET Segs, NEW g \in S, NEW h \in S, g = h \/ Precedes(g, h)
    PROVE  IslandOf(S, g) = IslandOf(S, h) <=>
              ~\E k \in S : /\ StartsIsland(S, k)
                            /\ Precedes(g, k) /\ (k = h \/ Precedes(k, h))
<1> DEFINE upTo(x) == {k \in S : StartsIsland(S, k) /\ (k = x \/ Precedes(k, x))}
<1>1. IslandOf(S, g) = Cardinality(upTo(g)) /\ IslandOf(S, h) = Cardinality(upTo(h))
  BY DEF IslandOf
<1>2. upTo(g) \subseteq upTo(h)
  BY PrecedesTotal
<1>3. IsFiniteSet(upTo(h))
  BY SegsFinite, FS_Subset
<1>4. Cardinality(upTo(g)) = Cardinality(upTo(h)) <=> upTo(g) = upTo(h)
  BY <1>2, <1>3, FS_Subset
<1>5. upTo(h) \ upTo(g) = {k \in S : /\ StartsIsland(S, k)
                                     /\ Precedes(g, k) /\ (k = h \/ Precedes(k, h))}
  <2>1. \A k \in S : ~(k = g \/ Precedes(k, g)) <=> Precedes(g, k)
    BY PrecedesTotal
  <2> QED
    BY <2>1
<1> HIDE DEF upTo
<1>6. upTo(g) = upTo(h) <=> upTo(h) \ upTo(g) = {}
  BY <1>2
<1> QED
  BY <1>1, <1>4, <1>5, <1>6

Members(S, g) == {h \in S : IslandOf(S, h) = IslandOf(S, g)}

Span(M) == [start |-> Min({h.start : h \in M}), end |-> Max({h.end : h \in M})]

LEMMA SpanBounds ==
    ASSUME NEW M \in SUBSET Segs, M # {}
    PROVE  /\ Span(M) \in Segs
           /\ \A h \in M : Span(M).start <= h.start /\ h.end <= Span(M).end
           /\ \E h \in M : h.start = Span(M).start
           /\ \E h \in M : h.end = Span(M).end
<1> DEFINE A == {h.start : h \in M}
           B == {h.end : h \in M}
<1>1. A \in SUBSET Nat /\ A # {} /\ B \in SUBSET Nat /\ B # {} /\ \A n \in B : n <= MaxInstant
  BY SegType
<1>2. Min(A) \in A /\ \A n \in A : Min(A) <= n
  BY <1>1, LeastIsMin
<1>3. Max(B) \in B /\ \A n \in B : Max(B) >= n
  BY <1>1, DayAssumption, GreatestIsMax
<1>4. Span(M) = [start |-> Min(A), end |-> Max(B)]
  BY DEF Span
<1>5. /\ \A h \in M : Min(A) <= h.start /\ h.end <= Max(B)
      /\ \E h \in M : h.start = Min(A)
      /\ \E h \in M : h.end = Max(B)
  <2>1. \A h \in M : h.start \in A /\ h.end \in B /\ h.end \in Nat
    BY SegType
  <2>2. Max(B) \in Nat
    BY <1>1, <1>3
  <2> HIDE DEF A, B
  <2>3. \A h \in M : Min(A) <= h.start /\ h.end <= Max(B)
    BY <1>2, <1>3, <2>1, <2>2
  <2> QED
    BY <1>2, <1>3, <2>3 DEF A, B
<1>6. Min(A) \in Nat /\ Max(B) \in Nat /\ Min(A) < Max(B) /\ Max(B) <= MaxInstant
  <2>1. Min(A) \in Nat /\ Max(B) \in Nat /\ Max(B) <= MaxInstant
    BY <1>1, <1>2, <1>3
  <2> HIDE DEF A, B
  <2> QED
    BY <2>1, <1>5, SegType
<1> HIDE DEF A, B
<1> QED
  BY <1>4, <1>5, <1>6, SegIs

\* The first of an island is the only one that starts it, and what lies
\* between two of an island is of it.
LEMMA IslandBegins ==
    ASSUME NEW S \in SUBSET Segs, NEW g \in S
    PROVE  \E k \in Members(S, g) :
              /\ StartsIsland(S, k)
              /\ \A h \in Members(S, g) : /\ h = k \/ Precedes(k, h)
                                          /\ StartsIsland(S, h) => h = k
                                          /\ \A j \in S : Precedes(k, j) /\ Precedes(j, h)
                                                => j \in Members(S, g)
<1> DEFINE M == Members(S, g)
<1>1. M \in SUBSET Segs /\ M # {} /\ M \subseteq S
  BY DEF Members
<1>2. PICK k \in M : \A h \in M : k = h \/ Precedes(k, h)
  BY <1>1, FirstOf
<1>3. \A h, j \in S : h \in M /\ IslandOf(S, j) = IslandOf(S, h) => j \in M
  BY DEF Members
<1>4. \A h, j \in M : IslandOf(S, h) = IslandOf(S, j)
  BY DEF Members
<1> HIDE DEF M
<1>5. k \in S
  BY <1>1, <1>2
<1>6. StartsIsland(S, k)
  <2> SUFFICES ASSUME NEW h \in S, Precedes(h, k), ~(k.start >= h.end)
               PROVE  FALSE
    BY DEF StartsIsland, Before
  <2>1. h \notin M
    BY <1>2, <1>5, PrecedesTotal
  <2>2. PICK j \in S : StartsIsland(S, j) /\ Precedes(h, j) /\ (j = k \/ Precedes(j, k))
    BY <1>2, <1>3, <1>5, <2>1, SameIsland
  <2>3. j.start >= h.end /\ j.start <= k.start
    BY <1>5, <2>2, SegType, PrecedesTotal DEF StartsIsland, Before
  <2> QED
    BY <1>5, <2>3, SegType
<1>7. ASSUME NEW h \in M, StartsIsland(S, h)
      PROVE  h = k
  <2>1. h \in S /\ (k = h \/ Precedes(k, h)) /\ IslandOf(S, k) = IslandOf(S, h)
    BY <1>1, <1>2, <1>4
  <2> QED
    BY <1>5, <1>7, <2>1, SameIsland
<1>8. ASSUME NEW h \in M, NEW j \in S, Precedes(k, j), Precedes(j, h)
      PROVE  j \in M
  <2>1. h \in S /\ (k = h \/ Precedes(k, h)) /\ IslandOf(S, k) = IslandOf(S, h)
    BY <1>1, <1>2, <1>4
  <2>2. SUFFICES ASSUME IslandOf(S, k) # IslandOf(S, j)
                 PROVE  FALSE
    BY <1>2, <1>3, <1>5
  <2>3. PICK i \in S : StartsIsland(S, i) /\ Precedes(k, i) /\ (i = j \/ Precedes(i, j))
    BY <1>5, <1>8, <2>2, SameIsland
  <2>4. i = h \/ Precedes(i, h)
    BY <1>8, <2>1, <2>3, PrecedesTotal
  <2> QED
    BY <1>5, <2>1, <2>3, <2>4, SameIsland
<1> QED
  BY <1>2, <1>6, <1>7, <1>8 DEF M

LEMMA IslandIsRun ==
    ASSUME NEW S \in SUBSET Segs, NEW g \in S
    PROVE  /\ Span(Members(S, g)) \in Runs(S)
           /\ Span(Members(S, g)).start <= g.start
           /\ g.end <= Span(Members(S, g)).end
<1> DEFINE M == Members(S, g)
           I == Span(M)
<1>1. M \in SUBSET Segs /\ M # {} /\ M \subseteq S /\ g \in M
  BY DEF Members
<1>2. PICK k \in M : /\ StartsIsland(S, k)
                     /\ \A h \in M : /\ h = k \/ Precedes(k, h)
                                     /\ StartsIsland(S, h) => h = k
                                     /\ \A j \in S : Precedes(k, j) /\ Precedes(j, h) => j \in M
  BY IslandBegins
<1>3. /\ I \in Segs
      /\ \A h \in M : I.start <= h.start /\ h.end <= I.end
      /\ \E h \in M : h.start = I.start
      /\ \E h \in M : h.end = I.end
  BY <1>1, SpanBounds
<1> HIDE DEF M, I
<1>4. /\ \A h \in S : h \in Segs /\ h.start \in Nat /\ h.end \in Nat /\ h.start < h.end
      /\ I.start \in Nat /\ I.end \in Nat /\ I.start < I.end
      /\ k \in S
  BY <1>1, <1>2, <1>3, SegType
<1>5. k.start = I.start
  <2>1. PICK h \in M : h.start = I.start
    BY <1>3
  <2>2. k.start <= h.start
    BY <1>1, <1>2, <1>4, <2>1, PrecedesTotal
  <2> QED
    BY <1>1, <1>2, <1>3, <1>4, <2>1, <2>2
<1>6. PICK p \in M : p.end = I.end
  BY <1>3
<1>7. ASSUME NEW h \in S, Precedes(h, k)
      PROVE  h.end <= I.start
  BY <1>2, <1>4, <1>5, <1>7 DEF StartsIsland, Before
<1>8. ASSUME NEW t \in I.start .. I.end - 2
      PROVE  \E h \in S : h.start <= t /\ t + 1 < h.end
  <2>1. t \in Nat /\ I.start <= t /\ t + 1 < I.end
    BY <1>4
  <2>2. CASE p.start <= t
    BY <1>1, <1>6, <2>1, <2>2
  <2>3. CASE t < p.start
    <3> DEFINE A == {h \in M : t < h.start}
    <3>1. A \in SUBSET Segs /\ A # {}
      BY <1>1, <1>6, <2>3
    <3>2. PICK q \in A : \A h \in A : q = h \/ Precedes(q, h)
      BY <3>1, FirstOf
    <3>3. q \in M /\ q \in S /\ t < q.start
      BY <1>1, <3>2
    <3>4. q # k
      BY <1>4, <1>5, <2>1, <3>3
    <3>5. ~StartsIsland(S, q)
      BY <1>2, <3>3, <3>4
    <3>6. PICK h \in S : Precedes(h, q) /\ ~(q.start >= h.end)
      BY <3>5 DEF StartsIsland, Before
    <3>7. q.start < h.end
      BY <1>4, <3>3, <3>6
    <3>8. ~Precedes(h, k)
      BY <1>4, <1>7, <2>1, <3>3, <3>7
    <3>9. h \in M
      BY <1>1, <1>2, <1>4, <3>3, <3>6, <3>8, PrecedesTotal
    <3>10. h \notin A
      BY <1>4, <3>2, <3>3, <3>6, PrecedesTotal
    <3>11. h.start <= t /\ t + 1 < h.end
      BY <1>4, <2>1, <3>3, <3>7, <3>9, <3>10
    <3> QED
      BY <3>11
  <2> QED
    BY <1>1, <1>4, <1>6, <2>1, <2>2, <2>3
<1>9. ASSUME NEW t \in I.start .. I.end - 1
      PROVE  \E h \in S : h.start <= t /\ t < h.end
  <2>1. t \in Nat /\ I.start <= t /\ t < I.end
    BY <1>4
  <2>2. CASE t = I.start
    BY <1>4, <1>5, <2>2
  <2>3. CASE t # I.start
    <3>1. t - 1 \in I.start .. I.end - 2 /\ t - 1 + 1 = t /\ t - 1 < t
      BY <1>4, <2>1, <2>3
    <3>2. PICK h \in S : h.start <= t - 1 /\ t - 1 + 1 < h.end
      BY <1>8, <3>1
    <3> QED
      BY <1>4, <2>1, <3>1, <3>2
  <2> QED
    BY <2>2, <2>3
<1>10. ASSUME NEW h \in S
       PROVE  ~(h.start <= I.start - 1 /\ I.start < h.end)
  <2>1. h.start < k.start => Precedes(h, k)
    BY DEF Precedes
  <2> QED
    BY <1>4, <1>5, <1>7, <2>1
<1>11. ASSUME NEW h \in S
       PROVE  ~(h.start <= I.end - 1 /\ I.end < h.end)
  <2> SUFFICES ASSUME h.start <= I.end - 1, I.end < h.end
               PROVE  FALSE
    OBVIOUS
  <2>1. h \notin M
    BY <1>1, <1>3, <1>4
  <2>2. ~Precedes(h, k) /\ h # k
    BY <1>2, <1>4, <1>7, <2>1
  <2>3. ~Precedes(h, p)
    BY <1>2, <1>4, <1>6, <2>1, <2>2, PrecedesTotal
  <2>4. p \in S /\ h # p /\ Precedes(p, h)
    BY <1>1, <1>4, <1>6, <2>1, <2>3, PrecedesTotal
  <2>5. IslandOf(S, p) # IslandOf(S, h)
    BY <1>6, <2>1 DEF M, Members
  <2>6. PICK j \in S : StartsIsland(S, j) /\ Precedes(p, j) /\ (j = h \/ Precedes(j, h))
    BY <2>4, <2>5, SameIsland
  <2>7. j.start >= p.end /\ j.start <= h.start
    BY <1>4, <2>4, <2>6, PrecedesTotal DEF StartsIsland, Before
  <2> QED
    BY <1>4, <1>6, <2>6, <2>7
<1>12. I \in Runs(S)
  BY <1>3, <1>8, <1>9, <1>10, <1>11, RunIs
<1> QED
  BY <1>1, <1>3, <1>12 DEF I, M

LEMMA IslandsAreRuns ==
    ASSUME NEW S \in SUBSET Segs
    PROVE  Islands(S) = Runs(S)
<1>1. Islands(S) = {Span(Members(S, g)) : g \in S}
  BY DEF Islands, Span, Members
<1>2. ASSUME NEW r \in Runs(S)
      PROVE  \E g \in S : r = Span(Members(S, g))
  <2>1. PICK g \in S : g.start = r.start
    BY RunBegins
  <2> DEFINE s == Span(Members(S, g))
  <2>2. s \in Runs(S) /\ s.start <= g.start /\ g.end <= s.end
    BY IslandIsRun
  <2> HIDE DEF s
  <2>3. g \in Segs /\ r \in Segs /\ s \in Segs
    BY <2>2, RunIs
  <2>4. g.start \in Nat /\ r.start < r.end /\ g.start < s.end
    BY <2>2, <2>3, SegType
  <2>5. r = s
    BY <2>1, <2>2, <2>3, <2>4, SegType, SameRun
  <2> QED
    BY <2>5 DEF s
<1> QED
  BY <1>1, <1>2, IslandIsRun

\* Every segment lies in a run.
LEMMA InRun ==
    ASSUME NEW S \in SUBSET Segs, NEW g \in S
    PROVE  \E r \in Runs(S) : r.start <= g.start /\ g.end <= r.end
BY IslandIsRun

-----------------------------------------------------------------------------
(***************************************************************************)
(* What a stretch of time pays beyond the grace.                           *)
(***************************************************************************)

Paid(s, e) == MaxOf(WholeSeconds(s, e) - Grace, 0)

LEMMA Products ==
    ASSUME NEW m \in Int, NEW n \in Int
    PROVE  /\ m * Second \in Int
           /\ m <= n => m * Second <= n * Second
           /\ (m + n) * Second = m * Second + n * Second
           /\ m \in Nat => m * Second \in Nat
<1>1. Second \in Nat /\ Second > 0
  BY ScoringAssumption
<1> QED
  BY <1>1

LEMMA Quotient ==
    ASSUME NEW x \in Int
    PROVE  /\ x \div Second \in Int
           /\ (x \div Second) * Second <= x
           /\ x < (x \div Second + 1) * Second
<1>1. Second \in Nat /\ Second > 0
  BY ScoringAssumption
<1> QED
  BY <1>1

LEMMA PaidIs ==
    ASSUME NEW s \in Int, NEW e \in Int
    PROVE  /\ Paid(s, e) \in Nat
           /\ \A k \in Nat \ {0} : Paid(s, e) >= k <=> e >= s + (Grace + k) * Second
           /\ Paid(s, e) >= WholeSeconds(s, e) - Grace
           /\ WholeSeconds(s, e) \in Int
<1> DEFINE q == (e - s) \div Second
<1>1. /\ q \in Int /\ q * Second <= e - s /\ e - s < (q + 1) * Second
      /\ WholeSeconds(s, e) = q /\ Grace \in Nat /\ Second \in Nat
  BY Quotient, ScoringAssumption DEF WholeSeconds
<1> HIDE DEF q
<1>2. /\ Paid(s, e) \in Nat /\ Paid(s, e) >= WholeSeconds(s, e) - Grace
      /\ \A k \in Nat \ {0} : Paid(s, e) >= k <=> q >= Grace + k
  BY <1>1 DEF Paid, MaxOf
<1>3. ASSUME NEW k \in Nat \ {0}
      PROVE  q >= Grace + k <=> e >= s + (Grace + k) * Second
  <2> DEFINE n == Grace + k
  <2>1. n \in Int /\ n * Second \in Int /\ q * Second \in Int /\ (q + 1) * Second \in Int
    BY <1>1, Products
  <2>2. n <= q => n * Second <= q * Second
    BY <1>1, <2>1, Products
  <2>3. q + 1 <= n => (q + 1) * Second <= n * Second
    BY <1>1, <2>1, Products
  <2> HIDE DEF n
  <2>4. q >= n <=> e >= s + n * Second
    BY <1>1, <2>1, <2>2, <2>3
  <2> QED
    BY <2>4 DEF n
<1> QED
  BY <1>1, <1>2, <1>3

LEMMA PaidMonotone ==
    ASSUME NEW s \in Int, NEW e \in Int, NEW u \in Int, NEW v \in Int, u <= s, e <= v
    PROVE  Paid(s, e) <= Paid(u, v)
<1> DEFINE k == Paid(s, e)
<1>1. k \in Nat /\ Paid(u, v) \in Nat
  BY PaidIs
<1>2. CASE k = 0
  BY <1>1, <1>2
<1>3. CASE k # 0
  <2>1. e >= s + (Grace + k) * Second /\ (Grace + k) * Second \in Int
    <3>1. k \in Nat \ {0} /\ k >= k /\ Grace + k \in Int
      BY <1>1, <1>3, ScoringAssumption
    <3>2. (Grace + k) * Second \in Int
      BY <3>1, Products
    <3> QED
      BY <3>1, <3>2, PaidIs
  <2> HIDE DEF k
  <2>2. v >= u + (Grace + k) * Second
    BY <2>1
  <2>3. Paid(u, v) >= k
    BY <1>1, <1>3, <2>2, PaidIs
  <2> QED
    BY <1>1, <2>3 DEF k
<1> QED
  BY <1>2, <1>3

\* One stretch pays at least what two within it pay, each with its own grace.
LEMMA PaidTogether ==
    ASSUME NEW a \in Int, NEW b \in Int, NEW c \in Int, a <= b, b <= c
    PROVE  Paid(a, b) + Paid(b, c) <= Paid(a, c)
<1> DEFINE m == Paid(a, b)
           n == Paid(b, c)
<1>1. m \in Nat /\ n \in Nat /\ Paid(a, c) \in Nat /\ Grace \in Nat
  BY PaidIs, ScoringAssumption
<1>2. m <= Paid(a, c) /\ n <= Paid(a, c)
  BY PaidMonotone
<1>3. CASE m # 0 /\ n # 0
  <2>1. b >= a + (Grace + m) * Second /\ c >= b + (Grace + n) * Second
    <3>1. m \in Nat \ {0} /\ n \in Nat \ {0} /\ m >= m /\ n >= n
      BY <1>1, <1>3
    <3> QED
      BY <3>1, PaidIs
  <2> HIDE DEF m, n
  <2>2. /\ (Grace + m) * Second \in Int /\ (Grace + n) * Second \in Int
        /\ (Grace + (m + n)) * Second \in Int
    <3>1. Grace + m \in Int /\ Grace + n \in Int /\ Grace + (m + n) \in Int
      BY <1>1
    <3> QED
      BY <3>1, Products
  <2>3. (Grace + (m + n)) * Second <= (Grace + m) * Second + (Grace + n) * Second
    <3>1. /\ ((Grace + m) + (Grace + n)) * Second = (Grace + m) * Second + (Grace + n) * Second
          /\ Grace + (m + n) <= (Grace + m) + (Grace + n)
          /\ Grace + (m + n) \in Int /\ (Grace + m) + (Grace + n) \in Int
      BY <1>1, Products
    <3> QED
      BY <3>1, Products
  <2>4. c >= a + (Grace + (m + n)) * Second
    BY <2>1, <2>2, <2>3
  <2>5. m + n \in Nat \ {0}
    BY <1>1, <1>3
  <2>6. Paid(a, c) >= m + n
    BY <2>4, <2>5, PaidIs
  <2> QED
    BY <1>1, <2>6 DEF m, n
<1> QED
  BY <1>1, <1>2, <1>3

LEMMA ContributionIsPaid ==
    ASSUME NEW r \in Segs
    PROVE  /\ Contribution(r) = Paid(r.start, r.end)
           /\ Contribution(r) \in Nat
           /\ MaxOf(0, WholeSeconds(r.start, r.end) - Grace) = Paid(r.start, r.end)
<1> DEFINE w == WholeSeconds(r.start, r.end)
<1>1. r.start \in Int /\ r.end \in Int
  BY SegType
<1>2. w \in Int /\ Grace \in Int
  <2>1. \A s, e \in Int : WholeSeconds(s, e) \in Int
    BY PaidIs
  <2>2. Grace \in Int
    BY ScoringAssumption
  <2> QED
    BY <1>1, <2>1, <2>2
<1>3. Contribution(r) = MaxOf(w - Grace, 0) /\ Paid(r.start, r.end) = MaxOf(w - Grace, 0)
  BY DEF Contribution, Paid
<1> HIDE DEF w
<1>4. MaxOf(w - Grace, 0) \in Nat /\ MaxOf(0, w - Grace) = MaxOf(w - Grace, 0)
  BY <1>2 DEF MaxOf
<1> QED
  BY <1>3, <1>4 DEF w

\* The sums of the model over the runs.
PaidOf(S) == [r \in Runs(S) |-> Paid(r.start, r.end)]

LEMMA RunsFinite ==
    ASSUME NEW S \in SUBSET Segs
    PROVE  /\ Runs(S) \in SUBSET Segs /\ IsFiniteSet(Runs(S))
           /\ PaidOf(S) \in [Runs(S) -> Nat]
<1>1. Runs(S) \in SUBSET Segs
  BY RunIs
<1>2. \A r \in Runs(S) : Paid(r.start, r.end) \in Nat
  BY <1>1, ContributionIsPaid
<1> QED
  BY <1>1, <1>2, SegsFinite, FS_Subset DEF PaidOf

LEMMA SlackedIs ==
    ASSUME NEW S \in SUBSET Segs
    PROVE  /\ Slacked(S) = Total(PaidOf(S), Runs(S))
           /\ RunScore(S) = Total(PaidOf(S), Runs(S))
           /\ Slacked(S) \in Nat
<1>1. Islands(S) = Runs(S) /\ IsFiniteSet(Runs(S)) /\ PaidOf(S) \in [Runs(S) -> Nat]
  BY IslandsAreRuns, RunsFinite
<1>2. ASSUME NEW r \in Runs(S)
      PROVE  /\ Contribution(r) = PaidOf(S)[r] /\ Contribution(r) \in Int
             /\ PaidOf(S)[r] = MaxOf(0, WholeSeconds(r.start, r.end) - Grace)
  BY RunsFinite, ContributionIsPaid DEF PaidOf
<1>3. Slacked(S) = Total(PaidOf(S), Runs(S))
  <2>1. [r \in Runs(S) |-> Contribution(r)] = PaidOf(S)
    BY <1>2 DEF PaidOf
  <2>2. MapThenSumSet(Contribution, Runs(S)) = Total([r \in Runs(S) |-> Contribution(r)], Runs(S))
    BY <1>1, <1>2, ContributionsTotal
  <2> QED
    BY <1>1, <2>1, <2>2 DEF Slacked
<1>4. RunScore(S) = Total(PaidOf(S), Runs(S))
  <2>1. PaidOf(S) \in [Runs(S) -> Int]
    BY <1>1
  <2> QED
    BY <1>1, <1>2, <2>1, RunScoreTotal
<1>5. Total(PaidOf(S), Runs(S)) \in Nat
  <2>1. CASE Runs(S) = {}
    <3>1. Total(PaidOf(S), {}) = 0
      BY <1>1, TotalAdds
    <3> QED
      BY <2>1, <3>1
  <2>2. CASE Runs(S) # {}
    BY <1>1, <2>2, TermInTotal
  <2> QED
    BY <2>1, <2>2
<1> QED
  BY <1>3, <1>4, <1>5

LEMMA PaidNothing ==
    ASSUME NEW s \in Int, NEW e \in Int, e <= s
    PROVE  Paid(s, e) = 0
<1>1. Paid(s, e) \in Nat
  BY PaidIs
<1>2. SUFFICES ASSUME Paid(s, e) >= 1
               PROVE  FALSE
  BY <1>1
<1>3. e >= s + (Grace + 1) * Second
  <2>1. 1 \in Nat \ {0}
    OBVIOUS
  <2> QED
    BY <1>2, <2>1, PaidIs
<1>4. (Grace + 1) * Second \in Int /\ 1 * Second <= (Grace + 1) * Second /\ 1 * Second > 0
  <2>1. Grace + 1 \in Int /\ 1 <= Grace + 1 /\ 1 \in Int /\ Second > 0
    BY ScoringAssumption
  <2>2. (Grace + 1) * Second \in Int /\ 1 * Second <= (Grace + 1) * Second
    BY <2>1, Products
  <2> QED
    BY <2>1, <2>2, ScoringAssumption
<1>5. 1 * Second \in Int
  BY Products
<1> QED
  BY <1>3, <1>4, <1>5

\* A stretch pays what it pays from a certain instant of it on.
LEMMA PaidSince ==
    ASSUME NEW s \in Nat, NEW e \in Nat, Paid(s, e) > 0, NEW t \in Nat
    PROVE  /\ s + (Grace + Paid(s, e)) * Second \in Nat
           /\ s + (Grace + Paid(s, e)) * Second <= e
           /\ Paid(s, MinOf(e, t)) = Paid(s, e) <=> t >= s + (Grace + Paid(s, e)) * Second
<1> DEFINE k == Paid(s, e)
           n == (Grace + k) * Second
           m == MinOf(e, t)
<1>1. s \in Int /\ e \in Int /\ k \in Nat \ {0} /\ k >= k /\ Grace \in Nat
  <2>1. Paid(s, e) \in Nat
    BY PaidIs
  <2> QED
    BY <2>1, ScoringAssumption
<1>2. n \in Nat
  <2>1. Grace + k \in Nat
    BY <1>1
  <2> HIDE DEF k
  <2> QED
    BY <2>1, Products
<1>3. m \in Nat /\ m \in Int /\ (m = e \/ m = t) /\ m <= e /\ m <= t
  BY DEF MinOf
<1>4. ASSUME NEW x \in Int
      PROVE  Paid(s, x) >= k <=> x >= s + n
  <2>1. \A i \in Nat \ {0} : Paid(s, x) >= i <=> x >= s + (Grace + i) * Second
    BY <1>1, PaidIs
  <2> HIDE DEF k
  <2>2. Paid(s, x) >= k <=> x >= s + (Grace + k) * Second
    BY <1>1, <2>1
  <2> QED
    BY <2>2
<1>5. Paid(s, m) \in Nat /\ Paid(s, m) <= k
  <2> HIDE DEF m
  <2>1. Paid(s, m) \in Nat
    BY <1>1, <1>3, PaidIs
  <2>2. s <= s
    BY <1>1
  <2> QED
    BY <1>1, <1>3, <2>1, <2>2, PaidMonotone
<1>6. (k >= k <=> e >= s + n) /\ (Paid(s, m) >= k <=> m >= s + n)
  <2> HIDE DEF m, n
  <2> QED
    BY <1>1, <1>3, <1>4
<1>7. k >= k
  BY <1>1
<1> HIDE DEF n, m
<1>8. s + n \in Nat /\ s + n <= e /\ (Paid(s, m) >= k <=> t >= s + n)
  BY <1>2, <1>3, <1>6, <1>7
<1> HIDE DEF k
<1>9. Paid(s, m) = k <=> t >= s + n
  BY <1>1, <1>5, <1>8
<1> QED
  BY <1>8, <1>9 DEF k, n, m

-----------------------------------------------------------------------------
(***************************************************************************)
(* Segments that do not overlap are the runs.                              *)
(***************************************************************************)
LEMMA DisjointRuns ==
    ASSUME NEW S \in SUBSET Segs,
           \A g, h \in S : g # h => g.end <= h.start \/ h.end <= g.start
    PROVE  Runs(S) = S
<1>1. ASSUME NEW g \in S
      PROVE  g \in Runs(S)
  <2>1. /\ g \in Segs /\ g.start \in Nat /\ g.end \in Nat /\ g.start < g.end
        /\ \A h \in S : h.start \in Nat /\ h.end \in Nat /\ h.start < h.end
    BY SegType
  <2>2. ASSUME NEW t \in g.start .. g.end - 1
        PROVE  g.start <= t /\ t < g.end
    BY <2>1
  <2>3. ASSUME NEW t \in g.start .. g.end - 2
        PROVE  g.start <= t /\ t + 1 < g.end
    BY <2>1
  <2>4. \A h \in S : ~(h.start <= g.start - 1 /\ g.start < h.end)
    BY <2>1
  <2>5. \A h \in S : ~(h.start <= g.end - 1 /\ g.end < h.end)
    BY <2>1
  <2> QED
    BY <2>1, <2>2, <2>3, <2>4, <2>5, RunIs
<1>2. ASSUME NEW r \in Runs(S)
      PROVE  r \in S
  <2>1. PICK g \in S : g.start = r.start
    BY RunBegins
  <2>2. g \in Runs(S) /\ g \in Segs /\ r \in Segs
    BY <1>1, RunIs
  <2>3. r.start \in Nat /\ r.start < r.end /\ g.start < g.end
    BY <2>2, SegType
  <2>4. g = r
    BY <2>1, <2>2, <2>3, SameRun
  <2> QED
    BY <2>4
<1> QED
  BY <1>1, <1>2

-----------------------------------------------------------------------------
(***************************************************************************)
(* The ledger as it stood at t: its runs are cut at t, and they had paid   *)
(* all that they pay from the instant on that the statement returns.       *)
(***************************************************************************)
Cut(r, t) == [start |-> r.start, end |-> MinOf(r.end, t)]

LEMMA CutIs ==
    ASSUME NEW r \in Segs, NEW t \in Instants, r.start < t
    PROVE  /\ Cut(r, t) \in Segs
           /\ Cut(r, t).start = r.start /\ Cut(r, t).end <= t /\ Cut(r, t).end <= r.end
           /\ Cut(r, t).end = t \/ Cut(r, t).end = r.end
<1>1. t \in Nat /\ t <= MaxInstant
  BY DayAssumption DEF Instants
<1>2. r.start \in Nat /\ r.end \in Nat /\ r.start < r.end /\ r.end <= MaxInstant
  BY SegType
<1>3. /\ MinOf(r.end, t) \in Nat /\ r.start < MinOf(r.end, t) /\ MinOf(r.end, t) <= MaxInstant
      /\ MinOf(r.end, t) <= t /\ MinOf(r.end, t) <= r.end
      /\ MinOf(r.end, t) = t \/ MinOf(r.end, t) = r.end
  BY <1>1, <1>2 DEF MinOf
<1> QED
  BY <1>2, <1>3, SegIs DEF Cut

LEMMA UntilIs ==
    ASSUME NEW S \in SUBSET Segs, NEW t \in Instants
    PROVE  /\ Until(S, t) = {Cut(g, t) : g \in {h \in S : h.start < t}}
           /\ Until(S, t) \in SUBSET Segs
<1>1. \A g \in S : Cut(g, t).end > Cut(g, t).start <=> g.start < t
  <2> SUFFICES ASSUME NEW g \in S
               PROVE  MinOf(g.end, t) > g.start <=> g.start < t
    BY DEF Cut
  <2>1. t \in Nat /\ g.start \in Nat /\ g.end \in Nat /\ g.start < g.end
    BY SegType, DayAssumption DEF Instants
  <2> QED
    BY <2>1 DEF MinOf
<1>2. Until(S, t) = {c \in {Cut(g, t) : g \in S} : c.end > c.start}
  BY DEF Until, Cut
<1>3. Until(S, t) = {Cut(g, t) : g \in {h \in S : h.start < t}}
  BY <1>1, <1>2
<1> QED
  BY <1>3, CutIs

LEMMA CutRunIsRun ==
    ASSUME NEW S \in SUBSET Segs, NEW t \in Instants, NEW r \in Runs(S), r.start < t
    PROVE  Cut(r, t) \in Runs(Until(S, t))
<1> DEFINE U == Until(S, t)
           c == Cut(r, t)
<1>1. r \in Segs /\ \A g \in S : g \in Segs
  BY RunIs
<1>2. /\ \A g \in S : g.start \in Nat /\ g.end \in Nat /\ g.start < g.end
      /\ r.start \in Nat /\ r.end \in Nat /\ t \in Nat
  BY <1>1, SegType, DayAssumption DEF Instants
<1>3. c \in Segs /\ c.start = r.start /\ c.end <= t /\ c.end <= r.end /\ (c.end = t \/ c.end = r.end)
  BY <1>1, CutIs
<1>4. U \in SUBSET Segs /\ \A h \in U : \E g \in S : g.start < t /\ h = Cut(g, t)
  BY UntilIs
<1>5. ASSUME NEW g \in S, NEW u \in Nat, NEW v \in Nat, g.start <= u, u <= v, v < g.end, v < t
      PROVE  \E h \in U : h.start <= u /\ v < h.end
  <2>1. g.start < t
    BY <1>2, <1>5
  <2>2. Cut(g, t) \in U /\ Cut(g, t).start = g.start /\ (Cut(g, t).end = t \/ Cut(g, t).end = g.end)
    BY <1>1, <2>1, CutIs, UntilIs
  <2> QED
    BY <1>2, <1>5, <2>2
<1>6. \A h \in U : \E g \in S : g.start = h.start /\ h.end <= t /\ h.end <= g.end
  BY <1>1, <1>4, CutIs
<1> HIDE DEF U, c
<1>7. c.start \in Nat /\ c.end \in Nat /\ \A h \in U : h.start \in Nat /\ h.end \in Nat
  BY <1>3, <1>4, SegType
<1>8. ASSUME NEW u \in c.start .. c.end - 1
      PROVE  \E h \in U : h.start <= u /\ u < h.end
  <2>1. u \in Nat /\ u \in r.start .. r.end - 1 /\ u < t
    BY <1>2, <1>3, <1>7
  <2>2. PICK g \in S : g.start <= u /\ u < g.end
    BY <2>1, RunIs
  <2> QED
    BY <1>5, <2>1, <2>2
<1>9. ASSUME NEW u \in c.start .. c.end - 2
      PROVE  \E h \in U : h.start <= u /\ u + 1 < h.end
  <2>1. u \in Nat /\ u \in r.start .. r.end - 2 /\ u + 1 < t /\ u + 1 \in Nat /\ u <= u + 1
    BY <1>2, <1>3, <1>7
  <2>2. PICK g \in S : g.start <= u /\ u + 1 < g.end
    BY <2>1, RunIs
  <2> QED
    BY <1>5, <2>1, <2>2
<1>10. ASSUME NEW h \in U
       PROVE  ~(h.start <= c.start - 1 /\ c.start < h.end)
  <2>1. PICK g \in S : g.start = h.start /\ h.end <= t /\ h.end <= g.end
    BY <1>6
  <2>2. ~(g.start <= r.start - 1 /\ r.start < g.end)
    BY RunIs
  <2> QED
    BY <1>2, <1>3, <1>7, <2>1, <2>2
<1>11. ASSUME NEW h \in U
       PROVE  ~(h.start <= c.end - 1 /\ c.end < h.end)
  <2>1. PICK g \in S : g.start = h.start /\ h.end <= t /\ h.end <= g.end
    BY <1>6
  <2>2. ~(g.start <= r.end - 1 /\ r.end < g.end)
    BY RunIs
  <2> QED
    BY <1>2, <1>3, <1>7, <2>1, <2>2
<1>12. c \in Runs(U)
  BY <1>3, <1>4, <1>8, <1>9, <1>10, <1>11, RunIs
<1> QED
  BY <1>12 DEF c, U

LEMMA CutRuns ==
    ASSUME NEW S \in SUBSET Segs, NEW t \in Instants, NEW c \in Runs(Until(S, t))
    PROVE  \E r \in Runs(S) : r.start < t /\ c = Cut(r, t)
<1>1. Until(S, t) \in SUBSET Segs
  BY UntilIs
<1>2. PICK h \in Until(S, t) : h.start = c.start
  BY <1>1, RunBegins
<1>3. PICK g \in S : g.start < t /\ h = Cut(g, t)
  BY <1>2, UntilIs
<1>4. PICK r \in Runs(S) : r.start <= g.start /\ g.end <= r.end
  BY InRun
<1>5. /\ g \in Segs /\ r \in Segs /\ c \in Segs
  BY <1>1, RunIs
<1>6. /\ t \in Nat /\ r.start \in Nat /\ r.end \in Nat /\ g.start \in Nat /\ g.end \in Nat
      /\ g.start < g.end /\ c.start < c.end
  BY <1>5, SegType, DayAssumption DEF Instants
<1>7. r.start < t /\ h.start = g.start
  BY <1>3, <1>4, <1>5, <1>6, CutIs
<1> DEFINE d == Cut(r, t)
<1>8. d \in Runs(Until(S, t)) /\ d.start = r.start /\ (d.end = t \/ d.end = r.end)
  BY <1>5, <1>7, CutRunIsRun, CutIs
<1> HIDE DEF d
<1>9. d.start <= g.start /\ g.start < d.end /\ c.start <= g.start /\ g.start < c.end
  BY <1>2, <1>3, <1>4, <1>6, <1>7, <1>8
<1>10. c = d
  BY <1>1, <1>6, <1>8, <1>9, SameRun
<1> QED
  BY <1>7, <1>10 DEF d

\* What the runs have paid by t.
PaidBy(S, t) == [r \in Runs(S) |-> Paid(r.start, MinOf(r.end, t))]

LEMMA PaidByIs ==
    ASSUME NEW S \in SUBSET Segs, NEW t \in Nat
    PROVE  /\ PaidBy(S, t) \in [Runs(S) -> Nat]
           /\ \A r \in Runs(S) :
                 /\ PaidBy(S, t)[r] <= PaidOf(S)[r]
                 /\ r.end <= t => PaidBy(S, t)[r] = PaidOf(S)[r]
                 /\ t <= r.end => PaidBy(S, t)[r] = Paid(r.start, t)
                 /\ t <= r.start => PaidBy(S, t)[r] = 0
                 /\ \A u \in Nat : u <= t => PaidBy(S, u)[r] <= PaidBy(S, t)[r]
<1>1. \A r \in Runs(S) : r \in Segs
  BY RunIs
<1> SUFFICES ASSUME NEW r \in Runs(S)
             PROVE  /\ Paid(r.start, MinOf(r.end, t)) \in Nat
                    /\ Paid(r.start, MinOf(r.end, t)) <= Paid(r.start, r.end)
                    /\ r.end <= t => MinOf(r.end, t) = r.end
                    /\ t <= r.end => MinOf(r.end, t) = t
                    /\ t <= r.start => Paid(r.start, MinOf(r.end, t)) = 0
                    /\ \A u \in Nat : u <= t =>
                          Paid(r.start, MinOf(r.end, u)) <= Paid(r.start, MinOf(r.end, t))
  BY DEF PaidBy, PaidOf
<1>2. r.start \in Nat /\ r.end \in Nat /\ r.start < r.end
  BY <1>1, SegType
<1>3. \A u \in Nat : MinOf(r.end, u) \in Nat /\ MinOf(r.end, u) <= r.end /\ MinOf(r.end, u) <= u
  BY <1>2 DEF MinOf
<1>4. \A u \in Nat : u <= t => MinOf(r.end, u) <= MinOf(r.end, t)
  BY <1>2 DEF MinOf
<1>5. (r.end <= t => MinOf(r.end, t) = r.end) /\ (t <= r.end => MinOf(r.end, t) = t)
  BY <1>2 DEF MinOf
<1>6. t <= r.start => MinOf(r.end, t) <= r.start
  BY <1>2 DEF MinOf
<1>7. r.start <= r.start /\ r.start \in Int /\ r.end \in Int /\ \A u \in Nat : MinOf(r.end, u) \in Int
  BY <1>2, <1>3
<1>8. Paid(r.start, MinOf(r.end, t)) \in Nat
  BY <1>7, PaidIs
<1>9. Paid(r.start, MinOf(r.end, t)) <= Paid(r.start, r.end)
  BY <1>3, <1>7, PaidMonotone
<1>10. t <= r.start => Paid(r.start, MinOf(r.end, t)) = 0
  BY <1>6, <1>7, PaidNothing
<1>11. \A u \in Nat : u <= t => Paid(r.start, MinOf(r.end, u)) <= Paid(r.start, MinOf(r.end, t))
  BY <1>4, <1>7, PaidMonotone
<1> QED
  BY <1>5, <1>8, <1>9, <1>10, <1>11

LEMMA ScoreUntil ==
    ASSUME NEW S \in SUBSET Segs, NEW t \in Instants
    PROVE  RunScore(Until(S, t)) = Total(PaidBy(S, t), Runs(S))
<1> DEFINE U == Until(S, t)
           A == Runs(U)
           B == Runs(S)
           f == PaidOf(U)
           h == PaidBy(S, t)
           source(c) == CHOOSE r \in B : r.start < t /\ c = Cut(r, t)
           m == [c \in A |-> source(c)]
<1>1. U \in SUBSET Segs /\ t \in Nat
  BY UntilIs, DayAssumption DEF Instants
<1>2. /\ IsFiniteSet(A) /\ f \in [A -> Nat] /\ RunScore(U) = Total(f, A)
      /\ IsFiniteSet(B) /\ B \in SUBSET Segs
  BY <1>1, RunsFinite, SlackedIs
<1>3. h \in [B -> Nat]
  BY <1>1, PaidByIs
<1>4. \A c \in A : source(c) \in B /\ source(c).start < t /\ c = Cut(source(c), t)
  BY CutRuns
<1>5. \A c \in A : f[c] = Paid(c.start, c.end)
  BY DEF PaidOf
<1>6. \A r \in B : h[r] = Paid(r.start, MinOf(r.end, t))
  BY DEF PaidBy
<1>7. \A r \in B : r.start < t => Cut(r, t) \in A
  BY CutRunIsRun
<1>8. \A r \in B : h[r] # 0 => r.start < t
  <2>1. \A r \in B : r.start \in Nat /\ (t <= r.start => h[r] = 0)
    BY <1>1, <1>2, PaidByIs, SegType
  <2> QED
    BY <1>1, <2>1
<1>9. \A r, s \in B : r.start = s.start => r = s
  <2> SUFFICES ASSUME NEW r \in B, NEW s \in B, r.start = s.start
               PROVE  r = s
    OBVIOUS
  <2>1. r.start \in Nat /\ r.start < r.end /\ s.start < s.end
    BY <1>2, SegType
  <2> QED
    BY <2>1, SameRun
<1> HIDE DEF A, B, f, h, source, U
<1>10. m \in [A -> B] /\ \A c \in A : m[c] = source(c)
  BY <1>4
<1> HIDE DEF m
<1>11. \A c \in A : f[c] = h[m[c]]
  BY <1>4, <1>5, <1>6, <1>10 DEF Cut
<1>12. \A c, d \in A : m[c] = m[d] => c = d
  BY <1>4, <1>10
<1>13. \A r \in B : h[r] # 0 => \E c \in A : m[c] = r
  <2> SUFFICES ASSUME NEW r \in B, h[r] # 0
               PROVE  \E c \in A : m[c] = r
    OBVIOUS
  <2> DEFINE c == Cut(r, t)
  <2>1. c \in A
    BY <1>7, <1>8
  <2>2. m[c] \in B /\ m[c].start = c.start /\ c.start = r.start
    BY <1>4, <1>10, <2>1 DEF Cut
  <2> HIDE DEF c
  <2> QED
    BY <1>9, <2>1, <2>2
<1>14. Total(f, A) = Total(h, B)
  BY <1>2, <1>3, <1>10, <1>11, <1>12, <1>13, Renamed
<1> QED
  BY <1>2, <1>14 DEF A, B, f, h, U

\* The score of the segments is reached at the last of the instants at which
\* a run that pays has paid all of it.
LEMMA ReachedIsFirst ==
    ASSUME NEW S \in SUBSET Segs, Slacked(S) > 0
    PROVE  Reached(S) = Min({t \in Instants : RunScore(Until(S, t)) = Slacked(S)})
<1> DEFINE R == Runs(S)
           f == PaidOf(S)
           P == {r \in R : f[r] > 0}
           at(r) == r.start + (Grace + f[r]) * Second
           A == {at(r) : r \in P}
           T == {t \in Instants : RunScore(Until(S, t)) = Slacked(S)}
<1>1. /\ IsFiniteSet(R) /\ R \in SUBSET Segs /\ f \in [R -> Nat]
      /\ Slacked(S) = Total(f, R) /\ Islands(S) = R
  BY RunsFinite, SlackedIs, IslandsAreRuns
<1>2. \A r \in R : Contribution(r) = f[r] /\ f[r] = Paid(r.start, r.end)
  BY <1>1, ContributionIsPaid DEF PaidOf
<1>3. Reached(S) = Max(A)
  <2>1. {j \in Islands(S) : Contribution(j) > 0} = P
    BY <1>1, <1>2
  <2>2. \A r \in P : ReachedAt(r) = at(r)
    BY <1>2 DEF ReachedAt
  <2> HIDE DEF P, at
  <2>3. {ReachedAt(i) : i \in {j \in Islands(S) : Contribution(j) > 0}} = A
    BY <2>1, <2>2
  <2> QED
    BY <2>3 DEF Reached
<1>4. ASSUME NEW r \in P
      PROVE  /\ at(r) \in Nat /\ at(r) <= MaxInstant
             /\ \A t \in Instants : PaidBy(S, t)[r] = f[r] <=> t >= at(r)
  <2>1. r \in R /\ r.start \in Nat /\ r.end \in Nat /\ r.end <= MaxInstant /\ f[r] = Paid(r.start, r.end)
        /\ Paid(r.start, r.end) > 0
    BY <1>1, <1>2, <1>4, SegType
  <2>2. \A t \in Instants : t \in Nat /\ PaidBy(S, t)[r] = Paid(r.start, MinOf(r.end, t))
    BY <2>1, DayAssumption DEF PaidBy, Instants
  <2>3. at(r) = r.start + (Grace + Paid(r.start, r.end)) * Second
    BY <2>1
  <2> HIDE DEF at, f, P
  <2>4. at(r) \in Nat /\ at(r) <= r.end
    BY <2>1, <2>3, PaidSince
  <2>5. \A t \in Nat : Paid(r.start, MinOf(r.end, t)) = Paid(r.start, r.end) <=> t >= at(r)
    BY <2>1, <2>3, PaidSince
  <2> QED
    BY <2>1, <2>2, <2>4, <2>5, DayAssumption
<1>5. P # {}
  <2> SUFFICES ASSUME \A r \in R : ~(f[r] > 0)
               PROVE  FALSE
    OBVIOUS
  <2> HIDE DEF R, f
  <2>1. \A r \in R : f[r] = 0
    BY <1>1
  <2>2. f \in [R -> Int]
    BY <1>1
  <2>3. Total(f, R) = 0
    BY <1>1, <2>1, <2>2, ZeroTotal
  <2> QED
    BY <1>1, <2>3
<1>6. A \in SUBSET Nat /\ A # {} /\ \A n \in A : n <= MaxInstant
  BY <1>4, <1>5
<1>7. Max(A) \in A /\ \A n \in A : Max(A) >= n
  BY <1>6, DayAssumption, GreatestIsMax
<1>8. ASSUME NEW t \in Instants
      PROVE  t \in T <=> \A r \in P : t >= at(r)
  <2> DEFINE h == PaidBy(S, t)
  <2>1. t \in Nat
    BY DayAssumption DEF Instants
  <2>2. h \in [R -> Nat] /\ \A r \in R : h[r] <= f[r]
    BY <2>1, PaidByIs
  <2>3. RunScore(Until(S, t)) = Total(h, R)
    BY ScoreUntil
  <2>4. \A r \in P : h[r] = f[r] <=> t >= at(r)
    BY <1>4
  <2>5. t \in T <=> Total(h, R) = Total(f, R)
    BY <1>1, <2>3
  <2> HIDE DEF h, R, f, at, T
  <2>6. ASSUME Total(h, R) = Total(f, R), NEW r \in P
        PROVE  h[r] = f[r]
    <3>1. SUFFICES ASSUME h[r] # f[r]
                   PROVE  FALSE
      OBVIOUS
    <3>2. r \in R /\ h[r] + 1 <= f[r] /\ 1 \in Nat
      BY <1>1, <2>2, <3>1
    <3>3. Total(h, R) + 1 <= Total(f, R)
      BY <1>1, <2>2, <3>2, TotalWithout
    <3>4. Total(f, R) \in Int
      <4>1. f \in [R -> Int] /\ R \in SUBSET R
        BY <1>1
      <4> QED
        BY <1>1, <4>1, TotalAdds
    <3> QED
      BY <2>6, <3>3, <3>4
  <2>7. ASSUME \A r \in P : h[r] = f[r]
        PROVE  Total(h, R) = Total(f, R)
    <3>1. \A r \in R : h[r] = f[r]
      <4>1. \A r \in R : h[r] \in Nat /\ f[r] \in Nat /\ h[r] <= f[r]
        BY <1>1, <2>2
      <4>2. \A r \in R : ~(f[r] > 0) => h[r] = f[r]
        BY <4>1
      <4> QED
        BY <2>7, <4>2
    <3>2. h = f
      BY <1>1, <2>2, <3>1
    <3> QED
      BY <3>2
  <2> QED
    BY <2>4, <2>5, <2>6, <2>7
<1>9. Max(A) \in T /\ \A t \in T : t >= Max(A)
  <2>1. Max(A) \in Instants
    BY <1>6, <1>7, DayAssumption DEF Instants
  <2>2. \A r \in P : at(r) \in A
    OBVIOUS
  <2>3. PICK r \in P : Max(A) = at(r)
    BY <1>7
  <2>4. \A t \in T : t \in Instants
    OBVIOUS
  <2> HIDE DEF A, P, at, T
  <2> QED
    BY <1>7, <1>8, <2>1, <2>2, <2>3, <2>4
<1>10. T \in SUBSET Nat
  BY DayAssumption DEF Instants
<1>11. Min(T) \in T /\ \A t \in T : Min(T) <= t
  BY <1>9, <1>10, LeastIsMin
<1> HIDE DEF A, T
<1>12. Min(T) = Max(A)
  <2>1. Min(T) \in Nat /\ Max(A) \in Nat
    BY <1>9, <1>10, <1>11
  <2> QED
    BY <1>9, <1>11, <2>1
<1> QED
  BY <1>3, <1>12 DEF A, T

-----------------------------------------------------------------------------
(***************************************************************************)
(* Segments that grow never score less.                                    *)
(***************************************************************************)
Covers(V, S) == \A g \in S : \E h \in V : h.start <= g.start /\ g.end <= h.end

LEMMA RunCovered ==
    ASSUME NEW S \in SUBSET Segs, NEW V \in SUBSET Segs, Covers(V, S), NEW r \in Runs(S)
    PROVE  \E q \in Runs(V) : q.start <= r.start /\ r.end <= q.end
<1>1. PICK g \in S : g.start = r.start
  BY RunBegins
<1>2. PICK h \in V : h.start <= g.start /\ g.end <= h.end
  BY DEF Covers
<1>3. PICK q \in Runs(V) : q.start <= h.start /\ h.end <= q.end
  BY InRun
<1>4. g \in Segs /\ h \in Segs /\ r \in Segs /\ q \in Segs
  BY RunIs
<1>5. /\ g.start \in Nat /\ g.end \in Nat /\ g.start < g.end
      /\ h.start \in Nat /\ h.end \in Nat
      /\ r.start \in Nat /\ r.end \in Nat /\ q.start \in Nat /\ q.end \in Nat
  BY <1>4, SegType
<1>6. q.start <= r.start /\ r.start < q.end
  BY <1>1, <1>2, <1>3, <1>5
<1>7. r.end <= q.end
  <2>1. SUFFICES ASSUME q.end < r.end
                 PROVE  FALSE
    BY <1>5
  <2>2. q.end - 1 \in r.start .. r.end - 2 /\ q.end - 1 + 1 = q.end
    BY <1>5, <1>6, <2>1
  <2>3. PICK i \in S : i.start <= q.end - 1 /\ q.end < i.end
    BY <2>2, RunIs
  <2>4. PICK j \in V : j.start <= i.start /\ i.end <= j.end
    BY DEF Covers
  <2>5. i.start \in Nat /\ i.end \in Nat /\ j.start \in Nat /\ j.end \in Nat
    BY SegType
  <2>6. j.start <= q.end - 1 /\ q.end < j.end
    BY <1>5, <2>3, <2>4, <2>5
  <2> QED
    BY <2>6, RunIs
<1> QED
  BY <1>6, <1>7

\* By induction on the instant: what the runs of S have paid that have ended
\* by then is no more than what those of V have paid by then.
LEMMA ScoreGrows ==
    ASSUME NEW S \in SUBSET Segs, NEW V \in SUBSET Segs, Covers(V, S)
    PROVE  Slacked(S) <= Slacked(V)
<1> DEFINE R == Runs(S)
           Q == Runs(V)
           f == PaidOf(S)
           k(t) == PaidBy(V, t)
           ended(t) == {r \in R : r.end <= t}
           F(t) == Total(f, ended(t))
           G(t) == Total(k(t), Q)
           P == {t \in Nat : \A u \in Nat : u <= t => F(u) <= G(u)}
<1>1. /\ IsFiniteSet(R) /\ R \in SUBSET Segs /\ f \in [R -> Nat] /\ f \in [R -> Int]
      /\ IsFiniteSet(Q) /\ Q \in SUBSET Segs
      /\ Slacked(S) = Total(f, R) /\ Slacked(V) = Total(PaidOf(V), Q)
  BY RunsFinite, SlackedIs
<1>2. /\ \A r \in R : r.start \in Nat /\ r.end \in Nat /\ r.start < r.end /\ r.end <= MaxInstant
      /\ \A q \in Q : q.start \in Nat /\ q.end \in Nat
  BY <1>1, SegType
<1>3. \A t \in Nat : k(t) \in [Q -> Nat] /\ k(t) \in [Q -> Int]
  BY PaidByIs
<1>4. \A t, u \in Nat : u <= t => \A q \in Q : k(u)[q] <= k(t)[q]
  BY PaidByIs
<1>5. \A t \in Nat : ended(t) \in SUBSET R /\ F(t) \in Int /\ G(t) \in Int
  <2>1. \A t \in Nat : ended(t) \in SUBSET R /\ Q \in SUBSET Q
    OBVIOUS
  <2> HIDE DEF ended, k, R, Q, f
  <2> QED
    BY <1>1, <1>3, <2>1, TotalAdds
<1>6. \A r \in R : f[r] = Paid(r.start, r.end)
  BY DEF PaidOf
<1>7. ASSUME NEW t \in Nat, NEW u \in Nat, u <= t
      PROVE  G(u) <= G(t)
  <2> HIDE DEF k, Q
  <2> QED
    BY <1>1, <1>3, <1>4, <1>7, TotalMonotone
<1>8. ASSUME NEW r \in R
      PROVE  ended(r.end) \ {r} = ended(r.start)
  <2>1. ASSUME NEW s \in R, s # r, s.end <= r.end
        PROVE  s.end <= r.start
    <3>1. SUFFICES ASSUME r.start < s.end
                   PROVE  FALSE
      BY <1>2
    <3>2. s.end - 1 \in Nat /\ s.start <= s.end - 1 /\ s.end - 1 < s.end
          /\ r.start <= s.end - 1 /\ s.end - 1 < r.end
      BY <1>2, <2>1, <3>1
    <3> QED
      BY <2>1, <3>2, SameRun
  <2>2. ASSUME NEW s \in R, s.end <= r.start
        PROVE  s # r /\ s.end <= r.end
    BY <1>2, <2>2
  <2> QED
    BY <2>1, <2>2
<1>9. ASSUME NEW r \in R, F(r.start) <= G(r.start)
      PROVE  F(r.end) <= G(r.end)
  <2>1. r.start \in Nat /\ r.end \in Nat /\ r.start <= r.end
    BY <1>2
  <2>2. PICK q \in Q : q.start <= r.start /\ r.end <= q.end
    BY RunCovered
  <2>3. F(r.end) = f[r] + F(r.start)
    <3>1. r \in ended(r.end) /\ ended(r.end) \in SUBSET R
      BY <2>1
    <3>2. ended(r.end) \ {r} = ended(r.start)
      BY <1>8
    <3> HIDE DEF ended, R, f
    <3>3. Total(f, ended(r.end)) = f[r] + Total(f, ended(r.end) \ {r})
      BY <1>1, <3>1, TotalRemove
    <3> QED
      BY <3>2, <3>3
  <2>4. f[r] \in Nat /\ k(r.start)[q] + f[r] <= k(r.end)[q]
    <3>1. k(r.start)[q] = Paid(q.start, r.start) /\ k(r.end)[q] = Paid(q.start, r.end)
      <4>1. q.start \in Nat /\ q.end \in Nat /\ r.start <= q.end
        BY <1>2, <2>1, <2>2
      <4> QED
        BY <2>1, <2>2, <4>1, PaidByIs
    <3>2. q.start \in Int /\ r.start \in Int /\ r.end \in Int
      BY <1>2, <2>1
    <3>3. Paid(q.start, r.start) + Paid(r.start, r.end) <= Paid(q.start, r.end)
      BY <2>1, <2>2, <3>2, PaidTogether
    <3>4. Paid(r.start, r.end) \in Nat
      BY <3>2, PaidIs
    <3> HIDE DEF k, f
    <3> QED
      BY <1>6, <3>1, <3>3, <3>4
  <2>5. G(r.start) + f[r] <= G(r.end)
    <3> HIDE DEF k, Q, f, R
    <3> QED
      BY <1>1, <1>3, <1>4, <2>1, <2>2, <2>4, TotalWithout
  <2>6. F(r.start) \in Int /\ G(r.start) \in Int /\ G(r.end) \in Int
    BY <1>5, <2>1
  <2> HIDE DEF F, G, f
  <2> QED
    BY <1>9, <2>3, <2>4, <2>5, <2>6
<1>10. 0 \in P
  <2>1. ended(0) = {}
    BY <1>2
  <2>2. F(0) = 0
    <3> HIDE DEF ended, f, R
    <3> QED
      BY <1>1, <2>1, TotalAdds
  <2>3. 0 <= G(0)
    <3>1. CASE Q = {}
      <4>1. Total(k(0), {}) = 0
        <5> HIDE DEF k, Q
        <5> QED
          BY <1>1, <1>3, TotalAdds
      <4> QED
        BY <3>1, <4>1
    <3>2. CASE Q # {}
      <4>1. PICK q \in Q : TRUE
        BY <3>2
      <4> HIDE DEF k, Q
      <4>2. Total(k(0), Q) \in Nat
        BY <1>1, <1>3, <4>1, TermInTotal
      <4> QED
        BY <4>2
    <3> QED
      BY <3>1, <3>2
  <2>4. \A u \in Nat : u <= 0 => u = 0
    OBVIOUS
  <2> HIDE DEF F, G
  <2> QED
    BY <2>2, <2>3, <2>4
<1>11. ASSUME NEW t \in Nat, t \in P
       PROVE  t + 1 \in P
  <2>1. \A u \in Nat : u <= t => F(u) <= G(u)
    BY <1>11
  <2>2. F(t + 1) <= G(t + 1)
    <3>1. CASE \E r \in R : r.end = t + 1
      <4>1. PICK r \in R : r.end = t + 1
        BY <3>1
      <4>2. r.start \in Nat /\ r.start <= t
        BY <1>2, <4>1
      <4>3. F(r.start) <= G(r.start)
        BY <2>1, <4>2
      <4> HIDE DEF F, G, R
      <4> QED
        BY <1>9, <4>1, <4>3
    <3>2. CASE \A r \in R : r.end # t + 1
      <4>1. ended(t + 1) = ended(t)
        BY <1>2, <3>2
      <4>2. F(t + 1) = F(t)
        BY <4>1
      <4>3. F(t) <= G(t)
        BY <2>1
      <4>4. G(t) <= G(t + 1)
        BY <1>7
      <4>5. F(t) \in Int /\ G(t) \in Int /\ G(t + 1) \in Int
        <5>1. t + 1 \in Nat
          OBVIOUS
        <5> HIDE DEF F, G, ended
        <5> QED
          BY <1>5, <5>1
      <4> HIDE DEF F, G
      <4> QED
        BY <4>2, <4>3, <4>4, <4>5
    <3> QED
      BY <3>1, <3>2
  <2>3. \A u \in Nat : u <= t + 1 => u <= t \/ u = t + 1
    OBVIOUS
  <2> HIDE DEF F, G
  <2> QED
    BY <2>1, <2>2, <2>3
<1>12. MaxInstant \in P
  <2> HIDE DEF P
  <2> QED
    BY <1>10, <1>11, DayAssumption, NaturalsByInduction
<1>13. F(MaxInstant) <= G(MaxInstant)
  <2>1. MaxInstant \in Nat /\ MaxInstant <= MaxInstant
    BY DayAssumption
  <2> HIDE DEF F, G
  <2> QED
    BY <1>12, <2>1
<1>14. ended(MaxInstant) = R
  BY <1>2
<1>15. k(MaxInstant) = PaidOf(V)
  <2>1. \A q \in Q : q.end <= MaxInstant
    BY <1>1, SegType
  <2>2. \A q \in Q : k(MaxInstant)[q] = PaidOf(V)[q]
    BY <2>1, DayAssumption, PaidByIs
  <2>3. k(MaxInstant) \in [Q -> Nat] /\ PaidOf(V) \in [Q -> Nat]
    BY <1>3, DayAssumption, RunsFinite
  <2> HIDE DEF k, Q
  <2> QED
    BY <2>2, <2>3
<1> QED
  BY <1>1, <1>13, <1>14, <1>15

\* A run scores what any segment of it would.
LEMMA SegmentScores ==
    ASSUME NEW S \in SUBSET Segs, NEW g \in S
    PROVE  WholeSeconds(g.start, g.end) - Grace <= Slacked(S)
<1>1. PICK r \in Runs(S) : r.start <= g.start /\ g.end <= r.end
  BY InRun
<1>2. r \in Segs /\ g \in Segs
  BY RunIs
<1>3. g.start \in Int /\ g.end \in Int /\ r.start \in Int /\ r.end \in Int
  BY <1>2, SegType
<1>4. Paid(g.start, g.end) <= Paid(r.start, r.end)
  BY <1>1, <1>3, PaidMonotone
<1>5. /\ PaidOf(S)[r] = Paid(r.start, r.end)
      /\ PaidOf(S)[r] <= Slacked(S)
  BY RunsFinite, SlackedIs, TermInTotal DEF PaidOf
<1>6. /\ Paid(g.start, g.end) \in Nat /\ Paid(r.start, r.end) \in Nat
      /\ WholeSeconds(g.start, g.end) \in Int
      /\ WholeSeconds(g.start, g.end) - Grace <= Paid(g.start, g.end)
  BY <1>3, PaidIs
<1>7. Slacked(S) \in Nat /\ Grace \in Nat
  BY SlackedIs, ScoringAssumption
<1> QED
  BY <1>4, <1>5, <1>6, <1>7

-----------------------------------------------------------------------------
(***************************************************************************)
(* What can be changed about the end of a day without changing its score:  *)
(* nothing that begins in its last seconds outlasts the grace.             *)
(***************************************************************************)

\* No segment crosses u.
Parted(S, u) == \A g \in S : g.start >= u \/ g.end <= u

LEMMA PayingRunsEarlier ==
    ASSUME NEW S \in SUBSET Segs, NEW V \in SUBSET Segs, NEW u \in Nat, NEW c \in Nat,
           Parted(S, u), \A g \in S : g.end <= c, c < u + (Grace + 1) * Second,
           {g \in S : g.start < u} = {g \in V : g.start < u},
           NEW r \in Runs(S), Paid(r.start, r.end) > 0
    PROVE  r \in Runs(V)
<1> DEFINE d == (Grace + 1) * Second
<1>1. /\ r \in Segs /\ r.start \in Nat /\ r.end \in Nat /\ r.start < r.end
      /\ \A g \in S \cup V : g.start \in Nat /\ g.end \in Nat /\ g.start < g.end
  BY RunIs, SegType
<1>2. d \in Int
  <2>1. Grace + 1 \in Int
    BY ScoringAssumption
  <2> QED
    BY <2>1, Products
<1>3. r.end >= r.start + d
  <2>1. 1 \in Nat \ {0} /\ r.start \in Int /\ r.end \in Int
    BY <1>1
  <2>2. Paid(r.start, r.end) \in Nat
    BY <2>1, PaidIs
  <2>3. Paid(r.start, r.end) >= 1
    BY <2>2
  <2> QED
    BY <2>1, <2>2, <2>3, PaidIs
<1>4. c < u + d
  OBVIOUS
<1> HIDE DEF d
<1>5. r.end <= c
  <2>1. r.end - 1 \in r.start .. r.end - 1
    BY <1>1
  <2>2. PICK g \in S : g.start <= r.end - 1 /\ r.end - 1 < g.end
    BY <2>1, RunIs
  <2>3. g.end \in Nat /\ g.end <= c
    BY <1>1
  <2> QED
    BY <1>1, <2>2, <2>3
<1>6. r.start < u
  BY <1>1, <1>2, <1>3, <1>4, <1>5
<1>7. r.end <= u
  <2>1. SUFFICES ASSUME u < r.end
                 PROVE  FALSE
    BY <1>1
  <2>2. u - 1 \in r.start .. r.end - 2 /\ u - 1 + 1 = u
    BY <1>1, <1>6, <2>1
  <2>3. PICK g \in S : g.start <= u - 1 /\ u < g.end
    BY <2>2, RunIs
  <2>4. g.start >= u \/ g.end <= u
    BY DEF Parted
  <2>5. g.start \in Nat /\ g.end \in Nat
    BY <1>1
  <2> QED
    BY <2>3, <2>4, <2>5
<1>8. \A g \in S \cup V : g.start <= r.end - 1 => g \in S /\ g \in V
  <2> SUFFICES ASSUME NEW g \in S \cup V, g.start <= r.end - 1
               PROVE  g \in S /\ g \in V
    OBVIOUS
  <2>1. g.start < u
    BY <1>1, <1>7
  <2> QED
    BY <2>1
<1>9. \A t \in r.start .. r.end - 1 : \E g \in V : g.start <= t /\ t < g.end
  <2> SUFFICES ASSUME NEW t \in r.start .. r.end - 1
               PROVE  \E g \in V : g.start <= t /\ t < g.end
    OBVIOUS
  <2>1. PICK g \in S : g.start <= t /\ t < g.end
    BY RunIs
  <2>2. g.start <= r.end - 1
    BY <1>1, <2>1
  <2> QED
    BY <1>8, <2>1, <2>2
<1>10. \A t \in r.start .. r.end - 2 : \E g \in V : g.start <= t /\ t + 1 < g.end
  <2> SUFFICES ASSUME NEW t \in r.start .. r.end - 2
               PROVE  \E g \in V : g.start <= t /\ t + 1 < g.end
    OBVIOUS
  <2>1. PICK g \in S : g.start <= t /\ t + 1 < g.end
    BY RunIs
  <2>2. g.start <= r.end - 1
    BY <1>1, <2>1
  <2> QED
    BY <1>8, <2>1, <2>2
<1>11. \A g \in V : ~(g.start <= r.start - 1 /\ r.start < g.end)
  <2> SUFFICES ASSUME NEW g \in V, g.start <= r.start - 1, r.start < g.end
               PROVE  FALSE
    OBVIOUS
  <2>1. g.start <= r.end - 1
    BY <1>1
  <2>2. g \in S
    BY <1>8, <2>1
  <2> QED
    BY <2>2, RunIs
<1>12. \A g \in V : ~(g.start <= r.end - 1 /\ r.end < g.end)
  <2> SUFFICES ASSUME NEW g \in V, g.start <= r.end - 1, r.end < g.end
               PROVE  FALSE
    OBVIOUS
  <2>1. g \in S
    BY <1>8
  <2> QED
    BY <2>1, RunIs
<1> QED
  BY <1>1, <1>9, <1>10, <1>11, <1>12, RunIs

\* A score is the sum of the runs that pay.
LEMMA PayingRunsScore ==
    ASSUME NEW S \in SUBSET Segs, NEW V \in SUBSET Segs,
           \A r \in Runs(S) : Paid(r.start, r.end) > 0 => r \in Runs(V)
    PROVE  Slacked(S) <= Slacked(V)
<1> DEFINE f == PaidOf(S)
           h == PaidOf(V)
           A == Runs(S)
           B == Runs(V)
           m == [r \in A |-> r]
<1>1. /\ IsFiniteSet(A) /\ f \in [A -> Nat] /\ Slacked(S) = Total(f, A)
      /\ IsFiniteSet(B) /\ h \in [B -> Nat] /\ Slacked(V) = Total(h, B)
  BY RunsFinite, SlackedIs
<1>2. /\ \A r \in A : f[r] = Paid(r.start, r.end)
      /\ \A r \in B : h[r] = Paid(r.start, r.end)
  BY DEF PaidOf
<1>3. \A r \in A : m[r] = r
  OBVIOUS
<1> HIDE DEF f, h, m, A, B
<1>4. \A r \in A : f[r] # 0 => m[r] \in B /\ f[r] <= h[m[r]]
  <2> SUFFICES ASSUME NEW r \in A, f[r] # 0
               PROVE  m[r] \in B /\ f[r] <= h[m[r]]
    OBVIOUS
  <2>1. f[r] \in Nat /\ Paid(r.start, r.end) > 0
    BY <1>1, <1>2
  <2>2. r \in B
    BY <2>1 DEF A, B
  <2>3. h[r] = f[r]
    BY <1>2, <2>2
  <2> QED
    BY <1>3, <2>1, <2>2, <2>3
<1>5. \A x, y \in A : f[x] # 0 /\ f[y] # 0 /\ m[x] = m[y] => x = y
  BY <1>3
<1> QED
  BY <1>1, <1>4, <1>5, Dominated

\* Two days that agree about what begins before u score the same, if nothing
\* crosses u and what is left of the day is not longer than the grace.
LEMMA GraceKeepsScore ==
    ASSUME NEW S \in SUBSET Segs, NEW V \in SUBSET Segs, NEW u \in Nat, NEW c \in Nat,
           Parted(S, u), \A g \in S : g.end <= c,
           Parted(V, u), \A g \in V : g.end <= c, c < u + (Grace + 1) * Second,
           {g \in S : g.start < u} = {g \in V : g.start < u}
    PROVE  Slacked(S) = Slacked(V) /\ Reached(S) = Reached(V)
<1>1. /\ \A r \in Runs(S) : Paid(r.start, r.end) > 0 => r \in Runs(V)
      /\ \A r \in Runs(V) : Paid(r.start, r.end) > 0 => r \in Runs(S)
  BY PayingRunsEarlier
<1>2. Slacked(S) = Slacked(V)
  <2>1. Slacked(S) <= Slacked(V) /\ Slacked(V) <= Slacked(S)
    BY <1>1, PayingRunsScore
  <2> QED
    BY <2>1, SlackedIs
<1>3. {j \in Islands(S) : Contribution(j) > 0} = {j \in Islands(V) : Contribution(j) > 0}
  <2>1. Islands(S) = Runs(S) /\ Islands(V) = Runs(V)
    BY IslandsAreRuns
  <2>2. \A r \in Runs(S) \cup Runs(V) : Contribution(r) = Paid(r.start, r.end)
    BY RunsFinite, ContributionIsPaid
  <2> QED
    BY <1>1, <2>1, <2>2
<1> QED
  BY <1>2, <1>3 DEF Reached

-----------------------------------------------------------------------------
(***************************************************************************)
(* What a segment of the day depends on.                                   *)
(***************************************************************************)

\* Two activities are the same to a day that ends at c: so are they if either
\* has not begun by then.
SameActivity(i, l, j, m, c) ==
    /\ i.start = j.start
    /\ MinOf(ActivityEnd(i, l, c), c) = MinOf(ActivityEnd(j, m, c), c)

SameQualification(p, q, c) ==
    /\ p.start = q.start
    /\ MinOf(EndOr(p, c), c) = MinOf(EndOr(q, c), c)

Leases == Nat \cup {None}

LEMMA EndTypes ==
    ASSUME NEW i \in Interval, NEW l \in Leases, NEW c \in Nat
    PROVE  ActivityEnd(i, l, c) \in Nat /\ EndOr(i, c) \in Nat
BY ScoringAssumption DEF Interval, ActivityEnd, EndOr, MinOf, Leases

LEMMA SegmentBounds ==
    ASSUME NEW i \in Interval, NEW l \in Leases, NEW q \in Interval, NEW c \in Nat,
           NEW o \in [start : Nat, end : Nat]
    PROVE  LET g == Segment(i, l, q, o, c)
           IN /\ g.start \in Nat /\ g.end \in Nat
              /\ i.start <= g.start /\ q.start <= g.start
              /\ g.end <= c
<1> DEFINE x == ActivityEnd(i, l, c)
           y == EndOr(q, c)
<1>1. x \in Nat /\ y \in Nat /\ i.start \in Nat /\ q.start \in Nat /\ o.start \in Nat /\ o.end \in Nat
  BY EndTypes DEF Interval
<1>2. /\ Segment(i, l, q, o, c).start = Max({i.start, q.start, o.start})
      /\ Segment(i, l, q, o, c).end = Min({x, y, o.end, c})
  BY DEF Segment
<1> HIDE DEF x, y
<1>3. /\ Max({i.start, q.start, o.start}) \in Nat
      /\ i.start <= Max({i.start, q.start, o.start})
      /\ q.start <= Max({i.start, q.start, o.start})
  BY <1>1 DEF Max
<1>4. Min({x, y, o.end, c}) \in Nat /\ Min({x, y, o.end, c}) <= c
  BY <1>1 DEF Min
<1> QED
  BY <1>2, <1>3, <1>4

LEMMA SameSegment ==
    ASSUME NEW i \in Interval, NEW j \in Interval, NEW l \in Leases, NEW m \in Leases,
           NEW p \in Interval, NEW q \in Interval, NEW c \in Nat,
           NEW o \in [start : Nat, end : Nat],
           SameActivity(i, l, j, m, c), SameQualification(p, q, c)
    PROVE  Segment(i, l, p, o, c) = Segment(j, m, q, o, c)
<1> DEFINE x == ActivityEnd(i, l, c)
           y == EndOr(p, c)
           v == ActivityEnd(j, m, c)
           w == EndOr(q, c)
<1>1. x \in Nat /\ y \in Nat /\ v \in Nat /\ w \in Nat /\ o.end \in Nat
  BY EndTypes
<1>2. MinOf(x, c) = MinOf(v, c) /\ MinOf(y, c) = MinOf(w, c)
  BY DEF SameActivity, SameQualification
<1>3. /\ Segment(i, l, p, o, c) = [start |-> Max({i.start, p.start, o.start}),
                                   end |-> Min({x, y, o.end, c})]
      /\ Segment(j, m, q, o, c) = [start |-> Max({j.start, q.start, o.start}),
                                   end |-> Min({v, w, o.end, c})]
  BY DEF Segment
<1> HIDE DEF x, y, v, w
<1>4. \A a, b, d \in Nat : /\ Min({a, b, d, c}) \in {a, b, d, c}
                          /\ \A n \in {a, b, d, c} : Min({a, b, d, c}) <= n
  BY DEF Min
<1>5. Min({x, y, o.end, c}) = Min({v, w, o.end, c})
  BY <1>1, <1>2, <1>4 DEF MinOf
<1> QED
  BY <1>3, <1>5 DEF SameActivity, SameQualification

\* Two ledgers with the same activities and qualifications, as far as they
\* begin before the end of the day, have the same segments of the day.
LEMMA SegmentsAgree ==
    ASSUME NEW A \in SUBSET Interval, NEW B \in SUBSET Interval,
           NEW P \in SUBSET Interval, NEW Q \in SUBSET Interval,
           NEW l \in Leases, NEW m \in Leases,
           \A i \in A : i.start < Closing => \E j \in B : SameActivity(i, l, j, m, Closing),
           \A p \in P : p.start < Closing => \E q \in Q : SameQualification(p, q, Closing)
    PROVE  Segments(A, l, P, Day, Closing) \subseteq Segments(B, m, Q, Day, Closing)
<1> DEFINE o == [start |-> Opening, end |-> Closing]
<1>1. Closing \in Nat /\ o \in [start : Nat, end : Nat] /\ Day = {o}
  BY SettlementAssumption DEF Day
<1> HIDE DEF o
<1> SUFFICES ASSUME NEW i \in A, NEW p \in P,
                    Segment(i, l, p, o, Closing).end > Segment(i, l, p, o, Closing).start
             PROVE  \E j \in B, q \in Q :
                       Segment(i, l, p, o, Closing) = Segment(j, m, q, o, Closing)
  BY <1>1 DEF Segments
<1>2. i.start < Closing /\ p.start < Closing
  <2>1. i \in Interval /\ p \in Interval
    OBVIOUS
  <2> QED
    BY <1>1, <2>1, SegmentBounds DEF Interval
<1>3. PICK j \in B : SameActivity(i, l, j, m, Closing)
  BY <1>2
<1>4. PICK q \in Q : SameQualification(p, q, Closing)
  BY <1>2
<1> QED
  BY <1>1, <1>3, <1>4, SameSegment

-----------------------------------------------------------------------------
(***************************************************************************)
(* What a transaction makes of a day that is over.                         *)
(***************************************************************************)

\* The ledger is well-formed, and without a lease nothing is open.
LedgerOK ==
    /\ activities \in [Agent -> SUBSET Interval]
    /\ qualified \in [Agent -> SUBSET Interval]
    /\ lease \in [Agent -> Leases]
    /\ \A a \in Agent : lease[a] = None => OpenOf(a) = {}

\* An activity that is closed at t is what it was, if t is past the day or is
\* the lease it had.
LEMMA ClosedIsSame ==
    ASSUME NEW i \in Interval, i.end = None, NEW t \in Nat, NEW l \in Nat, NEW m \in Leases,
           NEW c \in Nat, t = l \/ (c <= t /\ c <= l)
    PROVE  /\ [i EXCEPT !.end = t] \in Interval
           /\ [i EXCEPT !.end = t].end = t
           /\ SameActivity(i, l, [i EXCEPT !.end = t], m, c)
           /\ SameActivity([i EXCEPT !.end = t], m, i, l, c)
<1>1. /\ [i EXCEPT !.end = t] \in Interval
      /\ [i EXCEPT !.end = t].end = t /\ [i EXCEPT !.end = t].start = i.start
  BY DEF Interval
<1>2. t # None /\ l # None
  BY ScoringAssumption
<1>3. MinOf(MinOf(l, c), c) = MinOf(t, c)
  BY DEF MinOf
<1> QED
  BY <1>1, <1>2, <1>3 DEF SameActivity, ActivityEnd

\* An activity that has ended is what it was, whatever becomes of the lease.
LEMMA EndedIsSame ==
    ASSUME NEW i \in Interval, i.end # None, NEW l, NEW m, NEW c
    PROVE  SameActivity(i, l, i, m, c)
BY DEF SameActivity, ActivityEnd

\* Closing what is open at t changes nothing that comes before c.
LEMMA ClosedKeeps ==
    ASSUME LedgerOK, NEW a \in Agent, NEW t \in Nat, NEW m \in Leases, NEW c \in Nat,
           OpenOf(a) # {} => t = lease[a] \/ (c <= t /\ c <= lease[a])
    PROVE  /\ ClosedAt(a, t) \subseteq Interval
           /\ \A i \in ClosedAt(a, t) : i.end # None
           /\ \A i \in activities[a] :
                 \E j \in ClosedAt(a, t) : SameActivity(i, lease[a], j, m, c)
           /\ \A j \in ClosedAt(a, t) :
                 \E i \in activities[a] : SameActivity(j, m, i, lease[a], c)
<1> DEFINE f(i) == IF i.end = None THEN [i EXCEPT !.end = t] ELSE i
<1>1. t # None
  BY ScoringAssumption
<1>2. ASSUME NEW i \in activities[a]
      PROVE  /\ f(i) \in Interval /\ f(i).end # None
             /\ SameActivity(i, lease[a], f(i), m, c)
             /\ SameActivity(f(i), m, i, lease[a], c)
  <2>1. i \in Interval
    BY DEF LedgerOK
  <2>2. CASE i.end = None
    <3>1. OpenOf(a) # {}
      BY <2>2 DEF OpenOf
    <3>2. lease[a] \in Nat
      BY <3>1 DEF LedgerOK, Leases
    <3>3. t = lease[a] \/ (c <= t /\ c <= lease[a])
      BY <3>1
    <3> QED
      BY <1>1, <2>1, <2>2, <3>2, <3>3, ClosedIsSame
  <2>3. CASE i.end # None
    BY <2>1, <2>3, EndedIsSame
  <2> QED
    BY <2>2, <2>3
<1>3. ClosedAt(a, t) = {f(i) : i \in activities[a]}
  BY DEF ClosedAt
<1> HIDE DEF f
<1> QED
  BY <1>2, <1>3

\* A report says nothing about what comes before it was received.
LEMMA ReportKeeps ==
    ASSUME LedgerOK, NEW a \in Agent, NEW kind, NEW received \in Nat,
           NEW c \in Nat, c <= received
    PROVE  LET m == received + LeaseTtl
               B == AfterReport(a, kind, received)
           IN /\ B \subseteq Interval
              /\ \A i \in activities[a] : \E j \in B : SameActivity(i, lease[a], j, m, c)
              /\ \A j \in B : j.start < c =>
                    \E i \in activities[a] : SameActivity(j, m, i, lease[a], c)
<1> DEFINE m == received + LeaseTtl
           B == AfterReport(a, kind, received)
           expired == lease[a] # None /\ lease[a] <= received
           live == ~expired /\ OpenOf(a) # {}
           late == [start |-> received, end |-> None]
           base == IF expired THEN ClosedAt(a, lease[a]) ELSE activities[a]
<1>1. /\ m \in Nat /\ m \in Leases /\ c <= m
      /\ late \in Interval /\ late.start = received
  BY SettlementAssumption DEF Leases, Interval
<1>2. /\ base \subseteq Interval
      /\ \A i \in activities[a] : \E j \in base : SameActivity(i, lease[a], j, m, c)
      /\ \A j \in base : \E i \in activities[a] : SameActivity(j, m, i, lease[a], c)
  <2>1. CASE expired
    BY <1>1, <2>1, ClosedKeeps DEF LedgerOK, Leases
  <2>2. CASE ~expired
    <3> SUFFICES ASSUME NEW i \in activities[a]
                 PROVE  /\ SameActivity(i, lease[a], i, m, c)
                        /\ SameActivity(i, m, i, lease[a], c)
      BY <2>2 DEF LedgerOK
    <3>1. CASE i.end # None
      BY <3>1, EndedIsSame DEF LedgerOK
    <3>2. CASE i.end = None
      <4>1. lease[a] \in Nat /\ received < lease[a]
        BY <2>2, <3>2 DEF LedgerOK, OpenOf, Leases
      <4>2. lease[a] # None /\ m # None
        BY <1>1, <4>1, ScoringAssumption
      <4>3. /\ MinOf(MinOf(lease[a], c), c) = c
            /\ MinOf(MinOf(m, c), c) = c
        BY <1>1, <4>1 DEF MinOf
      <4> HIDE DEF m
      <4> QED
        BY <3>2, <4>2, <4>3 DEF SameActivity, ActivityEnd
    <3> QED
      BY <3>1, <3>2
  <2> QED
    BY <2>1, <2>2
<1>3. /\ B \subseteq Interval
      /\ \A i \in activities[a] : \E j \in B : SameActivity(i, lease[a], j, m, c)
      /\ \A j \in B : j.start < c =>
            \E i \in activities[a] : SameActivity(j, m, i, lease[a], c)
  <2>1. CASE live /\ kind # "idle"
    <3>1. OpenOf(a) # {} /\ lease[a] \in Nat /\ received < lease[a]
      BY <2>1 DEF LedgerOK, Leases
    <3>2. B = ClosedAt(a, received)
      BY <2>1 DEF AfterReport
    <3> QED
      BY <1>1, <3>1, <3>2, ClosedKeeps
  <2>2. CASE live <=> kind = "idle"
    <3>1. B = base
      BY <2>2 DEF AfterReport
    <3> QED
      BY <1>2, <3>1
  <2>3. CASE ~live /\ kind = "idle"
    <3>1. B = base \cup {late}
      BY <2>3 DEF AfterReport
    <3>2. ~(late.start < c)
      BY <1>1
    <3> HIDE DEF B, base, late
    <3> QED
      BY <1>1, <1>2, <3>1, <3>2
  <2> QED
    BY <2>1, <2>2, <2>3
<1> QED
  BY <1>3

\* Received when the day is over, it says nothing about the day.
LEMMA ReportKeepsDay ==
    ASSUME LedgerOK, NEW a \in Agent, NEW kind, NEW received \in Nat, Closing <= received
    PROVE  Segments(AfterReport(a, kind, received), received + LeaseTtl, qualified[a],
                    Day, Closing) = DaySegments(a, Closing)
<1> DEFINE m == received + LeaseTtl
           B == AfterReport(a, kind, received)
<1>1. Closing \in Nat /\ m \in Leases
  BY SettlementAssumption DEF Leases
<1>2. /\ B \subseteq Interval
      /\ \A i \in activities[a] : \E j \in B : SameActivity(i, lease[a], j, m, Closing)
      /\ \A j \in B : j.start < Closing =>
            \E i \in activities[a] : SameActivity(j, m, i, lease[a], Closing)
  BY <1>1, ReportKeeps
<1>3. qualified[a] \subseteq Interval /\ activities[a] \subseteq Interval /\ lease[a] \in Leases
  BY DEF LedgerOK
<1> HIDE DEF B, m
<1>4. /\ Segments(activities[a], lease[a], qualified[a], Day, Closing)
            \subseteq Segments(B, m, qualified[a], Day, Closing)
      /\ Segments(B, m, qualified[a], Day, Closing)
            \subseteq Segments(activities[a], lease[a], qualified[a], Day, Closing)
  BY <1>1, <1>2, <1>3, SegmentsAgree DEF SameQualification
<1> QED
  BY <1>4 DEF B, m, DaySegments

\* Nor does the sweep that closes an activity at its lease.
LEMMA SweepKeepsDay ==
    ASSUME LedgerOK, NEW a \in Agent, lease[a] # None
    PROVE  /\ ClosedAt(a, lease[a]) \subseteq Interval
           /\ \A i \in ClosedAt(a, lease[a]) : i.end # None
           /\ Segments(ClosedAt(a, lease[a]), None, qualified[a], Day, Closing)
                 = DaySegments(a, Closing)
<1> DEFINE B == ClosedAt(a, lease[a])
<1>1. /\ lease[a] \in Nat /\ None \in Leases /\ lease[a] \in Leases
      /\ qualified[a] \subseteq Interval /\ activities[a] \subseteq Interval
      /\ Closing \in Nat
  BY SettlementAssumption DEF LedgerOK, Leases
<1>2. /\ B \subseteq Interval
      /\ \A i \in B : i.end # None
      /\ \A i \in activities[a] : \E j \in B : SameActivity(i, lease[a], j, None, Closing)
      /\ \A j \in B : \E i \in activities[a] : SameActivity(j, None, i, lease[a], Closing)
  BY <1>1, ClosedKeeps
<1> HIDE DEF B
<1>3. /\ Segments(activities[a], lease[a], qualified[a], Day, Closing)
            \subseteq Segments(B, None, qualified[a], Day, Closing)
      /\ Segments(B, None, qualified[a], Day, Closing)
            \subseteq Segments(activities[a], lease[a], qualified[a], Day, Closing)
  BY <1>1, <1>2, SegmentsAgree DEF SameQualification
<1> QED
  BY <1>2, <1>3 DEF B, DaySegments

\* Consent that changes when the day is over changes nothing about it.
LEMMA ConsentKeepsDay ==
    ASSUME LedgerOK, NEW a \in Agent, now \in Nat, Closing <= now, OptIn(a) \/ OptOut(a)
    PROVE  DaySegments(a, Closing)' = DaySegments(a, Closing)
<1> DEFINE Q == IF OptIn(a) THEN qualified[a] \cup {[start |-> now, end |-> None]}
                ELSE {IF q.end = None THEN [q EXCEPT !.end = now] ELSE q : q \in qualified[a]}
<1>1. Closing \in Nat /\ now # None
  BY SettlementAssumption, ScoringAssumption
<1>2. /\ Q \subseteq Interval
      /\ \A p \in qualified[a] : \E q \in Q : SameQualification(p, q, Closing)
      /\ \A q \in Q : q.start < Closing =>
            \E p \in qualified[a] : SameQualification(q, p, Closing)
  <2>1. CASE OptIn(a)
    <3> DEFINE late == [start |-> now, end |-> None]
    <3>1. Q = qualified[a] \cup {late}
      BY <2>1
    <3>2. late \in Interval /\ ~(late.start < Closing)
      BY <1>1 DEF Interval
    <3> HIDE DEF Q, late
    <3> QED
      BY <3>1, <3>2 DEF LedgerOK, SameQualification
  <2>2. CASE ~OptIn(a)
    <3> DEFINE f(q) == IF q.end = None THEN [q EXCEPT !.end = now] ELSE q
    <3>1. Q = {f(q) : q \in qualified[a]}
      BY <2>2
    <3>2. ASSUME NEW q \in qualified[a]
          PROVE  /\ f(q) \in Interval
                 /\ SameQualification(q, f(q), Closing)
                 /\ SameQualification(f(q), q, Closing)
      <4>1. q \in Interval
        BY DEF LedgerOK
      <4>2. q.end = None => /\ [q EXCEPT !.end = now] \in Interval
                            /\ [q EXCEPT !.end = now].end = now
                            /\ [q EXCEPT !.end = now].start = q.start
        BY <4>1 DEF Interval
      <4> QED
        BY <1>1, <4>1, <4>2 DEF SameQualification, EndOr, MinOf
    <3> HIDE DEF f, Q
    <3> QED
      BY <3>1, <3>2
  <2> QED
    BY <2>1, <2>2
<1>3. /\ lease[a] \in Leases
      /\ qualified[a] \subseteq Interval /\ activities[a] \subseteq Interval
  BY DEF LedgerOK
<1> HIDE DEF Q
<1>4. /\ Segments(activities[a], lease[a], qualified[a], Day, Closing)
            \subseteq Segments(activities[a], lease[a], Q, Day, Closing)
      /\ Segments(activities[a], lease[a], Q, Day, Closing)
            \subseteq Segments(activities[a], lease[a], qualified[a], Day, Closing)
  BY <1>2, <1>3, SegmentsAgree DEF SameActivity
<1>5. /\ UNCHANGED <<activities, lease>>
      /\ qualified'[a] = Q
  BY DEF OptIn, OptOut, LedgerOK, Q
<1> QED
  BY <1>4, <1>5 DEF DaySegments

-----------------------------------------------------------------------------
(***************************************************************************)
(* What a report that was received before the end of the day makes of it.  *)
(***************************************************************************)

\* Every qualification begins at u or later, or has ended by then.
PartsAt(Q, u) == \A q \in Q : q.start >= u \/ (q.end # None /\ q.end <= u)

LEMMA ClippedEnd ==
    ASSUME NEW i \in Interval, NEW l \in Leases, NEW u \in Nat, NEW c \in Nat, u <= c
    PROVE  MinOf(ActivityEnd(i, l, c), u) = MinOf(ActivityEnd(i, l, u), u)
<1>1. CASE i.end # None \/ l = None
  BY <1>1 DEF ActivityEnd
<1>2. CASE i.end = None /\ l # None
  <2>1. l \in Nat
    BY <1>2 DEF Leases
  <2>2. MinOf(MinOf(l, c), u) = MinOf(MinOf(l, u), u)
    BY <2>1 DEF MinOf
  <2> QED
    BY <1>2, <2>2 DEF ActivityEnd
<1> QED
  BY <1>1, <1>2

\* A segment of a qualification that ended by u ends by u, and depends on what
\* its activity is before u.
LEMMA SegmentBefore ==
    ASSUME NEW i \in Interval, NEW j \in Interval, NEW l \in Leases, NEW m \in Leases,
           NEW q \in Interval, NEW o \in [start : Nat, end : Nat],
           NEW u \in Nat, NEW c \in Nat, u <= c, q.end # None, q.end <= u,
           SameActivity(i, l, j, m, u)
    PROVE  /\ Segment(i, l, q, o, c) = Segment(j, m, q, o, c)
           /\ Segment(i, l, q, o, c).end <= u
<1> DEFINE x == ActivityEnd(i, l, c)
           v == ActivityEnd(j, m, c)
           y == q.end
<1>1. /\ x \in Nat /\ v \in Nat /\ y \in Nat /\ o.end \in Nat
      /\ y <= u
  BY EndTypes DEF Interval
<1>2. MinOf(x, u) = MinOf(v, u)
  BY ClippedEnd DEF SameActivity
<1>3. /\ Segment(i, l, q, o, c) = [start |-> Max({i.start, q.start, o.start}),
                                   end |-> Min({x, y, o.end, c})]
      /\ Segment(j, m, q, o, c) = [start |-> Max({j.start, q.start, o.start}),
                                   end |-> Min({v, y, o.end, c})]
  BY DEF Segment, EndOr
<1> HIDE DEF x, y, v
<1>4. \A a, b, d \in Nat : /\ Min({a, b, d, c}) \in {a, b, d, c}
                          /\ \A n \in {a, b, d, c} : Min({a, b, d, c}) <= n
  BY DEF Min
<1>5. /\ Min({x, y, o.end, c}) = Min({v, y, o.end, c})
      /\ Min({x, y, o.end, c}) <= u
  BY <1>1, <1>2, <1>4 DEF MinOf
<1> QED
  BY <1>3, <1>5 DEF SameActivity

\* The segments of the day.
LEMMA SegmentsOfDay ==
    ASSUME NEW A \in SUBSET Interval, NEW Q \in SUBSET Interval, NEW l \in Leases
    PROVE  LET S == Segments(A, l, Q, Day, Closing)
           IN /\ S \in SUBSET Segs
              /\ \A g \in S : g.end <= Closing
              /\ \A u \in Nat : PartsAt(Q, u) => Parted(S, u)
<1> DEFINE o == [start |-> Opening, end |-> Closing]
           S == Segments(A, l, Q, Day, Closing)
<1>1. /\ Closing \in Nat /\ o \in [start : Nat, end : Nat] /\ Day = {o}
      /\ Closing <= MaxInstant /\ MaxInstant \in Nat
  BY SettlementAssumption, DayAssumption DEF Day
<1> HIDE DEF o
<1>2. ASSUME NEW g \in S
      PROVE  /\ g \in Segs /\ g.end <= Closing
             /\ \A u \in Nat : PartsAt(Q, u) => g.start >= u \/ g.end <= u
  <2>1. PICK i \in A, q \in Q : g = Segment(i, l, q, o, Closing) /\ g.end > g.start
    BY <1>1 DEF Segments
  <2>2. /\ g.start \in Nat /\ g.end \in Nat /\ q.start <= g.start /\ g.end <= Closing
        /\ i \in Interval /\ q \in Interval /\ q.start \in Nat
    BY <1>1, <2>1, SegmentBounds DEF Interval
  <2>3. g = [start |-> g.start, end |-> g.end]
    BY <2>1 DEF Segment
  <2>4. g \in Segs
    <3>1. g.start < g.end /\ g.end <= MaxInstant
      BY <1>1, <2>1, <2>2
    <3> QED
      BY <2>2, <2>3, <3>1, SegIs
  <2>5. ASSUME NEW u \in Nat, PartsAt(Q, u)
        PROVE  g.start >= u \/ g.end <= u
    <3>1. CASE q.start >= u
      BY <2>2, <3>1
    <3>2. CASE q.end # None /\ q.end <= u
      <4>1. CASE u <= Closing
        <5>1. SameActivity(i, l, i, l, u)
          BY DEF SameActivity
        <5>2. Segment(i, l, q, o, Closing).end <= u
          BY <1>1, <2>2, <3>2, <4>1, <5>1, SegmentBefore
        <5> QED
          BY <2>1, <5>2
      <4>2. CASE Closing < u
        BY <1>1, <2>2, <4>2
      <4> QED
        BY <1>1, <4>1, <4>2
    <3> QED
      BY <2>5, <3>1, <3>2 DEF PartsAt
  <2> QED
    BY <2>2, <2>4, <2>5
<1> HIDE DEF S
<1>3. S \in SUBSET Segs /\ \A g \in S : g.end <= Closing
  BY <1>2
<1>4. \A u \in Nat : PartsAt(Q, u) => Parted(S, u)
  BY <1>2 DEF Parted
<1> QED
  BY <1>3, <1>4 DEF S

\* What begins before u is the same for two ledgers that agree until u.
LEMMA BeginsBefore ==
    ASSUME NEW A \in SUBSET Interval, NEW B \in SUBSET Interval, NEW Q \in SUBSET Interval,
           NEW l \in Leases, NEW m \in Leases, NEW u \in Nat, u <= Closing, PartsAt(Q, u),
           \A i \in A : i.start < u => \E j \in B : SameActivity(i, l, j, m, u)
    PROVE  {g \in Segments(A, l, Q, Day, Closing) : g.start < u}
              \subseteq Segments(B, m, Q, Day, Closing)
<1> DEFINE o == [start |-> Opening, end |-> Closing]
<1>1. Closing \in Nat /\ o \in [start : Nat, end : Nat] /\ Day = {o}
  BY SettlementAssumption DEF Day
<1> HIDE DEF o
<1> SUFFICES ASSUME NEW i \in A, NEW q \in Q, Segment(i, l, q, o, Closing).start < u,
                    Segment(i, l, q, o, Closing).end > Segment(i, l, q, o, Closing).start
             PROVE  \E j \in B : Segment(i, l, q, o, Closing) = Segment(j, m, q, o, Closing)
  BY <1>1 DEF Segments
<1>2. i.start < u /\ ~(q.start >= u)
  <2>1. i \in Interval /\ q \in Interval
    OBVIOUS
  <2> QED
    BY <1>1, <2>1, SegmentBounds DEF Interval
<1>3. q.end # None /\ q.end <= u
  BY <1>2 DEF PartsAt
<1>4. PICK j \in B : SameActivity(i, l, j, m, u)
  BY <1>2
<1> QED
  BY <1>1, <1>3, <1>4, SegmentBefore

\* A report that was received after the only consents it could count for had
\* ended, or before they began, and that close to the end of the day, changes
\* neither the score nor when it was reached.
LEMMA ReportKeepsScore ==
    ASSUME LedgerOK, NEW a \in Agent, NEW kind, NEW received \in Nat,
           NEW u \in Nat, u <= received, PartsAt(qualified[a], u),
           Closing < u + (Grace + 1) * Second
    PROVE  LET S == Segments(AfterReport(a, kind, received), received + LeaseTtl,
                             qualified[a], Day, Closing)
           IN /\ Slacked(S) = Slacked(DaySegments(a, Closing))
              /\ Reached(S) = Reached(DaySegments(a, Closing))
<1> DEFINE m == received + LeaseTtl
           B == AfterReport(a, kind, received)
           S == Segments(B, m, qualified[a], Day, Closing)
           V == Segments(activities[a], lease[a], qualified[a], Day, Closing)
<1>1. Closing \in Nat /\ m \in Leases
  BY SettlementAssumption DEF Leases
<1>2. /\ B \subseteq Interval
      /\ \A i \in activities[a] : \E j \in B : SameActivity(i, lease[a], j, m, u)
      /\ \A j \in B : j.start < u =>
            \E i \in activities[a] : SameActivity(j, m, i, lease[a], u)
  BY ReportKeeps
<1>3. qualified[a] \subseteq Interval /\ activities[a] \subseteq Interval /\ lease[a] \in Leases
  BY DEF LedgerOK
<1>4. CASE Closing <= u
  <2>1. Closing <= received
    BY <1>1, <1>4
  <2> QED
    BY <2>1, ReportKeepsDay
<1>5. CASE u <= Closing
  <2> HIDE DEF B, m
  <2>1. /\ S \in SUBSET Segs /\ Parted(S, u) /\ \A g \in S : g.end <= Closing
        /\ V \in SUBSET Segs /\ Parted(V, u) /\ \A g \in V : g.end <= Closing
    BY <1>1, <1>2, <1>3, SegmentsOfDay
  <2>2. {g \in S : g.start < u} \subseteq V /\ {g \in V : g.start < u} \subseteq S
    BY <1>1, <1>2, <1>3, <1>5, BeginsBefore
  <2> HIDE DEF S, V
  <2>3. {g \in S : g.start < u} = {g \in V : g.start < u}
    BY <2>2
  <2>4. Slacked(S) = Slacked(V) /\ Reached(S) = Reached(V)
    BY <1>1, <2>1, <2>3, GraceKeepsScore
  <2> QED
    BY <2>4 DEF S, V, B, m, DaySegments
<1> QED
  BY <1>1, <1>4, <1>5

-----------------------------------------------------------------------------
(***************************************************************************)
(* Types and locks.                                                        *)
(***************************************************************************)

\* Who has seen the mounts waits for the office or holds it, and nobody else
\* does; a sweep is about a lease.
LockOK ==
    \A a \in Agent :
       /\ holder = a => /\ tx[a] # None /\ tx[a].watched
                        /\ tx[a].stage \in {"draw", "apply"}
       /\ tx[a] # None =>
             /\ tx[a].stage = "wait" => tx[a].watched
             /\ tx[a].stage \in {"draw", "apply"} /\ tx[a].watched => holder = a
             /\ tx[a].kind = "sweep" => lease[a] # None

TInv ==
    /\ now \in Nat
    /\ LedgerOK
    /\ opted \subseteq Agent
    /\ tx \in [Agent -> Transaction \cup {None}]
    /\ reports \in [Agent -> Nat]
    /\ holder \in Agent \cup {None, Ticker}
    /\ settling \in Settling \cup {None}
    /\ result # None => Result(result)
    /\ holder = Ticker <=> settling # None /\ settling.stage # "wait"
    /\ LockOK

LEMMA Holders ==
    /\ None \notin Agent /\ Ticker \notin Agent /\ Ticker # None
    /\ \A n \in Nat : n # None
<1>1. Ticker \in Int /\ Ticker \notin Nat
  BY DEF Ticker
<1>2. None \notin Int /\ Agent \subseteq Nat /\ \A n \in Nat : n \in Int
  BY SettlementAssumption, ScoringAssumption
<1> QED
  BY <1>1, <1>2

LEMMA WinnerIsCandidate ==
    ASSUME NEW S, NEW t
    PROVE  Winner(S, t) \in S \cup {None}
BY DEF Winner, Leader, Standing

LEMMA ClosedType ==
    ASSUME LedgerOK, NEW a \in Agent, NEW t \in Nat
    PROVE  /\ ClosedAt(a, t) \subseteq Interval
           /\ \A i \in ClosedAt(a, t) : i.end # None
<1>1. \A i \in activities[a] : i \in Interval
  BY DEF LedgerOK
<1>2. \A i \in Interval : /\ [i EXCEPT !.end = t] \in Interval
                          /\ [i EXCEPT !.end = t].end = t
  BY DEF Interval
<1> QED
  BY <1>1, <1>2, Holders DEF ClosedAt

LEMMA ReportType ==
    ASSUME LedgerOK, NEW a \in Agent, NEW kind, NEW received \in Nat
    PROVE  AfterReport(a, kind, received) \subseteq Interval
<1>1. activities[a] \subseteq Interval /\ (lease[a] # None => lease[a] \in Nat)
  BY DEF LedgerOK, Leases
<1>2. [start |-> received, end |-> None] \in Interval
  BY DEF Interval
<1> QED
  BY <1>1, <1>2, ClosedType DEF AfterReport

\* A step of an agent's transaction before it writes.
LEMMA TransactionMoves ==
    ASSUME TInv, NEW a \in Agent, tx[a] # None
    PROVE  /\ ReadMounts(a) => \E t \in Transaction :
                 /\ tx' = [tx EXCEPT ![a] = t] /\ t.kind = tx[a].kind /\ t.since = tx[a].since
                 /\ t.watched = (a \in opted)
                 /\ t.stage = IF a \in opted THEN "wait" ELSE "draw"
           /\ LockOffice(a) => \E t \in Transaction :
                 /\ tx' = [tx EXCEPT ![a] = t] /\ t.kind = tx[a].kind /\ t.since = tx[a].since
                 /\ t.watched = tx[a].watched /\ t.stage = "draw"
           /\ DrawTime(a) => \E t \in Transaction :
                 /\ tx' = [tx EXCEPT ![a] = t] /\ t.kind = tx[a].kind /\ t.since = tx[a].since
                 /\ t.watched = tx[a].watched /\ t.stage = "apply" /\ t.received = now
<1> DEFINE u == tx[a]
           moved(w, s, n) == [kind |-> u.kind, stage |-> s, watched |-> w,
                              since |-> u.since, received |-> n]
<1>1. /\ now \in Nat /\ tx \in [Agent -> Transaction \cup {None}]
      /\ u \in Transaction /\ u = moved(u.watched, u.stage, u.received)
  BY DEF TInv, Transaction
<1>2. ASSUME NEW w \in BOOLEAN, NEW s \in {"wait", "draw", "apply"}, NEW n \in Nat
      PROVE  moved(w, s, n) \in Transaction
  BY <1>1 DEF Transaction
<1>3. u.watched \in BOOLEAN /\ u.received \in Nat
  BY <1>1 DEF Transaction
<1>4. CASE ReadMounts(a)
  <2> DEFINE w == a \in opted
             s == IF a \in opted THEN "wait" ELSE "draw"
             t == moved(w, s, u.received)
  <2>1. w \in BOOLEAN /\ s \in {"wait", "draw", "apply"}
    OBVIOUS
  <2>2. tx' = [tx EXCEPT ![a] = [u EXCEPT !.watched = w, !.stage = s]]
    BY <1>4 DEF ReadMounts
  <2>3. w = (a \in opted) /\ s = IF a \in opted THEN "wait" ELSE "draw"
    OBVIOUS
  <2> HIDE DEF w, s
  <2>4. [u EXCEPT !.watched = w, !.stage = s] = t
    <3> DEFINE v == [u EXCEPT !.watched = w]
    <3>1. v = moved(w, u.stage, u.received)
      BY <1>1
    <3> HIDE DEF u, v
    <3>2. [v EXCEPT !.stage = s] = t
      BY <3>1
    <3> HIDE DEF t
    <3> QED
      BY <3>2 DEF v
  <2>5. t \in Transaction
    BY <1>2, <1>3, <2>1
  <2>6. ~LockOffice(a) /\ ~DrawTime(a)
    BY <1>4 DEF ReadMounts, LockOffice, DrawTime
  <2>7. /\ tx' = [tx EXCEPT ![a] = t] /\ t.kind = tx[a].kind /\ t.since = tx[a].since
        /\ t.watched = w /\ t.stage = s
    BY <2>2, <2>4
  <2> QED
    BY <2>3, <2>5, <2>6, <2>7
<1>5. CASE LockOffice(a)
  <2> DEFINE t == moved(u.watched, "draw", u.received)
  <2>1. tx' = [tx EXCEPT ![a] = t]
    <3>1. [u EXCEPT !.stage = "draw"] = t
      BY <1>1
    <3>2. tx' = [tx EXCEPT ![a] = [u EXCEPT !.stage = "draw"]]
      BY <1>5 DEF LockOffice
    <3> QED
      BY <3>1, <3>2
  <2>2. t \in Transaction
    BY <1>2, <1>3
  <2> QED
    BY <1>5, <2>1, <2>2 DEF ReadMounts, LockOffice, DrawTime
<1>6. CASE DrawTime(a)
  <2> DEFINE t == moved(u.watched, "apply", now)
  <2>1. tx' = [tx EXCEPT ![a] = t]
    BY <1>1, <1>6 DEF DrawTime
  <2>2. t \in Transaction
    BY <1>1, <1>2, <1>3
  <2> QED
    BY <1>6, <2>1, <2>2 DEF ReadMounts, LockOffice, DrawTime
<1> QED
  BY <1>4, <1>5, <1>6

LEMMA TypeInit == SettlementInit => TInv
<1> SUFFICES ASSUME SettlementInit
             PROVE  TInv
  OBVIOUS
<1>1. \A a \in Agent : qualified[a] \subseteq Interval
  BY DEF SettlementInit, Interval
<1>2. LedgerOK
  BY <1>1 DEF SettlementInit, LedgerOK, Leases, OpenOf
<1> QED
  BY <1>2, Holders DEF SettlementInit, TInv, LockOK

LEMMA BeginTypes ==
    ASSUME TInv, NEW a \in Agent, NEW kind \in Kind, Begin(a, kind)
    PROVE  TInv'
<1> DEFINE t == [kind |-> kind, stage |-> "agent", watched |-> FALSE,
                 since |-> now, received |-> now]
<1>1. t \in Transaction /\ t.stage = "agent" /\ t.kind = kind /\ t # None
  <2>1. now \in Nat
    BY DEF TInv
  <2>2. t \in Transaction
    BY <2>1 DEF Transaction
  <2> QED
    BY <2>2, NoneAssumption
<1>2. /\ tx' = [tx EXCEPT ![a] = t] /\ tx[a] = None
      /\ reports' = [reports EXCEPT ![a] = @ + 1]
      /\ kind = "sweep" => lease[a] # None
      /\ UNCHANGED <<now, ledger, holder, tick, result>>
  BY DEF Begin
<1> HIDE DEF t
<1>3. LockOK'
  BY <1>1, <1>2 DEF TInv, LockOK, ledger
<1> QED
  BY <1>1, <1>2, <1>3 DEF TInv, LedgerOK, OpenOf, ledger, tick

LEMMA WorkTypes ==
    ASSUME TInv, NEW a \in Agent, ReadMounts(a) \/ LockOffice(a) \/ DrawTime(a)
    PROVE  TInv'
<1>1. /\ tx[a] # None
      /\ UNCHANGED <<now, ledger, reports, tick, result>>
  BY DEF ReadMounts, LockOffice, DrawTime
<1>2. PICK t \in Transaction : /\ tx' = [tx EXCEPT ![a] = t] /\ t.kind = tx[a].kind
                               /\ t.watched = IF ReadMounts(a) THEN a \in opted
                                              ELSE tx[a].watched
                               /\ t.stage \in {"wait", "draw", "apply"}
                               /\ t.stage = "wait" => ReadMounts(a) /\ a \in opted
                               /\ ReadMounts(a) /\ a \in opted => t.stage = "wait"
  <2>1. CASE ReadMounts(a)
    BY <1>1, <2>1, TransactionMoves
  <2>2. CASE ~ReadMounts(a)
    BY <1>1, <2>2, TransactionMoves
  <2> QED
    BY <2>1, <2>2
<1>3. t # None
  BY NoneAssumption
<1>4. LockOK' /\ (holder' = Ticker <=> holder = Ticker) /\ holder' \in Agent \cup {None, Ticker}
  <2>1. CASE ReadMounts(a)
    <3>1. holder' = holder /\ tx[a].stage = "agent"
      BY <2>1 DEF ReadMounts
    <3> QED
      BY <1>1, <1>2, <1>3, <2>1, <3>1 DEF TInv, LockOK, ledger
  <2>2. CASE ~ReadMounts(a) /\ LockOffice(a)
    <3>1. holder' = a /\ holder = None /\ tx[a].stage = "wait"
      BY <2>2 DEF LockOffice
    <3> QED
      BY <1>1, <1>2, <1>3, <2>2, <3>1, Holders DEF TInv, LockOK, ledger
  <2>3. CASE ~ReadMounts(a) /\ DrawTime(a)
    <3>1. holder' = holder /\ tx[a].stage = "draw"
      BY <2>3 DEF DrawTime
    <3> QED
      BY <1>1, <1>2, <1>3, <2>3, <3>1 DEF TInv, LockOK, ledger
  <2> QED
    BY <2>1, <2>2, <2>3
<1> QED
  BY <1>1, <1>2, <1>4 DEF TInv, LedgerOK, OpenOf, ledger, tick

LEMMA ApplyTypes ==
    ASSUME TInv, NEW a \in Agent, ApplyReport(a) \/ ApplySweep(a)
    PROVE  TInv'
<1>1. tx[a] \in Transaction /\ tx[a] # None /\ tx[a].received \in Nat /\ tx[a].stage = "apply"
  BY DEF TInv, ApplyReport, ApplySweep, Transaction
<1>2. LedgerOK'
  <2>1. CASE ApplyReport(a)
    <3> DEFINE B == AfterReport(a, tx[a].kind, tx[a].received)
               m == tx[a].received + LeaseTtl
    <3>1. B \subseteq Interval /\ m \in Nat /\ m # None /\ m \in Leases
      BY <1>1, ReportType, Holders, SettlementAssumption DEF TInv, Leases
    <3>2. /\ activities' = [activities EXCEPT ![a] = B]
          /\ lease' = [lease EXCEPT ![a] = m] /\ qualified' = qualified
      BY <2>1 DEF ApplyReport
    <3> HIDE DEF B, m
    <3> QED
      BY <3>1, <3>2 DEF TInv, LedgerOK, OpenOf
  <2>2. CASE ApplySweep(a)
    <3> DEFINE B == ClosedAt(a, lease[a])
    <3>1. lease[a] \in Nat
      BY <1>1, <2>2 DEF ApplySweep, TInv, LockOK, LedgerOK, Leases
    <3>2. B \subseteq Interval /\ \A i \in B : i.end # None
      BY <3>1, ClosedType DEF TInv
    <3>3. /\ activities' = [activities EXCEPT ![a] = B]
          /\ lease' = [lease EXCEPT ![a] = None] /\ qualified' = qualified
      BY <2>2 DEF ApplySweep
    <3> HIDE DEF B
    <3> QED
      BY <3>2, <3>3 DEF TInv, LedgerOK, OpenOf, Leases
  <2> QED
    BY <2>1, <2>2
<1>3. /\ tx' = [tx EXCEPT ![a] = None] /\ holder' = Freed(a)
      /\ \A b \in Agent \ {a} : lease'[b] = lease[b]
      /\ UNCHANGED <<now, opted, reports, settling, result>>
  BY DEF ApplyReport, ApplySweep, TInv, LedgerOK, tick
<1>4. LockOK' /\ (holder' = Ticker <=> holder = Ticker) /\ holder' \in Agent \cup {None, Ticker}
  <2>1. tx[a].watched => holder = a
    BY <1>1 DEF TInv, LockOK
  <2> QED
    BY <1>1, <1>3, <2>1, Holders DEF TInv, LockOK, Freed
<1> QED
  BY <1>2, <1>3, <1>4 DEF TInv

LEMMA AbortTypes ==
    ASSUME TInv, NEW a \in Agent, Abort(a)
    PROVE  TInv'
<1>1. /\ tx' = [tx EXCEPT ![a] = None]
      /\ holder' = IF holder = a THEN None ELSE holder
      /\ UNCHANGED <<now, ledger, reports, tick, result>>
  BY DEF Abort
<1>2. LockOK'
  BY <1>1, Holders DEF TInv, LockOK, ledger
<1> QED
  BY <1>1, <1>2, Holders DEF TInv, LedgerOK, OpenOf, ledger, tick

LEMMA ConsentTypes ==
    ASSUME TInv, NEW a \in Agent, OptIn(a) \/ OptOut(a)
    PROVE  TInv'
<1>1. now \in Nat
  BY DEF TInv
<1>2. qualified' \in [Agent -> SUBSET Interval]
  <2>1. CASE OptIn(a)
    <3>1. [start |-> now, end |-> None] \in Interval
      BY <1>1 DEF Interval
    <3> QED
      BY <2>1, <3>1 DEF OptIn, TInv, LedgerOK
  <2>2. CASE OptOut(a)
    <3>1. \A q \in Interval : [q EXCEPT !.end = now] \in Interval
      BY <1>1 DEF Interval
    <3> QED
      BY <2>2, <3>1 DEF OptOut, TInv, LedgerOK
  <2> QED
    BY <2>1, <2>2
<1>3. UNCHANGED <<now, activities, lease, tx, reports, holder, settling, result>>
  BY DEF OptIn, OptOut, tick
<1>4. opted' \subseteq Agent
  BY DEF OptIn, OptOut, TInv
<1> QED
  BY <1>2, <1>3, <1>4 DEF TInv, LedgerOK, OpenOf, LockOK

LEMMA TickTypes ==
    ASSUME TInv,
           \/ TickStarts \/ TickLocks \/ TickPasses \/ TickScores \/ TickInserts \/ TickFails
    PROVE  TInv'
<1>1. UNCHANGED <<now, ledger, tx, reports>>
  BY DEF TickStarts, TickLocks, TickPasses, TickScores, TickInserts, TickFails
<1>2. LedgerOK'
  BY <1>1 DEF TInv, LedgerOK, OpenOf, ledger
<1>3. CASE TickStarts
  <2>1. settling' \in Settling /\ settling'.stage = "wait"
    BY <1>3, SettlementAssumption DEF TickStarts, Settling, TInv
  <2> QED
    BY <1>1, <1>2, <1>3, <2>1 DEF TInv, TickStarts, LockOK, ledger
<1>4. CASE TickLocks
  <2>1. settling' \in Settling /\ settling'.stage = "read"
    BY <1>4 DEF TickLocks, Settling, TInv
  <2> QED
    BY <1>1, <1>2, <1>4, <2>1, Holders, NoneAssumption DEF TInv, TickLocks, LockOK, ledger
<1>5. CASE TickScores
  <2>1. settling \in Settling /\ Winner(opted, Closing) \in Agent \cup {None}
    BY <1>5, WinnerIsCandidate DEF TInv, TickScores
  <2>2. settling' \in Settling /\ settling'.stage = "insert"
    BY <1>5, <2>1 DEF TickScores, Settling
  <2> QED
    BY <1>1, <1>2, <1>5, <2>2, NoneAssumption DEF TInv, TickScores, LockOK, ledger
<1>6. CASE TickPasses \/ TickInserts \/ TickFails
  <2>1. settling' = None /\ (holder' = None \/ (holder' = holder /\ holder # Ticker))
    BY <1>6 DEF TickPasses, TickInserts, TickFails
  <2>2. holder' = None => holder \in {None, Ticker}
    BY <1>6, Holders DEF TickPasses, TickInserts, TickFails, TInv
  <2>3. result' # None => Result(result)'
    <3>1. CASE TickInserts
      <4>1. /\ result'.winner = settling.winner /\ result'.counted = opted
            /\ result'.at = now
        BY <3>1 DEF TickInserts
      <4>2. settling.winner \in Agent \cup {None}
        BY <3>1 DEF TickInserts, TInv, Settling
      <4> QED
        BY <4>1, <4>2 DEF TInv, Result
    <3>2. CASE TickPasses \/ TickFails
      BY <3>2 DEF TickPasses, TickFails, TInv, Result
    <3> QED
      BY <1>6, <3>1, <3>2
  <2> QED
    BY <1>1, <1>2, <2>1, <2>2, <2>3, Holders DEF TInv, LockOK, ledger
<1> QED
  BY <1>3, <1>4, <1>5, <1>6

LEMMA TypeStep == TInv /\ [SettlementNext]_settlementVars => TInv'
<1> SUFFICES ASSUME TInv, [SettlementNext]_settlementVars
             PROVE  TInv'
  OBVIOUS
<1>1. ASSUME NEW a \in Agent, NEW kind \in Kind, Begin(a, kind)
      PROVE  TInv'
  BY <1>1, BeginTypes
<1>2. ASSUME NEW a \in Agent, Work(a)
      PROVE  TInv'
  BY <1>2, WorkTypes, ApplyTypes DEF Work
<1>3. ASSUME NEW a \in Agent, Abort(a) \/ OptIn(a) \/ OptOut(a)
      PROVE  TInv'
  BY <1>3, AbortTypes, ConsentTypes
<1>4. CASE \/ TickStarts \/ TickLocks \/ TickPasses \/ TickScores \/ TickInserts \/ TickFails
  BY <1>4, TickTypes
<1>5. CASE PassTime \/ UNCHANGED settlementVars
  <2>1. /\ now' \in Nat
        /\ UNCHANGED <<activities, lease, opted, qualified, tx, reports, holder, settling, result>>
    BY <1>5 DEF PassTime, settlementVars, ledger, tick, TInv
  <2> QED
    BY <2>1 DEF TInv, LedgerOK, OpenOf, LockOK, Result
<1> QED
  BY <1>1, <1>2, <1>3, <1>4, <1>5 DEF SettlementNext

\* The types are right and the locks are given back, whatever happens.
THEOREM TypesAndLocks == SettlementSpec => []SettlementTypeOK
<1>1. TInv => SettlementTypeOK
  BY DEF TInv, LedgerOK, Leases, LockOK, SettlementTypeOK
<1> QED
  BY <1>1, TypeInit, TypeStep, PTL DEF SettlementSpec

-----------------------------------------------------------------------------
(***************************************************************************)
(* Who reports without having seen that its mount takes part.              *)
(***************************************************************************)

\* A transaction that read its mounts while its agent took no part.
Unwatched(a) == tx[a] # None /\ tx[a].stage \in {"draw", "apply"} /\ ~tx[a].watched

\* It read them at u.
ReadAt(a, u) ==
    /\ tx[a].stage = "apply" => u <= tx[a].received
    /\ PartsAt(qualified[a], u)

ConsentOf(a) ==
    /\ \A q \in qualified[a] : q.start <= now /\ (q.end # None => q.end <= now)
    /\ a \notin opted => \A q \in qualified[a] : q.end # None
    /\ tx[a] # None => tx[a].since <= now /\ now <= tx[a].since + MaxOpen
    /\ Unwatched(a) => \E u \in tx[a].since .. now : ReadAt(a, u)

ConsentOK == \A a \in Agent : ConsentOf(a)

LEMMA ConsentInit == SettlementInit => ConsentOK
<1> SUFFICES ASSUME SettlementInit, NEW a \in Agent
             PROVE  ConsentOf(a)
  BY DEF ConsentOK
<1>1. \A q \in qualified[a] : q.start = 0 /\ q.end = None /\ a \in opted
  BY DEF SettlementInit
<1>2. now = 0 /\ tx[a] = None
  BY DEF SettlementInit
<1> QED
  BY <1>1, <1>2 DEF ConsentOf, Unwatched

LEMMA ConsentUntouched ==
    ASSUME NEW a \in Agent, ConsentOf(a), tx'[a] = tx[a], qualified'[a] = qualified[a],
           a \in opted' <=> a \in opted, now' = now
    PROVE  ConsentOf(a)'
BY DEF ConsentOf, Unwatched, ReadAt

\* A transaction on its way.
LEMMA ConsentWork ==
    ASSUME TInv, NEW a \in Agent, ConsentOf(a), Work(a)
    PROVE  ConsentOf(a)'
<1>1. UNCHANGED <<now, opted, qualified>> /\ tx[a] # None /\ now \in Nat /\ tx[a].since \in Nat
  BY DEF Work, ReadMounts, LockOffice, DrawTime, ApplyReport, ApplySweep, ledger, TInv, Transaction
<1>2. tx[a].since <= now /\ now <= tx[a].since + MaxOpen
  BY <1>1 DEF ConsentOf
<1>3. CASE ApplyReport(a) \/ ApplySweep(a)
  <2>1. tx'[a] = None
    BY <1>3 DEF ApplyReport, ApplySweep, TInv
  <2> QED
    BY <1>1, <2>1 DEF ConsentOf, Unwatched
<1>4. CASE ReadMounts(a) \/ LockOffice(a) \/ DrawTime(a)
  <2>1. PICK t \in Transaction :
           /\ tx' = [tx EXCEPT ![a] = t] /\ t.since = tx[a].since
           /\ ReadMounts(a) => t.stage = IF a \in opted THEN "wait" ELSE "draw"
           /\ LockOffice(a) => t.watched = tx[a].watched
           /\ DrawTime(a) => t.watched = tx[a].watched /\ t.received = now
    BY <1>1, <1>4, TransactionMoves DEF ReadMounts, LockOffice, DrawTime
  <2>2. tx'[a] = t
    BY <2>1 DEF TInv
  <2>3. ASSUME Unwatched(a)'
        PROVE  \E u \in t.since .. now : ReadAt(a, u)'
    <3>1. CASE ReadMounts(a)
      <4>1. a \notin opted /\ t.stage = "draw"
        BY <2>1, <2>2, <2>3, <3>1 DEF Unwatched
      <4>2. PartsAt(qualified[a], now)
        BY <4>1 DEF ConsentOf, PartsAt
      <4>3. ASSUME NEW u, u = now
            PROVE  ReadAt(a, u)'
        BY <1>1, <2>2, <4>1, <4>2, <4>3 DEF ReadAt
      <4>4. t.since = tx[a].since
        BY <2>1
      <4>5. now \in t.since .. now
        BY <1>1, <1>2, <4>4
      <4> QED
        BY <4>3, <4>5
    <3>2. CASE LockOffice(a)
      <4>1. tx[a].watched
        BY <1>1, <3>2 DEF LockOffice, TInv, LockOK
      <4> QED
        BY <2>1, <2>2, <2>3, <3>2, <4>1 DEF Unwatched
    <3>3. CASE DrawTime(a)
      <4>1. Unwatched(a)
        BY <1>1, <2>1, <2>2, <2>3, <3>3 DEF Unwatched, DrawTime
      <4>2. PICK u \in tx[a].since .. now : PartsAt(qualified[a], u)
        BY <4>1 DEF ConsentOf, ReadAt
      <4>3. u <= t.received
        BY <1>1, <2>1, <3>3
      <4>4. ReadAt(a, u)'
        BY <1>1, <2>2, <4>2, <4>3 DEF ReadAt
      <4> QED
        BY <2>1, <4>2, <4>4
    <3> QED
      BY <1>4, <3>1, <3>2, <3>3
  <2> QED
    BY <1>1, <1>2, <2>1, <2>2, <2>3 DEF ConsentOf
<1> QED
  BY <1>3, <1>4 DEF Work

\* Consent changes at the time it changes.
LEMMA ConsentMoves ==
    ASSUME TInv, NEW a \in Agent, ConsentOf(a), OptIn(a) \/ OptOut(a)
    PROVE  ConsentOf(a)'
<1>1. UNCHANGED <<now, tx>> /\ now \in Nat /\ now # None
  BY Holders DEF OptIn, OptOut, TInv
<1>2. \A q \in qualified[a] : q \in Interval
  BY DEF TInv, LedgerOK
<1>3. /\ \A q \in qualified'[a] : q.start <= now /\ (q.end # None => q.end <= now)
      /\ a \notin opted' => \A q \in qualified'[a] : q.end # None
      /\ \A u \in Nat : u <= now /\ PartsAt(qualified[a], u) => PartsAt(qualified'[a], u)
  <2>1. CASE OptIn(a)
    <3> DEFINE late == [start |-> now, end |-> None]
    <3>1. qualified'[a] = qualified[a] \cup {late} /\ a \in opted'
      BY <2>1 DEF OptIn, TInv, LedgerOK
    <3>2. late.start = now /\ late.end = None
      OBVIOUS
    <3> HIDE DEF late
    <3> QED
      BY <1>1, <3>1, <3>2 DEF ConsentOf, PartsAt
  <2>2. CASE OptOut(a)
    <3> DEFINE f(q) == IF q.end = None THEN [q EXCEPT !.end = now] ELSE q
    <3>1. qualified'[a] = {f(q) : q \in qualified[a]}
      BY <2>2 DEF OptOut, TInv, LedgerOK
    <3>2. ASSUME NEW q \in qualified[a]
          PROVE  /\ f(q).start = q.start
                 /\ f(q).end = IF q.end = None THEN now ELSE q.end
      BY <1>2 DEF Interval
    <3> HIDE DEF f
    <3> QED
      BY <1>1, <3>1, <3>2 DEF ConsentOf, PartsAt
  <2> QED
    BY <2>1, <2>2
<1>4. ASSUME Unwatched(a)'
      PROVE  (\E u \in tx[a].since .. now : ReadAt(a, u))'
  <2>1. Unwatched(a) /\ tx[a].since \in Nat
    BY <1>1, <1>4 DEF Unwatched, TInv, Transaction
  <2>2. PICK u \in tx[a].since .. now : ReadAt(a, u)
    BY <2>1 DEF ConsentOf
  <2>3. ReadAt(a, u)'
    BY <1>1, <1>3, <2>1, <2>2 DEF ReadAt
  <2> QED
    BY <1>1, <2>2, <2>3
<1> QED
  BY <1>1, <1>3, <1>4 DEF ConsentOf

LEMMA ConsentStep == TInv /\ ConsentOK /\ [SettlementNext]_settlementVars => ConsentOK'
<1> SUFFICES ASSUME TInv, ConsentOK, [SettlementNext]_settlementVars, NEW a \in Agent
             PROVE  ConsentOf(a)'
  BY DEF ConsentOK
<1>1. ConsentOf(a) /\ now \in Nat
  BY DEF ConsentOK, TInv
<1>2. ASSUME NEW b \in Agent, \/ \E kind \in Kind : Begin(b, kind)
                              \/ Work(b) \/ Abort(b) \/ OptIn(b) \/ OptOut(b),
             b # a
      PROVE  ConsentOf(a)'
  <2>1. tx'[a] = tx[a] /\ qualified'[a] = qualified[a] /\ (a \in opted' <=> a \in opted) /\ now' = now
    <3>1. CASE \E kind \in Kind : Begin(b, kind)
      BY <1>2, <3>1 DEF Begin, ledger, TInv
    <3>2. CASE Work(b)
      BY <1>2, <3>2 DEF Work, ReadMounts, LockOffice, DrawTime, ApplyReport, ApplySweep, ledger, TInv
    <3>3. CASE Abort(b)
      BY <1>2, <3>3 DEF Abort, ledger, TInv
    <3>4. CASE OptIn(b) \/ OptOut(b)
      BY <1>2, <3>4 DEF OptIn, OptOut, TInv, LedgerOK
    <3> QED
      BY <1>2, <3>1, <3>2, <3>3, <3>4
  <2> QED
    BY <1>1, <2>1, ConsentUntouched
<1>3. ASSUME NEW kind \in Kind, Begin(a, kind)
      PROVE  ConsentOf(a)'
  <2>1. UNCHANGED <<now, opted, qualified>>
    BY <1>3 DEF Begin, ledger
  <2>2. tx'[a].stage = "agent" /\ tx'[a].since = now
    BY <1>3 DEF Begin, TInv
  <2>3. now <= now + MaxOpen
    BY <1>1, SettlementAssumption
  <2> QED
    BY <1>1, <2>1, <2>2, <2>3 DEF ConsentOf, Unwatched
<1>4. CASE Abort(a)
  <2>1. UNCHANGED <<now, opted, qualified>> /\ tx'[a] = None
    BY <1>4 DEF Abort, ledger, TInv
  <2> QED
    BY <1>1, <2>1 DEF ConsentOf, Unwatched
<1>5. CASE PassTime
  <2>1. UNCHANGED <<tx, opted, qualified>> /\ now' = now + 1
    BY <1>5 DEF PassTime, ledger
  <2>2. tx[a] # None => /\ tx[a].since \in Nat
                        /\ now + 1 <= tx[a].since + MaxOpen /\ tx[a].since <= now + 1
    BY <1>1, <1>5, SettlementAssumption DEF PassTime, TInv, Transaction, ConsentOf
  <2>3. Unwatched(a)' => (\E u \in tx[a].since .. now : ReadAt(a, u))'
    <3> SUFFICES ASSUME Unwatched(a)'
                 PROVE  (\E u \in tx[a].since .. now : ReadAt(a, u))'
      OBVIOUS
    <3>1. Unwatched(a)
      BY <2>1 DEF Unwatched
    <3>2. PICK u \in tx[a].since .. now : ReadAt(a, u)
      BY <1>1, <3>1 DEF ConsentOf
    <3>3. tx[a].since \in Nat
      BY <2>2, <3>1 DEF Unwatched
    <3>4. u \in tx[a].since .. now + 1
      BY <1>1, <3>2, <3>3
    <3>5. ReadAt(a, u)'
      BY <2>1, <3>2 DEF ReadAt
    <3> QED
      BY <2>1, <3>4, <3>5
  <2>4. /\ \A q \in qualified[a] : q.start <= now + 1 /\ (q.end # None => q.end <= now + 1)
        /\ a \notin opted => \A q \in qualified[a] : q.end # None
    <3>1. \A q \in qualified[a] : q.start \in Nat /\ (q.end # None => q.end \in Nat)
      BY DEF TInv, LedgerOK, Interval
    <3> QED
      BY <1>1, <3>1 DEF ConsentOf
  <2> QED
    BY <2>1, <2>2, <2>3, <2>4 DEF ConsentOf
<1>6. CASE \/ TickStarts \/ TickLocks \/ TickPasses \/ TickScores \/ TickInserts \/ TickFails
           \/ UNCHANGED settlementVars
  <2>1. UNCHANGED <<now, opted, qualified, tx>>
    BY <1>6 DEF TickStarts, TickLocks, TickPasses, TickScores, TickInserts, TickFails,
                settlementVars, ledger
  <2> QED
    BY <1>1, <2>1, ConsentUntouched
<1>7. ASSUME Work(a) \/ OptIn(a) \/ OptOut(a)
      PROVE  ConsentOf(a)'
  BY <1>1, <1>7, ConsentWork, ConsentMoves
<1> QED
  BY <1>2, <1>3, <1>4, <1>5, <1>6, <1>7 DEF SettlementNext

-----------------------------------------------------------------------------
(***************************************************************************)
(* The settled day.                                                        *)
(***************************************************************************)

\* An opt-in does not overtake a report: who takes part now had opted in when
\* the transaction of its agent read the mounts.
NoOptInOvertakes ==
    \A a \in opted : tx[a] # None /\ tx[a].stage # "agent" => tx[a].watched

\* Who has waited for the office lock holds it back for the settlement.
WatchedHold ==
    result # None =>
       \A a \in result.counted :
          tx[a] # None /\ tx[a].stage = "apply" /\ tx[a].watched => tx[a].received >= result.at

SInv ==
    /\ settling # None => settling.asOf <= now
    /\ settling # None /\ settling.stage = "insert" =>
          /\ Closing <= now
          /\ settling.winner = Winner(opted, Closing)
          /\ scored = ScoreOf(settling.winner)
    /\ result # None => Closing <= result.at /\ result.at <= now
    /\ SettledMatchesLedger
    /\ WatchedHold

\* Why a report whose transaction is not watched does not change a score: there
\* is none of those who take part, or it is open for no longer than the grace.
Harmless ==
    \/ NoOptInOvertakes /\ WatermarkHolds
    \/ ConsentOK /\ MaxOpen < (Grace + 1) * Second

\* The day of these agents is scored as it was.
LEMMA ScoresStay ==
    ASSUME NEW S, \A a \in S : Standing(a, Closing)' = Standing(a, Closing)
    PROVE  /\ Winner(S, Closing)' = Winner(S, Closing)
           /\ \A a \in S : DayScore(a, Closing)' = DayScore(a, Closing)
<1>1. \A a \in S : DayScore(a, Closing)' = DayScore(a, Closing)
  <2>1. \A a : /\ Standing(a, Closing).score = DayScore(a, Closing)
               /\ Standing(a, Closing)'.score = DayScore(a, Closing)'
    BY DEF Standing
  <2> QED
    BY <2>1
<1>2. {Standing(a, Closing) : a \in {c \in S : DayScore(c, Closing) > 0}}'
         = {Standing(a, Closing) : a \in {c \in S : DayScore(c, Closing) > 0}}
  BY <1>1
<1>3. Winner(S, Closing)' = Winner(S, Closing)
  BY <1>2 DEF Winner
<1> QED
  BY <1>1, <1>3

LEMMA SettledStays ==
    ASSUME result # None, SettledMatchesLedger, result' = result,
           \A a \in result.counted : Standing(a, Closing)' = Standing(a, Closing)
    PROVE  SettledMatchesLedger'
<1>1. /\ Winner(result.counted, Closing)' = Winner(result.counted, Closing)
      /\ \A a \in result.counted : DayScore(a, Closing)' = DayScore(a, Closing)
  <2>1. ASSUME NEW S, S = result.counted
        PROVE  /\ Winner(S, Closing)' = Winner(S, Closing)
               /\ \A a \in S : DayScore(a, Closing)' = DayScore(a, Closing)
    BY <2>1, ScoresStay
  <2> QED
    BY <2>1
<1>2. result.winner \in result.counted \cup {None}
  BY WinnerIsCandidate DEF SettledMatchesLedger
<1> QED
  BY <1>1, <1>2 DEF SettledMatchesLedger, ScoreOf

LEMMA SameStanding ==
    ASSUME NEW a, DaySegments(a, Closing)' = DaySegments(a, Closing)
    PROVE  Standing(a, Closing)' = Standing(a, Closing)
BY DEF Standing, DayScore

\* A report of a transaction that is not watched, while the day is over.
LEMMA LateReport ==
    ASSUME TInv, NEW a \in Agent, Closing <= now, ApplyReport(a), Unwatched(a), ConsentOf(a),
           MaxOpen < (Grace + 1) * Second
    PROVE  Standing(a, Closing)' = Standing(a, Closing)
<1> DEFINE d == (Grace + 1) * Second
           r == tx[a].received
           S == Segments(AfterReport(a, tx[a].kind, r), r + LeaseTtl, qualified[a], Day, Closing)
<1>1. /\ now \in Nat /\ Closing \in Nat /\ MaxOpen \in Nat /\ d \in Int /\ MaxOpen < d
      /\ tx[a] # None /\ tx[a].since \in Nat /\ r \in Nat /\ tx[a].stage = "apply"
  <2>1. Grace + 1 \in Int
    BY ScoringAssumption
  <2>2. d \in Int
    BY <2>1, Products
  <2> QED
    BY <2>2, SettlementAssumption DEF TInv, ApplyReport, Transaction
<1>2. PICK u \in tx[a].since .. now : u <= r /\ PartsAt(qualified[a], u)
  BY <1>1 DEF ConsentOf, ReadAt
<1>3. now <= tx[a].since + MaxOpen
  BY <1>1 DEF ConsentOf
<1>4. Closing < u + d /\ u \in Nat
  <2> HIDE DEF d
  <2> QED
    BY <1>1, <1>2, <1>3
<1>5. /\ activities'[a] = AfterReport(a, tx[a].kind, r)
      /\ lease'[a] = r + LeaseTtl /\ qualified' = qualified
  BY DEF ApplyReport, TInv, LedgerOK
<1>6. DaySegments(a, Closing)' = S
  BY <1>5 DEF DaySegments
<1>7. Slacked(S) = Slacked(DaySegments(a, Closing)) /\ Reached(S) = Reached(DaySegments(a, Closing))
  <2>1. LedgerOK
    BY DEF TInv
  <2> QED
    BY <1>1, <1>2, <1>4, <2>1, ReportKeepsScore
<1> HIDE DEF S
<1> QED
  BY <1>6, <1>7 DEF Standing, DayScore

\* Which steps may change what an agent has when its day is over: a report that
\* was received before its end.
LEMMA StandingStays ==
    ASSUME TInv, SettlementNext, NEW a \in Agent, Closing <= now,
           ApplyReport(a) =>
              \/ Closing <= tx[a].received
              \/ Unwatched(a) /\ ConsentOf(a) /\ MaxOpen < (Grace + 1) * Second
    PROVE  Standing(a, Closing)' = Standing(a, Closing)
<1>1. SUFFICES ASSUME ~ UNCHANGED <<activities[a], lease[a], qualified[a]>>
               PROVE  Standing(a, Closing)' = Standing(a, Closing)
  BY SameStanding DEF DaySegments
<1>2. ApplyReport(a) \/ ApplySweep(a) \/ OptIn(a) \/ OptOut(a)
  <2>1. ASSUME NEW b \in Agent, ApplyReport(b) \/ ApplySweep(b) \/ OptIn(b) \/ OptOut(b)
        PROVE  a = b
    BY <1>1, <2>1 DEF TInv, LedgerOK, ApplyReport, ApplySweep, OptIn, OptOut
  <2>2. ASSUME NEW b \in Agent,
               \/ \E kind \in Kind : Begin(b, kind)
               \/ ReadMounts(b) \/ LockOffice(b) \/ DrawTime(b) \/ Abort(b)
        PROVE  FALSE
    BY <1>1, <2>2 DEF Begin, ReadMounts, LockOffice, DrawTime, Abort, ledger
  <2>3. ~(\/ TickStarts \/ TickLocks \/ TickPasses \/ TickScores \/ TickInserts \/ TickFails
          \/ PassTime)
    BY <1>1 DEF TickStarts, TickLocks, TickPasses, TickScores, TickInserts, TickFails,
                PassTime, ledger
  <2>4. PICK b \in Agent : (\E kind \in Kind : Begin(b, kind)) \/ Work(b) \/ Abort(b)
                           \/ OptIn(b) \/ OptOut(b)
    BY <2>3 DEF SettlementNext
  <2> QED
    BY <2>1, <2>2, <2>4 DEF Work
<1>3. CASE ApplyReport(a) /\ Closing <= tx[a].received
  <2>1. tx[a].received \in Nat /\ LedgerOK
    BY <1>3 DEF ApplyReport, TInv, Transaction
  <2>2. /\ activities'[a] = AfterReport(a, tx[a].kind, tx[a].received)
        /\ lease'[a] = tx[a].received + LeaseTtl
        /\ qualified' = qualified
    BY <1>3 DEF ApplyReport, TInv, LedgerOK
  <2>3. DaySegments(a, Closing)' = DaySegments(a, Closing)
    BY <1>3, <2>1, <2>2, ReportKeepsDay DEF DaySegments
  <2> QED
    BY <2>3, SameStanding
<1>4. CASE ApplySweep(a)
  <2>1. lease[a] # None /\ LedgerOK
    BY <1>4 DEF ApplySweep, TInv, LockOK
  <2>2. /\ activities'[a] = ClosedAt(a, lease[a])
        /\ lease'[a] = None
        /\ qualified' = qualified
    BY <1>4 DEF ApplySweep, TInv, LedgerOK
  <2>3. DaySegments(a, Closing)' = DaySegments(a, Closing)
    BY <2>1, <2>2, SweepKeepsDay DEF DaySegments
  <2> QED
    BY <2>3, SameStanding
<1>5. CASE OptIn(a) \/ OptOut(a)
  BY <1>5, ConsentKeepsDay, SameStanding DEF TInv
<1>6. CASE ApplyReport(a) /\ ~(Closing <= tx[a].received)
  BY <1>6, LateReport
<1> QED
  BY <1>2, <1>3, <1>4, <1>5, <1>6

\* Time does not go back, and who writes the result is the tick.
LEMMA Moves ==
    ASSUME TInv, SettlementNext
    PROVE  /\ now' \in Nat /\ now <= now'
           /\ UNCHANGED now \/ PassTime
           /\ result' = result \/ TickInserts
<1>1. UNCHANGED now \/ PassTime
  BY DEF SettlementNext, Begin, Work, ReadMounts, LockOffice, DrawTime, ApplyReport, ApplySweep,
         Abort, OptIn, OptOut, TickStarts, TickLocks, TickPasses, TickScores, TickInserts, TickFails
<1>2. result' = result \/ TickInserts
  BY DEF SettlementNext, Begin, Work, ReadMounts, LockOffice, DrawTime, ApplyReport, ApplySweep,
         Abort, OptIn, OptOut, TickStarts, TickLocks, TickPasses, TickScores, TickFails, PassTime
<1> QED
  BY <1>1, <1>2 DEF PassTime, TInv

\* Only a transaction that draws its time comes to write.
LEMMA OnlyDrawn ==
    ASSUME TInv, SettlementNext, NEW a \in Agent, ~DrawTime(a),
           tx'[a] # None, tx'[a].stage = "apply"
    PROVE  tx'[a] = tx[a]
<1> SUFFICES ASSUME tx' # tx
             PROVE  tx'[a] = tx[a]
  OBVIOUS
<1>1. PICK b \in Agent : (\E kind \in Kind : Begin(b, kind)) \/ Work(b) \/ Abort(b)
  <2>1. ~(\/ TickStarts \/ TickLocks \/ TickPasses \/ TickScores \/ TickInserts \/ TickFails
          \/ PassTime)
    BY DEF TickStarts, TickLocks, TickPasses, TickScores, TickInserts, TickFails, PassTime
  <2>2. ~(\E b \in Agent : OptIn(b) \/ OptOut(b))
    BY DEF OptIn, OptOut
  <2> QED
    BY <2>1, <2>2 DEF SettlementNext
<1>2. PICK t : /\ tx' = [tx EXCEPT ![b] = t]
               /\ t = None \/ t.stage # "apply" \/ DrawTime(b)
  <2>1. CASE (\E kind \in Kind : Begin(b, kind)) \/ Abort(b) \/ ApplyReport(b) \/ ApplySweep(b)
    BY <2>1 DEF Begin, Abort, ApplyReport, ApplySweep
  <2>2. CASE ReadMounts(b) \/ LockOffice(b) \/ DrawTime(b)
    <3>1. tx[b] # None
      BY <2>2 DEF ReadMounts, LockOffice, DrawTime
    <3> QED
      BY <2>2, <3>1, TransactionMoves
  <2> QED
    BY <1>1, <2>1, <2>2 DEF Work
<1> QED
  BY <1>2 DEF TInv

\* While the tick holds the office, nobody who is watched writes.
LEMMA TickerAlone ==
    ASSUME TInv, holder = Ticker, NEW a \in Agent, tx[a] # None, tx[a].watched
    PROVE  tx[a].stage \notin {"draw", "apply"}
BY Holders DEF TInv, LockOK

LEMMA InsertedDay ==
    ASSUME TInv, SInv, TickInserts
    PROVE  /\ Closing <= result'.at /\ result'.at <= now'
           /\ SettledMatchesLedger' /\ WatchedHold'
           /\ NoOptInOvertakes => WatermarkHolds'
<1> DEFINE w == settling.winner
<1>1. /\ result' = [winner |-> w, score |-> scored, counted |-> opted, at |-> now]
      /\ UNCHANGED <<now, ledger, tx>>
      /\ settling # None /\ settling.stage = "insert"
  BY DEF TickInserts
<1>2. holder = Ticker /\ now \in Nat /\ opted \subseteq Agent
  BY <1>1 DEF TInv
<1>3. /\ Closing <= now /\ w = Winner(opted, Closing)
      /\ scored = ScoreOf(w)
  BY <1>1 DEF SInv
<1>4. \A a : Standing(a, Closing)' = Standing(a, Closing)
  BY <1>1, SameStanding DEF DaySegments, ledger
<1>5. /\ Winner(opted, Closing)' = Winner(opted, Closing)
      /\ \A a : DayScore(a, Closing)' = DayScore(a, Closing)
  <2>1. \A S : Winner(S, Closing)' = Winner(S, Closing)
    BY <1>4, ScoresStay
  <2>2. opted' = opted
    BY <1>1 DEF ledger
  <2>3. \A a : DayScore(a, Closing)' = DayScore(a, Closing)
    BY <1>1 DEF DayScore, DaySegments, ledger
  <2> QED
    BY <2>1, <2>2, <2>3
<1>6. /\ result'.winner = w /\ result'.counted = opted /\ result'.at = now
      /\ result'.score = scored
      /\ opted' = opted /\ tx' = tx /\ now' = now
  BY <1>1 DEF ledger
<1> HIDE DEF w
<1>7. SettledMatchesLedger'
  BY <1>3, <1>5, <1>6 DEF SettledMatchesLedger, ScoreOf
<1>8. WatchedHold'
  BY <1>2, <1>6, TickerAlone DEF WatchedHold
<1>9. NoOptInOvertakes => WatermarkHolds'
  BY <1>2, <1>6, TickerAlone DEF WatermarkHolds, NoOptInOvertakes
<1> QED
  BY <1>2, <1>3, <1>6, <1>7, <1>8, <1>9

\* Only what is received after the settlement comes to write after it.
LEMMA DrawnAfter ==
    ASSUME TInv, SInv, SettlementNext, result' = result, result # None
    PROVE  WatchedHold' /\ (WatermarkHolds => WatermarkHolds')
<1>1. result.counted \subseteq Agent /\ result.at \in Nat /\ now \in Nat /\ result.at <= now
  BY DEF TInv, Result, SInv
<1>2. ASSUME NEW a \in result.counted, tx'[a] # None, tx'[a].stage = "apply",
             tx[a] # None /\ tx[a].stage = "apply" /\ tx'[a] = tx[a] => tx[a].received >= result.at
      PROVE  tx'[a].received >= result.at
  <2>1. a \in Agent
    BY <1>1
  <2>2. CASE DrawTime(a)
    <3>1. PICK t \in Transaction : tx' = [tx EXCEPT ![a] = t] /\ t.received = now
      BY <2>1, <2>2, TransactionMoves DEF DrawTime
    <3>2. tx'[a].received = now
      BY <2>1, <3>1 DEF TInv
    <3> QED
      BY <1>1, <3>2
  <2>3. CASE ~DrawTime(a)
    <3>1. tx'[a] = tx[a]
      BY <1>2, <2>1, <2>3, OnlyDrawn
    <3> QED
      BY <1>2, <3>1
  <2> QED
    BY <2>2, <2>3
<1>3. WatchedHold'
  BY <1>2 DEF SInv, WatchedHold
<1>4. WatermarkHolds => WatermarkHolds'
  BY <1>2 DEF WatermarkHolds
<1> QED
  BY <1>3, <1>4

\* What has been settled does not change any more.
LEMMA SettledDay ==
    ASSUME TInv, SInv, Harmless, SettlementNext, result' = result, result # None
    PROVE  SettledMatchesLedger'
<1>1. /\ result.counted \subseteq Agent /\ result.at \in Nat /\ now \in Nat
      /\ Closing <= result.at /\ result.at <= now /\ Closing \in Nat
  BY SettlementAssumption DEF TInv, Result, SInv
<1>2. ASSUME NEW a \in result.counted
      PROVE  Standing(a, Closing)' = Standing(a, Closing)
  <2>1. a \in Agent /\ Closing <= now
    BY <1>1
  <2>2. ASSUME ApplyReport(a)
        PROVE  \/ Closing <= tx[a].received
               \/ Unwatched(a) /\ ConsentOf(a) /\ MaxOpen < (Grace + 1) * Second
    <3>1. /\ tx[a] # None /\ tx[a].stage = "apply" /\ tx[a].received \in Nat
      BY <2>1, <2>2 DEF ApplyReport, TInv, Transaction
    <3>2. CASE tx[a].watched \/ WatermarkHolds
      <4>1. result.at <= tx[a].received
        BY <3>1, <3>2 DEF SInv, WatchedHold, WatermarkHolds
      <4> QED
        BY <1>1, <3>1, <4>1
    <3>3. CASE ~tx[a].watched /\ ~WatermarkHolds
      BY <2>1, <3>1, <3>3 DEF Harmless, ConsentOK, Unwatched
    <3> QED
      BY <3>2, <3>3
  <2> QED
    BY <2>1, <2>2, StandingStays
<1> QED
  BY <1>2, SettledStays DEF SInv

\* What the tick has read under its lock is still so.
LEMMA ReadingStays ==
    ASSUME TInv, SInv, Harmless, SettlementNext, Skew <= 0
    PROVE  /\ settling' # None => settling'.asOf <= now'
           /\ settling' # None /\ settling'.stage = "insert" =>
                 /\ Closing <= now'
                 /\ settling'.winner = Winner(opted, Closing)'
                 /\ scored' = ScoreOf(settling.winner)'
<1>1. now \in Nat /\ now' \in Nat /\ now <= now' /\ Closing \in Nat
  BY Moves, SettlementAssumption DEF TInv
<1>2. CASE UNCHANGED tick
  <2>1. /\ settling # None => settling.asOf \in Int
        /\ UNCHANGED <<settling, scored>>
    BY <1>2 DEF TInv, Settling, tick
  <2>2. ASSUME settling # None, settling.stage = "insert"
        PROVE  /\ Winner(opted, Closing)' = Winner(opted, Closing)
               /\ ScoreOf(settling.winner)' = ScoreOf(settling.winner)
    <3>1. holder = Ticker
      BY <2>2 DEF TInv
    <3>2. ~(\E a \in Agent : OptIn(a) \/ OptOut(a))
      BY <3>1, Holders DEF OptIn, OptOut
    <3>3. opted' = opted
      BY <3>2 DEF SettlementNext, Begin, Work, ReadMounts, LockOffice, DrawTime, ApplyReport,
             ApplySweep, Abort, TickStarts, TickLocks, TickPasses, TickScores, TickInserts,
             TickFails, PassTime, ledger
    <3>4. ASSUME NEW a \in opted
          PROVE  Standing(a, Closing)' = Standing(a, Closing)
      <4>1. a \in Agent /\ Closing <= now
        BY <2>2 DEF TInv, SInv
      <4>2. ASSUME ApplyReport(a)
            PROVE  Unwatched(a) /\ ConsentOf(a) /\ MaxOpen < (Grace + 1) * Second
        <5>1. tx[a] # None /\ tx[a].stage = "apply"
          BY <4>2 DEF ApplyReport
        <5>2. ~tx[a].watched
          BY <3>1, <4>1, <5>1, TickerAlone
        <5> QED
          BY <4>1, <5>1, <5>2 DEF Harmless, NoOptInOvertakes, ConsentOK, Unwatched
      <4> QED
        BY <4>1, <4>2, StandingStays
    <3>5. ASSUME NEW S, S = opted
          PROVE  /\ Winner(S, Closing)' = Winner(S, Closing)
                 /\ \A a \in S : DayScore(a, Closing)' = DayScore(a, Closing)
      BY <3>4, <3>5, ScoresStay
    <3>6. settling.winner \in opted \cup {None}
      BY <2>2, WinnerIsCandidate DEF SInv
    <3>7. ASSUME NEW w, w = settling.winner
          PROVE  ScoreOf(w)' = ScoreOf(w)
      BY <3>5, <3>6, <3>7 DEF ScoreOf
    <3>8. ScoreOf(settling.winner)' = ScoreOf(settling.winner)
      BY <2>1, <3>7
    <3> QED
      BY <3>3, <3>5, <3>8
  <2> QED
    BY <1>1, <2>1, <2>2 DEF SInv
<1>3. CASE ~UNCHANGED tick
  <2>1. TickStarts \/ TickLocks \/ TickPasses \/ TickScores \/ TickInserts \/ TickFails
    BY <1>3 DEF SettlementNext, Begin, Work, ReadMounts, LockOffice, DrawTime, ApplyReport,
           ApplySweep, Abort, OptIn, OptOut, PassTime
  <2>2. CASE TickPasses \/ TickInserts \/ TickFails
    BY <2>2 DEF TickPasses, TickInserts, TickFails
  <2>3. CASE TickStarts
    <3>1. settling' = [asOf |-> now + Skew, stage |-> "wait", winner |-> None] /\ now' = now
      BY <2>3 DEF TickStarts
    <3>2. settling'.asOf <= now' /\ settling'.stage = "wait"
      BY <1>1, <3>1, SettlementAssumption
    <3> QED
      BY <3>2
  <2>4. CASE TickLocks
    <3>1. settling \in Settling /\ settling # None /\ now' = now
          /\ settling' = [settling EXCEPT !.stage = "read"]
      BY <2>4 DEF TickLocks, TInv
    <3>2. settling'.asOf = settling.asOf /\ settling'.stage = "read"
      BY <3>1 DEF Settling
    <3> QED
      BY <3>1, <3>2 DEF SInv
  <2>5. CASE TickScores
    <3>1. /\ settling \in Settling /\ settling # None /\ now' = now
          /\ UNCHANGED ledger /\ Closing <= settling.asOf
      BY <2>5 DEF TickScores, TInv, DueDay
    <3>2. /\ settling'.asOf = settling.asOf
          /\ settling'.winner = Winner(opted, Closing)
          /\ scored' = ScoreOf(Winner(opted, Closing))
      BY <2>5, <3>1 DEF TickScores, Settling
    <3>3. settling.asOf \in Int /\ settling.asOf <= now
      BY <3>1 DEF Settling, SInv
    <3>4. \A a : DaySegments(a, Closing)' = DaySegments(a, Closing)
      BY <3>1 DEF DaySegments, ledger
    <3>5. /\ \A S : Winner(S, Closing)' = Winner(S, Closing)
          /\ \A w : ScoreOf(w)' = ScoreOf(w)
      BY <3>4, SameStanding, ScoresStay DEF ScoreOf, DayScore
    <3>6. opted' = opted
      BY <3>1 DEF ledger
    <3>7. Winner(opted, Closing)' = Winner(opted, Closing)
      BY <3>5, <3>6
    <3>8. ScoreOf(settling.winner)' = ScoreOf(Winner(opted, Closing))
      BY <3>2, <3>5
    <3> QED
      BY <1>1, <3>1, <3>2, <3>3, <3>7, <3>8
  <2> QED
    BY <2>1, <2>2, <2>3, <2>4, <2>5
<1> QED
  BY <1>2, <1>3

LEMMA SettledStep ==
    ASSUME TInv, SInv, Harmless, [SettlementNext]_settlementVars, Skew <= 0
    PROVE  SInv' /\ (NoOptInOvertakes /\ WatermarkHolds => WatermarkHolds')
<1>1. CASE SettlementNext
  <2>1. CASE TickInserts
    BY <1>1, <2>1, InsertedDay, ReadingStays DEF SInv
  <2>2. CASE ~TickInserts
    <3>1. result' = result /\ now \in Nat /\ now' \in Nat /\ now <= now'
      BY <1>1, <2>2, Moves DEF TInv
    <3>2. CASE result = None
      BY <1>1, <3>1, <3>2, ReadingStays
         DEF SInv, SettledMatchesLedger, WatchedHold, WatermarkHolds
    <3>3. CASE result # None
      <4>1. result.at \in Nat
        BY <3>3 DEF TInv, Result
      <4> QED
        BY <1>1, <3>1, <3>3, <4>1, ReadingStays, DrawnAfter, SettledDay DEF SInv
    <3> QED
      BY <3>2, <3>3
  <2> QED
    BY <2>1, <2>2
<1>2. CASE UNCHANGED settlementVars
  <2>1. \A a : DaySegments(a, Closing)' = DaySegments(a, Closing)
    BY <1>2 DEF DaySegments, settlementVars, ledger
  <2>2. /\ \A S : Winner(S, Closing)' = Winner(S, Closing)
        /\ \A w : ScoreOf(w)' = ScoreOf(w)
    BY <2>1, SameStanding, ScoresStay DEF ScoreOf, DayScore
  <2>3. UNCHANGED <<now, opted, tx, settling, scored, result>>
    BY <1>2 DEF settlementVars, ledger, tick
  <2>4. /\ Winner(opted, Closing)' = Winner(opted, Closing)
        /\ ScoreOf(settling.winner)' = ScoreOf(settling.winner)
    BY <2>2, <2>3
  <2>5. SettledMatchesLedger'
    <3>1. CASE result = None
      BY <2>3, <3>1 DEF SettledMatchesLedger
    <3>2. CASE result # None
      BY <2>1, <2>3, <3>2, SameStanding, SettledStays DEF SInv
    <3> QED
      BY <3>1, <3>2
  <2>6. WatchedHold' /\ (WatermarkHolds => WatermarkHolds')
    BY <2>3 DEF SInv, WatchedHold, WatermarkHolds
  <2> QED
    BY <2>3, <2>4, <2>5, <2>6 DEF SInv
<1> QED
  BY <1>1, <1>2

LEMMA SettledInit == SettlementInit => SInv /\ WatermarkHolds
BY DEF SettlementInit, SInv, SettledMatchesLedger, WatchedHold, WatermarkHolds

\* What is settled is what the ledger of those who took part says for good,
\* whatever is reported, swept or consented to, as long as a transaction is not
\* open for the grace and a second, the least that scores.  An opt-in may then
\* overtake a report: the report is received before the end of the day and is
\* written after the settlement, and all that it adds is within the grace.  The
\* clock of the application must not be ahead.
THEOREM SettledWithinGrace ==
    ASSUME Skew <= 0, MaxOpen < (Grace + 1) * Second
    PROVE  SettlementSpec => []SettlementInv
<1>1. SettlementInit => TInv /\ SInv /\ ConsentOK
  BY TypeInit, SettledInit, ConsentInit
<1>2. TInv /\ SInv /\ ConsentOK /\ [SettlementNext]_settlementVars => TInv' /\ SInv' /\ ConsentOK'
  BY TypeStep, SettledStep, ConsentStep DEF Harmless
<1>3. SInv => SettledMatchesLedger
  BY DEF SInv
<1> QED
  BY <1>1, <1>2, <1>3, TypesAndLocks, PTL DEF SettlementSpec, SettlementInv

\* "The Office lock is the settlement watermark", for a transaction of any
\* length, as long as no opt-in overtakes a report that has read its mounts: no
\* report received before the settlement is written after it.
LEMMA Settled ==
    ASSUME Skew <= 0
    PROVE  SettlementSpec /\ []NoOptInOvertakes => [](SInv /\ WatermarkHolds)
<1>1. TInv /\ SInv /\ WatermarkHolds /\ NoOptInOvertakes /\ [SettlementNext]_settlementVars
         => SInv' /\ WatermarkHolds'
  BY SettledStep DEF Harmless
<1> QED
  BY <1>1, TypeInit, TypeStep, SettledInit, PTL DEF SettlementSpec

\* Then, too, what is settled is what the ledger says for good.
THEOREM SettledForGood ==
    ASSUME Skew <= 0
    PROVE  SettlementSpec /\ []NoOptInOvertakes => []SettlementInv
<1>1. SInv => SettledMatchesLedger
  BY DEF SInv
<1> QED
  BY <1>1, Settled, TypesAndLocks, PTL DEF SettlementInv

\* The watermark itself: no report received before the settlement commits after
\* it, of an agent that was counted.
THEOREM WatermarkIsHeld ==
    ASSUME Skew <= 0
    PROVE  SettlementSpec /\ []NoOptInOvertakes => []WatermarkHolds
BY Settled, PTL

-----------------------------------------------------------------------------
(***************************************************************************)
(* The day with a ledger that the transactions or anyone writes.           *)
(***************************************************************************)
DayInv ==
    /\ TInv
    /\ writer \in {"transactions", "anyone"}
    /\ now <= MaxInstant
    /\ writer = "transactions" => now <= MaxTime

LEMMA CandidateIsAgent == Candidate \in Agent
BY LeastIsMin, DayAssumption, SettlementAssumption DEF Candidate

LEMMA DayTypeInit == DayInit => DayInv
BY TypeInit, DayAssumption, SettlementAssumption DEF DayInit, DayInv, SettlementInit

LEMMA AnyoneTypes ==
    ASSUME DayInv, Add \/ Opens \/ Passes
    PROVE  TInv' /\ now' <= MaxInstant
<1>1. now \in Nat /\ Candidate \in Agent /\ MaxInstant \in Nat /\ now <= MaxInstant
  BY CandidateIsAgent, DayAssumption DEF DayInv, TInv
<1>2. /\ UNCHANGED WriterRest
      /\ TInv
  BY DEF Add, Opens, Passes, DayInv
<1>3. CASE Add
  <2>1. PICK a \in Closed : activities' = [activities EXCEPT ![Candidate] = @ \cup {a}]
    BY <1>3 DEF Add
  <2>2. a \in Interval /\ a.end # None
    BY <2>1, DayAssumption, Holders DEF Closed, Instants, Interval
  <2>3. UNCHANGED <<now, lease>>
    BY <1>3 DEF Add
  <2>4. LedgerOK'
    BY <1>1, <1>2, <2>1, <2>2, <2>3 DEF TInv, LedgerOK, OpenOf, WriterRest
  <2> QED
    BY <1>1, <1>2, <2>3, <2>4 DEF TInv, LockOK, WriterRest, tick
<1>4. CASE Opens
  <2> DEFINE a == [start |-> now, end |-> None]
  <2>1. PICK l \in now + 1 .. MaxInstant : lease' = [lease EXCEPT ![Candidate] = l]
    BY <1>4 DEF Opens
  <2>2. a \in Interval /\ l \in Nat /\ l \in Leases /\ l # None
    BY <1>1, <2>1, Holders DEF Interval, Leases
  <2>3. activities' = [activities EXCEPT ![Candidate] = @ \cup {a}] /\ now' = now
    BY <1>4 DEF Opens
  <2> HIDE DEF a
  <2>4. LedgerOK'
    BY <1>1, <1>2, <2>1, <2>2, <2>3 DEF TInv, LedgerOK, OpenOf, WriterRest
  <2>5. lease'[Candidate] # None /\ \A b \in Agent : lease[b] # None => lease'[b] # None
    BY <1>1, <1>2, <2>1, <2>2 DEF TInv, LedgerOK
  <2> QED
    BY <1>1, <1>2, <2>3, <2>4, <2>5 DEF TInv, LockOK, WriterRest, tick
<1>5. CASE Passes
  <2>1. now' = now + 1 /\ now < MaxInstant /\ UNCHANGED <<activities, lease>>
    BY <1>5 DEF Passes
  <2> QED
    BY <1>1, <1>2, <2>1 DEF TInv, LedgerOK, OpenOf, LockOK, WriterRest, tick
<1> QED
  BY <1>3, <1>4, <1>5

LEMMA DayTypeStep == DayInv /\ [DayNext]_dayVars => DayInv'
<1> SUFFICES ASSUME DayInv, [DayNext]_dayVars
             PROVE  DayInv'
  OBVIOUS
<1>1. CASE UNCHANGED dayVars
  <2>1. UNCHANGED settlementVars /\ writer' = writer
    BY <1>1 DEF dayVars
  <2>2. TInv'
    BY <2>1, TypeStep DEF DayInv
  <2> QED
    BY <2>1, <2>2 DEF DayInv, settlementVars
<1>2. CASE DayNext /\ writer = "anyone"
  <2>1. writer' = writer /\ (Add \/ Opens \/ Passes)
    BY <1>2 DEF DayNext
  <2> QED
    BY <1>2, <2>1, AnyoneTypes DEF DayInv
<1>3. CASE DayNext /\ writer = "transactions"
  <2>1. writer' = writer /\ SettlementNext
    BY <1>3 DEF DayNext
  <2>2. TInv' /\ (UNCHANGED now \/ PassTime)
    BY <2>1, TypeStep, Moves DEF DayInv
  <2>3. now \in Nat /\ now <= MaxTime /\ MaxTime \in Nat /\ MaxTime <= MaxInstant /\ MaxInstant \in Nat
    BY <1>3, DayAssumption, SettlementAssumption DEF DayInv, TInv
  <2>4. now' <= MaxTime
    BY <2>2, <2>3 DEF PassTime
  <2>5. now' \in Nat
    BY <2>2 DEF TInv
  <2> QED
    BY <1>3, <2>1, <2>2, <2>3, <2>4, <2>5 DEF DayInv
<1> QED
  BY <1>1, <1>2, <1>3 DEF DayInv

LEMMA DayTypes == DaySpec => []DayInv
BY DayTypeInit, DayTypeStep, PTL DEF DaySpec

LEMMA OccurrencesType ==
    \A o \in Occurrences : o \in [start : Nat, end : Nat]
BY DayAssumption, SettlementAssumption DEF Occurrences, Day

LEMMA LedgerTypes ==
    ASSUME DayInv
    PROVE  /\ now \in Nat /\ now <= MaxInstant
           /\ Ledger \in SUBSET Interval
           /\ qualified[Candidate] \in SUBSET Interval
           /\ lease[Candidate] \in Leases
           /\ lease[Candidate] = None => \A i \in Ledger : i.end # None
BY CandidateIsAgent DEF DayInv, TInv, LedgerOK, Ledger, OpenOf

\* The segments of any such ledger end by now.
LEMMA SegmentsType ==
    ASSUME NEW A \in SUBSET Interval, NEW l \in Leases, NEW Q \in SUBSET Interval,
           NEW c \in Nat, c <= MaxInstant
    PROVE  /\ Segments(A, l, Q, Occurrences, c) \in SUBSET Segs
           /\ \A g \in Segments(A, l, Q, Occurrences, c) : g.end <= c
<1> SUFFICES ASSUME NEW i \in A, NEW q \in Q, NEW o \in Occurrences,
                    Segment(i, l, q, o, c).end > Segment(i, l, q, o, c).start
             PROVE  Segment(i, l, q, o, c) \in Segs /\ Segment(i, l, q, o, c).end <= c
  BY DEF Segments
<1> DEFINE g == Segment(i, l, q, o, c)
<1>1. /\ g.start \in Nat /\ g.end \in Nat /\ g.end <= c
  BY OccurrencesType, SegmentBounds
<1>2. g = [start |-> g.start, end |-> g.end]
  BY DEF Segment
<1> HIDE DEF g
<1>3. g.start < g.end /\ g.end <= MaxInstant
  BY <1>1, DayAssumption DEF g
<1>4. [start |-> g.start, end |-> g.end] \in Segs
  BY <1>1, <1>3, SegIs
<1> QED
  BY <1>1, <1>2, <1>4 DEF g

LEMMA TodayType ==
    ASSUME DayInv
    PROVE  Today \in SUBSET Segs /\ \A g \in Today : g.end <= now
BY LedgerTypes, SegmentsType DEF Today

LEMMA RunsScored ==
    ASSUME DayInv
    PROVE  ScoreIsOfMaximalRuns
BY TodayType, SlackedIs DEF ScoreIsOfMaximalRuns

LEMMA FirstReached ==
    ASSUME DayInv
    PROVE  ReachedIsFirstTime
BY TodayType, ReachedIsFirst DEF ReachedIsFirstTime

LEMMA DomainScores ==
    ASSUME DayInv
    PROVE  DomainAgrees
<1> DEFINE S == {[start |-> g.start, end |-> g.end] : g \in Today}
           C == CandidateScore(S, now)
<1>1. Today \in SUBSET Segs /\ (\A g \in Today : g.end <= now) /\ now \in Nat
  BY TodayType, LedgerTypes
<1>2. S = Today
  BY <1>1, SegType
<1> SUFFICES ASSUME NonOverlapping(S)
             PROVE  C.score = Slacked(S) /\ (C.score > 0 => C.reached = Reached(S))
  BY DEF DomainAgrees
<1> HIDE DEF S
<1>3. \A g \in S : /\ g \in Segs /\ g.start \in Nat /\ g.end \in Nat /\ g.start < g.end
                   /\ g.end <= now /\ g.end # None
  BY <1>1, <1>2, SegType, Holders
<1>4. \A g, h \in S : g # h => g.end <= h.start \/ h.end <= g.start
  BY <1>3 DEF NonOverlapping
<1>5. Runs(S) = S /\ Islands(S) = S
  BY <1>1, <1>2, <1>4, DisjointRuns, IslandsAreRuns
<1>6. ASSUME NEW g \in S
      PROVE  IntervalSeconds(g, now) = PaidOf(S)[g] /\ Contribution(g) = PaidOf(S)[g]
  <2>1. IntervalEnd(g, now) = g.end
    BY <1>1, <1>3 DEF IntervalEnd, MinOf
  <2>2. IntervalSeconds(g, now) = MaxOf(0, WholeSeconds(g.start, g.end) - Grace)
    BY <1>3, <2>1 DEF IntervalSeconds
  <2>3. PaidOf(S)[g] = Paid(g.start, g.end)
    BY <1>5 DEF PaidOf
  <2> QED
    BY <1>3, <2>2, <2>3, ContributionIsPaid
<1>7. IsFiniteSet(S) /\ PaidOf(S) \in [S -> Nat] /\ PaidOf(S) \in [S -> Int]
  BY <1>1, <1>2, <1>5, RunsFinite
<1>8. C.score = Total(PaidOf(S), S)
  BY <1>6, <1>7, CandidateTotal
<1>9. Slacked(S) = Total(PaidOf(S), S)
  BY <1>1, <1>2, <1>5, SlackedIs
<1>10. ASSUME Slacked(S) > 0
       PROVE  C.reached = Reached(S)
  <2> DEFINE paid == {g \in S : PaidOf(S)[g] > 0}
             at(g) == g.start + (Grace + PaidOf(S)[g]) * Second
  <2>1. paid # {}
    <3> SUFFICES ASSUME \A g \in S : ~(PaidOf(S)[g] > 0)
                 PROVE  FALSE
      OBVIOUS
    <3>1. \A g \in S : PaidOf(S)[g] = 0
      BY <1>7
    <3>2. Total(PaidOf(S), S) = 0
      BY <1>7, <3>1, ZeroTotal
    <3> QED
      BY <1>9, <1>10, <3>2
  <2>2. Reached(S) = Max({at(g) : g \in paid})
    <3>1. {j \in Islands(S) : Contribution(j) > 0} = paid
      BY <1>5, <1>6
    <3>2. \A g \in paid : ReachedAt(g) = at(g)
      BY <1>6 DEF ReachedAt
    <3> HIDE DEF paid, at
    <3>3. {ReachedAt(i) : i \in {j \in Islands(S) : Contribution(j) > 0}} = {at(g) : g \in paid}
      BY <3>1, <3>2
    <3> QED
      BY <3>3 DEF Reached
  <2>3. C.reached = Max({at(g) : g \in paid})
    <3> DEFINE of(i) == i.start + (Grace + IntervalSeconds(i, now)) * Second
    <3>1. {i \in S : IntervalSeconds(i, now) > 0} = paid
      BY <1>6
    <3>2. \A i \in paid : of(i) = at(i)
      BY <1>6
    <3>3. C.reached = IF paid = {} THEN None ELSE Max({of(i) : i \in paid})
      BY <3>1 DEF CandidateScore
    <3> HIDE DEF paid, at, of, C
    <3>4. {of(i) : i \in paid} = {at(g) : g \in paid}
      BY <3>2
    <3> QED
      BY <2>1, <3>3, <3>4
  <2> QED
    BY <2>2, <2>3
<1> QED
  BY <1>8, <1>9, <1>10

LEMMA SweptScores ==
    ASSUME DayInv
    PROVE  SweepChangesNothing
<1> DEFINE l == lease[Candidate]
           Q == qualified[Candidate]
           f(i) == IF i.end = None THEN [i EXCEPT !.end = l] ELSE i
<1> SUFFICES ASSUME l # None, l <= now
             PROVE  Segments(ClosedAt(Candidate, l), None, Q, Occurrences, now) = Today
  BY DEF SweepChangesNothing
<1>1. l \in Nat /\ now \in Nat /\ Ledger \in SUBSET Interval
  BY LedgerTypes DEF Leases
<1>2. \A i \in Ledger : ActivityEnd(f(i), None, now) = ActivityEnd(i, l, now) /\ f(i).start = i.start
  <2> SUFFICES ASSUME NEW i \in Ledger
               PROVE  ActivityEnd(f(i), None, now) = ActivityEnd(i, l, now) /\ f(i).start = i.start
    OBVIOUS
  <2>1. i \in Interval
    BY <1>1
  <2>2. CASE i.end = None
    <3>1. f(i).end = l /\ f(i).start = i.start
      BY <2>1, <2>2 DEF Interval
    <3>2. MinOf(l, now) = l
      BY <1>1 DEF MinOf
    <3> HIDE DEF f, l
    <3> QED
      BY <2>2, <3>1, <3>2 DEF ActivityEnd
  <2>3. CASE i.end # None
    BY <2>3 DEF ActivityEnd
  <2> QED
    BY <2>2, <2>3
<1>3. \A i \in Ledger : \A q, o :
         Segment(f(i), None, q, o, now) = Segment(i, l, q, o, now)
  <2> HIDE DEF f, l
  <2> QED
    BY <1>2 DEF Segment
<1>4. ClosedAt(Candidate, l) = {f(i) : i \in Ledger}
  BY DEF ClosedAt, Ledger
<1> HIDE DEF f
<1>5. {Segment(a, None, q, o, now) : a \in {f(i) : i \in Ledger}, q \in Q, o \in Occurrences}
        = {Segment(a, l, q, o, now) : a \in Ledger, q \in Q, o \in Occurrences}
  <2> HIDE DEF l, Q
  <2> QED
    BY <1>3
<1> QED
  BY <1>4, <1>5 DEF Segments, Today

LEMMA UnderWaySegment ==
    ASSUME DayInv, NEW a \in Ledger, NEW q \in qualified[Candidate], NEW o \in Occurrences,
           UnderWay(a, now), UnderWay(q, now), UnderWay(o, now),
           lease[Candidate] # None, now < lease[Candidate]
    PROVE  LET s == Max({a.start, q.start, o.start})
           IN s \in Nat /\ s <= now /\ (s < now => [start |-> s, end |-> now] \in Today)
<1> DEFINE s == Max({a.start, q.start, o.start})
           l == lease[Candidate]
           x == ActivityEnd(a, l, now)
           y == EndOr(q, now)
           g == Segment(a, l, q, o, now)
<1>1. /\ now \in Nat /\ l \in Nat /\ a \in Interval /\ q \in Interval
      /\ o \in [start : Nat, end : Nat]
  BY LedgerTypes, OccurrencesType DEF Leases
<1>2. a.start \in Nat /\ q.start \in Nat /\ o.start \in Nat /\ o.end \in Nat /\ o.end # None
  BY <1>1, Holders DEF Interval
<1>3. x \in Nat /\ y \in Nat
  BY <1>1, EndTypes DEF Leases
<1>4. now <= x /\ now <= y /\ now <= o.end
  <2>1. a.end # None => a.end \in Nat
    BY <1>1 DEF Interval
  <2>2. q.end # None => q.end \in Nat
    BY <1>1 DEF Interval
  <2> QED
    BY <1>1, <1>2, <2>1, <2>2 DEF UnderWay, ActivityEnd, EndOr, MinOf
<1>5. s \in {a.start, q.start, o.start}
  BY <1>2 DEF Max
<1>6. s \in Nat /\ s <= now
  BY <1>2, <1>5 DEF UnderWay
<1>7. g = [start |-> s, end |-> Min({x, y, o.end, now})]
  BY DEF Segment
<1> HIDE DEF s, x, y
<1>8. Min({x, y, o.end, now}) = now
  <2>1. Min({x, y, o.end, now}) \in {x, y, o.end, now} /\ Min({x, y, o.end, now}) <= now
    BY <1>1, <1>2, <1>3 DEF Min
  <2> QED
    BY <1>1, <1>2, <1>3, <1>4, <2>1
<1>9. g = [start |-> s, end |-> now]
  BY <1>7, <1>8
<1>10. s < now => g \in Today
  BY <1>1, <1>6, <1>9 DEF Today, Segments
<1> QED
  BY <1>6, <1>9, <1>10 DEF s

LEMMA StageScores ==
    ASSUME DayInv
    PROVE  StageIsScored
<1> DEFINE l == lease[Candidate]
           Q == qualified[Candidate]
           under(S) == {i \in S : UnderWay(i, now)}
           starts == {Max({a.start, q.start, o.start}) :
                         a \in under(Ledger), q \in under(Q), o \in under(Occurrences)}
           since == EligibleSince(Ledger, l, Q, Occurrences, now)
<1>1. since = IF l = None \/ l <= now \/ starts = {} THEN None ELSE Min(starts)
  BY DEF EligibleSince
<1> SUFFICES ASSUME NEW i \in DOMAIN Ladder, IdleStage(since, Ladder, now) >= i
             PROVE  Slacked(Today) >= Ladder[i] - Grace
  BY DEF StageIsScored
<1>2. /\ i \in 1..2 /\ Grace \in Nat /\ now \in Nat /\ l \in Leases
      /\ Ladder[1] = Grace /\ Ladder[2] = Grace + 1 /\ DOMAIN Ladder = 1..2
  BY LedgerTypes, ScoringAssumption DEF Ladder
<1>3. l # None /\ ~(l <= now) /\ starts # {} /\ since = Min(starts)
  <2>1. since # None
    <3>1. since = None => IdleStage(since, Ladder, now) = 0
      BY DEF IdleStage
    <3> HIDE DEF since
    <3> QED
      BY <1>2, <3>1
  <2> HIDE DEF since, starts, l
  <2> QED
    BY <1>1, <2>1
<1>4. l \in Nat /\ now < l
  BY <1>2, <1>3 DEF Leases
<1>5. \A s \in starts : s \in Nat /\ s <= now /\ (s < now => [start |-> s, end |-> now] \in Today)
  <2> SUFFICES ASSUME NEW s \in starts
               PROVE  s \in Nat /\ s <= now /\ (s < now => [start |-> s, end |-> now] \in Today)
    OBVIOUS
  <2>1. PICK a \in under(Ledger), q \in under(Q), o \in under(Occurrences) :
           s = Max({a.start, q.start, o.start})
    OBVIOUS
  <2> QED
    BY <1>3, <1>4, <2>1, UnderWaySegment
<1>6. since \in starts
  <2> HIDE DEF starts
  <2>1. starts \in SUBSET Nat
    BY <1>5
  <2> QED
    BY <1>3, <2>1, LeastIsMin
<1> HIDE DEF starts, since
<1>7. since \in Nat /\ since <= now /\ (since < now => [start |-> since, end |-> now] \in Today)
  BY <1>5, <1>6
<1> DEFINE w == WholeSeconds(since, now)
<1>8. w \in Int /\ w >= Ladder[i]
  <2>1. w \in Int
    BY <1>2, <1>7, PaidIs
  <2> HIDE DEF w
  <2> DEFINE reached == {j \in DOMAIN Ladder : w >= Ladder[j]}
  <2>2. since # None
    BY <1>7, Holders
  <2>3. Cardinality(reached) >= i
    BY <2>2 DEF IdleStage, w
  <2>4. CASE i = 1
    <3>1. reached # {}
      <4>1. Cardinality({}) = 0
        BY FS_EmptySet
      <4> HIDE DEF reached
      <4> QED
        BY <1>2, <2>3, <2>4, <4>1
    <3> QED
      BY <1>2, <2>1, <2>4, <3>1
  <2>5. CASE i = 2
    <3>1. 2 \in reached
      <4>1. SUFFICES ASSUME 2 \notin reached
                     PROVE  FALSE
        OBVIOUS
      <4>2. reached \in SUBSET {1}
        BY <1>2, <4>1
      <4>3. IsFiniteSet({1}) /\ Cardinality({1}) = 1
        BY FS_Singleton
      <4> HIDE DEF reached
      <4>4. IsFiniteSet(reached) /\ Cardinality(reached) <= 1
        BY <4>2, <4>3, FS_Subset
      <4>5. Cardinality(reached) \in Nat
        BY <4>4, FS_CardinalityType
      <4> QED
        BY <2>3, <2>5, <4>4, <4>5
    <3> QED
      BY <1>2, <2>1, <2>5, <3>1
  <2> QED
    BY <1>2, <2>1, <2>4, <2>5
<1>9. Today \in SUBSET Segs /\ Slacked(Today) \in Nat
  BY TodayType, SlackedIs
<1>10. Ladder[i] \in Nat
  BY <1>2
<1>11. CASE since < now
  <2> DEFINE g == [start |-> since, end |-> now]
  <2>1. g \in Today /\ g.start = since /\ g.end = now
    BY <1>7, <1>11
  <2> HIDE DEF g
  <2>2. w - Grace <= Slacked(Today)
    BY <1>9, <2>1, SegmentScores
  <2> HIDE DEF w
  <2> QED
    BY <1>2, <1>8, <1>9, <1>10, <2>2
<1>12. CASE since = now
  <2>1. Ladder[i] <= 0
    <3>1. now - now = 0 /\ 0 \div Second = 0
      <4>1. Second \in Nat /\ Second > 0
        BY ScoringAssumption
      <4> QED
        BY <1>2, <4>1
    <3>2. w = 0
      BY <1>12, <3>1 DEF WholeSeconds
    <3> QED
      BY <1>8, <1>10, <3>2
  <2> QED
    BY <1>2, <1>9, <1>10, <2>1
<1> QED
  BY <1>2, <1>7, <1>11, <1>12

\* The statement computes what the rules of the day ask for, for every ledger
\* and every way of writing one: its islands are the maximal runs of the
\* instants that are slacked, each with a grace of its own; score_reached_at
\* is the first instant at which the candidate had the score; the domain
\* function agrees wherever it does not reject its input; closing what is open
\* at its lease changes nothing; and a stage that is shown has been scored.
THEOREM DayIsScored == DaySpec => []ScoringInv
<1>1. DayInv => ScoringInv
  BY RunsScored, FirstReached, DomainScores, SweptScores, StageScores DEF ScoringInv
<1> QED
  BY <1>1, DayTypes, PTL

\* An activity's end is no earlier when one looks again later.
LEMMA SegmentsGrow ==
    ASSUME NEW A \in SUBSET Interval, NEW B \in SUBSET Interval, A \subseteq B,
           NEW Q \in SUBSET Interval, NEW l \in Leases, NEW m \in Leases,
           NEW c \in Nat, NEW d \in Nat, c <= d,
           l = m \/ \A i \in A : i.end # None
    PROVE  Covers(Segments(B, m, Q, Occurrences, d), Segments(A, l, Q, Occurrences, c))
<1> SUFFICES ASSUME NEW i \in A, NEW q \in Q, NEW o \in Occurrences,
                    Segment(i, l, q, o, c).end > Segment(i, l, q, o, c).start
             PROVE  LET g == Segment(i, l, q, o, c)
                        h == Segment(i, m, q, o, d)
                    IN h.start = g.start /\ g.end <= h.end /\ h.end > h.start
                       /\ g.start \in Nat
  BY DEF Covers, Segments
<1> DEFINE s == Max({i.start, q.start, o.start})
           x == ActivityEnd(i, l, c)
           y == EndOr(q, c)
           v == ActivityEnd(i, m, d)
           w == EndOr(q, d)
           g == Segment(i, l, q, o, c)
           h == Segment(i, m, q, o, d)
<1>1. i \in Interval /\ q \in Interval /\ o \in [start : Nat, end : Nat]
  BY OccurrencesType
<1>2. x \in Nat /\ y \in Nat /\ v \in Nat /\ w \in Nat /\ o.end \in Nat
      /\ i.start \in Nat /\ g.start \in Nat /\ g.end \in Nat
  BY <1>1, EndTypes, SegmentBounds DEF Interval
<1>3. x <= v
  <2>1. CASE i.end # None
    BY <1>2, <2>1 DEF ActivityEnd
  <2>2. CASE i.end = None
    <3>1. l = m
      BY <2>2
    <3>2. CASE l = None
      BY <1>2, <2>2, <3>1, <3>2 DEF ActivityEnd
    <3>3. CASE l # None
      <4>1. l \in Nat /\ x = MinOf(l, c) /\ v = MinOf(l, d)
        BY <2>2, <3>1, <3>3 DEF Leases, ActivityEnd
      <4> QED
        BY <4>1 DEF MinOf
    <3> QED
      BY <3>2, <3>3
  <2> QED
    BY <2>1, <2>2
<1>4. y <= w
  BY <1>2 DEF EndOr
<1>5. /\ g = [start |-> s, end |-> Min({x, y, o.end, c})]
      /\ h = [start |-> s, end |-> Min({v, w, o.end, d})]
  BY DEF Segment
<1>6. g.start = s /\ g.end = Min({x, y, o.end, c}) /\ h.start = s /\ h.end = Min({v, w, o.end, d})
  BY <1>5
<1> HIDE DEF s, x, y, v, w, g, h
<1>7. \A a, b, e, n \in Nat : /\ Min({a, b, e, n}) \in {a, b, e, n}
                             /\ \A k \in {a, b, e, n} : Min({a, b, e, n}) <= k
  BY DEF Min
<1>8. Min({x, y, o.end, c}) <= Min({v, w, o.end, d})
  <2>1. /\ Min({x, y, o.end, c}) <= x /\ Min({x, y, o.end, c}) <= y
        /\ Min({x, y, o.end, c}) <= o.end /\ Min({x, y, o.end, c}) <= c
        /\ Min({x, y, o.end, c}) \in Nat
    BY <1>2, <1>7
  <2>2. Min({v, w, o.end, d}) \in {v, w, o.end, d}
    BY <1>2, <1>7
  <2> QED
    BY <1>2, <1>3, <1>4, <2>1, <2>2
<1>9. Min({v, w, o.end, d}) \in Nat
  BY <1>2, <1>7
<1>10. g.end > g.start
  BY DEF g
<1> QED
  BY <1>2, <1>6, <1>8, <1>9, <1>10 DEF g, h

\* What a candidate has slacked is not lost as time passes or another activity
\* is added, for every ledger and every such step: the runs of the earlier
\* segments lie in those of the later, and one run pays at least what several
\* within it pay, each with its own grace.
THEOREM ScoresNeverFall == DaySpec => ScoreNeverFalls
<1>1. ASSUME DayInv, DayInv', [DayNext]_dayVars, writer = "anyone"
      PROVE  Slacked(Today)' >= Slacked(Today)
  <2>1. /\ now \in Nat /\ now <= MaxInstant /\ Ledger \in SUBSET Interval
        /\ qualified[Candidate] \in SUBSET Interval /\ lease[Candidate] \in Leases
        /\ Today \in SUBSET Segs
    BY <1>1, LedgerTypes, TodayType
  <2>2. /\ now' \in Nat /\ now' <= MaxInstant /\ Ledger' \in SUBSET Interval
        /\ lease'[Candidate] \in Leases
    BY <1>1, CandidateIsAgent DEF DayInv, TInv, LedgerOK, Ledger
  <2>3. /\ writer' = writer /\ qualified' = qualified /\ now <= now'
        /\ Ledger \subseteq Ledger'
        /\ lease'[Candidate] = lease[Candidate] \/ \A i \in Ledger : i.end # None
    <3>1. CASE UNCHANGED dayVars
      BY <2>1, <3>1 DEF dayVars, settlementVars, ledger, Ledger
    <3>2. CASE DayNext
      <4>1. writer' = writer /\ (Add \/ Opens \/ Passes)
        BY <1>1, <3>2 DEF DayNext
      <4>2. qualified' = qualified
        BY <4>1 DEF Add, Opens, Passes, WriterRest
      <4>3. activities \in [Agent -> SUBSET Interval] /\ Candidate \in Agent
        BY <1>1, CandidateIsAgent DEF DayInv, TInv, LedgerOK
      <4>4. CASE Add
        BY <2>1, <4>1, <4>2, <4>3, <4>4 DEF Add, Ledger
      <4>5. CASE Opens
        BY <2>1, <4>1, <4>2, <4>3, <4>5 DEF Opens, Ledger
      <4>6. CASE Passes
        BY <2>1, <4>1, <4>2, <4>6 DEF Passes, Ledger
      <4> QED
        BY <4>1, <4>4, <4>5, <4>6
    <3> QED
      BY <1>1, <3>1, <3>2
  <2>4. Occurrences' = Occurrences
    BY <2>3 DEF Occurrences, Day
  <2> DEFINE V == Segments(Ledger', lease'[Candidate], qualified[Candidate], Occurrences, now')
  <2>5. Today' = V
    BY <2>3, <2>4 DEF Today
  <2>6. V \in SUBSET Segs
    BY <2>1, <2>2, SegmentsType
  <2>7. Covers(V, Today)
    BY <2>1, <2>2, <2>3, SegmentsGrow DEF Today
  <2> HIDE DEF V
  <2>8. Slacked(Today) <= Slacked(V)
    BY <2>1, <2>6, <2>7, ScoreGrows
  <2>9. Slacked(Today)' = Slacked(V)
    BY <2>5
  <2> QED
    BY <2>1, <2>6, <2>8, <2>9, SlackedIs
<1>2. DayInv /\ DayInv' /\ [DayNext]_dayVars
         => [writer = "anyone" => Slacked(Today)' >= Slacked(Today)]_dayVars
  BY <1>1
<1> QED
  BY <1>2, DayTypes, PTL DEF DaySpec, ScoreNeverFalls

\* The day whose ledger the transactions write is settled for good, and there
\* is no result of one that anyone writes: what SettledWithinGrace says of
\* Settlement holds of the day that is scored here.
THEOREM DaySettledForGood ==
    ASSUME Skew <= 0, MaxOpen < (Grace + 1) * Second
    PROVE  DaySpec => []SettlementInv
<1> DEFINE Inv == /\ writer = "transactions" => SInv /\ ConsentOK
                  /\ writer = "anyone" => result = None
<1>1. DayInit => DayInv /\ Inv
  BY DayTypeInit, SettledInit, ConsentInit DEF DayInit, SettlementInit
<1>2. DayInv /\ Inv /\ [DayNext]_dayVars => DayInv' /\ Inv'
  <2> SUFFICES ASSUME DayInv, Inv, [DayNext]_dayVars
               PROVE  Inv'
    BY DayTypeStep
  <2>1. TInv /\ writer' = writer
    BY DEF DayInv, DayNext, dayVars
  <2>2. CASE writer = "transactions"
    <3>1. [SettlementNext]_settlementVars
      BY <2>2 DEF DayNext, dayVars
    <3>2. SInv' /\ ConsentOK'
      BY <2>1, <2>2, <3>1, SettledStep, ConsentStep DEF Harmless
    <3> QED
      BY <2>1, <2>2, <3>2
  <2>3. CASE writer = "anyone"
    <3>1. result' = result
      BY <2>3 DEF DayNext, Add, Opens, Passes, WriterRest, dayVars, settlementVars
    <3> QED
      BY <2>1, <2>3, <3>1
  <2> QED
    BY <2>1, <2>2, <2>3 DEF DayInv
<1>3. DayInv /\ Inv => SettlementInv
  <2>1. TInv => SettlementTypeOK
    BY DEF TInv, LedgerOK, Leases, LockOK, SettlementTypeOK
  <2>2. SInv \/ result = None => SettledMatchesLedger
    BY DEF SInv, SettledMatchesLedger
  <2> QED
    BY <2>1, <2>2 DEF DayInv, SettlementInv
<1> HIDE DEF Inv
<1> QED
  BY <1>1, <1>2, <1>3, PTL DEF DaySpec
=============================================================================

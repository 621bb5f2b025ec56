----------------------------- MODULE SumTheorems -----------------------------
(***************************************************************************)
(* Facts about sums over finite sets, for any function and any set.        *)
(*                                                                         *)
(* The fold under Sum takes the elements of a set in an order of its own   *)
(* (CHOOSE).  Existence and uniqueness of the recursive function that it   *)
(* stands for come from the well-foundedness of the strict subsets of a    *)
(* finite set, in the form "a nonempty set of subsets has a smallest one"; *)
(* so does every fact that needs an induction.                             *)
(***************************************************************************)
EXTENDS Sums, FiniteSetTheorems, TLAPS

-----------------------------------------------------------------------------
(* Induction over finite sets *)

\* A nonempty set of subsets of a finite set has a smallest one.
LEMMA SmallestSubset ==
    ASSUME NEW S, IsFiniteSet(S), NEW G, G \subseteq SUBSET S, G # {}
    PROVE  \E T \in G : \A U \in G : U \subseteq T => U = T
<1>1. IsWellFoundedOn(StrictSubsetOrdering(S), SUBSET S)
  BY FS_StrictSubsetOrderingWellFounded, FS_FiniteSubsetsOfFinite
<1>2. PICK T \in G : \A U \in G : ~(<<U, T>> \in StrictSubsetOrdering(S))
  BY <1>1, WFMin
<1> QED BY <1>2 DEF StrictSubsetOrdering

\* What the empty set has, and a set with one more element when it has it,
\* every finite set has.
LEMMA SetInduction ==
    ASSUME NEW S, IsFiniteSet(S), NEW G, {} \in G,
           \A T \in SUBSET S : \A x \in S \ T : T \in G => T \cup {x} \in G
    PROVE  S \in G
<1> SUFFICES ASSUME S \notin G PROVE FALSE
  OBVIOUS
<1> DEFINE Bad == (SUBSET S) \ G
<1>1. PICK T \in Bad : \A U \in Bad : U \subseteq T => U = T
  <2>1. S \in Bad /\ Bad \subseteq SUBSET S
    OBVIOUS
  <2> HIDE DEF Bad
  <2> QED BY <2>1, SmallestSubset
<1>2. PICK x : x \in T
  BY <1>1
<1> DEFINE U == T \ {x}
<1>3. U \in SUBSET S /\ U \in G /\ x \in S \ U /\ U \cup {x} = T
  BY <1>1, <1>2
<1> HIDE DEF U
<1> QED BY <1>1, <1>3

-----------------------------------------------------------------------------
(* The fold under a sum *)

Pick(s) == CHOOSE x \in s : TRUE

\* h is the recursive function that sums f over the subsets of S.
Unfolds(h, f, S) ==
    h = [s \in SUBSET S |-> IF s = {} THEN 0 ELSE f[Pick(s)] + h[s \ {Pick(s)}]]

\* Sum is that function, if there is one.
LEMMA SumIsFold == ASSUME NEW f, NEW S PROVE Sum(f, S) = (CHOOSE h : Unfolds(h, f, S))[S]
BY DEF Sum, MapThenSumSet, MapThenFoldSet, Unfolds, Pick

\* What Unfolds says of one subset.
LEMMA UnfoldsAt ==
    ASSUME NEW f, NEW S, NEW h, Unfolds(h, f, S)
    PROVE  /\ h[{}] = 0
           /\ \A s \in SUBSET S : s # {} =>
                  Pick(s) \in s /\ h[s] = f[Pick(s)] + h[s \ {Pick(s)}]
<1>1. \A s : s # {} => Pick(s) \in s
  BY DEF Pick
<1> HIDE DEF Pick
<1> QED BY <1>1 DEF Unfolds

\* Two such functions agree where both are defined.
LEMMA FoldUnique ==
    ASSUME NEW f, NEW S, NEW T, IsFiniteSet(T), T \subseteq S,
           NEW g, Unfolds(g, f, S), NEW h, Unfolds(h, f, T)
    PROVE  \A s \in SUBSET T : g[s] = h[s]
<1> SUFFICES ASSUME NEW z \in SUBSET T, g[z] # h[z] PROVE FALSE
  OBVIOUS
<1> DEFINE Bad == {s \in SUBSET T : g[s] # h[s]}
<1>1. PICK s \in Bad : \A u \in Bad : u \subseteq s => u = s
  <2>1. z \in Bad /\ Bad \subseteq SUBSET T
    OBVIOUS
  <2> HIDE DEF Bad
  <2> QED BY <2>1, SmallestSubset
<1>2. /\ g[{}] = 0
      /\ \A u \in SUBSET S : u # {} => Pick(u) \in u /\ g[u] = f[Pick(u)] + g[u \ {Pick(u)}]
  BY UnfoldsAt
<1>3. /\ h[{}] = 0
      /\ \A u \in SUBSET T : u # {} => Pick(u) \in u /\ h[u] = f[Pick(u)] + h[u \ {Pick(u)}]
  BY UnfoldsAt
<1> HIDE DEF Pick
<1>4. s # {}
  BY <1>1, <1>2, <1>3
<1>5. g[s \ {Pick(s)}] = h[s \ {Pick(s)}]
  BY <1>1, <1>3, <1>4
<1> QED BY <1>1, <1>2, <1>3, <1>4, <1>5

\* There is one, for every finite set.
LEMMA FoldExists ==
    ASSUME NEW f, NEW S, IsFiniteSet(S)
    PROVE  \E h : Unfolds(h, f, S)
<1> SUFFICES ASSUME ~\E h : Unfolds(h, f, S) PROVE FALSE
  OBVIOUS
<1> DEFINE Bad == {T \in SUBSET S : ~\E h : Unfolds(h, f, T)}
<1>1. PICK T \in Bad : \A U \in Bad : U \subseteq T => U = T
  <2>1. S \in Bad /\ Bad \subseteq SUBSET S
    OBVIOUS
  <2> HIDE DEF Bad
  <2> QED BY <2>1, SmallestSubset
<1> DEFINE fold(U) == CHOOSE h : Unfolds(h, f, U)
           below(U) == IF U = {} THEN 0 ELSE f[Pick(U)] + fold(U \ {Pick(U)})[U \ {Pick(U)}]
           h == [U \in SUBSET T |-> below(U)]
<1>2. \A U \in SUBSET T : U # T => Unfolds(fold(U), f, U)
  BY <1>1
<1> HIDE DEF fold
<1>3. \A U \in SUBSET T : U # {} => Pick(U) \in U
  BY DEF Pick
<1>4. ASSUME NEW U \in SUBSET T, U # T PROVE fold(U)[U] = below(U)
  <2>1. CASE U = {}
    BY <1>2, <1>4, <2>1, UnfoldsAt
  <2>2. CASE U # {}
    <3> DEFINE V == U \ {Pick(U)}
    <3>1. V \in SUBSET U /\ V \in SUBSET T /\ V # T
      BY <1>3, <1>4, <2>2
    <3>2. fold(U)[U] = f[Pick(U)] + fold(U)[V]
      BY <1>2, <1>4, <2>2, UnfoldsAt
    <3>3. Unfolds(fold(U), f, U) /\ Unfolds(fold(V), f, V)
      BY <1>2, <1>4, <3>1
    <3>4. IsFiniteSet(V)
      BY <3>1, FS_Subset
    <3>5. fold(U)[V] = fold(V)[V]
      <4> HIDE DEF V
      <4> QED BY <3>1, <3>3, <3>4, FoldUnique
    <3> QED BY <2>2, <3>2, <3>5
  <2> QED BY <2>1, <2>2
<1>5. Unfolds(h, f, T)
  <2> SUFFICES ASSUME NEW U \in SUBSET T
      PROVE  below(U) = IF U = {} THEN 0 ELSE f[Pick(U)] + h[U \ {Pick(U)}]
    BY DEF Unfolds
  <2>1. CASE U # {}
    <3>1. U \ {Pick(U)} \in SUBSET T /\ U \ {Pick(U)} # T
      BY <1>3, <2>1
    <3>2. h[U \ {Pick(U)}] = fold(U \ {Pick(U)})[U \ {Pick(U)}]
      <4> DEFINE V == U \ {Pick(U)}
      <4>1. h[V] = below(V) /\ fold(V)[V] = below(V)
        <5> HIDE DEF V
        <5> QED BY <1>4, <3>1 DEF V
      <4> QED BY <4>1
    <3> QED BY <2>1, <3>2
  <2> QED BY <2>1
<1> QED BY <1>1, <1>5

-----------------------------------------------------------------------------
(* Adding and removing an element *)

\* The sum over nothing.
LEMMA SumEmpty == ASSUME NEW f PROVE Sum(f, {}) = 0
<1>1. PICK h : Unfolds(h, f, {})
  BY FoldExists, FS_EmptySet
<1>2. Unfolds(CHOOSE g : Unfolds(g, f, {}), f, {})
  BY <1>1
<1> QED BY <1>2, SumIsFold, UnfoldsAt

\* The sum over a set, by the element that the fold takes first.
LEMMA SumPick ==
    ASSUME NEW f, NEW S, IsFiniteSet(S), S # {}
    PROVE  Pick(S) \in S /\ Sum(f, S) = f[Pick(S)] + Sum(f, S \ {Pick(S)})
<1> DEFINE fold(U) == CHOOSE h : Unfolds(h, f, U)
           T == S \ {Pick(S)}
<1>1. T \in SUBSET S /\ IsFiniteSet(T)
  BY FS_Subset
<1>2. Unfolds(fold(S), f, S) /\ Unfolds(fold(T), f, T)
  BY <1>1, FoldExists
<1>3. Sum(f, S) = fold(S)[S] /\ Sum(f, T) = fold(T)[T]
  BY SumIsFold
<1>4. Pick(S) \in S /\ fold(S)[S] = f[Pick(S)] + fold(S)[T]
  <2> HIDE DEF fold
  <2> QED BY <1>2, UnfoldsAt
<1>5. fold(S)[T] = fold(T)[T]
  <2> HIDE DEF fold, T
  <2> QED BY <1>1, <1>2, FoldUnique
<1> QED BY <1>3, <1>4, <1>5

\* Sums of integers are integers.
LEMMA SumType ==
    ASSUME NEW f, NEW S, IsFiniteSet(S), \A x \in S : f[x] \in Int
    PROVE  Sum(f, S) \in Int
<1> SUFFICES ASSUME Sum(f, S) \notin Int PROVE FALSE
  OBVIOUS
<1> DEFINE Bad == {T \in SUBSET S : Sum(f, T) \notin Int}
<1>1. PICK T \in Bad : \A U \in Bad : U \subseteq T => U = T
  <2>1. S \in Bad /\ Bad \subseteq SUBSET S
    OBVIOUS
  <2> HIDE DEF Bad
  <2> QED BY <2>1, SmallestSubset
<1>2. IsFiniteSet(T) /\ T # {}
  <2>1. Sum(f, {}) \in Int
    BY SumEmpty
  <2>2. IsFiniteSet(T)
    BY <1>1, FS_Subset
  <2> QED BY <1>1, <2>1, <2>2
<1>3. Pick(T) \in T /\ Sum(f, T) = f[Pick(T)] + Sum(f, T \ {Pick(T)})
  BY <1>2, SumPick
<1>4. Sum(f, T \ {Pick(T)}) \in Int
  BY <1>1, <1>3
<1> QED BY <1>1, <1>3, <1>4

\* Any element may be taken out first.
LEMMA SumRemove ==
    ASSUME NEW f, NEW S, IsFiniteSet(S), \A y \in S : f[y] \in Int, NEW x \in S
    PROVE  Sum(f, S) = f[x] + Sum(f, S \ {x})
<1> SUFFICES ASSUME Sum(f, S) # f[x] + Sum(f, S \ {x}) PROVE FALSE
  OBVIOUS
<1> DEFINE Bad == {T \in SUBSET S : \E y \in T : Sum(f, T) # f[y] + Sum(f, T \ {y})}
<1>1. PICK T \in Bad : \A U \in Bad : U \subseteq T => U = T
  <2>1. S \in Bad /\ Bad \subseteq SUBSET S
    OBVIOUS
  <2> HIDE DEF Bad
  <2> QED BY <2>1, SmallestSubset
<1>2. PICK y \in T : Sum(f, T) # f[y] + Sum(f, T \ {y})
  BY <1>1
<1>3. \A U \in SUBSET T : U # T => \A z \in U : Sum(f, U) = f[z] + Sum(f, U \ {z})
  BY <1>1
<1> HIDE DEF Bad
<1>4. IsFiniteSet(T) /\ T # {}
  BY <1>1, <1>2, FS_Subset DEF Bad
<1> DEFINE p == Pick(T)
           rest == T \ {y, p}
<1>5. p \in T /\ Sum(f, T) = f[p] + Sum(f, T \ {p})
  BY <1>4, SumPick
<1> HIDE DEF p
<1>6. p # y
  BY <1>2, <1>5
<1>7. Sum(f, T \ {p}) = f[y] + Sum(f, rest)
  <2>1. (T \ {p}) \ {y} = rest
    OBVIOUS
  <2> QED BY <1>2, <1>3, <1>5, <1>6, <2>1
<1>8. Sum(f, T \ {y}) = f[p] + Sum(f, rest)
  <2>1. (T \ {y}) \ {p} = rest
    OBVIOUS
  <2> QED BY <1>2, <1>3, <1>5, <1>6, <2>1
<1>9. T \subseteq S
  BY <1>1 DEF Bad
<1>10. Sum(f, rest) \in Int
  <2>1. rest \in SUBSET S
    BY <1>9
  <2> HIDE DEF rest
  <2> QED BY <2>1, SumType, FS_Subset
<1>11. f[y] \in Int /\ f[p] \in Int
  BY <1>2, <1>5, <1>9
<1> HIDE DEF rest
<1> QED BY <1>2, <1>5, <1>7, <1>8, <1>10, <1>11

\* One more element.
LEMMA SumAdd ==
    ASSUME NEW f, NEW S, IsFiniteSet(S), NEW x, x \notin S, \A y \in S \cup {x} : f[y] \in Int
    PROVE  Sum(f, S \cup {x}) = f[x] + Sum(f, S)
<1> DEFINE T == S \cup {x}
<1>1. IsFiniteSet(T) /\ x \in T /\ T \ {x} = S
  BY FS_AddElement
<1>2. \A y \in T : f[y] \in Int
  OBVIOUS
<1> HIDE DEF T
<1>3. Sum(f, T) = f[x] + Sum(f, S)
  BY <1>1, <1>2, SumRemove
<1> QED BY <1>3 DEF T

-----------------------------------------------------------------------------
(* Two sums *)

\* Functions that agree on a set have the same sum over it.
LEMMA SumSame ==
    ASSUME NEW f, NEW g, NEW S, IsFiniteSet(S), \A x \in S : f[x] \in Int /\ f[x] = g[x]
    PROVE  Sum(f, S) = Sum(g, S)
<1> DEFINE G == {T \in SUBSET S : Sum(f, T) = Sum(g, T)}
<1>1. {} \in G
  BY SumEmpty
<1>2. ASSUME NEW T \in SUBSET S, NEW x \in S \ T, T \in G PROVE T \cup {x} \in G
  <2>1. Sum(f, T \cup {x}) = f[x] + Sum(f, T) /\ Sum(g, T \cup {x}) = g[x] + Sum(g, T)
    BY SumAdd, FS_Subset
  <2> QED BY <1>2, <2>1
<1>3. S \in G
  <2> HIDE DEF G
  <2> QED BY <1>1, <1>2, SetInduction
<1> QED BY <1>3

\* A sum of sums.
LEMMA SumPlus ==
    ASSUME NEW f, NEW g, NEW h, NEW S, IsFiniteSet(S),
           \A x \in S : f[x] \in Int /\ g[x] \in Int /\ h[x] = f[x] + g[x]
    PROVE  Sum(h, S) = Sum(f, S) + Sum(g, S)
<1> DEFINE G == {T \in SUBSET S : Sum(h, T) = Sum(f, T) + Sum(g, T)}
<1>1. {} \in G
  BY SumEmpty
<1>2. ASSUME NEW T \in SUBSET S, NEW x \in S \ T, T \in G PROVE T \cup {x} \in G
  <2>1. IsFiniteSet(T) /\ \A y \in T \cup {x} : h[y] \in Int
    BY FS_Subset
  <2>2. /\ Sum(f, T \cup {x}) = f[x] + Sum(f, T)
        /\ Sum(g, T \cup {x}) = g[x] + Sum(g, T)
        /\ Sum(h, T \cup {x}) = h[x] + Sum(h, T)
    BY <2>1, SumAdd
  <2>3. Sum(f, T) \in Int /\ Sum(g, T) \in Int
    BY <2>1, SumType
  <2> QED BY <1>2, <2>2, <2>3
<1>3. S \in G
  <2> HIDE DEF G
  <2> QED BY <1>1, <1>2, SetInduction
<1> QED BY <1>3

\* Nothing but zeros.
LEMMA SumZero == ASSUME NEW f, NEW S, IsFiniteSet(S), \A x \in S : f[x] = 0 PROVE Sum(f, S) = 0
<1> DEFINE G == {T \in SUBSET S : Sum(f, T) = 0}
<1>1. {} \in G
  BY SumEmpty
<1>2. ASSUME NEW T \in SUBSET S, NEW x \in S \ T, T \in G PROVE T \cup {x} \in G
  <2>1. Sum(f, T \cup {x}) = f[x] + Sum(f, T)
    BY SumAdd, FS_Subset
  <2> QED BY <1>2, <2>1
<1>3. S \in G
  <2> HIDE DEF G
  <2> QED BY <1>1, <1>2, SetInduction
<1> QED BY <1>3

\* Natural numbers have a natural sum, which is at least each of them.
LEMMA SumNat ==
    ASSUME NEW f, NEW S, IsFiniteSet(S), \A x \in S : f[x] \in Nat
    PROVE  Sum(f, S) \in Nat /\ \A x \in S : f[x] <= Sum(f, S)
<1> DEFINE G == {T \in SUBSET S : Sum(f, T) \in Nat}
<1>1. {} \in G
  BY SumEmpty
<1>2. ASSUME NEW T \in SUBSET S, NEW x \in S \ T, T \in G PROVE T \cup {x} \in G
  <2>1. Sum(f, T \cup {x}) = f[x] + Sum(f, T)
    BY SumAdd, FS_Subset
  <2> QED BY <1>2, <2>1
<1>3. SUBSET S \subseteq G
  <2> SUFFICES ASSUME NEW T \in SUBSET S PROVE T \in G
    OBVIOUS
  <2>1. IsFiniteSet(T) /\ \A U \in SUBSET T : \A x \in T \ U : U \in G => U \cup {x} \in G
    BY <1>2, FS_Subset
  <2> HIDE DEF G
  <2> QED BY <1>1, <2>1, SetInduction
<1>4. ASSUME NEW x \in S PROVE f[x] <= Sum(f, S)
  <2>1. Sum(f, S) = f[x] + Sum(f, S \ {x})
    BY SumRemove
  <2>2. S \ {x} \in G
    BY <1>3
  <2> QED BY <2>1, <2>2
<1> QED BY <1>3, <1>4

\* A function changed in one place.
LEMMA SumUpdate ==
    ASSUME NEW f, NEW g, NEW S, IsFiniteSet(S), NEW x \in S,
           \A y \in S : f[y] \in Int /\ g[y] \in Int,
           \A y \in S \ {x} : g[y] = f[y]
    PROVE  Sum(g, S) = Sum(f, S) + g[x] - f[x]
<1> DEFINE T == S \ {x}
<1>1. IsFiniteSet(T) /\ \A y \in T : f[y] \in Int /\ f[y] = g[y]
  BY FS_RemoveElement
<1> HIDE DEF T
<1>2. Sum(f, T) = Sum(g, T) /\ Sum(f, T) \in Int
  BY <1>1, SumSame, SumType
<1>3. Sum(f, S) = f[x] + Sum(f, T) /\ Sum(g, S) = g[x] + Sum(g, T)
  BY SumRemove DEF T
<1> QED BY <1>2, <1>3

\* What adds nothing can be left out.
LEMMA SumRestrict ==
    ASSUME NEW f, NEW S, IsFiniteSet(S), NEW T \in SUBSET S,
           \A x \in T : f[x] \in Int, \A x \in S \ T : f[x] = 0
    PROVE  Sum(f, S) = Sum(f, T)
<1> DEFINE G == {U \in SUBSET (S \ T) : Sum(f, T \cup U) = Sum(f, T)}
           R == S \ T
<1>1. IsFiniteSet(R) /\ IsFiniteSet(T) /\ T \cup R = S
  BY FS_Subset
<1>2. {} \in G
  <2>1. T \cup {} = T
    OBVIOUS
  <2> QED BY <2>1
<1>3. ASSUME NEW U \in SUBSET R, NEW x \in R \ U, U \in G PROVE U \cup {x} \in G
  <2> DEFINE V == T \cup U
  <2>1. V \in SUBSET S /\ x \notin V /\ T \cup (U \cup {x}) = V \cup {x}
    OBVIOUS
  <2>2. IsFiniteSet(V) /\ f[x] = 0 /\ \A y \in V \cup {x} : f[y] \in Int
    <3>1. IsFiniteSet(V)
      BY <2>1, FS_Subset
    <3> QED BY <3>1
  <2>3. Sum(f, V) = Sum(f, T)
    BY <1>3
  <2> HIDE DEF V
  <2>4. Sum(f, V \cup {x}) = 0 + Sum(f, V) /\ Sum(f, V) \in Int
    BY <2>1, <2>2, SumAdd, SumType
  <2>5. Sum(f, V \cup {x}) = Sum(f, T)
    BY <2>3, <2>4
  <2>6. Sum(f, T \cup (U \cup {x})) = Sum(f, T)
    BY <2>1, <2>5, Zenon
  <2> QED BY <2>6
<1>4. R \in G
  <2> HIDE DEF G, R
  <2> QED BY <1>1, <1>2, <1>3, SetInduction
<1> QED BY <1>1, <1>4

\* A sum of one.
LEMMA SumOne == ASSUME NEW f, NEW x, f[x] \in Int PROVE Sum(f, {x}) = f[x]
<1>1. IsFiniteSet({}) /\ x \notin {} /\ {} \cup {x} = {x} /\ \A y \in {} \cup {x} : f[y] \in Int
  BY FS_EmptySet
<1>2. Sum(f, {} \cup {x}) = f[x] + Sum(f, {})
  BY <1>1, SumAdd
<1> QED BY <1>1, <1>2, SumEmpty

\* A sum taken in groups: key gives the group of each element.
LEMMA SumPartition ==
    ASSUME NEW f, NEW S, IsFiniteSet(S), \A x \in S : f[x] \in Int,
           NEW K, IsFiniteSet(K), NEW key, \A x \in S : key[x] \in K,
           NEW group, \A k \in K : group[k] = Sum(f, {x \in S : key[x] = k})
    PROVE  Sum(group, K) = Sum(f, S)
<1> DEFINE part(T) == [k \in K |-> Sum(f, {x \in T : key[x] = k})]
           G == {T \in SUBSET S : Sum(part(T), K) = Sum(f, T)}
<1>1. {} \in G
  <2>1. \A k \in K : part({})[k] = 0
    <3> TAKE k \in K
    <3>1. {x \in {} : key[x] = k} = {}
      OBVIOUS
    <3> QED BY <3>1, SumEmpty
  <2> HIDE DEF part
  <2>2. Sum(part({}), K) = 0
    BY <2>1, SumZero
  <2> QED BY <2>2, SumEmpty
<1>2. ASSUME NEW T \in SUBSET S, NEW x \in S \ T, T \in G PROVE T \cup {x} \in G
  <2> DEFINE U == T \cup {x}
             old == part(T)
             new == part(U)
  <2>1. U \in SUBSET S /\ IsFiniteSet(T) /\ IsFiniteSet(U) /\ key[x] \in K
    BY FS_Subset
  <2>2. ASSUME NEW k \in K
        PROVE  /\ old[k] \in Int /\ new[k] \in Int
               /\ k # key[x] => new[k] = old[k]
               /\ k = key[x] => new[k] = old[k] + f[x]
    <3> DEFINE A == {y \in T : key[y] = k}
               B == {y \in U : key[y] = k}
    <3>1. old[k] = Sum(f, A) /\ new[k] = Sum(f, B)
      OBVIOUS
    <3>2. A \subseteq T /\ B \subseteq U /\ x \notin A
      OBVIOUS
    <3>3. IsFiniteSet(A) /\ IsFiniteSet(B)
      BY <2>1, <3>2, FS_Subset
    <3>4. \A y \in A \cup B : f[y] \in Int
      BY <2>1
    <3>5. /\ k # key[x] => B = A
          /\ k = key[x] => B = A \cup {x}
      OBVIOUS
    <3> HIDE DEF A, B, old, new
    <3>6. Sum(f, A) \in Int /\ Sum(f, B) \in Int
      BY <3>3, <3>4, SumType
    <3>7. k # key[x] => new[k] = old[k]
      BY <3>1, <3>5
    <3>8. ASSUME k = key[x] PROVE new[k] = old[k] + f[x]
      <4>1. Sum(f, A \cup {x}) = f[x] + Sum(f, A) /\ f[x] \in Int
        BY <3>2, <3>3, <3>4, SumAdd
      <4>2. B = A \cup {x}
        BY <3>5, <3>8
      <4>3. new[k] = f[x] + old[k]
        BY <3>1, <4>1, <4>2
      <4> QED BY <3>1, <3>6, <4>1, <4>3
    <3>9. old[k] \in Int /\ new[k] \in Int
      BY <3>1, <3>6
    <3> QED BY <3>7, <3>8, <3>9
  <2>3. Sum(f, U) = f[x] + Sum(f, T) /\ Sum(f, T) \in Int
    BY <2>1, SumAdd, SumType
  <2>4. Sum(old, K) = Sum(f, T)
    BY <1>2
  <2> HIDE DEF old, new, U
  <2>5. Sum(new, K) = Sum(old, K) + new[key[x]] - old[key[x]]
    BY <2>1, <2>2, SumUpdate
  <2>6. Sum(new, K) = Sum(f, U)
    BY <2>1, <2>2, <2>3, <2>4, <2>5
  <2> QED BY <2>1, <2>6 DEF new, U
<1>3. Sum(part(S), K) = Sum(f, S)
  <2> HIDE DEF G
  <2>1. S \in G
    BY <1>1, <1>2, SetInduction
  <2> QED BY <2>1 DEF G
<1>4. \A k \in K : part(S)[k] \in Int /\ part(S)[k] = group[k]
  <2> TAKE k \in K
  <2> DEFINE A == {x \in S : key[x] = k}
  <2>1. IsFiniteSet(A) /\ \A y \in A : f[y] \in Int
    BY FS_Subset
  <2> HIDE DEF A
  <2>2. Sum(f, A) \in Int
    BY <2>1, SumType
  <2> QED BY <2>2 DEF A
<1> HIDE DEF part
<1>5. Sum(part(S), K) = Sum(group, K)
  BY <1>4, SumSame
<1> QED BY <1>3, <1>5

-----------------------------------------------------------------------------
(* Sums in an order *)

\* before gives what comes before each element of S.
Ordered(before, S) ==
    /\ \A x \in S : x \notin before[x]
    /\ \A x, y \in S : x # y => x \in before[y] \/ y \in before[x]
    /\ \A x, y, z \in S : x \in before[y] /\ y \in before[z] => x \in before[z]

\* An element that comes after all others leaves the order one.
LEMMA OrderedAdd ==
    ASSUME NEW before, NEW S, Ordered(before, S), NEW x, x \notin S,
           NEW after, after[x] = S, \A y \in S : after[y] = before[y] /\ x \notin before[y]
    PROVE  Ordered(after, S \cup {x})
<1>1. /\ \A y \in S : y \notin before[y]
      /\ \A y, z \in S : y # z => y \in before[z] \/ z \in before[y]
      /\ \A w, y, z \in S : w \in before[y] /\ y \in before[z] => w \in before[z]
  BY DEF Ordered
<1>2. \A y \in S \cup {x} : y \notin after[y]
  BY <1>1
<1>3. \A y, z \in S \cup {x} : y # z => y \in after[z] \/ z \in after[y]
  BY <1>1
<1>4. ASSUME NEW w \in S \cup {x}, NEW y \in S \cup {x}, NEW z \in S \cup {x},
             w \in after[y], y \in after[z]
      PROVE  w \in after[z]
  <2>1. y \in S
    BY <1>4
  <2>2. w \in S
    BY <1>4, <2>1
  <2> QED BY <1>1, <1>4, <2>1, <2>2
<1> QED BY <1>2, <1>3, <1>4 DEF Ordered

\* A finite set in an order has a last element.
LEMMA LastElement ==
    ASSUME NEW before, NEW S, IsFiniteSet(S), S # {}, Ordered(before, S)
    PROVE  \E m \in S : \A x \in S \ {m} : x \in before[m]
<1> DEFINE G == {T \in SUBSET S : T # {} => \E m \in T : \A x \in T \ {m} : x \in before[m]}
<1>1. {} \in G
  OBVIOUS
<1>2. ASSUME NEW T \in SUBSET S, NEW y \in S \ T, T \in G PROVE T \cup {y} \in G
  <2>1. CASE T = {}
    BY <2>1
  <2>2. CASE T # {}
    <3>1. PICK m \in T : \A x \in T \ {m} : x \in before[m]
      BY <1>2, <2>2
    <3>2. CASE y \in before[m]
      BY <3>1, <3>2
    <3>3. CASE m \in before[y]
      <4>1. \A x \in T : x \in before[y]
        BY <3>1, <3>3 DEF Ordered
      <4> QED BY <4>1
    <3> QED BY <3>1, <3>2, <3>3 DEF Ordered
  <2> QED BY <2>1, <2>2
<1>3. S \in G
  <2> HIDE DEF G
  <2> QED BY <1>1, <1>2, SetInduction
<1> QED BY <1>3

\* What a stretch of the given width has of the first n.
Clamp(n, width) == IF n <= 0 THEN 0 ELSE IF n <= width THEN n ELSE width

\* Where x begins when the elements of S are laid end to end.
Start(size, before, S, x) == Sum(size, {y \in S : y \in before[x]})

\* Elements laid end to end cover a stretch of the line without gap or
\* overlap: what they have in common with it adds up to what all of them
\* together reach of it.
THEOREM EndToEnd ==
    ASSUME NEW before, NEW S, IsFiniteSet(S), Ordered(before, S),
           NEW size, \A x \in S : size[x] \in Nat,
           NEW from \in Nat, NEW width \in Nat, NEW part,
           \A x \in S : part[x] = Clamp(Start(size, before, S, x) + size[x] - from, width)
                                     - Clamp(Start(size, before, S, x) - from, width)
    PROVE  Sum(part, S) = Clamp(Sum(size, S) - from, width)
<1>1. \A T \in SUBSET S : IsFiniteSet(T) /\ Sum(size, T) \in Nat
  BY FS_Subset, SumNat
<1>2. \A x \in S : Start(size, before, S, x) \in Nat
  <2> TAKE x \in S
  <2> DEFINE T == {y \in S : y \in before[x]}
  <2>1. T \in SUBSET S
    OBVIOUS
  <2> HIDE DEF T
  <2>2. Sum(size, T) \in Nat
    BY <1>1, <2>1
  <2> QED BY <2>2 DEF Start, T
<1>3. \A x \in S : part[x] \in Int
  BY <1>2 DEF Clamp
<1> DEFINE Closed(T) == \A x \in T : \A y \in S : y \in before[x] => y \in T
           Right(T) == Sum(part, T) = Clamp(Sum(size, T) - from, width)
           Bad == {T \in SUBSET S : Closed(T) /\ ~Right(T)}
<1> SUFFICES ASSUME ~Right(S) PROVE FALSE
  OBVIOUS
<1>4. PICK T \in Bad : \A U \in Bad : U \subseteq T => U = T
  <2>1. S \in Bad /\ Bad \subseteq SUBSET S
    OBVIOUS
  <2> HIDE DEF Bad
  <2> QED BY <2>1, SmallestSubset
<1>5. T \in SUBSET S /\ Closed(T) /\ ~Right(T)
  BY <1>4
<1>6. \A U \in SUBSET T : U # T /\ Closed(U) => Right(U)
  BY <1>4, <1>5
<1> HIDE DEF Bad
<1>7. Right({})
  BY SumEmpty DEF Clamp
<1>8. T # {}
  <2> HIDE DEF Right
  <2> QED BY <1>5, <1>7
<1>9. PICK m \in T : \A x \in T \ {m} : x \in before[m]
  <2>1. Ordered(before, T)
    BY <1>5 DEF Ordered
  <2> QED BY <1>1, <1>5, <1>8, <2>1, LastElement
<1> DEFINE U == T \ {m}
<1>10. U = {y \in S : y \in before[m]}
  BY <1>5, <1>9 DEF Ordered
<1>11. U \in SUBSET T /\ U # T /\ Closed(U)
  BY <1>5, <1>9 DEF Ordered
<1>12. Right(U)
  <2> HIDE DEF Right, U, Closed
  <2> QED BY <1>6, <1>11
<1>13. Start(size, before, S, m) = Sum(size, U)
  BY <1>10 DEF Start
<1>14. Sum(size, T) = size[m] + Sum(size, U) /\ Sum(part, T) = part[m] + Sum(part, U)
  BY <1>1, <1>3, <1>5, SumRemove
<1>15. Sum(size, U) \in Nat /\ Sum(part, U) \in Int
  <2>1. U \in SUBSET S
    BY <1>5
  <2> HIDE DEF U
  <2> QED BY <1>1, <1>3, <2>1, SumType
<1>16. part[m] = Clamp(Sum(size, U) + size[m] - from, width) - Clamp(Sum(size, U) - from, width)
  BY <1>5, <1>13
<1> HIDE DEF U
<1>17. size[m] + Sum(size, U) = Sum(size, U) + size[m] /\ size[m] \in Nat /\ m \in S
  BY <1>5, <1>15
<1>18. Clamp(Sum(size, U) - from, width) \in Int /\ Clamp(Sum(size, U) + size[m] - from, width) \in Int
  BY <1>15, <1>17 DEF Clamp
<1> QED BY <1>5, <1>12, <1>14, <1>15, <1>16, <1>17, <1>18

=============================================================================

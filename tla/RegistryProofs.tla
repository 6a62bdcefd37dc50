--------------------------- MODULE RegistryProofs ---------------------------
(***************************************************************************)
(* Proofs about Registry: what operations and epochs decide of a validator *)
(* stays decided and in order, queues stay ordered, a block moves nothing  *)
(* that is cached for its epoch, and a slashed validator is penalised once.*)
(***************************************************************************)
EXTENDS Registry, RecursionTheorems

(* Arithmetic, sums and sequences *)

\* The smaller and the larger of two numbers.
LEMMA SmallerIs ==
    ASSUME NEW x \in Int, NEW y \in Int
    PROVE  Smaller(x, y) = IF x <= y THEN x ELSE y
<1>1. \E m \in {x, y} : \A n \in {x, y} : m =< n
  OBVIOUS
<1>2. Smaller(x, y) \in {x, y} /\ \A n \in {x, y} : Smaller(x, y) =< n
  BY <1>1 DEF Smaller, Min
<1> QED BY <1>2

\* The larger of two numbers.
LEMMA LargerIs ==
    ASSUME NEW x \in Int, NEW y \in Int
    PROVE  Larger(x, y) = IF x <= y THEN y ELSE x
<1>1. \E m \in {x, y} : \A n \in {x, y} : m >= n
  OBVIOUS
<1>2. Larger(x, y) \in {x, y} /\ \A n \in {x, y} : Larger(x, y) >= n
  BY <1>1 DEF Larger, Max
<1> QED BY <1>2

\* The sum of what f has for the elements of S.
SumOver(f, S) == MapThenSumSet(LAMBDA x : f[x], S)

\* S is finite and f has a natural number for each of its elements.
Summable(f, S) == IsFiniteSet(S) /\ \A x \in S : f[x] \in Nat

\* A sum takes one element, and goes on with the others.
LEMMA SumUnfold ==
    ASSUME NEW f, NEW S, Summable(f, S)
    PROVE  /\ SumOver(f, {}) = 0 /\ SumOver(f, S) \in Nat
           /\ S # {} => LET c == CHOOSE x \in S : TRUE IN SumOver(f, S) = f[c] + SumOver(f, S \ {c})
<1> DEFINE ch == [s \in SUBSET S |-> CHOOSE x \in s : TRUE]
           Is(h, V) == h = [s \in SUBSET V |-> IF s = {} THEN 0
                                ELSE f[CHOOSE x \in s : TRUE] + h[s \ {CHOOSE x \in s : TRUE}]]
           sum(V) == CHOOSE h : Is(h, V)
<1>1. Chooses(ch, S) /\ \A s \in SUBSET S : ch[s] = CHOOSE x \in s : TRUE
  BY DEF Chooses
<1>2. \A V : SumOver(f, V) = sum(V)[V]
  BY DEF SumOver, MapThenSumSet, MapThenFoldSet
<1> HIDE DEF ch
<1>3. ASSUME NEW V \in SUBSET S PROVE Is(sum(V), V) /\ \A s \in SUBSET V : sum(V)[s] \in Nat
  <2> DEFINE c == [s \in SUBSET V |-> ch[s]]
             g == [p \in V \X Nat |-> f[p[1]] + p[2]]
  <2>1. IsFiniteSet(V) /\ Chooses(c, V) /\ \A s \in SUBSET V : c[s] = CHOOSE x \in s : TRUE
    <3>1. IsFiniteSet(V)
      BY FS_Subset DEF Summable
    <3>2. \A s \in SUBSET V : s \in SUBSET S
      OBVIOUS
    <3> QED BY <1>1, <3>1, <3>2 DEF Chooses
  <2>2. g \in [V \X Nat -> Nat] /\ \A v \in V, n \in Nat : g[<<v, n>>] = f[v] + n
    BY DEF Summable
  <2> HIDE DEF c, g
  <2>3. PICK h : IsFold(h, SUBSET V, Nat, 0, g, c)
    BY <2>1, <2>2, FoldExists
  <2>4. Is(h, V)
    <3>1. ASSUME NEW s \in SUBSET V, s # {} PROVE h[s] = f[c[s]] + h[s \ {c[s]}]
      <4>1. c[s] \in V /\ s \ {c[s]} \in SUBSET V
        BY <2>1, <3>1 DEF Chooses
      <4>2. h[s \ {c[s]}] \in Nat
        BY <2>3, <4>1 DEF IsFold
      <4> QED BY <2>2, <2>3, <3>1, <4>1, <4>2 DEF IsFold
    <3>2. h[{}] = 0 /\ h = [s \in SUBSET V |-> h[s]]
      BY <2>3 DEF IsFold
    <3> QED BY <2>1, <3>1, <3>2
  <2>5. Is(sum(V), V)
    BY <2>4
  <2> DEFINE u == sum(V)
  <2>6. u = [s \in SUBSET V |-> IF s = {} THEN 0
                                ELSE f[CHOOSE x \in s : TRUE] + u[s \ {CHOOSE x \in s : TRUE}]]
    BY <2>5
  <2> HIDE DEF u
  <2> DEFINE T == {s \in SUBSET V : u[s] \in Nat}
  <2>8. {} \in T
    BY <2>6
  <2>9. ASSUME NEW s \in SUBSET V, s # {}, s \ {c[s]} \in T PROVE s \in T
    <3>0. c[s] \in V /\ c[s] = CHOOSE x \in s : TRUE
      BY <2>1, <2>9 DEF Chooses
    <3>1. c[s] \in V /\ u[s] = f[c[s]] + u[s \ {c[s]}]
      BY <2>6, <2>9, <3>0
    <3>2. f[c[s]] \in Nat /\ u[s \ {c[s]}] \in Nat
      BY <2>9, <3>1 DEF Summable
    <3> QED BY <3>1, <3>2
  <2> HIDE DEF T
  <2>10. SUBSET V \subseteq T
    BY <2>1, <2>8, <2>9, SubsetInduction
  <2> QED BY <2>5, <2>10 DEF T, u
<1> HIDE DEF sum
<1>4. \A V \in SUBSET S : sum(V)[{}] = 0 /\ \A s \in SUBSET V : s # {} => sum(V)[s] = f[ch[s]] + sum(V)[s \ {ch[s]}]
  <2> SUFFICES ASSUME NEW V \in SUBSET S
               PROVE  sum(V)[{}] = 0 /\ \A s \in SUBSET V : s # {} => sum(V)[s] = f[ch[s]] + sum(V)[s \ {ch[s]}]
    OBVIOUS
  <2>0. \A s \in SUBSET V : s \in SUBSET S
    OBVIOUS
  <2>1. Is(sum(V), V) /\ \A s \in SUBSET V : ch[s] = CHOOSE x \in s : TRUE
    BY <1>1, <1>3, <2>0
  <2> QED BY <2>1
<1> HIDE DEF Is
<1>5. ASSUME NEW V \in SUBSET S PROVE sum(V)[V] = sum(S)[V]
  <2> DEFINE c == [s \in SUBSET V |-> ch[s]]
             T == {s \in SUBSET V : sum(V)[s] = sum(S)[s]}
  <2>1. IsFiniteSet(V) /\ Chooses(c, V) /\ \A s \in SUBSET V : c[s] = ch[s] /\ s \in SUBSET S
    <3>1. IsFiniteSet(V)
      BY FS_Subset DEF Summable
    <3>2. \A s \in SUBSET V : s \in SUBSET S
      OBVIOUS
    <3> QED BY <1>1, <3>1, <3>2 DEF Chooses
  <2>2. {} \in T
    BY <1>4
  <2>3. \A s \in SUBSET V : s # {} /\ s \ {c[s]} \in T => s \in T
    BY <1>4, <2>1
  <2> HIDE DEF c, T
  <2>4. SUBSET V \subseteq T
    BY <2>1, <2>2, <2>3, SubsetInduction
  <2> QED BY <2>4 DEF T
<1>6. SumOver(f, {}) = 0
  <2>1. sum({})[{}] = 0
    BY <1>4
  <2> QED BY <1>2, <2>1
<1>7. SumOver(f, S) \in Nat
  BY <1>2, <1>3
<1>8. ASSUME S # {} PROVE LET c == CHOOSE x \in S : TRUE IN SumOver(f, S) = f[c] + SumOver(f, S \ {c})
  <2>1. ch[S] = CHOOSE x \in S : TRUE
    BY <1>1
  <2>2. sum(S)[S] = f[ch[S]] + sum(S)[S \ {ch[S]}]
    BY <1>4, <1>8
  <2>3. sum(S \ {ch[S]})[S \ {ch[S]}] = sum(S)[S \ {ch[S]}]
    BY <1>5
  <2>4. SumOver(f, S) = sum(S)[S] /\ SumOver(f, S \ {ch[S]}) = sum(S \ {ch[S]})[S \ {ch[S]}]
    BY <1>2
  <2>5. SumOver(f, S) = f[ch[S]] + SumOver(f, S \ {ch[S]})
    BY <2>2, <2>3, <2>4
  <2> QED BY <2>1, <2>5
<1> QED BY <1>6, <1>7, <1>8

\* It is the same whichever element comes first.
LEMMA SumRemove ==
    ASSUME NEW f, NEW S, Summable(f, S), NEW x \in S
    PROVE  SumOver(f, S) = f[x] + SumOver(f, S \ {x})
<1> DEFINE N == {n \in Nat : \A s \in Small(S, n) : \A y \in s : SumOver(f, s) = f[y] + SumOver(f, s \ {y})}
<1>1. \A s \in SUBSET S : Summable(f, s) /\ Cardinality(s) \in Nat
  BY FS_Subset, FS_CardinalityType DEF Summable
<1>2. \A s \in SUBSET S : SumOver(f, s) \in Nat
  BY <1>1, SumUnfold
<1>3. 0 \in N
  <2>1. \A s \in Small(S, 0) : s = {}
    BY <1>1, FS_EmptySet DEF Small, Summable
  <2> QED BY <2>1
<1>4. ASSUME NEW n \in Nat, n \in N PROVE n + 1 \in N
  <2> SUFFICES ASSUME NEW s \in Small(S, n + 1), NEW y \in s PROVE SumOver(f, s) = f[y] + SumOver(f, s \ {y})
    OBVIOUS
  <2> DEFINE c == CHOOSE z \in s : TRUE
  <2>1. s \in SUBSET S /\ c \in s /\ Cardinality(s) <= n + 1 /\ IsFiniteSet(s)
    BY <1>1 DEF Small, Summable
  <2>2. SumOver(f, s) = f[c] + SumOver(f, s \ {c})
    BY <1>1, <2>1, SumUnfold
  <2> HIDE DEF c
  <2>3. \A z \in s : Cardinality(s \ {z}) = Cardinality(s) - 1
    BY <2>1, FS_RemoveElement
  <2>4. \A z \in s : s \ {z} \in Small(S, n)
    <3> SUFFICES ASSUME NEW z \in s PROVE s \ {z} \in Small(S, n)
      OBVIOUS
    <3>1. s \ {z} \in SUBSET S /\ Cardinality(s \ {z}) = Cardinality(s) - 1 /\ Cardinality(s) \in Nat
      BY <1>1, <2>1, <2>3
    <3>2. Cardinality(s \ {z}) <= n
      BY <2>1, <3>1
    <3> QED BY <3>1, <3>2 DEF Small
  <2>5. CASE y = c
    BY <2>2, <2>5
  <2>6. CASE y # c
    <3>1. y \in s \ {c} /\ c \in s \ {y} /\ (s \ {c}) \ {y} = (s \ {y}) \ {c}
      BY <2>1, <2>6
    <3>2. /\ SumOver(f, s \ {c}) = f[y] + SumOver(f, (s \ {c}) \ {y})
          /\ SumOver(f, s \ {y}) = f[c] + SumOver(f, (s \ {y}) \ {c})
      BY <1>4, <2>1, <2>4, <3>1
    <3>3. f[y] \in Nat /\ f[c] \in Nat /\ SumOver(f, (s \ {c}) \ {y}) \in Nat
      <4>1. y \in S /\ c \in S /\ (s \ {c}) \ {y} \in SUBSET S
        BY <2>1
      <4> QED BY <1>2, <4>1 DEF Summable
    <3> DEFINE r == SumOver(f, (s \ {c}) \ {y})
    <3>4. /\ SumOver(f, s) = f[c] + SumOver(f, s \ {c}) /\ SumOver(f, s \ {c}) = f[y] + r
          /\ SumOver(f, s \ {y}) = f[c] + r /\ r \in Nat
      BY <2>2, <3>1, <3>2, <3>3
    <3> HIDE DEF r
    <3> QED BY <3>3, <3>4
  <2> QED BY <2>5, <2>6
<1> HIDE DEF N
<1>5. Nat \subseteq N
  BY <1>3, <1>4, SetInduction
<1>6. Cardinality(S) \in N /\ S \in Small(S, Cardinality(S))
  BY <1>1, <1>5 DEF Small
<1> QED BY <1>6 DEF N

\* Only what f has for the elements counts.
LEMMA SumSame ==
    ASSUME NEW f, NEW g, NEW S, Summable(f, S), \A x \in S : g[x] = f[x]
    PROVE  SumOver(g, S) = SumOver(f, S)
<1> DEFINE c == [s \in SUBSET S |-> CHOOSE x \in s : TRUE]
           T == {s \in SUBSET S : SumOver(g, s) = SumOver(f, s)}
<1>1. IsFiniteSet(S) /\ Chooses(c, S) /\ \A s \in SUBSET S : c[s] = CHOOSE x \in s : TRUE
  BY DEF Chooses, Summable
<1>2. \A s \in SUBSET S : Summable(f, s) /\ Summable(g, s)
  BY FS_Subset DEF Summable
<1> HIDE DEF c
<1>3. {} \in T
  <2>1. SumOver(f, {}) = 0 /\ SumOver(g, {}) = 0
    BY <1>2, SumUnfold
  <2> QED BY <2>1
<1>4. ASSUME NEW s \in SUBSET S, s # {}, s \ {c[s]} \in T PROVE s \in T
  <2>1. c[s] \in s /\ g[c[s]] = f[c[s]]
    BY <1>1, <1>4 DEF Chooses
  <2>2. SumOver(f, s) = f[c[s]] + SumOver(f, s \ {c[s]}) /\ SumOver(g, s) = g[c[s]] + SumOver(g, s \ {c[s]})
    BY <1>2, <2>1, SumRemove
  <2> QED BY <1>4, <2>1, <2>2
<1> HIDE DEF T
<1>5. SUBSET S \subseteq T
  BY <1>1, <1>3, <1>4, SubsetInduction
<1> QED BY <1>5 DEF T

\* A sum of a function: nothing, one place more, one place changed.
LEMMA SumOfIs ==
    ASSUME NEW f, Summable(f, DOMAIN f)
    PROVE  /\ SumOf(f) = SumOver(f, DOMAIN f) /\ SumOf(f) \in Nat
           /\ DOMAIN f = {} => SumOf(f) = 0
<1>1. SumOf(f) = SumOver(f, DOMAIN f)
  BY DEF SumOf, SumOver
<1>2. SumOver(f, {}) = 0 /\ SumOver(f, DOMAIN f) \in Nat
  BY SumUnfold
<1> QED BY <1>1, <1>2

\* One place more.
LEMMA SumMore ==
    ASSUME NEW f, NEW g, Summable(f, DOMAIN f), NEW x, x \notin DOMAIN f, g[x] \in Nat,
           DOMAIN g = DOMAIN f \cup {x}, \A y \in DOMAIN f : g[y] = f[y]
    PROVE  SumOf(g) = SumOf(f) + g[x] /\ SumOf(g) \in Nat /\ Summable(g, DOMAIN g)
<1>1. Summable(g, DOMAIN g)
  <2>1. IsFiniteSet(DOMAIN f \cup {x})
    BY FS_AddElement DEF Summable
  <2> QED BY <2>1 DEF Summable
<1>2. SumOf(g) = SumOver(g, DOMAIN g) /\ SumOf(f) = SumOver(f, DOMAIN f) /\ SumOf(f) \in Nat
  BY <1>1, SumOfIs
<1>3. x \in DOMAIN g /\ (DOMAIN g) \ {x} = DOMAIN f
  OBVIOUS
<1>4. SumOver(g, DOMAIN g) = g[x] + SumOver(g, (DOMAIN g) \ {x})
  BY <1>1, <1>3, SumRemove
<1>5. SumOver(g, DOMAIN f) = SumOver(f, DOMAIN f)
  BY SumSame
<1> QED BY <1>1, <1>2, <1>3, <1>4, <1>5

\* One place changed.
LEMMA SumChanged ==
    ASSUME NEW f, NEW g, Summable(f, DOMAIN f), NEW x \in DOMAIN f, g[x] \in Nat,
           DOMAIN g = DOMAIN f, \A y \in DOMAIN f \ {x} : g[y] = f[y]
    PROVE  SumOf(g) + f[x] = SumOf(f) + g[x] /\ SumOf(g) \in Nat
<1> DEFINE D == DOMAIN f \ {x}
           h == [y \in D |-> f[y]]
<1>1. Summable(g, DOMAIN g) /\ Summable(f, D) /\ Summable(g, D)
  <2>1. IsFiniteSet(D)
    BY FS_Subset DEF Summable
  <2> QED BY <2>1 DEF Summable
<1>2. SumOf(g) = SumOver(g, DOMAIN g) /\ SumOf(f) = SumOver(f, DOMAIN f) /\ SumOf(f) \in Nat /\ SumOf(g) \in Nat
  BY <1>1, SumOfIs
<1>3. SumOver(g, DOMAIN g) = g[x] + SumOver(g, D) /\ SumOver(f, DOMAIN f) = f[x] + SumOver(f, D)
  BY <1>1, SumRemove
<1>4. SumOver(g, D) = SumOver(f, D)
  BY <1>1, SumSame
<1>6. SumOver(f, D) \in Nat
  BY <1>1, SumUnfold
<1>5. f[x] \in Nat
  BY DEF Summable
<1> QED BY <1>2, <1>3, <1>4, <1>5, <1>6

\* The same in every place.
LEMMA SumEqual ==
    ASSUME NEW f, NEW g, Summable(f, DOMAIN f), DOMAIN g = DOMAIN f, \A y \in DOMAIN f : g[y] = f[y]
    PROVE  SumOf(g) = SumOf(f)
<1>1. SumOf(f) = SumOver(f, DOMAIN f) /\ SumOf(g) = SumOver(g, DOMAIN g)
  BY DEF SumOf, SumOver
<1> QED BY <1>1, SumSame

\* h is f, of length n, and then g, of length m.
Joined(h, f, n, g, m) ==
    /\ n \in Nat /\ m \in Nat
    /\ DOMAIN f = 1..n /\ DOMAIN g = 1..m /\ DOMAIN h = 1..(n + m)
    /\ \A k \in 1..n : f[k] \in Nat /\ h[k] = f[k]
    /\ \A k \in 1..m : g[k] \in Nat /\ h[n + k] = g[k]

\* One sequence after another.
LEMMA SumJoined ==
    ASSUME NEW n, NEW m, NEW f, NEW g, NEW h, Joined(h, f, n, g, m)
    PROVE  SumOf(h) = SumOf(f) + SumOf(g) /\ SumOf(f) \in Nat /\ SumOf(g) \in Nat
<1> USE DEF Joined
<1> DEFINE F(k) == [j \in 1..(n + k) |-> h[j]]
           G(k) == [j \in 1..k |-> g[j]]
           N == {k \in Nat : k <= m => SumOf(F(k)) = SumOf(f) + SumOf(G(k))}
<1>1. \A k \in Nat : IsFiniteSet(1..k)
  BY FS_Interval
<1>2. \A k \in 0..m : Summable(F(k), 1..(n + k)) /\ DOMAIN F(k) = 1..(n + k) /\ Summable(G(k), 1..k) /\ DOMAIN G(k) = 1..k
  <2> SUFFICES ASSUME NEW k \in 0..m PROVE Summable(F(k), 1..(n + k)) /\ Summable(G(k), 1..k)
    OBVIOUS
  <2>1. ASSUME NEW j \in 1..(n + k) PROVE h[j] \in Nat
    <3>1. CASE j \in 1..n
      BY <3>1
    <3>2. CASE j \notin 1..n
      <4>1. j - n \in 1..m /\ n + (j - n) = j
        BY <3>2
      <4> QED BY <4>1
    <3> QED BY <3>1, <3>2
  <2>2. n + k \in Nat /\ \A j \in 1..k : g[j] \in Nat
    OBVIOUS
  <2> QED BY <1>1, <2>1, <2>2 DEF Summable
<1>3. Summable(f, 1..n) /\ SumOf(f) \in Nat /\ Summable(g, 1..m) /\ SumOf(g) \in Nat
  <2>1. Summable(f, 1..n) /\ Summable(g, 1..m)
    BY <1>1 DEF Summable
  <2> QED BY <2>1, SumOfIs
<1>4. 0 \in N
  <2>1. 1..0 = {} /\ 0 \in 0..m /\ n + 0 = n
    OBVIOUS
  <2>2. SumOf(G(0)) = 0
    BY <1>2, <2>1, SumOfIs
  <2>3. SumOf(F(0)) = SumOf(f)
    <3>1. DOMAIN F(0) = 1..n /\ \A j \in 1..n : F(0)[j] = f[j]
      BY <2>1
    <3> QED BY <1>3, <3>1, SumEqual
  <2> QED BY <1>3, <2>2, <2>3
<1>5. ASSUME NEW k \in Nat, k \in N PROVE k + 1 \in N
  <2> SUFFICES ASSUME k + 1 <= m PROVE SumOf(F(k + 1)) = SumOf(f) + SumOf(G(k + 1))
    OBVIOUS
  <2>0. \A j \in Nat : 1..(j + 1) = (1..j) \cup {j + 1} /\ j + 1 \notin 1..j
    OBVIOUS
  <2>1. /\ k \in 0..m /\ k + 1 \in 0..m /\ k + 1 \in 1..m /\ n + (k + 1) \notin 1..(n + k) /\ k + 1 \notin 1..k
        /\ 1..(n + (k + 1)) = (1..(n + k)) \cup {n + (k + 1)} /\ 1..(k + 1) = (1..k) \cup {k + 1}
    <3>1. n + (k + 1) = (n + k) + 1 /\ n + k \in Nat
      OBVIOUS
    <3>2. n + (k + 1) \notin 1..(n + k) /\ 1..(n + (k + 1)) = (1..(n + k)) \cup {n + (k + 1)}
      BY <2>0, <3>1
    <3> QED BY <2>0, <3>2
  <2>2. F(k + 1)[n + (k + 1)] = g[k + 1] /\ G(k + 1)[k + 1] = g[k + 1] /\ g[k + 1] \in Nat
    BY <2>1
  <2>3. (\A j \in 1..(n + k) : F(k + 1)[j] = F(k)[j]) /\ (\A j \in 1..k : G(k + 1)[j] = G(k)[j])
    BY <2>1
  <2>4. SumOf(F(k)) = SumOf(f) + SumOf(G(k))
    BY <1>5, <2>1
  <2>5. SumOf(F(k)) \in Nat /\ SumOf(G(k)) \in Nat
    BY <1>2, <2>1, SumOfIs
  <2>6. /\ DOMAIN F(k + 1) = DOMAIN F(k) \cup {n + (k + 1)} /\ DOMAIN G(k + 1) = DOMAIN G(k) \cup {k + 1}
        /\ DOMAIN F(k) = 1..(n + k) /\ DOMAIN G(k) = 1..k /\ Summable(F(k), DOMAIN F(k)) /\ Summable(G(k), DOMAIN G(k))
    BY <1>2, <2>1
  <2> HIDE DEF F, G
  <2>7. SumOf(F(k + 1)) = SumOf(F(k)) + g[k + 1]
    <3>1. /\ F(k + 1)[n + (k + 1)] \in Nat /\ n + (k + 1) \notin DOMAIN F(k)
          /\ \A j \in DOMAIN F(k) : F(k + 1)[j] = F(k)[j]
      BY <2>1, <2>2, <2>3, <2>6
    <3> DEFINE a == F(k)
               b == F(k + 1)
               x == n + (k + 1)
    <3>2. /\ Summable(a, DOMAIN a) /\ x \notin DOMAIN a /\ b[x] \in Nat /\ DOMAIN b = DOMAIN a \cup {x}
          /\ \A y \in DOMAIN a : b[y] = a[y]
      BY <2>6, <3>1
    <3> HIDE DEF a, b, x
    <3>3. SumOf(b) = SumOf(a) + b[x]
      BY <3>2, SumMore
    <3> QED BY <2>2, <3>3 DEF a, b, x
  <2>8. SumOf(G(k + 1)) = SumOf(G(k)) + g[k + 1]
    <3>1. /\ G(k + 1)[k + 1] \in Nat /\ k + 1 \notin DOMAIN G(k)
          /\ \A j \in DOMAIN G(k) : G(k + 1)[j] = G(k)[j]
      BY <2>1, <2>2, <2>3, <2>6
    <3> DEFINE a == G(k)
               b == G(k + 1)
               x == k + 1
    <3>2. /\ Summable(a, DOMAIN a) /\ x \notin DOMAIN a /\ b[x] \in Nat /\ DOMAIN b = DOMAIN a \cup {x}
          /\ \A y \in DOMAIN a : b[y] = a[y]
      BY <2>6, <3>1
    <3> HIDE DEF a, b, x
    <3>3. SumOf(b) = SumOf(a) + b[x]
      BY <3>2, SumMore
    <3> QED BY <2>2, <3>3 DEF a, b, x
  <2> QED BY <1>3, <2>2, <2>4, <2>5, <2>7, <2>8
<1> HIDE DEF N
<1>6. Nat \subseteq N
  BY <1>4, <1>5, SetInduction
<1>7. SumOf(F(m)) = SumOf(f) + SumOf(G(m))
  BY <1>6 DEF N
<1>8. SumOf(h) = SumOf(F(m)) /\ SumOf(g) = SumOf(G(m))
  <2>1. F(m) = [j \in DOMAIN h |-> h[j]] /\ G(m) = [j \in DOMAIN g |-> g[j]]
    OBVIOUS
  <2>2. m \in 0..m
    OBVIOUS
  <2> QED BY <1>2, <2>1, <2>2, SumEqual
<1> QED BY <1>3, <1>7, <1>8

\* A sum of natural numbers is one.
LEMMA SumNat ==
    ASSUME NEW f, IsFiniteSet(DOMAIN f), \A x \in DOMAIN f : f[x] \in Nat
    PROVE  SumOf(f) \in Nat
  BY SumOfIs DEF Summable

\* The total of balances: one more of them, or one changed.
LEMMA TotalIs ==
    ASSUME NEW b \in Seq(Nat)
    PROVE  /\ Summable(b, DOMAIN b) /\ Total(b) \in Nat
           /\ \A x \in Nat : Total(Append(b, x)) = Total(b) + x
           /\ \A i \in DOMAIN b, x \in Nat : Total([b EXCEPT ![i] = x]) + b[i] = Total(b) + x
<1> DEFINE n == Len(b)
<1>1. n \in Nat /\ DOMAIN b = 1..n /\ \A k \in 1..n : b[k] \in Nat
  OBVIOUS
<1> HIDE DEF n
<1>2. Summable(b, DOMAIN b)
  BY <1>1, FS_Interval DEF Summable
<1>3. Total(b) \in Nat
  BY <1>2, SumOfIs DEF Total
<1>4. ASSUME NEW x \in Nat PROVE Total(Append(b, x)) = Total(b) + x
  <2> DEFINE c == Append(b, x)
             k == n + 1
  <2>1. DOMAIN c = DOMAIN b \cup {k} /\ k \notin DOMAIN b /\ c[k] = x /\ \A j \in DOMAIN b : c[j] = b[j]
    <3>1. DOMAIN c = 1..(Len(b) + 1) /\ c[Len(b) + 1] = x /\ \A j \in 1..Len(b) : c[j] = b[j]
      OBVIOUS
    <3>2. 1..(n + 1) = (1..n) \cup {n + 1} /\ n + 1 \notin 1..n
      BY <1>1
    <3> QED BY <1>1, <3>1, <3>2 DEF n
  <2> HIDE DEF c, k
  <2>2. SumOf(c) = SumOf(b) + c[k]
    BY <1>2, <2>1, SumMore
  <2> QED BY <2>1, <2>2 DEF c, Total
<1>5. ASSUME NEW i \in DOMAIN b, NEW x \in Nat PROVE Total([b EXCEPT ![i] = x]) + b[i] = Total(b) + x
  <2> DEFINE c == [b EXCEPT ![i] = x]
  <2>1. DOMAIN c = DOMAIN b /\ c[i] = x /\ \A j \in DOMAIN b \ {i} : c[j] = b[j]
    OBVIOUS
  <2> HIDE DEF c
  <2>2. SumOf(c) + b[i] = SumOf(b) + c[i]
    BY <1>2, <2>1, SumChanged
  <2> QED BY <2>1, <2>2 DEF c, Total
<1> QED BY <1>2, <1>3, <1>4, <1>5

\* What is queued: nothing, one element more, one queue after another, the rest
\* of a queue.
Paying(T) == \A d \in T : d.amount \in Nat

\* The amounts of a queue after another.
LEMMA QueuedJoined ==
    ASSUME NEW T, Paying(T), NEW p \in Seq(T), NEW q \in Seq(T)
    PROVE  Queued(p \o q) = Queued(p) + Queued(q) /\ Queued(p) \in Nat /\ Queued(q) \in Nat
<1> DEFINE n == Len(p)
           m == Len(q)
           r == p \o q
           f == [k \in DOMAIN p |-> p[k].amount]
           g == [k \in DOMAIN q |-> q[k].amount]
           h == [k \in DOMAIN r |-> r[k].amount]
<1>1. /\ n \in Nat /\ m \in Nat /\ DOMAIN p = 1..n /\ DOMAIN q = 1..m /\ DOMAIN r = 1..(n + m)
      /\ \A k \in 1..n : p[k] \in T /\ r[k] = p[k] 
      /\ \A k \in 1..m : q[k] \in T /\ r[n + k] = q[k]
  OBVIOUS
<1> HIDE DEF n, m, r
<1>2. DOMAIN f = 1..n /\ DOMAIN g = 1..m /\ DOMAIN h = 1..(n + m)
  BY <1>1
<1>3. \A k \in 1..n : f[k] \in Nat /\ h[k] = f[k]
  <2>1. \A k \in 1..n : k \in 1..(n + m)
    BY <1>1
  <2> QED BY <1>1, <2>1 DEF Paying
<1>4. \A k \in 1..m : g[k] \in Nat /\ h[n + k] = g[k]
  <2>1. \A k \in 1..m : n + k \in 1..(n + m)
    BY <1>1
  <2> QED BY <1>1, <2>1 DEF Paying
<1>5. Queued(p) = SumOf(f) /\ Queued(q) = SumOf(g) /\ Queued(r) = SumOf(h)
  BY DEF Queued
<1> HIDE DEF f, g, h
<1>6. SumOf(h) = SumOf(f) + SumOf(g) /\ SumOf(f) \in Nat /\ SumOf(g) \in Nat
  <2>1. Joined(h, f, n, g, m)
    BY <1>1, <1>2, <1>3, <1>4 DEF Joined
  <2> QED BY <2>1, SumJoined
<1> QED BY <1>5, <1>6 DEF r

\* An empty queue.
LEMMA QueuedEmpty == Queued(<< >>) = 0
<1> DEFINE f == [k \in DOMAIN << >> |-> << >>[k].amount]
<1>1. DOMAIN f = {} /\ Summable(f, {})
  BY FS_EmptySet DEF Summable
<1>2. Queued(<< >>) = SumOf(f)
  BY DEF Queued
<1> HIDE DEF f
<1> QED BY <1>1, <1>2, SumOfIs

\* One element more.
LEMMA QueuedAppended ==
    ASSUME NEW T, Paying(T), NEW q \in Seq(T), NEW d \in T
    PROVE  Queued(Append(q, d)) = Queued(q) + d.amount /\ Queued(q) \in Nat
<1> DEFINE f(p) == [k \in DOMAIN p |-> p[k].amount]
           x == Len(q) + 1
           a == f(q)
           b == f(Append(q, d))
<1>2. /\ DOMAIN a = 1..Len(q) /\ DOMAIN b = (1..Len(q)) \cup {x} /\ x \notin 1..Len(q) /\ Len(q) \in Nat
  OBVIOUS
<1>3. b[x] = d.amount /\ d.amount \in Nat /\ \A k \in 1..Len(q) : a[k] \in Nat /\ b[k] = a[k]
  BY DEF Paying
<1>4. Queued(q) = SumOf(a) /\ Queued(Append(q, d)) = SumOf(b)
  BY DEF Queued
<1> HIDE DEF a, b, x
<1>5. Summable(a, DOMAIN a)
  BY <1>2, <1>3, FS_Interval DEF Summable
<1>6. SumOf(b) = SumOf(a) + b[x] /\ SumOf(a) \in Nat
  <2>1. \A y \in DOMAIN a : b[y] = a[y]
    BY <1>2, <1>3
  <2>2. x \notin DOMAIN a /\ b[x] \in Nat /\ DOMAIN b = DOMAIN a \cup {x}
    BY <1>2, <1>3
  <2> QED BY <1>5, <2>1, <2>2, SumMore, SumOfIs
<1> QED BY <1>3, <1>4, <1>6

\* The first n elements of a queue and the rest.
LEMMA QueuedSplit ==
    ASSUME NEW T, Paying(T), NEW q \in Seq(T), NEW n \in 0..Len(q)
    PROVE  Queued(q) = Queued(SubSeq(q, 1, n)) + Queued(Drop(q, n)) /\ Queued(SubSeq(q, 1, n)) \in Nat
<1>1. SubSeq(q, 1, n) \in Seq(T) /\ Drop(q, n) \in Seq(T)
  BY DEF Drop
<1>2. q = SubSeq(q, 1, n) \o Drop(q, n)
  <2> DEFINE a == SubSeq(q, 1, n)
             b == Drop(q, n)
  <2>1. Len(a) = n /\ \A k \in 1..n : a[k] = q[k]
    OBVIOUS
  <2>2. Len(b) = Len(q) - n /\ \A k \in 1..(Len(q) - n) : b[k] = q[n + k]
    BY DEF Drop
  <2> HIDE DEF a, b
  <2>3. a \o b \in Seq(T) /\ Len(a \o b) = Len(q) /\ \A k \in 1..Len(q) : (a \o b)[k] = q[k]
    BY <1>1, <2>1, <2>2 DEF a, b
  <2> DEFINE c == a \o b
  <2>6. c \in Seq(T) /\ Len(c) = Len(q) /\ \A k \in 1..Len(q) : c[k] = q[k]
    BY <2>3
  <2> HIDE DEF c
  <2>4. c \in [1..Len(q) -> T] /\ q \in [1..Len(q) -> T] /\ \A k \in 1..Len(q) : c[k] = q[k]
    BY <2>6
  <2>5. c = q
    BY <2>4
  <2> QED BY <2>5 DEF a, b, c
<1> QED BY <1>1, <1>2, QueuedJoined

\* The first k + 1 elements are the first k and one more.
LEMMA PrefixNext ==
    ASSUME NEW T, NEW q \in Seq(T), NEW k \in Nat, k + 1 <= Len(q)
    PROVE  /\ SubSeq(q, 1, k) \in Seq(T) /\ q[k + 1] \in T
           /\ SubSeq(q, 1, k + 1) = Append(SubSeq(q, 1, k), q[k + 1])
           /\ SubSeq(q, 1, 0) = << >> /\ SubSeq(q, 1, Len(q)) = q
<1> DEFINE a == SubSeq(q, 1, k)
           b == SubSeq(q, 1, k + 1)
           c == Append(a, q[k + 1])
<1>1. a \in Seq(T) /\ Len(a) = k /\ \A j \in 1..k : a[j] = q[j]
  OBVIOUS
<1>2. b \in Seq(T) /\ Len(b) = k + 1 /\ \A j \in 1..(k + 1) : b[j] = q[j]
  OBVIOUS
<1>3. q[k + 1] \in T
  OBVIOUS
<1> HIDE DEF a, b
<1>4. c \in Seq(T) /\ Len(c) = k + 1 /\ \A j \in 1..(k + 1) : c[j] = b[j]
  BY <1>1, <1>2, <1>3
<1> HIDE DEF c
<1>5. c = b
  BY <1>2, <1>4
<1>6. SubSeq(q, 1, 0) = << >> /\ SubSeq(q, 1, Len(q)) = q
  OBVIOUS
<1> QED BY <1>1, <1>3, <1>5, <1>6 DEF a, b, c

\* What a queue has for one validator, when it has one element more.
LEMMA AmountForIs ==
    ASSUME NEW T, Paying(T), NEW q \in Seq(T), NEW i
    PROVE  /\ AmountFor(<< >>, i) = 0 /\ AmountFor(q, i) \in Nat
           /\ \A d \in T : AmountFor(Append(q, d), i) = AmountFor(q, i) + (IF d.index = i THEN d.amount ELSE 0)
<1> DEFINE D(p) == {k \in DOMAIN p : p[k].index = i}
           F(p) == [k \in D(p) |-> p[k].amount]
<1>1. \A p : AmountFor(p, i) = SumOf(F(p)) /\ DOMAIN F(p) = D(p)
  BY DEF AmountFor
<1>2. AmountFor(<< >>, i) = 0
  <2>1. DOMAIN F(<< >>) = {} /\ Summable(F(<< >>), {})
    BY FS_EmptySet DEF Summable
  <2> HIDE DEF F, D
  <2> QED BY <1>1, <2>1, SumOfIs
<1>3. ASSUME NEW p \in Seq(T) PROVE Summable(F(p), D(p))
  <2>1. DOMAIN p = 1..Len(p) /\ Len(p) \in Nat /\ \A k \in DOMAIN p : p[k].amount \in Nat
    BY DEF Paying
  <2>2. IsFiniteSet(D(p))
    <3>1. IsFiniteSet(1..Len(p)) /\ D(p) \in SUBSET (1..Len(p))
      BY <2>1, FS_Interval
    <3> HIDE DEF D
    <3> QED BY <3>1, FS_Subset
  <2> QED BY <2>1, <2>2 DEF Summable
<1>4. AmountFor(q, i) \in Nat
  BY <1>1, <1>3, SumOfIs
<1>5. ASSUME NEW d \in T PROVE AmountFor(Append(q, d), i) = AmountFor(q, i) + (IF d.index = i THEN d.amount ELSE 0)
  <2> DEFINE r == Append(q, d)
             x == Len(q) + 1
             a == F(q)
             b == F(r)
  <2>1. /\ DOMAIN r = DOMAIN q \cup {x} /\ x \notin DOMAIN q /\ r[x] = d /\ \A k \in DOMAIN q : r[k] = q[k]
        /\ d.amount \in Nat
    BY DEF Paying
  <2> HIDE DEF r, x
  <2>2. CASE d.index = i
    <3>1. D(r) = D(q) \cup {x} /\ x \notin D(q)
      BY <2>1, <2>2
    <3>2. b[x] = d.amount /\ DOMAIN b = DOMAIN a \cup {x} /\ x \notin DOMAIN a /\ \A k \in DOMAIN a : b[k] = a[k]
      BY <2>1, <3>1
    <3>3. Summable(a, DOMAIN a)
      BY <1>1, <1>3
    <3> HIDE DEF a, b
    <3>4. SumOf(b) = SumOf(a) + b[x]
      BY <2>1, <3>2, <3>3, SumMore
    <3> QED BY <1>1, <2>2, <3>2, <3>4 DEF a, b, r
  <2>3. CASE d.index # i
    <3>1. D(r) = D(q)
      BY <2>1, <2>3
    <3>2. DOMAIN b = DOMAIN a /\ \A k \in DOMAIN a : b[k] = a[k]
      BY <2>1, <3>1
    <3>3. Summable(a, DOMAIN a)
      BY <1>1, <1>3
    <3> HIDE DEF a, b
    <3>4. SumOf(b) = SumOf(a)
      BY <3>2, <3>3, SumEqual
    <3>5. AmountFor(r, i) = AmountFor(q, i)
      BY <1>1, <3>4 DEF a, b
    <3> QED BY <1>4, <2>3, <3>5 DEF r
  <2> QED BY <2>2, <2>3
<1> QED BY <1>2, <1>4, <1>5

\* A part of the queue has no more than the whole for a validator.
LEMMA AmountGrows ==
    ASSUME NEW T, Paying(T), NEW q \in Seq(T), NEW i
    PROVE  \A k \in 0..Len(q) : AmountFor(SubSeq(q, 1, k), i) <= AmountFor(q, i)
<1> DEFINE n == Len(q)
           A(k) == AmountFor(SubSeq(q, 1, k), i)
           N == {m \in Nat : m <= n => A(n - m) <= AmountFor(q, i)}
<1>1. n \in Nat /\ SubSeq(q, 1, n) = q /\ \A k \in 0..n : SubSeq(q, 1, k) \in Seq(T)
  OBVIOUS
<1>2. \A k \in 0..n : A(k) \in Nat
  BY <1>1, AmountForIs
<1>3. 0 \in N
  <2>1. n - 0 = n /\ n \in 0..n
    BY <1>1
  <2>2. A(n) = AmountFor(q, i)
    BY <1>1
  <2>3. A(n - 0) <= AmountFor(q, i)
    BY <1>2, <2>1, <2>2
  <2> QED BY <2>3
<1>4. ASSUME NEW m \in Nat, m \in N PROVE m + 1 \in N
  <2> SUFFICES ASSUME m + 1 <= n PROVE A(n - (m + 1)) <= AmountFor(q, i)
    OBVIOUS
  <2> DEFINE k == n - (m + 1)
  <2>1. k \in Nat /\ k + 1 <= n /\ k + 1 = n - m /\ k \in 0..n /\ k + 1 \in 0..n
    BY <1>1
  <2> HIDE DEF k, n
  <2>2. SubSeq(q, 1, k) \in Seq(T) /\ q[k + 1] \in T /\ SubSeq(q, 1, k + 1) = Append(SubSeq(q, 1, k), q[k + 1])
    BY <2>1, PrefixNext DEF n
  <2>3. A(k + 1) = A(k) + (IF q[k + 1].index = i THEN q[k + 1].amount ELSE 0) /\ q[k + 1].amount \in Nat
    <3>1. q[k + 1].amount \in Nat
      BY <2>2 DEF Paying
    <3> DEFINE p == SubSeq(q, 1, k)
               d == q[k + 1]
    <3>2. p \in Seq(T) /\ d \in T /\ A(k + 1) = AmountFor(Append(p, d), i) /\ A(k) = AmountFor(p, i)
      BY <2>2
    <3> HIDE DEF p, d, A
    <3>3. AmountFor(Append(p, d), i) = AmountFor(p, i) + (IF d.index = i THEN d.amount ELSE 0)
      BY <3>2, AmountForIs
    <3> QED BY <3>1, <3>2, <3>3 DEF d
  <2>4. A(k) \in Nat /\ A(k) <= A(k + 1) /\ A(k + 1) \in Nat
    BY <1>2, <2>1, <2>3
  <2>5. A(k + 1) <= AmountFor(q, i) /\ AmountFor(q, i) \in Nat
    BY <1>1, <1>4, <2>1, AmountForIs
  <2> HIDE DEF A
  <2> QED BY <2>4, <2>5 DEF k
<1> HIDE DEF N
<1>5. Nat \subseteq N
  BY <1>3, <1>4, SetInduction
<1>6. \A k \in 0..n : n - k \in N /\ n - (n - k) = k /\ n - k <= n
  BY <1>1, <1>5
<1> QED BY <1>6 DEF N

\* What is left of a queue when its first n elements are taken off.
LEMMA DropIs ==
    ASSUME NEW T, NEW q \in Seq(T), NEW n \in Nat
    PROVE  /\ Drop(q, n) \in Seq(T)
           /\ Len(Drop(q, n)) = IF n <= Len(q) THEN Len(q) - n ELSE 0
           /\ \A k \in DOMAIN Drop(q, n) : k + n \in DOMAIN q /\ Drop(q, n)[k] = q[k + n]
  BY DEF Drop

\* A function on 1..n is a sequence, and AsSeq/1 leaves it as it is.
LEMMA AsSeqIs ==
    ASSUME NEW T, NEW n \in Nat, NEW f \in [1..n -> T]
    PROVE  AsSeq(f) \in Seq(T) /\ Len(AsSeq(f)) = n /\ AsSeq(f) = f
<1>1. f \in Seq(T) /\ Len(f) = n
  OBVIOUS
<1>2. AsSeq(f) \in Seq(T) /\ Len(AsSeq(f)) = n /\ \A i \in 1..n : AsSeq(f)[i] = f[i]
  BY <1>1 DEF AsSeq
<1> QED BY <1>1, <1>2

\* The epoch of a state, and that the far future is far from it.
LEMMA EpochNat ==
    ASSUME NEW s, s.slot \in Nat
    PROVE  /\ get_current_epoch(s) \in Nat
           /\ compute_activation_exit_epoch(get_current_epoch(s)) \in Nat
           /\ get_current_epoch(s) < compute_activation_exit_epoch(get_current_epoch(s))
           /\ s.slot <= MaxSlot => compute_activation_exit_epoch(get_current_epoch(s)) < FAR_FUTURE_EPOCH
<1>1. /\ SLOTS_PER_EPOCH \in Nat \ {0} /\ MAX_SEED_LOOKAHEAD \in Nat /\ FAR_FUTURE_EPOCH \in Nat /\ MaxSlot \in Nat
      /\ (MaxSlot \div SLOTS_PER_EPOCH) + 1 + MAX_SEED_LOOKAHEAD < FAR_FUTURE_EPOCH
  BY ChainSpecAssumption, AnchorsAssumption DEF compute_activation_exit_epoch, compute_epoch_at_slot
<1>2. s.slot \div SLOTS_PER_EPOCH \in Nat /\ MaxSlot \div SLOTS_PER_EPOCH \in Nat
  BY <1>1, DivBounds
<1>3. s.slot <= MaxSlot => s.slot \div SLOTS_PER_EPOCH <= MaxSlot \div SLOTS_PER_EPOCH
  BY <1>1, DivKeepsOrder
<1> QED BY <1>1, <1>2, <1>3 DEF get_current_epoch, compute_activation_exit_epoch, compute_epoch_at_slot
-----------------------------------------------------------------------------
(* What is decided of a validator, and the relation between a state and a   *)
(* later one.                                                               *)

DELAY == MIN_VALIDATOR_WITHDRAWABILITY_DELAY

\* With a delay of two epochs or more, which every preset has, the check of
\* initiate_validator_exit/2 keeps an exit out of the far future.
Delayed == DELAY > 1

\* The order of a validator's epochs.  A consolidation, which is not checked
\* as an exit is, may reach the far future: c is where its queue stands.
Life(v, c) ==
    /\ v.activation # FAR_FUTURE_EPOCH => v.eligibility <= v.activation
    /\ v.exit # FAR_FUTURE_EPOCH => v.activation < v.exit /\ v.exit + DELAY <= v.withdrawable
    /\ Delayed /\ v.slashed => v.exit # FAR_FUTURE_EPOCH
    /\ Delayed /\ c < FAR_FUTURE_EPOCH /\ v.exit = FAR_FUTURE_EPOCH => v.withdrawable = FAR_FUTURE_EPOCH

\* w is what validator v may be later in the same epoch.
Kept(v, w, epoch) ==
    /\ v.activation # FAR_FUTURE_EPOCH => w.activation = v.activation
    /\ v.exit # FAR_FUTURE_EPOCH => /\ w.exit = v.exit /\ w.withdrawable >= v.withdrawable
                                    /\ ~w.slashed => w.withdrawable = v.withdrawable
    /\ v.slashed => w.slashed /\ (Delayed => w.withdrawable = v.withdrawable)
    /\ Delayed /\ ~v.slashed /\ w.slashed => w.withdrawable >= epoch + EPOCHS_PER_SLASHINGS_VECTOR

\* Nothing of it matters in the epoch itself.
SameNow(v, w, epoch) ==
    /\ w.activation = v.activation /\ w.effective = v.effective
    /\ w.exit = v.exit \/ (v.exit > epoch /\ w.exit > epoch)

\* The queues are in order, as far as the consolidation queue is in time.
QueuesOK(s) ==
    /\ \A k \in DOMAIN s.partials :
          /\ s.partials[k].withdrawable <= s.exits.epoch + DELAY
          /\ \A j \in 1..(k - 1) : s.partials[j].withdrawable <= s.partials[k].withdrawable
    /\ s.consolidating.epoch < FAR_FUTURE_EPOCH =>
          \A k \in DOMAIN s.consolidations :
              LET v == s.validators[s.consolidations[k].source]
              IN  /\ v.exit # FAR_FUTURE_EPOCH
                  /\ ~v.slashed => v.withdrawable <= s.consolidating.epoch + DELAY
                  /\ \A j \in 1..(k - 1) :
                        LET u == s.validators[s.consolidations[j].source]
                        IN  ~u.slashed /\ ~v.slashed => u.withdrawable <= v.withdrawable

InTime(s) == s.slot <= MaxSlot /\ s.finalized <= get_current_epoch(s)

\* What every operation of the state transition relies on and restores.
Good(s) ==
    /\ StateOK(s) /\ InTime(s) /\ QueuesOK(s)
    /\ \A i \in Indices(s) : Life(s.validators[i], s.consolidating.epoch)

Follows(s, t) ==
    /\ t.slot = s.slot /\ t.finalized = s.finalized
    /\ s.exits.epoch <= t.exits.epoch /\ s.consolidating.epoch <= t.consolidating.epoch
    /\ Len(s.validators) <= Len(t.validators)
    /\ \A i \in Indices(s) : Kept(s.validators[i], t.validators[i], get_current_epoch(s))
    /\ \A i \in Indices(t) \ Indices(s) :
          Delayed /\ t.validators[i].slashed =>
              t.validators[i].withdrawable >= get_current_epoch(s) + EPOCHS_PER_SLASHINGS_VECTOR

Stable(s, t) ==
    /\ \A i \in Indices(s) : SameNow(s.validators[i], t.validators[i], get_current_epoch(s))
    /\ \A i \in Indices(t) \ Indices(s) : t.validators[i].activation = FAR_FUTURE_EPOCH

\* The fields of a state have their types.
LEMMA Fields ==
    ASSUME NEW s, StateOK(s)
    PROVE  /\ s.slot \in Nat /\ s.failed \in BOOLEAN /\ s.finalized \in Nat
           /\ s.validators \in Seq(ValidatorType) /\ s.balances \in Seq(Nat)
           /\ Len(s.validators) \in Nat \ {0} /\ Len(s.balances) = Len(s.validators)
           /\ Indices(s) = 1..Len(s.validators) /\ DOMAIN s.balances = Indices(s)
           /\ s.exits \in ChurnQueue /\ s.consolidating \in ChurnQueue
           /\ \A i \in Indices(s) : s.validators[i] \in ValidatorType /\ s.balances[i] \in Nat
           /\ get_current_epoch(s) \in Nat
<1>1. /\ s.slot \in Nat /\ s.failed \in BOOLEAN /\ s.finalized \in Nat
      /\ s.validators \in Seq(ValidatorType) /\ s.balances \in Seq(Nat)
      /\ s.exits \in ChurnQueue /\ s.consolidating \in ChurnQueue
  BY DEF StateOK, StateType
<1>2. s.validators # << >> /\ Len(s.balances) = Len(s.validators)
  BY DEF StateOK
<1>3. get_current_epoch(s) \in Nat
  BY <1>1, EpochNat
<1>4. Len(s.validators) \in Nat \ {0}
  BY <1>1, <1>2
<1> QED BY <1>1, <1>2, <1>3, <1>4 DEF Indices

\* Following is transitive.
LEMMA FollowsTwice ==
    ASSUME NEW s, NEW t, NEW u, StateOK(s), StateOK(t), StateOK(u), Follows(s, t), Follows(t, u)
    PROVE  Follows(s, u) /\ (Stable(s, t) /\ Stable(t, u) => Stable(s, u))
<1> DEFINE epoch == get_current_epoch(s)
<1>1. get_current_epoch(t) = epoch /\ epoch \in Nat /\ Indices(s) \subseteq Indices(t) /\ Indices(t) \subseteq Indices(u)
  BY Fields DEF Follows, get_current_epoch
<1>2. /\ \A i \in Indices(s) : s.validators[i] \in ValidatorType
      /\ \A i \in Indices(t) : t.validators[i] \in ValidatorType
      /\ \A i \in Indices(u) : u.validators[i] \in ValidatorType
  BY Fields
<1>3. \A x, y, z \in ValidatorType : Kept(x, y, epoch) /\ Kept(y, z, epoch) => Kept(x, z, epoch)
  <2> SUFFICES ASSUME NEW x \in ValidatorType, NEW y \in ValidatorType, NEW z \in ValidatorType,
                      Kept(x, y, epoch), Kept(y, z, epoch)
               PROVE  Kept(x, z, epoch)
    OBVIOUS
  <2>1. /\ x.withdrawable \in Nat /\ y.withdrawable \in Nat /\ z.withdrawable \in Nat /\ x.exit \in Nat
        /\ x.slashed \in BOOLEAN /\ y.slashed \in BOOLEAN /\ z.slashed \in BOOLEAN
    BY DEF ValidatorType
  <2>2. x.activation # FAR_FUTURE_EPOCH => z.activation = x.activation
    BY DEF Kept
  <2>3. x.exit # FAR_FUTURE_EPOCH => z.exit = x.exit /\ z.withdrawable >= x.withdrawable
    BY <2>1 DEF Kept
  <2>4. x.exit # FAR_FUTURE_EPOCH /\ ~z.slashed => z.withdrawable = x.withdrawable
    BY <2>1 DEF Kept
  <2>5. x.slashed => z.slashed /\ (Delayed => z.withdrawable = x.withdrawable)
    BY DEF Kept
  <2>6. Delayed /\ ~x.slashed /\ z.slashed => z.withdrawable >= epoch + EPOCHS_PER_SLASHINGS_VECTOR
    BY <2>1 DEF Kept
  <2> QED BY <2>2, <2>3, <2>4, <2>5, <2>6 DEF Kept
<1>4. \A x, y, z \in ValidatorType : SameNow(x, y, epoch) /\ SameNow(y, z, epoch) => SameNow(x, z, epoch)
  BY DEF SameNow, ValidatorType
<1> HIDE DEF epoch
<1>5. \A i \in Indices(s) : Kept(s.validators[i], u.validators[i], epoch)
  BY <1>1, <1>2, <1>3 DEF Follows, epoch
<1>6. ASSUME NEW i \in Indices(u) \ Indices(s), Delayed, u.validators[i].slashed
      PROVE  u.validators[i].withdrawable >= epoch + EPOCHS_PER_SLASHINGS_VECTOR
  <2>1. CASE i \notin Indices(t)
    BY <1>1, <1>6, <2>1 DEF Follows
  <2>2. CASE i \in Indices(t)
    <3>1. Kept(t.validators[i], u.validators[i], epoch)
      BY <1>1, <2>2 DEF Follows
    <3>2. t.validators[i].slashed => t.validators[i].withdrawable >= epoch + EPOCHS_PER_SLASHINGS_VECTOR
      BY <1>6, <2>2 DEF Follows, epoch
    <3>3. t.validators[i].slashed \in BOOLEAN
      BY <1>2, <2>2 DEF ValidatorType
    <3> QED BY <1>6, <3>1, <3>2, <3>3 DEF Kept
  <2> QED BY <2>1, <2>2
<1>7. /\ u.slot = s.slot /\ u.finalized = s.finalized /\ Len(s.validators) <= Len(u.validators)
      /\ s.exits.epoch <= u.exits.epoch /\ s.consolidating.epoch <= u.consolidating.epoch
  <2>1. /\ s.exits \in ChurnQueue /\ t.exits \in ChurnQueue /\ u.exits \in ChurnQueue
        /\ s.consolidating \in ChurnQueue /\ t.consolidating \in ChurnQueue /\ u.consolidating \in ChurnQueue
        /\ Len(s.validators) \in Nat /\ Len(t.validators) \in Nat /\ Len(u.validators) \in Nat
    BY Fields
  <2>2. /\ s.exits.epoch \in Nat /\ t.exits.epoch \in Nat /\ u.exits.epoch \in Nat
        /\ s.consolidating.epoch \in Nat /\ t.consolidating.epoch \in Nat /\ u.consolidating.epoch \in Nat
    BY <2>1 DEF ChurnQueue
  <2>3. u.slot = s.slot /\ u.finalized = s.finalized /\ Len(s.validators) <= Len(u.validators)
    BY <2>1 DEF Follows
  <2>4. s.exits.epoch <= u.exits.epoch
    BY <2>2 DEF Follows
  <2>5. s.consolidating.epoch <= u.consolidating.epoch
    BY <2>2 DEF Follows
  <2> QED BY <2>3, <2>4, <2>5
<1>8. ASSUME Stable(s, t), Stable(t, u) PROVE Stable(s, u)
  <2>1. \A i \in Indices(s) : SameNow(s.validators[i], t.validators[i], epoch) /\ SameNow(t.validators[i], u.validators[i], epoch)
    BY <1>1, <1>8 DEF Stable, epoch
  <2>2. \A i \in Indices(s) : SameNow(s.validators[i], u.validators[i], epoch)
    BY <1>1, <1>2, <1>4, <2>1
  <2>3. ASSUME NEW i \in Indices(u) \ Indices(s) PROVE u.validators[i].activation = FAR_FUTURE_EPOCH
    <3>1. CASE i \notin Indices(t)
      BY <1>8, <3>1 DEF Stable
    <3>2. CASE i \in Indices(t)
      BY <1>8, <3>2, <2>3 DEF Stable, SameNow
    <3> QED BY <3>1, <3>2
  <2> QED BY <2>2, <2>3 DEF Stable, epoch
<1> QED BY <1>5, <1>6, <1>7, <1>8 DEF Follows, epoch

\* A validator that does not change is kept.
LEMMA KeptSame ==
    ASSUME NEW v \in ValidatorType, NEW epoch
    PROVE  Kept(v, v, epoch) /\ SameNow(v, v, epoch)
<1>1. v.withdrawable \in Nat /\ v.slashed \in BOOLEAN
  BY DEF ValidatorType
<1> QED BY <1>1 DEF Kept, SameNow

\* The order of epochs does not depend on a consolidation queue that moves on.
LEMMA LifeLater ==
    ASSUME NEW v, NEW c \in Nat, NEW d \in Nat, c <= d, Life(v, c)
    PROVE  Life(v, d)
<1>1. d < FAR_FUTURE_EPOCH => c < FAR_FUTURE_EPOCH
  BY ChainSpecAssumption
<1> QED BY <1>1 DEF Life

\* Queues that stay as they are stay in order: a source that is leaving keeps
\* its withdrawable epoch unless it is slashed.
LEMMA QueuesFollow ==
    ASSUME NEW s, NEW t, Good(s), StateOK(t), Follows(s, t),
           t.partials = s.partials, t.consolidations = s.consolidations
    PROVE  QueuesOK(t)
<1>1. StateOK(s) /\ QueuesOK(s)
  BY DEF Good
<1>2. /\ s.exits.epoch \in Nat /\ t.exits.epoch \in Nat /\ s.exits.epoch <= t.exits.epoch
      /\ s.consolidating.epoch \in Nat /\ t.consolidating.epoch \in Nat
      /\ s.consolidating.epoch <= t.consolidating.epoch /\ DELAY \in Nat
  BY <1>1, Fields, ChainSpecAssumption DEF Follows, ChurnQueue, DELAY
<1>3. ASSUME NEW k \in DOMAIN t.partials
      PROVE  /\ t.partials[k].withdrawable <= t.exits.epoch + DELAY
             /\ \A j \in 1..(k - 1) : t.partials[j].withdrawable <= t.partials[k].withdrawable
  <2>1. s.partials \in Seq(PartialType)
    BY <1>1 DEF StateOK, StateType
  <2>0. k \in 1..Len(s.partials)
    BY <1>3, <2>1
  <2>2. s.partials[k] \in PartialType
    BY <2>0, <2>1
  <2>3. s.partials[k].withdrawable \in Nat
    BY <2>2 DEF PartialType
  <2>4. /\ s.partials[k].withdrawable <= s.exits.epoch + DELAY
        /\ \A j \in 1..(k - 1) : s.partials[j].withdrawable <= s.partials[k].withdrawable
    BY <1>1, <1>3 DEF QueuesOK
  <2> QED BY <1>2, <2>3, <2>4
<1>4. ASSUME t.consolidating.epoch < FAR_FUTURE_EPOCH, NEW k \in DOMAIN t.consolidations
      PROVE  LET v == t.validators[t.consolidations[k].source]
             IN  /\ v.exit # FAR_FUTURE_EPOCH
                 /\ ~v.slashed => v.withdrawable <= t.consolidating.epoch + DELAY
                 /\ \A j \in 1..(k - 1) :
                        LET u == t.validators[t.consolidations[j].source]
                        IN  ~u.slashed /\ ~v.slashed => u.withdrawable <= v.withdrawable
  <2> DEFINE From(q) == s.consolidations[q].source
             V(q) == s.validators[From(q)]
             W(q) == t.validators[From(q)]
  <2>1. s.consolidating.epoch < FAR_FUTURE_EPOCH
    BY <1>2, <1>4, ChainSpecAssumption
  <2>2. \A q \in DOMAIN s.consolidations : /\ From(q) \in Indices(s) /\ V(q) \in ValidatorType /\ W(q) \in ValidatorType
                                           /\ Kept(V(q), W(q), get_current_epoch(s))
    <3>1. \A q \in DOMAIN s.consolidations : From(q) \in Indices(s)
      BY <1>1 DEF StateOK
    <3>2. Indices(s) \subseteq Indices(t)
      BY <1>1, Fields DEF Follows
    <3> HIDE DEF From
    <3> QED BY <1>1, <3>1, <3>2, Fields DEF Follows
  <2>3. \A q \in DOMAIN s.consolidations :
           /\ V(q).exit # FAR_FUTURE_EPOCH
           /\ ~V(q).slashed => V(q).withdrawable <= s.consolidating.epoch + DELAY
           /\ \A j \in 1..(q - 1) : ~V(j).slashed /\ ~V(q).slashed => V(j).withdrawable <= V(q).withdrawable
    BY <1>1, <2>1 DEF QueuesOK
  <2>4. \A q \in DOMAIN s.consolidations : 1..(q - 1) \subseteq DOMAIN s.consolidations
    <3>1. s.consolidations \in Seq(ConsolidationType)
      BY <1>1 DEF StateOK, StateType
    <3> QED BY <3>1
  <2> HIDE DEF From
  <2>5. \A q \in DOMAIN s.consolidations :
           /\ W(q).exit # FAR_FUTURE_EPOCH
           /\ ~W(q).slashed => ~V(q).slashed /\ W(q).withdrawable = V(q).withdrawable
           /\ V(q).withdrawable \in Nat
    <3> SUFFICES ASSUME NEW q \in DOMAIN s.consolidations
                 PROVE  /\ W(q).exit # FAR_FUTURE_EPOCH
                        /\ ~W(q).slashed => ~V(q).slashed /\ W(q).withdrawable = V(q).withdrawable
                        /\ V(q).withdrawable \in Nat
      OBVIOUS
    <3>1. V(q).withdrawable \in Nat /\ V(q).exit # FAR_FUTURE_EPOCH /\ Kept(V(q), W(q), get_current_epoch(s))
      BY <2>2, <2>3 DEF ValidatorType
    <3> HIDE DEF V, W
    <3> QED BY <3>1 DEF Kept
  <2> HIDE DEF V, W
  <2>6. k \in DOMAIN s.consolidations
    BY <1>4
  <2>7. /\ W(k).exit # FAR_FUTURE_EPOCH
        /\ ~W(k).slashed => W(k).withdrawable <= t.consolidating.epoch + DELAY
    BY <1>2, <2>3, <2>5, <2>6
  <2>8. \A j \in 1..(k - 1) : ~W(j).slashed /\ ~W(k).slashed => W(j).withdrawable <= W(k).withdrawable
    BY <2>3, <2>4, <2>5, <2>6
  <2> QED BY <2>7, <2>8 DEF W, From
<1> QED BY <1>3, <1>4 DEF QueuesOK

\* A state that follows a good one, has its types and its validators' epochs in
\* order, and leaves the queues alone, is good.
LEMMA GoodFollows ==
    ASSUME NEW s, NEW t, Good(s), StateOK(t), Follows(s, t),
           t.partials = s.partials, t.consolidations = s.consolidations,
           \A i \in Indices(t) : Life(t.validators[i], t.consolidating.epoch)
    PROVE  Good(t)
<1>1. QueuesOK(t)
  BY QueuesFollow
<1>2. InTime(t)
  BY DEF Good, InTime, Follows, get_current_epoch
<1> QED BY <1>1, <1>2 DEF Good

\* t has the types of a state when its fields do, and names no validator that
\* s does not name.
LEMMA StateKept ==
    ASSUME NEW s, StateOK(s), NEW t \in StateType,
           Len(s.validators) <= Len(t.validators), Len(t.balances) = Len(t.validators),
           t.partials = s.partials, t.consolidations = s.consolidations
    PROVE  StateOK(t) /\ Indices(s) \subseteq Indices(t)
<1>1. t.validators \in Seq(ValidatorType) /\ s.validators \in Seq(ValidatorType) /\ s.validators # << >>
  BY DEF StateOK, StateType
<1>2. Indices(s) \subseteq Indices(t) /\ t.validators # << >>
  BY <1>1 DEF Indices
<1> QED BY <1>2 DEF StateOK

\* A step that changes no validator but may move the churn queues on.
LEMMA ValidatorsSame ==
    ASSUME NEW s, Good(s), NEW t \in StateType, t.validators = s.validators,
           Len(t.balances) = Len(s.balances), t.slot = s.slot, t.finalized = s.finalized,
           s.exits.epoch <= t.exits.epoch, s.consolidating.epoch <= t.consolidating.epoch
    PROVE  /\ Follows(s, t) /\ Stable(s, t)
           /\ t.partials = s.partials /\ t.consolidations = s.consolidations => Good(t)
<1>1. StateOK(s)
  BY DEF Good
<1>2. Indices(t) = Indices(s) /\ \A i \in Indices(s) : s.validators[i] \in ValidatorType
  BY <1>1, Fields DEF Indices
<1>3. Len(s.validators) <= Len(t.validators)
  BY <1>1, Fields
<1>4. Follows(s, t)
  BY <1>2, <1>3, KeptSame DEF Follows
<1>5. Stable(s, t)
  BY <1>2, KeptSame DEF Stable
<1>6. ASSUME t.partials = s.partials, t.consolidations = s.consolidations PROVE Good(t)
  <2>1. StateOK(t)
    BY <1>1, <1>3, <1>6, Fields, StateKept
  <2>2. s.consolidating.epoch \in Nat /\ t.consolidating.epoch \in Nat
    BY <1>1, <2>1, Fields DEF ChurnQueue
  <2>3. \A i \in Indices(t) : Life(t.validators[i], t.consolidating.epoch)
    BY <1>2, <2>2, LifeLater DEF Good
  <2> QED BY <1>4, <1>6, <2>1, <2>3, GoodFollows
<1> QED BY <1>4, <1>5, <1>6

\* A step that changes one validator.
LEMMA OneValidator ==
    ASSUME NEW s, Good(s), NEW t \in StateType, NEW i \in Indices(s), NEW w \in ValidatorType,
           t.validators = [s.validators EXCEPT ![i] = w],
           Len(t.balances) = Len(s.balances), t.slot = s.slot, t.finalized = s.finalized,
           s.exits.epoch <= t.exits.epoch, s.consolidating.epoch <= t.consolidating.epoch,
           Kept(s.validators[i], w, get_current_epoch(s))
    PROVE  /\ Follows(s, t)
           /\ SameNow(s.validators[i], w, get_current_epoch(s)) => Stable(s, t)
           /\ Life(w, t.consolidating.epoch) /\ t.partials = s.partials /\ t.consolidations = s.consolidations => Good(t)
<1>1. StateOK(s)
  BY DEF Good
<1>2. /\ Indices(t) = Indices(s) /\ \A j \in Indices(s) : s.validators[j] \in ValidatorType
      /\ t.validators[i] = w /\ \A j \in Indices(s) : j # i => t.validators[j] = s.validators[j]
  BY <1>1, Fields DEF Indices
<1>3. Len(s.validators) <= Len(t.validators) /\ Len(t.validators) = Len(s.validators)
  <2>1. s.validators \in Seq(ValidatorType) /\ t.validators \in Seq(ValidatorType) /\ DOMAIN t.validators = DOMAIN s.validators
    BY <1>1, Fields DEF StateType
  <2> QED BY <2>1
<1>4. Follows(s, t)
  <2>1. \A j \in Indices(s) : Kept(s.validators[j], t.validators[j], get_current_epoch(s))
    BY <1>2, KeptSame
  <2> QED BY <1>2, <1>3, <2>1 DEF Follows
<1>5. ASSUME SameNow(s.validators[i], w, get_current_epoch(s)) PROVE Stable(s, t)
  <2>1. \A j \in Indices(s) : SameNow(s.validators[j], t.validators[j], get_current_epoch(s))
    BY <1>2, <1>5, KeptSame
  <2> QED BY <1>2, <2>1 DEF Stable
<1>6. ASSUME Life(w, t.consolidating.epoch), t.partials = s.partials, t.consolidations = s.consolidations PROVE Good(t)
  <2>1. StateOK(t)
    BY <1>1, <1>3, <1>6, Fields, StateKept
  <2>2. s.consolidating.epoch \in Nat /\ t.consolidating.epoch \in Nat
    BY <1>1, <2>1, Fields DEF ChurnQueue
  <2>3. \A j \in Indices(t) : Life(t.validators[j], t.consolidating.epoch)
    BY <1>2, <1>6, <2>2, LifeLater DEF Good
  <2> QED BY <1>4, <1>6, <2>1, <2>3, GoodFollows
<1> QED BY <1>4, <1>5, <1>6

\* A step that adds a validator that is new.
LEMMA NewValidator ==
    ASSUME NEW s, Good(s), NEW t \in StateType, NEW w \in ValidatorType,
           t.validators = Append(s.validators, w), Len(t.balances) = Len(t.validators),
           t.slot = s.slot, t.finalized = s.finalized,
           t.exits = s.exits, t.consolidating = s.consolidating,
           t.partials = s.partials, t.consolidations = s.consolidations,
           w.activation = FAR_FUTURE_EPOCH, w.exit = FAR_FUTURE_EPOCH, w.withdrawable = FAR_FUTURE_EPOCH, ~w.slashed
    PROVE  Good(t) /\ Follows(s, t) /\ Stable(s, t)
<1>1. StateOK(s)
  BY DEF Good
<1>2. /\ Indices(t) = 1..(Len(s.validators) + 1) /\ Len(t.validators) = Len(s.validators) + 1
      /\ Indices(s) = 1..Len(s.validators) /\ Len(s.validators) \in Nat
      /\ \A j \in Indices(s) : s.validators[j] \in ValidatorType /\ t.validators[j] = s.validators[j]
      /\ \A j \in Indices(t) \ Indices(s) : t.validators[j] = w
  <2>1. s.validators \in Seq(ValidatorType) /\ Indices(s) = 1..Len(s.validators)
        /\ \A j \in Indices(s) : s.validators[j] \in ValidatorType
    BY <1>1, Fields
  <2> QED BY <2>1 DEF Indices
<1>3. s.exits.epoch <= t.exits.epoch /\ s.consolidating.epoch <= t.consolidating.epoch /\ s.consolidating.epoch \in Nat
  BY <1>1, Fields DEF ChurnQueue
<1>4. Follows(s, t)
  BY <1>2, <1>3, KeptSame DEF Follows
<1>5. Stable(s, t)
  BY <1>2, KeptSame DEF Stable
<1>6. StateOK(t)
  BY <1>1, <1>2, StateKept
<1>7. Life(w, t.consolidating.epoch)
  BY DEF Life
<1>8. \A j \in Indices(t) : Life(t.validators[j], t.consolidating.epoch)
  BY <1>2, <1>3, <1>7 DEF Good
<1> QED BY <1>4, <1>5, <1>6, <1>8, GoodFollows
-----------------------------------------------------------------------------
(* The operations on one validator.                                         *)

\* The churn of an epoch is a number, and that of exits a positive one.
LEMMA ChurnPositive ==
    ASSUME NEW s, StateOK(s)
    PROVE  /\ get_total_active_balance(s) \in Nat /\ get_total_active_balance(s) >= EFFECTIVE_BALANCE_INCREMENT
           /\ get_activation_exit_churn_limit(s) \in Nat \ {0}
           /\ get_activation_exit_churn_limit(s) <= MAX_PER_EPOCH_ACTIVATION_EXIT_CHURN_LIMIT
           /\ get_consolidation_churn_limit(s) \in Int
<1> DEFINE active == active_validator_indices(s, get_current_epoch(s))
           f == [i \in active |-> s.validators[i].effective]
           total == get_total_active_balance(s)
<1>1. IsFiniteSet(active)
  <2>1. active \subseteq 1..Len(s.validators)
    BY Fields DEF active_validator_indices
  <2>2. Len(s.validators) \in Nat
    BY Fields
  <2>3. IsFiniteSet(1..Len(s.validators))
    BY <2>2, FS_Interval
  <2> QED BY <2>1, <2>3, FS_Subset
<1>2. \A i \in active : s.validators[i].effective \in Nat
  BY Fields DEF active_validator_indices, ValidatorType
<1> HIDE DEF active
<1>3. DOMAIN f = active /\ \A i \in DOMAIN f : f[i] \in Nat
  BY <1>2
<1>4. SumOf(f) \in Nat
  <2> HIDE DEF f
  <2> QED BY <1>1, <1>3, SumNat
<1>5. total = Larger(EFFECTIVE_BALANCE_INCREMENT, SumOf(f))
  BY DEF get_total_active_balance, active
<1> HIDE DEF f
<1>6. /\ EFFECTIVE_BALANCE_INCREMENT \in Nat \ {0} /\ CHURN_LIMIT_QUOTIENT \in Nat \ {0}
      /\ MIN_PER_EPOCH_CHURN_LIMIT_ELECTRA \in Nat /\ MAX_PER_EPOCH_ACTIVATION_EXIT_CHURN_LIMIT \in Nat \ {0}
      /\ MIN_PER_EPOCH_CHURN_LIMIT_ELECTRA >= EFFECTIVE_BALANCE_INCREMENT
  BY ChainSpecAssumption
<1>7. total \in Nat /\ total >= EFFECTIVE_BALANCE_INCREMENT
  BY <1>4, <1>5, <1>6, LargerIs
<1> HIDE DEF total
<1> DEFINE share == total \div CHURN_LIMIT_QUOTIENT
           churn == Larger(MIN_PER_EPOCH_CHURN_LIMIT_ELECTRA, share)
           limit == get_balance_churn_limit(s)
<1>8. share \in Nat
  BY <1>6, <1>7, DivBounds
<1>9. limit = churn - (churn % EFFECTIVE_BALANCE_INCREMENT)
  BY DEF get_balance_churn_limit, total
<1> HIDE DEF share, limit
<1>10. churn \in Nat /\ churn >= EFFECTIVE_BALANCE_INCREMENT
  BY <1>6, <1>8, LargerIs
<1> HIDE DEF churn
<1>11. churn % EFFECTIVE_BALANCE_INCREMENT \in 0..(EFFECTIVE_BALANCE_INCREMENT - 1)
  BY <1>6, <1>10
<1>12. limit \in Nat \ {0}
  BY <1>6, <1>9, <1>10, <1>11
<1>13. /\ get_activation_exit_churn_limit(s) \in Nat \ {0}
       /\ get_activation_exit_churn_limit(s) <= MAX_PER_EPOCH_ACTIVATION_EXIT_CHURN_LIMIT
  BY <1>6, <1>12, SmallerIs DEF get_activation_exit_churn_limit, limit
<1> QED BY <1>7, <1>12, <1>13 DEF get_consolidation_churn_limit, limit, total

\* A churn queue moves on only, and never to an epoch that is not open yet.
LEMMA NextInQueueIs ==
    ASSUME NEW queue \in ChurnQueue, NEW balance \in Int, NEW now \in Nat, NEW churn \in Nat \ {0}
    PROVE  LET next == NextInQueue(queue, balance, now, churn)
           IN  /\ next \in ChurnQueue /\ queue.epoch <= next.epoch
               /\ compute_activation_exit_epoch(now) <= next.epoch
<1> DEFINE first == compute_activation_exit_epoch(now)
           earliest == Larger(queue.epoch, first)
           left == IF queue.epoch < earliest THEN churn ELSE queue.left
           additional == IF balance > left THEN ((balance - left - 1) \div churn) + 1 ELSE 0
<1>1. first \in Nat /\ queue.epoch \in Nat /\ queue.left \in Int
  BY ChainSpecAssumption DEF compute_activation_exit_epoch, ChurnQueue
<1> HIDE DEF first
<1>2. earliest \in Nat /\ queue.epoch <= earliest /\ first <= earliest
  BY <1>1, LargerIs
<1> HIDE DEF earliest
<1>3. left \in Int
  BY <1>1
<1>4. NextInQueue(queue, balance, now, churn) =
          [epoch |-> earliest + additional, left |-> left + additional * churn - balance]
  BY DEF NextInQueue, PlaceInQueue, earliest, first
<1> HIDE DEF left
<1>5. additional \in Nat
  <2>1. balance > left => balance - left - 1 \in Nat
    BY <1>3
  <2>2. balance > left => (balance - left - 1) \div churn \in Nat
    BY <2>1, DivBounds
  <2> QED BY <2>2
<1> HIDE DEF additional
<1>6. earliest + additional \in Nat /\ left + additional * churn - balance \in Int
  BY <1>2, <1>3, <1>5
<1> QED BY <1>1, <1>2, <1>4, <1>5, <1>6 DEF ChurnQueue, first

\* t has the fields of s that no operation on the registry's validators moves,
\* the queue of deposits left aside or not.
Near(s, t) ==
    /\ t \in StateType /\ Len(t.validators) = Len(s.validators) /\ Len(t.balances) = Len(s.balances)
    /\ t.slot = s.slot /\ t.finalized = s.finalized /\ t.consolidating = s.consolidating
    /\ t.partials = s.partials /\ t.consolidations = s.consolidations
Alike(s, t) == Near(s, t) /\ t.deposits = s.deposits

\* Such a state names the validators that s names.
LEMMA NearOK ==
    ASSUME NEW s, NEW t, StateOK(s), Near(s, t)
    PROVE  StateOK(t) /\ Indices(t) = Indices(s)
<1>1. Len(s.validators) <= Len(t.validators) /\ Len(t.balances) = Len(t.validators)
  BY Fields DEF Near
<1>2. StateOK(t)
  BY <1>1, StateKept DEF Near
<1>3. Indices(t) = 1..Len(t.validators) /\ Indices(s) = 1..Len(s.validators)
  BY <1>2, Fields
<1> QED BY <1>2, <1>3 DEF Near

\* All the more when the deposits are the same.
LEMMA AlikeOK ==
    ASSUME NEW s, NEW t, StateOK(s), Alike(s, t)
    PROVE  StateOK(t) /\ Indices(t) = Indices(s)
  BY NearOK DEF Alike

\* The place that an exit, or a partial withdrawal, gets in the exit queue.
LEMMA ExitChurn ==
    ASSUME NEW s, StateOK(s), NEW balance \in Int
    PROVE  LET t == compute_exit_epoch_and_update_churn(s, balance)
           IN  /\ t = [s EXCEPT !.exits = t.exits] /\ t.exits \in ChurnQueue /\ t \in StateType
               /\ s.exits.epoch <= t.exits.epoch
               /\ compute_activation_exit_epoch(get_current_epoch(s)) <= t.exits.epoch
<1> DEFINE q == NextInQueue(s.exits, balance, get_current_epoch(s), get_activation_exit_churn_limit(s))
<1>1. q \in ChurnQueue /\ s.exits.epoch <= q.epoch /\ compute_activation_exit_epoch(get_current_epoch(s)) <= q.epoch
  BY Fields, ChurnPositive, NextInQueueIs
<1>2. compute_exit_epoch_and_update_churn(s, balance) = [s EXCEPT !.exits = q]
  BY DEF compute_exit_epoch_and_update_churn
<1> HIDE DEF q
<1>3. s \in StateType
  BY DEF StateOK
<1>4. [s EXCEPT !.exits = q].exits = q /\ [s EXCEPT !.exits = q] \in StateType
  BY <1>1, <1>3 DEF StateType
<1> QED BY <1>1, <1>2, <1>4

\* initiate_validator_exit/2 leaves the validator as it is, fails, or gives it
\* an exit that the delay separates from its withdrawable epoch.
LEMMA ExitIs ==
    ASSUME NEW s, StateOK(s), NEW i \in Indices(s)
    PROVE  LET t == initiate_validator_exit(s, i)
               v == s.validators[i]
               w == t.validators[i]
           IN  \/ v.exit # FAR_FUTURE_EPOCH /\ t = s
               \/ v.exit = FAR_FUTURE_EPOCH /\ t = Failed(s)
               \/ /\ v.exit = FAR_FUTURE_EPOCH
                  /\ t = [s EXCEPT !.exits = t.exits, !.validators = t.validators]
                  /\ t.exits \in ChurnQueue /\ s.exits.epoch <= t.exits.epoch
                  /\ t.validators = [s.validators EXCEPT ![i] = w]
                  /\ w = [v EXCEPT !.exit = t.exits.epoch, !.withdrawable = t.exits.epoch + DELAY]
                  /\ w \in ValidatorType
                  /\ compute_activation_exit_epoch(get_current_epoch(s)) <= t.exits.epoch
                  /\ t.exits.epoch + DELAY <= FAR_FUTURE_EPOCH + 1
<1> DEFINE v == s.validators[i]
           c == compute_exit_epoch_and_update_churn(s, v.effective)
           e == c.exits.epoch
           w == [v EXCEPT !.exit = e, !.withdrawable = e + DELAY]
           t == initiate_validator_exit(s, i)
<1>1. v \in ValidatorType /\ v.effective \in Int
  BY Fields DEF ValidatorType
<1>2. /\ c = [s EXCEPT !.exits = c.exits] /\ c.exits \in ChurnQueue
      /\ s.exits.epoch <= e /\ compute_activation_exit_epoch(get_current_epoch(s)) <= e
  BY <1>1, ExitChurn
<1>3. e \in Nat /\ DELAY \in Nat
  BY <1>2, ChainSpecAssumption DEF ChurnQueue, DELAY
<1>4. w \in ValidatorType
  <2> HIDE DEF v, e
  <2>1. e + DELAY \in Nat
    BY <1>3
  <2> QED BY <1>1, <1>3, <2>1 DEF ValidatorType
<1>5. CASE v.exit # FAR_FUTURE_EPOCH
  BY <1>5 DEF initiate_validator_exit
<1>6. CASE v.exit = FAR_FUTURE_EPOCH /\ e + DELAY > FAR_FUTURE_EPOCH + 1
  BY <1>6 DEF initiate_validator_exit, DELAY
<1>7. CASE v.exit = FAR_FUTURE_EPOCH /\ ~(e + DELAY > FAR_FUTURE_EPOCH + 1)
  <2>1. t = [c EXCEPT !.validators[i] = [@ EXCEPT !.exit = e, !.withdrawable = e + DELAY]]
    BY <1>7 DEF initiate_validator_exit, DELAY
  <2>2. s \in StateType /\ s.validators \in Seq(ValidatorType) /\ i \in DOMAIN s.validators
    BY Fields DEF StateOK, Indices
  <2> HIDE DEF c, t
  <2>3. c \in StateType /\ c.validators = s.validators /\ \A x : [s EXCEPT !.exits = c.exits, !.validators = x] = [c EXCEPT !.validators = x]
    BY <1>2, <2>2 DEF StateType
  <2>4. /\ t = [c EXCEPT !.validators = [s.validators EXCEPT ![i] = w]]
    BY <2>1, <2>2, <2>3
  <2>5. t.exits = c.exits /\ t.validators = [s.validators EXCEPT ![i] = w]
    BY <2>3, <2>4 DEF StateType
  <2>6. t.validators[i] = w
    BY <2>2, <2>5
  <2>7. e + DELAY <= FAR_FUTURE_EPOCH + 1
    BY <1>3, <1>7, ChainSpecAssumption
  <2>8. t = [s EXCEPT !.exits = t.exits, !.validators = t.validators]
    BY <2>3, <2>4, <2>5
  <2> HIDE DEF w
  <2>9. /\ t.exits \in ChurnQueue /\ s.exits.epoch <= t.exits.epoch
        /\ t.validators = [s.validators EXCEPT ![i] = t.validators[i]]
        /\ t.validators[i] = [v EXCEPT !.exit = t.exits.epoch, !.withdrawable = t.exits.epoch + DELAY]
        /\ t.validators[i] \in ValidatorType
        /\ compute_activation_exit_epoch(get_current_epoch(s)) <= t.exits.epoch
        /\ t.exits.epoch + DELAY <= FAR_FUTURE_EPOCH + 1
    <3>1. t.validators[i] = [v EXCEPT !.exit = t.exits.epoch, !.withdrawable = t.exits.epoch + DELAY]
      BY <2>5, <2>6 DEF w
    <3> HIDE DEF v
    <3> QED BY <1>2, <1>4, <2>5, <2>6, <2>7, <3>1
  <2> QED BY <1>7, <2>8, <2>9 DEF t
<1> QED BY <1>5, <1>6, <1>7

\* What the constants of the delays are.
LEMMA Delays ==
    /\ DELAY \in Nat /\ FAR_FUTURE_EPOCH \in Nat /\ EPOCHS_PER_SLASHINGS_VECTOR \in Nat \ {0}
    /\ Delayed \in BOOLEAN /\ (Delayed => \A e \in Nat : e + DELAY <= FAR_FUTURE_EPOCH + 1 => e < FAR_FUTURE_EPOCH)
  BY ChainSpecAssumption DEF DELAY, Delayed

\* A state that failed is the state it was made of but for the failure.
LEMMA FailedIs ==
    ASSUME NEW s \in StateType
    PROVE  /\ Failed(s) \in StateType /\ Failed(s).failed
           /\ Failed(s).validators = s.validators /\ Failed(s).balances = s.balances
           /\ Failed(s).slot = s.slot /\ Failed(s).finalized = s.finalized
           /\ Failed(s).exits = s.exits /\ Failed(s).consolidating = s.consolidating
           /\ Failed(s).partials = s.partials /\ Failed(s).consolidations = s.consolidations
           /\ Failed(s).deposits = s.deposits
  BY DEF StateType, Failed

\* initiate_validator_exit/2 changes the one validator and the exit queue.
LEMMA ExitAlike ==
    ASSUME NEW s, StateOK(s), NEW i \in Indices(s)
    PROVE  LET t == initiate_validator_exit(s, i)
           IN  /\ Alike(s, t) /\ t.balances = s.balances /\ s.exits.epoch <= t.exits.epoch
               /\ \A j \in Indices(s) \ {i} : t.validators[j] = s.validators[j]
<1> DEFINE t == initiate_validator_exit(s, i)
<1>1. s \in StateType /\ s.validators \in Seq(ValidatorType) /\ s.exits.epoch \in Nat /\ i \in DOMAIN s.validators
  BY Fields DEF StateOK, ChurnQueue, Indices
<1>2. CASE t = s
  BY <1>1, <1>2 DEF Alike, Near
<1>3. CASE t = Failed(s)
  BY <1>1, <1>3, FailedIs DEF Alike, Near
<1>4. CASE /\ t = [s EXCEPT !.exits = t.exits, !.validators = t.validators]
           /\ t.exits \in ChurnQueue /\ s.exits.epoch <= t.exits.epoch
           /\ t.validators = [s.validators EXCEPT ![i] = t.validators[i]] /\ t.validators[i] \in ValidatorType
  <2> HIDE DEF t
  <2>1. t.validators \in Seq(ValidatorType) /\ Len(t.validators) = Len(s.validators)
    BY <1>1, <1>4
  <2>2. /\ t \in StateType /\ t.balances = s.balances /\ t.slot = s.slot /\ t.finalized = s.finalized
        /\ t.consolidating = s.consolidating /\ t.partials = s.partials /\ t.consolidations = s.consolidations
        /\ t.deposits = s.deposits
    BY <1>1, <1>4, <2>1, ZenonT(40) DEF StateType
  <2>3. \A j \in Indices(s) \ {i} : t.validators[j] = s.validators[j]
    BY <1>1, <1>4 DEF Indices
  <2> QED BY <1>4, <2>1, <2>2, <2>3 DEF Alike, Near, t
<1> HIDE DEF t
<1>5. t = s \/ t = Failed(s) \/
           (/\ t = [s EXCEPT !.exits = t.exits, !.validators = t.validators]
            /\ t.exits \in ChurnQueue /\ s.exits.epoch <= t.exits.epoch
            /\ t.validators = [s.validators EXCEPT ![i] = t.validators[i]] /\ t.validators[i] \in ValidatorType)
  BY ExitIs, ZenonT(40) DEF t
<1> QED BY <1>2, <1>3, <1>4, <1>5 DEF t

\* It moves no effective balance.
LEMMA ExitEffective ==
    ASSUME NEW s, StateOK(s), NEW i \in Indices(s)
    PROVE  initiate_validator_exit(s, i).validators[i].effective = s.validators[i].effective
<1> DEFINE t == initiate_validator_exit(s, i)
           v == s.validators[i]
<1>1. s \in StateType /\ v \in ValidatorType
  BY Fields DEF StateOK
<1>2. t = s \/ t = Failed(s) \/ t.validators[i] = [v EXCEPT !.exit = t.exits.epoch, !.withdrawable = t.exits.epoch + DELAY]
  BY ExitIs, ZenonT(40)
<1> HIDE DEF t
<1>3. CASE t = s
  BY <1>3 DEF t
<1>4. CASE t = Failed(s)
  BY <1>1, <1>4, FailedIs DEF t
<1>5. CASE t.validators[i] = [v EXCEPT !.exit = t.exits.epoch, !.withdrawable = t.exits.epoch + DELAY]
  <2> HIDE DEF v
  <2>1. t.validators[i].effective = v.effective
    BY <1>1, <1>5 DEF ValidatorType
  <2> QED BY <2>1 DEF t, v
<1> QED BY <1>2, <1>3, <1>4, <1>5

\* Nothing that initiate_validator_exit/2 does to a validator that is active,
\* or already leaving, is out of order.
LEMMA ExitGood ==
    ASSUME NEW s, Good(s), NEW i \in Indices(s),
           s.validators[i].exit = FAR_FUTURE_EPOCH => s.validators[i].activation <= get_current_epoch(s)
    PROVE  LET t == initiate_validator_exit(s, i)
           IN  /\ Good(t) /\ Follows(s, t) /\ Stable(s, t)
               /\ t.validators[i].slashed = s.validators[i].slashed
               /\ Delayed /\ ~t.failed => t.validators[i].exit # FAR_FUTURE_EPOCH
<1> DEFINE t == initiate_validator_exit(s, i)
           v == s.validators[i]
           w == t.validators[i]
           epoch == get_current_epoch(s)
<1>1. StateOK(s) /\ s \in StateType
  BY DEF Good, StateOK
<1>2. Alike(s, t) /\ t.balances = s.balances /\ s.exits.epoch <= t.exits.epoch
  BY <1>1, ExitAlike
<1>3. v \in ValidatorType /\ v.slashed \in BOOLEAN /\ epoch \in Nat /\ s.consolidating.epoch \in Nat /\ s.exits.epoch \in Nat
  BY <1>1, Fields DEF ValidatorType, ChurnQueue
<1>4. \/ v.exit # FAR_FUTURE_EPOCH /\ t = s
      \/ v.exit = FAR_FUTURE_EPOCH /\ t = Failed(s)
      \/ /\ v.exit = FAR_FUTURE_EPOCH /\ t.exits \in ChurnQueue
         /\ t.validators = [s.validators EXCEPT ![i] = w]
         /\ w = [v EXCEPT !.exit = t.exits.epoch, !.withdrawable = t.exits.epoch + DELAY]
         /\ w \in ValidatorType
         /\ compute_activation_exit_epoch(epoch) <= t.exits.epoch
         /\ t.exits.epoch + DELAY <= FAR_FUTURE_EPOCH + 1
  <2>1. \/ v.exit # FAR_FUTURE_EPOCH /\ t = s
        \/ v.exit = FAR_FUTURE_EPOCH /\ t = Failed(s)
        \/ /\ v.exit = FAR_FUTURE_EPOCH
           /\ t = [s EXCEPT !.exits = t.exits, !.validators = t.validators]
           /\ t.exits \in ChurnQueue /\ s.exits.epoch <= t.exits.epoch
           /\ t.validators = [s.validators EXCEPT ![i] = w]
           /\ w = [v EXCEPT !.exit = t.exits.epoch, !.withdrawable = t.exits.epoch + DELAY]
           /\ w \in ValidatorType
           /\ compute_activation_exit_epoch(epoch) <= t.exits.epoch
           /\ t.exits.epoch + DELAY <= FAR_FUTURE_EPOCH + 1
    BY <1>1, ExitIs, Zenon
  <2> HIDE DEF t, v, w, epoch
  <2> QED BY <2>1
<1>5. compute_activation_exit_epoch(epoch) \in Nat /\ epoch < compute_activation_exit_epoch(epoch) /\ epoch < FAR_FUTURE_EPOCH
  BY <1>1, Fields, EpochNat, Delays DEF Good, InTime
<1> HIDE DEF t, v, epoch
<1>6. CASE v.exit # FAR_FUTURE_EPOCH /\ t = s
  <2>1. Follows(s, s) /\ Stable(s, s) /\ Good(s)
    <3>1. s.exits.epoch <= s.exits.epoch /\ s.consolidating.epoch <= s.consolidating.epoch
      BY <1>3
    <3> QED BY <1>1, <3>1, ValidatorsSame
  <2> QED BY <1>6, <2>1 DEF t, v
<1>7. CASE v.exit = FAR_FUTURE_EPOCH /\ t = Failed(s)
  <2>1. Follows(s, t) /\ Stable(s, t) /\ Good(t)
    <3>1. s.exits.epoch <= t.exits.epoch /\ s.consolidating.epoch <= t.consolidating.epoch
      BY <1>1, <1>3, <1>7, FailedIs
    <3> QED BY <1>1, <1>7, <3>1, FailedIs, ValidatorsSame
  <2>2. t.failed /\ t.validators = s.validators
    BY <1>1, <1>7, FailedIs
  <2> QED BY <2>1, <2>2 DEF t, v
<1>8. CASE /\ v.exit = FAR_FUTURE_EPOCH /\ t.exits \in ChurnQueue
           /\ t.validators = [s.validators EXCEPT ![i] = w]
           /\ w = [v EXCEPT !.exit = t.exits.epoch, !.withdrawable = t.exits.epoch + DELAY]
           /\ w \in ValidatorType
           /\ compute_activation_exit_epoch(epoch) <= t.exits.epoch
           /\ t.exits.epoch + DELAY <= FAR_FUTURE_EPOCH + 1
  <2> HIDE DEF w
  <2>1. t.exits.epoch \in Nat
    BY <1>8 DEF ChurnQueue
  <2>2. /\ w.exit = t.exits.epoch /\ w.withdrawable = t.exits.epoch + DELAY /\ w.slashed = v.slashed
        /\ w.activation = v.activation /\ w.effective = v.effective /\ w.eligibility = v.eligibility
        /\ v.activation \in Nat
    BY <1>3, <1>8 DEF ValidatorType
  <2>3. v.activation <= epoch /\ Life(v, s.consolidating.epoch)
    BY <1>8 DEF v, epoch, Good
  <2>4. Delayed => w.exit # FAR_FUTURE_EPOCH /\ ~v.slashed
    <3>1. Delayed => t.exits.epoch < FAR_FUTURE_EPOCH
      BY <1>8, <2>1, Delays
    <3>2. Delayed => ~v.slashed
      BY <1>8, <2>3 DEF Life
    <3> QED BY <2>1, <2>2, <3>1, <3>2, Delays
  <2>5. Kept(v, w, epoch)
    BY <1>3, <1>8, <2>2, <2>4 DEF Kept
  <2>6. SameNow(v, w, epoch)
    <3>1. v.exit > epoch /\ w.exit > epoch
      BY <1>3, <1>5, <1>8, <2>1, <2>2, Delays
    <3> QED BY <2>2, <3>1 DEF SameNow
  <2>7. Life(w, t.consolidating.epoch)
    <3>1. w.activation # FAR_FUTURE_EPOCH => w.eligibility <= w.activation
      BY <2>2, <2>3 DEF Life
    <3>2. w.exit # FAR_FUTURE_EPOCH => w.activation < w.exit /\ w.exit + DELAY <= w.withdrawable
      BY <1>3, <1>5, <1>8, <2>1, <2>2, <2>3, Delays
    <3> QED BY <2>2, <2>4, <3>1, <3>2 DEF Life
  <2>8. s.consolidating.epoch <= t.consolidating.epoch
    BY <1>2, <1>3 DEF Alike, Near
  <2>9. Follows(s, t) /\ Stable(s, t) /\ Good(t)
    BY <1>2, <1>8, <2>5, <2>6, <2>7, <2>8, OneValidator DEF Alike, Near, v, epoch
  <2> QED BY <2>2, <2>4, <2>9 DEF t, v, w
<1> QED BY <1>4, <1>6, <1>7, <1>8

-----------------------------------------------------------------------------
(* What the exit queue puts into epochs.                                    *)

\* The churn of exits that no epoch exceeds.
LIMIT == MAX_PER_EPOCH_ACTIVATION_EXIT_CHURN_LIMIT

\* c counts balances per epoch.
Counts(c) == IsFiniteSet(DOMAIN c) /\ DOMAIN c \subseteq Nat /\ c \in [DOMAIN c -> Nat]

\* What the queue q has put into epochs, c, leaves room for what q has left: up
\* to the epoch where it stands, and in any stretch of epochs.
Within(c, q) ==
    /\ Counts(c) /\ \A e \in DOMAIN c : e <= q.epoch
    /\ q.epoch \in Nat /\ q.left \in 0..LIMIT
    /\ \A a \in 0..q.epoch : Stretch(c, a, q.epoch) + q.left <= LIMIT * (q.epoch - a + 1) + LargestExit - 1
    /\ \A a, b \in Nat : a <= b => Stretch(c, a, b) <= LIMIT * (b - a + 1) + LargestExit - 1

\* The constants of the churn.
LEMMA ChurnConstants ==
    /\ LIMIT \in Nat \ {0} /\ LargestExit \in Nat \ {0}
    /\ MAX_EFFECTIVE_BALANCE_ELECTRA <= LargestExit
    /\ \A x \in Amounts : x \in Nat /\ x <= LargestExit
<1> DEFINE S == {MAX_EFFECTIVE_BALANCE_ELECTRA} \cup Amounts
<1>1. LIMIT \in Nat \ {0} /\ MAX_EFFECTIVE_BALANCE_ELECTRA \in Nat \ {0} /\ Amounts \subseteq Nat /\ IsFiniteSet(Amounts)
  BY ChainSpecAssumption, AnchorsAssumption DEF LIMIT
<1>2. IsFiniteSet(S) /\ S # {} /\ S \subseteq Nat
  <2>1. IsFiniteSet(Amounts \cup {MAX_EFFECTIVE_BALANCE_ELECTRA})
    BY <1>1, FS_AddElement
  <2>2. S = Amounts \cup {MAX_EFFECTIVE_BALANCE_ELECTRA}
    OBVIOUS
  <2> QED BY <1>1, <2>1, <2>2
<1>3. LargestExit = Max(S)
  BY DEF LargestExit
<1>4. MAX_EFFECTIVE_BALANCE_ELECTRA \in S /\ Amounts \subseteq S
  OBVIOUS
<1> HIDE DEF S
<1>5. \E m \in S : \A y \in S : y <= m
  BY <1>2, GreatestNat
<1>7. \E m \in S : \A y \in S : m >= y
  BY <1>2, <1>5
<1>6. Max(S) \in S /\ \A y \in S : Max(S) >= y
  BY <1>7 DEF Max
<1> DEFINE m == Max(S)
<1>8. m \in Nat /\ \A y \in S : y \in Nat /\ y <= m
  <2>1. m \in S /\ \A y \in S : m >= y
    BY <1>6
  <2> HIDE DEF m
  <2> QED BY <1>2, <2>1
<1>9. LargestExit = m
  BY <1>3
<1> HIDE DEF m
<1>10. MAX_EFFECTIVE_BALANCE_ELECTRA <= m /\ m \in Nat \ {0} /\ \A x \in Amounts : x \in Nat /\ x <= m
  BY <1>1, <1>4, <1>8
<1> QED BY <1>1, <1>9, <1>10

\* What counts in a stretch.
LEMMA StretchIs ==
    ASSUME NEW c, Counts(c), NEW a, NEW b
    PROVE  LET f == [e \in {e \in DOMAIN c : a <= e /\ e <= b} |-> c[e]]
           IN  /\ Stretch(c, a, b) = SumOf(f) /\ Summable(f, DOMAIN f) /\ Stretch(c, a, b) \in Nat
               /\ DOMAIN f = {e \in DOMAIN c : a <= e /\ e <= b} /\ \A e \in DOMAIN f : f[e] = c[e]
               /\ DOMAIN f = {} => Stretch(c, a, b) = 0
<1> DEFINE D == {e \in DOMAIN c : a <= e /\ e <= b}
           f == [e \in D |-> c[e]]
<1>1. IsFiniteSet(D)
  BY FS_Subset DEF Counts
<1>2. DOMAIN f = D /\ \A e \in D : f[e] = c[e] /\ f[e] \in Nat
  BY DEF Counts
<1>3. Stretch(c, a, b) = SumOf(f)
  BY DEF Stretch
<1>4. Summable(f, DOMAIN f)
  <2> HIDE DEF f, D
  <2> QED BY <1>1, <1>2 DEF Summable
<1>5. SumOf(f) \in Nat /\ (DOMAIN f = {} => SumOf(f) = 0)
  <2> HIDE DEF f
  <2> QED BY <1>4, SumOfIs
<1> QED BY <1>2, <1>3, <1>4, <1>5

\* Nothing is counted after the last epoch, whatever the stretch's end.
LEMMA StretchEnd ==
    ASSUME NEW c, Counts(c), NEW last \in Nat, \A e \in DOMAIN c : e <= last, NEW a \in Nat, NEW b \in Nat, last <= b
    PROVE  /\ Stretch(c, a, b) = Stretch(c, a, last)
           /\ last < a => Stretch(c, a, b) = 0
<1>1. {e \in DOMAIN c : a <= e /\ e <= b} = {e \in DOMAIN c : a <= e /\ e <= last}
  BY DEF Counts
<1>2. last < a => {e \in DOMAIN c : a <= e /\ e <= b} = {}
  BY DEF Counts
<1>3. Stretch(c, a, b) = Stretch(c, a, last)
  BY <1>1 DEF Stretch
<1>4. last < a => Stretch(c, a, b) = 0
  BY <1>2, StretchIs
<1> QED BY <1>3, <1>4

\* What a stretch has after one epoch got more.
LEMMA StretchGrown ==
    ASSUME NEW c, Counts(c), NEW e \in Nat, NEW x \in Nat, NEW a \in Nat, NEW b \in Nat
    PROVE  /\ Counts(Gains(c, e, x))
           /\ Stretch(Gains(c, e, x), a, b) = Stretch(c, a, b) + IF a <= e /\ e <= b THEN x ELSE 0
<1> DEFINE d == Gains(c, e, x)
           f == [y \in {y \in DOMAIN c : a <= y /\ y <= b} |-> c[y]]
           g == [y \in {y \in DOMAIN d : a <= y /\ y <= b} |-> d[y]]
<1>1. /\ DOMAIN d = DOMAIN c \cup {e}
      /\ \A y \in DOMAIN c \ {e} : d[y] = c[y]
      /\ e \in DOMAIN c => d[e] = c[e] + x
      /\ e \notin DOMAIN c => d[e] = x
  BY DEF Gains, Counts
<1> HIDE DEF d
<1>2. Counts(d)
  <2>1. IsFiniteSet(DOMAIN c \cup {e})
    BY FS_AddElement DEF Counts
  <2>2. d \in [DOMAIN d -> Nat]
    BY DEF Counts, d, Gains
  <2> QED BY <1>1, <2>1, <2>2 DEF Counts
<1>3. /\ Stretch(c, a, b) = SumOf(f) /\ Summable(f, DOMAIN f) /\ SumOf(f) \in Nat
      /\ DOMAIN f = {y \in DOMAIN c : a <= y /\ y <= b} /\ \A y \in DOMAIN f : f[y] = c[y]
  BY StretchIs
<1>4. /\ Stretch(d, a, b) = SumOf(g) /\ Summable(g, DOMAIN g) /\ SumOf(g) \in Nat
      /\ DOMAIN g = {y \in DOMAIN d : a <= y /\ y <= b} /\ \A y \in DOMAIN g : g[y] = d[y]
  BY <1>2, StretchIs
<1> HIDE DEF f, g
<1>5. CASE ~(a <= e /\ e <= b)
  <2>1. DOMAIN g = DOMAIN f /\ \A y \in DOMAIN f : g[y] = f[y]
    BY <1>1, <1>3, <1>4, <1>5
  <2>2. SumOf(g) = SumOf(f)
    BY <1>3, <2>1, SumEqual
  <2> QED BY <1>2, <1>3, <1>4, <1>5, <2>2 DEF d
<1>6. CASE a <= e /\ e <= b /\ e \in DOMAIN c
  <2>1. /\ e \in DOMAIN f /\ DOMAIN g = DOMAIN f /\ f[e] = c[e] /\ c[e] \in Nat /\ g[e] = c[e] + x /\ g[e] \in Nat
        /\ \A y \in DOMAIN f \ {e} : g[y] = f[y]
    BY <1>1, <1>3, <1>4, <1>6 DEF Counts
  <2>2. SumOf(g) + f[e] = SumOf(f) + g[e]
    BY <1>3, <2>1, SumChanged
  <2> QED BY <1>2, <1>3, <1>4, <1>6, <2>1, <2>2 DEF d
<1>7. CASE a <= e /\ e <= b /\ e \notin DOMAIN c
  <2>1. /\ e \notin DOMAIN f /\ DOMAIN g = DOMAIN f \cup {e} /\ g[e] = x
        /\ \A y \in DOMAIN f : g[y] = f[y]
    BY <1>1, <1>3, <1>4, <1>7
  <2>2. SumOf(g) = SumOf(f) + g[e]
    BY <1>3, <2>1, SumMore
  <2> QED BY <1>2, <1>3, <1>4, <1>7, <2>1, <2>2 DEF d
<1> QED BY <1>5, <1>6, <1>7

\* What a step of the queue does, in terms of the epochs it adds.
LEMMA QueueStep ==
    ASSUME NEW q, q.epoch \in Nat, q.left \in 0..LIMIT, NEW x \in Nat, NEW now \in Nat, NEW per \in 1..LIMIT
    PROVE  LET next == NextInQueue(q, x, now, per)
           IN  \E k \in Nat, first \in Nat, left \in 0..LIMIT :
                  /\ next.epoch = first + k /\ next.left = left + per * k - x /\ next.left \in 0..LIMIT
                  /\ k = 0 => x <= left
                  /\ k > 0 => next.left < per /\ left < x
                  /\ (first = q.epoch /\ left = q.left) \/ (first > q.epoch /\ left = per)
<1> DEFINE open == compute_activation_exit_epoch(now)
           first == Larger(q.epoch, open)
           left == IF q.epoch < first THEN per ELSE q.left
           y == x - left - 1
           k == IF x > left THEN (y \div per) + 1 ELSE 0
           next == NextInQueue(q, x, now, per)
<1>0. LIMIT \in Nat
  BY ChurnConstants
<1>1. open \in Nat
  BY ChainSpecAssumption DEF compute_activation_exit_epoch
<1> HIDE DEF open
<1>2. first \in Nat /\ q.epoch <= first
  BY <1>1, LargerIs
<1>3. next = [epoch |-> first + k, left |-> left + k * per - x]
  BY DEF NextInQueue, PlaceInQueue, open
<1> HIDE DEF first, next
<1>4. left \in 0..LIMIT /\ ((first = q.epoch /\ left = q.left) \/ (first > q.epoch /\ left = per))
  BY <1>0, <1>2
<1> HIDE DEF left
<1>5. CASE x > left
  <2> DEFINE m == y \div per
  <2>1. y \in Nat /\ per \in Nat \ {0}
    BY <1>0, <1>4, <1>5
  <2>2. m \in Nat /\ per * m <= y /\ y < per * m + per
    <3> HIDE DEF y
    <3> QED BY <2>1, DivBounds
  <2>3. k = m + 1
    BY <1>5
  <2> HIDE DEF m, k
  <2>4. per * k = per * m + per /\ k * per = per * k /\ per * m \in Nat /\ k \in Nat /\ k > 0
    BY <2>1, <2>2, <2>3
  <2>5. left + per * k - x \in 0..LIMIT /\ left + per * k - x < per
    <3> DEFINE z == per * m
    <3>1. z \in Nat /\ per * k = z + per /\ z <= y /\ y < z + per
      BY <2>2, <2>4
    <3> HIDE DEF z
    <3> QED BY <1>0, <1>4, <3>1
  <2> HIDE DEF y
  <2> QED BY <1>2, <1>3, <1>4, <1>5, <2>4, <2>5 DEF next
<1>6. CASE ~(x > left)
  <2>1. k = 0 /\ x <= left /\ left + k * per - x = left - x /\ left - x \in 0..LIMIT /\ per * k = 0
    BY <1>0, <1>4, <1>6
  <2>2. next.epoch = first + k /\ next.left = left + per * k - x /\ next.left \in 0..LIMIT
    BY <1>0, <1>3, <1>4, <2>1
  <2> HIDE DEF k, y
  <2> QED BY <1>2, <1>4, <2>1, <2>2 DEF next
<1> QED BY <1>5, <1>6

\* A product keeps the order.
LEMMA TimesOrder ==
    \A m, p, r, d \in Nat : /\ m * p \in Nat /\ m * (p + r) = m * p + m * r
                            /\ p <= m => p * d <= m * d
  OBVIOUS

\* The room that the queue had is the room that it has: whatever it puts in
\* new epochs is no more than these have.
LEMMA QueueRoom ==
    ASSUME NEW q, q.epoch \in Nat, q.left \in 0..LIMIT, NEW x \in 0..LargestExit, NEW now \in Nat, NEW per \in 1..LIMIT
    PROVE  LET next == NextInQueue(q, x, now, per)
           IN  /\ next.epoch \in Nat /\ q.epoch <= next.epoch /\ next.left \in 0..LIMIT
               /\ \A a \in 0..q.epoch :
                     LIMIT * (q.epoch - a + 1) - q.left + x + next.left <= LIMIT * (next.epoch - a + 1)
               /\ \A a \in (q.epoch + 1)..next.epoch : x + next.left <= LIMIT * (next.epoch - a + 1) + LargestExit - 1
<1> DEFINE next == NextInQueue(q, x, now, per)
           E == q.epoch
           L == q.left
           F == next.epoch
           R == next.left
           X == LargestExit
<1>1. LIMIT \in Nat \ {0} /\ X \in Nat \ {0}
  BY ChurnConstants
<1>2. x \in Nat
  BY <1>1
<1>3. PICK k \in Nat, first \in Nat, left \in 0..LIMIT :
          /\ F = first + k /\ R = left + per * k - x /\ R \in 0..LIMIT
          /\ k = 0 => x <= left
          /\ k > 0 => R < per /\ left < x
          /\ (first = E /\ left = L) \/ (first > E /\ left = per)
  BY <1>2, QueueStep
<1>4. E \in Nat /\ L \in 0..LIMIT
  OBVIOUS
<1> HIDE DEF E, L, F, R, X
<1>5. F \in Nat /\ E <= F /\ R \in 0..LIMIT
  BY <1>3, <1>4
<1>6. ASSUME NEW a \in 0..E PROVE LIMIT * (E - a + 1) - L + x + R <= LIMIT * (F - a + 1)
  <2> DEFINE p == E - a + 1
             r == F - E
  <2>1. p \in Nat /\ r \in Nat /\ F - a + 1 = p + r
    BY <1>4, <1>5
  <2>2. LIMIT * (p + r) = LIMIT * p + LIMIT * r /\ LIMIT * p \in Nat /\ LIMIT * r \in Nat
    <3> HIDE DEF p, r
    <3> QED BY <1>1, <2>1, TimesOrder
  <2>3. per * k <= LIMIT * k /\ per * k \in Nat /\ LIMIT * k \in Nat
    BY <1>1, TimesOrder
  <2>4. x + R = left + per * k
    BY <1>1, <1>2, <1>3, <2>3
  <2>5. x + R <= L + LIMIT * r
    <3>1. CASE first = E /\ left = L
      <4>1. r = k
        BY <1>3, <1>4, <3>1
      <4> HIDE DEF r
      <4> QED BY <1>1, <2>2, <2>3, <2>4, <3>1, <4>1
    <3>2. CASE first > E /\ left = per
      <4> DEFINE g == first - E - 1
      <4>1. g \in Nat /\ r = (k + 1) + g
        BY <1>3, <1>4, <3>2
      <4> HIDE DEF g, r
      <4>2. LIMIT * r = LIMIT * (k + 1) + LIMIT * g /\ LIMIT * (k + 1) = LIMIT * k + LIMIT /\ LIMIT * g \in Nat
        BY <1>1, <4>1, TimesOrder
      <4> QED BY <1>1, <1>4, <2>2, <2>3, <2>4, <3>2, <4>2
    <3> QED BY <1>3, <3>1, <3>2
  <2> DEFINE A == LIMIT * p
             B == LIMIT * r
  <2>6. LIMIT * (E - a + 1) = A /\ LIMIT * (F - a + 1) = A + B /\ A \in Nat /\ B \in Nat /\ x + R <= L + B
    BY <2>1, <2>2, <2>5
  <2> HIDE DEF A, B
  <2> QED BY <1>1, <1>2, <1>4, <1>5, <2>6
<1>7. ASSUME NEW a \in (E + 1)..F PROVE x + R <= LIMIT * (F - a + 1) + X - 1
  <2> DEFINE p == F - a
             A == LIMIT * p
  <2>1. p \in Nat /\ F - a + 1 = p + 1
    BY <1>4, <1>5
  <2>2. LIMIT * (p + 1) = LIMIT * p + LIMIT /\ LIMIT * p \in Nat
    <3> HIDE DEF p
    <3> QED BY <1>1, <2>1, TimesOrder
  <2>3. LIMIT * (F - a + 1) = A + LIMIT /\ A \in Nat
    BY <2>1, <2>2
  <2> HIDE DEF A, p
  <2>4. x <= X
    BY DEF X
  <2>5. CASE k = 0
    <3>1. x + R = left /\ left <= LIMIT
      BY <1>1, <1>2, <1>3, <2>5
    <3> QED BY <1>1, <1>2, <1>5, <2>3, <3>1
  <2>6. CASE k > 0
    BY <1>1, <1>2, <1>3, <1>5, <2>3, <2>4, <2>6
  <2> QED BY <2>5, <2>6
<1> QED BY <1>5, <1>6, <1>7 DEF E, L, F, R, X

\* The queue stays within the churn when it puts x into the epoch it comes to,
\* and when it only comes there.
LEMMA WithinNext ==
    ASSUME NEW c, NEW q, Within(c, q), NEW x \in 0..LargestExit, NEW now \in Nat, NEW per \in 1..LIMIT
    PROVE  LET next == NextInQueue(q, x, now, per)
           IN  Within(Gains(c, next.epoch, x), next) /\ Within(c, next)
<1> DEFINE next == NextInQueue(q, x, now, per)
           E == q.epoch
           L == q.left
           F == next.epoch
           R == next.left
           X == LargestExit
           G == Gains(c, F, x)
<1>1. LIMIT \in Nat \ {0} /\ X \in Nat \ {0} /\ x \in Nat
  BY ChurnConstants
<1>2. /\ Counts(c) /\ (\A e \in DOMAIN c : e \in Nat /\ e <= E) /\ E \in Nat /\ L \in 0..LIMIT
      /\ \A a \in 0..E : Stretch(c, a, E) + L <= LIMIT * (E - a + 1) + X - 1
      /\ \A a, b \in Nat : a <= b => Stretch(c, a, b) <= LIMIT * (b - a + 1) + X - 1
  BY DEF Within, Counts
<1>3. /\ F \in Nat /\ E <= F /\ R \in 0..LIMIT
      /\ \A a \in 0..E : LIMIT * (E - a + 1) - L + x + R <= LIMIT * (F - a + 1)
      /\ \A a \in (E + 1)..F : x + R <= LIMIT * (F - a + 1) + X - 1
  <2>1. q.epoch \in Nat /\ q.left \in 0..LIMIT
    BY <1>2
  <2> QED BY <2>1, QueueRoom
<1> HIDE DEF E, L, F, R, X, next
<1>4. Counts(G) /\ \A a, b \in Nat : Stretch(G, a, b) = Stretch(c, a, b) + IF a <= F /\ F <= b THEN x ELSE 0
  BY <1>1, <1>2, <1>3, StretchGrown
<1>5. \A e \in DOMAIN c : e <= F
  BY <1>2, <1>3
<1>6. \A e \in DOMAIN G : e <= F
  BY <1>3, <1>5 DEF Gains
<1> HIDE DEF G
<1>7. \A a, b \in Nat : Stretch(c, a, b) \in Nat
  BY <1>2, StretchIs
<1>8. ASSUME NEW a \in 0..F PROVE Stretch(c, a, F) + x + R <= LIMIT * (F - a + 1) + X - 1
  <2> DEFINE S == Stretch(c, a, F)
             B == LIMIT * (F - a + 1)
  <2>0. a \in Nat /\ F - a + 1 \in Nat
    BY <1>3
  <2>1. S \in Nat /\ B \in Nat
    <3> DEFINE p == F - a + 1
    <3>1. LIMIT * p \in Nat
      <4> HIDE DEF p
      <4> QED BY <1>1, <2>0, TimesOrder DEF p
    <3> QED BY <1>3, <1>7, <2>0, <3>1
  <2>2. CASE a <= E
    <3> DEFINE A == LIMIT * (E - a + 1)
    <3>1. S = Stretch(c, a, E)
      BY <1>2, <1>3, <2>0, StretchEnd
    <3>2. A - L + x + R <= B /\ Stretch(c, a, E) + L <= A + X - 1
      BY <1>2, <1>3, <2>2
    <3>3. A \in Nat
      <4> DEFINE p == E - a + 1
      <4>1. p \in Nat
        BY <1>2, <2>0, <2>2
      <4>2. LIMIT * p \in Nat
        <5> HIDE DEF p
        <5> QED BY <1>1, <4>1, TimesOrder
      <4> QED BY <4>2
    <3> HIDE DEF S, A, B
    <3>4. S + x + R <= B + X - 1
      BY <1>1, <1>2, <1>3, <2>1, <3>1, <3>2, <3>3
    <3> QED BY <3>4 DEF S, B
  <2>3. CASE E < a
    <3>0. Stretch(c, a, F) = Stretch(c, a, E) /\ (E < a => Stretch(c, a, F) = 0)
      <4>1. Counts(c) /\ (\A e \in DOMAIN c : e <= E) /\ E \in Nat /\ F \in Nat /\ E <= F /\ a \in Nat
        BY <1>2, <1>3, <2>0
      <4> QED BY <4>1, StretchEnd, Zenon
    <3>1. S = 0
      BY <2>3, <3>0
    <3>2. x + R <= B + X - 1
      BY <1>2, <1>3, <2>0, <2>3
    <3> HIDE DEF S, B
    <3> QED BY <1>1, <1>3, <2>1, <3>1, <3>2 DEF B, S
  <2> QED BY <1>2, <2>0, <2>2, <2>3
<1>9. ASSUME NEW d, Counts(d), \A e \in DOMAIN d : e <= F,
             \A a, b \in Nat : Stretch(d, a, b) = Stretch(c, a, b) \/ (F <= b /\ Stretch(d, a, b) = Stretch(c, a, b) + x)
      PROVE  Within(d, next)
  <2>1. ASSUME NEW a \in 0..F PROVE Stretch(d, a, F) + R <= LIMIT * (F - a + 1) + X - 1 /\ LIMIT * (F - a + 1) \in Nat
    <3> DEFINE S == Stretch(c, a, F)
               T == Stretch(d, a, F)
               B == LIMIT * (F - a + 1)
    <3>1. a \in Nat /\ F - a + 1 \in Nat
      BY <1>3
    <3>2. S \in Nat /\ (T = S \/ T = S + x) /\ S + x + R <= B + X - 1
      BY <1>3, <1>7, <1>8, <1>9, <3>1
    <3>3. B \in Nat
      <4> DEFINE p == F - a + 1
      <4> HIDE DEF p
      <4> QED BY <1>1, <3>1, TimesOrder DEF p
    <3>4. T + R <= B + X - 1
      <4> HIDE DEF S, T, B
      <4> QED BY <1>1, <1>3, <3>2, <3>3
    <3> QED BY <3>3, <3>4
  <2>2. ASSUME NEW a \in Nat, NEW b \in Nat, a <= b PROVE Stretch(d, a, b) <= LIMIT * (b - a + 1) + X - 1
    <3>1. CASE Stretch(d, a, b) = Stretch(c, a, b)
      BY <1>2, <2>2, <3>1
    <3>2. CASE F <= b
      <4>1. Stretch(d, a, b) = Stretch(d, a, F) /\ (F < a => Stretch(d, a, b) = 0)
        BY <1>3, <1>9, <3>2, StretchEnd
      <4> DEFINE B == LIMIT * (b - a + 1)
      <4>2. b - a + 1 \in Nat
        BY <2>2
      <4>3. B \in Nat
        <5> DEFINE p == b - a + 1
        <5> HIDE DEF p
        <5> QED BY <1>1, <4>2, TimesOrder DEF p
      <4>4. CASE F < a
        <5> HIDE DEF B
        <5> QED BY <1>1, <4>1, <4>3, <4>4 DEF B
      <4>5. CASE a <= F
        <5> DEFINE p == F - a + 1
                   r == b - F
                   C == LIMIT * p
                   T == Stretch(d, a, F)
        <5>1. a \in 0..F /\ p \in Nat /\ r \in Nat /\ b - a + 1 = p + r
          BY <1>3, <3>2, <4>5
        <5>2. LIMIT * (p + r) = LIMIT * p + LIMIT * r /\ LIMIT * p \in Nat /\ LIMIT * r \in Nat
          <6> HIDE DEF p, r
          <6> QED BY <1>1, <5>1, TimesOrder
        <5>3. C <= B /\ C \in Nat
          BY <5>1, <5>2
        <5>4. T + R <= C + X - 1 /\ T \in Nat
          <6>1. a \in Nat
            OBVIOUS
          <6>2. T \in Nat
            BY <1>3, <1>9, <6>1, StretchIs
          <6> QED BY <2>1, <5>1, <6>2
        <5>5. T <= B + X - 1
          <6> HIDE DEF B, C, T
          <6> QED BY <1>1, <1>3, <4>3, <5>3, <5>4
        <5> QED BY <4>1, <5>5
      <4> QED BY <1>3, <4>4, <4>5
    <3> QED BY <1>9, <3>1, <3>2
  <2> QED BY <1>3, <1>9, <2>1, <2>2 DEF Within, F, R, X
<1>10. Within(c, next)
  BY <1>2, <1>5, <1>9
<1>11. Within(G, next)
  <2>1. \A a, b \in Nat : Stretch(G, a, b) = Stretch(c, a, b) \/ (F <= b /\ Stretch(G, a, b) = Stretch(c, a, b) + x)
    <3> SUFFICES ASSUME NEW a \in Nat, NEW b \in Nat
                 PROVE  Stretch(G, a, b) = Stretch(c, a, b) \/ (F <= b /\ Stretch(G, a, b) = Stretch(c, a, b) + x)
      OBVIOUS
    <3> DEFINE S == Stretch(c, a, b)
    <3>1. S \in Nat /\ Stretch(G, a, b) = S + IF a <= F /\ F <= b THEN x ELSE 0
      BY <1>4, <1>7
    <3> HIDE DEF S
    <3>2. Stretch(G, a, b) = S \/ (F <= b /\ Stretch(G, a, b) = S + x)
      BY <1>1, <3>1
    <3> QED BY <3>2 DEF S
  <2> QED BY <1>4, <1>6, <1>9, <2>1
<1> QED BY <1>10, <1>11 DEF next, F, G

\* The exit that a validator gets is the place that its queue has for it.
LEMMA ExitQueue ==
    ASSUME NEW s, StateOK(s), NEW i \in Indices(s)
    PROVE  LET t == initiate_validator_exit(s, i)
               v == s.validators[i]
           IN  \/ t.exits = s.exits /\ t.validators = s.validators
               \/ /\ t.exits = NextInQueue(s.exits, v.effective, get_current_epoch(s), get_activation_exit_churn_limit(s))
                  /\ v.exit = FAR_FUTURE_EPOCH /\ t.validators[i].exit = t.exits.epoch
                  /\ t.exits.epoch \in Nat
<1> DEFINE t == initiate_validator_exit(s, i)
           v == s.validators[i]
           q == NextInQueue(s.exits, v.effective, get_current_epoch(s), get_activation_exit_churn_limit(s))
           c == compute_exit_epoch_and_update_churn(s, v.effective)
           e == c.exits.epoch
<1>1. s \in StateType /\ v \in ValidatorType /\ s.validators \in Seq(ValidatorType) /\ i \in DOMAIN s.validators
  BY Fields DEF StateOK, Indices
<1>2. c = [s EXCEPT !.exits = q]
  BY DEF compute_exit_epoch_and_update_churn
<1>3. v.effective \in Int
  <2> HIDE DEF v
  <2> QED BY <1>1 DEF ValidatorType
<1>4. c.exits = q /\ c.validators = s.validators /\ e \in Nat
  <2>1. c.exits \in ChurnQueue /\ c \in StateType
    BY <1>3, ExitChurn
  <2> HIDE DEF c, q
  <2>2. c.exits = q /\ c.validators = s.validators
    BY <1>1, <1>2 DEF StateType
  <2> QED BY <2>1, <2>2 DEF ChurnQueue
<1>5. CASE v.exit # FAR_FUTURE_EPOCH
  BY <1>5 DEF initiate_validator_exit
<1>6. CASE v.exit = FAR_FUTURE_EPOCH /\ e + DELAY > FAR_FUTURE_EPOCH + 1
  <2>1. t = Failed(s)
    BY <1>6 DEF initiate_validator_exit, DELAY
  <2> QED BY <1>1, <2>1, FailedIs
<1>7. CASE v.exit = FAR_FUTURE_EPOCH /\ ~(e + DELAY > FAR_FUTURE_EPOCH + 1)
  <2>1. t = [c EXCEPT !.validators[i] = [@ EXCEPT !.exit = e, !.withdrawable = e + DELAY]]
    BY <1>7 DEF initiate_validator_exit, DELAY
  <2>2. c \in StateType
    BY <1>3, ExitChurn
  <2> DEFINE w == [v EXCEPT !.exit = e, !.withdrawable = e + DELAY]
  <2>3. w.exit = e
    <3> HIDE DEF v, e
    <3> QED BY <1>1 DEF ValidatorType
  <2> HIDE DEF c, t, q
  <2>4. t = [c EXCEPT !.validators = [s.validators EXCEPT ![i] = w]]
    BY <1>4, <2>1, <2>2
  <2> HIDE DEF w, e
  <2>5. t.exits = c.exits /\ t.validators = [s.validators EXCEPT ![i] = w]
    BY <2>2, <2>4 DEF StateType
  <2>6. t.validators[i] = w
    BY <1>1, <2>5
  <2> QED BY <1>4, <1>7, <2>3, <2>5, <2>6 DEF t, q, e
<1> QED BY <1>5, <1>6, <1>7

\* What the exits from s to t put into epochs are numbers.
LEMMA NewExitsIs ==
    ASSUME NEW s, StateOK(s), NEW T, T \subseteq Indices(s)
    PROVE  LET f == [i \in T |-> s.validators[i].effective]
           IN  Summable(f, DOMAIN f) /\ SumOf(f) \in Nat /\ (T = {} => SumOf(f) = 0)
<1> DEFINE f == [i \in T |-> s.validators[i].effective]
<1>1. IsFiniteSet(T)
  <2>1. Indices(s) = 1..Len(s.validators) /\ Len(s.validators) \in Nat
    BY Fields
  <2>2. IsFiniteSet(Indices(s))
    BY <2>1, FS_Interval
  <2> QED BY <2>2, FS_Subset
<1>2. \A i \in T : s.validators[i] \in ValidatorType
  BY Fields
<1>3. \A i \in T : s.validators[i].effective \in Nat
  BY <1>2 DEF ValidatorType
<1>4. DOMAIN f = T /\ \A i \in DOMAIN f : f[i] \in Nat
  BY <1>3
<1> HIDE DEF f
<1>5. Summable(f, DOMAIN f)
  BY <1>1, <1>4 DEF Summable
<1>6. SumOf(f) \in Nat /\ (DOMAIN f = {} => SumOf(f) = 0)
  BY <1>5, SumOfIs
<1> QED BY <1>4, <1>5, <1>6 DEF f

\* WithExits depends on the exits only, and is churned when there are none.
LEMMA WithExitsSame ==
    ASSUME NEW s, StateOK(s), NEW t, NEW u, \A i \in Indices(s) : u.validators[i].exit = t.validators[i].exit
    PROVE  /\ WithExits(s, u) = WithExits(s, t)
           /\ (\A i \in Indices(s) : t.validators[i].exit = s.validators[i].exit) /\ Counts(churned) => WithExits(s, t) = churned
<1>1. NewExits(s, u) = NewExits(s, t)
  BY DEF NewExits
<1>2. \A i \in NewExits(s, t) : u.validators[i].exit = t.validators[i].exit
  BY DEF NewExits
<1>3. WithExits(s, u) = WithExits(s, t)
  <2> DEFINE N == NewExits(s, t)
             Own(w, e) == {i \in N : w.validators[i].exit = e}
             Added(w, e) == SumOf([i \in Own(w, e) |-> s.validators[i].effective])
             Before(e) == IF e \in DOMAIN churned THEN churned[e] ELSE 0
             Epochs(w) == {w.validators[i].exit : i \in N}
  <2>1. WithExits(s, t) = [e \in Epochs(t) \cup DOMAIN churned |-> Before(e) + Added(t, e)]
    BY DEF WithExits
  <2>2. WithExits(s, u) = [e \in Epochs(u) \cup DOMAIN churned |-> Before(e) + Added(u, e)]
    BY <1>1 DEF WithExits
  <2>3. Epochs(u) = Epochs(t) /\ \A e : Own(u, e) = Own(t, e)
    BY <1>2
  <2>4. \A e : Added(u, e) = Added(t, e)
    <3> HIDE DEF Own
    <3> QED BY <2>3
  <2> HIDE DEF Epochs, Added, Before
  <2> QED BY <2>1, <2>2, <2>3, <2>4
<1>4. ASSUME \A i \in Indices(s) : t.validators[i].exit = s.validators[i].exit, Counts(churned)
      PROVE  WithExits(s, t) = churned
  <2> DEFINE Own(e) == {i \in NewExits(s, t) : t.validators[i].exit = e}
             Added(e) == SumOf([i \in Own(e) |-> s.validators[i].effective])
             Before(e) == IF e \in DOMAIN churned THEN churned[e] ELSE 0
  <2>1. NewExits(s, t) = {}
    BY <1>4 DEF NewExits
  <2>2. WithExits(s, t) = [e \in DOMAIN churned |-> Before(e) + Added(e)]
    BY <2>1 DEF WithExits
  <2>3. \A e : Own(e) = {}
    BY <2>1
  <2>4. \A e : Added(e) = 0
    <3> HIDE DEF Own
    <3> QED BY <2>3, NewExitsIs
  <2>5. \A e \in DOMAIN churned : churned[e] \in Nat /\ Before(e) = churned[e]
    BY <1>4 DEF Counts
  <2> HIDE DEF Added, Before
  <2>6. \A e \in DOMAIN churned : Before(e) + Added(e) = churned[e]
    BY <2>4, <2>5
  <2>7. churned = [e \in DOMAIN churned |-> churned[e]]
    BY <1>4 DEF Counts
  <2> QED BY <2>2, <2>6, <2>7
<1> QED BY <1>3, <1>4

\* One exit more.
LEMMA WithExitsMore ==
    ASSUME NEW s, StateOK(s), NEW t, NEW u, NEW i \in Indices(s), Counts(churned),
           \A j \in Indices(s) \ {i} : u.validators[j].exit = t.validators[j].exit,
           s.validators[i].exit = FAR_FUTURE_EPOCH, t.validators[i].exit = FAR_FUTURE_EPOCH,
           u.validators[i].exit # FAR_FUTURE_EPOCH
    PROVE  WithExits(s, u) = Gains(WithExits(s, t), u.validators[i].exit, s.validators[i].effective)
<1> DEFINE N == NewExits(s, t)
           E == u.validators[i].exit
           x == s.validators[i].effective
           A(e) == {j \in N : t.validators[j].exit = e}
           B(e) == {j \in NewExits(s, u) : u.validators[j].exit = e}
           f(e) == [j \in A(e) |-> s.validators[j].effective]
           g(e) == [j \in B(e) |-> s.validators[j].effective]
           Before(e) == IF e \in DOMAIN churned THEN churned[e] ELSE 0
           c == WithExits(s, t)
           D == {t.validators[j].exit : j \in N} \cup DOMAIN churned
<1>1. N \subseteq Indices(s) /\ i \notin N /\ NewExits(s, u) = N \cup {i}
  BY DEF NewExits
<1>2. c = [e \in D |-> Before(e) + SumOf(f(e))]
  BY DEF WithExits
<1>3. \A j \in N : u.validators[j].exit = t.validators[j].exit
  BY <1>1
<1>4. WithExits(s, u) = [e \in D \cup {E} |-> Before(e) + SumOf(g(e))]
  <2>1. {u.validators[j].exit : j \in NewExits(s, u)} \cup DOMAIN churned = D \cup {E}
    BY <1>1, <1>3
  <2>2. WithExits(s, u) = [e \in {u.validators[j].exit : j \in NewExits(s, u)} \cup DOMAIN churned |-> Before(e) + SumOf(g(e))]
    BY DEF WithExits
  <2> HIDE DEF D, Before, g
  <2> QED BY <2>1, <2>2
<1>5. \A e : A(e) \subseteq Indices(s) /\ B(e) = A(e) \cup (IF e = E THEN {i} ELSE {}) /\ i \notin A(e) /\ (e \notin D => A(e) = {})
  BY <1>1, <1>3
<1>6. \A e : Summable(f(e), DOMAIN f(e)) /\ SumOf(f(e)) \in Nat /\ (A(e) = {} => SumOf(f(e)) = 0)
  <2> HIDE DEF A
  <2> QED BY <1>5, NewExitsIs
<1>7. \A e : Before(e) \in Nat /\ (e \notin D => Before(e) = 0)
  BY DEF Counts
<1>8. x \in Nat
  <2>1. s.validators[i] \in ValidatorType
    BY Fields
  <2> QED BY <2>1 DEF ValidatorType
<1>9. \A e : SumOf(g(e)) = SumOf(f(e)) + (IF e = E THEN x ELSE 0)
  <2> SUFFICES ASSUME NEW e PROVE SumOf(g(e)) = SumOf(f(e)) + (IF e = E THEN x ELSE 0)
    OBVIOUS
  <2>1. CASE e # E
    <3>1. B(e) = A(e)
      <4> HIDE DEF A, B, E
      <4> QED BY <1>5, <2>1
    <3>2. g(e) = f(e)
      <4> HIDE DEF A, B
      <4> QED BY <3>1
    <3>3. SumOf(f(e)) \in Nat
      BY <1>6
    <3> HIDE DEF f, g, E, x
    <3> QED BY <2>1, <3>2, <3>3
  <2>2. CASE e = E
    <3> DEFINE a == f(e)
               b == g(e)
    <3>1. B(e) = A(e) \cup {i} /\ i \notin A(e)
      BY <1>5, <2>2
    <3>2. DOMAIN a = A(e) /\ DOMAIN b = A(e) \cup {i} /\ b[i] = x /\ \A y \in A(e) : b[y] = a[y]
      <4> HIDE DEF A, B
      <4> QED BY <3>1
    <3>3. Summable(a, DOMAIN a)
      BY <1>6
    <3> HIDE DEF a, b, A
    <3>4. i \notin DOMAIN a /\ b[i] \in Nat /\ DOMAIN b = DOMAIN a \cup {i} /\ \A y \in DOMAIN a : b[y] = a[y]
      BY <1>8, <3>1, <3>2
    <3>5. SumOf(b) = SumOf(a) + b[i]
      BY <3>3, <3>4, SumMore
    <3>6. SumOf(b) = SumOf(a) + x
      BY <3>2, <3>5
    <3> QED BY <2>2, <3>6 DEF a, b
  <2> QED BY <2>1, <2>2
<1> DEFINE P(e) == SumOf(f(e))
           Q(e) == SumOf(g(e))
<1>10. /\ c = [e \in D |-> Before(e) + P(e)] /\ WithExits(s, u) = [e \in D \cup {E} |-> Before(e) + Q(e)]
       /\ \A e : P(e) \in Nat /\ Q(e) = P(e) + (IF e = E THEN x ELSE 0) /\ (e \notin D => P(e) = 0)
  <2> HIDE DEF f, g, A, B, c, D, E, x, Before
  <2> QED BY <1>2, <1>4, <1>5, <1>6, <1>9
<1> HIDE DEF P, Q, Before, D, c, E, x
<1>11. DOMAIN c = D /\ \A e \in D : c[e] = Before(e) + P(e)
  BY <1>10
<1>12. Gains(c, E, x) = [e \in D \cup {E} |-> (IF e \in D THEN c[e] ELSE 0) + (IF e = E THEN x ELSE 0)]
  BY <1>11 DEF Gains
<1>13. \A e \in D \cup {E} : Before(e) + Q(e) = (IF e \in D THEN c[e] ELSE 0) + (IF e = E THEN x ELSE 0)
  BY <1>7, <1>8, <1>10, <1>11
<1>14. WithExits(s, u) = Gains(c, E, x)
  BY <1>10, <1>12, <1>13
<1> QED BY <1>14 DEF c, E, x

\* Whatever left s for t left within the churn, if what had left before s did.
Churns(s, t) == Within(churned, s.exits) => Within(WithExits(s, t), t.exits)

\* Nobody left.
LEMMA ChurnsNothing ==
    ASSUME NEW s, StateOK(s)
    PROVE  Churns(s, s)
  BY WithExitsSame DEF Churns, Within

\* Nobody left after t.
LEMMA ChurnsSame ==
    ASSUME NEW s, StateOK(s), NEW t, NEW u, Churns(s, t), u.exits = t.exits,
           \A i \in Indices(s) : u.validators[i].exit = t.validators[i].exit
    PROVE  Churns(s, u)
  BY WithExitsSame DEF Churns

\* One more exit.
LEMMA ExitChurns ==
    ASSUME NEW s, NEW t, StateOK(s), StateOK(t), Indices(t) = Indices(s), NEW i \in Indices(s), Churns(s, t),
           t.validators[i].exit = FAR_FUTURE_EPOCH => s.validators[i].exit = FAR_FUTURE_EPOCH,
           t.validators[i].effective = s.validators[i].effective
    PROVE  Churns(s, initiate_validator_exit(t, i))
<1> DEFINE u == initiate_validator_exit(t, i)
           x == t.validators[i].effective
           per == get_activation_exit_churn_limit(t)
           now == get_current_epoch(t)
           c == WithExits(s, t)
           q == NextInQueue(t.exits, x, now, per)
<1> SUFFICES ASSUME Within(churned, s.exits) PROVE Within(WithExits(s, u), u.exits)
  BY DEF Churns
<1>1. Within(c, t.exits) /\ Counts(churned)
  BY DEF Churns, Within
<1>2. \A j \in Indices(s) \ {i} : u.validators[j] = t.validators[j]
  BY ExitAlike
<1>3. \/ u.exits = t.exits /\ u.validators = t.validators
      \/ /\ u.exits = q /\ t.validators[i].exit = FAR_FUTURE_EPOCH /\ u.validators[i].exit = u.exits.epoch
         /\ u.exits.epoch \in Nat
  BY ExitQueue
<1>4. x \in 0..LargestExit
  <2>1. t.validators[i] \in ValidatorType
    BY Fields
  <2>2. x \in 0..MAX_EFFECTIVE_BALANCE_ELECTRA
    BY <2>1 DEF ValidatorType
  <2> HIDE DEF x
  <2> QED BY <2>2, ChurnConstants, ChainSpecAssumption
<1>5. now \in Nat /\ per \in 1..LIMIT
  <2>1. now \in Nat /\ per \in Nat \ {0} /\ per <= LIMIT
    BY Fields, ChurnPositive DEF LIMIT
  <2> HIDE DEF per
  <2> QED BY <2>1, ChurnConstants
<1> HIDE DEF u, per, now, c, x
<1>6. CASE u.exits = t.exits /\ u.validators = t.validators
  BY <1>1, <1>6, WithExitsSame DEF c
<1>7. CASE /\ u.exits = q /\ t.validators[i].exit = FAR_FUTURE_EPOCH /\ u.validators[i].exit = u.exits.epoch
           /\ u.exits.epoch \in Nat
  <2>1. Within(Gains(c, q.epoch, x), q) /\ Within(c, q)
    BY <1>1, <1>4, <1>5, WithinNext
  <2> HIDE DEF q
  <2>2. CASE u.validators[i].exit = FAR_FUTURE_EPOCH
    <3>1. \A j \in Indices(s) : u.validators[j].exit = t.validators[j].exit
      BY <1>2, <1>7, <2>2
    <3>2. WithExits(s, u) = c
      BY <3>1, WithExitsSame DEF c
    <3> QED BY <1>7, <2>1, <3>2
  <2>3. CASE u.validators[i].exit # FAR_FUTURE_EPOCH
    <3>1. WithExits(s, u) = Gains(c, u.validators[i].exit, s.validators[i].effective)
      BY <1>1, <1>2, <1>7, <2>3, WithExitsMore DEF c
    <3>2. x = s.validators[i].effective /\ u.validators[i].exit = q.epoch
      BY <1>7 DEF x
    <3> QED BY <1>7, <2>1, <3>1, <3>2
  <2> QED BY <2>2, <2>3
<1> QED BY <1>3, <1>6, <1>7
-----------------------------------------------------------------------------
(* Steps of a block that go together; balances and slashings.               *)

\* A good state goes on to another one of the same block.
Step(s, t) == Good(t) /\ Follows(s, t) /\ Stable(s, t)

\* Such steps go together.
LEMMA StepTwice ==
    ASSUME NEW s, NEW t, NEW u, Good(s), Step(s, t), Step(t, u)
    PROVE  Step(s, u)
  BY FollowsTwice DEF Step, Good

\* So do states that are alike.
LEMMA NearTwice ==
    ASSUME NEW s, NEW t, NEW u, Near(s, t), Near(t, u)
    PROVE  Near(s, u)
  BY DEF Near

\* All the more when the deposits are the same.
LEMMA AlikeTwice ==
    ASSUME NEW s, NEW t, NEW u, Alike(s, t), Alike(t, u)
    PROVE  Alike(s, u)
  BY DEF Alike, Near

\* New balances, one for each validator, change nothing else.
LEMMA BalancesSet ==
    ASSUME NEW s, Good(s), NEW b \in Seq(Nat), Len(b) = Len(s.balances)
    PROVE  LET t == [s EXCEPT !.balances = b]
           IN  /\ Step(s, t) /\ Alike(s, t) /\ t.balances = b /\ t.validators = s.validators
               /\ t.exits = s.exits /\ t.failed = s.failed
<1> DEFINE t == [s EXCEPT !.balances = b]
<1>1. StateOK(s) /\ s \in StateType
  BY DEF Good, StateOK
<1>2. /\ t \in StateType /\ t.validators = s.validators /\ t.balances = b /\ t.failed = s.failed
      /\ t.slot = s.slot /\ t.finalized = s.finalized /\ t.consolidating = s.consolidating
      /\ t.partials = s.partials /\ t.consolidations = s.consolidations /\ t.exits = s.exits
  BY <1>1 DEF StateType
<1>3. s.exits.epoch \in Nat /\ s.consolidating.epoch \in Nat
  BY <1>1, Fields DEF ChurnQueue
<1> HIDE DEF t
<1>4. s.exits.epoch <= t.exits.epoch /\ s.consolidating.epoch <= t.consolidating.epoch
  BY <1>2, <1>3
<1>5. Good(t) /\ Follows(s, t) /\ Stable(s, t)
  BY <1>2, <1>4, ValidatorsSame
<1> QED BY <1>2, <1>5 DEF Step, Alike, Near, t

\* A balance that goes up, and one that goes down, not below zero.
LEMMA BalanceMoved ==
    ASSUME NEW s, Good(s), NEW i \in Indices(s), NEW d \in Nat
    PROVE  /\ Step(s, increase_balance(s, i, d)) /\ Alike(s, increase_balance(s, i, d))
           /\ increase_balance(s, i, d).validators = s.validators /\ increase_balance(s, i, d).failed = s.failed
           /\ increase_balance(s, i, d).exits = s.exits
           /\ Step(s, decrease_balance(s, i, d)) /\ Alike(s, decrease_balance(s, i, d))
           /\ decrease_balance(s, i, d).validators = s.validators /\ decrease_balance(s, i, d).failed = s.failed
           /\ decrease_balance(s, i, d).exits = s.exits
<1>1. s \in StateType /\ s.balances \in Seq(Nat) /\ i \in DOMAIN s.balances /\ s.balances[i] \in Nat
  BY Fields DEF Good, StateOK
<1> DEFINE up == [s.balances EXCEPT ![i] = s.balances[i] + d]
           down == [s.balances EXCEPT ![i] = Larger(s.balances[i] - d, 0)]
<1>2. s.balances[i] + d \in Nat /\ Larger(s.balances[i] - d, 0) \in Nat
  BY <1>1, LargerIs
<1>3. up \in Seq(Nat) /\ Len(up) = Len(s.balances) /\ down \in Seq(Nat) /\ Len(down) = Len(s.balances)
  BY <1>1, <1>2, SMTT(30)
<1>4. increase_balance(s, i, d) = [s EXCEPT !.balances = up] /\ decrease_balance(s, i, d) = [s EXCEPT !.balances = down]
  BY <1>1 DEF increase_balance, decrease_balance, StateType
<1> HIDE DEF up, down
<1> QED BY <1>3, <1>4, BalancesSet

\* What moves between two sides of an equation.
LEMMA Cancel ==
    \A x, y, z, d \in Nat : /\ x + z = y + (z + d) => x = y + d
                            /\ d <= z /\ x + z = y + (z - d) => x + d = y
  OBVIOUS

\* The total goes up with it.
LEMMA BalanceUp ==
    ASSUME NEW s, Good(s), NEW i \in Indices(s), NEW d \in Nat
    PROVE  Total(increase_balance(s, i, d).balances) = Total(s.balances) + d
<1>1. s \in StateType /\ s.balances \in Seq(Nat) /\ i \in DOMAIN s.balances /\ s.balances[i] \in Nat
  BY Fields DEF Good, StateOK
<1> DEFINE up == [s.balances EXCEPT ![i] = s.balances[i] + d]
           x == Total(up)
           y == Total(s.balances)
           z == s.balances[i]
<1>2. s.balances[i] + d \in Nat
  BY <1>1
<1>3. up \in Seq(Nat)
  BY <1>1, <1>2, SMTT(30)
<1>4. increase_balance(s, i, d).balances = up
  BY <1>1 DEF increase_balance, StateType
<1>5. /\ Total(s.balances) \in Nat
      /\ \A v \in Nat : Total([s.balances EXCEPT ![i] = v]) + s.balances[i] = Total(s.balances) + v
  BY <1>1, TotalIs
<1>6. x \in Nat
  BY <1>3, TotalIs
<1>7. y \in Nat /\ z \in Nat /\ x + z = y + (z + d)
  BY <1>1, <1>2, <1>5
<1> HIDE DEF x, y, z
<1>8. x = y + d
  BY <1>6, <1>7, Cancel
<1> QED BY <1>4, <1>8 DEF x, y

\* The total goes down with it.
LEMMA BalanceDown ==
    ASSUME NEW s, Good(s), NEW i \in Indices(s), NEW d \in Nat
    PROVE  /\ decrease_balance(s, i, d).balances = [s.balances EXCEPT ![i] = Larger(s.balances[i] - d, 0)]
           /\ d <= s.balances[i] => Total(decrease_balance(s, i, d).balances) + d = Total(s.balances)
<1>1. s \in StateType /\ s.balances \in Seq(Nat) /\ i \in DOMAIN s.balances /\ s.balances[i] \in Nat
  BY Fields DEF Good, StateOK
<1> DEFINE down == [s.balances EXCEPT ![i] = Larger(s.balances[i] - d, 0)]
           x == Total(down)
           y == Total(s.balances)
           z == s.balances[i]
<1>2. Larger(s.balances[i] - d, 0) \in Nat
  BY <1>1, LargerIs
<1>3. down \in Seq(Nat)
  BY <1>1, <1>2, SMTT(30)
<1>4. decrease_balance(s, i, d).balances = down
  BY <1>1 DEF decrease_balance, StateType
<1>5. /\ Total(s.balances) \in Nat
      /\ \A v \in Nat : Total([s.balances EXCEPT ![i] = v]) + s.balances[i] = Total(s.balances) + v
  BY <1>1, TotalIs
<1>6. x \in Nat
  BY <1>3, TotalIs
<1>7. ASSUME d <= s.balances[i] PROVE x + d = y
  <2>1. Larger(s.balances[i] - d, 0) = s.balances[i] - d
    <3>1. s.balances[i] - d \in Nat
      BY <1>1, <1>7
    <3> QED BY <3>1, LargerIs
  <2>2. y \in Nat /\ z \in Nat /\ d <= z /\ x + z = y + (z - d)
    BY <1>1, <1>2, <1>5, <1>7, <2>1
  <2> HIDE DEF x, y, z
  <2> QED BY <1>6, <2>2, Cancel
<1> QED BY <1>4, <1>7

\* add_slashing/2, of a validator that is leaving.
LEMMA AddSlashing ==
    ASSUME NEW s, Good(s), NEW i \in Indices(s), ~s.validators[i].slashed,
           Delayed => s.validators[i].exit # FAR_FUTURE_EPOCH
    PROVE  /\ Step(s, add_slashing(s, i)) /\ Alike(s, add_slashing(s, i)) /\ add_slashing(s, i).exits = s.exits
           /\ \A j \in Indices(s) : add_slashing(s, i).validators[j].exit = s.validators[j].exit
<1> DEFINE t == add_slashing(s, i)
           v == s.validators[i]
           epoch == get_current_epoch(s)
           w == [v EXCEPT !.slashed = TRUE, !.withdrawable = Larger(v.withdrawable, epoch + EPOCHS_PER_SLASHINGS_VECTOR)]
           k == epoch % EPOCHS_PER_SLASHINGS_VECTOR
           D == 0..(EPOCHS_PER_SLASHINGS_VECTOR - 1)
           g == [s.slashings EXCEPT ![k] = s.slashings[k] + v.effective]
<1>1. StateOK(s) /\ s \in StateType /\ i \in DOMAIN s.validators /\ s.validators \in Seq(ValidatorType)
  BY Fields DEF Good, StateOK, Indices
<1>2. /\ v \in ValidatorType /\ epoch \in Nat /\ s.consolidating.epoch \in Nat /\ s.exits.epoch \in Nat
      /\ v.withdrawable \in Nat /\ v.effective \in Nat /\ v.exit \in Nat
  <2>1. v \in ValidatorType /\ epoch \in Nat /\ s.consolidating.epoch \in Nat /\ s.exits.epoch \in Nat
    BY <1>1, Fields DEF ChurnQueue
  <2> HIDE DEF v
  <2> QED BY <2>1 DEF ValidatorType
<1>3. k \in D /\ s.slashings \in [D -> Nat]
  <2>1. s.slashings \in [D -> Nat]
    BY <1>1 DEF StateType
  <2> HIDE DEF epoch
  <2> QED BY <1>2, <2>1, Delays
<1>4. t = [s EXCEPT !.slashings = g, !.validators = [s.validators EXCEPT ![i] = w]]
  <2>1. t = [s EXCEPT !.slashings[k] = @ + v.effective, !.validators[i] = w]
    BY DEF add_slashing
  <2> HIDE DEF t, w
  <2> QED BY <1>1, <2>1 DEF StateType
<1> HIDE DEF t, v, epoch, k, D
<1>5. g \in [D -> Nat]
  <2>1. s.slashings[k] \in Nat
    BY <1>3
  <2>2. s.slashings[k] + v.effective \in Nat
    BY <1>2, <2>1
  <2> QED BY <1>3, <2>2
<1>6. /\ Larger(v.withdrawable, epoch + EPOCHS_PER_SLASHINGS_VECTOR) \in Nat
      /\ Larger(v.withdrawable, epoch + EPOCHS_PER_SLASHINGS_VECTOR) >= v.withdrawable
      /\ Larger(v.withdrawable, epoch + EPOCHS_PER_SLASHINGS_VECTOR) >= epoch + EPOCHS_PER_SLASHINGS_VECTOR
  BY <1>2, Delays, LargerIs
<1>7. /\ w \in ValidatorType /\ w.slashed /\ w.activation = v.activation /\ w.eligibility = v.eligibility /\ w.exit = v.exit
      /\ w.effective = v.effective /\ w.withdrawable >= v.withdrawable /\ w.withdrawable \in Nat
      /\ w.withdrawable >= epoch + EPOCHS_PER_SLASHINGS_VECTOR
  BY <1>2, <1>6 DEF ValidatorType
<1> HIDE DEF g, w
<1>8. /\ t.validators = [s.validators EXCEPT ![i] = w] /\ t.balances = s.balances /\ t.exits = s.exits
      /\ t.slot = s.slot /\ t.finalized = s.finalized /\ t.consolidating = s.consolidating
      /\ t.partials = s.partials /\ t.consolidations = s.consolidations /\ t.deposits = s.deposits
  BY <1>1, <1>4 DEF StateType
<1>9. t \in StateType
  <2>1. [s.validators EXCEPT ![i] = w] \in Seq(ValidatorType)
    BY <1>1, <1>7
  <2> QED BY <1>1, <1>4, <1>5, <2>1 DEF StateType, D
<1>10. ~v.slashed /\ (Delayed => v.exit # FAR_FUTURE_EPOCH) /\ Life(v, s.consolidating.epoch)
  BY DEF v, Good
<1>11. Kept(v, w, epoch)
  BY <1>7, <1>10 DEF Kept
<1>12. SameNow(v, w, epoch)
  BY <1>7 DEF SameNow
<1>13. Life(w, t.consolidating.epoch)
  <2>1. w.exit # FAR_FUTURE_EPOCH => w.activation < w.exit /\ w.exit + DELAY <= w.withdrawable
    BY <1>2, <1>7, <1>10, Delays DEF Life
  <2> QED BY <1>7, <1>10, <2>1 DEF Life
<1>14. s.exits.epoch <= t.exits.epoch /\ s.consolidating.epoch <= t.consolidating.epoch
  BY <1>2, <1>8
<1>15. Good(t) /\ Follows(s, t) /\ Stable(s, t)
  BY <1>7, <1>8, <1>9, <1>11, <1>12, <1>13, <1>14, OneValidator DEF v, epoch
<1>16. Len(t.validators) = Len(s.validators)
  BY <1>1, <1>8
<1>17. \A j \in Indices(s) : t.validators[j].exit = s.validators[j].exit
  BY <1>1, <1>7, <1>8 DEF Indices, v
<1> QED BY <1>8, <1>9, <1>15, <1>16, <1>17 DEF Step, Alike, Near, t

\* slash_validator/3, of a validator that may be slashed.
LEMMA SlashGood ==
    ASSUME NEW s, Good(s), NEW i \in Indices(s), NEW p \in Indices(s),
           slashable_validator(s.validators[i], get_current_epoch(s))
    PROVE  LET u == initiate_validator_exit(s, i)
               t == slash_validator(s, i, p)
           IN  /\ Step(s, t) /\ Alike(s, t)
               /\ \/ t = Failed(s)
                  \/ t.exits = u.exits /\ \A j \in Indices(s) : t.validators[j].exit = u.validators[j].exit
<1> DEFINE u == initiate_validator_exit(s, i)
           t == add_slashing(u, i)
           penalty == s.validators[i].effective \div MIN_SLASHING_PENALTY_QUOTIENT
           reward == s.validators[i].effective \div WHISTLEBLOWER_REWARD_QUOTIENT
           d == decrease_balance(t, i, penalty)
<1>1. StateOK(s) /\ s \in StateType /\ s.exits.epoch \in Nat /\ s.consolidating.epoch \in Nat
  BY Fields DEF Good, StateOK, ChurnQueue
<1>2. /\ Step(s, u) /\ u.validators[i].slashed = s.validators[i].slashed
      /\ Delayed /\ ~u.failed => u.validators[i].exit # FAR_FUTURE_EPOCH
  BY ExitGood DEF Step, slashable_validator
<1>3. Alike(s, u) /\ Indices(u) = Indices(s)
  BY <1>1, ExitAlike, AlikeOK
<1>4. penalty \in Nat /\ reward \in Nat
  <2>1. s.validators[i].effective \in Nat
    BY <1>1, Fields DEF ValidatorType
  <2> QED BY <2>1, DivBounds, ChainSpecAssumption
<1>5. ~s.validators[i].slashed
  BY DEF slashable_validator
<1> HIDE DEF u, t, d, penalty, reward
<1>6. CASE u.failed
  <2>1. slash_validator(s, i, p) = Failed(s)
    BY <1>6 DEF slash_validator, u
  <2>2. Alike(s, Failed(s)) /\ Failed(s).validators = s.validators /\ Failed(s).exits = s.exits
    BY <1>1, FailedIs DEF Alike, Near
  <2>3. s.exits.epoch <= Failed(s).exits.epoch /\ s.consolidating.epoch <= Failed(s).consolidating.epoch
    BY <1>1, <2>2 DEF Alike, Near
  <2>4. Step(s, Failed(s))
    BY <2>2, <2>3, ValidatorsSame DEF Alike, Near, Step
  <2> QED BY <2>1, <2>2, <2>4
<1>7. CASE ~u.failed
  <2>1. slash_validator(s, i, p) = increase_balance(d, p, reward)
    BY <1>7 DEF slash_validator, u, t, d, penalty, reward
  <2>2. Step(u, t) /\ Alike(u, t) /\ t.exits = u.exits /\ \A j \in Indices(s) : t.validators[j].exit = u.validators[j].exit
    BY <1>2, <1>3, <1>5, <1>7, AddSlashing DEF Step, t
  <2>3. StateOK(u) /\ StateOK(t) /\ Good(u) /\ Good(t)
    BY <1>2, <2>2 DEF Step, Good
  <2>4. Indices(t) = Indices(s)
    BY <1>3, <2>2, <2>3, AlikeOK
  <2>5. Step(t, d) /\ Alike(t, d) /\ d.validators = t.validators /\ d.exits = t.exits
    BY <1>4, <2>3, <2>4, BalanceMoved DEF d
  <2>6. Good(d) /\ Indices(d) = Indices(s)
    BY <2>3, <2>4, <2>5, AlikeOK DEF Step
  <2> DEFINE z == increase_balance(d, p, reward)
  <2>7. Step(d, z) /\ Alike(d, z) /\ z.validators = d.validators /\ z.exits = d.exits
    BY <1>4, <2>6, BalanceMoved
  <2> HIDE DEF z
  <2>8. Step(s, t) /\ Alike(s, t)
    BY <1>2, <1>3, <2>2, StepTwice, AlikeTwice
  <2>9. Step(s, d) /\ Alike(s, d)
    BY <2>3, <2>5, <2>8, StepTwice, AlikeTwice
  <2>10. Step(s, z) /\ Alike(s, z)
    BY <2>6, <2>7, <2>9, StepTwice, AlikeTwice
  <2>11. z.exits = u.exits /\ \A j \in Indices(s) : z.validators[j].exit = u.validators[j].exit
    BY <2>2, <2>5, <2>7
  <2> QED BY <2>1, <2>10, <2>11 DEF z, u
<1> QED BY <1>6, <1>7

\* A slashing after those that led from s to t.
LEMMA SlashChurns ==
    ASSUME NEW s, Good(s), NEW t, Step(s, t), Alike(s, t), Churns(s, t), NEW i \in Indices(s), NEW p \in Indices(s),
           slashable_validator(t.validators[i], get_current_epoch(t))
    PROVE  Churns(s, slash_validator(t, i, p))
<1> DEFINE u == initiate_validator_exit(t, i)
           z == slash_validator(t, i, p)
<1>1. StateOK(s) /\ StateOK(t) /\ Good(t) /\ Indices(t) = Indices(s) /\ t \in StateType
  BY AlikeOK DEF Good, Step, StateOK
<1>2. /\ t.validators[i].exit = FAR_FUTURE_EPOCH => s.validators[i].exit = FAR_FUTURE_EPOCH
      /\ t.validators[i].effective = s.validators[i].effective
  BY DEF Step, Follows, Stable, Kept, SameNow
<1>3. Churns(s, u)
  BY <1>1, <1>2, ExitChurns
<1>4. z = Failed(t) \/ (z.exits = u.exits /\ \A j \in Indices(s) : z.validators[j].exit = u.validators[j].exit)
  BY <1>1, SlashGood
<1> HIDE DEF u, z
<1>5. CASE z = Failed(t)
  BY <1>1, <1>5, FailedIs, ChurnsSame DEF z
<1>6. CASE z.exits = u.exits /\ \A j \in Indices(s) : z.validators[j].exit = u.validators[j].exit
  BY <1>1, <1>3, <1>6, ChurnsSame DEF z
<1> QED BY <1>4, <1>5, <1>6
-----------------------------------------------------------------------------
(* The operations of a block.                                               *)

\* slash_validators/3: each of the validators that may be slashed is.
LEMMA SlashAllGood ==
    ASSUME NEW s, Good(s), NEW S, NEW p \in Indices(s)
    PROVE  LET t == slash_validators(s, S, p)
           IN  Step(s, t) /\ Alike(s, t) /\ Churns(s, t)
<1> DEFINE n == Len(s.validators)
           Op(t, i) == IF ~t.failed /\ i \in S /\ slashable_validator(t.validators[i], get_current_epoch(s))
                       THEN slash_validator(t, i, p) ELSE t
           id == [i \in DOMAIN s.validators |-> i]
           it == CHOOSE h : h = [x \in SUBSET (DOMAIN id) |->
                                    IF x = {} THEN s ELSE Op(h[x \ {Max(x)}], id[Max(x)])]
           M == {t \in StateType : Step(s, t) /\ Alike(s, t) /\ Churns(s, t)}
           g == [q \in (1..n) \X M |-> Op(q[2], q[1])]
<1>1. slash_validators(s, S, p) = it[DOMAIN id]
  BY DEF slash_validators, FoldLeftDomain, FoldLeft, MapThenFoldSet
<1>2. StateOK(s) /\ s \in StateType /\ n \in Nat /\ Indices(s) = 1..n
  BY Fields DEF Good, StateOK
<1>3. DOMAIN id = 1..n /\ \A k \in 1..n : id[k] = k
  BY <1>2 DEF Indices
<1> HIDE DEF id, n
<1>4. s \in M
  <2>1. s.exits.epoch <= s.exits.epoch /\ s.consolidating.epoch <= s.consolidating.epoch
    BY <1>2, Fields DEF ChurnQueue
  <2>2. Step(s, s)
    BY <1>2, <2>1, ValidatorsSame DEF Step
  <2>3. Churns(s, s)
    BY <1>2, ChurnsNothing
  <2> QED BY <1>2, <2>2, <2>3 DEF Alike, Near
<1>5. ASSUME NEW k \in 1..n, NEW t \in M PROVE Op(t, k) \in M
  <2>1. Good(t) /\ Step(s, t) /\ Alike(s, t) /\ Churns(s, t) /\ Indices(t) = Indices(s) /\ get_current_epoch(t) = get_current_epoch(s)
    BY <1>2, AlikeOK DEF Step, Alike, Near, get_current_epoch
  <2>2. CASE ~t.failed /\ k \in S /\ slashable_validator(t.validators[k], get_current_epoch(s))
    <3>1. Step(t, slash_validator(t, k, p)) /\ Alike(t, slash_validator(t, k, p))
      BY <1>2, <2>1, <2>2, SlashGood
    <3>2. Step(s, slash_validator(t, k, p)) /\ Alike(s, slash_validator(t, k, p))
      BY <2>1, <3>1, StepTwice, AlikeTwice
    <3>3. Churns(s, slash_validator(t, k, p))
      BY <1>2, <2>1, <2>2, SlashChurns
    <3> QED BY <2>2, <3>2, <3>3 DEF Alike, Near
  <2>3. CASE ~(~t.failed /\ k \in S /\ slashable_validator(t.validators[k], get_current_epoch(s)))
    BY <2>3
  <2> QED BY <2>2, <2>3
<1> HIDE DEF M, Op
<1>6. g \in [(1..n) \X M -> M] /\ \A k \in 1..n, t \in M : g[<<k, t>>] = Op(t, k)
  BY <1>5
<1> HIDE DEF g
<1>7. PICK run : IsRun(run, n, M, s, g)
  BY <1>2, <1>4, <1>6, RunExists
<1>8. \E h : h = [x \in SUBSET (1..n) |-> IF x = {} THEN s ELSE Op(h[x \ {Max(x)}], id[Max(x)])]
  <2>1. PICK h \in [SUBSET (1..n) -> M] : IsFoldOf(h, n, M, s, g)
    BY <1>2, <1>4, <1>6, RunExists
  <2>2. \A x \in SUBSET (1..n) : x # {} => h[x \ {Max(x)}] \in M /\ Max(x) \in 1..n
    BY <1>2, MaxChooses
  <2>3. \A x \in SUBSET (1..n) : x # {} => h[x] = Op(h[x \ {Max(x)}], id[Max(x)])
    BY <1>3, <1>6, <2>1, <2>2, ZenonT(40) DEF IsFoldOf
  <2> QED BY <2>1, <2>3 DEF IsFoldOf
<1>9. it = [x \in SUBSET (1..n) |-> IF x = {} THEN s ELSE Op(it[x \ {Max(x)}], id[Max(x)])]
  BY <1>3, <1>8
<1> HIDE DEF it
<1>10. IsFoldOf(it, n, M, s, g)
  <2>1. \A x \in SUBSET (1..n) : x # {} => Max(x) \in 1..n /\ it[x] = Op(it[x \ {Max(x)}], id[Max(x)])
    BY <1>2, <1>9, MaxChooses
  <2>2. it[{}] = s
    BY <1>9
  <2>3. \A x \in SUBSET (1..n) : x # {} /\ it[x \ {Max(x)}] \in M => it[x] = g[<<Max(x), it[x \ {Max(x)}]>>]
    <3> SUFFICES ASSUME NEW x \in SUBSET (1..n), x # {}, it[x \ {Max(x)}] \in M
                 PROVE  it[x] = g[<<Max(x), it[x \ {Max(x)}]>>]
      OBVIOUS
    <3>1. Max(x) \in 1..n /\ id[Max(x)] = Max(x) /\ it[x] = Op(it[x \ {Max(x)}], id[Max(x)])
      BY <1>3, <2>1
    <3> QED BY <1>6, <3>1
  <2> QED BY <2>2, <2>3 DEF IsFoldOf
<1>11. it[1..n] = run[n]
  BY <1>2, <1>7, <1>10, RunUnique
<1>12. run[n] \in M
  BY <1>2, <1>7 DEF IsRun
<1> QED BY <1>1, <1>3, <1>11, <1>12 DEF M

\* A change of withdrawal credentials.
LEMMA CredentialsSet ==
    ASSUME NEW s, Good(s), NEW i \in Indices(s), NEW c \in Credentials
    PROVE  LET t == [s EXCEPT !.validators[i].credentials = c]
           IN  /\ Step(s, t) /\ Alike(s, t) /\ t.balances = s.balances /\ t.deposits = s.deposits
               /\ t.failed = s.failed /\ t.exits = s.exits /\ t.validators[i].key = s.validators[i].key
<1> DEFINE t == [s EXCEPT !.validators[i].credentials = c]
           v == s.validators[i]
           w == [v EXCEPT !.credentials = c]
<1>1. StateOK(s) /\ s \in StateType /\ i \in DOMAIN s.validators /\ s.validators \in Seq(ValidatorType)
  BY Fields DEF Good, StateOK, Indices
<1>2. /\ v \in ValidatorType /\ s.consolidating.epoch \in Nat /\ s.exits.epoch \in Nat /\ get_current_epoch(s) \in Nat
  BY <1>1, Fields DEF ChurnQueue
<1>3. t = [s EXCEPT !.validators = [s.validators EXCEPT ![i] = w]]
  BY <1>1 DEF StateType
<1> HIDE DEF t, v
<1>4. /\ w \in ValidatorType /\ w.slashed = v.slashed /\ w.activation = v.activation /\ w.eligibility = v.eligibility
      /\ w.exit = v.exit /\ w.effective = v.effective /\ w.withdrawable = v.withdrawable /\ w.key = v.key
  BY <1>2 DEF ValidatorType
<1> HIDE DEF w
<1>5. /\ t.validators = [s.validators EXCEPT ![i] = w] /\ t.balances = s.balances /\ t.exits = s.exits
      /\ t.slot = s.slot /\ t.finalized = s.finalized /\ t.consolidating = s.consolidating
      /\ t.partials = s.partials /\ t.consolidations = s.consolidations /\ t.deposits = s.deposits /\ t.failed = s.failed
  BY <1>1, <1>3 DEF StateType
<1>6. [s.validators EXCEPT ![i] = w] \in Seq(ValidatorType)
  BY <1>1, <1>4
<1>7. t \in StateType /\ Len(t.validators) = Len(s.validators) /\ t.validators[i] = w
  <2>1. t \in StateType
    BY <1>1, <1>3, <1>6 DEF StateType
  <2> QED BY <1>1, <1>5, <2>1
<1>8. Kept(v, v, get_current_epoch(s)) /\ SameNow(v, v, get_current_epoch(s)) /\ Life(v, s.consolidating.epoch)
  BY <1>2, KeptSame DEF Good, v
<1>9. Kept(v, w, get_current_epoch(s)) /\ SameNow(v, w, get_current_epoch(s)) /\ Life(w, t.consolidating.epoch)
  BY <1>4, <1>5, <1>8 DEF Kept, SameNow, Life
<1>10. s.exits.epoch <= t.exits.epoch /\ s.consolidating.epoch <= t.consolidating.epoch
  BY <1>2, <1>5
<1>11. Step(s, t)
  BY <1>4, <1>5, <1>7, <1>9, <1>10, OneValidator DEF v, Step
<1> QED BY <1>4, <1>5, <1>7, <1>11 DEF Alike, Near, t, v

\* What an operation does that moves neither validators nor balances.
LEMMA RegistrySame ==
    ASSUME NEW s, Good(s), NEW t \in StateType, t.validators = s.validators, Len(t.balances) = Len(s.balances),
           t.slot = s.slot, t.finalized = s.finalized, t.exits = s.exits, t.consolidating = s.consolidating,
           t.partials = s.partials, t.consolidations = s.consolidations
    PROVE  Step(s, t) /\ Near(s, t)
<1>1. s.exits.epoch \in Nat /\ s.consolidating.epoch \in Nat
  BY Fields DEF Good, ChurnQueue
<1>2. s.exits.epoch <= t.exits.epoch /\ s.consolidating.epoch <= t.consolidating.epoch
  BY <1>1
<1> QED BY <1>2, ValidatorsSame DEF Step, Alike, Near

\* switch_to_compounding_validator/2 and the deposit it makes of the excess.
LEMMA SwitchGood ==
    ASSUME NEW s, Good(s), NEW i \in Indices(s)
    PROVE  Step(s, switch_to_compounding_validator(s, i)) /\ Near(s, switch_to_compounding_validator(s, i))
           /\ switch_to_compounding_validator(s, i).exits = s.exits
<1> DEFINE t == [s EXCEPT !.validators[i].credentials = "compounding"]
           d == [key |-> t.validators[i].key, credentials |-> t.validators[i].credentials,
                 amount |-> t.balances[i] - MIN_ACTIVATION_BALANCE, slot |-> 0, signed |-> FALSE]
           u == [t EXCEPT !.balances[i] = MIN_ACTIVATION_BALANCE, !.deposits = Append(@, d)]
<1>1. Step(s, t) /\ Near(s, t) /\ t.exits = s.exits
  BY CredentialsSet DEF Credentials, Alike
<1>2. StateOK(s)
  BY DEF Good
<1> HIDE DEF t
<1>3. Good(t) /\ StateOK(t) /\ t \in StateType /\ Indices(t) = Indices(s)
  BY <1>1, <1>2, NearOK DEF Step, Good, StateOK
<1>4. /\ t.validators[i] \in ValidatorType /\ t.balances[i] \in Nat /\ t.balances \in Seq(Nat)
      /\ i \in DOMAIN t.balances /\ t.deposits \in Seq(PendingDepositType) /\ MIN_ACTIVATION_BALANCE \in Nat
  BY <1>3, Fields, ChainSpecAssumption DEF StateType
<1>5. CASE t.balances[i] <= MIN_ACTIVATION_BALANCE
  BY <1>1, <1>5 DEF switch_to_compounding_validator, queue_excess_active_balance, t
<1>6. CASE ~(t.balances[i] <= MIN_ACTIVATION_BALANCE)
  <2>1. t.balances[i] - MIN_ACTIVATION_BALANCE \in Nat /\ t.validators[i].key \in Keys /\ t.validators[i].credentials \in Credentials
    BY <1>4, <1>6, SMTT(30) DEF ValidatorType
  <2>2. d \in PendingDepositType
    BY <2>1 DEF PendingDepositType
  <2>3. switch_to_compounding_validator(s, i) = u
    BY <1>6 DEF switch_to_compounding_validator, queue_excess_active_balance, t
  <2> HIDE DEF d
  <2>4. u = [t EXCEPT !.balances = [t.balances EXCEPT ![i] = MIN_ACTIVATION_BALANCE], !.deposits = Append(t.deposits, d)]
    BY <1>3 DEF StateType
  <2>5. /\ [t.balances EXCEPT ![i] = MIN_ACTIVATION_BALANCE] \in Seq(Nat)
        /\ Len([t.balances EXCEPT ![i] = MIN_ACTIVATION_BALANCE]) = Len(t.balances)
        /\ Append(t.deposits, d) \in Seq(PendingDepositType)
    BY <1>4, <2>2
  <2> HIDE DEF u
  <2>6. /\ u \in StateType /\ u.validators = t.validators /\ Len(u.balances) = Len(t.balances)
        /\ u.slot = t.slot /\ u.finalized = t.finalized /\ u.exits = t.exits /\ u.consolidating = t.consolidating
        /\ u.partials = t.partials /\ u.consolidations = t.consolidations
    BY <1>3, <2>4, <2>5 DEF StateType
  <2>7. Step(t, u) /\ Near(t, u)
    BY <1>3, <2>6, RegistrySame
  <2> QED BY <1>1, <1>3, <2>3, <2>6, <2>7, StepTwice, NearTwice
<1> QED BY <1>5, <1>6

\* A deposit's place in the queue of pending deposits.
LEMMA DepositQueued ==
    ASSUME NEW s, Good(s), NEW d \in PendingDepositType
    PROVE  LET t == [s EXCEPT !.deposits = Append(@, d)]
           IN  /\ Step(s, t) /\ Near(s, t) /\ t.failed = s.failed /\ t.exits = s.exits
               /\ t.balances = s.balances /\ t.deposits = Append(s.deposits, d)
<1> DEFINE t == [s EXCEPT !.deposits = Append(s.deposits, d)]
<1>1. s \in StateType
  BY DEF Good, StateOK
<1>2. Append(s.deposits, d) \in Seq(PendingDepositType)
  BY <1>1 DEF StateType
<1>3. /\ t \in StateType /\ t.validators = s.validators /\ t.balances = s.balances /\ t.failed = s.failed
      /\ t.slot = s.slot /\ t.finalized = s.finalized /\ t.exits = s.exits /\ t.consolidating = s.consolidating
      /\ t.partials = s.partials /\ t.consolidations = s.consolidations /\ t.deposits = Append(s.deposits, d)
  BY <1>1, <1>2 DEF StateType
<1> HIDE DEF t
<1>4. Step(s, t) /\ Near(s, t)
  BY <1>3, RegistrySame
<1> QED BY <1>3, <1>4 DEF t

\* An effective balance is a whole number of increments, up to the largest one.
LEMMA EffectiveIs ==
    ASSUME NEW amount \in Nat, NEW v
    PROVE  EffectiveOf(amount, v) \in 0..MAX_EFFECTIVE_BALANCE_ELECTRA
<1>1. /\ EFFECTIVE_BALANCE_INCREMENT \in Nat \ {0} /\ MAX_EFFECTIVE_BALANCE_ELECTRA \in Nat /\ MIN_ACTIVATION_BALANCE \in Nat
      /\ MIN_ACTIVATION_BALANCE <= MAX_EFFECTIVE_BALANCE_ELECTRA
  BY ChainSpecAssumption
<1>2. get_max_effective_balance(v) \in Nat /\ get_max_effective_balance(v) <= MAX_EFFECTIVE_BALANCE_ELECTRA
  BY <1>1 DEF get_max_effective_balance
<1>3. amount - (amount % EFFECTIVE_BALANCE_INCREMENT) \in Nat
  BY <1>1
<1> DEFINE x == amount - (amount % EFFECTIVE_BALANCE_INCREMENT)
           y == get_max_effective_balance(v)
<1>4. EffectiveOf(amount, v) = Smaller(x, y)
  BY DEF EffectiveOf
<1> HIDE DEF x, y
<1>5. Smaller(x, y) = IF x <= y THEN x ELSE y
  BY <1>2, <1>3, SmallerIs DEF x, y
<1> QED BY <1>1, <1>2, <1>3, <1>4, <1>5 DEF x, y

\* A validator that a deposit brings is new.
LEMMA AddGood ==
    ASSUME NEW s, Good(s), NEW key \in Keys, NEW credentials \in Credentials, NEW amount \in Nat
    PROVE  LET t == add_validator_to_registry(s, key, credentials, amount)
           IN  Step(s, t) /\ t.failed = s.failed /\ t.deposits = s.deposits /\ t.partials = s.partials
               /\ t.consolidations = s.consolidations /\ t.exits = s.exits
<1> DEFINE t == add_validator_to_registry(s, key, credentials, amount)
           v == [key |-> key, credentials |-> credentials, effective |-> 0, slashed |-> FALSE,
                 eligibility |-> FAR_FUTURE_EPOCH, activation |-> FAR_FUTURE_EPOCH,
                 exit |-> FAR_FUTURE_EPOCH, withdrawable |-> FAR_FUTURE_EPOCH]
           w == get_validator_from_deposit(key, credentials, amount)
<1>1. StateOK(s) /\ s \in StateType /\ s.validators \in Seq(ValidatorType) /\ s.balances \in Seq(Nat)
      /\ Len(s.balances) = Len(s.validators)
  BY Fields DEF Good, StateOK
<1>2. EffectiveOf(amount, v) \in 0..MAX_EFFECTIVE_BALANCE_ELECTRA /\ 0 \in 0..MAX_EFFECTIVE_BALANCE_ELECTRA
  BY EffectiveIs, ChainSpecAssumption
<1>3. w = [v EXCEPT !.effective = EffectiveOf(amount, v)]
  BY DEF get_validator_from_deposit
<1>4. v \in ValidatorType
  BY <1>2, Delays DEF ValidatorType
<1>5. /\ w \in ValidatorType /\ w.activation = FAR_FUTURE_EPOCH /\ w.exit = FAR_FUTURE_EPOCH
      /\ w.withdrawable = FAR_FUTURE_EPOCH /\ ~w.slashed
  <2> DEFINE e == EffectiveOf(amount, v)
  <2> HIDE DEF e, w
  <2> QED BY <1>2, <1>3, <1>4 DEF ValidatorType, e
<1>6. t = [s EXCEPT !.validators = Append(s.validators, w), !.balances = Append(s.balances, amount)]
  BY <1>1 DEF add_validator_to_registry, StateType
<1> HIDE DEF t, w
<1>7. Append(s.validators, w) \in Seq(ValidatorType) /\ Append(s.balances, amount) \in Seq(Nat)
      /\ Len(Append(s.balances, amount)) = Len(Append(s.validators, w))
  BY <1>1, <1>5
<1>8. /\ t \in StateType /\ t.validators = Append(s.validators, w) /\ t.balances = Append(s.balances, amount)
      /\ t.slot = s.slot /\ t.finalized = s.finalized /\ t.exits = s.exits /\ t.consolidating = s.consolidating
      /\ t.partials = s.partials /\ t.consolidations = s.consolidations /\ t.failed = s.failed /\ t.deposits = s.deposits
  BY <1>1, <1>6, <1>7 DEF StateType
<1>9. Step(s, t)
  BY <1>5, <1>7, <1>8, NewValidator DEF Step
<1> QED BY <1>8, <1>9 DEF t

\* The queues after an operation that puts an element at the end of one.
LEMMA PartialQueued ==
    ASSUME NEW s, Good(s), NEW i \in Indices(s), NEW amount \in Nat, NEW balance \in Int
    PROVE  LET c == compute_exit_epoch_and_update_churn(s, balance)
               t == [c EXCEPT !.partials = Append(@, [index |-> i, amount |-> amount, withdrawable |-> c.exits.epoch + DELAY])]
           IN  Step(s, t) /\ t.failed = s.failed /\ t.validators = s.validators /\ t.consolidations = s.consolidations
<1> DEFINE c == compute_exit_epoch_and_update_churn(s, balance)
           e == [index |-> i, amount |-> amount, withdrawable |-> c.exits.epoch + DELAY]
           t == [c EXCEPT !.partials = Append(@, e)]
           u == [s EXCEPT !.exits = c.exits]
<1>1. StateOK(s) /\ s \in StateType /\ s.partials \in Seq(PartialType) /\ i \in Nat
  <2>1. StateOK(s) /\ s \in StateType
    BY DEF Good, StateOK
  <2>2. i \in 1..Len(s.validators) /\ Len(s.validators) \in Nat
    BY <2>1, Fields
  <2>3. s.partials \in Seq(PartialType)
    BY <2>1 DEF StateType
  <2> QED BY <2>1, <2>2, <2>3
<1>2. /\ c = [s EXCEPT !.exits = c.exits] /\ c.exits \in ChurnQueue /\ s.exits.epoch <= c.exits.epoch
  BY <1>1, ExitChurn
<1>3. c.exits.epoch \in Nat /\ s.exits.epoch \in Nat /\ s.consolidating.epoch \in Nat
  BY <1>1, <1>2, Fields DEF ChurnQueue
<1> HIDE DEF c
<1>4. e \in PartialType /\ e.withdrawable = c.exits.epoch + DELAY /\ e.index = i
  BY <1>1, <1>3, Delays DEF PartialType
<1> HIDE DEF e
<1>5. Append(s.partials, e) \in Seq(PartialType)
  BY <1>1, <1>4
<1>6. t = [s EXCEPT !.exits = c.exits, !.partials = Append(s.partials, e)]
  BY <1>1, <1>2 DEF StateType
<1> HIDE DEF t
<1>7. /\ t.exits = c.exits /\ t.partials = Append(s.partials, e) /\ t.validators = s.validators /\ t.failed = s.failed
      /\ t.slot = s.slot /\ t.finalized = s.finalized /\ t.balances = s.balances /\ t.consolidating = s.consolidating
      /\ t.consolidations = s.consolidations
  BY <1>1, <1>6 DEF StateType
<1>8. t \in StateType
  BY <1>1, <1>2, <1>5, <1>6 DEF StateType
<1>9. s.exits.epoch <= t.exits.epoch /\ s.consolidating.epoch <= t.consolidating.epoch
  BY <1>2, <1>3, <1>7
<1>10. Follows(s, t) /\ Stable(s, t)
  BY <1>7, <1>8, <1>9, ValidatorsSame
<1>11. StateOK(t)
  <2>1. Indices(t) = Indices(s)
    BY <1>7 DEF Indices
  <2>2. \A k \in DOMAIN t.partials : t.partials[k].index \in Indices(s)
    <3>1. \A k \in DOMAIN s.partials : s.partials[k].index \in Indices(s)
      BY <1>1 DEF StateOK
    <3> QED BY <1>1, <1>4, <1>7, <3>1
  <2> QED BY <1>1, <1>7, <1>8, <2>1, <2>2 DEF StateOK
<1>12. QueuesOK(t)
  <2>1. \A k \in DOMAIN s.partials : /\ s.partials[k] \in PartialType
           /\ s.partials[k].withdrawable <= s.exits.epoch + DELAY
           /\ \A j \in 1..(k - 1) : s.partials[j].withdrawable <= s.partials[k].withdrawable
    BY <1>1 DEF Good, QueuesOK
  <2>2. \A k \in DOMAIN s.partials : s.partials[k].withdrawable \in Nat
    BY <2>1 DEF PartialType
  <2>3. /\ DOMAIN t.partials = 1..(Len(s.partials) + 1) /\ DOMAIN s.partials = 1..Len(s.partials) /\ Len(s.partials) \in Nat
        /\ t.partials[Len(s.partials) + 1] = e
        /\ \A k \in DOMAIN s.partials : t.partials[k] = s.partials[k]
    BY <1>1, <1>7
  <2>4. ASSUME NEW k \in DOMAIN t.partials
        PROVE  /\ t.partials[k].withdrawable <= t.exits.epoch + DELAY
               /\ \A j \in 1..(k - 1) : t.partials[j].withdrawable <= t.partials[k].withdrawable
    <3>1. CASE k \in DOMAIN s.partials
      <4>1. t.partials[k].withdrawable <= t.exits.epoch + DELAY
        <5>1. /\ s.partials[k].withdrawable \in Nat /\ s.partials[k].withdrawable <= s.exits.epoch + DELAY
              /\ t.partials[k].withdrawable = s.partials[k].withdrawable
          BY <2>1, <2>2, <2>3, <3>1
        <5>2. t.exits.epoch \in Nat /\ s.exits.epoch <= t.exits.epoch
          BY <1>3, <1>7, <1>9
        <5> QED BY <1>3, <5>1, <5>2, Delays
      <4>2. 1..(k - 1) \subseteq DOMAIN s.partials
        BY <2>3, <3>1
      <4> QED BY <2>1, <2>3, <3>1, <4>1, <4>2
    <3>2. CASE k = Len(s.partials) + 1
      <4>1. t.partials[k].withdrawable = c.exits.epoch + DELAY
        BY <1>4, <2>3, <3>2
      <4>2. 1..(k - 1) = DOMAIN s.partials
        BY <2>3, <3>2
      <4>3. \A j \in DOMAIN s.partials : s.partials[j].withdrawable <= c.exits.epoch + DELAY
        BY <1>2, <1>3, <2>1, <2>2, Delays
      <4>4. c.exits.epoch + DELAY \in Nat
        BY <1>3, Delays
      <4> QED BY <1>7, <2>3, <4>1, <4>2, <4>3, <4>4
    <3> QED BY <2>3, <2>4, <3>1, <3>2
  <2>5. QueuesOK(s)
    BY DEF Good
  <2> QED BY <1>7, <2>4, <2>5 DEF QueuesOK
<1>13. Good(t)
  <2>1. \A j \in Indices(t) : Life(t.validators[j], t.consolidating.epoch)
    BY <1>7 DEF Good, Indices
  <2>2. InTime(t)
    BY <1>7 DEF Good, InTime, get_current_epoch
  <2> QED BY <1>11, <1>12, <2>1, <2>2 DEF Good
<1> QED BY <1>7, <1>10, <1>13 DEF Step, t, e, c

\* The source of every consolidation that is queued in time is withdrawable
\* later only, unless it is slashed.
Ahead(s) ==
    s.consolidating.epoch < FAR_FUTURE_EPOCH =>
        \A k \in DOMAIN s.consolidations :
            LET v == s.validators[s.consolidations[k].source]
            IN  ~v.slashed => v.withdrawable > get_current_epoch(s)

\* It stays so through the steps of a block that leave the queue alone.
LEMMA AheadFollows ==
    ASSUME NEW s, NEW t, Good(s), Good(t), Follows(s, t), Ahead(s), t.consolidations = s.consolidations
    PROVE  Ahead(t)
<1> SUFFICES ASSUME t.consolidating.epoch < FAR_FUTURE_EPOCH, NEW k \in DOMAIN t.consolidations,
                    ~t.validators[t.consolidations[k].source].slashed
             PROVE  t.validators[t.consolidations[k].source].withdrawable > get_current_epoch(t)
  BY DEF Ahead
<1> DEFINE i == s.consolidations[k].source
           v == s.validators[i]
           w == t.validators[i]
<1>1. StateOK(s) /\ StateOK(t) /\ QueuesOK(s)
  BY DEF Good
<1>2. s.consolidating.epoch < FAR_FUTURE_EPOCH
  <2>1. s.consolidating.epoch \in Nat /\ t.consolidating.epoch \in Nat
    BY <1>1, Fields DEF ChurnQueue
  <2> QED BY <2>1, Delays DEF Follows
<1>3. i \in Indices(s)
  BY <1>1 DEF StateOK
<1>4. v \in ValidatorType /\ w \in ValidatorType
  <2>1. i \in Indices(t)
    BY <1>1, <1>3, Fields DEF Follows
  <2> HIDE DEF i
  <2> QED BY <1>1, <1>3, <2>1, Fields
<1>5. v.exit # FAR_FUTURE_EPOCH /\ (~v.slashed => v.withdrawable > get_current_epoch(s))
  BY <1>1, <1>2 DEF QueuesOK, Ahead
<1>6. Kept(v, w, get_current_epoch(s)) /\ get_current_epoch(t) = get_current_epoch(s)
  BY <1>3 DEF Follows, get_current_epoch
<1>7. ~w.slashed
  OBVIOUS
<1> HIDE DEF v, w
<1>8. w.withdrawable = v.withdrawable /\ ~v.slashed
  BY <1>5, <1>6, <1>7 DEF Kept
<1> QED BY <1>5, <1>6, <1>8 DEF w

\* Whatever a withdrawal request asks for: it is ignored, queued, or an exit.
LEMMA WithdrawalRequestGood ==
    ASSUME Good(state), NEW i \in Indices(state), NEW amount \in Nat, NEW owner \in BOOLEAN
    PROVE  LET t == process_withdrawal_request(state, i, amount, owner)
           IN  Step(state, t) /\ t.consolidations = state.consolidations
               /\ Indices(t) = Indices(state)
<1> DEFINE t == process_withdrawal_request(state, i, amount, owner)
           q == QueuePartial(state, i, amount)
           x == initiate_validator_exit(state, i)
           v == state.validators[i]
<1>1. StateOK(state) /\ state \in StateType
  BY DEF Good, StateOK
<1>2. Step(state, state)
  BY <1>1, RegistrySame
<1>3. t = state \/ t = q \/ (t = x /\ Staying(v))
  BY DEF process_withdrawal_request
<1> HIDE DEF t
<1>4. CASE t = state
  BY <1>2, <1>4 DEF t
<1>5. CASE t = q
  <2> DEFINE pending == get_pending_balance_to_withdraw(state, i)
             excess == state.balances[i] - MIN_ACTIVATION_BALANCE - pending
             to_withdraw == Smaller(excess, amount)
             c == compute_exit_epoch_and_update_churn(state, to_withdraw)
             z == [c EXCEPT !.partials = Append(@, [index |-> i, amount |-> to_withdraw, withdrawable |-> c.exits.epoch + DELAY])]
  <2>1. q = state \/ (q = z /\ excess > 0)
    BY DEF QueuePartial, DELAY
  <2>2. pending \in Nat
    <3> DEFINE D == {k \in DOMAIN state.partials : state.partials[k].index = i}
               f == [k \in D |-> state.partials[k].amount]
    <3>1. state.partials \in Seq(PartialType)
      BY <1>1 DEF StateType
    <3>2. D \subseteq 1..Len(state.partials) /\ Len(state.partials) \in Nat
      BY <3>1
    <3>3. IsFiniteSet(1..Len(state.partials))
      BY <3>2, FS_Interval
    <3>4. IsFiniteSet(D)
      BY <3>2, <3>3, FS_Subset
    <3>5. \A k \in D : state.partials[k] \in PartialType
      BY <3>1
    <3>6. \A k \in D : state.partials[k].amount \in Nat
      BY <3>5 DEF PartialType
    <3>7. pending = SumOf(f)
      BY DEF get_pending_balance_to_withdraw, AmountFor
    <3> HIDE DEF D
    <3>8. DOMAIN f = D /\ \A k \in DOMAIN f : f[k] \in Nat
      BY <3>6
    <3> HIDE DEF f
    <3> QED BY <3>4, <3>7, <3>8, SumNat
  <2>3. excess \in Int
    <3>1. state.balances[i] \in Nat /\ MIN_ACTIVATION_BALANCE \in Nat
      BY <1>1, Fields, ChainSpecAssumption
    <3> HIDE DEF pending
    <3> QED BY <2>2, <3>1
  <2> HIDE DEF q, excess
  <2>4. CASE q = state
    BY <1>2, <1>5, <2>4 DEF t
  <2>5. CASE q = z /\ excess > 0
    <3>1. to_withdraw \in Nat
      BY <2>3, <2>5, SmallerIs
    <3> HIDE DEF to_withdraw
    <3>2. Step(state, z) /\ z.validators = state.validators /\ z.consolidations = state.consolidations
      BY <3>1, PartialQueued
    <3> HIDE DEF z
    <3> QED BY <1>5, <2>5, <3>2 DEF t, Indices
  <2> QED BY <2>1, <2>4, <2>5
<1>6. CASE t = x /\ Staying(v)
  <2>1. v.activation <= get_current_epoch(state)
    BY <1>6 DEF Staying, active_validator
  <2>2. Step(state, x)
    BY <2>1, ExitGood DEF Step
  <2>3. Alike(state, x) /\ Indices(x) = Indices(state)
    BY <1>1, ExitAlike, AlikeOK
  <2> HIDE DEF x
  <2> QED BY <1>6, <2>2, <2>3 DEF t, Alike, Near
<1> QED BY <1>3, <1>4, <1>5, <1>6

\* A consolidation request: ignored, a switch to compounding, or an exit whose
\* epoch the consolidation queue gives.
LEMMA ConsolidationRequestGood ==
    ASSUME Good(state), Ahead(state), NEW i \in Indices(state), NEW j \in Indices(state), NEW owner \in BOOLEAN
    PROVE  LET t == process_consolidation_request(state, i, j, owner)
           IN  Step(state, t) /\ Ahead(t) /\ Indices(t) = Indices(state) /\ t.exits = state.exits
<1> DEFINE s == state
           t == process_consolidation_request(s, i, j, owner)
           sw == switch_to_compounding_validator(s, i)
           v == s.validators[i]
           churn == get_consolidation_churn_limit(s)
           q == NextInQueue(s.consolidating, v.effective, get_current_epoch(s), churn)
           w == [v EXCEPT !.exit = q.epoch, !.withdrawable = q.epoch + DELAY]
           c == [source |-> i, target |-> j]
           z == [s EXCEPT !.consolidating = q, !.validators = [s.validators EXCEPT ![i] = w],
                          !.consolidations = Append(s.consolidations, c)]
           epoch == get_current_epoch(s)
<1>1. StateOK(s) /\ s \in StateType /\ s.validators \in Seq(ValidatorType) /\ i \in DOMAIN s.validators /\ s.consolidations \in Seq(ConsolidationType)
  BY Fields DEF Good, StateOK, Indices, StateType
<1>2. Step(s, s)
  BY <1>1, RegistrySame
<1>3. v \in ValidatorType /\ v.effective \in Nat /\ epoch \in Nat /\ s.consolidating \in ChurnQueue
      /\ s.consolidating.epoch \in Nat /\ s.exits.epoch \in Nat /\ i \in Nat /\ j \in Nat
  <2>1. Indices(s) = 1..Len(s.validators) /\ Len(s.validators) \in Nat
    BY <1>1, Fields
  <2>2. i \in Nat /\ j \in Nat
    BY <2>1
  <2>3. v \in ValidatorType /\ epoch \in Nat /\ s.consolidating \in ChurnQueue /\ s.exits \in ChurnQueue
    BY <1>1, Fields
  <2> QED BY <2>2, <2>3 DEF ValidatorType, ChurnQueue
<1>4. \/ t = s
      \/ t = sw
      \/ Staying(v) /\ churn > MIN_ACTIVATION_BALANCE
         /\ t = LET u == [s EXCEPT !.consolidating = q]
                IN  [u EXCEPT !.validators[i] = [@ EXCEPT !.exit = u.consolidating.epoch,
                                                          !.withdrawable = u.consolidating.epoch + DELAY],
                              !.consolidations = Append(@, c)]
  BY DEF process_consolidation_request, verify_consolidation_request, verify_consolidation_validators,
         compute_consolidation_epoch_and_update_churn, DELAY
<1> HIDE DEF t
<1>5. CASE t = s
  BY <1>2, <1>5 DEF t
<1>6. CASE t = sw
  <2>1. Step(s, sw) /\ Near(s, sw) /\ Indices(sw) = Indices(s) /\ sw.exits = s.exits
    BY <1>1, SwitchGood, NearOK
  <2> HIDE DEF sw
  <2>2. Ahead(sw)
    BY <2>1, AheadFollows DEF Step, Near
  <2> QED BY <1>6, <2>1, <2>2 DEF t
<1>7. CASE Staying(v) /\ churn > MIN_ACTIVATION_BALANCE
         /\ t = LET u == [s EXCEPT !.consolidating = q]
                IN  [u EXCEPT !.validators[i] = [@ EXCEPT !.exit = u.consolidating.epoch,
                                                          !.withdrawable = u.consolidating.epoch + DELAY],
                              !.consolidations = Append(@, c)]
  <2>1. churn \in Nat \ {0}
    <3>1. churn \in Int
      BY <1>1, ChurnPositive
    <3>2. MIN_ACTIVATION_BALANCE \in Nat /\ churn > MIN_ACTIVATION_BALANCE
      BY <1>7, ChainSpecAssumption
    <3> HIDE DEF churn
    <3> QED BY <3>1, <3>2
  <2>2. q \in ChurnQueue /\ s.consolidating.epoch <= q.epoch /\ compute_activation_exit_epoch(epoch) <= q.epoch
    <3>1. v.effective \in Int
      BY <1>3
    <3> HIDE DEF churn, v, epoch
    <3>2. LET next == NextInQueue(s.consolidating, v.effective, epoch, churn)
          IN  next \in ChurnQueue /\ s.consolidating.epoch <= next.epoch /\ compute_activation_exit_epoch(epoch) <= next.epoch
      BY <1>3, <2>1, <3>1, NextInQueueIs
    <3> QED BY <3>2 DEF epoch
  <2> HIDE DEF churn, q
  <2>3. q.epoch \in Nat /\ q.epoch + DELAY \in Nat
    BY <2>2, Delays DEF ChurnQueue
  <2>4. t = z
    <3> DEFINE u == [s EXCEPT !.consolidating = q]
    <3>1. u.consolidating = q /\ u.validators = s.validators /\ u.consolidations = s.consolidations
      BY <1>1 DEF StateType
    <3>2. t = [u EXCEPT !.validators[i] = [@ EXCEPT !.exit = u.consolidating.epoch,
                                                    !.withdrawable = u.consolidating.epoch + DELAY],
                        !.consolidations = Append(@, c)]
      BY <1>7
    <3>3. u \in StateType
      BY <1>1, <2>2 DEF StateType
    <3> HIDE DEF u, c
    <3>4. t = [u EXCEPT !.validators = [s.validators EXCEPT ![i] = w], !.consolidations = Append(s.consolidations, c)]
      BY <3>1, <3>2, <3>3 DEF StateType
    <3> HIDE DEF w
    <3> QED BY <3>4 DEF u
  <2>5. /\ w \in ValidatorType /\ w.exit = q.epoch /\ w.withdrawable = q.epoch + DELAY /\ w.slashed = v.slashed
        /\ w.activation = v.activation /\ w.effective = v.effective /\ w.eligibility = v.eligibility /\ v.activation \in Nat
    <3> HIDE DEF v
    <3> QED BY <1>3, <2>3 DEF ValidatorType
  <2>6. c \in ConsolidationType /\ c.source = i /\ c.target = j
    BY <1>3 DEF ConsolidationType
  <2> HIDE DEF w, c
  <2>7. [s.validators EXCEPT ![i] = w] \in Seq(ValidatorType) /\ Append(s.consolidations, c) \in Seq(ConsolidationType)
    BY <1>1, <2>5, <2>6
  <2>8. /\ z.validators = [s.validators EXCEPT ![i] = w] /\ z.balances = s.balances /\ z.exits = s.exits
        /\ z.slot = s.slot /\ z.finalized = s.finalized /\ z.consolidating = q
        /\ z.partials = s.partials /\ z.consolidations = Append(s.consolidations, c)
    BY <1>1 DEF StateType
  <2>9. z \in StateType
    BY <1>1, <2>2, <2>7 DEF StateType
  <2> HIDE DEF z
  <2>10. v.exit = FAR_FUTURE_EPOCH /\ v.activation <= epoch /\ Life(v, s.consolidating.epoch)
    BY <1>7 DEF Staying, active_validator, Good
  <2>11. compute_activation_exit_epoch(epoch) \in Nat /\ epoch < compute_activation_exit_epoch(epoch) /\ epoch < FAR_FUTURE_EPOCH
    BY <1>1, Fields, EpochNat, Delays DEF Good, InTime
  <2>12. epoch < q.epoch
    BY <1>3, <2>2, <2>3, <2>11
  <2> HIDE DEF v, epoch
  <2>13. Delayed => ~v.slashed
    BY <2>10 DEF Life
  <2>14. Kept(v, w, epoch)
    BY <2>5, <2>10, <2>13 DEF Kept
  <2>15. SameNow(v, w, epoch)
    <3>1. v.exit > epoch /\ w.exit > epoch
      BY <1>3, <2>3, <2>5, <2>10, <2>11, <2>12, Delays
    <3> QED BY <2>5, <3>1 DEF SameNow
  <2>16. Life(w, q.epoch)
    <3>1. w.activation < w.exit /\ w.exit + DELAY <= w.withdrawable
      BY <1>3, <2>3, <2>5, <2>10, <2>12, Delays
    <3>2. w.activation # FAR_FUTURE_EPOCH => w.eligibility <= w.activation
      BY <2>5, <2>10 DEF Life
    <3>3. ~(q.epoch < FAR_FUTURE_EPOCH /\ w.exit = FAR_FUTURE_EPOCH)
      BY <2>3, <2>5, Delays
    <3> QED BY <2>5, <2>13, <3>1, <3>2, <3>3 DEF Life
  <2>17. Follows(s, z) /\ Stable(s, z)
    <3>1. s.exits.epoch <= z.exits.epoch /\ s.consolidating.epoch <= z.consolidating.epoch
      BY <1>3, <2>2, <2>8
    <3> QED BY <2>5, <2>8, <2>9, <2>14, <2>15, <3>1, OneValidator DEF v, epoch
  <2>18. Len(z.validators) = Len(s.validators) /\ Indices(z) = Indices(s)
         /\ z.validators[i] = w /\ \A k \in Indices(s) : k # i => z.validators[k] = s.validators[k]
    BY <1>1, <2>8 DEF Indices
  <2>19. /\ DOMAIN z.consolidations = 1..(Len(s.consolidations) + 1) /\ Len(s.consolidations) \in Nat
         /\ DOMAIN s.consolidations = 1..Len(s.consolidations)
         /\ z.consolidations[Len(s.consolidations) + 1] = c
         /\ \A k \in DOMAIN s.consolidations : z.consolidations[k] = s.consolidations[k]
    BY <1>1, <2>8
  <2>20. \A k \in DOMAIN s.consolidations : s.consolidations[k].source \in Indices(s) /\ s.consolidations[k].target \in Indices(s)
    BY <1>1 DEF StateOK
  <2>21. StateOK(z)
    <3>1. \A k \in DOMAIN z.consolidations : {z.consolidations[k].source, z.consolidations[k].target} \subseteq Indices(z)
      <4> SUFFICES ASSUME NEW k \in DOMAIN z.consolidations
                   PROVE  {z.consolidations[k].source, z.consolidations[k].target} \subseteq Indices(z)
        OBVIOUS
      <4>1. CASE k \in DOMAIN s.consolidations
        BY <2>18, <2>19, <2>20, <4>1
      <4>2. CASE k = Len(s.consolidations) + 1
        BY <2>6, <2>18, <2>19, <4>2
      <4> QED BY <2>19, <4>1, <4>2
    <3>2. \A k \in DOMAIN z.partials : z.partials[k].index \in Indices(z)
      BY <1>1, <2>8, <2>18 DEF StateOK
    <3>3. z.validators # << >> /\ Len(z.balances) = Len(z.validators)
      <4>1. Len(s.validators) # 0 /\ Len(s.balances) = Len(s.validators)
        BY <1>1, Fields
      <4> QED BY <2>8, <2>18, <4>1
    <3> QED BY <2>9, <3>1, <3>2, <3>3 DEF StateOK
  <2>22. ASSUME q.epoch < FAR_FUTURE_EPOCH, NEW k \in DOMAIN z.consolidations
         PROVE  LET V(m) == z.validators[z.consolidations[m].source]
                IN  /\ V(k).exit # FAR_FUTURE_EPOCH
                    /\ ~V(k).slashed => V(k).withdrawable <= q.epoch + DELAY /\ V(k).withdrawable > epoch
                    /\ \A m \in 1..(k - 1) : ~V(m).slashed /\ ~V(k).slashed => V(m).withdrawable <= V(k).withdrawable
    <3> DEFINE V(m) == z.validators[z.consolidations[m].source]
               U(m) == s.validators[s.consolidations[m].source]
    <3>1. s.consolidating.epoch < FAR_FUTURE_EPOCH
      BY <1>3, <2>2, <2>3, <2>22, Delays
    <3>2. \A m \in DOMAIN s.consolidations :
             /\ U(m).exit # FAR_FUTURE_EPOCH
             /\ ~U(m).slashed => U(m).withdrawable <= s.consolidating.epoch + DELAY /\ U(m).withdrawable > epoch
             /\ \A n \in 1..(m - 1) : ~U(n).slashed /\ ~U(m).slashed => U(n).withdrawable <= U(m).withdrawable
      BY <3>1 DEF Good, QueuesOK, Ahead, epoch
    <3>3. \A m \in DOMAIN s.consolidations : V(m) = U(m)
      BY <2>10, <2>18, <2>19, <2>20, <3>2 DEF v
    <3>4. V(Len(s.consolidations) + 1) = w
      BY <2>6, <2>18, <2>19
    <3>5. \A m \in DOMAIN s.consolidations : U(m).withdrawable \in Nat
      <4>1. \A m \in DOMAIN s.consolidations : U(m) \in ValidatorType
        BY <1>1, <2>20, Fields
      <4> QED BY <4>1 DEF ValidatorType
    <3> HIDE DEF U, V
    <3>6. CASE k \in DOMAIN s.consolidations
      <4>1. 1..(k - 1) \subseteq DOMAIN s.consolidations
        BY <2>19, <3>6
      <4>2. U(k).withdrawable <= s.consolidating.epoch + DELAY => U(k).withdrawable <= q.epoch + DELAY
        BY <1>3, <2>2, <2>3, <3>5, <3>6, Delays
      <4>3. /\ V(k).exit # FAR_FUTURE_EPOCH
            /\ ~V(k).slashed => V(k).withdrawable <= q.epoch + DELAY /\ V(k).withdrawable > epoch
            /\ \A m \in 1..(k - 1) : ~V(m).slashed /\ ~V(k).slashed => V(m).withdrawable <= V(k).withdrawable
        BY <3>2, <3>3, <3>6, <4>1, <4>2
      <4> QED BY <4>3 DEF V
    <3>7. CASE k = Len(s.consolidations) + 1
      <4>1. 1..(k - 1) = DOMAIN s.consolidations
        BY <2>19, <3>7
      <4>2. V(k) = w /\ w.exit # FAR_FUTURE_EPOCH
        BY <2>3, <2>5, <2>22, <3>4, <3>7, Delays
      <4>3. w.withdrawable <= q.epoch + DELAY /\ w.withdrawable > epoch
        BY <1>3, <2>3, <2>5, <2>12, Delays
      <4>4. \A m \in DOMAIN s.consolidations : ~V(m).slashed => V(m).withdrawable <= w.withdrawable
        <5>1. ASSUME NEW m \in DOMAIN s.consolidations, ~V(m).slashed PROVE V(m).withdrawable <= w.withdrawable
          <6>1. V(m) = U(m) /\ U(m).withdrawable \in Nat /\ U(m).withdrawable <= s.consolidating.epoch + DELAY
            BY <3>2, <3>3, <3>5, <5>1, SMTT(30)
          <6> QED BY <1>3, <2>2, <2>3, <2>5, <6>1, Delays
        <5> QED BY <5>1
      <4> QED BY <4>1, <4>2, <4>3, <4>4 DEF V
    <3> QED BY <2>19, <2>22, <3>6, <3>7
  <2>23. QueuesOK(z) /\ Ahead(z)
    <3>1. get_current_epoch(z) = epoch
      BY <2>8 DEF get_current_epoch, epoch
    <3>2. QueuesOK(s)
      BY DEF Good
    <3>3. Ahead(z)
      BY <2>8, <2>22, <3>1 DEF Ahead
    <3> QED BY <2>8, <2>22, <3>2, <3>3 DEF QueuesOK
  <2>24. InTime(z)
    BY <2>8 DEF Good, InTime, get_current_epoch
  <2>25. \A k \in Indices(z) : Life(z.validators[k], z.consolidating.epoch)
    BY <1>3, <2>2, <2>3, <2>8, <2>16, <2>18, LifeLater DEF Good
  <2>26. Good(z)
    BY <2>21, <2>23, <2>24, <2>25 DEF Good
  <2> QED BY <2>4, <2>8, <2>17, <2>18, <2>23, <2>26 DEF Step, t
<1> QED BY <1>4, <1>5, <1>6, <1>7

\* What is left of queues in order is in order.
LEMMA QueuesDropped ==
    ASSUME NEW s, Good(s), NEW t \in StateType, NEW m \in Nat, NEW n \in Nat,
           t.validators = s.validators, Len(t.balances) = Len(s.balances),
           t.slot = s.slot, t.finalized = s.finalized, t.exits = s.exits, t.consolidating = s.consolidating,
           t.partials = Drop(s.partials, m), t.consolidations = Drop(s.consolidations, n)
    PROVE  Step(s, t)
<1>1. StateOK(s) /\ s.partials \in Seq(PartialType) /\ s.consolidations \in Seq(ConsolidationType)
  BY DEF Good, StateOK, StateType
<1>2. s.exits.epoch \in Nat /\ s.consolidating.epoch \in Nat
  BY <1>1, Fields DEF ChurnQueue
<1>3. Follows(s, t) /\ Stable(s, t)
  <2>1. s.exits.epoch <= t.exits.epoch /\ s.consolidating.epoch <= t.consolidating.epoch
    BY <1>2
  <2> QED BY <2>1, ValidatorsSame
<1>4. \A k \in DOMAIN t.partials : /\ k \in Nat /\ k + m \in DOMAIN s.partials /\ t.partials[k] = s.partials[k + m]
                                   /\ \A j \in 1..(k - 1) : j + m \in 1..((k + m) - 1) /\ t.partials[j] = s.partials[j + m]
  <2>1. /\ \A k \in DOMAIN t.partials : k + m \in DOMAIN s.partials /\ t.partials[k] = s.partials[k + m]
        /\ t.partials \in Seq(PartialType)
    BY <1>1, DropIs
  <2>2. \A k \in DOMAIN t.partials : k \in Nat /\ 1..(k - 1) \subseteq DOMAIN t.partials
    BY <2>1
  <2> QED BY <2>1, <2>2
<1>5. \A k \in DOMAIN t.consolidations : /\ k \in Nat /\ k + n \in DOMAIN s.consolidations
         /\ t.consolidations[k] = s.consolidations[k + n]
         /\ \A j \in 1..(k - 1) : j + n \in 1..((k + n) - 1) /\ t.consolidations[j] = s.consolidations[j + n]
  <2>1. /\ \A k \in DOMAIN t.consolidations : k + n \in DOMAIN s.consolidations /\ t.consolidations[k] = s.consolidations[k + n]
        /\ t.consolidations \in Seq(ConsolidationType)
    BY <1>1, DropIs
  <2>2. \A k \in DOMAIN t.consolidations : k \in Nat /\ 1..(k - 1) \subseteq DOMAIN t.consolidations
    BY <2>1
  <2> QED BY <2>1, <2>2
<1>6. Indices(t) = Indices(s)
  BY DEF Indices
<1>7. StateOK(t)
  <2>1. \A k \in DOMAIN t.partials : t.partials[k].index \in Indices(t)
    BY <1>1, <1>4, <1>6 DEF StateOK
  <2>2. \A k \in DOMAIN t.consolidations : {t.consolidations[k].source, t.consolidations[k].target} \subseteq Indices(t)
    BY <1>1, <1>5, <1>6 DEF StateOK
  <2> QED BY <1>1, <2>1, <2>2 DEF StateOK
<1>8. QueuesOK(t)
  <2>1. QueuesOK(s)
    BY DEF Good
  <2>2. ASSUME NEW k \in DOMAIN t.partials
        PROVE  /\ t.partials[k].withdrawable <= t.exits.epoch + DELAY
               /\ \A j \in 1..(k - 1) : t.partials[j].withdrawable <= t.partials[k].withdrawable
    BY <1>4, <2>1 DEF QueuesOK
  <2>3. ASSUME t.consolidating.epoch < FAR_FUTURE_EPOCH, NEW k \in DOMAIN t.consolidations
        PROVE  LET v == t.validators[t.consolidations[k].source]
               IN  /\ v.exit # FAR_FUTURE_EPOCH
                   /\ ~v.slashed => v.withdrawable <= t.consolidating.epoch + DELAY
                   /\ \A j \in 1..(k - 1) :
                        LET u == t.validators[t.consolidations[j].source]
                        IN  ~u.slashed /\ ~v.slashed => u.withdrawable <= v.withdrawable
    BY <1>5, <2>1, <2>3 DEF QueuesOK
  <2> QED BY <2>2, <2>3 DEF QueuesOK
<1>9. InTime(t)
  BY DEF Good, InTime, get_current_epoch
<1>10. \A i \in Indices(t) : Life(t.validators[i], t.consolidating.epoch)
  BY <1>6 DEF Good
<1> QED BY <1>3, <1>7, <1>8, <1>9, <1>10 DEF Good, Step

\* A withdrawal pays some amount to a validator.
WithdrawalType(s) == [index : Indices(s), amount : Nat]

\* The loop over the pending partial withdrawals.
LEMMA PartialsPaid ==
    ASSUME NEW s, Good(s)
    PROVE  PartialWithdrawals(s).done \in Nat /\ PartialWithdrawals(s).out \in Seq(WithdrawalType(s))
<1> DEFINE q == s.partials
           n == Len(q)
           Op(a, w) == IF \/ a.halted \/ w.withdrawable > get_current_epoch(s)
                          \/ a.done = MAX_PENDING_PARTIALS_PER_WITHDRAWALS_SWEEP
                       THEN [a EXCEPT !.halted = TRUE]
                       ELSE [a EXCEPT !.done = @ + 1, !.out = @ \o do_process_partial_withdrawal(s, w)]
           base == [done |-> 0, out |-> << >>, halted |-> FALSE]
           it == CHOOSE h : h = [x \in SUBSET (DOMAIN q) |-> IF x = {} THEN base ELSE Op(h[x \ {Max(x)}], q[Max(x)])]
           M == [done : Nat, out : Seq(WithdrawalType(s)), halted : BOOLEAN]
           g == [p \in (1..n) \X M |-> Op(p[2], q[p[1]])]
<1>1. PartialWithdrawals(s) = it[DOMAIN q]
  BY DEF PartialWithdrawals, FoldLeft, MapThenFoldSet
<1>2. StateOK(s) /\ q \in Seq(PartialType)
  BY DEF Good, StateOK, StateType
<1>3. n \in Nat /\ DOMAIN q = 1..n /\ \A k \in 1..n : q[k] \in PartialType /\ q[k].index \in Indices(s)
  BY <1>2 DEF StateOK
<1> HIDE DEF q, n
<1>4. base \in M
  OBVIOUS
<1>5. ASSUME NEW k \in 1..n PROVE do_process_partial_withdrawal(s, q[k]) \in Seq(WithdrawalType(s))
  <2> DEFINE excess == s.balances[q[k].index] - MIN_ACTIVATION_BALANCE
             e == [index |-> q[k].index, amount |-> Smaller(excess, q[k].amount)]
  <2>1. q[k].index \in Indices(s) /\ q[k].amount \in Nat
    BY <1>3 DEF PartialType
  <2>2. excess \in Int
    <3>1. s.balances[q[k].index] \in Nat /\ MIN_ACTIVATION_BALANCE \in Nat
      BY <1>2, <2>1, Fields, ChainSpecAssumption
    <3> QED BY <3>1
  <2>3. \/ do_process_partial_withdrawal(s, q[k]) = << >>
        \/ excess > 0 /\ do_process_partial_withdrawal(s, q[k]) = <<e>>
    BY DEF do_process_partial_withdrawal
  <2> HIDE DEF excess
  <2>4. excess > 0 => Smaller(excess, q[k].amount) \in Nat
    BY <2>1, <2>2, SmallerIs
  <2>5. excess > 0 => e \in WithdrawalType(s)
    BY <2>1, <2>4 DEF WithdrawalType
  <2> HIDE DEF e
  <2>6. << >> \in Seq(WithdrawalType(s)) /\ (excess > 0 => <<e>> \in Seq(WithdrawalType(s)))
    BY <2>5
  <2> QED BY <2>3, <2>6
<1>6. ASSUME NEW k \in 1..n, NEW a \in M PROVE Op(a, q[k]) \in M
  <2> DEFINE d == do_process_partial_withdrawal(s, q[k])
  <2>1. a.done + 1 \in Nat /\ a.out \in Seq(WithdrawalType(s)) /\ d \in Seq(WithdrawalType(s))
    BY <1>5
  <2> HIDE DEF d
  <2>2. a.out \o d \in Seq(WithdrawalType(s))
    BY <2>1
  <2>3. [a EXCEPT !.halted = TRUE] \in M /\ [a EXCEPT !.done = @ + 1, !.out = @ \o d] \in M
    BY <2>1, <2>2
  <2> QED BY <2>3 DEF d
<1> HIDE DEF M, Op, base
<1>7. g \in [(1..n) \X M -> M] /\ \A k \in 1..n, a \in M : g[<<k, a>>] = Op(a, q[k])
  BY <1>6
<1> HIDE DEF g
<1>8. PICK run : IsRun(run, n, M, base, g)
  BY <1>3, <1>4, <1>7, RunExists
<1>9. \E h : h = [x \in SUBSET (1..n) |-> IF x = {} THEN base ELSE Op(h[x \ {Max(x)}], q[Max(x)])]
  <2>1. PICK h \in [SUBSET (1..n) -> M] : IsFoldOf(h, n, M, base, g)
    BY <1>3, <1>4, <1>7, RunExists
  <2>2. \A x \in SUBSET (1..n) : x # {} => h[x \ {Max(x)}] \in M /\ Max(x) \in 1..n
    BY <1>3, MaxChooses
  <2>3. \A x \in SUBSET (1..n) : x # {} => h[x] = Op(h[x \ {Max(x)}], q[Max(x)])
    BY <1>7, <2>1, <2>2 DEF IsFoldOf
  <2> QED BY <2>1, <2>3 DEF IsFoldOf
<1>10. it = [x \in SUBSET (1..n) |-> IF x = {} THEN base ELSE Op(it[x \ {Max(x)}], q[Max(x)])]
  BY <1>3, <1>9
<1> HIDE DEF it
<1>11. IsFoldOf(it, n, M, base, g)
  <2>1. \A x \in SUBSET (1..n) : x # {} => Max(x) \in 1..n /\ it[x] = Op(it[x \ {Max(x)}], q[Max(x)])
    BY <1>3, <1>10, MaxChooses
  <2>2. it[{}] = base
    BY <1>10
  <2>3. \A x \in SUBSET (1..n) : x # {} /\ it[x \ {Max(x)}] \in M => it[x] = g[<<Max(x), it[x \ {Max(x)}]>>]
    BY <1>7, <2>1
  <2> QED BY <2>2, <2>3 DEF IsFoldOf
<1>12. it[1..n] = run[n]
  BY <1>3, <1>8, <1>11, RunUnique
<1>13. run[n] \in M
  BY <1>3, <1>8 DEF IsRun
<1> QED BY <1>1, <1>3, <1>12, <1>13 DEF M

\* The sweep over the validators pays each no more than it has.
LEMMA SweepPays ==
    ASSUME NEW s, Good(s), NEW partial \in Seq(WithdrawalType(s))
    PROVE  Sweep(s, partial) \in Seq(WithdrawalType(s))
<1> DEFINE n == Len(s.validators)
           m == Smaller(n, MAX_VALIDATORS_PER_WITHDRAWALS_SWEEP)
           order == [k \in 1..m |-> ((s.next_withdrawal_validator_index + k - 1) % n) + 1]
           parts == [k \in DOMAIN order |-> Swept(s, order[k], partial)]
<1>1. StateOK(s) /\ n \in Nat \ {0} /\ s.next_withdrawal_validator_index \in Nat /\ Indices(s) = 1..n
  BY Fields DEF Good, StateOK, StateType
<1>2. m \in Nat
  <2>1. n \in Nat /\ MAX_VALIDATORS_PER_WITHDRAWALS_SWEEP \in Nat
    BY <1>1, ChainSpecAssumption
  <2> HIDE DEF n
  <2> QED BY <2>1, SmallerIs
<1>3. Sweep(s, partial) = FlattenSeq(parts)
  BY DEF Sweep
<1>4. DOMAIN order = 1..m /\ \A k \in 1..m : order[k] \in Indices(s)
  <2> HIDE DEF n, m
  <2>1. \A x \in Nat : (x % n) + 1 \in 1..n
    BY <1>1
  <2>2. \A k \in 1..m : s.next_withdrawal_validator_index + k - 1 \in Nat
    BY <1>1, <1>2
  <2> QED BY <1>1, <2>1, <2>2
<1> HIDE DEF order
<1>5. ASSUME NEW i \in Indices(s) PROVE Swept(s, i, partial) \in Seq(WithdrawalType(s))
  <2> DEFINE paid == AmountFor(partial, i)
             balance == s.balances[i] - paid
             most == get_max_effective_balance(s.validators[i])
             full == [index |-> i, amount |-> balance]
             part == [index |-> i, amount |-> balance - most]
  <2>1. paid \in Nat
    <3> DEFINE D == {k \in DOMAIN partial : partial[k].index = i}
               f == [k \in D |-> partial[k].amount]
    <3>1. D \subseteq 1..Len(partial) /\ Len(partial) \in Nat
      OBVIOUS
    <3>2. IsFiniteSet(1..Len(partial))
      BY <3>1, FS_Interval
    <3>3. IsFiniteSet(D)
      BY <3>1, <3>2, FS_Subset
    <3>4. \A k \in D : partial[k] \in WithdrawalType(s)
      OBVIOUS
    <3>5. \A k \in D : partial[k].amount \in Nat
      BY <3>4 DEF WithdrawalType
    <3>6. paid = SumOf(f)
      BY DEF AmountFor
    <3> HIDE DEF D
    <3>7. DOMAIN f = D /\ \A k \in DOMAIN f : f[k] \in Nat
      BY <3>5
    <3> HIDE DEF f
    <3> QED BY <3>3, <3>6, <3>7, SumNat
  <2>2. balance \in Int /\ most \in Nat
    <3>1. s.balances[i] \in Nat
      BY <1>1, Fields
    <3>2. most \in Nat
      BY ChainSpecAssumption DEF get_max_effective_balance
    <3> HIDE DEF paid
    <3> QED BY <2>1, <3>1, <3>2
  <2>3. \/ Swept(s, i, partial) = << >>
        \/ balance > 0 /\ Swept(s, i, partial) = <<full>>
        \/ balance > most /\ Swept(s, i, partial) = <<part>>
    BY DEF Swept, fully_withdrawable_validator, partially_withdrawable_validator
  <2> HIDE DEF balance, most
  <2>4. (balance > 0 => full \in WithdrawalType(s)) /\ (balance > most => part \in WithdrawalType(s))
    <3>1. (balance > 0 => balance \in Nat) /\ (balance > most => balance - most \in Nat)
      BY <2>2
    <3> QED BY <3>1 DEF WithdrawalType
  <2> HIDE DEF full, part
  <2>5. /\ << >> \in Seq(WithdrawalType(s)) /\ (balance > 0 => <<full>> \in Seq(WithdrawalType(s)))
        /\ (balance > most => <<part>> \in Seq(WithdrawalType(s)))
    BY <2>4
  <2> QED BY <2>3, <2>5
<1>6. parts \in [1..m -> Seq(WithdrawalType(s))]
  BY <1>4, <1>5
<1> HIDE DEF parts, m
<1> QED BY <1>2, <1>3, <1>6, FlattenIs

\* The payouts of a payload take balances only.
LEMMA PayoutsGood ==
    ASSUME NEW s, Good(s), NEW q \in Seq(WithdrawalType(s))
    PROVE  LET t == decrease_balances(s, q)
           IN  /\ Step(s, t) /\ Alike(s, t) /\ t.validators = s.validators
               /\ t.exits = s.exits /\ t.failed = s.failed
               /\ (\A i \in Indices(s) : AmountFor(q, i) <= s.balances[i]) =>
                      Total(t.balances) + Queued(q) = Total(s.balances)
<1> DEFINE n == Len(q)
           Op(t, w) == decrease_balance(t, w.index, w.amount)
           it == CHOOSE h : h = [x \in SUBSET (DOMAIN q) |-> IF x = {} THEN s ELSE Op(h[x \ {Max(x)}], q[Max(x)])]
           Same(t) == Step(s, t) /\ Alike(s, t) /\ t.validators = s.validators /\ t.exits = s.exits /\ t.failed = s.failed
           M == {t \in StateType : Same(t)}
           g == [p \in (1..n) \X M |-> Op(p[2], q[p[1]])]
<1>1. decrease_balances(s, q) = it[DOMAIN q]
  BY DEF decrease_balances, FoldLeft, MapThenFoldSet
<1>2. StateOK(s) /\ s \in StateType
  BY DEF Good, StateOK
<1>3. n \in Nat /\ DOMAIN q = 1..n /\ \A k \in 1..n : q[k].index \in Indices(s) /\ q[k].amount \in Nat
  <2>1. n \in Nat /\ DOMAIN q = 1..n /\ \A k \in 1..n : q[k] \in WithdrawalType(s)
    OBVIOUS
  <2> QED BY <2>1 DEF WithdrawalType
<1> HIDE DEF n
<1>4. s \in M
  BY <1>2, RegistrySame DEF Alike
<1>5. ASSUME NEW k \in 1..n, NEW t \in M PROVE Op(t, q[k]) \in M
  <2> DEFINE u == decrease_balance(t, q[k].index, q[k].amount)
  <2>1. Same(t) /\ Good(t) /\ Indices(t) = Indices(s)
    BY <1>2, AlikeOK DEF Step
  <2>2. Step(t, u) /\ Alike(t, u) /\ u.validators = t.validators /\ u.failed = t.failed
    BY <1>3, <2>1, BalanceMoved
  <2>3. u.exits = t.exits
    BY DEF decrease_balance, StateType
  <2> HIDE DEF u
  <2>4. Same(u)
    BY <2>1, <2>2, <2>3, StepTwice, AlikeTwice
  <2> QED BY <2>4 DEF Alike, Near, u
<1> HIDE DEF M, Op
<1>6. g \in [(1..n) \X M -> M] /\ \A k \in 1..n, t \in M : g[<<k, t>>] = Op(t, q[k])
  BY <1>5
<1> HIDE DEF g
<1>7. PICK run : IsRun(run, n, M, s, g)
  BY <1>3, <1>4, <1>6, RunExists
<1>8. \E h : h = [x \in SUBSET (1..n) |-> IF x = {} THEN s ELSE Op(h[x \ {Max(x)}], q[Max(x)])]
  <2>1. PICK h \in [SUBSET (1..n) -> M] : IsFoldOf(h, n, M, s, g)
    BY <1>3, <1>4, <1>6, RunExists
  <2>2. \A x \in SUBSET (1..n) : x # {} => h[x \ {Max(x)}] \in M /\ Max(x) \in 1..n
    BY <1>3, MaxChooses
  <2>3. \A x \in SUBSET (1..n) : x # {} => h[x] = Op(h[x \ {Max(x)}], q[Max(x)])
    BY <1>6, <2>1, <2>2 DEF IsFoldOf
  <2> QED BY <2>1, <2>3 DEF IsFoldOf
<1>9. it = [x \in SUBSET (1..n) |-> IF x = {} THEN s ELSE Op(it[x \ {Max(x)}], q[Max(x)])]
  BY <1>3, <1>8
<1> HIDE DEF it
<1>10. IsFoldOf(it, n, M, s, g)
  <2>1. \A x \in SUBSET (1..n) : x # {} => Max(x) \in 1..n /\ it[x] = Op(it[x \ {Max(x)}], q[Max(x)])
    BY <1>3, <1>9, MaxChooses
  <2>2. it[{}] = s
    BY <1>9
  <2>3. \A x \in SUBSET (1..n) : x # {} /\ it[x \ {Max(x)}] \in M => it[x] = g[<<Max(x), it[x \ {Max(x)}]>>]
    BY <1>6, <2>1
  <2> QED BY <2>2, <2>3 DEF IsFoldOf
<1>11. it[1..n] = run[n]
  BY <1>3, <1>7, <1>10, RunUnique
<1>12. run[n] \in M
  BY <1>3, <1>7 DEF IsRun
<1>13. \A k \in 0..n : run[k] \in M
  BY <1>7 DEF IsRun
<1>14. run[0] = s /\ \A k \in 1..n : run[k] = Op(run[k - 1], q[k])
  <2>1. \A k \in 1..n : k - 1 \in 0..n
    BY <1>3
  <2> QED BY <1>6, <1>7, <1>13, <2>1 DEF IsRun
<1> DEFINE T == WithdrawalType(s)
<1>15. Paying(T) /\ q \in Seq(T)
  BY DEF Paying, WithdrawalType
<1> HIDE DEF T
<1>16. ASSUME \A i \in Indices(s) : AmountFor(q, i) <= s.balances[i]
       PROVE  Total(run[n].balances) + Queued(q) = Total(s.balances)
  <2> DEFINE P(k) == SubSeq(q, 1, k)
             Even(k) == /\ Total(run[k].balances) + Queued(P(k)) = Total(s.balances)
                        /\ \A i \in Indices(s) : run[k].balances[i] + AmountFor(P(k), i) = s.balances[i]
             K == {k \in Nat : k <= n => Even(k)}
  <2>1. P(0) = << >> /\ P(n) = q
    BY <1>15 DEF n
  <2>2. 0 \in K
    <3>1. Queued(<< >>) = 0 /\ Total(s.balances) \in Nat
      <4>1. s.balances \in Seq(Nat)
        BY <1>2, Fields
      <4> QED BY <4>1, QueuedEmpty, TotalIs
    <3>2. \A i \in Indices(s) : AmountFor(<< >>, i) = 0 /\ s.balances[i] \in Nat
      BY <1>2, <1>15, AmountForIs, Fields
    <3> HIDE DEF P
    <3>3. Total(run[0].balances) + Queued(P(0)) = Total(s.balances)
      BY <1>14, <2>1, <3>1
    <3>4. \A i \in Indices(s) : run[0].balances[i] + AmountFor(P(0), i) = s.balances[i]
      BY <1>14, <2>1, <3>2
    <3> QED BY <3>3, <3>4
  <2>3. ASSUME NEW k \in Nat, k \in K PROVE k + 1 \in K
    <3> SUFFICES ASSUME k + 1 <= n PROVE Even(k + 1)
      OBVIOUS
    <3> DEFINE t == run[k]
               w == q[k + 1]
               u == run[k + 1]
               p == P(k)
    <3>1. k \in 0..n /\ k + 1 \in 1..n /\ (k + 1) - 1 = k
      BY <1>3
    <3>2. t \in M /\ u = Op(t, w) /\ w.index \in Indices(s) /\ w.amount \in Nat /\ w \in T
      BY <1>3, <1>13, <1>14, <1>15, <3>1
    <3>3. Good(t) /\ Indices(t) = Indices(s) /\ u = decrease_balance(t, w.index, w.amount)
      BY <1>2, <3>2, AlikeOK DEF M, Op, Step
    <3>4. p \in Seq(T) /\ P(k + 1) = Append(p, w)
      BY <1>15, <3>1, PrefixNext DEF n
    <3>5. Even(k)
      BY <2>3, <3>1
    <3>6. /\ Total(t.balances) + Queued(p) = Total(s.balances)
          /\ \A i \in Indices(s) : t.balances[i] + AmountFor(p, i) = s.balances[i]
      BY <3>5
    <3>7. \A i \in Indices(s) : AmountFor(P(k + 1), i) <= AmountFor(q, i)
      <4>1. k + 1 \in 0..Len(q)
        BY <1>3, <3>1 DEF n
      <4> QED BY <1>15, <4>1, AmountGrows
    <3>8. Queued(P(k + 1)) = Queued(p) + w.amount /\ Queued(p) \in Nat
      BY <1>15, <3>2, <3>4, QueuedAppended
    <3>9. \A i \in Indices(s) : /\ AmountFor(P(k + 1), i) = AmountFor(p, i) + (IF w.index = i THEN w.amount ELSE 0)
                                /\ AmountFor(p, i) \in Nat
      <4> DEFINE r == P(k + 1)
      <4>1. r = Append(p, w) /\ p \in Seq(T) /\ w \in T
        BY <3>2, <3>4
      <4> HIDE DEF p, w, r
      <4>2. \A i \in Indices(s) : AmountFor(r, i) = AmountFor(p, i) + (IF w.index = i THEN w.amount ELSE 0)
        BY <1>15, <4>1, AmountForIs
      <4>3. \A i \in Indices(s) : AmountFor(p, i) \in Nat
        BY <1>15, <4>1, AmountForIs
      <4> QED BY <4>2, <4>3 DEF r
    <3> HIDE DEF P, t, w, u, p
    <3>10. /\ t.balances \in Seq(Nat) /\ DOMAIN t.balances = Indices(s)
           /\ \A i \in Indices(s) : t.balances[i] \in Nat /\ s.balances[i] \in Nat
      BY <1>2, <3>3, Fields DEF Good
    <3>11. w.amount <= t.balances[w.index]
      <4>1. /\ AmountFor(P(k + 1), w.index) = AmountFor(p, w.index) + w.amount /\ AmountFor(p, w.index) \in Nat
            /\ AmountFor(q, w.index) <= s.balances[w.index] /\ AmountFor(P(k + 1), w.index) <= AmountFor(q, w.index)
            /\ t.balances[w.index] + AmountFor(p, w.index) = s.balances[w.index]
        BY <1>16, <3>2, <3>6, <3>7, <3>9
      <4>2. AmountFor(q, w.index) \in Nat /\ t.balances[w.index] \in Nat
        BY <1>15, <3>2, <3>10, AmountForIs
      <4> QED BY <3>2, <4>1, <4>2
    <3>12. /\ Total(u.balances) + w.amount = Total(t.balances)
           /\ u.balances = [t.balances EXCEPT ![w.index] = Larger(t.balances[w.index] - w.amount, 0)]
      BY <3>2, <3>3, <3>11, BalanceDown
    <3>13. u.balances = [t.balances EXCEPT ![w.index] = t.balances[w.index] - w.amount]
      <4>1. t.balances[w.index] \in Nat
        BY <3>2, <3>10
      <4>2. Larger(t.balances[w.index] - w.amount, 0) = t.balances[w.index] - w.amount
        <5>1. t.balances[w.index] - w.amount \in Nat
          BY <3>2, <3>11, <4>1
        <5> QED BY <5>1, LargerIs
      <4> QED BY <3>12, <4>2
    <3>14. \A i \in Indices(s) : u.balances[i] + AmountFor(P(k + 1), i) = s.balances[i]
      <4> SUFFICES ASSUME NEW i \in Indices(s) PROVE u.balances[i] + AmountFor(P(k + 1), i) = s.balances[i]
        OBVIOUS
      <4>1. /\ t.balances[i] \in Nat /\ AmountFor(p, i) \in Nat /\ t.balances[i] + AmountFor(p, i) = s.balances[i]
            /\ AmountFor(P(k + 1), i) = AmountFor(p, i) + (IF w.index = i THEN w.amount ELSE 0)
        BY <3>6, <3>9, <3>10
      <4>2. u.balances[i] = IF w.index = i THEN t.balances[i] - w.amount ELSE t.balances[i]
        BY <3>10, <3>13
      <4> QED BY <3>2, <4>1, <4>2
    <3>15. Total(u.balances) + Queued(P(k + 1)) = Total(s.balances)
      <4>1. u.balances \in Seq(Nat)
        <5>1. u \in M
          BY <1>13, <3>1 DEF u
        <5> QED BY <5>1 DEF M, StateType
      <4>2. Total(u.balances) \in Nat /\ Total(t.balances) \in Nat
        BY <3>10, <4>1, TotalIs
      <4> QED BY <3>2, <3>6, <3>8, <3>12, <4>2
    <3> QED BY <3>14, <3>15 DEF u
  <2> HIDE DEF K
  <2>4. Nat \subseteq K
    BY <2>2, <2>3, SetInduction
  <2>5. Even(n)
    BY <1>3, <2>4 DEF K
  <2> QED BY <2>1, <2>5
<1> QED BY <1>1, <1>3, <1>11, <1>12, <1>16 DEF M

\* process_withdrawals/2 pays out and takes what it looked at off the queue.
LEMMA WithdrawalsGood ==
    ASSUME NEW s, Good(s), NEW count \in 0..Len(BridgeDeposits)
    PROVE  LET t == [process_withdrawals(s) EXCEPT !.deposit_count = count]
           IN  /\ Step(s, t) /\ t.validators = s.validators /\ t.consolidations = s.consolidations
               /\ t.failed = s.failed /\ t.deposits = s.deposits /\ t.exits = s.exits
               /\ t.balances = decrease_balances(s, get_expected_withdrawals(s)).balances
               /\ get_expected_withdrawals(s) \in Seq(WithdrawalType(s))
<1> DEFINE p == PartialWithdrawals(s)
           sweep == Sweep(s, p.out)
           all == p.out \o sweep
           q == SubSeq(all, 1, Smaller(Len(all), MAX_WITHDRAWALS_PER_PAYLOAD))
           d == decrease_balances(s, q)
           next == update_next_withdrawal_validator_index(s, q)
           T == WithdrawalType(s)
<1>1. p.done \in Nat /\ p.out \in Seq(T)
  BY PartialsPaid
<1>2. sweep \in Seq(T)
  BY <1>1, SweepPays
<1> HIDE DEF p, sweep, T
<1>3. q \in Seq(T)
  <2>1. all \in Seq(T) /\ Len(all) \in Nat
    BY <1>1, <1>2
  <2> HIDE DEF all
  <2>2. Smaller(Len(all), MAX_WITHDRAWALS_PER_PAYLOAD) \in Nat /\ Smaller(Len(all), MAX_WITHDRAWALS_PER_PAYLOAD) <= Len(all)
    <3>1. MAX_WITHDRAWALS_PER_PAYLOAD \in Nat
      BY ChainSpecAssumption
    <3> QED BY <2>1, <3>1, SmallerIs
  <2> QED BY <2>1, <2>2
<1>4. q = get_expected_withdrawals(s)
  BY DEF get_expected_withdrawals, p, sweep
<1> HIDE DEF q
<1>5. next \in Nat
  <2>1. Len(s.validators) \in Nat \ {0} /\ s.next_withdrawal_validator_index \in Nat
    BY Fields DEF Good, StateOK, StateType
  <2>2. MAX_WITHDRAWALS_PER_PAYLOAD \in Nat \ {0} /\ MAX_VALIDATORS_PER_WITHDRAWALS_SWEEP \in Nat
    BY ChainSpecAssumption
  <2>3. CASE Len(q) = MAX_WITHDRAWALS_PER_PAYLOAD
    <3>1. q[Len(q)] \in T
      BY <1>3, <2>2, <2>3
    <3>2. q[Len(q)].index \in Indices(s)
      BY <3>1 DEF T, WithdrawalType
    <3>3. q[Len(q)].index \in Nat
      BY <2>1, <3>2, Fields DEF Good
    <3>4. next = q[Len(q)].index % Len(s.validators)
      BY <2>3 DEF update_next_withdrawal_validator_index, Last
    <3> QED BY <2>1, <3>3, <3>4
  <2>4. CASE Len(q) # MAX_WITHDRAWALS_PER_PAYLOAD
    <3>1. next = (s.next_withdrawal_validator_index + MAX_VALIDATORS_PER_WITHDRAWALS_SWEEP) % Len(s.validators)
      BY <2>4 DEF update_next_withdrawal_validator_index
    <3>2. s.next_withdrawal_validator_index + MAX_VALIDATORS_PER_WITHDRAWALS_SWEEP \in Nat
      BY <2>1, <2>2
    <3> QED BY <2>1, <3>1, <3>2
  <2> QED BY <2>3, <2>4
<1>6. Step(s, d) /\ Alike(s, d) /\ d.validators = s.validators /\ d.exits = s.exits /\ d.failed = s.failed
  BY <1>3, PayoutsGood DEF T
<1>7. process_withdrawals(s) = [d EXCEPT !.partials = Drop(@, p.done), !.next_withdrawal_validator_index = next]
  BY <1>4 DEF process_withdrawals, p
<1> HIDE DEF d, next
<1> DEFINE t == [process_withdrawals(s) EXCEPT !.deposit_count = count]
<1>8. Good(d) /\ d \in StateType /\ d.partials \in Seq(PartialType) /\ d.consolidations \in Seq(ConsolidationType)
  BY <1>6 DEF Step, Good, StateOK, StateType
<1>9. t = [d EXCEPT !.partials = Drop(d.partials, p.done), !.next_withdrawal_validator_index = next, !.deposit_count = count]
  BY <1>7, <1>8 DEF StateType
<1> HIDE DEF t
<1>10. /\ t.partials = Drop(d.partials, p.done) /\ t.validators = d.validators /\ t.balances = d.balances
       /\ t.slot = d.slot /\ t.finalized = d.finalized /\ t.exits = d.exits /\ t.consolidating = d.consolidating
       /\ t.consolidations = d.consolidations /\ t.failed = d.failed /\ t.deposits = d.deposits
  BY <1>8, <1>9 DEF StateType
<1>11. Drop(d.partials, p.done) \in Seq(PartialType)
  BY <1>1, <1>8, DropIs
<1>12. t \in StateType
  BY <1>5, <1>8, <1>9, <1>11 DEF StateType
<1>13. t.consolidations = Drop(d.consolidations, 0)
  <2>1. Drop(d.consolidations, 0) = d.consolidations
    BY <1>8 DEF Drop
  <2> QED BY <1>10, <2>1
<1>14. Step(d, t)
  BY <1>1, <1>8, <1>10, <1>12, <1>13, QueuesDropped
<1>15. Step(s, t)
  BY <1>6, <1>14, StepTwice
<1>16. t.balances = decrease_balances(s, get_expected_withdrawals(s)).balances
  BY <1>4, <1>10 DEF d
<1>17. get_expected_withdrawals(s) \in Seq(WithdrawalType(s))
  BY <1>3, <1>4 DEF T
<1> QED BY <1>6, <1>10, <1>15, <1>16, <1>17 DEF t, Alike, Near

\* A deposit that came before requests did: process_deposit/2.
LEMMA ContractDepositGood ==
    ASSUME NEW s, Good(s), NEW d \in DepositType
    PROVE  LET t == process_deposit(s, d)
           IN  Step(s, t) /\ t.consolidations = s.consolidations /\ t.failed = s.failed
               /\ Total(t.balances) = Total(s.balances) /\ t.exits = s.exits
<1> DEFINE a == [s EXCEPT !.eth1_deposit_index = @ + 1]
           new == add_validator_to_registry(a, d.key, d.credentials, 0)
           p == PendingDeposit(d, 0)
           Queued1(x) == [x EXCEPT !.deposits = Append(@, p)]
<1>1. s \in StateType /\ s.eth1_deposit_index + 1 \in Nat
  BY DEF Good, StateOK, StateType
<1>2. /\ a \in StateType /\ a.validators = s.validators /\ a.balances = s.balances /\ a.failed = s.failed
      /\ a.slot = s.slot /\ a.finalized = s.finalized /\ a.exits = s.exits /\ a.consolidating = s.consolidating
      /\ a.partials = s.partials /\ a.consolidations = s.consolidations
  BY <1>1 DEF StateType
<1>3. process_deposit(s, d) = apply_deposit(a, d)
  BY DEF process_deposit
<1> HIDE DEF a
<1>4. Step(s, a)
  BY <1>2, RegistrySame
<1>5. d.key \in Keys /\ d.credentials \in Credentials /\ d.amount \in Nat /\ d.signed \in BOOLEAN
  BY DEF DepositType
<1>6. p \in PendingDepositType
  BY <1>5 DEF PendingDeposit, PendingDepositType
<1>7. Step(a, new) /\ new.consolidations = a.consolidations /\ new.failed = a.failed /\ new.exits = a.exits
  BY <1>4, <1>5, AddGood DEF Step
<1>13. Total(new.balances) = Total(s.balances)
  <2>1. s.balances \in Seq(Nat)
    BY <1>1 DEF StateType
  <2>2. Total(Append(s.balances, 0)) = Total(s.balances) + 0 /\ Total(s.balances) \in Nat
    BY <2>1, TotalIs
  <2>3. new.balances = Append(s.balances, 0)
    BY <1>2 DEF add_validator_to_registry, StateType
  <2> HIDE DEF new
  <2> QED BY <2>2, <2>3
<1>8. \/ apply_deposit(a, d) = a
      \/ apply_deposit(a, d) = Queued1(a)
      \/ apply_deposit(a, d) = Queued1(new)
  BY DEF apply_deposit
<1> HIDE DEF p, new
<1>9. ASSUME NEW x, Good(x) PROVE Step(x, Queued1(x)) /\ Queued1(x).consolidations = x.consolidations /\ Queued1(x).failed = x.failed
                                  /\ Queued1(x).balances = x.balances /\ Queued1(x).exits = x.exits
  BY <1>6, <1>9, DepositQueued DEF Alike, Near
<1> HIDE DEF Queued1
<1>10. Step(s, new)
  BY <1>4, <1>7, StepTwice DEF Step
<1>11. Good(a) /\ Good(new)
  BY <1>4, <1>10 DEF Step
<1>12. Step(s, Queued1(a)) /\ Step(s, Queued1(new))
  BY <1>4, <1>9, <1>10, <1>11, StepTwice
<1> QED BY <1>2, <1>3, <1>4, <1>7, <1>8, <1>9, <1>11, <1>12, <1>13

\* All that a block must carry.
LEMMA ContractDepositsGood ==
    ASSUME NEW s, Good(s), NEW q \in Seq(DepositType)
    PROVE  LET t == FoldLeft(process_deposit, s, q)
           IN  /\ Step(s, t) /\ t.consolidations = s.consolidations /\ t.failed = s.failed
               /\ Total(t.balances) = Total(s.balances) /\ t.exits = s.exits
<1> DEFINE n == Len(q)
           Op(t, d) == process_deposit(t, d)
           it == CHOOSE h : h = [x \in SUBSET (DOMAIN q) |-> IF x = {} THEN s ELSE Op(h[x \ {Max(x)}], q[Max(x)])]
           Same(t) == /\ Step(s, t) /\ t.consolidations = s.consolidations /\ t.failed = s.failed
                      /\ Total(t.balances) = Total(s.balances) /\ t.exits = s.exits
           M == {t \in StateType : Same(t)}
           g == [p \in (1..n) \X M |-> Op(p[2], q[p[1]])]
<1>1. FoldLeft(process_deposit, s, q) = it[DOMAIN q]
  BY DEF FoldLeft, MapThenFoldSet
<1>2. StateOK(s) /\ s \in StateType
  BY DEF Good, StateOK
<1>3. n \in Nat /\ DOMAIN q = 1..n /\ \A k \in 1..n : q[k] \in DepositType
  OBVIOUS
<1> HIDE DEF n
<1>4. s \in M
  BY <1>2, RegistrySame
<1>5. ASSUME NEW k \in 1..n, NEW t \in M PROVE Op(t, q[k]) \in M
  <2> DEFINE u == process_deposit(t, q[k])
  <2>1. Same(t) /\ Good(t)
    BY DEF Step
  <2>2. Step(t, u) /\ u.consolidations = t.consolidations /\ u.failed = t.failed /\ Total(u.balances) = Total(t.balances)
        /\ u.exits = t.exits
    BY <1>3, <2>1, ContractDepositGood
  <2> HIDE DEF u
  <2>3. Same(u)
    BY <2>1, <2>2, StepTwice
  <2>4. u \in StateType
    BY <2>2 DEF Step, Good, StateOK
  <2> QED BY <2>3, <2>4 DEF u
<1> HIDE DEF M, Op
<1>6. g \in [(1..n) \X M -> M] /\ \A k \in 1..n, t \in M : g[<<k, t>>] = Op(t, q[k])
  BY <1>5
<1> HIDE DEF g
<1>7. PICK run : IsRun(run, n, M, s, g)
  BY <1>3, <1>4, <1>6, RunExists
<1>8. \E h : h = [x \in SUBSET (1..n) |-> IF x = {} THEN s ELSE Op(h[x \ {Max(x)}], q[Max(x)])]
  <2>1. PICK h \in [SUBSET (1..n) -> M] : IsFoldOf(h, n, M, s, g)
    BY <1>3, <1>4, <1>6, RunExists
  <2>2. \A x \in SUBSET (1..n) : x # {} => h[x \ {Max(x)}] \in M /\ Max(x) \in 1..n
    BY <1>3, MaxChooses
  <2>3. \A x \in SUBSET (1..n) : x # {} => h[x] = Op(h[x \ {Max(x)}], q[Max(x)])
    BY <1>6, <2>1, <2>2 DEF IsFoldOf
  <2> QED BY <2>1, <2>3 DEF IsFoldOf
<1>9. it = [x \in SUBSET (1..n) |-> IF x = {} THEN s ELSE Op(it[x \ {Max(x)}], q[Max(x)])]
  BY <1>3, <1>8
<1> HIDE DEF it
<1>10. IsFoldOf(it, n, M, s, g)
  <2>1. \A x \in SUBSET (1..n) : x # {} => Max(x) \in 1..n /\ it[x] = Op(it[x \ {Max(x)}], q[Max(x)])
    BY <1>3, <1>9, MaxChooses
  <2>2. it[{}] = s
    BY <1>9
  <2>3. \A x \in SUBSET (1..n) : x # {} /\ it[x \ {Max(x)}] \in M => it[x] = g[<<Max(x), it[x \ {Max(x)}]>>]
    BY <1>6, <2>1
  <2> QED BY <2>2, <2>3 DEF IsFoldOf
<1>11. it[1..n] = run[n]
  BY <1>3, <1>7, <1>10, RunUnique
<1>12. run[n] \in M
  BY <1>3, <1>7 DEF IsRun
<1> QED BY <1>1, <1>3, <1>11, <1>12 DEF M
-----------------------------------------------------------------------------
(* The passes of an epoch.                                                  *)

\* An epoch's pass: it need not leave alone what is active now.
Pass(s, t) == Good(t) /\ Follows(s, t)

\* Passes go together.
LEMMA PassTwice ==
    ASSUME NEW s, NEW t, NEW u, Good(s), Pass(s, t), Pass(t, u)
    PROVE  Pass(s, u)
  BY FollowsTwice DEF Pass, Good

\* One validator of a state set anew.
LEMMA ValidatorSet ==
    ASSUME NEW s, StateOK(s), NEW i \in Indices(s), NEW w \in ValidatorType
    PROVE  LET t == [s EXCEPT !.validators = [s.validators EXCEPT ![i] = w]]
           IN  /\ Alike(s, t) /\ t.exits = s.exits /\ t.balances = s.balances /\ t.failed = s.failed
               /\ t.validators = [s.validators EXCEPT ![i] = w]
               /\ \A j \in Indices(s) \ {i} : t.validators[j] = s.validators[j]
               /\ Good(s) /\ Kept(s.validators[i], w, get_current_epoch(s)) /\ Life(w, s.consolidating.epoch) => Pass(s, t)
<1> DEFINE t == [s EXCEPT !.validators = [s.validators EXCEPT ![i] = w]]
<1>1. s \in StateType /\ i \in DOMAIN s.validators /\ s.validators \in Seq(ValidatorType)
  BY Fields DEF StateOK, Indices
<1>2. s.consolidating.epoch \in Nat /\ s.exits.epoch \in Nat
  BY <1>1, Fields DEF ChurnQueue
<1>3. /\ t.validators = [s.validators EXCEPT ![i] = w] /\ t.balances = s.balances /\ t.exits = s.exits
      /\ t.slot = s.slot /\ t.finalized = s.finalized /\ t.consolidating = s.consolidating
      /\ t.partials = s.partials /\ t.consolidations = s.consolidations /\ t.failed = s.failed
  BY <1>1 DEF StateType
<1>4. [s.validators EXCEPT ![i] = w] \in Seq(ValidatorType)
  BY <1>1
<1>5. t \in StateType
  BY <1>1, <1>4 DEF StateType
<1> HIDE DEF t
<1>6. Len(t.validators) = Len(s.validators) /\ \A j \in Indices(s) \ {i} : t.validators[j] = s.validators[j]
  BY <1>1, <1>3 DEF Indices
<1>7. s.exits.epoch <= t.exits.epoch /\ s.consolidating.epoch <= t.consolidating.epoch
  BY <1>2, <1>3
<1>8. ASSUME Good(s), Kept(s.validators[i], w, get_current_epoch(s)), Life(w, s.consolidating.epoch) PROVE Pass(s, t)
  BY <1>3, <1>5, <1>7, <1>8, OneValidator DEF Pass
<1> QED BY <1>3, <1>5, <1>6, <1>8 DEF Alike, Near, t

\* The registry pass over one validator, whatever the state: the fields keep
\* their types, and no other validator changes.
LEMMA RegistryUpdateAlike ==
    ASSUME NEW s, StateOK(s), NEW i \in Indices(s), NEW v, NEW epoch \in Nat
    PROVE  LET t == handle_validator_registry_update(s, v, i, epoch)
           IN  /\ Alike(s, t) /\ t.balances = s.balances /\ \A j \in Indices(s) \ {i} : t.validators[j] = s.validators[j]
               /\ t.validators[i].effective = s.validators[i].effective
               /\ \/ t = initiate_validator_exit(s, i)
                  \/ t.exits = s.exits /\ t.validators[i].exit = s.validators[i].exit
<1> DEFINE t == handle_validator_registry_update(s, v, i, epoch)
           u == s.validators[i]
           a == [u EXCEPT !.eligibility = epoch + 1]
           b == [u EXCEPT !.activation = compute_activation_exit_epoch(epoch)]
           Set(w) == [s EXCEPT !.validators = [s.validators EXCEPT ![i] = w]]
<1>1. s \in StateType /\ u \in ValidatorType
  BY Fields DEF StateOK
<1>2. epoch + 1 \in Nat /\ compute_activation_exit_epoch(epoch) \in Nat
  BY ChainSpecAssumption DEF compute_activation_exit_epoch
<1>3. /\ a \in ValidatorType /\ b \in ValidatorType /\ a.effective = u.effective /\ b.effective = u.effective
      /\ a.exit = u.exit /\ b.exit = u.exit
  <2> HIDE DEF u
  <2> QED BY <1>1, <1>2 DEF ValidatorType
<1>4. t = Set(a) \/ t = initiate_validator_exit(s, i) \/ t = Set(b) \/ t = s
  BY DEF handle_validator_registry_update
<1>5. Alike(s, s)
  BY <1>1 DEF Alike, Near
<1> DEFINE Ok(x) == /\ Alike(s, x) /\ x.balances = s.balances /\ \A j \in Indices(s) \ {i} : x.validators[j] = s.validators[j]
                    /\ x.validators[i].effective = s.validators[i].effective
                    /\ \/ x = initiate_validator_exit(s, i)
                       \/ x.exits = s.exits /\ x.validators[i].exit = s.validators[i].exit
<1> HIDE DEF t, a, b
<1>6. Ok(Set(a)) /\ Ok(Set(b))
  <2> SUFFICES ASSUME NEW w \in ValidatorType, w.effective = u.effective, w.exit = u.exit PROVE Ok(Set(w))
    BY <1>3
  <2>1. /\ Alike(s, Set(w)) /\ Set(w).balances = s.balances /\ Set(w).exits = s.exits
        /\ Set(w).validators = [s.validators EXCEPT ![i] = w]
        /\ \A j \in Indices(s) \ {i} : Set(w).validators[j] = s.validators[j]
    BY ValidatorSet
  <2> HIDE DEF Set
  <2>2. Set(w).validators[i] = w
    BY <2>1 DEF Indices
  <2> QED BY <2>1, <2>2
<1>7. Ok(initiate_validator_exit(s, i))
  <2>1. /\ Alike(s, initiate_validator_exit(s, i)) /\ initiate_validator_exit(s, i).balances = s.balances
        /\ \A j \in Indices(s) \ {i} : initiate_validator_exit(s, i).validators[j] = s.validators[j]
    BY ExitAlike
  <2>2. initiate_validator_exit(s, i).validators[i].effective = s.validators[i].effective
    BY ExitEffective
  <2> QED BY <2>1, <2>2
<1>8. Ok(s)
  BY <1>5
<1> HIDE DEF Set
<1>9. Ok(t)
  <2> HIDE DEF Ok
  <2> QED BY <1>4, <1>6, <1>7, <1>8
<1> QED BY <1>9 DEF t

\* The pass over one validator as it was when the pass began.
LEMMA RegistryUpdateGood ==
    ASSUME NEW s, Good(s), NEW i \in Indices(s)
    PROVE  Pass(s, handle_validator_registry_update(s, s.validators[i], i, get_current_epoch(s)))
<1> DEFINE v == s.validators[i]
           epoch == get_current_epoch(s)
           first == compute_activation_exit_epoch(epoch)
           t == handle_validator_registry_update(s, v, i, epoch)
           a == [v EXCEPT !.eligibility = epoch + 1]
           b == [v EXCEPT !.activation = first]
           Set(w) == [s EXCEPT !.validators = [s.validators EXCEPT ![i] = w]]
<1>1. StateOK(s) /\ s \in StateType /\ v \in ValidatorType /\ epoch \in Nat
  BY Fields DEF Good, StateOK
<1>2. /\ v.activation \in Nat /\ v.exit \in Nat /\ v.eligibility \in Nat /\ v.withdrawable \in Nat /\ v.slashed \in BOOLEAN
      /\ s.finalized \in Nat
  BY <1>1, Fields DEF ValidatorType
<1>3. first \in Nat /\ epoch < first /\ first < FAR_FUTURE_EPOCH /\ s.finalized <= epoch
  BY <1>1, Fields, EpochNat DEF Good, InTime
<1>4. Life(v, s.consolidating.epoch)
  BY DEF Good
<1>5. \/ v.eligibility = FAR_FUTURE_EPOCH /\ t = Set(a)
      \/ v.activation <= epoch /\ t = initiate_validator_exit(s, i)
      \/ v.eligibility <= s.finalized /\ v.activation = FAR_FUTURE_EPOCH /\ t = Set(b)
      \/ t = s
  BY DEF handle_validator_registry_update, eligible_for_activation_queue, active_validator, eligible_for_activation
<1> HIDE DEF t, first
<1>6. CASE v.eligibility = FAR_FUTURE_EPOCH /\ t = Set(a)
  <2> HIDE DEF v, epoch
  <2>1. /\ a \in ValidatorType /\ a.eligibility = epoch + 1 /\ a.activation = v.activation /\ a.exit = v.exit
        /\ a.withdrawable = v.withdrawable /\ a.slashed = v.slashed
    BY <1>1 DEF ValidatorType
  <2> HIDE DEF a
  <2>2. Kept(v, a, epoch)
    BY <1>2, <2>1 DEF Kept
  <2>3. v.activation # FAR_FUTURE_EPOCH => FAR_FUTURE_EPOCH <= v.activation
    BY <1>4, <1>6 DEF Life
  <2>4. a.activation # FAR_FUTURE_EPOCH => a.eligibility <= a.activation
    BY <1>1, <1>2, <1>3, <2>1, <2>3, Delays
  <2>5. Life(a, s.consolidating.epoch)
    BY <1>4, <2>1, <2>4 DEF Life
  <2>6. Pass(s, Set(a))
    BY <1>1, <2>1, <2>2, <2>5, ValidatorSet DEF v, epoch
  <2> QED BY <1>6, <2>6 DEF v, epoch, t
<1>7. CASE v.activation <= epoch /\ t = initiate_validator_exit(s, i)
  <2>1. v.exit = FAR_FUTURE_EPOCH => v.activation <= epoch
    BY <1>7
  <2>2. Pass(s, initiate_validator_exit(s, i))
    BY <2>1, ExitGood DEF Pass
  <2> QED BY <1>7, <2>2 DEF t
<1>8. CASE v.eligibility <= s.finalized /\ v.activation = FAR_FUTURE_EPOCH /\ t = Set(b)
  <2> HIDE DEF v, epoch
  <2>1. /\ b \in ValidatorType /\ b.eligibility = v.eligibility /\ b.activation = first /\ b.exit = v.exit
        /\ b.withdrawable = v.withdrawable /\ b.slashed = v.slashed
    BY <1>1, <1>3 DEF ValidatorType
  <2> HIDE DEF b
  <2>2. Kept(v, b, epoch)
    BY <1>2, <1>8, <2>1 DEF Kept
  <2>3. b.eligibility <= b.activation
    BY <1>1, <1>2, <1>3, <1>8, <2>1
  <2>4. b.exit # FAR_FUTURE_EPOCH => b.activation < b.exit /\ b.exit + DELAY <= b.withdrawable
    <3>1. v.exit # FAR_FUTURE_EPOCH => FAR_FUTURE_EPOCH < v.exit /\ v.exit + DELAY <= v.withdrawable
      BY <1>4, <1>8 DEF Life
    <3> QED BY <1>2, <1>3, <2>1, <3>1, Delays
  <2>5. Life(b, s.consolidating.epoch)
    BY <1>4, <2>1, <2>3, <2>4 DEF Life
  <2>6. Pass(s, Set(b))
    BY <1>1, <2>1, <2>2, <2>5, ValidatorSet DEF v, epoch
  <2> QED BY <1>8, <2>6 DEF v, epoch, t
<1>9. CASE t = s
  <2>1. Step(s, s)
    BY <1>1, RegistrySame
  <2> QED BY <1>9, <2>1 DEF Pass, Step, t
<1> QED BY <1>5, <1>6, <1>7, <1>8, <1>9

\* The registry pass, over all validators.
LEMMA RegistryPassGood ==
    ASSUME NEW s, Good(s)
    PROVE  LET t == process_registry_updates(s)
           IN  Pass(s, t) /\ Alike(s, t) /\ t.balances = s.balances /\ Churns(s, t)
<1> DEFINE n == Len(s.validators)
           Op(t, i) == IF t.failed THEN t
                       ELSE handle_validator_registry_update(t, s.validators[i], i, get_current_epoch(s))
           id == [i \in DOMAIN s.validators |-> i]
           it == CHOOSE h : h = [x \in SUBSET (DOMAIN id) |->
                                    IF x = {} THEN s ELSE Op(h[x \ {Max(x)}], id[Max(x)])]
           M == {t \in StateType : /\ Alike(s, t) /\ t.balances = s.balances
                                 /\ \A j \in Indices(s) : t.validators[j].effective = s.validators[j].effective}
           g == [q \in (1..n) \X M |-> Op(q[2], q[1])]
<1>1. process_registry_updates(s) = it[DOMAIN id]
  BY DEF process_registry_updates, FoldLeftDomain, FoldLeft, MapThenFoldSet
<1>2. StateOK(s) /\ s \in StateType /\ n \in Nat /\ Indices(s) = 1..n /\ get_current_epoch(s) \in Nat
  BY Fields DEF Good, StateOK
<1>3. DOMAIN id = 1..n /\ \A k \in 1..n : id[k] = k
  BY <1>2 DEF Indices
<1> HIDE DEF id, n
<1>4. s \in M
  BY <1>2 DEF Alike, Near
<1>5. ASSUME NEW k \in 1..n, NEW t \in M
      PROVE  Op(t, k) \in M /\ \A j \in (1..n) \ {k} : Op(t, k).validators[j] = t.validators[j]
  <2> DEFINE u == handle_validator_registry_update(t, s.validators[k], k, get_current_epoch(s))
  <2>1. StateOK(t) /\ Indices(t) = 1..n /\ Alike(s, t)
    BY <1>2, AlikeOK
  <2>2. /\ Alike(t, u) /\ u.balances = t.balances /\ \A j \in (1..n) \ {k} : u.validators[j] = t.validators[j]
        /\ u.validators[k].effective = t.validators[k].effective
    <3>1. k \in Indices(t)
      BY <2>1
    <3>2. /\ Alike(t, u) /\ u.balances = t.balances /\ \A j \in Indices(t) \ {k} : u.validators[j] = t.validators[j]
          /\ u.validators[k].effective = t.validators[k].effective
      BY <1>2, <2>1, <3>1, RegistryUpdateAlike
    <3> QED BY <2>1, <3>2
  <2> HIDE DEF u
  <2>3. Alike(s, u)
    BY <2>1, <2>2, AlikeTwice
  <2>4. u \in M
    BY <1>2, <2>2, <2>3 DEF Alike, Near
  <2>5. CASE t.failed
    BY <2>5
  <2>6. CASE ~t.failed
    BY <2>2, <2>4, <2>6 DEF u
  <2> QED BY <2>5, <2>6
<1>6. ASSUME NEW k \in 1..n, NEW t \in M, Pass(s, t), t.validators[k] = s.validators[k]
      PROVE  Pass(s, Op(t, k))
  <2> DEFINE u == handle_validator_registry_update(t, t.validators[k], k, get_current_epoch(t))
  <2>1. Indices(t) = 1..n /\ get_current_epoch(t) = get_current_epoch(s) /\ Good(t)
    BY <1>2, <1>6, AlikeOK DEF Alike, Near, get_current_epoch, Pass
  <2>2. Pass(t, u)
    BY <2>1, RegistryUpdateGood
  <2>3. Pass(s, u)
    BY <1>6, <2>2, PassTwice
  <2>4. Op(t, k) = t \/ Op(t, k) = u
    BY <1>6, <2>1
  <2> QED BY <1>6, <2>3, <2>4
<1>17. ASSUME NEW k \in 1..n, NEW t \in M, Churns(s, t), t.validators[k] = s.validators[k]
       PROVE  Churns(s, Op(t, k))
  <2> DEFINE u == handle_validator_registry_update(t, s.validators[k], k, get_current_epoch(s))
  <2>1. StateOK(t) /\ Indices(t) = 1..n /\ k \in Indices(t)
    BY <1>2, AlikeOK
  <2>2. /\ \A j \in Indices(t) \ {k} : u.validators[j] = t.validators[j]
        /\ u = initiate_validator_exit(t, k) \/ (u.exits = t.exits /\ u.validators[k].exit = t.validators[k].exit)
    BY <1>2, <2>1, RegistryUpdateAlike
  <2> HIDE DEF u
  <2>3. CASE u = initiate_validator_exit(t, k)
    BY <1>2, <1>17, <2>1, <2>3, ExitChurns DEF u
  <2>4. CASE u.exits = t.exits /\ u.validators[k].exit = t.validators[k].exit
    <3>1. \A j \in Indices(s) : u.validators[j].exit = t.validators[j].exit
      BY <1>2, <2>1, <2>2, <2>4
    <3>2. Churns(s, u)
      BY <1>2, <1>17, <2>4, <3>1, ChurnsSame
    <3> QED BY <1>17, <3>2 DEF u
  <2> QED BY <2>2, <2>3, <2>4
<1> HIDE DEF M, Op
<1>7. g \in [(1..n) \X M -> M] /\ \A k \in 1..n, t \in M : g[<<k, t>>] = Op(t, k)
  BY <1>5
<1> HIDE DEF g
<1>8. PICK run : IsRun(run, n, M, s, g)
  BY <1>2, <1>4, <1>7, RunExists
<1>9. \E h : h = [x \in SUBSET (1..n) |-> IF x = {} THEN s ELSE Op(h[x \ {Max(x)}], id[Max(x)])]
  <2>1. PICK h \in [SUBSET (1..n) -> M] : IsFoldOf(h, n, M, s, g)
    BY <1>2, <1>4, <1>7, RunExists
  <2>2. \A x \in SUBSET (1..n) : x # {} => h[x \ {Max(x)}] \in M /\ Max(x) \in 1..n
    BY <1>2, MaxChooses
  <2>3. \A x \in SUBSET (1..n) : x # {} => h[x] = Op(h[x \ {Max(x)}], id[Max(x)])
    BY <1>3, <1>7, <2>1, <2>2, ZenonT(40) DEF IsFoldOf
  <2> QED BY <2>1, <2>3 DEF IsFoldOf
<1>10. it = [x \in SUBSET (1..n) |-> IF x = {} THEN s ELSE Op(it[x \ {Max(x)}], id[Max(x)])]
  BY <1>3, <1>9
<1> HIDE DEF it
<1>11. IsFoldOf(it, n, M, s, g)
  <2>1. \A x \in SUBSET (1..n) : x # {} => Max(x) \in 1..n /\ it[x] = Op(it[x \ {Max(x)}], id[Max(x)])
    BY <1>2, <1>10, MaxChooses
  <2>2. it[{}] = s
    BY <1>10
  <2>3. \A x \in SUBSET (1..n) : x # {} /\ it[x \ {Max(x)}] \in M => it[x] = g[<<Max(x), it[x \ {Max(x)}]>>]
    <3> SUFFICES ASSUME NEW x \in SUBSET (1..n), x # {}, it[x \ {Max(x)}] \in M
                 PROVE  it[x] = g[<<Max(x), it[x \ {Max(x)}]>>]
      OBVIOUS
    <3>1. Max(x) \in 1..n /\ id[Max(x)] = Max(x) /\ it[x] = Op(it[x \ {Max(x)}], id[Max(x)])
      BY <1>3, <2>1
    <3> QED BY <1>7, <3>1
  <2> QED BY <2>2, <2>3 DEF IsFoldOf
<1>12. it[1..n] = run[n]
  BY <1>2, <1>8, <1>11, RunUnique
<1> DEFINE K == {k \in Nat : k <= n => /\ run[k] \in M /\ Pass(s, run[k]) /\ Churns(s, run[k])
                                       /\ \A j \in (k + 1)..n : run[k].validators[j] = s.validators[j]}
<1>13. 0 \in K
  <2>1. run[0] = s
    BY <1>8 DEF IsRun
  <2>2. Pass(s, s)
    BY <1>2, RegistrySame DEF Pass, Step
  <2>3. Churns(s, s)
    BY <1>2, ChurnsNothing
  <2> QED BY <1>4, <2>1, <2>2, <2>3
<1>14. ASSUME NEW k \in Nat, k \in K PROVE k + 1 \in K
  <2> SUFFICES ASSUME k + 1 <= n
               PROVE  /\ run[k + 1] \in M /\ Pass(s, run[k + 1]) /\ Churns(s, run[k + 1])
                      /\ \A j \in ((k + 1) + 1)..n : run[k + 1].validators[j] = s.validators[j]
    OBVIOUS
  <2>1. /\ run[k] \in M /\ Pass(s, run[k]) /\ Churns(s, run[k])
        /\ \A j \in (k + 1)..n : run[k].validators[j] = s.validators[j]
    BY <1>2, <1>14
  <2>2. k + 1 \in 1..n /\ (k + 1) - 1 = k /\ k + 1 \in (k + 1)..n
    BY <1>2
  <2>3. run[k + 1] = Op(run[k], k + 1)
    <3>1. run[k + 1] = g[<<k + 1, run[k]>>]
      BY <1>8, <2>2 DEF IsRun
    <3> QED BY <1>7, <2>1, <2>2, <3>1
  <2>4. run[k + 1] \in M /\ \A j \in (1..n) \ {k + 1} : run[k + 1].validators[j] = run[k].validators[j]
    BY <1>5, <2>1, <2>2, <2>3
  <2>5. Pass(s, run[k + 1])
    BY <1>6, <2>1, <2>2, <2>3
  <2>6. \A j \in ((k + 1) + 1)..n : j \in (1..n) \ {k + 1} /\ j \in (k + 1)..n
    BY <1>2
  <2>7. Churns(s, run[k + 1])
    BY <1>17, <2>1, <2>2, <2>3
  <2> QED BY <2>1, <2>4, <2>5, <2>6, <2>7
<1> HIDE DEF K
<1>15. Nat \subseteq K
  BY <1>13, <1>14, SetInduction
<1>16. run[n] \in M /\ Pass(s, run[n]) /\ Churns(s, run[n])
  <2>1. n \in K /\ n <= n
    BY <1>2, <1>15
  <2> QED BY <2>1 DEF K
<1> QED BY <1>1, <1>3, <1>12, <1>16 DEF M

\* Rewards and penalties.
LEMMA RewardsGood ==
    ASSUME NEW s, Good(s), NEW deltas, \A i \in DOMAIN deltas : deltas[i] \in Int
    PROVE  LET t == process_rewards_and_penalties(s, deltas)
           IN  Step(s, t) /\ Alike(s, t) /\ t.validators = s.validators /\ t.failed = s.failed /\ t.exits = s.exits
<1> DEFINE epoch == get_current_epoch(s)
           Rewarded(i) == epoch > 0 /\ i \in DOMAIN deltas /\ eligible_validator(s.validators[i], epoch - 1)
           f == [i \in DOMAIN s.balances |-> IF Rewarded(i) THEN Larger(s.balances[i] + deltas[i], 0) ELSE s.balances[i]]
           n == Len(s.balances)
<1>1. n \in Nat /\ DOMAIN s.balances = 1..n /\ \A i \in 1..n : s.balances[i] \in Nat
  BY Fields DEF Good
<1>2. process_rewards_and_penalties(s, deltas) = [s EXCEPT !.balances = AsSeq(f)]
  BY DEF process_rewards_and_penalties
<1>3. \A i \in 1..n : Rewarded(i) => Larger(s.balances[i] + deltas[i], 0) \in Nat
  <2> SUFFICES ASSUME NEW i \in 1..n, i \in DOMAIN deltas PROVE Larger(s.balances[i] + deltas[i], 0) \in Nat
    OBVIOUS
  <2>1. s.balances[i] + deltas[i] \in Int
    BY <1>1
  <2> QED BY <2>1, LargerIs
<1> HIDE DEF Rewarded, n
<1>4. f \in [1..n -> Nat]
  BY <1>1, <1>3
<1> HIDE DEF f
<1>5. AsSeq(f) \in Seq(Nat) /\ Len(AsSeq(f)) = n
  BY <1>1, <1>4, AsSeqIs
<1>6. LET t == [s EXCEPT !.balances = AsSeq(f)] IN Step(s, t) /\ Alike(s, t) /\ t.validators = s.validators /\ t.failed = s.failed /\ t.exits = s.exits
  BY <1>5, BalancesSet DEF n
<1> QED BY <1>2, <1>6

\* The penalties for slashings around one's own.
LEMMA SlashingsGood ==
    ASSUME NEW s, Good(s)
    PROVE  LET t == process_slashings(s)
           IN  Step(s, t) /\ Alike(s, t) /\ t.validators = s.validators /\ t.failed = s.failed /\ t.exits = s.exits
<1> DEFINE total == get_total_active_balance(s)
           sum == SumOf(s.slashings)
           adjusted == Smaller(sum * PROPORTIONAL_SLASHING_MULTIPLIER, total)
           per_increment == adjusted \div (total \div EFFECTIVE_BALANCE_INCREMENT)
           Penalty(i) == per_increment * (s.validators[i].effective \div EFFECTIVE_BALANCE_INCREMENT)
           f == [i \in DOMAIN s.balances |-> IF i \in PenaltyDue(s) THEN Larger(s.balances[i] - Penalty(i), 0) ELSE s.balances[i]]
           n == Len(s.balances)
<1>1. StateOK(s) /\ n \in Nat /\ DOMAIN s.balances = 1..n /\ Indices(s) = 1..n /\ \A i \in 1..n : s.balances[i] \in Nat
  BY Fields DEF Good
<1>2. process_slashings(s) = [s EXCEPT !.balances = AsSeq(f)]
  BY DEF process_slashings
<1>3. total \in Nat /\ total >= EFFECTIVE_BALANCE_INCREMENT
  BY <1>1, ChurnPositive
<1>4. sum \in Nat
  <2> DEFINE D == 0..(EPOCHS_PER_SLASHINGS_VECTOR - 1)
  <2>1. s.slashings \in [D -> Nat]
    BY <1>1 DEF StateOK, StateType
  <2>2. IsFiniteSet(D)
    BY Delays, FS_Interval
  <2> HIDE DEF D
  <2>3. DOMAIN s.slashings = D /\ \A x \in DOMAIN s.slashings : s.slashings[x] \in Nat
    BY <2>1
  <2> QED BY <2>2, <2>3, SumNat
<1>5. EFFECTIVE_BALANCE_INCREMENT \in Nat \ {0} /\ PROPORTIONAL_SLASHING_MULTIPLIER \in Nat
  BY ChainSpecAssumption
<1> HIDE DEF total, sum, n
<1>6. adjusted \in Nat
  <2>1. sum * PROPORTIONAL_SLASHING_MULTIPLIER \in Nat
    BY <1>4, <1>5
  <2> QED BY <1>3, <2>1, SmallerIs
<1>7. total \div EFFECTIVE_BALANCE_INCREMENT \in Nat \ {0}
  <2> DEFINE N == EFFECTIVE_BALANCE_INCREMENT
             d == total \div N
  <2>1. d \in Nat /\ N * d <= total /\ total < N * d + N
    BY <1>3, <1>5, DivBounds
  <2> HIDE DEF d
  <2>2. d # 0
    BY <1>3, <1>5, <2>1
  <2> QED BY <2>1, <2>2 DEF d
<1> HIDE DEF adjusted
<1>8. per_increment \in Nat
  BY <1>6, <1>7, DivBounds
<1> HIDE DEF per_increment
<1>9. \A i \in 1..n : Penalty(i) \in Nat
  <2> SUFFICES ASSUME NEW i \in 1..n PROVE Penalty(i) \in Nat
    OBVIOUS
  <2>1. s.validators[i].effective \in Nat
    <3>1. s.validators[i] \in ValidatorType
      BY <1>1, Fields DEF Good
    <3> QED BY <3>1 DEF ValidatorType
  <2>2. s.validators[i].effective \div EFFECTIVE_BALANCE_INCREMENT \in Nat
    BY <1>5, <2>1, DivBounds
  <2> QED BY <1>8, <2>2
<1> HIDE DEF Penalty
<1>10. \A i \in 1..n : Larger(s.balances[i] - Penalty(i), 0) \in Nat
  <2> SUFFICES ASSUME NEW i \in 1..n PROVE Larger(s.balances[i] - Penalty(i), 0) \in Nat
    OBVIOUS
  <2>1. s.balances[i] - Penalty(i) \in Int
    BY <1>1, <1>9
  <2> QED BY <2>1, LargerIs
<1>11. f \in [1..n -> Nat]
  BY <1>1, <1>10
<1> HIDE DEF f
<1>12. AsSeq(f) \in Seq(Nat) /\ Len(AsSeq(f)) = n
  BY <1>1, <1>11, AsSeqIs
<1>13. LET t == [s EXCEPT !.balances = AsSeq(f)] IN Step(s, t) /\ Alike(s, t) /\ t.validators = s.validators /\ t.failed = s.failed /\ t.exits = s.exits
  BY <1>12, BalancesSet DEF n
<1> QED BY <1>2, <1>13

\* find_validator/2 finds a validator or none.
LEMMA FindIs ==
    ASSUME NEW s, StateOK(s), NEW key
    PROVE  find_validator(s, key) # 0 => find_validator(s, key) \in Indices(s)
<1> DEFINE I == {i \in 1..Len(s.validators) : s.validators[i].key = key}
<1>1. find_validator(s, key) = IF I # {} THEN Min(I) ELSE 0
  BY DEF find_validator, SelectInSeq
<1>2. I # {} => Min(I) \in I
  <2> SUFFICES ASSUME I # {} PROVE Min(I) \in I
    OBVIOUS
  <2>1. I \subseteq Nat
    BY Fields
  <2> HIDE DEF I
  <2>2. \E m \in I : \A n \in I : m <= n
    BY <2>1, LeastNat
  <2> QED BY <2>2 DEF Min
<1>3. I \subseteq Indices(s)
  BY Fields
<1> HIDE DEF I
<1> QED BY <1>1, <1>2, <1>3

\* A pending deposit is a top-up, a new validator, or nothing.
LEMMA ApplyPendingGood ==
    ASSUME NEW s, Good(s), NEW d \in PendingDepositType
    PROVE  LET t == apply_pending_deposit(s, d)
           IN  Step(s, t) /\ t.failed = s.failed /\ t.partials = s.partials /\ t.consolidations = s.consolidations
               /\ t.deposits = s.deposits /\ t.exits = s.exits
<1> DEFINE i == find_validator(s, d.key)
           up == increase_balance(s, i, d.amount)
           new == add_validator_to_registry(s, d.key, d.credentials, d.amount)
<1>1. StateOK(s) /\ s \in StateType
  BY DEF Good, StateOK
<1>2. i # 0 => i \in Indices(s)
  BY <1>1, FindIs
<1>3. d.key \in Keys /\ d.credentials \in Credentials /\ d.amount \in Nat
  BY DEF PendingDepositType
<1>4. apply_pending_deposit(s, d) = s \/ (i # 0 /\ apply_pending_deposit(s, d) = up) \/ apply_pending_deposit(s, d) = new
  BY DEF apply_pending_deposit
<1> HIDE DEF i
<1>5. i # 0 => Step(s, up) /\ up.failed = s.failed /\ up.partials = s.partials /\ up.consolidations = s.consolidations
             /\ up.deposits = s.deposits /\ up.exits = s.exits
  BY <1>2, <1>3, BalanceMoved DEF Alike, Near
<1>6. Step(s, new) /\ new.failed = s.failed /\ new.partials = s.partials /\ new.consolidations = s.consolidations
      /\ new.deposits = s.deposits /\ new.exits = s.exits
  BY <1>3, AddGood
<1>7. Step(s, s)
  BY <1>1, RegistrySame
<1> HIDE DEF up, new
<1> QED BY <1>4, <1>5, <1>6, <1>7

\* What the loop over the pending deposits starts with, and what it makes of the
\* next deposit; the states it goes through.
DepositBase(s) ==
    [state |-> s, churn_limit_reached |-> FALSE, processed |-> 0, postponed |-> << >>, last |-> 0, halted |-> FALSE]
DepositStep(s, a, d) ==
    IF a.halted THEN a
    ELSE IF DepositMustWait(a.state, d, a.last) THEN [a EXCEPT !.halted = TRUE]
    ELSE handle_pending_deposit(a, d, available_for_processing(s))
DepositStates(s) ==
    {t \in StateType : /\ Step(s, t) /\ t.failed = s.failed /\ t.partials = s.partials
                       /\ t.consolidations = s.consolidations /\ t.deposits = s.deposits /\ t.exits = s.exits}
DepositAcc(s) ==
    [state : DepositStates(s), churn_limit_reached : BOOLEAN, processed : Nat,
     postponed : Seq(PendingDepositType), last : Nat, halted : BOOLEAN]

\* The loop as a run.
LEMMA DepositRun ==
    ASSUME NEW s, Good(s)
    PROVE  \E run \in [0..Len(s.deposits) -> DepositAcc(s)] :
               /\ run[0] = DepositBase(s) /\ run[Len(s.deposits)] = PendingDepositsLoop(s)
               /\ \A k \in 1..Len(s.deposits) : run[k] = DepositStep(s, run[k - 1], s.deposits[k])
<1> DEFINE q == s.deposits
           n == Len(q)
           Op(a, d) == DepositStep(s, a, d)
           base == DepositBase(s)
           it == CHOOSE h : h = [x \in SUBSET (DOMAIN q) |-> IF x = {} THEN base ELSE Op(h[x \ {Max(x)}], q[Max(x)])]
           States == DepositStates(s)
           M == DepositAcc(s)
           g == [p \in (1..n) \X M |-> Op(p[2], q[p[1]])]
<1>1. PendingDepositsLoop(s) = it[DOMAIN q]
  BY DEF PendingDepositsLoop, FoldLeft, MapThenFoldSet, DepositStep, DepositBase
<1>2. StateOK(s) /\ s \in StateType /\ q \in Seq(PendingDepositType)
  BY DEF Good, StateOK, StateType
<1>3. n \in Nat /\ DOMAIN q = 1..n /\ \A k \in 1..n : q[k] \in PendingDepositType
  BY <1>2
<1> HIDE DEF q, n
<1>5. base \in M
  <2>1. s \in States
    BY <1>2, RegistrySame DEF DepositStates
  <2> QED BY <2>1 DEF DepositBase, DepositAcc
<1>6. ASSUME NEW k \in 1..n, NEW a \in M PROVE Op(a, q[k]) \in M
  <2> DEFINE t == apply_pending_deposit(a.state, q[k])
             last == a.last + 1
             processed == a.processed + q[k].amount
             post == Append(a.postponed, q[k])
             A == [a EXCEPT !.halted = TRUE]
             B == [[a EXCEPT !.last = @ + 1] EXCEPT !.state = t]
             C == [[a EXCEPT !.last = @ + 1] EXCEPT !.postponed = Append(@, q[k])]
             D == [a EXCEPT !.halted = TRUE, !.churn_limit_reached = TRUE]
             E == [[a EXCEPT !.last = @ + 1] EXCEPT !.state = t, !.processed = @ + q[k].amount, !.churn_limit_reached = FALSE]
  <2>0. a \in [state : States, churn_limit_reached : BOOLEAN, processed : Nat,
                postponed : Seq(PendingDepositType), last : Nat, halted : BOOLEAN]
    BY DEF DepositAcc
  <2>1. a.state \in States
    BY <2>0
  <2>2. Good(a.state) /\ Step(s, a.state)
    BY <2>1 DEF Step, DepositStates
  <2>3. Step(a.state, t) /\ t.failed = a.state.failed /\ t.partials = a.state.partials
        /\ t.consolidations = a.state.consolidations /\ t.deposits = a.state.deposits /\ t.exits = a.state.exits
    BY <1>3, <2>2, ApplyPendingGood
  <2>4. Op(a, q[k]) \in {a, A, B, C, D, E}
    BY DEF DepositStep, handle_pending_deposit
  <2> HIDE DEF t
  <2>5. t \in States
    <3>1. Step(s, t)
      BY <2>2, <2>3, StepTwice
    <3>2. t \in StateType
      BY <2>3 DEF Step, Good, StateOK
    <3> QED BY <2>1, <2>3, <3>1, <3>2 DEF DepositStates
  <2> USE DEF DepositAcc
  <2>6. q[k] \in PendingDepositType /\ q[k].amount \in Nat
    BY <1>3 DEF PendingDepositType
  <2>7. last \in Nat /\ processed \in Nat /\ post \in Seq(PendingDepositType)
    BY <2>6
  <2>8. A \in M /\ D \in M
    OBVIOUS
  <2>9. B \in M
    BY <2>5, <2>7
  <2>10. C \in M
    BY <2>7
  <2>11. E \in M
    BY <2>5, <2>7
  <2> HIDE DEF A, B, C, D, E, DepositAcc
  <2> QED BY <2>4, <2>8, <2>9, <2>10, <2>11
<1> HIDE DEF M, Op, base
<1>7. g \in [(1..n) \X M -> M] /\ \A k \in 1..n, a \in M : g[<<k, a>>] = Op(a, q[k])
  BY <1>6
<1> HIDE DEF g
<1>8. PICK run : IsRun(run, n, M, base, g)
  BY <1>3, <1>5, <1>7, RunExists
<1>9. \E h : h = [x \in SUBSET (1..n) |-> IF x = {} THEN base ELSE Op(h[x \ {Max(x)}], q[Max(x)])]
  <2>1. PICK h \in [SUBSET (1..n) -> M] : IsFoldOf(h, n, M, base, g)
    BY <1>3, <1>5, <1>7, RunExists
  <2>2. \A x \in SUBSET (1..n) : x # {} => h[x \ {Max(x)}] \in M /\ Max(x) \in 1..n
    BY <1>3, MaxChooses
  <2>3. \A x \in SUBSET (1..n) : x # {} => h[x] = Op(h[x \ {Max(x)}], q[Max(x)])
    BY <1>7, <2>1, <2>2 DEF IsFoldOf
  <2> QED BY <2>1, <2>3 DEF IsFoldOf
<1>10. it = [x \in SUBSET (1..n) |-> IF x = {} THEN base ELSE Op(it[x \ {Max(x)}], q[Max(x)])]
  BY <1>3, <1>9
<1> HIDE DEF it
<1>11. IsFoldOf(it, n, M, base, g)
  <2>1. \A x \in SUBSET (1..n) : x # {} => Max(x) \in 1..n /\ it[x] = Op(it[x \ {Max(x)}], q[Max(x)])
    BY <1>3, <1>10, MaxChooses
  <2>2. it[{}] = base
    BY <1>10
  <2>3. \A x \in SUBSET (1..n) : x # {} /\ it[x \ {Max(x)}] \in M => it[x] = g[<<Max(x), it[x \ {Max(x)}]>>]
    BY <1>7, <2>1
  <2> QED BY <2>2, <2>3 DEF IsFoldOf
<1>12. it[1..n] = run[n]
  BY <1>3, <1>8, <1>11, RunUnique
<1>13. run[n] \in M
  BY <1>3, <1>8 DEF IsRun
<1>14. /\ run \in [0..n -> M] /\ run[0] = base /\ run[n] = PendingDepositsLoop(s)
       /\ \A k \in 1..n : run[k] = Op(run[k - 1], q[k])
  <2>1. \A k \in 1..n : k - 1 \in 0..n
    BY <1>3
  <2> QED BY <1>1, <1>3, <1>7, <1>8, <1>12, <2>1 DEF IsRun
<1> QED BY <1>14 DEF M, Op, base, q, n

\* What the loop over the pending deposits does.
LEMMA DepositsGood ==
    ASSUME NEW s, Good(s)
    PROVE  LET t == process_pending_deposits(s)
               acc == PendingDepositsLoop(s)
           IN  /\ Step(s, t) /\ t.failed = s.failed /\ t.consolidations = s.consolidations /\ t.exits = s.exits
               /\ t.balances = acc.state.balances /\ t.deposits = Drop(s.deposits, acc.last) \o acc.postponed
               /\ acc.postponed \in Seq(PendingDepositType)
<1> DEFINE acc == PendingDepositsLoop(s)
           available == available_for_processing(s)
           States == DepositStates(s)
<1>1. process_pending_deposits(s) =
          [acc.state EXCEPT !.deposits = Drop(@, acc.last) \o acc.postponed,
                            !.deposit_balance_to_consume =
                                IF acc.churn_limit_reached THEN available - acc.processed ELSE 0]
  BY DEF process_pending_deposits
<1>2. s \in StateType /\ s.deposits \in Seq(PendingDepositType) /\ Len(s.deposits) \in 0..Len(s.deposits)
  BY DEF Good, StateOK, StateType
<1>4. available \in Int
  <2>1. s.deposit_balance_to_consume \in Int /\ get_activation_exit_churn_limit(s) \in Nat
    BY <1>2, ChurnPositive DEF StateType, Good
  <2> QED BY <2>1 DEF available_for_processing
<1>14. acc \in DepositAcc(s)
  BY <1>2, DepositRun
<1> HIDE DEF acc, available, States
<1>15. /\ acc.state \in States /\ acc.churn_limit_reached \in BOOLEAN /\ acc.processed \in Nat
       /\ acc.postponed \in Seq(PendingDepositType) /\ acc.last \in Nat
  BY <1>14 DEF DepositAcc, States
<1> DEFINE u == acc.state
           dd == Drop(u.deposits, acc.last) \o acc.postponed
           bb == IF acc.churn_limit_reached THEN available - acc.processed ELSE 0
           t == [u EXCEPT !.deposits = dd, !.deposit_balance_to_consume = bb]
<1>16. /\ u \in StateType /\ Step(s, u) /\ Good(u) /\ u.failed = s.failed /\ u.partials = s.partials
       /\ u.consolidations = s.consolidations /\ u.deposits = s.deposits /\ u.exits = s.exits
  BY <1>15 DEF Step, States, DepositStates
<1>17. process_pending_deposits(s) = t
  BY <1>1, <1>16 DEF StateType
<1>18. dd \in Seq(PendingDepositType) /\ bb \in Int
  <2>1. u.deposits \in Seq(PendingDepositType)
    BY <1>16 DEF StateType
  <2>2. Drop(u.deposits, acc.last) \in Seq(PendingDepositType)
    BY <1>15, <2>1, DropIs
  <2>3. bb \in Int
    BY <1>4, <1>15
  <2> QED BY <1>15, <2>2, <2>3
<1> HIDE DEF u, dd, bb
<1>19. /\ t \in StateType /\ t.validators = u.validators /\ t.balances = u.balances /\ t.failed = u.failed
       /\ t.slot = u.slot /\ t.finalized = u.finalized /\ t.exits = u.exits /\ t.consolidating = u.consolidating
       /\ t.partials = u.partials /\ t.consolidations = u.consolidations /\ t.deposits = dd
  BY <1>16, <1>18 DEF StateType
<1> HIDE DEF t
<1>20. Step(u, t)
  BY <1>16, <1>19, RegistrySame
<1>21. Step(s, t)
  BY <1>16, <1>20, StepTwice
<1> QED BY <1>15, <1>16, <1>17, <1>19, <1>21 DEF acc, u, dd

\* As Ahead, for the epoch that comes next.
AheadNext(s) ==
    s.consolidating.epoch < FAR_FUTURE_EPOCH =>
        \A k \in DOMAIN s.consolidations :
            LET v == s.validators[s.consolidations[k].source]
            IN  ~v.slashed => v.withdrawable > get_current_epoch(s) + 1

\* The pass over the pending consolidations stops at a source that the next
\* epoch does not free; the sources after it are freed no earlier.
LEMMA ConsolidationsGood ==
    ASSUME NEW s, Good(s)
    PROVE  LET t == process_pending_consolidations(s)
           IN  /\ Step(s, t) /\ t.failed = s.failed /\ AheadNext(t) /\ t.exits = s.exits
               /\ Total(t.balances) = Total(s.balances) /\ t.deposits = s.deposits
<1> DEFINE q == s.consolidations
           n == Len(q)
           epoch == get_current_epoch(s) + 1
           Source(c) == s.validators[c.source]
           Move(t, c) ==
              LET moved == Smaller(t.balances[c.source], t.validators[c.source].effective)
              IN  increase_balance(decrease_balance(t, c.source, moved), c.target, moved)
           Op(a, c) == IF a.halted THEN a
                       ELSE IF s.validators[c.source].slashed THEN [a EXCEPT !.done = @ + 1]
                       ELSE IF s.validators[c.source].withdrawable > epoch THEN [a EXCEPT !.halted = TRUE]
                       ELSE [a EXCEPT !.done = @ + 1, !.state = Move(@, c)]
           base == [state |-> s, done |-> 0, halted |-> FALSE]
           it == CHOOSE h : h = [x \in SUBSET (DOMAIN q) |-> IF x = {} THEN base ELSE Op(h[x \ {Max(x)}], q[Max(x)])]
           Same(t) == /\ Step(s, t) /\ Alike(s, t) /\ t.validators = s.validators /\ t.failed = s.failed /\ t.exits = s.exits
                      /\ Total(t.balances) = Total(s.balances)
           States == {t \in StateType : Same(t)}
           M == [state : States, done : Nat, halted : BOOLEAN]
           g == [p \in (1..n) \X M |-> Op(p[2], q[p[1]])]
           acc == it[DOMAIN q]
           Waits(k) == k \in 1..n /\ ~s.validators[q[k].source].slashed /\ s.validators[q[k].source].withdrawable > epoch
<1>1. process_pending_consolidations(s) = [acc.state EXCEPT !.consolidations = Drop(@, acc.done)]
  BY DEF process_pending_consolidations, process_pending_consolidations_by, FoldLeft, MapThenFoldSet
<1>2. StateOK(s) /\ s \in StateType /\ q \in Seq(ConsolidationType) /\ epoch \in Nat
  <2>1. StateOK(s) /\ s \in StateType
    BY DEF Good, StateOK
  <2>2. get_current_epoch(s) \in Nat
    BY <2>1, Fields
  <2>3. q \in Seq(ConsolidationType)
    BY <2>1 DEF StateType
  <2> QED BY <2>1, <2>2, <2>3
<1>3. n \in Nat /\ DOMAIN q = 1..n /\ \A k \in 1..n : q[k] \in ConsolidationType /\ q[k].source \in Indices(s) /\ q[k].target \in Indices(s)
  <2>1. n \in Nat /\ DOMAIN q = 1..n /\ \A k \in 1..n : q[k] \in ConsolidationType
    BY <1>2
  <2> QED BY <1>2, <2>1 DEF StateOK
<1> HIDE DEF q, n, epoch
<1>5. base \in M
  <2>1. s \in States
    BY <1>2, RegistrySame DEF Alike
  <2> HIDE DEF States
  <2> QED BY <2>1
<1>6. ASSUME NEW k \in 1..n, NEW a \in M
      PROVE  /\ Op(a, q[k]) \in M
             /\ a.halted => Op(a, q[k]) = a
             /\ ~a.halted => \/ ~Op(a, q[k]).halted /\ Op(a, q[k]).done = a.done + 1
                             \/ Waits(k) /\ Op(a, q[k]).halted /\ Op(a, q[k]).done = a.done
  <2> DEFINE u == a.state
             moved == Smaller(u.balances[q[k].source], u.validators[q[k].source].effective)
             d == decrease_balance(u, q[k].source, moved)
             t == increase_balance(d, q[k].target, moved)
             A == [a EXCEPT !.halted = TRUE]
             B == [a EXCEPT !.done = @ + 1]
             C == [a EXCEPT !.done = @ + 1, !.state = t]
  <2>1. u \in States /\ a.done \in Nat /\ a.halted \in BOOLEAN
    OBVIOUS
  <2>2. Good(u) /\ Same(u) /\ Indices(u) = Indices(s) /\ StateOK(u)
    BY <1>2, <2>1, AlikeOK DEF Step
  <2>3. q[k].source \in Indices(u) /\ q[k].target \in Indices(u)
    BY <1>3, <2>2
  <2>4. moved \in Nat /\ moved <= u.balances[q[k].source]
    <3>1. u.balances[q[k].source] \in Nat /\ u.validators[q[k].source] \in ValidatorType
      BY <2>2, <2>3, Fields
    <3>2. u.validators[q[k].source].effective \in Nat
      BY <3>1 DEF ValidatorType
    <3> QED BY <3>1, <3>2, SmallerIs
  <2> HIDE DEF moved
  <2>5. Step(u, d) /\ Alike(u, d) /\ d.validators = u.validators /\ d.failed = u.failed /\ d.exits = u.exits
    <3>1. d.exits = u.exits
      BY <2>2 DEF decrease_balance, StateOK, StateType
    <3> QED BY <2>2, <2>3, <2>4, <3>1, BalanceMoved
  <2>6. Good(d) /\ StateOK(d) /\ Indices(d) = Indices(u)
    BY <2>2, <2>5, AlikeOK DEF Step
  <2>7. Step(d, t) /\ Alike(d, t) /\ t.validators = d.validators /\ t.failed = d.failed /\ t.exits = d.exits
    <3>1. t.exits = d.exits
      BY <2>6 DEF increase_balance, StateOK, StateType
    <3>2. q[k].target \in Indices(d)
      BY <2>3, <2>6
    <3> QED BY <2>4, <2>6, <3>1, <3>2, BalanceMoved
  <2>14. Total(t.balances) = Total(u.balances)
    <3>1. Total(d.balances) + moved = Total(u.balances)
      BY <2>2, <2>3, <2>4, BalanceDown
    <3>2. Total(t.balances) = Total(d.balances) + moved
      <4>1. q[k].target \in Indices(d)
        BY <2>3, <2>6
      <4> DEFINE j == q[k].target
      <4>2. Good(d) /\ j \in Indices(d) /\ moved \in Nat
        BY <2>4, <2>6, <4>1
      <4> HIDE DEF d, j
      <4>3. Total(increase_balance(d, j, moved).balances) = Total(d.balances) + moved
        BY <4>2, BalanceUp
      <4> QED BY <4>3 DEF j
    <3> QED BY <3>1, <3>2
  <2> HIDE DEF d, t
  <2>8. t \in States
    <3>1. Step(s, t) /\ Alike(s, t)
      BY <2>2, <2>5, <2>6, <2>7, StepTwice, AlikeTwice
    <3> QED BY <2>2, <2>5, <2>7, <2>14, <3>1 DEF Alike, Near
  <2> HIDE DEF States
  <2>9. a.done + 1 \in Nat
    BY <2>1
  <2>10. A \in M /\ A.halted /\ A.done = a.done
    BY <2>1
  <2>11. B \in M /\ B.halted = a.halted /\ B.done = a.done + 1
    BY <2>1, <2>9
  <2>12. C \in M /\ C.halted = a.halted /\ C.done = a.done + 1
    BY <2>1, <2>8, <2>9
  <2>13. Op(a, q[k]) = IF a.halted THEN a ELSE IF s.validators[q[k].source].slashed THEN B
                       ELSE IF s.validators[q[k].source].withdrawable > epoch THEN A ELSE C
    BY DEF t, d, moved
  <2> HIDE DEF A, B, C, Op, M
  <2> QED BY <2>10, <2>11, <2>12, <2>13
<1> HIDE DEF M, Op, base, Waits
<1>7. g \in [(1..n) \X M -> M] /\ \A k \in 1..n, a \in M : g[<<k, a>>] = Op(a, q[k])
  BY <1>6
<1> HIDE DEF g
<1>8. PICK run : IsRun(run, n, M, base, g)
  BY <1>3, <1>5, <1>7, RunExists
<1>9. \E h : h = [x \in SUBSET (1..n) |-> IF x = {} THEN base ELSE Op(h[x \ {Max(x)}], q[Max(x)])]
  <2>1. PICK h \in [SUBSET (1..n) -> M] : IsFoldOf(h, n, M, base, g)
    BY <1>3, <1>5, <1>7, RunExists
  <2>2. \A x \in SUBSET (1..n) : x # {} => h[x \ {Max(x)}] \in M /\ Max(x) \in 1..n
    BY <1>3, MaxChooses
  <2>3. \A x \in SUBSET (1..n) : x # {} => h[x] = Op(h[x \ {Max(x)}], q[Max(x)])
    BY <1>7, <2>1, <2>2 DEF IsFoldOf
  <2> QED BY <2>1, <2>3 DEF IsFoldOf
<1>10. it = [x \in SUBSET (1..n) |-> IF x = {} THEN base ELSE Op(it[x \ {Max(x)}], q[Max(x)])]
  BY <1>3, <1>9
<1> HIDE DEF it
<1>11. IsFoldOf(it, n, M, base, g)
  <2>1. \A x \in SUBSET (1..n) : x # {} => Max(x) \in 1..n /\ it[x] = Op(it[x \ {Max(x)}], q[Max(x)])
    BY <1>3, <1>10, MaxChooses
  <2>2. it[{}] = base
    BY <1>10
  <2>3. \A x \in SUBSET (1..n) : x # {} /\ it[x \ {Max(x)}] \in M => it[x] = g[<<Max(x), it[x \ {Max(x)}]>>]
    BY <1>7, <2>1
  <2> QED BY <2>2, <2>3 DEF IsFoldOf
<1>12. it[1..n] = run[n]
  BY <1>3, <1>8, <1>11, RunUnique
<1> DEFINE K == {k \in Nat : k <= n => IF run[k].halted THEN Waits(run[k].done + 1) ELSE run[k].done = k}
<1>13. 0 \in K
  <2>1. run[0] = base
    BY <1>8 DEF IsRun
  <2> QED BY <2>1 DEF base
<1>14. ASSUME NEW k \in Nat, k \in K PROVE k + 1 \in K
  <2> SUFFICES ASSUME k + 1 <= n
               PROVE  IF run[k + 1].halted THEN Waits(run[k + 1].done + 1) ELSE run[k + 1].done = k + 1
    OBVIOUS
  <2>1. IF run[k].halted THEN Waits(run[k].done + 1) ELSE run[k].done = k
    BY <1>3, <1>14
  <2>2. k + 1 \in 1..n /\ (k + 1) - 1 = k /\ k \in 0..n
    BY <1>3
  <2>3. run[k] \in M /\ run[k + 1] = Op(run[k], q[k + 1])
    <3>1. run[k] \in M /\ run[k + 1] = g[<<k + 1, run[k]>>]
      BY <1>8, <2>2 DEF IsRun
    <3> QED BY <1>7, <2>2, <3>1
  <2>4. run[k].halted \in BOOLEAN
    BY <2>3 DEF M
  <2>5. /\ run[k].halted => run[k + 1] = run[k]
        /\ ~run[k].halted => \/ ~run[k + 1].halted /\ run[k + 1].done = run[k].done + 1
                             \/ Waits(k + 1) /\ run[k + 1].halted /\ run[k + 1].done = run[k].done
    BY <1>6, <2>2, <2>3
  <2>6. CASE run[k].halted
    BY <2>1, <2>5, <2>6
  <2>7. CASE ~run[k].halted
    BY <2>1, <2>5, <2>7
  <2> QED BY <2>4, <2>6, <2>7
<1> HIDE DEF K
<1>15. Nat \subseteq K
  BY <1>13, <1>14, SetInduction
<1>16. run[n] \in M /\ IF run[n].halted THEN Waits(run[n].done + 1) ELSE run[n].done = n
  <2>1. n \in K /\ n <= n /\ n \in 0..n
    BY <1>3, <1>15
  <2> QED BY <1>8, <2>1 DEF K, IsRun
<1>17. acc \in M /\ (Waits(acc.done + 1) \/ acc.done = n)
  BY <1>3, <1>12, <1>16
<1> HIDE DEF acc
<1> DEFINE u == acc.state
           t == [u EXCEPT !.consolidations = Drop(u.consolidations, acc.done)]
<1>18. u \in StateType /\ Same(u) /\ Good(u) /\ acc.done \in Nat /\ u.consolidations = q /\ u.partials \in Seq(PartialType)
  <2>1. acc.state \in States /\ acc.done \in Nat
    BY <1>17 DEF M
  <2>2. u \in StateType /\ Same(u)
    BY <2>1
  <2> HIDE DEF u
  <2> QED BY <2>1, <2>2 DEF Step, Alike, Near, q, StateType
<1> HIDE DEF u
<1>19. Drop(q, acc.done) \in Seq(ConsolidationType)
  BY <1>2, <1>18, DropIs DEF q
<1>20. /\ t \in StateType /\ t.validators = u.validators /\ t.balances = u.balances /\ t.failed = u.failed
       /\ t.slot = u.slot /\ t.finalized = u.finalized /\ t.exits = u.exits /\ t.consolidating = u.consolidating
       /\ t.partials = u.partials /\ t.consolidations = Drop(q, acc.done) /\ t.deposits = u.deposits
  BY <1>18, <1>19 DEF StateType
<1>21. process_pending_consolidations(s) = t
  BY <1>1, <1>18 DEF StateType, u
<1> HIDE DEF t
<1>22. Step(u, t)
  <2>1. u.partials = Drop(u.partials, 0)
    BY <1>18 DEF Drop
  <2> QED BY <1>18, <1>20, <2>1, QueuesDropped
<1>23. Step(s, t)
  BY <1>18, <1>22, StepTwice
<1>24. AheadNext(t)
  <2> SUFFICES ASSUME t.consolidating.epoch < FAR_FUTURE_EPOCH, NEW k \in DOMAIN t.consolidations,
                      ~t.validators[t.consolidations[k].source].slashed
               PROVE  t.validators[t.consolidations[k].source].withdrawable > get_current_epoch(t) + 1
    BY DEF AheadNext
  <2> DEFINE m == acc.done
             V(j) == s.validators[q[j].source]
  <2>1. t.validators = s.validators /\ t.consolidating = s.consolidating /\ get_current_epoch(t) + 1 = epoch
    BY <1>18, <1>20 DEF Alike, Near, get_current_epoch, epoch
  <2>2. m + k \in 1..n /\ k \in Nat \ {0} /\ t.consolidations[k] = q[m + k]
    BY <1>2, <1>18, <1>20, <1>3, SMTT(30) DEF Drop
  <2>3. m + 1 \in 1..n /\ Waits(m + 1)
    BY <1>3, <1>17, <1>18, <2>2
  <2>4. ~V(m + 1).slashed /\ V(m + 1).withdrawable > epoch /\ ~V(m + k).slashed
    BY <2>1, <2>2, <2>3 DEF Waits
  <2>5. V(m + 1).withdrawable \in Nat /\ V(m + k).withdrawable \in Nat
    <3>1. V(m + 1) \in ValidatorType /\ V(m + k) \in ValidatorType
      BY <1>2, <1>3, <2>2, <2>3, Fields
    <3> QED BY <3>1 DEF ValidatorType
  <2>6. ASSUME k = 1 PROVE V(m + k).withdrawable > epoch
    BY <2>4, <2>6
  <2>7. ASSUME k # 1 PROVE V(m + k).withdrawable > epoch
    <3>1. QueuesOK(s) /\ s.consolidating.epoch < FAR_FUTURE_EPOCH
      BY <2>1 DEF Good
    <3> DEFINE After(i, j) == ~V(j).slashed /\ ~V(i).slashed => V(j).withdrawable <= V(i).withdrawable
    <3>2. \A i \in DOMAIN q : \A j \in 1..(i - 1) : After(i, j)
      BY <3>1 DEF QueuesOK, q
    <3> HIDE DEF After
    <3>3. m + k \in DOMAIN q /\ m + 1 \in 1..((m + k) - 1)
      BY <1>3, <1>18, <2>2, <2>7
    <3>4. After(m + k, m + 1)
      BY <3>2, <3>3
    <3>5. V(m + 1).withdrawable <= V(m + k).withdrawable
      BY <2>4, <3>4 DEF After
    <3> HIDE DEF V
    <3> QED BY <1>2, <2>4, <2>5, <3>5
  <2> HIDE DEF V
  <2>8. V(m + k).withdrawable > epoch
    BY <2>6, <2>7
  <2> QED BY <2>1, <2>2, <2>8 DEF V
<1>25. t.deposits = s.deposits /\ Total(t.balances) = Total(s.balances) /\ t.failed = s.failed /\ t.exits = s.exits
  BY <1>18, <1>20 DEF Alike
<1> QED BY <1>21, <1>23, <1>24, <1>25

\* The effective balances, each from its balance.
LEMMA EffectiveGood ==
    ASSUME NEW s, Good(s)
    PROVE  LET t == process_effective_balance_updates(s)
           IN  /\ Pass(s, t) /\ Alike(s, t) /\ t.balances = s.balances /\ t.failed = s.failed /\ t.exits = s.exits
               /\ \A i \in Indices(s) : /\ t.validators[i].slashed = s.validators[i].slashed
                                        /\ t.validators[i].withdrawable = s.validators[i].withdrawable
<1> DEFINE step == EFFECTIVE_BALANCE_INCREMENT \div HYSTERESIS_QUOTIENT
           Stale(v, balance) == \/ balance + step * HYSTERESIS_DOWNWARD_MULTIPLIER < v.effective
                                \/ v.effective + step * HYSTERESIS_UPWARD_MULTIPLIER < balance
           New(i) == [s.validators[i] EXCEPT !.effective = EffectiveOf(s.balances[i], s.validators[i])]
           W(i) == IF Stale(s.validators[i], s.balances[i]) THEN New(i) ELSE s.validators[i]
           f == [i \in DOMAIN s.validators |-> W(i)]
           n == Len(s.validators)
           t == [s EXCEPT !.validators = AsSeq(f)]
<1>1. StateOK(s) /\ s \in StateType
  BY DEF Good, StateOK
<1>2. n \in Nat /\ DOMAIN s.validators = 1..n /\ Indices(s) = 1..n
  BY <1>1, Fields
<1>3. process_effective_balance_updates(s) = t
  BY DEF process_effective_balance_updates
<1>4. ASSUME NEW i \in 1..n
      PROVE  /\ New(i) \in ValidatorType /\ New(i).slashed = s.validators[i].slashed
             /\ New(i).eligibility = s.validators[i].eligibility /\ New(i).activation = s.validators[i].activation
             /\ New(i).exit = s.validators[i].exit /\ New(i).withdrawable = s.validators[i].withdrawable
  <2> DEFINE v == s.validators[i]
             e == EffectiveOf(s.balances[i], v)
  <2>1. v \in ValidatorType /\ s.balances[i] \in Nat
    BY <1>1, <1>2, Fields
  <2>2. e \in 0..MAX_EFFECTIVE_BALANCE_ELECTRA
    BY <2>1, EffectiveIs
  <2>3. New(i) = [v EXCEPT !.effective = e]
    OBVIOUS
  <2> HIDE DEF New, v, e
  <2>4. New(i) \in ValidatorType /\ New(i).slashed = v.slashed /\ New(i).eligibility = v.eligibility
    BY <2>1, <2>2, <2>3 DEF ValidatorType
  <2>5. New(i).activation = v.activation /\ New(i).exit = v.exit /\ New(i).withdrawable = v.withdrawable
    BY <2>1, <2>3 DEF ValidatorType
  <2> QED BY <2>4, <2>5 DEF v
<1> HIDE DEF New, Stale
<1>5. ASSUME NEW i \in 1..n
      PROVE  /\ W(i) \in ValidatorType /\ W(i).slashed = s.validators[i].slashed
             /\ W(i).eligibility = s.validators[i].eligibility /\ W(i).activation = s.validators[i].activation
             /\ W(i).exit = s.validators[i].exit /\ W(i).withdrawable = s.validators[i].withdrawable
  <2>1. s.validators[i] \in ValidatorType
    BY <1>1, <1>2, Fields
  <2>2. CASE Stale(s.validators[i], s.balances[i])
    BY <1>4, <2>2
  <2>3. CASE ~Stale(s.validators[i], s.balances[i])
    BY <2>1, <2>3
  <2> QED BY <2>2, <2>3
<1> HIDE DEF W
<1>6. f \in [1..n -> ValidatorType] /\ \A i \in 1..n : f[i] = W(i)
  BY <1>2, <1>5
<1> HIDE DEF f, n
<1>7. AsSeq(f) \in Seq(ValidatorType) /\ Len(AsSeq(f)) = n /\ AsSeq(f) = f
  BY <1>2, <1>6, AsSeqIs
<1>8. /\ t \in StateType /\ t.validators = f /\ Len(t.validators) = n /\ t.balances = s.balances /\ t.failed = s.failed
      /\ t.slot = s.slot /\ t.finalized = s.finalized /\ t.exits = s.exits /\ t.consolidating = s.consolidating
      /\ t.partials = s.partials /\ t.consolidations = s.consolidations /\ t.deposits = s.deposits
  BY <1>1, <1>7 DEF StateType
<1> HIDE DEF t
<1>9. Alike(s, t)
  BY <1>8 DEF Alike, Near, n
<1>10. StateOK(t) /\ Indices(t) = Indices(s)
  BY <1>1, <1>9, AlikeOK
<1>11. s.exits.epoch \in Nat /\ s.consolidating.epoch \in Nat
  BY <1>1, Fields DEF ChurnQueue
<1>12. \A i \in Indices(s) : Kept(s.validators[i], t.validators[i], get_current_epoch(s)) /\ Life(t.validators[i], s.consolidating.epoch)
  <2> SUFFICES ASSUME NEW i \in 1..n
               PROVE  Kept(s.validators[i], t.validators[i], get_current_epoch(s)) /\ Life(t.validators[i], s.consolidating.epoch)
    BY <1>2
  <2>1. t.validators[i] = W(i)
    BY <1>6, <1>8
  <2>2. s.validators[i] \in ValidatorType /\ Life(s.validators[i], s.consolidating.epoch)
    BY <1>1, <1>2, Fields DEF Good
  <2>3. s.validators[i].withdrawable \in Nat /\ s.validators[i].slashed \in BOOLEAN
    BY <2>2 DEF ValidatorType
  <2>4. Kept(s.validators[i], W(i), get_current_epoch(s))
    BY <1>5, <2>3 DEF Kept
  <2>5. Life(W(i), s.consolidating.epoch)
    BY <1>5, <2>2 DEF Life
  <2> QED BY <2>1, <2>4, <2>5
<1>13. Follows(s, t)
  <2>1. s.exits.epoch <= t.exits.epoch /\ s.consolidating.epoch <= t.consolidating.epoch /\ Len(s.validators) <= Len(t.validators)
    BY <1>2, <1>8, <1>11 DEF n
  <2> QED BY <1>8, <1>10, <1>12, <2>1 DEF Follows
<1>14. Good(t)
  BY <1>8, <1>10, <1>12, <1>13, GoodFollows
<1>15. \A i \in Indices(s) : t.validators[i].slashed = s.validators[i].slashed /\ t.validators[i].withdrawable = s.validators[i].withdrawable
  BY <1>2, <1>5, <1>6, <1>8
<1> QED BY <1>3, <1>8, <1>9, <1>13, <1>14, <1>15 DEF Pass

\* The slot of the slashings vector that the next epoch uses.
LEMMA ResetGood ==
    ASSUME NEW s, Good(s)
    PROVE  LET t == process_slashings_reset(s)
           IN  /\ Step(s, t) /\ Alike(s, t) /\ t.validators = s.validators /\ t.balances = s.balances
               /\ t.failed = s.failed /\ t.exits = s.exits
<1> DEFINE D == 0..(EPOCHS_PER_SLASHINGS_VECTOR - 1)
           x == (get_current_epoch(s) + 1) % EPOCHS_PER_SLASHINGS_VECTOR
           f == [s.slashings EXCEPT ![x] = 0]
           t == [s EXCEPT !.slashings = f]
<1>1. StateOK(s) /\ s \in StateType
  BY DEF Good, StateOK
<1>2. s.slashings \in [D -> Nat]
  BY <1>1 DEF StateType
<1>3. f \in [D -> Nat]
  BY <1>2
<1>4. process_slashings_reset(s) = t
  BY <1>1 DEF process_slashings_reset, StateType
<1> HIDE DEF f
<1>5. /\ t \in StateType /\ t.validators = s.validators /\ t.balances = s.balances /\ t.failed = s.failed
      /\ t.slot = s.slot /\ t.finalized = s.finalized /\ t.exits = s.exits /\ t.consolidating = s.consolidating
      /\ t.partials = s.partials /\ t.consolidations = s.consolidations /\ t.deposits = s.deposits
  BY <1>1, <1>3 DEF StateType
<1> HIDE DEF t
<1>6. Step(s, t) /\ Alike(s, t)
  BY <1>5, RegistrySame DEF Alike
<1> QED BY <1>4, <1>5, <1>6

\* The next number is in the same interval of length n, or is the first of the
\* next one.
LEMMA NextDiv ==
    ASSUME NEW x \in Nat, NEW n \in Nat \ {0}
    PROVE  (x + 1) \div n = IF (x + 1) % n = 0 THEN (x \div n) + 1 ELSE x \div n
<1> DEFINE q == x \div n
           p == (x + 1) \div n
           r == (x + 1) % n
<1>1. /\ q \in Nat /\ n * q <= x /\ x < n * q + n
      /\ p \in Nat /\ n * p <= x + 1 /\ x + 1 < n * p + n
  BY DivBounds
<1>2. x + 1 = n * p + r /\ r \in Nat
  OBVIOUS
<1> HIDE DEF p, q, r
<1>3. n * p \in Nat /\ n * q \in Nat
  BY <1>1
<1>4. q <= p
  <2> SUFFICES ASSUME p < q PROVE FALSE
    BY <1>1
  <2>1. n * (p + 1) <= n * q /\ n * (p + 1) = n * p + n
    BY <1>1
  <2> QED BY <1>1, <1>3, <2>1
<1>5. p <= q + 1
  <2> SUFFICES ASSUME q + 2 <= p PROVE FALSE
    BY <1>1
  <2>1. n * (q + 2) <= n * p /\ n * (q + 2) = n * q + n + n
    BY <1>1
  <2> QED BY <1>1, <1>3, <2>1
<1>6. r = 0 => p # q
  BY <1>1, <1>2, <1>3
<1>7. r # 0 => p # q + 1
  <2> SUFFICES ASSUME r # 0, p = q + 1 PROVE FALSE
    OBVIOUS
  <2>1. n * p = n * q + n
    BY <1>1
  <2> QED BY <1>1, <1>2, <1>3, <2>1
<1>8. p = IF r = 0 THEN q + 1 ELSE q
  BY <1>1, <1>4, <1>5, <1>6, <1>7
<1> QED BY <1>8 DEF p, q, r

\* The next slot: of the same epoch or of the next.
LEMMA SlotGood ==
    ASSUME NEW s, Good(s), s.slot < MaxSlot
    PROVE  LET t == [s EXCEPT !.slot = @ + 1]
           IN  /\ Good(t) /\ t.validators = s.validators /\ t.failed = s.failed /\ t.exits = s.exits
               /\ t.consolidations = s.consolidations /\ t.consolidating = s.consolidating
               /\ get_current_epoch(t) = IF (s.slot + 1) % SLOTS_PER_EPOCH = 0 THEN get_current_epoch(s) + 1
                                         ELSE get_current_epoch(s)
<1> DEFINE t == [s EXCEPT !.slot = s.slot + 1]
<1>1. StateOK(s) /\ s \in StateType /\ QueuesOK(s) /\ s.finalized <= get_current_epoch(s)
  BY DEF Good, StateOK, InTime
<1>2. s.slot \in Nat /\ s.finalized \in Nat /\ get_current_epoch(s) \in Nat
  BY <1>1, Fields
<1>3. s.slot + 1 \in Nat
  BY <1>2
<1>4. /\ t \in StateType /\ t.slot = s.slot + 1 /\ t.validators = s.validators /\ t.balances = s.balances
      /\ t.finalized = s.finalized /\ t.exits = s.exits /\ t.consolidating = s.consolidating
      /\ t.partials = s.partials /\ t.consolidations = s.consolidations /\ t.failed = s.failed
  BY <1>1, <1>3 DEF StateType
<1>5. [s EXCEPT !.slot = @ + 1] = t
  BY <1>1 DEF StateType
<1> HIDE DEF t
<1>6. StateOK(t)
  BY <1>1, <1>4 DEF StateOK, Indices
<1>7. get_current_epoch(t) = IF (s.slot + 1) % SLOTS_PER_EPOCH = 0 THEN get_current_epoch(s) + 1 ELSE get_current_epoch(s)
  <2>1. SLOTS_PER_EPOCH \in Nat \ {0}
    BY ChainSpecAssumption
  <2> QED BY <1>2, <1>4, <2>1, NextDiv DEF get_current_epoch, compute_epoch_at_slot
<1>8. InTime(t)
  <2>1. MaxSlot \in Nat
    BY AnchorsAssumption
  <2>2. s.finalized <= get_current_epoch(t)
    BY <1>1, <1>2, <1>7
  <2> QED BY <1>2, <1>4, <2>1, <2>2 DEF InTime
<1>9. QueuesOK(t)
  BY <1>1, <1>4 DEF QueuesOK
<1>10. \A i \in Indices(t) : Life(t.validators[i], t.consolidating.epoch)
  BY <1>4 DEF Good, Indices
<1>11. Good(t)
  BY <1>6, <1>8, <1>9, <1>10 DEF Good
<1> QED BY <1>4, <1>5, <1>7, <1>11
-----------------------------------------------------------------------------
(* An epoch's end, and what the steps of the specification have in common.  *)

\* The passes of process_epoch on s, up to the next slot.
Updated(s, deltas) == process_registry_updates(process_rewards_and_penalties(s, deltas))
Final(s, deltas) ==
    process_slashings_reset(process_effective_balance_updates(
        process_pending_consolidations(process_pending_deposits(process_slashings(Updated(s, deltas))))))

\* Together they are a pass.
LEMMA EpochGood ==
    ASSUME NEW s, Good(s), NEW deltas, \A i \in DOMAIN deltas : deltas[i] \in Int
    PROVE  /\ Pass(s, Updated(s, deltas)) /\ Indices(Updated(s, deltas)) = Indices(s)
           /\ Pass(Updated(s, deltas), Final(s, deltas)) /\ Pass(s, Final(s, deltas))
           /\ Final(s, deltas).failed = Updated(s, deltas).failed
           /\ AheadNext(Final(s, deltas))
<1> DEFINE r == process_rewards_and_penalties(s, deltas)
           u == process_registry_updates(r)
           p == process_slashings(u)
           d == process_pending_deposits(p)
           c == process_pending_consolidations(d)
           e == process_effective_balance_updates(c)
           f == process_slashings_reset(e)
<1>1. Pass(s, r) /\ Alike(s, r) /\ Good(r)
  BY RewardsGood DEF Step, Pass
<1> HIDE DEF r
<1>2. Pass(r, u) /\ Alike(r, u) /\ Good(u)
  BY <1>1, RegistryPassGood DEF Pass
<1> HIDE DEF u
<1>3. Pass(u, p) /\ Good(p) /\ p.failed = u.failed
  BY <1>2, SlashingsGood DEF Step, Pass
<1> HIDE DEF p
<1>4. Pass(p, d) /\ Good(d) /\ d.failed = p.failed
  BY <1>3, DepositsGood DEF Step, Pass
<1> HIDE DEF d
<1>5. Pass(d, c) /\ Good(c) /\ c.failed = d.failed /\ AheadNext(c)
  BY <1>4, ConsolidationsGood DEF Step, Pass
<1> HIDE DEF c
<1>6. /\ Pass(c, e) /\ Good(e) /\ e.failed = c.failed /\ Alike(c, e)
      /\ \A i \in Indices(c) : e.validators[i].slashed = c.validators[i].slashed /\ e.validators[i].withdrawable = c.validators[i].withdrawable
  BY <1>5, EffectiveGood DEF Pass
<1> HIDE DEF e
<1>7. Pass(e, f) /\ Good(f) /\ f.failed = e.failed /\ Alike(e, f) /\ f.validators = e.validators
  BY <1>6, ResetGood DEF Step, Pass
<1> HIDE DEF f
<1>8. Pass(u, f)
  BY <1>2, <1>3, <1>4, <1>5, <1>6, <1>7, PassTwice
<1>9. Pass(s, u) /\ Pass(s, f)
  BY <1>1, <1>2, <1>8, PassTwice
<1>10. Indices(u) = Indices(s)
  BY <1>1, <1>2, AlikeTwice, AlikeOK DEF Good
<1>11. AheadNext(f)
  <2>1. /\ f.consolidations = c.consolidations /\ f.consolidating = c.consolidating
        /\ get_current_epoch(f) = get_current_epoch(c)
    BY <1>6, <1>7 DEF Alike, Near, get_current_epoch
  <2>2. \A k \in DOMAIN c.consolidations : c.consolidations[k].source \in Indices(c)
    BY <1>5 DEF Good, StateOK
  <2> QED BY <1>5, <1>6, <1>7, <2>1, <2>2 DEF AheadNext
<1> QED BY <1>3, <1>4, <1>5, <1>6, <1>7, <1>8, <1>9, <1>10, <1>11 DEF Updated, Final, f, e, c, d, p, u, r

HALF == EPOCHS_PER_SLASHINGS_VECTOR \div 2

\* The penalty for the slashings around its own is behind v.
Due(v, epoch) == v.slashed /\ v.withdrawable - HALF < epoch
Penal(s, n) == \A i \in Indices(s) : n[i] = IF Due(s.validators[i], get_current_epoch(s)) THEN 1 ELSE 0

\* Half of the slashings vector is less than all of it.
LEMMA HalfIs == HALF \in Nat /\ EPOCHS_PER_SLASHINGS_VECTOR \in Nat /\ HALF < EPOCHS_PER_SLASHINGS_VECTOR
<1>1. EPOCHS_PER_SLASHINGS_VECTOR \in Nat \ {0}
  BY ChainSpecAssumption
<1> QED BY <1>1 DEF HALF

\* No step of a block makes a penalty due or undoes one.
LEMMA PenalKept ==
    ASSUME Delayed, NEW s, NEW t, Good(s), Good(t), Follows(s, t), NEW n, Penal(s, n), DOMAIN n = Indices(s)
    PROVE  Penal(t, [i \in Indices(t) |-> IF i \in DOMAIN n THEN n[i] ELSE 0])
<1> DEFINE epoch == get_current_epoch(s)
<1>1. StateOK(s) /\ StateOK(t) /\ get_current_epoch(t) = epoch /\ epoch \in Nat
  BY Fields DEF Good, Follows, get_current_epoch
<1> SUFFICES ASSUME NEW i \in Indices(t)
             PROVE  (IF i \in Indices(s) THEN n[i] ELSE 0) = IF Due(t.validators[i], epoch) THEN 1 ELSE 0
  BY <1>1 DEF Penal
<1> HIDE DEF epoch
<1>2. t.validators[i] \in ValidatorType
  BY <1>1, Fields
<1>3. t.validators[i].slashed \in BOOLEAN /\ t.validators[i].withdrawable \in Nat
  BY <1>2 DEF ValidatorType
<1>4. CASE i \in Indices(s)
  <2> DEFINE v == s.validators[i]
             w == t.validators[i]
  <2>1. v \in ValidatorType /\ Kept(v, w, epoch)
    BY <1>1, <1>4, Fields DEF Follows, epoch
  <2>2. v.slashed \in BOOLEAN /\ v.withdrawable \in Nat /\ w.slashed \in BOOLEAN /\ w.withdrawable \in Nat
    BY <1>3, <2>1 DEF ValidatorType
  <2>3. n[i] = IF Due(v, epoch) THEN 1 ELSE 0
    BY <1>4 DEF Penal, epoch
  <2> HIDE DEF v, w
  <2>4. CASE v.slashed
    <3>1. w.slashed /\ w.withdrawable = v.withdrawable
      BY <2>1, <2>4 DEF Kept
    <3>2. Due(w, epoch) <=> Due(v, epoch)
      BY <2>4, <3>1 DEF Due
    <3> QED BY <1>4, <2>3, <3>2 DEF w
  <2>5. CASE ~v.slashed
    <3>1. w.slashed => w.withdrawable >= epoch + EPOCHS_PER_SLASHINGS_VECTOR
      BY <2>1, <2>5 DEF Kept
    <3>2. ~Due(w, epoch) /\ ~Due(v, epoch)
      BY <1>1, <2>2, <2>5, <3>1, HalfIs DEF Due
    <3> QED BY <1>4, <2>3, <3>2 DEF w
  <2> QED BY <2>2, <2>4, <2>5
<1>5. CASE i \notin Indices(s)
  <2>1. t.validators[i].slashed => t.validators[i].withdrawable >= epoch + EPOCHS_PER_SLASHINGS_VECTOR
    BY <1>5 DEF Follows, epoch
  <2>2. ~Due(t.validators[i], epoch)
    BY <1>1, <1>3, <2>1, HalfIs DEF Due
  <2> QED BY <1>5, <2>2
<1> QED BY <1>4, <1>5

\* At the end of an epoch the penalty is due for those, and only those, that
\* process_slashings/1 gave it to: s -> u is the registry pass, u -> f the rest.
LEMMA PenalNext ==
    ASSUME Delayed, NEW s, NEW u, NEW f, NEW t, Good(s), Good(u), Good(f), Good(t),
           Follows(s, u), Follows(u, f), Follows(s, f), Indices(u) = Indices(s),
           t.validators = f.validators, get_current_epoch(t) = get_current_epoch(s) + 1,
           NEW n, Penal(s, n), DOMAIN n = Indices(s)
    PROVE  Penal(t, [i \in Indices(f) |-> (IF i \in DOMAIN n THEN n[i] ELSE 0)
                                          + (IF i \in PenaltyDue(u) THEN 1 ELSE 0)])
<1> DEFINE epoch == get_current_epoch(s)
<1>1. /\ StateOK(s) /\ StateOK(u) /\ StateOK(f) /\ epoch \in Nat
      /\ get_current_epoch(u) = epoch /\ get_current_epoch(f) = epoch
  BY Fields DEF Good, Follows, get_current_epoch
<1>2. Indices(t) = Indices(f)
  BY DEF Indices
<1> SUFFICES ASSUME NEW i \in Indices(f)
             PROVE  (IF i \in Indices(s) THEN n[i] ELSE 0) + (IF i \in PenaltyDue(u) THEN 1 ELSE 0)
                        = IF Due(f.validators[i], epoch + 1) THEN 1 ELSE 0
  BY <1>2 DEF Penal
<1> HIDE DEF epoch
<1>3. f.validators[i] \in ValidatorType
  BY <1>1, Fields
<1>4. f.validators[i].slashed \in BOOLEAN /\ f.validators[i].withdrawable \in Nat
  BY <1>3 DEF ValidatorType
<1>5. i \in PenaltyDue(u) <=> i \in Indices(s) /\ u.validators[i].slashed /\ epoch + HALF = u.validators[i].withdrawable
  BY <1>1 DEF PenaltyDue, HALF
<1>6. CASE i \in Indices(s)
  <2> DEFINE v == s.validators[i]
             w == u.validators[i]
             x == f.validators[i]
  <2>1. v \in ValidatorType /\ w \in ValidatorType /\ Kept(v, w, epoch) /\ Kept(w, x, epoch)
    BY <1>1, <1>6, Fields DEF Follows, epoch
  <2>2. /\ v.slashed \in BOOLEAN /\ v.withdrawable \in Nat /\ w.slashed \in BOOLEAN /\ w.withdrawable \in Nat
        /\ x.slashed \in BOOLEAN /\ x.withdrawable \in Nat
    BY <1>4, <2>1 DEF ValidatorType
  <2>3. n[i] = IF Due(v, epoch) THEN 1 ELSE 0
    BY <1>6 DEF Penal, epoch
  <2>4. i \in PenaltyDue(u) <=> w.slashed /\ epoch + HALF = w.withdrawable
    BY <1>5, <1>6
  <2> HIDE DEF v, w, x
  <2>5. CASE v.slashed
    <3>1. w.slashed /\ w.withdrawable = v.withdrawable /\ x.slashed /\ x.withdrawable = v.withdrawable
      BY <2>1, <2>5 DEF Kept
    <3>2. /\ Due(v, epoch) <=> v.withdrawable < epoch + HALF
          /\ Due(x, epoch + 1) <=> v.withdrawable <= epoch + HALF
      BY <1>1, <2>2, <2>5, <3>1, HalfIs DEF Due
    <3>3. i \in PenaltyDue(u) <=> v.withdrawable = epoch + HALF
      BY <2>4, <3>1
    <3>4. n[i] + (IF i \in PenaltyDue(u) THEN 1 ELSE 0) = IF Due(x, epoch + 1) THEN 1 ELSE 0
      <4>1. CASE v.withdrawable < epoch + HALF
        BY <1>1, <2>2, <2>3, <3>2, <3>3, <4>1, HalfIs
      <4>2. CASE v.withdrawable = epoch + HALF
        BY <1>1, <2>2, <2>3, <3>2, <3>3, <4>2, HalfIs
      <4>3. CASE v.withdrawable > epoch + HALF
        BY <1>1, <2>2, <2>3, <3>2, <3>3, <4>3, HalfIs
      <4> QED BY <1>1, <2>2, <4>1, <4>2, <4>3, HalfIs
    <3> QED BY <1>6, <3>4 DEF x
  <2>6. CASE ~v.slashed
    <3>1. w.slashed => w.withdrawable >= epoch + EPOCHS_PER_SLASHINGS_VECTOR
      BY <2>1, <2>6 DEF Kept
    <3>2. x.slashed => x.withdrawable >= epoch + EPOCHS_PER_SLASHINGS_VECTOR
      <4>1. CASE w.slashed
        <5>1. x.withdrawable = w.withdrawable
          BY <2>1, <4>1 DEF Kept
        <5> QED BY <3>1, <4>1, <5>1
      <4>2. CASE ~w.slashed
        BY <2>1, <4>2 DEF Kept
      <4> QED BY <2>2, <4>1, <4>2
    <3>3. ~Due(v, epoch)
      BY <2>6 DEF Due
    <3>4. ~Due(x, epoch + 1)
      BY <1>1, <2>2, <3>2, HalfIs DEF Due
    <3>5. i \notin PenaltyDue(u)
      BY <1>1, <2>2, <2>4, <3>1, HalfIs
    <3> QED BY <1>6, <2>3, <3>3, <3>4, <3>5 DEF x
  <2> QED BY <2>2, <2>5, <2>6
<1>7. CASE i \notin Indices(s)
  <2>1. f.validators[i].slashed => f.validators[i].withdrawable >= epoch + EPOCHS_PER_SLASHINGS_VECTOR
    BY <1>7 DEF Follows, epoch
  <2>2. ~Due(f.validators[i], epoch + 1)
    BY <1>1, <1>4, <2>1, HalfIs DEF Due
  <2> QED BY <1>5, <1>7, <2>2
<1> QED BY <1>6, <1>7

\* Who is active in the epoch of s, and with how much, is the same in t.
ActiveSame(s, t) ==
    LET epoch == get_current_epoch(s)
    IN  /\ active_validator_indices(t, epoch) = active_validator_indices(s, epoch)
        /\ get_total_active_balance(t) = get_total_active_balance(s)

\* It is when t follows s in a block.
LEMMA StableActive ==
    ASSUME NEW s, NEW t, Good(s), Good(t), Follows(s, t), Stable(s, t)
    PROVE  ActiveSame(s, t)
<1> DEFINE epoch == get_current_epoch(s)
           A == active_validator_indices(s, epoch)
           f == [i \in A |-> s.validators[i].effective]
           g == [i \in A |-> t.validators[i].effective]
<1>1. StateOK(s) /\ StateOK(t) /\ get_current_epoch(t) = epoch /\ epoch \in Nat /\ Indices(s) \subseteq Indices(t)
  BY Fields DEF Good, Follows, get_current_epoch
<1>2. epoch < FAR_FUTURE_EPOCH
  <2>1. s.slot \in Nat /\ s.slot <= MaxSlot
    BY <1>1, Fields DEF Good, InTime
  <2>2. /\ epoch < compute_activation_exit_epoch(epoch) /\ compute_activation_exit_epoch(epoch) < FAR_FUTURE_EPOCH
        /\ compute_activation_exit_epoch(epoch) \in Nat
    BY <2>1, EpochNat
  <2>3. FAR_FUTURE_EPOCH \in Nat
    BY ChainSpecAssumption
  <2> HIDE DEF epoch
  <2> QED BY <1>1, <2>2, <2>3
<1>3. \A i \in Indices(s) : active_validator(t.validators[i], epoch) <=> active_validator(s.validators[i], epoch)
  <2> SUFFICES ASSUME NEW i \in Indices(s)
               PROVE  active_validator(t.validators[i], epoch) <=> active_validator(s.validators[i], epoch)
    OBVIOUS
  <2>1. s.validators[i] \in ValidatorType /\ t.validators[i] \in ValidatorType
    BY <1>1, Fields
  <2>2. s.validators[i].exit \in Nat /\ t.validators[i].exit \in Nat
    BY <2>1 DEF ValidatorType
  <2>3. SameNow(s.validators[i], t.validators[i], epoch)
    BY DEF Stable
  <2> HIDE DEF epoch
  <2> QED BY <1>1, <2>2, <2>3 DEF SameNow, active_validator
<1>4. \A i \in Indices(t) \ Indices(s) : ~active_validator(t.validators[i], epoch)
  <2>1. \A i \in Indices(t) \ Indices(s) : t.validators[i].activation = FAR_FUTURE_EPOCH
    BY DEF Stable
  <2>2. FAR_FUTURE_EPOCH \in Nat
    BY ChainSpecAssumption
  <2> HIDE DEF epoch
  <2> QED BY <1>1, <1>2, <2>1, <2>2 DEF active_validator
<1>5. active_validator_indices(t, epoch) = A
  BY <1>1, <1>3, <1>4 DEF active_validator_indices
<1>6. \A i \in A : t.validators[i].effective = s.validators[i].effective
  BY DEF active_validator_indices, Stable, SameNow
<1> HIDE DEF epoch, A
<1>7. f = g
  BY <1>6
<1>8. get_total_active_balance(s) = Larger(EFFECTIVE_BALANCE_INCREMENT, SumOf(f))
  BY DEF get_total_active_balance, A, epoch
<1>9. get_total_active_balance(t) = Larger(EFFECTIVE_BALANCE_INCREMENT, SumOf(g))
  BY <1>1, <1>5 DEF get_total_active_balance
<1> HIDE DEF f, g
<1> QED BY <1>5, <1>7, <1>8, <1>9 DEF ActiveSame, epoch, A
-----------------------------------------------------------------------------
(* The steps of the specification.                                          *)

\* The inductive invariant.
Inv ==
    /\ Good(state) /\ Ahead(state) /\ ~state.failed
    /\ DOMAIN penalised = Indices(state) /\ (Delayed => Penal(state, penalised))
    /\ phase \in 0..8 /\ proposer \in {0} \cup Indices(state) /\ events \in Nat

\* What every step restores of it, and what a step may do to a validator.
Onward ==
    /\ Good(state') /\ Ahead(state') /\ ~state'.failed
    /\ Indices(state) \subseteq Indices(state')
    /\ \A i \in Indices(state) : Kept(state.validators[i], state'.validators[i], get_current_epoch(state))
    /\ get_current_epoch(state') = get_current_epoch(state) => ActiveSame(state, state')
    /\ DOMAIN penalised' = Indices(state') /\ (Delayed => Penal(state', penalised'))
    /\ phase' \in 0..8 /\ proposer' \in {0} \cup Indices(state') /\ events' \in Nat

\* A step of a block.
LEMMA InBlock ==
    ASSUME Inv, Step(state, state'), Ahead(state'), ~state'.failed,
           DOMAIN penalised' = Indices(state'),
           \A i \in Indices(state') : penalised'[i] = IF i \in DOMAIN penalised THEN penalised[i] ELSE 0,
           phase' \in 0..8, proposer' \in {0} \cup Indices(state'), events' \in Nat
    PROVE  Onward
<1>1. Good(state) /\ Good(state') /\ Follows(state, state') /\ Stable(state, state')
  BY DEF Inv, Step
<1>2. Indices(state) \subseteq Indices(state')
  BY <1>1, Fields DEF Good, Follows
<1>3. \A i \in Indices(state) : Kept(state.validators[i], state'.validators[i], get_current_epoch(state))
  BY <1>1 DEF Follows
<1>4. ActiveSame(state, state')
  BY <1>1, StableActive
<1>5. Delayed => Penal(state', penalised')
  <2> SUFFICES ASSUME Delayed PROVE Penal(state', penalised')
    OBVIOUS
  <2>1. Penal(state', [i \in Indices(state') |-> IF i \in DOMAIN penalised THEN penalised[i] ELSE 0])
    BY <1>1, PenalKept DEF Inv
  <2> QED BY <2>1 DEF Penal
<1> QED BY <1>1, <1>2, <1>3, <1>4, <1>5 DEF Onward

\* An operation that is done.
LEMMA DoneGood ==
    ASSUME Inv, NEW t, NEW next \in 0..8, Done(t, next), Step(state, t), Ahead(t), Indices(t) = Indices(state),
           proposer' \in {0} \cup Indices(state)
    PROVE  Onward
<1>1. state' = t /\ ~t.failed /\ penalised' = penalised
  BY DEF Done
<1>2. phase' \in 0..8 /\ events' \in Nat
  BY DEF Done, Inv
<1>3. DOMAIN penalised' = Indices(state') /\ \A i \in Indices(state') : penalised'[i] = IF i \in DOMAIN penalised THEN penalised[i] ELSE 0
  BY <1>1 DEF Inv
<1> QED BY <1>1, <1>2, <1>3, InBlock

\* An operation that leaves the queues alone.
LEMMA DoneAlike ==
    ASSUME Inv, NEW t, NEW next \in 0..8, Done(t, next), Step(state, t), Near(state, t),
           proposer' \in {0} \cup Indices(state)
    PROVE  Onward
<1>1. Ahead(t)
  BY AheadFollows DEF Inv, Step, Near
<1>2. Indices(t) = Indices(state)
  BY NearOK DEF Inv, Good
<1> QED BY <1>1, <1>2, DoneGood

\* The slashings of a block.
LEMMA SlashingsStep ==
    ASSUME Inv, \/ \E i \in Indices(state) : ProposerSlashing(i)
                \/ \E S \in SUBSET Indices(state) : AttesterSlashing(S)
    PROVE  Onward
<1>1. \A p \in Proposers : p \in Indices(state)
  BY DEF Inv, Proposers, active_validator_indices
<1>2. ASSUME NEW i \in Indices(state), ProposerSlashing(i) PROVE Onward
  <2>1. PICK p \in Proposers : Slashing(slash_validator(state, i, p), p, 1)
    BY <1>2 DEF ProposerSlashing
  <2>2. slashable_validator(state.validators[i], get_current_epoch(state))
    BY <1>2 DEF ProposerSlashing
  <2>3. Step(state, slash_validator(state, i, p)) /\ Alike(state, slash_validator(state, i, p))
    BY <1>1, <2>2, SlashGood DEF Inv
  <2>4. Done(slash_validator(state, i, p), 1) /\ proposer' \in {0} \cup Indices(state)
    BY <1>1, <2>1 DEF Slashing
  <2> QED BY <2>3, <2>4, DoneAlike DEF Alike
<1>3. ASSUME NEW S \in SUBSET Indices(state), AttesterSlashing(S) PROVE Onward
  <2>1. PICK p \in Proposers : Slashing(slash_validators(state, S, p), p, 2)
    BY <1>3 DEF AttesterSlashing
  <2>2. Step(state, slash_validators(state, S, p)) /\ Alike(state, slash_validators(state, S, p))
    BY <1>1, SlashAllGood DEF Inv
  <2>3. Done(slash_validators(state, S, p), 2) /\ proposer' \in {0} \cup Indices(state)
    BY <1>1, <2>1 DEF Slashing
  <2> QED BY <2>2, <2>3, DoneAlike DEF Alike
<1> QED BY <1>2, <1>3

\* Exits, address changes and requests.
LEMMA RequestsStep ==
    ASSUME Inv, NEW i \in Indices(state),
           \/ VoluntaryExit(i) \/ BlsToExecutionChange(i)
           \/ \E owner \in BOOLEAN : \/ \E amount \in Amounts : WithdrawalRequest(i, amount, owner)
                                     \/ \E j \in Indices(state) : ConsolidationRequest(i, j, owner)
    PROVE  Onward
<1>0. Good(state) /\ StateOK(state) /\ Ahead(state) /\ proposer \in {0} \cup Indices(state)
  BY DEF Inv, Good
<1>1. CASE VoluntaryExit(i)
  <2> DEFINE t == initiate_validator_exit(state, i)
  <2>1. Done(t, 4) /\ proposer' = proposer /\ Staying(state.validators[i])
    BY <1>1 DEF VoluntaryExit
  <2>2. state.validators[i].activation <= get_current_epoch(state)
    BY <2>1 DEF Staying, active_validator
  <2>3. Step(state, t)
    BY <1>0, <2>2, ExitGood DEF Step
  <2>4. Alike(state, t)
    BY <1>0, ExitAlike
  <2> QED BY <1>0, <2>1, <2>3, <2>4, DoneAlike DEF Alike
<1>2. CASE BlsToExecutionChange(i)
  <2> DEFINE t == [state EXCEPT !.validators[i].credentials = "eth1"]
  <2>1. Done(t, 5) /\ proposer' = proposer
    BY <1>2 DEF BlsToExecutionChange
  <2>2. Step(state, t) /\ Alike(state, t)
    BY <1>0, CredentialsSet DEF Credentials
  <2> HIDE DEF t
  <2> QED BY <1>0, <2>1, <2>2, DoneAlike DEF Alike
<1>3. ASSUME NEW owner \in BOOLEAN, NEW amount \in Amounts, WithdrawalRequest(i, amount, owner) PROVE Onward
  <2> DEFINE t == process_withdrawal_request(state, i, amount, owner)
  <2>1. Done(t, 7) /\ proposer' = proposer
    BY <1>3 DEF WithdrawalRequest
  <2>2. amount \in Nat
    BY AnchorsAssumption
  <2>3. Step(state, t) /\ t.consolidations = state.consolidations /\ Indices(t) = Indices(state)
    BY <1>0, <2>2, WithdrawalRequestGood
  <2> HIDE DEF t
  <2>4. Ahead(t)
    BY <1>0, <2>3, AheadFollows DEF Step
  <2> QED BY <1>0, <2>1, <2>3, <2>4, DoneGood
<1>4. ASSUME NEW owner \in BOOLEAN, NEW j \in Indices(state), ConsolidationRequest(i, j, owner) PROVE Onward
  <2> DEFINE t == process_consolidation_request(state, i, j, owner)
  <2>1. Done(t, 8) /\ proposer' = proposer
    BY <1>4 DEF ConsolidationRequest
  <2>2. Step(state, t) /\ Ahead(t) /\ Indices(t) = Indices(state)
    BY <1>0, ConsolidationRequestGood
  <2> HIDE DEF t
  <2> QED BY <1>0, <2>1, <2>2, DoneGood
<1> QED BY <1>1, <1>2, <1>3, <1>4

\* A deposit that a payload asks for.
LEMMA DepositRequestStep ==
    ASSUME Inv, NEW d \in Deposits, DepositRequest(d)
    PROVE  Onward
<1> DEFINE first == IF state.start_index = UNSET_START_INDEX THEN Len(BridgeDeposits) ELSE state.start_index
           p == PendingDeposit(d, state.slot)
           t == [state EXCEPT !.start_index = first, !.deposits = Append(state.deposits, p)]
<1>1. Good(state) /\ StateOK(state) /\ state \in StateType /\ proposer \in {0} \cup Indices(state)
  BY DEF Inv, Good, StateOK
<1>2. state.deposits \in Seq(PendingDepositType) /\ state.start_index \in Nat /\ state.slot \in Nat
  BY <1>1 DEF StateType
<1>3. first \in Nat
  BY <1>2, AnchorsAssumption
<1>4. p \in PendingDepositType
  <2>1. d \in DepositType
    BY AnchorsAssumption
  <2> QED BY <1>2, <2>1 DEF PendingDeposit, DepositType, PendingDepositType
<1>5. Done(t, 6) /\ proposer' = proposer
  BY <1>1 DEF DepositRequest, StateType
<1> HIDE DEF first, p
<1>6. Append(state.deposits, p) \in Seq(PendingDepositType)
  BY <1>2, <1>4
<1>7. /\ t \in StateType /\ t.validators = state.validators /\ t.balances = state.balances /\ t.failed = state.failed
      /\ t.slot = state.slot /\ t.finalized = state.finalized /\ t.exits = state.exits /\ t.consolidating = state.consolidating
      /\ t.partials = state.partials /\ t.consolidations = state.consolidations
  BY <1>1, <1>3, <1>6 DEF StateType
<1> HIDE DEF t
<1>8. Step(state, t) /\ Near(state, t)
  BY <1>1, <1>7, RegistrySame
<1> QED BY <1>1, <1>5, <1>8, DoneAlike

\* The deposits of the contract that are due are among them.
LEMMA DueTyped ==
    ASSUME Good(state)
    PROVE  SubSeq(BridgeDeposits, state.eth1_deposit_index + 1, state.eth1_deposit_index + DepositsDue) \in Seq(DepositType)
<1> DEFINE B == BridgeDeposits
           e == state.eth1_deposit_index
           limit == Smaller(state.deposit_count, state.start_index)
           due == SubSeq(B, e + 1, e + DepositsDue)
<1>1. state \in StateType
  BY DEF Good, StateOK
<1>2. /\ e \in Nat /\ state.deposit_count \in 0..Len(B) /\ state.start_index \in Nat
      /\ B \in Seq(DepositType) /\ Len(B) \in Nat /\ MAX_DEPOSITS \in Nat
  <2>1. B \in Seq(DepositType) /\ MAX_DEPOSITS \in Nat
    BY AnchorsAssumption, ChainSpecAssumption
  <2>2. e \in Nat /\ state.deposit_count \in 0..Len(B) /\ state.start_index \in Nat
    BY <1>1 DEF StateType
  <2> QED BY <2>1, <2>2
<1>3. limit \in Nat /\ limit <= Len(B)
  <2>1. limit = IF state.deposit_count <= state.start_index THEN state.deposit_count ELSE state.start_index
    BY <1>2, SmallerIs
  <2> QED BY <1>2, <2>1
<1>4. DepositsDue \in Nat /\ (DepositsDue = 0 \/ e + DepositsDue <= Len(B))
  <2>1. DepositsDue = IF e < limit THEN Smaller(MAX_DEPOSITS, limit - e) ELSE 0
    BY DEF DepositsDue
  <2> HIDE DEF limit
  <2>2. Smaller(MAX_DEPOSITS, limit - e) = IF MAX_DEPOSITS <= limit - e THEN MAX_DEPOSITS ELSE limit - e
    BY <1>2, <1>3, SmallerIs
  <2> HIDE DEF B, e
  <2> QED BY <1>2, <1>3, <2>1, <2>2
<1> HIDE DEF limit, e, B
<1>5. due \in Seq(DepositType)
  BY <1>2, <1>4
<1> QED BY <1>5 DEF due, e, B

\* The deposits of the contract.
LEMMA ProcessDepositsStep ==
    ASSUME Inv, ProcessDeposits
    PROVE  Onward
<1> DEFINE due == SubSeq(BridgeDeposits, state.eth1_deposit_index + 1, state.eth1_deposit_index + DepositsDue)
           t == FoldLeft(process_deposit, state, due)
<1>1. Good(state) /\ StateOK(state) /\ state \in StateType /\ Ahead(state) /\ ~state.failed /\ proposer \in {0} \cup Indices(state)
  BY DEF Inv, Good, StateOK
<1>5. due \in Seq(DepositType)
  BY <1>1, DueTyped
<1>6. state' = t /\ phase' = 3 /\ penalised' = [i \in Indices(t) |-> IF i \in DOMAIN penalised THEN penalised[i] ELSE 0]
      /\ UNCHANGED <<proposer, events>>
  BY DEF ProcessDeposits
<1> HIDE DEF due
<1>7. Step(state, t) /\ t.consolidations = state.consolidations /\ t.failed = state.failed
  BY <1>1, <1>5, ContractDepositsGood
<1> HIDE DEF t
<1>8. Ahead(t)
  BY <1>1, <1>7, AheadFollows DEF Step
<1>9. Indices(state) \subseteq Indices(t)
  BY <1>1, <1>7, Fields DEF Step, Follows, Good
<1>10. phase' \in 0..8 /\ proposer' \in {0} \cup Indices(state') /\ events' \in Nat
  BY <1>1, <1>6, <1>9 DEF Inv
<1> QED BY <1>1, <1>6, <1>7, <1>8, <1>10, InBlock

\* The start of a block.
LEMMA StartBlockStep ==
    ASSUME Inv, StartBlock
    PROVE  Onward
<1>1. Good(state) /\ StateOK(state) /\ state \in StateType /\ Ahead(state) /\ ~state.failed /\ proposer \in {0} \cup Indices(state)
  BY DEF Inv, Good, StateOK
<1>2. PICK count \in {state.deposit_count, Len(BridgeDeposits)} :
          /\ state' = [process_withdrawals(state) EXCEPT !.deposit_count = count]
          /\ events' = events + (IF count = state.deposit_count THEN 0 ELSE 1)
  BY DEF StartBlock
<1>3. count \in 0..Len(BridgeDeposits)
  <2>1. state.deposit_count \in 0..Len(BridgeDeposits)
    BY <1>1 DEF StateType
  <2>2. BridgeDeposits \in Seq(DepositType)
    BY AnchorsAssumption
  <2> QED BY <2>1, <2>2
<1> DEFINE t == [process_withdrawals(state) EXCEPT !.deposit_count = count]
<1>4. Step(state, t) /\ t.validators = state.validators /\ t.consolidations = state.consolidations /\ t.failed = state.failed
  BY <1>1, <1>3, WithdrawalsGood
<1>5. state' = t
  BY <1>2
<1> HIDE DEF t
<1>6. Ahead(t) /\ Indices(t) = Indices(state)
  BY <1>1, <1>4, AheadFollows DEF Step, Indices
<1>7. phase' \in 0..8 /\ proposer' \in {0} \cup Indices(state') /\ events' \in Nat /\ penalised' = penalised
  BY <1>1, <1>2, <1>5, <1>6 DEF Inv, StartBlock
<1>8. DOMAIN penalised' = Indices(state') /\ \A i \in Indices(state') : penalised'[i] = IF i \in DOMAIN penalised THEN penalised[i] ELSE 0
  BY <1>5, <1>6, <1>7 DEF Inv
<1> QED BY <1>1, <1>4, <1>5, <1>6, <1>7, <1>8, InBlock

\* A later finalized epoch, not after the current one.
LEMMA FinalizedGood ==
    ASSUME NEW s, Good(s), NEW f \in Nat, f <= get_current_epoch(s)
    PROVE  LET t == [s EXCEPT !.finalized = f]
           IN  Good(t) /\ t.validators = s.validators /\ t.slot = s.slot /\ t.exits = s.exits
<1> DEFINE t == [s EXCEPT !.finalized = f]
<1>1. StateOK(s) /\ s \in StateType /\ QueuesOK(s) /\ s.slot <= MaxSlot
  BY DEF Good, StateOK, InTime
<1>2. /\ t \in StateType /\ t.slot = s.slot /\ t.validators = s.validators /\ t.balances = s.balances
      /\ t.finalized = f /\ t.exits = s.exits /\ t.consolidating = s.consolidating
      /\ t.partials = s.partials /\ t.consolidations = s.consolidations /\ t.failed = s.failed
  BY <1>1 DEF StateType
<1> HIDE DEF t
<1>3. StateOK(t)
  BY <1>1, <1>2 DEF StateOK, Indices
<1>4. InTime(t)
  BY <1>1, <1>2 DEF InTime, get_current_epoch
<1>5. QueuesOK(t)
  BY <1>1, <1>2 DEF QueuesOK
<1>6. \A i \in Indices(t) : Life(t.validators[i], t.consolidating.epoch)
  BY <1>2 DEF Good, Indices
<1> QED BY <1>2, <1>3, <1>4, <1>5, <1>6 DEF Good, t

\* process_epoch/1 and the slot after it.
LEMMA EpochStep ==
    ASSUME Inv, state.slot < MaxSlot, (state.slot + 1) % SLOTS_PER_EPOCH = 0,
           NEW f \in Nat, f <= get_current_epoch(state), NEW d, \A i \in DOMAIN d : d[i] \in Int,
           process_epoch(f, d), phase' = 0, proposer' = 0, events' \in Nat
    PROVE  Onward
<1> DEFINE s == [state EXCEPT !.finalized = f]
           u == Updated(s, d)
           z == Final(s, d)
           t == [z EXCEPT !.slot = @ + 1]
           epoch == get_current_epoch(state)
<1>1. Good(state) /\ StateOK(state) /\ epoch \in Nat
  BY Fields DEF Inv, Good
<1>2. Good(s) /\ s.validators = state.validators /\ s.slot = state.slot
  BY <1>1, FinalizedGood
<1>3. /\ ~u.failed /\ state' = t
      /\ penalised' = [i \in Indices(z) |-> (IF i \in DOMAIN penalised THEN penalised[i] ELSE 0)
                                            + (IF i \in PenaltyDue(u) THEN 1 ELSE 0)]
  BY DEF process_epoch, Updated, Final
<1> HIDE DEF s
<1>4. /\ Pass(s, u) /\ Indices(u) = Indices(s) /\ Pass(u, z) /\ Pass(s, z) /\ z.failed = u.failed /\ AheadNext(z)
  BY <1>2, EpochGood
<1> HIDE DEF u, z
<1>5. Good(z) /\ Good(u) /\ Follows(s, u) /\ Follows(u, z) /\ Follows(s, z) /\ z.slot = state.slot
  BY <1>2, <1>4 DEF Pass, Follows
<1>6. get_current_epoch(s) = epoch /\ get_current_epoch(z) = epoch
  BY <1>2, <1>5 DEF get_current_epoch
<1>7. /\ Good(t) /\ t.validators = z.validators /\ t.failed = z.failed /\ t.consolidations = z.consolidations
      /\ t.consolidating = z.consolidating /\ get_current_epoch(t) = epoch + 1
  BY <1>5, <1>6, SlotGood
<1> HIDE DEF t
<1>8. Ahead(t)
  BY <1>4, <1>6, <1>7 DEF Ahead, AheadNext
<1>9. Indices(t) = Indices(z) /\ Indices(s) = Indices(state) /\ Indices(state) \subseteq Indices(z)
  <2>1. Indices(t) = Indices(z) /\ Indices(s) = Indices(state)
    BY <1>2, <1>7 DEF Indices
  <2>2. Indices(s) \subseteq Indices(z)
    BY <1>2, <1>5, Fields, SMTT(30) DEF Good, Follows
  <2> QED BY <2>1, <2>2
<1>10. \A i \in Indices(state) : Kept(state.validators[i], t.validators[i], epoch)
  BY <1>2, <1>5, <1>6, <1>7, <1>9 DEF Follows
<1>11. Delayed => Penal(t, penalised')
  <2> SUFFICES ASSUME Delayed PROVE Penal(t, penalised')
    OBVIOUS
  <2>1. Penal(s, penalised) /\ DOMAIN penalised = Indices(s)
    BY <1>2, <1>6, <1>9 DEF Inv, Penal
  <2>2. get_current_epoch(t) = get_current_epoch(s) + 1
    BY <1>6, <1>7
  <2> HIDE DEF epoch
  <2> QED BY <1>2, <1>3, <1>4, <1>5, <1>7, <2>1, <2>2, PenalNext
<1>12. get_current_epoch(t) # epoch
  BY <1>1, <1>7
<1>13. ~t.failed
  BY <1>3, <1>4, <1>7
<1>14. DOMAIN penalised' = Indices(t)
  BY <1>3, <1>9
<1>15. phase' \in 0..8 /\ proposer' \in {0} \cup Indices(t) /\ Indices(state) \subseteq Indices(t)
  BY <1>9
<1> HIDE DEF epoch
<1> QED BY <1>3, <1>7, <1>8, <1>10, <1>11, <1>12, <1>13, <1>14, <1>15 DEF Onward, epoch

\* What is finalized in a good epoch, and what an epoch may earn.
LEMMA EpochChoices ==
    ASSUME Good(state)
    PROVE  /\ LastEpoch \in Nat /\ LastEpoch <= get_current_epoch(state)
           /\ state.finalized \in Nat /\ state.finalized <= get_current_epoch(state)
           /\ \A i \in DOMAIN NoReward : NoReward[i] \in Int
           /\ \A d \in RewardOutcomes : \A i \in DOMAIN d : d[i] \in Int
<1> DEFINE epoch == get_current_epoch(state)
<1>1. state.finalized \in Nat /\ epoch \in Nat /\ state.finalized <= epoch
  BY Fields DEF Good, InTime
<1>2. LastEpoch \in Nat /\ LastEpoch <= epoch
  <2>1. LastEpoch = IF state.finalized <= epoch - 1 THEN epoch - 1 ELSE state.finalized
    BY <1>1, LargerIs DEF LastEpoch
  <2> HIDE DEF epoch
  <2> QED BY <1>1, <2>1
<1>3. \A i \in DOMAIN NoReward : NoReward[i] \in Int
  BY DEF NoReward
<1>4. \A d \in RewardOutcomes : \A i \in DOMAIN d : d[i] \in Int
  BY AnchorsAssumption
<1> QED BY <1>1, <1>2, <1>3, <1>4

\* The next slot.
LEMMA NextSlotStep ==
    ASSUME Inv, NextSlot
    PROVE  Onward
<1> DEFINE epoch == get_current_epoch(state)
           empty == IF phase = 0 /\ state.slot > 0 THEN 1 ELSE 0
<1>1. Good(state) /\ StateOK(state) /\ Ahead(state) /\ ~state.failed /\ state.slot < MaxSlot /\ phase' = 0 /\ proposer' = 0
  BY DEF Inv, Good, NextSlot
<1>2. epoch \in Nat /\ state.finalized \in Nat /\ state.finalized <= epoch /\ LastEpoch \in Nat /\ LastEpoch <= epoch
  BY <1>1, EpochChoices, Fields
<1>3. (\A i \in DOMAIN NoReward : NoReward[i] \in Int) /\ (\A d \in RewardOutcomes : \A i \in DOMAIN d : d[i] \in Int)
  BY <1>1, EpochChoices
<1>6. events \in Nat /\ empty \in Nat
  BY DEF Inv
<1>7. \/ /\ (state.slot + 1) % SLOTS_PER_EPOCH = 0
         /\ \/ process_epoch(LastEpoch, NoReward) /\ events' = events + empty
            \/ /\ events' = events + empty + 1
               /\ \E f \in {state.finalized, LastEpoch}, d \in RewardOutcomes : process_epoch(f, d)
      \/ /\ (state.slot + 1) % SLOTS_PER_EPOCH # 0
         /\ state' = [state EXCEPT !.slot = @ + 1]
         /\ events' = events + empty
         /\ UNCHANGED <<ledger, penalised, churned>>
  BY DEF NextSlot
<1> HIDE DEF empty
<1>8. events' \in Nat
  BY <1>6, <1>7
<1>9. CASE (state.slot + 1) % SLOTS_PER_EPOCH = 0 /\ process_epoch(LastEpoch, NoReward)
  BY <1>1, <1>2, <1>3, <1>8, <1>9, EpochStep
<1>10. ASSUME (state.slot + 1) % SLOTS_PER_EPOCH = 0, NEW f \in {state.finalized, LastEpoch}, NEW d \in RewardOutcomes, process_epoch(f, d)
       PROVE  Onward
  <2>1. f \in Nat /\ f <= epoch
    BY <1>2
  <2>2. \A i \in DOMAIN d : d[i] \in Int
    BY <1>3
  <2> QED BY <1>1, <1>8, <1>10, <2>1, <2>2, EpochStep
<1>11. CASE /\ (state.slot + 1) % SLOTS_PER_EPOCH # 0 /\ state' = [state EXCEPT !.slot = @ + 1]
            /\ UNCHANGED <<ledger, penalised, churned>>
  <2> DEFINE t == [state EXCEPT !.slot = @ + 1]
  <2>1. /\ Good(t) /\ t.validators = state.validators /\ t.failed = state.failed /\ t.consolidations = state.consolidations
        /\ t.consolidating = state.consolidating /\ get_current_epoch(t) = epoch
    BY <1>1, <1>11, SlotGood
  <2>2. state' = t /\ penalised' = penalised
    BY <1>11
  <2> HIDE DEF t
  <2>3. Ahead(t)
    BY <1>1, <2>1 DEF Ahead
  <2>4. Indices(t) = Indices(state)
    BY <2>1 DEF Indices
  <2>5. \A i \in Indices(state) : Kept(state.validators[i], t.validators[i], epoch)
    BY <1>1, <2>1, Fields, KeptSame
  <2>6. ActiveSame(state, t)
    BY <2>1, <2>4 DEF ActiveSame, active_validator_indices, get_total_active_balance
  <2>7. Delayed => Penal(t, penalised)
    BY <2>1, <2>4 DEF Inv, Penal
  <2>8. DOMAIN penalised = Indices(t)
    BY <2>4 DEF Inv
  <2>9. phase' \in 0..8 /\ proposer' \in {0} \cup Indices(t)
    BY <1>1
  <2> HIDE DEF epoch
  <2> QED BY <1>1, <1>8, <2>1, <2>2, <2>3, <2>4, <2>5, <2>6, <2>7, <2>8, <2>9 DEF Onward, epoch
<1> QED BY <1>7, <1>9, <1>10, <1>11

\* Every step goes on so, and one that changes nothing too.
LEMMA NextOnward ==
    ASSUME Inv, [Next]_vars
    PROVE  Onward
<1>1. CASE NextSlot
  BY <1>1, NextSlotStep
<1>2. CASE StartBlock
  BY <1>2, StartBlockStep
<1>3. CASE \E i \in Indices(state) : ProposerSlashing(i)
  BY <1>3, SlashingsStep
<1>4. CASE \E S \in SUBSET Indices(state) : AttesterSlashing(S)
  BY <1>4, SlashingsStep
<1>5. CASE \E i \in Indices(state) :
               \/ VoluntaryExit(i) \/ BlsToExecutionChange(i)
               \/ \E owner \in BOOLEAN : \/ \E amount \in Amounts : WithdrawalRequest(i, amount, owner)
                                         \/ \E j \in Indices(state) : ConsolidationRequest(i, j, owner)
  BY <1>5, RequestsStep
<1>6. CASE ProcessDeposits
  BY <1>6, ProcessDepositsStep
<1>7. CASE \E d \in Deposits : DepositRequest(d)
  BY <1>7, DepositRequestStep
<1>8. CASE UNCHANGED vars
  <2>1. state' = state /\ penalised' = penalised /\ phase' = phase /\ proposer' = proposer /\ events' = events
    BY <1>8 DEF vars
  <2>2. Good(state) /\ StateOK(state) /\ state \in StateType
    BY DEF Inv, Good, StateOK
  <2>3. Step(state, state)
    BY <2>2, RegistrySame
  <2>4. DOMAIN penalised' = Indices(state') /\ \A i \in Indices(state') : penalised'[i] = IF i \in DOMAIN penalised THEN penalised[i] ELSE 0
    BY <2>1 DEF Inv
  <2>5. Step(state, state') /\ Ahead(state') /\ ~state'.failed /\ phase' \in 0..8 /\ proposer' \in {0} \cup Indices(state') /\ events' \in Nat
    BY <2>1, <2>3 DEF Inv
  <2> QED BY <2>4, <2>5, InBlock
<1> QED BY <1>1, <1>2, <1>3, <1>4, <1>5, <1>6, <1>7, <1>8 DEF Next

\* The chain starts in such a state.
LEMMA InitInv == Init => Inv
<1> SUFFICES ASSUME Init PROVE Inv
  OBVIOUS
<1>1. PICK g \in Anchors : state = StartState(g)
  BY DEF Init
<1> DEFINE s == state
           epoch == get_current_epoch(s)
<1>2. /\ StateOK(s) /\ ~s.failed /\ s.slot <= MaxSlot /\ s.finalized <= epoch
      /\ QueuesInOrder(s)
      /\ \A k \in DOMAIN s.consolidations : s.validators[s.consolidations[k].source].withdrawable > epoch
      /\ \A i \in Indices(s) : InOrder(s.validators[i]) /\ (s.validators[i].slashed => epoch + HALF <= s.validators[i].withdrawable)
  BY <1>1, AnchorsAssumption DEF HALF
<1>3. QueuesOK(s)
  BY <1>2 DEF QueuesInOrder, QueuesOK, DELAY
<1>4. \A i \in Indices(s) : Life(s.validators[i], s.consolidating.epoch)
  BY <1>2 DEF InOrder, Life, DELAY
<1>5. Good(s) /\ Ahead(s)
  BY <1>2, <1>3, <1>4 DEF Good, Ahead, InTime
<1>6. penalised = [i \in Indices(s) |-> 0] /\ phase = 0 /\ proposer = 0 /\ events = 0
  BY DEF Init
<1>7. Penal(s, penalised)
  <2> SUFFICES ASSUME NEW i \in Indices(s) PROVE ~Due(s.validators[i], epoch)
    BY <1>6 DEF Penal
  <2>1. s.validators[i] \in ValidatorType /\ epoch \in Nat
    BY <1>2, Fields
  <2>2. s.validators[i].withdrawable \in Nat
    BY <2>1 DEF ValidatorType
  <2>3. s.validators[i].slashed => epoch + HALF <= s.validators[i].withdrawable
    BY <1>2
  <2> HIDE DEF epoch
  <2> QED BY <2>1, <2>2, <2>3, HalfIs DEF Due
<1> QED BY <1>2, <1>5, <1>6, <1>7 DEF Inv

\* The invariant is inductive.
LEMMA InvAlways == Spec => []Inv
<1>1. Inv /\ [Next]_vars => Inv'
  <2> SUFFICES ASSUME Inv, [Next]_vars PROVE Inv'
    OBVIOUS
  <2>1. Onward
    BY NextOnward
  <2> QED BY <2>1 DEF Onward, Inv
<1> QED BY <1>1, InitInv, PTL DEF Spec
-----------------------------------------------------------------------------
(* Theorems.                                                                *)

\* The registry keeps its types through every block and every epoch: there is
\* one balance per validator, the queues of partial withdrawals and of
\* consolidations name validators that exist, and no amount is negative.
THEOREM RegistryTyped == Spec => []TypeOK
<1>1. Inv => TypeOK
  BY DEF Inv, Good, TypeOK
<1> QED BY <1>1, InvAlways, PTL

\* However exits, ejections, slashings and consolidations follow on one another,
\* what is decided of a validator stays decided.  initiate_validator_exit/2
\* tells that a validator is leaving by its exit epoch, so this needs that no
\* exit gets the far future for its epoch, and with it the delay.
THEOREM DecidedForGood ==
    ASSUME Delayed
    PROVE  Spec => EpochsFinal
<1> DEFINE A == \A i \in Indices(state) :
                   LET v == state.validators[i]
                       w == state'.validators[i]
                   IN  /\ v.activation # FAR_FUTURE_EPOCH => w.activation = v.activation
                       /\ v.exit # FAR_FUTURE_EPOCH => w.exit = v.exit /\ w.withdrawable >= v.withdrawable
                       /\ v.slashed => w.slashed /\ w.withdrawable = v.withdrawable
<1>1. Inv /\ [Next]_vars => A
  <2> SUFFICES ASSUME Inv, [Next]_vars, NEW i \in Indices(state)
               PROVE  LET v == state.validators[i]
                          w == state'.validators[i]
                      IN  /\ v.activation # FAR_FUTURE_EPOCH => w.activation = v.activation
                          /\ v.exit # FAR_FUTURE_EPOCH => w.exit = v.exit /\ w.withdrawable >= v.withdrawable
                          /\ v.slashed => w.slashed /\ w.withdrawable = v.withdrawable
    OBVIOUS
  <2>1. Kept(state.validators[i], state'.validators[i], get_current_epoch(state))
    BY NextOnward DEF Onward
  <2> QED BY <2>1 DEF Kept
<1>2. Inv /\ [Next]_vars => [A]_vars
  BY <1>1
<1> HIDE DEF A
<1>3. Spec => [][A]_vars
  BY <1>2, InvAlways, PTL DEF Spec
<1> QED BY <1>3 DEF EpochsFinal, A

\* A validator's epochs stay in the order of its life as long as the
\* consolidation queue has not run into the far future: process_consolidation_request/2
\* does not check its exit epochs against it as initiate_validator_exit/2 does.
THEOREM LifeAlwaysInOrder ==
    ASSUME Delayed
    PROVE  Spec => [](state.consolidating.epoch < FAR_FUTURE_EPOCH => LifeInOrder)
<1>1. Inv => (state.consolidating.epoch < FAR_FUTURE_EPOCH => LifeInOrder)
  <2> SUFFICES ASSUME Inv, state.consolidating.epoch < FAR_FUTURE_EPOCH, NEW i \in Indices(state)
               PROVE  InOrder(state.validators[i])
    BY DEF LifeInOrder
  <2>1. Life(state.validators[i], state.consolidating.epoch)
    BY DEF Inv, Good
  <2> QED BY <2>1 DEF Life, InOrder, DELAY
<1> QED BY <1>1, InvAlways, PTL

\* The queue of partial withdrawals is always in the order in which they become
\* payable, so the loop that stops at the first one that is not payable yet
\* passes over none that is.
THEOREM PartialsAlwaysOrdered == Spec => []PartialsOrdered
<1>1. Inv => PartialsOrdered
  <2> SUFFICES ASSUME Inv, NEW j \in DOMAIN state.partials, NEW k \in DOMAIN state.partials, j < k
               PROVE  state.partials[j].withdrawable <= state.partials[k].withdrawable
    BY DEF PartialsOrdered
  <2>1. QueuesOK(state) /\ state.partials \in Seq(PartialType)
    BY DEF Inv, Good, StateOK, StateType
  <2>2. j \in 1..(k - 1)
    BY <2>1
  <2> QED BY <2>1, <2>2 DEF QueuesOK
<1> QED BY <1>1, InvAlways, PTL

\* A source is consolidated before any sweep could pay out its balance: the pass
\* looks one epoch ahead and, the queue being in order, what it leaves is freed
\* only later.  The condition is that of LifeAlwaysInOrder.
THEOREM AlwaysConsolidatedFirst ==
    Spec => [](state.consolidating.epoch < FAR_FUTURE_EPOCH => ConsolidatedBeforeSwept)
<1>1. Inv => (state.consolidating.epoch < FAR_FUTURE_EPOCH => ConsolidatedBeforeSwept)
  <2> SUFFICES ASSUME Inv, state.consolidating.epoch < FAR_FUTURE_EPOCH, NEW k \in DOMAIN state.consolidations,
                      ~state.validators[state.consolidations[k].source].slashed
               PROVE  state.validators[state.consolidations[k].source].withdrawable > get_current_epoch(state)
    BY DEF ConsolidatedBeforeSwept, ToSet
  <2> QED BY DEF Inv, Ahead
<1> QED BY <1>1, InvAlways, PTL

\* The correlation penalty is due to a slashed validator exactly once: no
\* operation moves its withdrawable epoch after the slashing, and a slashing
\* puts it far enough ahead that the epoch of the penalty has not gone by.
THEOREM AlwaysPenalisedOnce ==
    ASSUME Delayed
    PROVE  Spec => []PenalisedOnce
<1>1. Inv => PenalisedOnce
  BY DEF Inv, Penal, Due, HALF, PenalisedOnce
<1> QED BY <1>1, InvAlways, PTL

\* Between two epochs nothing changes who is active or with how much balance:
\* exits and activations take effect in a later epoch, new validators are not
\* active, and effective balances change at the end of the epoch only.  What
\* accessors.ex caches by epoch is therefore right for every block of it.
THEOREM ActiveSetCacheable == Spec => ActiveSetStable
<1> DEFINE A == get_current_epoch(state') = get_current_epoch(state) =>
                    LET epoch == get_current_epoch(state)
                    IN  /\ active_validator_indices(state', epoch) = active_validator_indices(state, epoch)
                        /\ get_total_active_balance(state') = get_total_active_balance(state)
<1>1. Inv /\ [Next]_vars => A
  BY NextOnward DEF Onward, ActiveSame
<1>2. Inv /\ [Next]_vars => [A]_vars
  BY <1>1
<1> HIDE DEF A
<1>3. Spec => [][A]_vars
  BY <1>2, InvAlways, PTL DEF Spec
<1> QED BY <1>3 DEF ActiveSetStable, A
=============================================================================

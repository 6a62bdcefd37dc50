------------------------- MODULE RecursionTheorems -------------------------
(***************************************************************************)
(* What functions that are defined by recursion compute, for inputs of any *)
(* size: the subtrees of a block tree, and folds over sets.                *)
(*                                                                         *)
(* They are reasoned about by induction on the number of steps, which is   *)
(* had from the fact that a set of natural numbers has a least element:    *)
(* the sets of this module stand for the predicates of an induction        *)
(* theorem.                                                                *)
(***************************************************************************)
EXTENDS SimpleTree, SequencesExt, FiniteSetTheorems, WellFoundedInduction, TLAPS

\* A nonempty set of natural numbers has a least element.
LEMMA LeastNat ==
    ASSUME NEW T, T \subseteq Nat, T # {}
    PROVE  \E n \in T : \A m \in T : n <= m
<1>1. IsWellFoundedOn(OpToRel(<, Nat), Nat)
  BY NatLessThanWellFounded
<1>2. PICK n \in T : \A m \in T : ~(<<m, n>> \in OpToRel(<, Nat))
  BY <1>1, WFMin
<1>3. \A m \in T : m \in Nat /\ n \in Nat /\ ~(m < n)
  BY <1>2 DEF OpToRel
<1>4. \A m \in T : n <= m
  BY <1>3
<1> QED BY <1>2, <1>4

\* Division by a positive number: its bounds.
LEMMA DivBounds ==
    \A x \in Nat, n \in Nat \ {0} : x \div n \in Nat /\ n * (x \div n) <= x /\ x < n * (x \div n) + n
  OBVIOUS

\* Division by a positive number keeps the order.
LEMMA DivKeepsOrder == \A x, y \in Nat, n \in Nat \ {0} : y <= x => y \div n <= x \div n
<1> SUFFICES ASSUME NEW x \in Nat, NEW y \in Nat, NEW n \in Nat \ {0}, y <= x, x \div n < y \div n
             PROVE  FALSE
  BY DivBounds
<1> DEFINE p == x \div n
           q == y \div n
<1>1. x < n * p + n /\ n * q <= y /\ p \in Nat /\ q \in Nat /\ p + 1 <= q
  BY DivBounds
<1> HIDE DEF p, q
<1>2. n * (p + 1) <= n * q /\ n * (p + 1) = n * p + n /\ n * p \in Nat /\ n * q \in Nat
  BY <1>1
<1> QED BY <1>1, <1>2

\* A set with 0, and with n + 1 for each number n it has, has all of them.
LEMMA SetInduction ==
    ASSUME NEW S, 0 \in S, \A n \in Nat : n \in S => n + 1 \in S
    PROVE  Nat \subseteq S
<1>1. SUFFICES ASSUME Nat \ S # {} PROVE FALSE
  OBVIOUS
<1>2. PICK n \in Nat \ S : \A m \in Nat \ S : n <= m
  BY <1>1, LeastNat
<1>3. n # 0 /\ n - 1 \in Nat /\ n - 1 \in S
  BY <1>2
<1> QED BY <1>2, <1>3
-----------------------------------------------------------------------------
(* The blocks that are reached from a node.                                 *)

\* f gives the ids that N levels of the recursion of get_subtree/3 visit.
IsReach(f, nodes, id, N) ==
    f = [k \in 0..N |-> IF k = 0 THEN {id} ELSE Grow(nodes, f[k - 1])]

\* There is such a function.
LEMMA ReachExists ==
    ASSUME NEW nodes, NEW id
    PROVE  \A N \in Nat : \E f : IsReach(f, nodes, id, N)
<1> DEFINE S == {N \in Nat : \E f : IsReach(f, nodes, id, N)}
<1>1. 0 \in S
  <2>1. IsReach([k \in 0..0 |-> {id}], nodes, id, 0)
    BY DEF IsReach
  <2> QED BY <2>1
<1>2. ASSUME NEW n \in Nat, n \in S PROVE n + 1 \in S
  <2>1. PICK f : IsReach(f, nodes, id, n)
    BY <1>2
  <2> DEFINE g == [k \in 0..(n + 1) |-> IF k = 0 THEN {id} ELSE Grow(nodes, f[k - 1])]
  <2>2. \A k \in 0..n : g[k] = f[k]
    <3> SUFFICES ASSUME NEW k \in 0..n PROVE g[k] = f[k]
      OBVIOUS
    <3>1. g[k] = IF k = 0 THEN {id} ELSE Grow(nodes, f[k - 1])
      OBVIOUS
    <3>2. f[k] = IF k = 0 THEN {id} ELSE Grow(nodes, f[k - 1])
      BY <2>1 DEF IsReach
    <3> QED BY <3>1, <3>2
  <2> HIDE DEF g
  <2>3. ASSUME NEW k \in 0..(n + 1), k # 0 PROVE Grow(nodes, g[k - 1]) = Grow(nodes, f[k - 1])
    <3>1. k - 1 \in 0..n
      BY <2>3
    <3> QED BY <2>2, <3>1
  <2>4. g = [k \in 0..(n + 1) |-> IF k = 0 THEN {id} ELSE Grow(nodes, g[k - 1])]
    BY <2>3 DEF g
  <2>5. IsReach(g, nodes, id, n + 1)
    BY <2>4 DEF IsReach
  <2> QED BY <2>5
<1> HIDE DEF S
<1>3. Nat \subseteq S
  BY <1>1, <1>2, SetInduction
<1> QED BY <1>3 DEF S

\* Reached, by that function.
LEMMA ReachedIs ==
    ASSUME NEW nodes, NEW id, IsFiniteSet(DOMAIN nodes)
    PROVE  /\ Cardinality(DOMAIN nodes) \in Nat
           /\ \E f : /\ IsReach(f, nodes, id, Cardinality(DOMAIN nodes))
                     /\ Reached(nodes, id) = f[Cardinality(DOMAIN nodes)]
<1> DEFINE N == Cardinality(DOMAIN nodes)
           f == CHOOSE f : f = [k \in 0..N |-> IF k = 0 THEN {id} ELSE Grow(nodes, f[k - 1])]
<1>0. N \in Nat
  BY FS_CardinalityType
<1>1. \E g : IsReach(g, nodes, id, N)
  BY <1>0, ReachExists
<1>2. f = [k \in 0..N |-> IF k = 0 THEN {id} ELSE Grow(nodes, f[k - 1])]
  BY <1>1 DEF IsReach
<1>3. Reached(nodes, id) = f[N]
  BY DEF Reached
<1> QED BY <1>0, <1>2, <1>3 DEF IsReach

\* The children of every node are nodes.
Closed(nodes) == \A n \in DOMAIN nodes : nodes[n] \subseteq DOMAIN nodes

\* What a block adds to the tree when it is new and its parent is there: the
\* tree stays closed and finite, every id that was reached still is, and the
\* block is, if its parent was.
LEMMA AddNodeReaches ==
    ASSUME NEW nodes, NEW id \in DOMAIN nodes, IsFiniteSet(DOMAIN nodes), Closed(nodes),
           NEW b, b \notin DOMAIN nodes, NEW p \in DOMAIN nodes, p \in Reached(nodes, id)
    PROVE  LET new == AddNode(nodes, b, p)
           IN  /\ IsFiniteSet(DOMAIN new) /\ DOMAIN new = DOMAIN nodes \cup {b} /\ Closed(new)
               /\ Reached(nodes, id) \cup {b} \subseteq Reached(new, id)
<1> DEFINE new == AddNode(nodes, b, p)
           N == Cardinality(DOMAIN nodes)
<1>1. /\ DOMAIN new = DOMAIN nodes \cup {b}
      /\ \A n \in DOMAIN nodes : nodes[n] \subseteq new[n] /\ new[n] \subseteq nodes[n] \cup {b}
      /\ new[b] = {} /\ b \in new[p]
  BY DEF AddNode
<1>2. Closed(new)
  BY <1>1 DEF Closed
<1> HIDE DEF new
<1>3. IsFiniteSet(DOMAIN new) /\ Cardinality(DOMAIN new) = N + 1 /\ N \in Nat
  BY <1>1, FS_AddElement, FS_CardinalityType
<1>4. PICK f : IsReach(f, nodes, id, N) /\ Reached(nodes, id) = f[N]
  BY ReachedIs
<1>5. PICK g : IsReach(g, new, id, N + 1) /\ Reached(new, id) = g[N + 1]
  BY <1>3, ReachedIs
<1>6. /\ f[0] = {id} /\ g[0] = {id}
      /\ \A k \in 0..N : k # N => f[k + 1] = Grow(nodes, f[k])
      /\ \A k \in 0..N : g[k + 1] = Grow(new, g[k])
  <2>1. f[0] = {id} /\ g[0] = {id}
    BY <1>3, <1>4, <1>5 DEF IsReach
  <2>4. ASSUME NEW k \in 0..N, k # N PROVE f[k + 1] = Grow(nodes, f[k])
    <3> HIDE DEF N
    <3>1. k + 1 \in 0..N /\ k + 1 # 0 /\ (k + 1) - 1 = k
      BY <1>3, <2>4
    <3>2. f[k + 1] = IF k + 1 = 0 THEN {id} ELSE Grow(nodes, f[(k + 1) - 1])
      BY <1>4, <3>1 DEF IsReach
    <3> QED BY <3>1, <3>2
  <2>5. ASSUME NEW k \in 0..N PROVE g[k + 1] = Grow(new, g[k])
    <3> HIDE DEF N
    <3>1. k + 1 \in 0..(N + 1) /\ k + 1 # 0 /\ (k + 1) - 1 = k
      BY <1>3
    <3>2. g[k + 1] = IF k + 1 = 0 THEN {id} ELSE Grow(new, g[(k + 1) - 1])
      BY <1>5, <3>1 DEF IsReach
    <3> QED BY <3>1, <3>2
  <2> QED BY <2>1, <2>4, <2>5
<1> DEFINE S == {k \in Nat : k <= N => f[k] \subseteq DOMAIN nodes /\ f[k] \subseteq g[k]}
<1>7. 0 \in S
  BY <1>6
<1>8. ASSUME NEW k \in Nat, k \in S PROVE k + 1 \in S
  <2> SUFFICES ASSUME k + 1 <= N PROVE f[k + 1] \subseteq DOMAIN nodes /\ f[k + 1] \subseteq g[k + 1]
    OBVIOUS
  <2>1. k \in 0..N /\ k # N /\ f[k] \subseteq DOMAIN nodes /\ f[k] \subseteq g[k]
    BY <1>3, <1>8
  <2>2. f[k + 1] = Grow(nodes, f[k]) /\ g[k + 1] = Grow(new, g[k])
    BY <1>6, <2>1
  <2>3. Grow(nodes, f[k]) \subseteq DOMAIN nodes
    BY <2>1 DEF Grow, Closed
  <2>4. Grow(nodes, f[k]) \subseteq Grow(new, g[k])
    BY <1>1, <2>1 DEF Grow
  <2> QED BY <2>2, <2>3, <2>4
<1> HIDE DEF S
<1>9. N \in S
  BY <1>3, <1>7, <1>8, SetInduction
<1>10. f[N] \subseteq g[N]
  BY <1>3, <1>9 DEF S
<1>11. g[N + 1] = Grow(new, g[N]) /\ p \in g[N]
  BY <1>3, <1>4, <1>6, <1>10
<1>12. g[N] \subseteq g[N + 1] /\ b \in g[N + 1]
  BY <1>1, <1>11 DEF Grow
<1> QED BY <1>1, <1>2, <1>3, <1>4, <1>5, <1>10, <1>12 DEF new

\* The tree of new/1 has its root only.
LEMMA NewTreeReaches ==
    ASSUME NEW id
    PROVE  LET nodes == NewTree(id).nodes
           IN  /\ IsFiniteSet(DOMAIN nodes) /\ DOMAIN nodes = {id} /\ Closed(nodes)
               /\ id \in Reached(nodes, id)
<1> DEFINE nodes == NewTree(id).nodes
<1>1. DOMAIN nodes = {id} /\ nodes[id] = {}
  BY DEF NewTree
<1> HIDE DEF nodes
<1>2. IsFiniteSet(DOMAIN nodes) /\ Cardinality(DOMAIN nodes) = 1
  BY <1>1, FS_Singleton
<1>3. PICK f : IsReach(f, nodes, id, 1) /\ Reached(nodes, id) = f[1]
  BY <1>2, ReachedIs
<1>4. f[0] = {id} /\ f[1] = Grow(nodes, f[0])
  BY <1>3 DEF IsReach
<1> QED BY <1>1, <1>2, <1>3, <1>4 DEF Grow, Closed, nodes

\* get_subtree/3 goes as deep as there are nodes, which is deep enough: what it
\* visits is the least set that holds the id and the children of its members.
LEMMA ReachedLeast ==
    ASSUME NEW nodes, NEW id \in DOMAIN nodes, IsFiniteSet(DOMAIN nodes), Closed(nodes)
    PROVE  /\ id \in Reached(nodes, id) /\ Reached(nodes, id) \subseteq DOMAIN nodes
           /\ \A n \in Reached(nodes, id) : nodes[n] \subseteq Reached(nodes, id)
           /\ \A T : id \in T /\ (\A n \in T \cap DOMAIN nodes : nodes[n] \subseteq T)
                 => Reached(nodes, id) \subseteq T
<1> DEFINE N == Cardinality(DOMAIN nodes)
<1>1. N \in Nat /\ \E f : IsReach(f, nodes, id, N) /\ Reached(nodes, id) = f[N]
  BY ReachedIs
<1>2. PICK f : IsReach(f, nodes, id, N) /\ Reached(nodes, id) = f[N]
  BY <1>1
<1>3. f[0] = {id} /\ \A k \in Nat : k + 1 <= N => f[k + 1] = Grow(nodes, f[k])
  <2> HIDE DEF N
  <2>1. f[0] = {id}
    BY <1>1, <1>2 DEF IsReach
  <2>2. ASSUME NEW k \in Nat, k + 1 <= N PROVE f[k + 1] = Grow(nodes, f[k])
    <3>1. k + 1 \in 0..N /\ k + 1 # 0 /\ (k + 1) - 1 = k
      BY <1>1, <2>2
    <3>2. f[k + 1] = IF k + 1 = 0 THEN {id} ELSE Grow(nodes, f[(k + 1) - 1])
      BY <1>2, <3>1 DEF IsReach
    <3> QED BY <3>1, <3>2
  <2> QED BY <2>1, <2>2
<1>4. ASSUME NEW T, id \in T, \A n \in T \cap DOMAIN nodes : nodes[n] \subseteq T
      PROVE  f[N] \subseteq T \cap DOMAIN nodes
  <2> DEFINE S == {k \in Nat : k <= N => f[k] \subseteq T \cap DOMAIN nodes}
  <2>1. 0 \in S
    BY <1>3, <1>4
  <2>2. ASSUME NEW k \in Nat, k \in S PROVE k + 1 \in S
    <3> SUFFICES ASSUME k + 1 <= N PROVE f[k + 1] \subseteq T \cap DOMAIN nodes
      OBVIOUS
    <3>1. f[k] \subseteq T \cap DOMAIN nodes
      BY <1>1, <2>2
    <3>2. Grow(nodes, f[k]) \subseteq T \cap DOMAIN nodes
      BY <1>4, <3>1 DEF Grow, Closed
    <3> QED BY <1>3, <3>2
  <2> HIDE DEF S
  <2>3. N \in S
    BY <1>1, <2>1, <2>2, SetInduction
  <2> QED BY <1>1, <2>3 DEF S
<1>5. f[N] \subseteq DOMAIN nodes
  BY <1>4 DEF Closed
<1> DEFINE Full(k) == \A n \in f[k] : nodes[n] \subseteq f[k]
           S == {k \in Nat : k <= N => /\ id \in f[k] /\ f[k] \subseteq DOMAIN nodes
                                       /\ Full(k) \/ Cardinality(f[k]) >= k + 1}
<1>6. 0 \in S
  <2>1. Cardinality({id}) = 1
    BY FS_Singleton
  <2> QED BY <1>3, <2>1
<1>7. ASSUME NEW k \in Nat, k \in S PROVE k + 1 \in S
  <2> SUFFICES ASSUME k + 1 <= N
               PROVE  /\ id \in f[k + 1] /\ f[k + 1] \subseteq DOMAIN nodes
                      /\ Full(k + 1) \/ Cardinality(f[k + 1]) >= (k + 1) + 1
    OBVIOUS
  <2>1. /\ f[k + 1] = Grow(nodes, f[k]) /\ id \in f[k] /\ f[k] \subseteq DOMAIN nodes
        /\ Full(k) \/ Cardinality(f[k]) >= k + 1
    BY <1>1, <1>3, <1>7
  <2>2. f[k] \subseteq f[k + 1] /\ f[k + 1] \subseteq DOMAIN nodes
    BY <2>1 DEF Grow, Closed
  <2>3. CASE Full(k)
    <3>1. f[k + 1] = f[k]
      BY <2>1, <2>3 DEF Grow
    <3> QED BY <2>1, <2>3, <3>1
  <2>4. CASE ~Full(k)
    <3>1. f[k] # f[k + 1]
      BY <2>1, <2>4 DEF Grow
    <3>2. IsFiniteSet(f[k + 1]) /\ IsFiniteSet(f[k])
      BY <2>1, <2>2, FS_Subset
    <3>3. Cardinality(f[k]) < Cardinality(f[k + 1]) /\ Cardinality(f[k]) \in Nat /\ Cardinality(f[k + 1]) \in Nat
      <4>1. Cardinality(f[k]) <= Cardinality(f[k + 1]) /\ (Cardinality(f[k]) = Cardinality(f[k + 1]) => f[k] = f[k + 1])
        BY <2>2, <3>2, FS_Subset
      <4> QED BY <3>1, <3>2, <4>1, FS_CardinalityType
    <3> QED BY <2>1, <2>2, <2>4, <3>3
  <2> QED BY <2>3, <2>4
<1> HIDE DEF S
<1>8. N \in S
  BY <1>1, <1>6, <1>7, SetInduction
<1>9. id \in f[N] /\ (Full(N) \/ Cardinality(f[N]) >= N + 1)
  BY <1>1, <1>8 DEF S
<1>10. Cardinality(f[N]) <= N /\ Cardinality(f[N]) \in Nat
  BY <1>5, FS_Subset, FS_CardinalityType
<1>11. Full(N)
  <2> HIDE DEF N, Full
  <2> QED BY <1>1, <1>9, <1>10
<1> QED BY <1>2, <1>4, <1>5, <1>9, <1>11
-----------------------------------------------------------------------------
(* Folds over finite sets, which take an element c[s] out of each set s.    *)

\* c chooses an element of every nonempty subset of S.
Chooses(c, S) == \A s \in SUBSET S : s # {} => c[s] \in s

\* The sets of at most n elements.
Small(S, n) == {s \in SUBSET S : Cardinality(s) <= n}

\* Taking an element out of a set leaves a smaller one.
LEMMA RemovingShrinks ==
    ASSUME NEW S, IsFiniteSet(S), NEW c, Chooses(c, S)
    PROVE  /\ Small(S, 0) = {{}} /\ Small(S, Cardinality(S)) = SUBSET S /\ Cardinality(S) \in Nat
           /\ \A n \in Nat : /\ Small(S, n) \subseteq Small(S, n + 1)
                             /\ \A s \in Small(S, n + 1) : s # {} => s \ {c[s]} \in Small(S, n)
<1>1. \A s \in SUBSET S : IsFiniteSet(s) /\ Cardinality(s) \in Nat /\ Cardinality(s) <= Cardinality(S)
  BY FS_Subset, FS_CardinalityType
<1>2. Small(S, 0) = {{}}
  <2>1. \A s \in SUBSET S : Cardinality(s) <= 0 <=> s = {}
    BY <1>1, FS_EmptySet
  <2> QED BY <2>1 DEF Small
<1>3. \A n \in Nat : Small(S, n) \subseteq Small(S, n + 1)
  BY <1>1 DEF Small
<1>4. ASSUME NEW n \in Nat, NEW s \in Small(S, n + 1), s # {} PROVE s \ {c[s]} \in Small(S, n)
  <2>1. s \in SUBSET S /\ c[s] \in s /\ Cardinality(s) <= n + 1 /\ Cardinality(s) \in Nat
    BY <1>1, <1>4 DEF Small, Chooses
  <2>2. Cardinality(s \ {c[s]}) = Cardinality(s) - 1
    BY <1>1, <2>1, FS_RemoveElement
  <2> QED BY <2>1, <2>2 DEF Small
<1> QED BY <1>1, <1>2, <1>3, <1>4 DEF Small

\* Induction: a set of sets with {}, and with s whenever it has s \ {c[s]}, has
\* every subset of S.
LEMMA SubsetInduction ==
    ASSUME NEW S, IsFiniteSet(S), NEW c, Chooses(c, S), NEW T, {} \in T,
           \A s \in SUBSET S : s # {} /\ s \ {c[s]} \in T => s \in T
    PROVE  SUBSET S \subseteq T
<1> DEFINE N == {n \in Nat : Small(S, n) \subseteq T}
<1>1. 0 \in N
  BY RemovingShrinks
<1>2. ASSUME NEW n \in Nat, n \in N PROVE n + 1 \in N
  <2>1. \A s \in Small(S, n + 1) : s # {} => s \ {c[s]} \in Small(S, n)
    BY RemovingShrinks
  <2>2. Small(S, n + 1) \subseteq T
    BY <1>2, <2>1 DEF Small
  <2> QED BY <2>2
<1> HIDE DEF N
<1>3. Nat \subseteq N
  BY <1>1, <1>2, SetInduction
<1>4. Cardinality(S) \in N
  BY <1>3, RemovingShrinks
<1> QED BY <1>4, RemovingShrinks DEF N

\* f folds g over the sets of D, with values in M.
IsFold(f, D, M, base, g, c) ==
    /\ f \in [D -> M]
    /\ \A s \in D : f[s] = IF s = {} THEN base ELSE g[<<c[s], f[s \ {c[s]}]>>]

\* There is such a function.
LEMMA FoldExists ==
    ASSUME NEW S, IsFiniteSet(S), NEW c, Chooses(c, S), NEW M, NEW base \in M, NEW g \in [S \X M -> M]
    PROVE  \E f : IsFold(f, SUBSET S, M, base, g, c)
<1> DEFINE N == {n \in Nat : \E f : IsFold(f, Small(S, n), M, base, g, c)}
<1>1. 0 \in N
  <2> DEFINE f == [s \in {{}} |-> base]
  <2>1. IsFold(f, Small(S, 0), M, base, g, c)
    BY RemovingShrinks DEF IsFold
  <2> QED BY <2>1
<1>2. ASSUME NEW n \in Nat, n \in N PROVE n + 1 \in N
  <2>1. PICK f : IsFold(f, Small(S, n), M, base, g, c)
    BY <1>2
  <2> DEFINE h == [s \in Small(S, n + 1) |-> IF s = {} THEN base ELSE g[<<c[s], f[s \ {c[s]}]>>]]
  <2>2. /\ Small(S, n) \subseteq Small(S, n + 1)
        /\ \A s \in Small(S, n + 1) : s # {} => s \ {c[s]} \in Small(S, n) /\ c[s] \in S
    BY RemovingShrinks DEF Small, Chooses
  <2>3. \A s \in Small(S, n) : h[s] = f[s]
    BY <2>1, <2>2 DEF IsFold
  <2>4. ASSUME NEW s \in Small(S, n + 1)
        PROVE  h[s] \in M /\ h[s] = IF s = {} THEN base ELSE g[<<c[s], h[s \ {c[s]}]>>]
    <3>1. CASE s = {}
      BY <3>1
    <3>2. CASE s # {}
      <4>1. s \ {c[s]} \in Small(S, n) /\ c[s] \in S
        BY <2>2, <3>2
      <4>2. f[s \ {c[s]}] \in M /\ h[s \ {c[s]}] = f[s \ {c[s]}]
        BY <2>1, <2>3, <4>1 DEF IsFold
      <4>3. h[s] = g[<<c[s], f[s \ {c[s]}]>>]
        BY <3>2
      <4> HIDE DEF h
      <4>4. <<c[s], f[s \ {c[s]}]>> \in S \X M
        BY <4>1, <4>2
      <4> QED BY <3>2, <4>2, <4>3, <4>4
    <3> QED BY <3>1, <3>2
  <2>5. h \in [Small(S, n + 1) -> M]
    BY <2>4
  <2> HIDE DEF h
  <2>6. IsFold(h, Small(S, n + 1), M, base, g, c)
    BY <2>4, <2>5 DEF IsFold
  <2> QED BY <2>6
<1> HIDE DEF N
<1>3. Nat \subseteq N
  BY <1>1, <1>2, SetInduction
<1>4. Cardinality(S) \in N
  BY <1>3, RemovingShrinks
<1> QED BY <1>4, RemovingShrinks, ZenonT(40) DEF N

\* The image of a finite set is finite.
LEMMA ImageFinite ==
    ASSUME NEW S, IsFiniteSet(S), NEW g
    PROVE  IsFiniteSet({g[x] : x \in S})
<1> DEFINE f == [x \in S |-> g[x]]
           T == {g[x] : x \in S}
<1>1. f \in Surjection(S, T)
  BY DEF Surjection
<1> HIDE DEF f
<1> QED BY <1>1, FS_Surjection

\* A nonempty finite set of natural numbers has a greatest element.
LEMMA GreatestNat ==
    ASSUME NEW S, IsFiniteSet(S)
    PROVE  \A s \in SUBSET S : s # {} /\ s \subseteq Nat => \E m \in s : \A n \in s : n <= m
<1> DEFINE c == [s \in SUBSET S |-> CHOOSE x \in s : TRUE]
           T == {s \in SUBSET S : s # {} /\ s \subseteq Nat => \E m \in s : \A n \in s : n <= m}
<1>1. Chooses(c, S)
  BY DEF Chooses
<1>2. ASSUME NEW s \in SUBSET S, s # {}, s \ {c[s]} \in T PROVE s \in T
  <2> SUFFICES ASSUME s \subseteq Nat PROVE \E m \in s : \A n \in s : n <= m
    OBVIOUS
  <2>1. c[s] \in s /\ s \subseteq Nat
    BY <1>1, <1>2 DEF Chooses
  <2> HIDE DEF c
  <2>2. CASE s \ {c[s]} = {}
    <3>1. \A n \in s : n <= c[s]
      BY <2>1, <2>2
    <3> QED BY <2>1, <3>1
  <2>3. CASE s \ {c[s]} # {}
    <3>1. PICK m \in s \ {c[s]} : \A n \in s \ {c[s]} : n <= m
      BY <1>2, <2>3
    <3>2. m \in Nat /\ c[s] \in Nat
      BY <2>1, <3>1
    <3>3. CASE m <= c[s]
      <4>1. \A n \in s : n <= c[s]
        BY <2>1, <3>1, <3>2, <3>3
      <4> QED BY <2>1, <4>1
    <3>4. CASE c[s] <= m
      <4>1. \A n \in s : n <= m
        BY <2>1, <3>1, <3>4
      <4> QED BY <3>1, <4>1
    <3> QED BY <3>2, <3>3, <3>4
  <2> QED BY <2>2, <2>3
<1>3. {} \in T
  OBVIOUS
<1>4. \A s \in SUBSET S : s # {} /\ s \ {c[s]} \in T => s \in T
  BY <1>2
<1> HIDE DEF c, T
<1>5. SUBSET S \subseteq T
  BY <1>1, <1>3, <1>4, SubsetInduction
<1> QED BY <1>5 DEF T
-----------------------------------------------------------------------------
(* Folds over sequences, as runs.                                           *)

\* Max/1 chooses an element of every set of positions of a sequence.
LEMMA MaxChooses ==
    ASSUME NEW n \in Nat
    PROVE  /\ IsFiniteSet(1..n)
           /\ Chooses([x \in SUBSET (1..n) |-> Max(x)], 1..n)
           /\ \A x \in SUBSET (1..n) : x # {} => Max(x) \in x /\ \A k \in x : k <= Max(x)
<1>1. IsFiniteSet(1..n)
  BY FS_Interval
<1>2. ASSUME NEW x \in SUBSET (1..n), x # {} PROVE Max(x) \in x /\ \A k \in x : k <= Max(x)
  <2>1. x \subseteq Nat
    OBVIOUS
  <2>2. \E m \in x : \A k \in x : k <= m
    BY <1>1, <1>2, <2>1, GreatestNat
  <2>3. \E m \in x : \A k \in x : m >= k
    BY <2>1, <2>2
  <2>4. Max(x) \in x /\ \A k \in x : Max(x) >= k
    BY <2>3 DEF Max
  <2> QED BY <2>1, <2>4
<1> QED BY <1>1, <1>2 DEF Chooses

\* A fold over the positions of a sequence, as a run: step k makes run[k] of
\* run[k - 1], and the last of them is what the fold's own function has for
\* the whole sequence.
IsRun(run, n, M, base, g) ==
    /\ run \in [0..n -> M] /\ run[0] = base
    /\ \A k \in 1..n : run[k] = g[<<k, run[k - 1]>>]

\* h goes through the positions as a fold does, from values in M to others.
IsFoldOf(h, n, M, base, g) ==
    /\ h[{}] = base
    /\ \A x \in SUBSET (1..n) : x # {} /\ h[x \ {Max(x)}] \in M => h[x] = g[<<Max(x), h[x \ {Max(x)}]>>]

\* There is such a run, and a function as a fold defines it.
LEMMA RunExists ==
    ASSUME NEW n \in Nat, NEW M, NEW base \in M, NEW g \in [(1..n) \X M -> M]
    PROVE  /\ \E run : IsRun(run, n, M, base, g)
           /\ \E h \in [SUBSET (1..n) -> M] : IsFoldOf(h, n, M, base, g)
<1> DEFINE c == [x \in SUBSET (1..n) |-> Max(x)]
<1>1. IsFiniteSet(1..n) /\ Chooses(c, 1..n) /\ \A x \in SUBSET (1..n) : c[x] = Max(x)
  BY MaxChooses
<1> HIDE DEF c
<1>2. PICK h : IsFold(h, SUBSET (1..n), M, base, g, c)
  BY <1>1, FoldExists
<1>3. /\ h \in [SUBSET (1..n) -> M] /\ h[{}] = base
      /\ \A x \in SUBSET (1..n) : x # {} => h[x] = g[<<Max(x), h[x \ {Max(x)}]>>]
  BY <1>1, <1>2 DEF IsFold
<1> DEFINE run == [k \in 0..n |-> h[1..k]]
<1>4. \A k \in 1..n : 1..k \in SUBSET (1..n) /\ 1..k # {} /\ Max(1..k) = k /\ (1..k) \ {k} = 1..(k - 1)
  <2> SUFFICES ASSUME NEW k \in 1..n
               PROVE  1..k \in SUBSET (1..n) /\ 1..k # {} /\ Max(1..k) = k /\ (1..k) \ {k} = 1..(k - 1)
    OBVIOUS
  <2>1. 1..k \in SUBSET (1..n) /\ 1..k # {} /\ (1..k) \ {k} = 1..(k - 1) /\ k \in 1..k
    OBVIOUS
  <2>2. Max(1..k) \in 1..k /\ k <= Max(1..k)
    BY <2>1, MaxChooses
  <2> QED BY <2>1, <2>2
<1>5. \A k \in 1..n : h[1..k] = g[<<k, h[1..(k - 1)]>>]
  BY <1>3, <1>4
<1>6. 1..0 = {} /\ \A k \in 0..n : 1..k \in SUBSET (1..n) /\ run[k] = h[1..k]
  OBVIOUS
<1>7. \A k \in 1..n : k \in 0..n /\ k - 1 \in 0..n
  OBVIOUS
<1>8. IsRun(run, n, M, base, g)
  <2>1. run \in [0..n -> M]
    BY <1>3, <1>6
  <2>2. 0 \in 0..n /\ run[0] = base
    BY <1>3, <1>6
  <2>3. \A k \in 1..n : run[k] = g[<<k, run[k - 1]>>]
    BY <1>5, <1>6, <1>7
  <2> QED BY <2>1, <2>2, <2>3 DEF IsRun
<1>9. IsFoldOf(h, n, M, base, g)
  BY <1>3 DEF IsFoldOf
<1> QED BY <1>3, <1>8, <1>9

\* Whatever function meets the fold's equation ends as the run does.
LEMMA RunUnique ==
    ASSUME NEW n \in Nat, NEW M, NEW base, NEW g,
           NEW run, IsRun(run, n, M, base, g), NEW h, IsFoldOf(h, n, M, base, g)
    PROVE  h[1..n] = run[n]
<1> DEFINE S == {k \in Nat : k <= n => h[1..k] = run[k]}
<1>1. 0 \in S
  <2>1. 1..0 = {}
    OBVIOUS
  <2> QED BY <2>1 DEF IsRun, IsFoldOf
<1>2. ASSUME NEW k \in Nat, k \in S PROVE k + 1 \in S
  <2> SUFFICES ASSUME k + 1 <= n PROVE h[1..(k + 1)] = run[k + 1]
    OBVIOUS
  <2> DEFINE x == 1..(k + 1)
  <2>1. x \in SUBSET (1..n) /\ x # {} /\ k + 1 \in x /\ x \ {k + 1} = 1..k /\ k \in 0..n /\ k + 1 \in 1..n /\ (k + 1) - 1 = k
    OBVIOUS
  <2>2. Max(x) \in x /\ k + 1 <= Max(x)
    BY <2>1, MaxChooses
  <2>3. Max(x) = k + 1
    BY <2>2
  <2> HIDE DEF x
  <2>4. h[1..k] = run[k] /\ run[k] \in M
    BY <1>2, <2>1 DEF IsRun
  <2>5. h[x] = g[<<k + 1, h[1..k]>>]
    BY <2>1, <2>3, <2>4 DEF IsFoldOf
  <2>6. run[k + 1] = g[<<k + 1, run[k]>>]
    BY <2>1 DEF IsRun
  <2> QED BY <2>4, <2>5, <2>6 DEF x
<1> HIDE DEF S
<1>3. Nat \subseteq S
  BY <1>1, <1>2, SetInduction
<1> QED BY <1>3 DEF S

\* The sums of the first sequences of q; the last is all of q, flattened.
Flattens(run, q, n, T) ==
    /\ run \in [0..n -> Seq(T)] /\ run[0] = << >> /\ FlattenSeq(q) = run[n]
    /\ \A k \in 1..n : run[k] = run[k - 1] \o q[k]

\* A sequence of sequences, put one after the other.
LEMMA FlattenIs ==
    ASSUME NEW T, NEW n \in Nat, NEW q \in [1..n -> Seq(T)]
    PROVE  /\ FlattenSeq(q) \in Seq(T)
           /\ \E run : Flattens(run, q, n, T)
<1>1. q \in Seq(Seq(T)) /\ Len(q) = n
  OBVIOUS
<1>2. CASE n = 0
  <2>1. q = << >>
    BY <1>1, <1>2
  <2>2. FlattenSeq(q) = q
    BY <1>1, <1>2 DEF FlattenSeq
  <2>3. q \in Seq(T)
    BY <2>1
  <2> DEFINE run == [k \in 0..0 |-> << >>]
  <2>4. run \in [0..n -> Seq(T)] /\ run[0] = << >> /\ FlattenSeq(q) = run[n]
    BY <1>2, <2>1, <2>2
  <2>5. 1..n = {}
    BY <1>2
  <2> HIDE DEF run
  <2>6. Flattens(run, q, n, T)
    BY <2>4, <2>5 DEF Flattens
  <2> QED BY <2>2, <2>3, <2>6
<1>3. CASE n # 0
  <2> DEFINE M == Seq(T)
             g == [p \in (1..n) \X M |-> p[2] \o q[p[1]]]
             F == CHOOSE f : f = [i \in 1..n |-> IF i = 1 THEN q[i] ELSE f[i - 1] \o q[i]]
  <2>1. FlattenSeq(q) = F[n]
    BY <1>1, <1>3 DEF FlattenSeq
  <2>2. g \in [(1..n) \X M -> M] /\ \A k \in 1..n, a \in M : g[<<k, a>>] = a \o q[k]
    <3>1. \A k \in 1..n, a \in M : a \o q[k] \in M
      OBVIOUS
    <3> HIDE DEF M
    <3> QED BY <3>1
  <2>3. << >> \in M
    OBVIOUS
  <2> HIDE DEF g, M
  <2>4. PICK run : IsRun(run, n, M, << >>, g)
    BY <2>2, <2>3, RunExists
  <2> DEFINE f == [i \in 1..n |-> run[i]]
  <2>5. \A i \in 1..n : i - 1 \in 0..n /\ run[i - 1] \in M /\ run[i] = run[i - 1] \o q[i]
    <3>1. \A i \in 1..n : i - 1 \in 0..n
      OBVIOUS
    <3>2. \A i \in 1..n : run[i - 1] \in M
      BY <2>4, <3>1 DEF IsRun
    <3> QED BY <2>2, <2>4, <3>1, <3>2 DEF IsRun
  <2>6. 1 \in 1..n => run[1] = q[1]
    <3>1. run[0] = << >>
      BY <2>4 DEF IsRun
    <3>2. 1 \in 1..n => run[1] = run[0] \o q[1]
      <4>1. 1 - 1 = 0
        OBVIOUS
      <4> QED BY <2>5, <4>1
    <3> QED BY <3>1, <3>2
  <2>7. f = [i \in 1..n |-> IF i = 1 THEN q[i] ELSE f[i - 1] \o q[i]]
    <3>1. \A i \in 1..n : i # 1 => i - 1 \in 1..n
      OBVIOUS
    <3> QED BY <2>5, <2>6, <3>1
  <2>8. F = [i \in 1..n |-> IF i = 1 THEN q[i] ELSE F[i - 1] \o q[i]]
    BY <2>7
  <2> HIDE DEF F
  <2> DEFINE S == {k \in Nat : k + 1 <= n => F[k + 1] = run[k + 1]}
  <2>9. 0 \in S
    BY <2>6, <2>8
  <2>10. ASSUME NEW k \in Nat, k \in S PROVE k + 1 \in S
    <3> SUFFICES ASSUME (k + 1) + 1 <= n PROVE F[(k + 1) + 1] = run[(k + 1) + 1]
      OBVIOUS
    <3>1. F[k + 1] = run[k + 1]
      BY <2>10
    <3>2. (k + 1) + 1 \in 1..n /\ (k + 1) + 1 # 1 /\ ((k + 1) + 1) - 1 = k + 1
      OBVIOUS
    <3>3. F[(k + 1) + 1] = F[k + 1] \o q[(k + 1) + 1]
      BY <2>8, <3>2
    <3>4. run[(k + 1) + 1] = run[k + 1] \o q[(k + 1) + 1]
      BY <2>5, <3>2
    <3> QED BY <3>1, <3>3, <3>4
  <2> HIDE DEF S
  <2>11. Nat \subseteq S
    BY <2>9, <2>10, SetInduction
  <2>12. F[n] = run[n]
    <3>1. n - 1 \in Nat /\ (n - 1) + 1 = n
      BY <1>3
    <3>2. n - 1 \in S
      BY <2>11, <3>1
    <3> QED BY <3>1, <3>2 DEF S
  <2>13. run \in [0..n -> M] /\ run[0] = << >> /\ n \in 0..n
    BY <2>4 DEF IsRun
  <2>14. FlattenSeq(q) = run[n] /\ run[n] \in M
    BY <2>1, <2>12, <2>13
  <2>15. Flattens(run, q, n, T)
    BY <2>5, <2>13, <2>14 DEF Flattens, M
  <2> QED BY <2>14, <2>15 DEF M
<1> QED BY <1>2, <1>3
=============================================================================

------------------------ MODULE ForkChoiceTreeProofs ------------------------
(***************************************************************************)
(* Proofs about the block tree of ForkChoice: what get_ancestor/3 finds,   *)
(* where the checkpoints of the store are on the chain, what the tree of   *)
(* the store holds, and which head the votes give.                         *)
(***************************************************************************)
EXTENDS ForkChoiceProofs

(* Ancestors *)

\* What is true of the anchor, and of a block whenever it is true of its
\* parent, is true of all blocks.
LEMMA ParentInduction ==
    ASSUME NEW S, Anchor \in S, \A r \in Root \ {Anchor} : ParentOf[r] \in S => r \in S
    PROVE  Root \subseteq S
<1>1. SUFFICES ASSUME Root \ S # {} PROVE FALSE
  OBVIOUS
<1> DEFINE T == {SlotOf[r] : r \in Root \ S}
<1>2. T \subseteq Nat /\ T # {}
  BY <1>1, TreeAssumption
<1>3. PICK n \in T : \A m \in T : n <= m
  BY <1>2, LeastNat
<1>4. PICK r \in Root \ S : \A q \in Root \ S : SlotOf[r] <= SlotOf[q]
  BY <1>3
<1>5. r # Anchor /\ ParentOf[r] \in Root /\ SlotOf[ParentOf[r]] < SlotOf[r]
  BY <1>4, TreeAssumption
<1>6. ParentOf[r] \in S
  BY <1>4, <1>5, TreeAssumption
<1> QED BY <1>4, <1>5, <1>6

\* Every block but the anchor is of a later slot than the anchor.
LEMMA AnchorFirst == \A r \in Root \ {Anchor} : SlotOf[Anchor] < SlotOf[r]
<1> DEFINE S == {r \in Root : r # Anchor => SlotOf[Anchor] < SlotOf[r]}
<1>1. Anchor \in S
  BY TreeAssumption
<1>2. \A r \in Root \ {Anchor} : ParentOf[r] \in S => r \in S
  BY TreeAssumption
<1> HIDE DEF S
<1>3. Root \subseteq S
  BY <1>1, <1>2, ParentInduction
<1> QED BY <1>3 DEF S

\* f finds the ancestor at slot s of every block before slot n.
Before(n) == {x \in Root : SlotOf[x] < n}
IsAncestor(f, s, n) ==
    f = [x \in Before(n) |-> IF x # Anchor /\ SlotOf[x] > s THEN f[ParentOf[x]] ELSE x]

\* There is such a function,
LEMMA AncestorExists ==
    ASSUME NEW s
    PROVE  \A n \in Nat : \E f : IsAncestor(f, s, n)
<1> DEFINE S == {n \in Nat : \E f : IsAncestor(f, s, n)}
<1>1. 0 \in S
  <2>1. Before(0) = {}
    BY TreeAssumption DEF Before
  <2>2. IsAncestor([x \in {} |-> x], s, 0)
    BY <2>1 DEF IsAncestor
  <2> QED BY <2>2
<1>2. ASSUME NEW n \in Nat, n \in S PROVE n + 1 \in S
  <2>1. PICK f : IsAncestor(f, s, n)
    BY <1>2
  <2> DEFINE g == [x \in Before(n + 1) |-> IF x # Anchor /\ SlotOf[x] > s THEN f[ParentOf[x]] ELSE x]
  <2>2. Before(n) \subseteq Before(n + 1) /\ \A x \in Before(n + 1) \ {Anchor} : ParentOf[x] \in Before(n)
    BY TreeAssumption DEF Before
  <2>3. \A x \in Before(n) : g[x] = f[x]
    <3> SUFFICES ASSUME NEW x \in Before(n) PROVE g[x] = f[x]
      OBVIOUS
    <3>1. f[x] = IF x # Anchor /\ SlotOf[x] > s THEN f[ParentOf[x]] ELSE x
      BY <2>1 DEF IsAncestor
    <3>2. g[x] = IF x # Anchor /\ SlotOf[x] > s THEN f[ParentOf[x]] ELSE x
      BY <2>2
    <3> QED BY <3>1, <3>2
  <2> HIDE DEF g
  <2>4. \A x \in Before(n + 1) \ {Anchor} : g[ParentOf[x]] = f[ParentOf[x]]
    BY <2>2, <2>3
  <2>5. IsAncestor(g, s, n + 1)
    BY <2>4 DEF g, IsAncestor
  <2> QED BY <2>5
<1> HIDE DEF S
<1>3. Nat \subseteq S
  BY <1>1, <1>2, SetInduction
<1> QED BY <1>3 DEF S

\* and any two of them agree.
LEMMA AncestorUnique ==
    ASSUME NEW s, NEW n \in Nat, NEW m \in Nat, NEW f, NEW g, IsAncestor(f, s, n), IsAncestor(g, s, m)
    PROVE  \A x \in Before(n) \cap Before(m) : f[x] = g[x]
<1> DEFINE S == {x \in Root : x \in Before(n) \cap Before(m) => f[x] = g[x]}
<1>f. \A x \in Before(n) : f[x] = IF x # Anchor /\ SlotOf[x] > s THEN f[ParentOf[x]] ELSE x
  BY DEF IsAncestor
<1>g. \A x \in Before(m) : g[x] = IF x # Anchor /\ SlotOf[x] > s THEN g[ParentOf[x]] ELSE x
  BY DEF IsAncestor
<1>1. Anchor \in S
  BY <1>f, <1>g, TreeAssumption
<1>2. ASSUME NEW r \in Root \ {Anchor}, ParentOf[r] \in S PROVE r \in S
  <2> SUFFICES ASSUME r \in Before(n) \cap Before(m) PROVE f[r] = g[r]
    OBVIOUS
  <2>1. ParentOf[r] \in Before(n) \cap Before(m)
    BY TreeAssumption DEF Before
  <2> QED BY <1>2, <1>f, <1>g, <2>1
<1> HIDE DEF S
<1>3. Root \subseteq S
  BY <1>1, <1>2, ParentInduction
<1> QED BY <1>3 DEF S, Before

\* Store.get_ancestor/3, as a walk.
LEMMA Walk ==
    ASSUME NEW r \in Root, NEW s
    PROVE  get_ancestor(r, s) =
               IF r # Anchor /\ SlotOf[r] > s THEN get_ancestor(ParentOf[r], s) ELSE r
<1> DEFINE At(n) == CHOOSE f : IsAncestor(f, s, n)
           F == [x \in Root |-> At(SlotOf[x] + 1)[x]]
           anc == CHOOSE f : f = [x \in Root |-> IF x # Anchor /\ SlotOf[x] > s THEN f[ParentOf[x]] ELSE x]
<1>1. \A n \in Nat : IsAncestor(At(n), s, n)
  BY AncestorExists
<1> HIDE DEF At
<1>2. ASSUME NEW x \in Root
      PROVE  F[x] = IF x # Anchor /\ SlotOf[x] > s THEN F[ParentOf[x]] ELSE x
  <2>1. SlotOf[x] + 1 \in Nat /\ x \in Before(SlotOf[x] + 1)
    BY TreeAssumption DEF Before
  <2>2. F[x] = IF x # Anchor /\ SlotOf[x] > s THEN At(SlotOf[x] + 1)[ParentOf[x]] ELSE x
    BY <1>1, <2>1 DEF IsAncestor
  <2>3. CASE x # Anchor
    <3>1. /\ ParentOf[x] \in Root /\ SlotOf[ParentOf[x]] + 1 \in Nat
          /\ ParentOf[x] \in Before(SlotOf[x] + 1) \cap Before(SlotOf[ParentOf[x]] + 1)
      BY <2>3, TreeAssumption DEF Before
    <3>2. At(SlotOf[x] + 1)[ParentOf[x]] = At(SlotOf[ParentOf[x]] + 1)[ParentOf[x]]
      <4> DEFINE n == SlotOf[x] + 1
                 m == SlotOf[ParentOf[x]] + 1
                 f == At(n)
                 g == At(m)
      <4>1. n \in Nat /\ m \in Nat /\ IsAncestor(f, s, n) /\ IsAncestor(g, s, m)
        BY <1>1, <2>1, <3>1
      <4>2. ParentOf[x] \in Before(n) \cap Before(m)
        BY <3>1
      <4> HIDE DEF n, m, f, g
      <4>3. f[ParentOf[x]] = g[ParentOf[x]]
        BY <4>1, <4>2, AncestorUnique
      <4> QED BY <4>3 DEF n, m, f, g
    <3> QED BY <2>2, <3>1, <3>2
  <2> QED BY <2>2, <2>3
<1> HIDE DEF F
<1>3. F = [x \in Root |-> IF x # Anchor /\ SlotOf[x] > s THEN F[ParentOf[x]] ELSE x]
  BY <1>2 DEF F
<1>4. anc = [x \in Root |-> IF x # Anchor /\ SlotOf[x] > s THEN anc[ParentOf[x]] ELSE x]
  BY <1>3
<1>5. \A x \in Root : get_ancestor(x, s) = anc[x]
  BY DEF get_ancestor
<1> HIDE DEF anc
<1>6. r # Anchor => ParentOf[r] \in Root
  BY TreeAssumption
<1> QED BY <1>4, <1>5, <1>6

\* It ends at a block, at or before the slot unless that is the anchor, and
\* never past the block it started from.
LEMMA AncestorType ==
    ASSUME NEW s
    PROVE  \A r \in Root : /\ get_ancestor(r, s) \in Root
                           /\ get_ancestor(r, s) = Anchor \/ ~(SlotOf[get_ancestor(r, s)] > s)
                           /\ SlotOf[get_ancestor(r, s)] <= SlotOf[r]
<1> DEFINE P(r) == /\ get_ancestor(r, s) \in Root
                   /\ get_ancestor(r, s) = Anchor \/ ~(SlotOf[get_ancestor(r, s)] > s)
                   /\ SlotOf[get_ancestor(r, s)] <= SlotOf[r]
           S == {r \in Root : P(r)}
<1>1. Anchor \in S
  BY Walk, TreeAssumption
<1>2. ASSUME NEW r \in Root \ {Anchor}, ParentOf[r] \in S PROVE r \in S
  <2>1. ParentOf[r] \in Root /\ SlotOf[ParentOf[r]] < SlotOf[r] /\ SlotOf \in [Root -> Nat]
    BY TreeAssumption
  <2>2. CASE SlotOf[r] > s
    <3>1. get_ancestor(r, s) = get_ancestor(ParentOf[r], s)
      BY <2>2, Walk
    <3> QED BY <1>2, <2>1, <3>1
  <2>3. CASE ~(SlotOf[r] > s)
    <3>1. get_ancestor(r, s) = r
      BY <2>3, Walk
    <3> QED BY <2>1, <2>3, <3>1
  <2> QED BY <2>2, <2>3
<1> HIDE DEF S
<1>3. Root \subseteq S
  BY <1>1, <1>2, ParentInduction
<1> QED BY <1>3 DEF S

\* Going back twice is going back once, to the earlier slot.
LEMMA AncestorTwice ==
    ASSUME NEW s \in Int, NEW t \in Int, s <= t
    PROVE  \A r \in Root : get_ancestor(get_ancestor(r, t), s) = get_ancestor(r, s)
<1> DEFINE P(r) == get_ancestor(get_ancestor(r, t), s) = get_ancestor(r, s)
           S == {r \in Root : P(r)}
<1>1. Anchor \in S
  BY Walk, TreeAssumption
<1>2. ASSUME NEW r \in Root \ {Anchor}, ParentOf[r] \in S PROVE r \in S
  <2>1. ParentOf[r] \in Root /\ SlotOf[r] \in Nat
    BY TreeAssumption
  <2>2. CASE SlotOf[r] > t
    <3>1. SlotOf[r] > s
      BY <2>1, <2>2
    <3>2. get_ancestor(r, t) = get_ancestor(ParentOf[r], t) /\ get_ancestor(r, s) = get_ancestor(ParentOf[r], s)
      BY <2>2, <3>1, Walk
    <3> QED BY <1>2, <3>2
  <2>3. CASE ~(SlotOf[r] > t)
    <3>1. get_ancestor(r, t) = r
      BY <2>3, Walk
    <3> QED BY <3>1
  <2> QED BY <2>2, <2>3
<1> HIDE DEF S
<1>3. Root \subseteq S
  BY <1>1, <1>2, ParentInduction
<1> QED BY <1>3 DEF S

\* Every block descends from itself, from the anchor, and from its ancestors;
\* a block that is not the ancestor has a parent that descends from it too.
LEMMA DescendsFrom ==
    ASSUME NEW r \in Root
    PROVE  /\ Descends(r, r) /\ Descends(r, Anchor)
           /\ \A s \in Int : Descends(r, get_ancestor(r, s))
           /\ \A a \in Root : Descends(r, a) /\ r # a =>
                 /\ r # Anchor /\ Descends(ParentOf[r], a) /\ SlotOf[a] < SlotOf[r]
           /\ \A a \in Root : r # Anchor /\ Descends(ParentOf[r], a) => Descends(r, a)
<1>s. SlotOf \in [Root -> Nat]
  BY TreeAssumption
<1>1. Descends(r, r)
  <2>1. ~(SlotOf[r] > SlotOf[r])
    BY <1>s
  <2> QED BY <2>1, Walk DEF Descends
<1>2. Descends(r, Anchor)
  <2>1. get_ancestor(r, SlotOf[Anchor]) \in Root
    BY AncestorType
  <2>2. get_ancestor(r, SlotOf[Anchor]) # Anchor => ~(SlotOf[get_ancestor(r, SlotOf[Anchor])] > SlotOf[Anchor])
    BY AncestorType
  <2> QED BY <1>s, <2>1, <2>2, AnchorFirst DEF Descends
<1>3. ASSUME NEW s \in Int PROVE Descends(r, get_ancestor(r, s))
  <2> DEFINE q == get_ancestor(r, s)
  <2>1. q \in Root
    BY AncestorType
  <2>2. CASE q = Anchor
    BY <1>2, <2>2
  <2>3. CASE q # Anchor
    <3>1. ~(SlotOf[q] > s)
      BY <2>3, AncestorType
    <3>2. SlotOf[q] <= s /\ SlotOf[q] \in Int
      BY <1>s, <2>1, <3>1
    <3>3. get_ancestor(q, SlotOf[q]) = get_ancestor(r, SlotOf[q])
      BY <3>2, AncestorTwice
    <3>4. get_ancestor(q, SlotOf[q]) = q
      <4>1. ~(SlotOf[q] > SlotOf[q])
        BY <3>2
      <4> QED BY <2>1, <4>1, Walk
    <3> QED BY <3>3, <3>4 DEF Descends
  <2> QED BY <2>2, <2>3
<1>4. ASSUME NEW a \in Root, Descends(r, a), r # a
      PROVE  r # Anchor /\ Descends(ParentOf[r], a) /\ SlotOf[a] < SlotOf[r]
  <2>1. r # Anchor /\ SlotOf[r] > SlotOf[a] /\ get_ancestor(ParentOf[r], SlotOf[a]) = a
    BY <1>4, Walk DEF Descends
  <2> QED BY <1>s, <2>1 DEF Descends
<1>5. ASSUME NEW a \in Root, r # Anchor, Descends(ParentOf[r], a) PROVE Descends(r, a)
  <2>1. ParentOf[r] \in Root /\ SlotOf[ParentOf[r]] < SlotOf[r]
    BY <1>5, TreeAssumption
  <2>2. SlotOf[a] <= SlotOf[ParentOf[r]]
    BY <1>5, <2>1, AncestorType DEF Descends
  <2>3. SlotOf[r] > SlotOf[a]
    BY <1>s, <2>1, <2>2
  <2> QED BY <1>5, <2>3, Walk DEF Descends
<1> QED BY <1>1, <1>2, <1>3, <1>4, <1>5

\* Descending is transitive.
LEMMA DescendsTwice ==
    ASSUME NEW r \in Root, NEW q \in Root, NEW a \in Root, Descends(r, q), Descends(q, a)
    PROVE  Descends(r, a)
<1>1. SlotOf[a] <= SlotOf[q]
  BY AncestorType DEF Descends
<1>2. SlotOf[a] \in Int /\ SlotOf[q] \in Int
  BY TreeAssumption
<1>3. get_ancestor(get_ancestor(r, SlotOf[q]), SlotOf[a]) = get_ancestor(r, SlotOf[a])
  BY <1>1, <1>2, AncestorTwice
<1> QED BY <1>3 DEF Descends

\* The ancestors of a block are on one chain.
LEMMA OneChain ==
    ASSUME NEW r \in Root, NEW q \in Root, NEW a \in Root, Descends(r, q), Descends(r, a),
           SlotOf[a] <= SlotOf[q]
    PROVE  Descends(q, a)
<1>1. SlotOf[a] \in Int /\ SlotOf[q] \in Int
  BY TreeAssumption
<1>2. get_ancestor(get_ancestor(r, SlotOf[q]), SlotOf[a]) = get_ancestor(r, SlotOf[a])
  BY <1>1, AncestorTwice
<1> QED BY <1>2 DEF Descends

-----------------------------------------------------------------------------
(* Where the checkpoints of the store are *)

\* A checkpoint is the anchor's, or a later one that U gives for a block of S.
Placed(c, U, S) ==
    c = AnchorCheckpoint \/ \E r \in S : c = U[r] /\ c.epoch > AnchorCheckpoint.epoch

\* A set of blocks with the parent of each.
WithParents(S) == \A r \in S \ {Anchor} : ParentOf[r] \in S

\* Such a set holds the ancestors of its blocks.
LEMMA ClosedAncestors ==
    ASSUME NEW S, WithParents(S), NEW a \in Root
    PROVE  \A r \in Root : r \in S /\ Descends(r, a) => a \in S
<1> DEFINE T == {r \in Root : r \in S /\ Descends(r, a) => a \in S}
<1>1. Anchor \in T
  BY DescendsFrom, TreeAssumption
<1>2. ASSUME NEW r \in Root \ {Anchor}, ParentOf[r] \in T PROVE r \in T
  <2> SUFFICES ASSUME r \in S, Descends(r, a), r # a PROVE a \in S
    OBVIOUS
  <2>1. ParentOf[r] \in S
    BY DEF WithParents
  <2>2. Descends(ParentOf[r], a)
    BY DescendsFrom
  <2> QED BY <1>2, <2>1, <2>2
<1> HIDE DEF T
<1>3. Root \subseteq T
  BY <1>1, <1>2, ParentInduction
<1> QED BY <1>3 DEF T

\* The epoch of the anchor starts with it.
LEMMA AnchorEpoch ==
    /\ AnchorCheckpoint.root = Anchor /\ AnchorCheckpoint.epoch \in Nat
    /\ compute_start_slot_at_epoch(AnchorCheckpoint.epoch) = SlotOf[Anchor]
<1>1. SlotOf[Anchor] \in Nat /\ SlotsPerEpoch \in Nat \ {0} /\ SlotOf[Anchor] % SlotsPerEpoch = 0
  BY TreeAssumption, CheckpointsAssumption
<1>2. \A x \in Nat, n \in Nat \ {0} : x % n = 0 => x \div n \in Nat /\ (x \div n) * n = x
  OBVIOUS
<1> QED BY <1>1, <1>2 DEF AnchorCheckpoint, Checkpoint, compute_epoch_at_slot, compute_start_slot_at_epoch

\* The start slots of epochs are in their order.
LEMMA StartSlots ==
    ASSUME NEW e \in Nat, NEW g \in Nat, e <= g
    PROVE  /\ compute_start_slot_at_epoch(e) \in Nat /\ compute_start_slot_at_epoch(g) \in Nat
           /\ compute_start_slot_at_epoch(e) <= compute_start_slot_at_epoch(g)
<1>1. \A n \in Nat \ {0} : e * n \in Nat /\ g * n \in Nat /\ e * n <= g * n
  OBVIOUS
<1> QED BY <1>1, TreeAssumption DEF compute_start_slot_at_epoch

\* The block of a placed checkpoint is a block, and an ancestor of the one that
\* it was found at.
LEMMA PlacedRoot ==
    ASSUME NEW U \in {UJust, UFin}, NEW S \in SUBSET Root, NEW c, Placed(c, U, S)
    PROVE  /\ c \in Checkpoints /\ c.epoch \in Nat /\ c.root \in Root /\ AnchorCheckpoint.epoch <= c.epoch
           /\ Anchor \in S /\ WithParents(S) => c.root \in S
<1>u. UJust \in [Root -> Checkpoints] /\ UFin \in [Root -> Checkpoints]
  BY ForkChoiceAssumption
<1>1. CASE c = AnchorCheckpoint
  BY <1>1, AnchorCheckpointType, AnchorEpoch, TreeAssumption
<1>2. ASSUME NEW r \in S, c = U[r], c.epoch > AnchorCheckpoint.epoch
      PROVE  /\ c \in Checkpoints /\ c.epoch \in Nat /\ c.root \in Root /\ AnchorCheckpoint.epoch <= c.epoch
             /\ Anchor \in S /\ WithParents(S) => c.root \in S
  <2>1. r \in Root /\ c \in Checkpoints /\ c \in {UJust[r], UFin[r]}
    BY <1>2, <1>u
  <2>2. c.root = get_checkpoint_block(r, c.epoch)
    BY <1>2, <2>1, CheckpointsAssumption
  <2>3. c.epoch \in Nat /\ compute_start_slot_at_epoch(c.epoch) \in Int
    BY <2>1, StartSlots DEF Checkpoints
  <2>4. c.root \in Root /\ Descends(r, c.root)
    BY <2>1, <2>2, <2>3, AncestorType, DescendsFrom DEF get_checkpoint_block
  <2>5. WithParents(S) => c.root \in S
    BY <1>2, <2>1, <2>4, ClosedAncestors
  <2> QED BY <1>2, <2>1, <2>3, <2>4, <2>5, AnchorEpoch
<1> QED BY <1>1, <1>2 DEF Placed

\* By accountable safety, a checkpoint that is not earlier than a finalized one
\* is on its chain.
LEMMA OnFinalized ==
    ASSUME AccountableSafety, NEW U \in {UJust, UFin}, NEW f, NEW c,
           Placed(f, UFin, Root), Placed(c, U, Root), f.epoch <= c.epoch
    PROVE  f.root = get_checkpoint_block(c.root, f.epoch) /\ Descends(c.root, f.root)
<1>1. c.root \in Root /\ f.root \in Root /\ f.epoch \in Nat /\ c.epoch \in Nat
  BY PlacedRoot
<1>2. f.root = get_checkpoint_block(c.root, f.epoch)
  <2>1. CASE f = AnchorCheckpoint
    BY <1>1, <2>1, AnchorEpoch, DescendsFrom DEF Descends, get_checkpoint_block
  <2>2. ASSUME NEW r \in Root, f = UFin[r], f.epoch > AnchorCheckpoint.epoch
        PROVE  f.root = get_checkpoint_block(c.root, f.epoch)
    <3>1. c # AnchorCheckpoint
      BY <1>1, <2>2, AnchorEpoch
    <3>2. PICK q \in Root : c = U[q]
      BY <3>1 DEF Placed
    <3>3. c \in {UJust[q], UFin[q]}
      BY <3>2
    <3> QED BY <1>1, <2>2, <3>3, AnchorEpoch DEF AccountableSafety
  <2> QED BY <2>1, <2>2 DEF Placed
<1>3. compute_start_slot_at_epoch(f.epoch) \in Int
  BY <1>1, StartSlots
<1> QED BY <1>1, <1>2, <1>3, DescendsFrom DEF get_checkpoint_block

\* The checkpoints in the state of a block were computed at an ancestor of its
\* parent, unless they are not later than the anchor's, and the finalized one
\* is then not later than the justified one.
StateFrom(r) ==
    /\ \/ JustifiedIn[r].epoch <= AnchorCheckpoint.epoch
       \/ r # Anchor /\ \E q \in Root : Descends(ParentOf[r], q) /\ JustifiedIn[r] = UJust[q]
    /\ \/ FinalizedIn[r].epoch <= AnchorCheckpoint.epoch
       \/ r # Anchor /\ \E q \in Root : Descends(ParentOf[r], q) /\ FinalizedIn[r] = UFin[q]
    /\ \/ FinalizedIn[r].epoch <= AnchorCheckpoint.epoch
       \/ FinalizedIn[r].epoch <= JustifiedIn[r].epoch

\* It is so for every block, by induction along the chain of parents.
LEMMA StatesFrom == \A r \in Root : StateFrom(r)
<1> DEFINE S == {r \in Root : StateFrom(r)}
<1>1. Anchor \in S
  BY TreeAssumption, CheckpointsAssumption DEF StateFrom
<1>2. ASSUME NEW r \in Root \ {Anchor}, ParentOf[r] \in S PROVE r \in S
  <2> DEFINE p == ParentOf[r]
  <2>1. p \in Root /\ Descends(p, p)
    BY TreeAssumption, DescendsFrom
  <2>2. CASE NewEpoch(r)
    <3>1. JustifiedIn[r] = UJust[p] /\ FinalizedIn[r] = UFin[p] /\ UFin[p].epoch <= UJust[p].epoch
      BY <2>1, <2>2, CheckpointsAssumption
    <3> QED BY <2>1, <3>1 DEF StateFrom
  <2>3. CASE ~NewEpoch(r)
    <3>1. JustifiedIn[r] = JustifiedIn[p] /\ FinalizedIn[r] = FinalizedIn[p]
      BY <2>3, CheckpointsAssumption
    <3>2. \A q \in Root : p # Anchor /\ Descends(ParentOf[p], q) => Descends(p, q)
      BY <2>1, DescendsFrom
    <3>3. StateFrom(p)
      BY <1>2
    <3> QED BY <2>1, <3>1, <3>2, <3>3 DEF StateFrom
  <2> QED BY <2>2, <2>3
<1> HIDE DEF S
<1>3. Root \subseteq S
  BY <1>1, <1>2, ParentInduction
<1> QED BY <1>3 DEF S

\* The checkpoints of the store have been computed at accepted blocks, and what
\* is final is not later than what is justified.
PlaceInv ==
    /\ WithParents(Accepted)
    /\ Placed(store.justified, UJust, Accepted) /\ Placed(store.finalized, UFin, Accepted)
    /\ Placed(store.ujustified, UJust, Accepted) /\ Placed(store.ufinalized, UFin, Accepted)
    /\ store.finalized.epoch <= store.justified.epoch
    /\ store.ufinalized.epoch <= store.ujustified.epoch

\* The later of a placed checkpoint and one that a block of S gives is placed.
LEMMA LaterPlaced ==
    ASSUME NEW U \in {UJust, UFin}, NEW S \in SUBSET Root, NEW new \in Checkpoints, NEW old, Placed(old, U, S),
           new.epoch <= AnchorCheckpoint.epoch \/ \E r \in S : new = U[r]
    PROVE  Placed(Later(new, old), U, S)
<1>1. old \in Checkpoints /\ AnchorCheckpoint.epoch <= old.epoch /\ AnchorCheckpoint.epoch \in Nat
  BY PlacedRoot, AnchorEpoch
<1>2. new.epoch \in Nat /\ old.epoch \in Nat
  BY <1>1 DEF Checkpoints
<1>3. CASE Later(new, old) = old
  BY <1>3
<1>4. CASE Later(new, old) = new /\ new.epoch > old.epoch
  BY <1>1, <1>2, <1>4 DEF Placed
<1> QED BY <1>1, <1>3, <1>4, LaterIs

\* Taking the later of two checkpoints keeps the order of the pair.
LEMMA LaterInOrder ==
    ASSUME NEW j \in Checkpoints, NEW f \in Checkpoints, NEW jj \in Checkpoints, NEW ff \in Checkpoints,
           f.epoch <= j.epoch, ff.epoch <= jj.epoch \/ ff.epoch <= j.epoch
    PROVE  Later(ff, f).epoch <= Later(jj, j).epoch
  BY DEF Later, Checkpoints

\* More blocks place no fewer checkpoints.
LEMMA PlacedMore ==
    ASSUME NEW U, NEW S, NEW T, S \subseteq T, NEW c, Placed(c, U, S)
    PROVE  Placed(c, U, T)
  BY DEF Placed

\* Every step keeps it; the finalized checkpoint stays or is replaced by a
\* later one.
LEMMA StepPlace ==
    ASSUME TypeInv, BlocksOK, PlaceInv, [Next]_vars
    PROVE  PlaceInv' /\ (UNCHANGED store.finalized \/ store.finalized.epoch < store'.finalized.epoch)
<1>t. TypeInv' /\ Accepted \subseteq Root /\ Accepted' \subseteq Root
  BY StepAdvances DEF Accepted
<1>c. /\ {store.justified, store.finalized, store.ujustified, store.ufinalized} \subseteq Checkpoints
      /\ \A r \in Root : {UJust[r], UFin[r], JustifiedIn[r], FinalizedIn[r]} \subseteq Checkpoints
      /\ \A c \in Checkpoints : c.epoch \in Nat
  BY EpochTypes
<1>1. ASSUME NEW r \in Root \ {Anchor}, Accepts(r)
      PROVE  PlaceInv' /\ (UNCHANGED store.finalized \/ store.finalized.epoch < store'.finalized.epoch)
  <2> DEFINE S == Accepted \cup {r}
             j == Later(JustifiedIn[r], store.justified)
             f == Later(FinalizedIn[r], store.finalized)
             past == compute_epoch_at_slot(SlotOf[r]) < get_current_epoch(store)
  <2>0. S \in SUBSET Root /\ Accepted \subseteq S /\ r \in S /\ Accepted' = S /\ ParentOf[r] \in Accepted
    BY <1>1, <1>t, TreeAssumption DEF Accepts, Accepted
  <2>1. /\ store'.justified = IF past THEN Later(UJust[r], j) ELSE j
        /\ store'.finalized = IF past THEN Later(UFin[r], f) ELSE f
        /\ store'.ujustified = Later(UJust[r], store.ujustified)
        /\ store'.ufinalized = Later(UFin[r], store.ufinalized)
    <3>1. SamePlace(compute_post_state(store, r), store') /\ StoreOK(store)
      BY <1>1, OnBlockPlace DEF Accepts, TypeInv
    <3> QED BY <3>1, PostStateFields DEF SamePlace
  <2>2. /\ Placed(store.justified, UJust, S) /\ Placed(store.finalized, UFin, S)
        /\ Placed(store.ujustified, UJust, S) /\ Placed(store.ufinalized, UFin, S)
    BY <2>0, PlacedMore DEF PlaceInv
  <2>3. /\ JustifiedIn[r].epoch <= AnchorCheckpoint.epoch \/ \E q \in S : JustifiedIn[r] = UJust[q]
        /\ FinalizedIn[r].epoch <= AnchorCheckpoint.epoch \/ \E q \in S : FinalizedIn[r] = UFin[q]
    <3>1. \A q \in Root : Descends(ParentOf[r], q) => q \in Accepted
      BY <1>t, <2>0, ClosedAncestors DEF PlaceInv
    <3> QED BY <2>0, <3>1, StatesFrom DEF StateFrom
  <2>4. FinalizedIn[r].epoch <= JustifiedIn[r].epoch \/ FinalizedIn[r].epoch <= store.justified.epoch
    <3>1. AnchorCheckpoint.epoch <= store.justified.epoch /\ AnchorCheckpoint.epoch \in Nat
      BY <1>t, PlacedRoot, AnchorEpoch DEF PlaceInv
    <3> QED BY <1>c, <3>1, StatesFrom DEF StateFrom
  <2>5. UFin[r].epoch <= UJust[r].epoch
    BY CheckpointsAssumption
  <2>6. j \in Checkpoints /\ f \in Checkpoints /\ f.epoch <= j.epoch
    BY <1>c, <2>4, LaterIs, LaterInOrder DEF PlaceInv
  <2>7. Placed(j, UJust, S) /\ Placed(f, UFin, S)
    BY <1>c, <2>0, <2>2, <2>3, LaterPlaced
  <2>8. f = store.finalized \/ store.finalized.epoch < f.epoch
    BY <1>c, LaterIs
  <2> HIDE DEF S, j, f, past
  <2>9. Placed(Later(UJust[r], j), UJust, S) /\ Placed(Later(UFin[r], f), UFin, S)
    BY <1>c, <2>0, <2>7, LaterPlaced
  <2>10. Placed(store'.justified, UJust, S) /\ Placed(store'.finalized, UFin, S)
    BY <2>1, <2>7, <2>9
  <2>11. Placed(store'.ujustified, UJust, S) /\ Placed(store'.ufinalized, UFin, S)
    BY <1>c, <2>0, <2>1, <2>2, LaterPlaced
  <2>12. store'.finalized.epoch <= store'.justified.epoch
    <3>1. Later(UFin[r], f).epoch <= Later(UJust[r], j).epoch
      BY <1>c, <2>5, <2>6, LaterInOrder
    <3> QED BY <2>1, <2>6, <3>1
  <2>13. store'.ufinalized.epoch <= store'.ujustified.epoch
    BY <1>c, <2>1, <2>5, LaterInOrder DEF PlaceInv
  <2>14. WithParents(S)
    BY <2>0 DEF S, PlaceInv, WithParents
  <2>15. store'.finalized = store.finalized \/ store.finalized.epoch < store'.finalized.epoch
    <3>1. Later(UFin[r], f) = f \/ f.epoch < Later(UFin[r], f).epoch
      BY <1>c, <2>6, LaterIs
    <3>2. f.epoch \in Nat /\ store.finalized.epoch \in Nat /\ Later(UFin[r], f).epoch \in Nat
      BY <1>c, <2>6, LaterIs
    <3> QED BY <2>1, <2>8, <3>1, <3>2
  <2> QED BY <2>0, <2>10, <2>11, <2>12, <2>13, <2>14, <2>15 DEF PlaceInv
<1>2. CASE Keeps
  BY <1>2 DEF Keeps, SamePlace, PlaceInv
<1>3. CASE UNCHANGED <<blocks, early>> /\ \E time \in TickTimes : OnTick(time)
  <2>1. UNCHANGED <<store, blocks>>
    BY <1>3 DEF OnTick
  <2> QED BY <2>1 DEF PlaceInv, Accepted
<1>4. CASE UNCHANGED <<blocks, early>> /\ (OnTickSlot \/ OnTickEnd)
  <2>0. Accepted' = Accepted
    BY <1>4 DEF Accepted
  <2> DEFINE j == Later(store.ujustified, store.justified)
             f == Later(store.ufinalized, store.finalized)
  <2>1. /\ store'.ujustified = store.ujustified /\ store'.ufinalized = store.ufinalized
        /\ \/ store'.justified = j /\ store'.finalized = f
           \/ store'.justified = store.justified /\ store'.finalized = store.finalized
    <3>1. PICK time \in Int : store' = on_tick_per_slot(store, time)
      BY <1>4 DEF OnTickSlot, OnTickEnd, TypeInv, TickOK
    <3> QED BY <3>1, TickPerSlotFields DEF TypeInv
  <2>2. Placed(j, UJust, Accepted) /\ Placed(f, UFin, Accepted)
    BY <1>c DEF Later, PlaceInv
  <2>3. f.epoch <= j.epoch
    BY <1>c, LaterInOrder DEF PlaceInv
  <2>4. f = store.finalized \/ store.finalized.epoch < f.epoch
    BY <1>c, LaterIs
  <2> HIDE DEF j, f
  <2> QED BY <2>0, <2>1, <2>2, <2>3, <2>4 DEF PlaceInv
<1> QED BY <1>1, <1>2, <1>3, <1>4, StepKinds

\* It holds when the store is made.
LEMMA InitPlace == Init => PlaceInv
<1> SUFFICES ASSUME Init PROVE PlaceInv
  OBVIOUS
<1>1. Accepted = {Anchor}
  BY InitBlocks
<1>2. /\ store.justified = AnchorCheckpoint /\ store.finalized = AnchorCheckpoint
      /\ store.ujustified = AnchorCheckpoint /\ store.ufinalized = AnchorCheckpoint
  BY DEF Init
<1> QED BY <1>1, <1>2, AnchorEpoch DEF PlaceInv, WithParents, Placed

\* What Casper FFG promises of the checkpoints of all forks, it keeps for the
\* pair that update_checkpoints/3, compute_pulled_up_tip/4 and
\* on_tick_per_slot/2 put together from blocks of different forks: the
\* justified block descends from the finalized one.
THEOREM AlwaysJustifiedOnFinalized ==
    ASSUME AccountableSafety
    PROVE  Spec => []JustifiedOnFinalized
<1> DEFINE Inv == TypeInv /\ BlocksOK /\ PlaceInv
<1>1. Init => Inv
  BY InitType, InitBlocks, InitPlace
<1>2. Inv /\ [Next]_vars => Inv'
  BY StepAdvances, StepKinds, StepPlace
<1>3. Inv => JustifiedOnFinalized
  <2> SUFFICES ASSUME Inv PROVE JustifiedOnFinalized
    OBVIOUS
  <2>1. Placed(store.justified, UJust, Root) /\ Placed(store.finalized, UFin, Root)
    BY PlacedMore DEF PlaceInv, Accepted
  <2> QED BY <2>1, OnFinalized DEF PlaceInv, JustifiedOnFinalized
<1> QED BY <1>1, <1>2, <1>3, PTL DEF Spec
-----------------------------------------------------------------------------
(* Blocks are found invalid for good *)

\* A block is found invalid by on_block/2 only, which then changes nothing else.
LEMMA InvalidSteps ==
    ASSUME TypeInv, BlocksOK, [Next]_vars, NEW r \in Root, blocks'[r] = "invalid"
    PROVE  \/ blocks[r] = "invalid"
           \/ /\ r # Anchor /\ blocks[r] = "stored" /\ ~Ticking
              /\ ~on_block_ok(store, r) /\ UNCHANGED <<store, early>>
<1>b. DOMAIN blocks = Root
  BY DEF BlocksOK
<1>1. CASE \E q \in Root \ {Anchor} : Receive(q)
  <2>1. PICK q \in Root \ {Anchor} : Receive(q)
    BY <1>1
  <2>2. ParentOf[q] \in Root /\ ParentOf[q] # q
    BY TreeAssumption
  <2>3. blocks' = [blocks EXCEPT ![q] = "stored",
                                 ![ParentOf[q]] = IF @ = "none" THEN "download" ELSE @]
    BY <2>1 DEF Receive
  <2>4. blocks'[r] \in {blocks[r], "stored", "download"}
    BY <1>b, <2>2, <2>3
  <2> QED BY <2>4
<1>2. CASE \E q \in Root \ {Anchor} : OnBlock(q)
  <2>1. PICK q \in Root \ {Anchor} : OnBlock(q)
    BY <1>2
  <2>2. CASE OnBlockRejected(q)
    <3>1. blocks' = [blocks EXCEPT ![q] = "invalid"] /\ ~on_block_ok(store, q) /\ UNCHANGED <<store, early>>
      BY <2>2 DEF OnBlockRejected
    <3>2. q # r => blocks'[r] = blocks[r]
      BY <1>b, <3>1
    <3> QED BY <2>1, <3>1, <3>2 DEF OnBlock, Idle, Ticking
  <2>3. CASE OnBlockAccepted(q) \/ OnBlockRefused(q) \/ OnBlockRaises(q)
    <3>1. blocks' = blocks \/ \E st \in {"accepted", "refused"} : blocks' = [blocks EXCEPT ![q] = st]
      BY <2>3 DEF OnBlockAccepted, OnBlockRefused, OnBlockRaises
    <3>2. blocks'[r] \in {blocks[r], "accepted", "refused"}
      BY <1>b, <3>1
    <3> QED BY <3>2
  <2> QED BY <2>1, <2>2, <2>3 DEF OnBlock
<1>3. CASE \/ UNCHANGED vars \/ ClockMoves \/ OnTickSlot \/ OnTickEnd
           \/ \E a \in WireAttestations : OnAttestation(a)
           \/ \E vs \in WireSlashings : OnAttesterSlashing(vs)
           \/ \E time \in TickTimes : OnTick(time)
  BY <1>3 DEF vars, ClockMoves, OnTickSlot, OnTickEnd, OnAttestation, OnAttesterSlashing, OnTick
<1> QED BY <1>1, <1>2, <1>3 DEF Next

\* A block that is not later than the epoch of checkpoint f, or is not on its chain.
Stale(r, f) ==
    \/ SlotOf[r] <= compute_start_slot_at_epoch(f.epoch)
    \/ f.root # get_checkpoint_block(r, f.epoch)

\* Once stale, a block is stale for every later checkpoint that is final.
LEMMA StaleStays ==
    ASSUME AccountableSafety, NEW r \in Root, NEW f, NEW g, Placed(f, UFin, Root), Placed(g, UFin, Root),
           f.epoch <= g.epoch, Stale(r, f)
    PROVE  Stale(r, g)
<1>1. f.epoch \in Nat /\ g.epoch \in Nat /\ f.root \in Root /\ g.root \in Root
  BY PlacedRoot
<1> DEFINE x == compute_start_slot_at_epoch(f.epoch)
           y == compute_start_slot_at_epoch(g.epoch)
<1>2. x \in Nat /\ y \in Nat /\ x <= y
  BY <1>1, StartSlots
<1>3. CASE SlotOf[r] <= x
  <2>1. SlotOf[r] \in Nat
    BY TreeAssumption
  <2> HIDE DEF x, y
  <2>2. SlotOf[r] <= y
    BY <1>2, <1>3, <2>1
  <2> QED BY <2>2 DEF Stale, y
<1>4. CASE f.root # get_checkpoint_block(r, f.epoch)
  <2> SUFFICES ASSUME g.root = get_checkpoint_block(r, g.epoch) PROVE FALSE
    BY DEF Stale
  <2>1. f.root = get_ancestor(g.root, x)
    BY OnFinalized DEF get_checkpoint_block
  <2>2. get_ancestor(get_ancestor(r, y), x) = get_ancestor(r, x)
    <3> HIDE DEF x, y
    <3> QED BY <1>2, AncestorTwice
  <2> QED BY <1>4, <2>1, <2>2 DEF get_checkpoint_block
<1> QED BY <1>3, <1>4 DEF Stale

\* Every step keeps that what is invalid is stale.
LEMMA StepStale ==
    ASSUME AccountableSafety, TypeInv, BlocksOK, PlaceInv, HeldInv, InTimeNotInvalid, [Next]_vars
    PROVE  InTimeNotInvalid'
<1>e. early => early'
  BY StepKinds
<1>p. PlaceInv' /\ (UNCHANGED store.finalized \/ store.finalized.epoch < store'.finalized.epoch)
  BY StepPlace
<1>q. Placed(store.finalized, UFin, Root) /\ Placed(store'.finalized, UFin, Root)
  BY <1>p, PlacedMore DEF PlaceInv, Accepted
<1> SUFFICES ASSUME ~early', NEW r \in Root, blocks'[r] = "invalid" PROVE Stale(r, store'.finalized)
  BY DEF InTimeNotInvalid, OnlyStaleInvalid, Stale
<1>1. CASE blocks[r] = "invalid"
  <2>1. Stale(r, store.finalized)
    BY <1>1, <1>e DEF InTimeNotInvalid, OnlyStaleInvalid, Stale
  <2>2. store.finalized.epoch <= store'.finalized.epoch
    <3>1. store.finalized.epoch \in Nat /\ store'.finalized.epoch \in Nat
      BY <1>q, PlacedRoot
    <3> QED BY <1>p, <3>1
  <2> QED BY <1>q, <2>1, <2>2, StaleStays
<1>2. CASE r # Anchor /\ blocks[r] = "stored" /\ ~Ticking /\ ~on_block_ok(store, r) /\ UNCHANGED <<store, early>>
  <2>1. ~future_slot(store, SlotOf[r])
    <3>1. SlotOf[r] <= get_current_slot(store)
      BY <1>2, <1>e DEF HeldInv, TargetSlot, Held
    <3>2. SlotOf[r] \in Int /\ get_current_slot(store) \in Int
      BY SlotType, TreeAssumption DEF get_current_slot, TypeInv, StoreOK
    <3> QED BY <3>1, <3>2 DEF future_slot
  <2> DEFINE x == compute_start_slot_at_epoch(store.finalized.epoch)
  <2>2. x \in Nat /\ SlotOf[r] \in Nat
    BY <1>q, PlacedRoot, StartSlots, TreeAssumption
  <2>3. CASE SlotOf[r] > x
    <3>1. store.finalized.root # get_ancestor(ParentOf[r], x)
      BY <1>2, <2>1, <2>3 DEF on_block_ok, get_checkpoint_block
    <3>2. get_ancestor(r, x) = get_ancestor(ParentOf[r], x)
      BY <1>2, <2>3, Walk
    <3> QED BY <1>2, <3>1, <3>2 DEF Stale, get_checkpoint_block
  <2>4. CASE ~(SlotOf[r] > x)
    <3> HIDE DEF x
    <3>1. SlotOf[r] <= x
      BY <2>2, <2>4
    <3> QED BY <1>2, <3>1 DEF Stale, x
  <2> QED BY <2>3, <2>4
<1> QED BY <1>1, <1>2, InvalidSteps

\* A block is found invalid, which is for good, only when the finalized
\* checkpoint leaves no place for it, as long as no block comes before its
\* slot: what on_block/2 found stale stays so when later checkpoints are final.
THEOREM NeverInvalidInTime ==
    ASSUME AccountableSafety
    PROVE  Spec => []InTimeNotInvalid
<1> DEFINE Inv == TypeInv /\ BlocksOK /\ BoostInv /\ PlaceInv /\ HeldInv /\ InTimeNotInvalid
<1>1. Init => Inv
  <2> SUFFICES ASSUME Init PROVE Inv
    OBVIOUS
  <2>1. TypeInv /\ BlocksOK /\ BoostInv /\ PlaceInv
    BY InitType, InitBlocks, InitBoost, InitPlace
  <2>2. \A r \in Root : Held(r) => r = Anchor
    BY DEF Init, Held
  <2>3. \A r \in Root : blocks[r] # "invalid"
    BY DEF Init
  <2>4. ~Ticking /\ SlotOf[Anchor] <= get_current_slot(store)
    <3>1. /\ SlotOf[Anchor] \in Nat /\ SecondsPerSlot \in Nat \ {0} /\ GenesisTime \in Nat
          /\ store.time = GenesisTime + SecondsPerSlot * SlotOf[Anchor] /\ tick = NoTick
      BY TreeAssumption, ForkChoiceAssumption DEF Init
    <3>2. /\ SlotOf[Anchor] * SecondsPerSlot \in Nat
          /\ store.time - GenesisTime = SlotOf[Anchor] * SecondsPerSlot
      BY <3>1
    <3>3. get_current_slot(store) = (SlotOf[Anchor] * SecondsPerSlot) \div SecondsPerSlot
      BY <3>2 DEF get_current_slot, compute_current_slot, TruncDiv
    <3>4. get_current_slot(store) = SlotOf[Anchor]
      BY <3>1, <3>3, DivOfProduct
    <3> QED BY <3>1, <3>4 DEF Ticking
  <2> QED BY <2>1, <2>2, <2>3, <2>4 DEF HeldInv, TargetSlot, InTimeNotInvalid, OnlyStaleInvalid
<1>2. Inv /\ [Next]_vars => Inv'
  <2>1. TypeInv /\ BlocksOK /\ BoostInv /\ PlaceInv /\ [Next]_vars => TypeInv' /\ BlocksOK' /\ BoostInv' /\ PlaceInv'
    BY StepAdvances, StepKinds, StepBoost, StepPlace
  <2> QED BY <2>1, StepHeld, StepStale
<1> QED BY <1>1, <1>2, PTL DEF Spec
-----------------------------------------------------------------------------
(* What the tree of the store holds *)

\* The nodes of a tree over the blocks of A that descend from a.
Subtree(a, A) ==
    [n \in {r \in A : Descends(r, a)} |-> {k \in A \ {Anchor} : ParentOf[k] = n}]

\* From a node n of it, get_subtree/3 visits the blocks of A that descend from n.
LEMMA SubtreeReached ==
    ASSUME NEW A \in SUBSET Root, IsFiniteSet(A), WithParents(A), NEW a \in A, NEW n \in A, Descends(n, a)
    PROVE  /\ IsFiniteSet(DOMAIN Subtree(a, A)) /\ Closed(Subtree(a, A))
           /\ Reached(Subtree(a, A), n) = {r \in A : Descends(r, n)}
<1> DEFINE nodes == Subtree(a, A)
           R == Reached(nodes, n)
           T == {r \in A : Descends(r, n)}
<1>1. /\ DOMAIN nodes = {r \in A : Descends(r, a)} /\ DOMAIN nodes \subseteq A /\ n \in DOMAIN nodes
      /\ \A m \in DOMAIN nodes : nodes[m] = {k \in A \ {Anchor} : ParentOf[k] = m}
  BY DEF Subtree
<1> HIDE DEF nodes
<1>2. IsFiniteSet(DOMAIN nodes)
  BY <1>1, FS_Subset
<1>3. \A k \in A \ {Anchor} : \A b \in Root : Descends(ParentOf[k], b) => Descends(k, b)
  BY DescendsFrom
<1>4. Closed(nodes)
  BY <1>1, <1>3 DEF Closed
<1>5. /\ n \in R /\ R \subseteq DOMAIN nodes /\ \A m \in R : nodes[m] \subseteq R
      /\ n \in T /\ (\A m \in T \cap DOMAIN nodes : nodes[m] \subseteq T) => R \subseteq T
  BY <1>1, <1>2, <1>4, ReachedLeast
<1> HIDE DEF R
<1>6. R \subseteq T
  <2>1. n \in T
    BY DescendsFrom
  <2>2. \A m \in T \cap DOMAIN nodes : nodes[m] \subseteq T
    BY <1>1, <1>3
  <2> QED BY <1>5, <2>1, <2>2
<1>7. T \subseteq R
  <2> DEFINE S == {r \in Root : r \in T => r \in R}
  <2>1. Anchor \in S
    <3>1. Descends(Anchor, n) => Anchor = n
      BY DescendsFrom, TreeAssumption
    <3> QED BY <1>5, <3>1, TreeAssumption
  <2>2. ASSUME NEW r \in Root \ {Anchor}, ParentOf[r] \in S PROVE r \in S
    <3> SUFFICES ASSUME r \in T, r # n PROVE r \in R
      BY <1>5
    <3>1. ParentOf[r] \in T
      BY DescendsFrom DEF WithParents
    <3>2. ParentOf[r] \in R /\ r \in nodes[ParentOf[r]]
      BY <1>1, <1>5, <2>2, <3>1
    <3> QED BY <1>5, <3>2
  <2> HIDE DEF S
  <2>3. Root \subseteq S
    BY <2>1, <2>2, ParentInduction
  <2> QED BY <2>3 DEF S
<1> QED BY <1>2, <1>4, <1>6, <1>7 DEF nodes, R

\* update_root/2 cuts the tree at a node of it.
LEMMA CutTree ==
    ASSUME NEW A \in SUBSET Root, IsFiniteSet(A), WithParents(A), NEW tree, NEW a \in A,
           tree = [root |-> a, nodes |-> Subtree(a, A)], NEW n \in A, Descends(n, a)
    PROVE  UpdateRoot(tree, n) = [root |-> n, nodes |-> Subtree(n, A)]
<1>1. CASE n = a
  BY <1>1 DEF UpdateRoot
<1>2. CASE n # a
  <2>1. Reached(tree.nodes, n) = {r \in A : Descends(r, n)} /\ n \in DOMAIN tree.nodes
    BY SubtreeReached DEF Subtree
  <2>2. UpdateRoot(tree, n) = [root |-> n, nodes |-> [m \in {r \in A : Descends(r, n)} |-> tree.nodes[m]]]
    BY <1>2, <2>1 DEF UpdateRoot
  <2>3. \A m \in A : Descends(m, n) => Descends(m, a)
    BY DescendsTwice
  <2>4. [m \in {r \in A : Descends(r, n)} |-> tree.nodes[m]] = Subtree(n, A)
    BY <2>3 DEF Subtree
  <2> QED BY <2>2, <2>4
<1> QED BY <1>1, <1>2

\* add_block/3 adds the block to the blocks that the tree is over.
LEMMA AddToTree ==
    ASSUME NEW A \in SUBSET Root, WithParents(A), NEW tree, NEW a \in A,
           tree = [root |-> a, nodes |-> Subtree(a, A)],
           NEW r \in Root \ {Anchor}, r \notin A, ParentOf[r] \in A, Descends(ParentOf[r], a)
    PROVE  /\ ParentOf[r] \in DOMAIN tree.nodes
           /\ AddBlock(tree, r, ParentOf[r]) = [root |-> a, nodes |-> Subtree(a, A \cup {r})]
<1> DEFINE p == ParentOf[r]
           new == AddNode(tree.nodes, r, p)
<1>1. /\ tree.root = a /\ p \in DOMAIN tree.nodes /\ DOMAIN tree.nodes = {x \in A : Descends(x, a)}
      /\ \A x \in DOMAIN tree.nodes : tree.nodes[x] = {k \in A \ {Anchor} : ParentOf[k] = x}
  BY DEF Subtree
<1>2. AddBlock(tree, r, p) = [root |-> a, nodes |-> new]
  BY <1>1 DEF AddBlock
<1>3. Descends(r, a) /\ p # r
  BY DescendsFrom
<1>4. DOMAIN new = {x \in A \cup {r} : Descends(x, a)}
  BY <1>1, <1>3 DEF AddNode
<1>5. new = [n \in DOMAIN new |-> new[n]]
  BY DEF AddNode
<1>6. ASSUME NEW n \in DOMAIN new PROVE new[n] = {k \in (A \cup {r}) \ {Anchor} : ParentOf[k] = n}
  <2>1. n \in DOMAIN tree.nodes \cup {r}
    BY DEF AddNode
  <2>2. new[n] = IF n = p THEN tree.nodes[p] \cup {r} ELSE IF n = r THEN {} ELSE tree.nodes[n]
    BY <2>1 DEF AddNode
  <2>3. \A k \in A \ {Anchor} : ParentOf[k] # r
    BY DEF WithParents
  <2> QED BY <1>1, <1>3, <2>1, <2>2, <2>3
<1> HIDE DEF new
<1>7. new = Subtree(a, A \cup {r})
  BY <1>4, <1>5, <1>6 DEF Subtree
<1> QED BY <1>1, <1>2, <1>7

\* The tree of the store holds the accepted blocks from a block that is not
\* later than the finalized one, each with its children.
ShapeInv ==
    /\ IsFiniteSet(Accepted)
    /\ store.tree.root \in Accepted
    /\ store.tree = [root |-> store.tree.root, nodes |-> Subtree(store.tree.root, Accepted)]
    /\ Descends(store.finalized.root, store.tree.root)

\* Every step keeps it.
LEMMA StepShape ==
    ASSUME AccountableSafety, TypeInv, BlocksOK, PlaceInv, ShapeInv, [Next]_vars
    PROVE  ShapeInv'
<1>t. Accepted \in SUBSET Root /\ Accepted' \in SUBSET Root /\ Anchor \in Accepted
  BY TreeAssumption DEF Accepted, BlocksOK
<1>p. PlaceInv' /\ (UNCHANGED store.finalized \/ store.finalized.epoch < store'.finalized.epoch)
  BY StepPlace
<1>q. Placed(store.finalized, UFin, Root) /\ Placed(store'.finalized, UFin, Root)
  BY <1>p, PlacedMore DEF PlaceInv, Accepted
<1>f. /\ store.finalized.root \in Accepted /\ store'.finalized.root \in Root
      /\ store.finalized.epoch \in Nat /\ store'.finalized.epoch \in Nat
  <2>1. Placed(store.finalized, UFin, Accepted) /\ WithParents(Accepted)
    BY DEF PlaceInv
  <2>2. store.finalized.root \in Accepted
    BY <1>t, <2>1, PlacedRoot
  <2> QED BY <1>q, <2>2, PlacedRoot
<1>d. Descends(store'.finalized.root, store.finalized.root)
  <2>1. store.finalized.epoch <= store'.finalized.epoch
    BY <1>p, <1>f
  <2> QED BY <1>q, <2>1, OnFinalized
<1>1. ASSUME NEW r \in Root \ {Anchor}, Accepts(r) PROVE ShapeInv'
  <2> DEFINE n == store.finalized.root
             cut == UpdateRoot(store.tree, n)
             p == ParentOf[r]
  <2>1. /\ Accepted' = Accepted \cup {r} /\ r \notin Accepted /\ p \in Accepted
        /\ store.finalized.root = get_checkpoint_block(p, store.finalized.epoch)
    BY <1>1, TreeAssumption DEF Accepts, OnBlockAccepted, on_block_ok, Accepted
  <2>2. Descends(p, n)
    <3>1. p \in Root /\ compute_start_slot_at_epoch(store.finalized.epoch) \in Int
      BY <1>f, <2>1, StartSlots, TreeAssumption
    <3> QED BY <2>1, <3>1, DescendsFrom DEF get_checkpoint_block
  <2>3. cut = [root |-> n, nodes |-> Subtree(n, Accepted)]
    <3>1. \A tree, a : /\ a \in Accepted /\ tree = [root |-> a, nodes |-> Subtree(a, Accepted)] /\ Descends(n, a)
                       => UpdateRoot(tree, n) = [root |-> n, nodes |-> Subtree(n, Accepted)]
      BY <1>t, <1>f, CutTree DEF ShapeInv, PlaceInv
    <3> QED BY <3>1 DEF ShapeInv
  <2> HIDE DEF cut
  <2>4. /\ p \in DOMAIN cut.nodes
        /\ AddBlock(cut, r, p) = [root |-> n, nodes |-> Subtree(n, Accepted \cup {r})]
    BY <1>t, <1>f, <2>1, <2>2, <2>3, AddToTree DEF PlaceInv
  <2>5. store'.tree = [root |-> n, nodes |-> Subtree(n, Accepted')]
    <3>1. SamePlace(compute_post_state(store, r), store') /\ StoreOK(store)
      BY <1>1, OnBlockPlace DEF Accepts, TypeInv
    <3>2. store'.tree = update_tree(store, r).tree
      BY <3>1, PostStateFields DEF SamePlace
    <3>3. update_tree(store, r) = [store EXCEPT !.tree = AddBlock(cut, r, p)]
      BY <2>4 DEF update_tree, cut
    <3>4. update_tree(store, r).tree = AddBlock(cut, r, p)
      BY <3>1, <3>3 DEF StoreOK
    <3> QED BY <2>1, <2>4, <3>2, <3>4
  <2>6. IsFiniteSet(Accepted')
    BY <2>1, FS_AddElement DEF ShapeInv
  <2>7. store'.tree.root = n /\ n \in Accepted'
    BY <1>f, <2>1, <2>5
  <2> QED BY <1>d, <2>5, <2>6, <2>7 DEF ShapeInv
<1>2. ASSUME Accepted' = Accepted, store'.tree = store.tree PROVE ShapeInv'
  <2>1. Descends(store'.finalized.root, store.tree.root)
    BY <1>t, <1>f, <1>d, DescendsTwice DEF ShapeInv
  <2> QED BY <1>2, <2>1 DEF ShapeInv
<1>3. CASE Keeps
  BY <1>2, <1>3 DEF Keeps, SamePlace
<1>4. CASE UNCHANGED <<blocks, early>> /\ \E time \in TickTimes : OnTick(time)
  BY <1>2, <1>4 DEF OnTick, Accepted
<1>5. CASE UNCHANGED <<blocks, early>> /\ (OnTickSlot \/ OnTickEnd)
  <2>1. PICK time \in Int : store' = on_tick_per_slot(store, time)
    BY <1>5 DEF OnTickSlot, OnTickEnd, TypeInv, TickOK
  <2>2. store'.tree = store.tree
    BY <2>1, TickPerSlotFields DEF TypeInv
  <2> QED BY <1>2, <1>5, <2>2 DEF Accepted
<1> QED BY <1>1, <1>3, <1>4, <1>5, StepKinds

\* It holds when the store is made.
LEMMA InitShape == Init => ShapeInv
<1> SUFFICES ASSUME Init PROVE ShapeInv
  OBVIOUS
<1>1. Accepted = {Anchor}
  BY InitBlocks
<1>2. store.tree = NewTree(Anchor) /\ store.finalized.root = Anchor
  BY AnchorEpoch DEF Init
<1>3. Descends(Anchor, Anchor)
  BY DescendsFrom, TreeAssumption
<1>4. NewTree(Anchor) = [root |-> Anchor, nodes |-> Subtree(Anchor, {Anchor})]
  <2>1. Subtree(Anchor, {Anchor}) = [n \in {Anchor} |-> {}]
    BY <1>3 DEF Subtree
  <2> QED BY <2>1 DEF NewTree
<1>5. store.tree.root = Anchor /\ IsFiniteSet({Anchor})
  BY <1>2, <1>4, FS_Singleton
<1>6. store.tree = [root |-> store.tree.root, nodes |-> Subtree(store.tree.root, {Anchor})]
  BY <1>2, <1>4, <1>5
<1> QED BY <1>1, <1>2, <1>3, <1>5, <1>6 DEF ShapeInv

\* The tree is what get_head/1 needs it to be: every accepted block that
\* descends from the finalized one is reached in it, and so are the finalized
\* and the justified blocks, in spite of update_tree/3 cutting it at each
\* block at the checkpoint that was final before the block, and of the
\* handlers moving checkpoints without touching the tree.
THEOREM TreeAlwaysComplete ==
    ASSUME AccountableSafety
    PROVE  Spec => []TreeComplete
<1> DEFINE Inv == TypeInv /\ BlocksOK /\ PlaceInv /\ ShapeInv
<1>1. Init => Inv
  BY InitType, InitBlocks, InitPlace, InitShape
<1>2. Inv /\ [Next]_vars => Inv'
  BY StepAdvances, StepKinds, StepPlace, StepShape
<1>3. Inv => TreeComplete
  <2> SUFFICES ASSUME Inv PROVE TreeComplete
    OBVIOUS
  <2> DEFINE a == store.tree.root
  <2>1. Accepted \in SUBSET Root /\ Anchor \in Accepted /\ a \in Accepted
    BY TreeAssumption DEF Accepted, BlocksOK, ShapeInv
  <2>2. Placed(store.justified, UJust, Accepted) /\ Placed(store.finalized, UFin, Accepted) /\ WithParents(Accepted)
    BY DEF PlaceInv
  <2>3. store.justified.root \in Accepted /\ store.finalized.root \in Accepted
    BY <2>1, <2>2, PlacedRoot
  <2>4. Reached(store.tree.nodes, a) = {r \in Accepted : Descends(r, a)}
    <3>1. Descends(a, a) /\ store.tree.nodes = Subtree(a, Accepted)
      BY <2>1, DescendsFrom DEF ShapeInv
    <3> QED BY <2>1, <2>2, <3>1, SubtreeReached DEF ShapeInv
  <2>5. Descends(store.justified.root, store.finalized.root)
    BY <2>1, <2>2, PlacedMore, OnFinalized DEF PlaceInv
  <2>6. \A r \in Accepted : Descends(r, store.finalized.root) => Descends(r, a)
    BY <2>1, <2>3, DescendsTwice DEF ShapeInv
  <2>7. Descends(store.finalized.root, store.finalized.root)
    BY <2>1, <2>3, DescendsFrom
  <2> QED BY <2>3, <2>4, <2>5, <2>6, <2>7 DEF TreeComplete
<1> QED BY <1>1, <1>2, <1>3, PTL DEF Spec
-----------------------------------------------------------------------------
(* The votes and the head: what the votes of attestations do to the latest *)
(* messages, and that Head.get_head/1 finds the head of LMD-GHOST.          *)

(* Sums of balances *)

\* A sum of effective balances is a natural number.
LEMMA BalanceNat ==
    ASSUME NEW V \in SUBSET Validator
    PROVE  total_balance(V) \in Nat
<1> DEFINE c == [s \in SUBSET V |-> CHOOSE x \in s : TRUE]
           g == [p \in V \X Nat |-> Balance[p[1]] + p[2]]
           sum == CHOOSE f : f = [s \in SUBSET V |-> IF s = {} THEN 0
                     ELSE Balance[CHOOSE x \in s : TRUE] + f[s \ {CHOOSE x \in s : TRUE}]]
<1>1. IsFiniteSet(V) /\ \A v \in V : Balance[v] \in Nat
  BY FS_Subset, ForkChoiceAssumption
<1>2. Chooses(c, V) /\ \A s \in SUBSET V : c[s] = CHOOSE x \in s : TRUE
  BY DEF Chooses
<1>3. g \in [V \X Nat -> Nat] /\ \A v \in V, n \in Nat : g[<<v, n>>] = Balance[v] + n
  BY <1>1
<1> HIDE DEF c, g
<1>4. PICK f : IsFold(f, SUBSET V, Nat, 0, g, c)
  BY <1>1, <1>2, <1>3, FoldExists
<1>5. f = [s \in SUBSET V |-> IF s = {} THEN 0
              ELSE Balance[CHOOSE x \in s : TRUE] + f[s \ {CHOOSE x \in s : TRUE}]]
  <2>1. ASSUME NEW s \in SUBSET V, s # {} PROVE f[s] = Balance[c[s]] + f[s \ {c[s]}]
    <3>1. c[s] \in V /\ s \ {c[s]} \in SUBSET V
      BY <1>2, <2>1 DEF Chooses
    <3>2. f[s \ {c[s]}] \in Nat
      BY <1>4, <3>1 DEF IsFold
    <3> QED BY <1>3, <1>4, <2>1, <3>1, <3>2 DEF IsFold
  <2>2. f[{}] = 0 /\ f = [s \in SUBSET V |-> f[s]]
    BY <1>4 DEF IsFold
  <2> QED BY <1>2, <2>1, <2>2
<1>6. sum = [s \in SUBSET V |-> IF s = {} THEN 0
                ELSE Balance[CHOOSE x \in s : TRUE] + sum[s \ {CHOOSE x \in s : TRUE}]]
  BY <1>5
<1>7. total_balance(V) = sum[V]
  BY DEF total_balance, MapThenSumSet, MapThenFoldSet
<1> HIDE DEF sum
<1> DEFINE T == {s \in SUBSET V : sum[s] \in Nat}
<1>8. {} \in T
  BY <1>6
<1>9. ASSUME NEW s \in SUBSET V, s # {}, s \ {c[s]} \in T PROVE s \in T
  <2>1. c[s] \in V /\ sum[s] = Balance[c[s]] + sum[s \ {c[s]}]
    BY <1>2, <1>6, <1>9 DEF Chooses
  <2>2. Balance[c[s]] \in Nat /\ sum[s \ {c[s]}] \in Nat
    BY <1>1, <1>9, <2>1
  <2> QED BY <2>1, <2>2
<1> HIDE DEF T
<1>10. SUBSET V \subseteq T
  BY <1>1, <1>2, <1>8, <1>9, SubsetInduction
<1> QED BY <1>7, <1>10 DEF T

\* The weight of a block is a natural number.
LEMMA WeightNat ==
    ASSUME NEW s, NEW r \in Root
    PROVE  get_weight(s, r) \in Nat
<1> DEFINE V == {v \in Validator : v \in DOMAIN s.messages \ (s.equivocating \cup Slashed)
                                  /\ get_ancestor(s.messages[v].root, SlotOf[r]) = r}
           w == (total_balance(Validator) \div SlotsPerEpoch) * ProposerScoreBoost
<1>1. total_balance(V) \in Nat /\ total_balance(Validator) \in Nat
  BY BalanceNat
<1>2. \A n \in Nat, m \in Nat \ {0}, b \in Nat : n \div m \in Nat /\ (n \div m) * b \in Nat
  BY DivBounds
<1>3. w \in Nat
  BY <1>1, <1>2, TreeAssumption, ForkChoiceAssumption
<1>4. w \div 100 \in Nat
  <2> HIDE DEF w
  <2> QED BY <1>3
<1>5. get_weight(s, r) = total_balance(V) + IF s.boost # ZeroRoot /\ get_ancestor(s.boost, SlotOf[r]) = r
                                           THEN w \div 100 ELSE 0
  BY DEF get_weight
<1> HIDE DEF V, w
<1> QED BY <1>1, <1>4, <1>5
-----------------------------------------------------------------------------
(* Votes *)

\* The latest messages of some of the validators.
Messages == UNION {[V -> [epoch : Nat, root : Root]] : V \in SUBSET Validator}

\* Messages n come after messages m, as far as those of `equivocating` are not
\* to be replaced.
VotesMove(equivocating, m, n) ==
    /\ DOMAIN m \subseteq DOMAIN n
    /\ \A v \in DOMAIN m : n[v] # m[v] => n[v].epoch > m[v].epoch /\ v \notin equivocating

\* Moving is transitive.
LEMMA MoveTwice ==
    ASSUME NEW e, NEW k \in Messages, NEW m \in Messages, NEW n \in Messages, VotesMove(e, k, m), VotesMove(e, m, n)
    PROVE  VotesMove(e, k, n)
<1>1. \A x \in Messages : \A v \in DOMAIN x : x[v].epoch \in Nat
  BY DEF Messages
<1> SUFFICES ASSUME NEW v \in DOMAIN k, n[v] # k[v]
             PROVE  n[v].epoch > k[v].epoch /\ v \notin e
  BY DEF VotesMove
<1>2. v \in DOMAIN m /\ v \in DOMAIN n
  BY DEF VotesMove
<1>3. k[v].epoch \in Nat /\ m[v].epoch \in Nat /\ n[v].epoch \in Nat
  BY <1>1, <1>2
<1> QED BY <1>2, <1>3 DEF VotesMove

\* update_latest_messages/3
LEMMA UpdateMoves ==
    ASSUME NEW e, NEW m \in Messages, NEW a \in Attestations
    PROVE  update_latest_messages(e, m, a) \in Messages /\ VotesMove(e, m, update_latest_messages(e, m, a))
<1> DEFINE fresh == {v \in a.voters : v \notin e /\ (v \in DOMAIN m => a.target.epoch > m[v].epoch)}
           n == [v \in DOMAIN m \cup fresh |->
                    IF v \in fresh THEN Checkpoint(a.target.epoch, a.root) ELSE m[v]]
<1>1. update_latest_messages(e, m, a) = n
  BY DEF update_latest_messages
<1>2. /\ a.target.epoch \in Nat /\ a.root \in Root /\ fresh \subseteq Validator
      /\ DOMAIN m \subseteq Validator /\ \A v \in DOMAIN m : m[v] \in [epoch : Nat, root : Root]
  BY DEF Attestations, Messages
<1>3. Checkpoint(a.target.epoch, a.root) \in [epoch : Nat, root : Root]
      /\ Checkpoint(a.target.epoch, a.root).epoch = a.target.epoch
  BY <1>2 DEF Checkpoint
<1>4. n \in [DOMAIN m \cup fresh -> [epoch : Nat, root : Root]]
  BY <1>2, <1>3
<1>5. n \in Messages
  BY <1>2, <1>4 DEF Messages
<1>6. VotesMove(e, m, n)
  <2>1. \A v \in DOMAIN m : n[v] # m[v] => v \in fresh /\ n[v].epoch = a.target.epoch
    BY <1>3
  <2> QED BY <2>1 DEF VotesMove
<1> QED BY <1>1, <1>5, <1>6

\* process_attestations/2, over a sequence of any length.
LEMMA ProcessMoves ==
    ASSUME NEW s, StoreOK(s), s.messages \in Messages, NEW atts \in Seq(Attestations)
    PROVE  /\ process_attestations(s, atts).messages \in Messages
           /\ VotesMove(s.equivocating, s.messages, process_attestations(s, atts).messages)
<1> DEFINE D == DOMAIN atts
           e == s.equivocating
           base == s.messages
           Op(m, a) == IF check_attestation_valid(s, a) = "ok" THEN update_latest_messages(e, m, a) ELSE m
           c == [x \in SUBSET D |-> Max(x)]
           g == [p \in D \X Messages |-> Op(p[2], atts[p[1]])]
           fold == CHOOSE f : f = [x \in SUBSET D |-> IF x = {} THEN base ELSE Op(f[x \ {Max(x)}], atts[Max(x)])]
<1>1. IsFiniteSet(D) /\ \A x \in SUBSET D : x # {} => Max(x) \in x
  <2>1. D = 1..Len(atts) /\ Len(atts) \in Nat
    OBVIOUS
  <2>2. IsFiniteSet(D)
    BY <2>1, FS_Interval
  <2>3. ASSUME NEW x \in SUBSET D, x # {} PROVE Max(x) \in x
    <3>1. x \subseteq Nat
      BY <2>1
    <3>2. \E m \in x : \A n \in x : n <= m
      BY <2>2, <2>3, <3>1, GreatestNat
    <3>3. \E m \in x : \A n \in x : m >= n
      BY <3>1, <3>2
    <3> QED BY <3>3 DEF Max
  <2> QED BY <2>2, <2>3
<1>2. Chooses(c, D) /\ \A x \in SUBSET D : c[x] = Max(x)
  BY <1>1 DEF Chooses
<1>3. \A i \in D : atts[i] \in Attestations
  OBVIOUS
<1>4. ASSUME NEW m \in Messages, NEW a \in Attestations PROVE Op(m, a) \in Messages /\ VotesMove(e, m, Op(m, a))
  <2>1. VotesMove(e, m, m)
    BY DEF VotesMove
  <2> QED BY <2>1, UpdateMoves
<1>5. g \in [D \X Messages -> Messages] /\ \A i \in D, m \in Messages : g[<<i, m>>] = Op(m, atts[i])
  <2> HIDE DEF Op
  <2> QED BY <1>3, <1>4
<1>6. process_attestations(s, atts).messages = fold[D]
  <2>1. process_attestations(s, atts) = [s EXCEPT !.messages = fold[D]]
    BY DEF process_attestations, FoldLeft, MapThenFoldSet
  <2> HIDE DEF fold
  <2> QED BY <2>1 DEF StoreOK
<1> HIDE DEF c, g, Op, D
<1>7. PICK f : IsFold(f, SUBSET D, Messages, base, g, c)
  BY <1>1, <1>2, <1>5, FoldExists
<1>8. f = [x \in SUBSET D |-> IF x = {} THEN base ELSE Op(f[x \ {Max(x)}], atts[Max(x)])]
  <2>1. ASSUME NEW x \in SUBSET D, x # {} PROVE f[x] = Op(f[x \ {Max(x)}], atts[Max(x)])
    <3>1. c[x] = Max(x) /\ c[x] \in D /\ x \ {c[x]} \in SUBSET D
      BY <1>2, <2>1 DEF Chooses
    <3>2. f[x \ {c[x]}] \in Messages
      BY <1>7, <3>1 DEF IsFold
    <3>3. f[x] = g[<<c[x], f[x \ {c[x]}]>>]
      BY <1>7, <2>1 DEF IsFold
    <3> QED BY <1>5, <3>1, <3>2, <3>3
  <2>2. f[{}] = base /\ f = [x \in SUBSET D |-> f[x]]
    BY <1>7 DEF IsFold
  <2> QED BY <2>1, <2>2
<1>9. fold = [x \in SUBSET D |-> IF x = {} THEN base ELSE Op(fold[x \ {Max(x)}], atts[Max(x)])]
  BY <1>8
<1> HIDE DEF fold
<1> DEFINE T == {x \in SUBSET D : fold[x] \in Messages /\ VotesMove(e, base, fold[x])}
<1>10. {} \in T
  <2>1. fold[{}] = base /\ VotesMove(e, base, base)
    BY <1>9 DEF VotesMove
  <2> QED BY <2>1
<1>11. ASSUME NEW x \in SUBSET D, x # {}, x \ {c[x]} \in T PROVE x \in T
  <2>1. c[x] = Max(x) /\ c[x] \in D
    BY <1>2, <1>11 DEF Chooses
  <2> DEFINE m == fold[x \ {Max(x)}]
             a == atts[Max(x)]
  <2>2. fold[x] = Op(m, a) /\ m \in Messages /\ VotesMove(e, base, m) /\ a \in Attestations
    BY <1>3, <1>9, <1>11, <2>1
  <2> HIDE DEF m, a
  <2>3. Op(m, a) \in Messages /\ VotesMove(e, m, Op(m, a))
    BY <1>4, <2>2
  <2>4. VotesMove(e, base, Op(m, a))
    BY <2>2, <2>3, MoveTwice
  <2> QED BY <2>2, <2>3, <2>4
<1>12. \A x \in SUBSET D : x # {} /\ x \ {c[x]} \in T => x \in T
  BY <1>11
<1> HIDE DEF T
<1>13. SUBSET D \subseteq T
  BY <1>1, <1>2, <1>10, <1>12, SubsetInduction
<1> QED BY <1>6, <1>13 DEF T

\* A step that changes no messages.
LEMMA SameVotes ==
    ASSUME store'.messages = store.messages, store.messages \in Messages
    PROVE  store'.messages \in Messages /\ VotesMove(store.equivocating, store.messages, store'.messages)
  BY DEF VotesMove

\* Every step keeps the messages, or replaces them by later ones.
LEMMA StepVotes ==
    ASSUME TypeInv, store.messages \in Messages, [Next]_vars
    PROVE  store'.messages \in Messages /\ VotesMove(store.equivocating, store.messages, store'.messages)
<1>t. StoreOK(store)
  BY DEF TypeInv
<1>1. CASE \E r \in Root \ {Anchor} : OnBlockAccepted(r)
  <2>1. PICK r \in Root \ {Anchor} : OnBlockAccepted(r)
    BY <1>1
  <2> DEFINE new == compute_post_state(store, r)
             voted == process_attestations(new, AttestationsOf[r])
             slashed == on_attester_slashing(voted, SlashedBy[r])
  <2>2. StoreOK(new) /\ Advances(store, new) /\ new.messages = store.messages
    BY <1>t, PostState, PostStateFields
  <2>3. store' = recompute_head(slashed) /\ AttestationsOf[r] \in Seq(Attestations)
    BY <2>1, ForkChoiceAssumption DEF OnBlockAccepted
  <2> HIDE DEF new
  <2>4. voted.messages \in Messages /\ VotesMove(new.equivocating, new.messages, voted.messages)
    BY <2>2, <2>3, ProcessMoves
  <2>5. StoreOK(voted)
    BY <2>2, VotesSlashingsHead
  <2> HIDE DEF voted
  <2>6. slashed = [voted EXCEPT !.equivocating = voted.equivocating \cup SlashedBy[r]]
    BY DEF on_attester_slashing
  <2>7. slashed.messages = voted.messages /\ StoreOK(slashed)
    BY <2>5, <2>6 DEF StoreOK
  <2> HIDE DEF slashed
  <2>8. store'.messages = slashed.messages
    BY <2>3, <2>7 DEF recompute_head, StoreOK
  <2>9. store.equivocating \subseteq new.equivocating
    BY <2>2 DEF Advances
  <2> QED BY <2>2, <2>4, <2>7, <2>8, <2>9 DEF VotesMove
<1>2. CASE \E a \in WireAttestations : OnAttestation(a)
  <2>1. PICK a \in WireAttestations : OnAttestation(a)
    BY <1>2
  <2>2. CASE store' = process_attestations(store, <<a>>)
    <3>1. <<a>> \in Seq(Attestations)
      BY ForkChoiceAssumption
    <3> QED BY <1>t, <2>2, <3>1, ProcessMoves
  <2>3. CASE UNCHANGED store
    BY <2>3, SameVotes
  <2> QED BY <2>1, <2>2, <2>3 DEF OnAttestation
<1>3. CASE \E vs \in WireSlashings : OnAttesterSlashing(vs)
  <2>1. PICK vs \in WireSlashings : store' = [store EXCEPT !.equivocating = store.equivocating \cup vs]
    BY <1>3 DEF OnAttesterSlashing, on_attester_slashing
  <2>2. store'.messages = store.messages
    BY <1>t, <2>1 DEF StoreOK
  <2> QED BY <2>2, SameVotes
<1>4. CASE OnTickSlot \/ OnTickEnd
  <2>1. PICK time \in Int : store' = on_tick_per_slot(store, time)
    BY <1>4 DEF OnTickSlot, OnTickEnd, TypeInv, TickOK
  <2>2. store'.messages = store.messages
    BY <1>t, <2>1, TickPerSlotFields
  <2> QED BY <2>2, SameVotes
<1>5. CASE UNCHANGED store
  BY <1>5, SameVotes
<1>6. UNCHANGED vars \/ ClockMoves \/ (\E time \in TickTimes : OnTick(time)) => UNCHANGED store
  BY DEF vars, ClockMoves, OnTick
<1>7. \A r \in Root \ {Anchor} : /\ Receive(r) => UNCHANGED store
                                 /\ OnBlock(r) => OnBlockAccepted(r) \/ UNCHANGED store
  BY DEF Receive, OnBlock, OnBlockRefused, OnBlockRejected, OnBlockRaises
<1>8. CASE \E r \in Root \ {Anchor} : Receive(r) \/ OnBlock(r)
  <2>1. PICK r \in Root \ {Anchor} : Receive(r) \/ OnBlock(r)
    BY <1>8
  <2>2. OnBlockAccepted(r) \/ UNCHANGED store
    BY <1>7, <2>1
  <2>3. CASE OnBlockAccepted(r)
    BY <1>1, <2>3
  <2> QED BY <1>5, <2>2, <2>3
<1> QED BY <1>2, <1>3, <1>4, <1>5, <1>6, <1>8 DEF Next

\* The node starts without votes.
LEMMA InitVotes == Init => store.messages \in Messages
<1> SUFFICES ASSUME Init PROVE store.messages \in Messages
  OBVIOUS
<1>1. store.messages = [v \in {} |-> AnchorCheckpoint]
  BY DEF Init
<1>2. [v \in {} |-> AnchorCheckpoint] \in [{} -> [epoch : Nat, root : Root]]
  OBVIOUS
<1> QED BY <1>1, <1>2 DEF Messages

\* However many attestations a block holds, and in whatever order they come, a
\* validator's vote is replaced only by one of a later epoch, and never once it
\* has equivocated (update_latest_messages/3).
THEOREM VotesNeverBack == Spec => VotesAdvance
<1> DEFINE Inv == TypeInv /\ store.messages \in Messages
<1>1. Init => Inv
  BY InitType, InitVotes
<1>2. Inv /\ [Next]_vars => Inv'
  BY StepAdvances, StepVotes
<1>3. Inv /\ [Next]_vars =>
        [\A v \in DOMAIN store.messages :
             store'.messages[v] # store.messages[v] =>
                 /\ store'.messages[v].epoch > store.messages[v].epoch
                 /\ v \notin store.equivocating]_vars
  BY StepVotes DEF VotesMove
<1> QED BY <1>1, <1>2, <1>3, PTL DEF Spec, VotesAdvance
-----------------------------------------------------------------------------
(* Chains of children *)

\* What is true of a block whenever it is true of its children in A is true of
\* all blocks of A.
LEMMA ChildInduction ==
    ASSUME NEW A \in SUBSET Root, IsFiniteSet(A), NEW S,
           \A r \in A : (\A k \in A \ {Anchor} : ParentOf[k] = r => k \in S) => r \in S
    PROVE  A \subseteq S
<1> SUFFICES ASSUME A \ S # {} PROVE FALSE
  OBVIOUS
<1> DEFINE T == {SlotOf[r] : r \in A \ S}
<1>1. IsFiniteSet(A \ S)
  BY FS_Subset
<1>2. IsFiniteSet(T)
  BY <1>1, ImageFinite
<1>3. T \subseteq Nat /\ T # {}
  BY TreeAssumption
<1>4. PICK m \in T : \A n \in T : n <= m
  <2>1. T \in SUBSET T
    OBVIOUS
  <2> HIDE DEF T
  <2> QED BY <1>2, <1>3, <2>1, GreatestNat
<1>5. PICK r \in A \ S : \A q \in A \ S : SlotOf[q] <= SlotOf[r]
  BY <1>4
<1>6. ASSUME NEW k \in A \ {Anchor}, ParentOf[k] = r PROVE k \in S
  <2>1. SlotOf[r] < SlotOf[k] /\ SlotOf[r] \in Nat /\ SlotOf[k] \in Nat
    BY <1>6, TreeAssumption
  <2> QED BY <1>5, <2>1
<1> QED BY <1>5, <1>6

\* From a block to a descendant of it, the chain goes through a child.
LEMMA Towards ==
    ASSUME NEW r \in Root
    PROVE  \A x \in Root : Descends(x, r) /\ x # r =>
               \E k \in Root \ {Anchor} : ParentOf[k] = r /\ Descends(x, k)
<1> DEFINE S == {x \in Root : Descends(x, r) /\ x # r =>
                    \E k \in Root \ {Anchor} : ParentOf[k] = r /\ Descends(x, k)}
<1>1. Anchor \in S
  BY DescendsFrom, TreeAssumption
<1>2. ASSUME NEW x \in Root \ {Anchor}, ParentOf[x] \in S PROVE x \in S
  <2> SUFFICES ASSUME Descends(x, r), x # r
               PROVE  \E k \in Root \ {Anchor} : ParentOf[k] = r /\ Descends(x, k)
    OBVIOUS
  <2>1. ParentOf[x] \in Root /\ Descends(ParentOf[x], r) /\ Descends(x, x)
    BY DescendsFrom, TreeAssumption
  <2>2. CASE ParentOf[x] = r
    BY <2>1, <2>2
  <2>3. CASE ParentOf[x] # r
    <3>1. PICK k \in Root \ {Anchor} : ParentOf[k] = r /\ Descends(ParentOf[x], k)
      BY <1>2, <2>1, <2>3
    <3>2. Descends(x, k)
      BY <3>1, DescendsFrom
    <3> QED BY <3>1, <3>2
  <2> QED BY <2>2, <2>3
<1> HIDE DEF S
<1>3. Root \subseteq S
  BY <1>1, <1>2, ParentInduction
<1> QED BY <1>3 DEF S

\* No two blocks descend from each other.
LEMMA NotBoth ==
    ASSUME NEW r \in Root, NEW q \in Root, Descends(r, q), Descends(q, r)
    PROVE  r = q
<1>1. SlotOf[r] \in Nat /\ SlotOf[q] \in Nat
  BY TreeAssumption
<1>2. r # q => SlotOf[q] < SlotOf[r] /\ SlotOf[r] < SlotOf[q]
  BY DescendsFrom
<1> QED BY <1>1, <1>2

\* C gives the children of a block that count, all of them in A, and N the one
\* of them that is taken.
Branches(A, C, N) ==
    /\ C \in [Root -> SUBSET (A \ {Anchor})]
    /\ \A r \in Root : \A k \in C[r] : ParentOf[k] = r
    /\ \A r \in Root : C[r] # {} => N[r] \in C[r]

\* Block h is where one gets from r by taking a child for as long as there is one.
IsEnd(C, N, h, r) ==
    /\ Descends(h, r)
    /\ C[h] = {}
    /\ \A b \in Root : Descends(h, b) /\ Descends(b, r) /\ b # r =>
          b \in C[ParentOf[b]] /\ b = N[ParentOf[b]]

\* It is the end from r if r has no child, or the end from the child.
LEMMA EndStep ==
    ASSUME NEW A \in SUBSET Root, NEW C, NEW N, Branches(A, C, N), NEW r \in Root, NEW h \in Root
    PROVE  IsEnd(C, N, h, r) <=> IF C[r] = {} THEN h = r ELSE IsEnd(C, N, h, N[r])
<1>c. \A b \in Root : \A k \in C[b] : k \in Root \ {Anchor} /\ k \in A /\ ParentOf[k] = b
  BY DEF Branches
<1>1. CASE C[r] = {}
  <2>1. ASSUME IsEnd(C, N, h, r), h # r PROVE FALSE
    <3>1. PICK k \in Root \ {Anchor} : ParentOf[k] = r /\ Descends(h, k)
      BY <2>1, Towards DEF IsEnd
    <3>2. Descends(r, r) /\ k # r
      BY <3>1, DescendsFrom, TreeAssumption
    <3>3. Descends(k, r)
      BY <3>1, <3>2, DescendsFrom
    <3> QED BY <1>1, <2>1, <3>1, <3>2, <3>3 DEF IsEnd
  <2>2. IsEnd(C, N, r, r)
    <3>1. Descends(r, r) /\ \A b \in Root : Descends(r, b) /\ Descends(b, r) => b = r
      BY DescendsFrom, NotBoth
    <3> QED BY <1>1, <3>1 DEF IsEnd
  <2> QED BY <1>1, <2>1, <2>2
<1>2. CASE C[r] # {}
  <2> DEFINE k == N[r]
  <2>1. k \in Root \ {Anchor} /\ k \in C[r] /\ ParentOf[k] = r
    BY <1>2, <1>c DEF Branches
  <2> HIDE DEF k
  <2>2. Descends(k, r) /\ k # r
    BY <2>1, DescendsFrom, TreeAssumption
  <2>3. ASSUME IsEnd(C, N, h, r) PROVE IsEnd(C, N, h, k)
    <3>1. h # r
      BY <1>2, <2>3 DEF IsEnd
    <3>2. PICK q \in Root \ {Anchor} : ParentOf[q] = r /\ Descends(h, q)
      BY <2>3, <3>1, Towards DEF IsEnd
    <3>3. Descends(q, r) /\ q # r
      BY <3>2, DescendsFrom, TreeAssumption
    <3>4. q = k
      BY <2>3, <3>2, <3>3 DEF IsEnd, k
    <3>5. ASSUME NEW b \in Root, Descends(b, k), b # k PROVE Descends(b, r) /\ b # r
      BY <2>1, <2>2, <3>5, DescendsTwice, NotBoth
    <3> QED BY <2>3, <3>2, <3>4, <3>5 DEF IsEnd
  <2>4. ASSUME IsEnd(C, N, h, k) PROVE IsEnd(C, N, h, r)
    <3>1. Descends(h, r)
      BY <2>1, <2>2, <2>4, DescendsTwice DEF IsEnd
    <3>2. ASSUME NEW b \in Root, Descends(h, b), Descends(b, r), b # r
          PROVE  b \in C[ParentOf[b]] /\ b = N[ParentOf[b]]
      <4>1. SlotOf[b] \in Nat /\ SlotOf[k] \in Nat
        BY <2>1, TreeAssumption
      <4>2. CASE SlotOf[k] <= SlotOf[b]
        <5>1. Descends(b, k)
          BY <2>1, <2>4, <3>2, <4>2, OneChain DEF IsEnd
        <5> QED BY <2>1, <2>4, <3>2, <5>1 DEF IsEnd, k
      <4>3. CASE SlotOf[b] < SlotOf[k]
        <5>1. Descends(k, b) /\ k # b
          BY <2>1, <2>4, <3>2, <4>1, <4>3, OneChain DEF IsEnd
        <5>2. Descends(r, b)
          BY <2>1, <5>1, DescendsFrom
        <5> QED BY <3>2, <5>2, NotBoth
      <4> QED BY <4>1, <4>2, <4>3
    <3> QED BY <2>4, <3>1, <3>2 DEF IsEnd
  <2> QED BY <1>2, <2>3, <2>4 DEF k
<1> QED BY <1>1, <1>2

\* From every block there is one end, in A if the block is.
LEMMA OneEnd ==
    ASSUME NEW A \in SUBSET Root, IsFiniteSet(A), WithParents(A), NEW C, NEW N, Branches(A, C, N)
    PROVE  \A r \in Root : /\ \E h \in Root : IsEnd(C, N, h, r) /\ (r \in A => h \in A)
                           /\ \A h, g \in Root : IsEnd(C, N, h, r) /\ IsEnd(C, N, g, r) => h = g
<1> DEFINE P(r) == /\ \E h \in Root : IsEnd(C, N, h, r) /\ (r \in A => h \in A)
                   /\ \A h, g \in Root : IsEnd(C, N, h, r) /\ IsEnd(C, N, g, r) => h = g
           S == {r \in Root : P(r)}
<1>1. ASSUME NEW r \in Root, C[r] = {} PROVE r \in S
  <2>1. \A h \in Root : IsEnd(C, N, h, r) <=> h = r
    BY <1>1, EndStep
  <2> QED BY <2>1
<1>2. ASSUME NEW r \in Root, C[r] # {}, N[r] \in S PROVE r \in S
  <2>1. \A h \in Root : IsEnd(C, N, h, r) <=> IsEnd(C, N, h, N[r])
    BY <1>2, EndStep
  <2>2. N[r] \in A
    BY <1>2 DEF Branches
  <2> QED BY <1>2, <2>1, <2>2
<1>3. \A r \in Root : C[r] # {} => N[r] \in A \ {Anchor} /\ ParentOf[N[r]] = r /\ r \in A
  BY DEF Branches, WithParents
<1> HIDE DEF S
<1>4. \A r \in A : (\A k \in A \ {Anchor} : ParentOf[k] = r => k \in S) => r \in S
  BY <1>1, <1>2, <1>3
<1>5. A \subseteq S
  BY <1>4, ChildInduction
<1>6. Root \subseteq S
  BY <1>1, <1>3, <1>5
<1> QED BY <1>6 DEF S

\* A walk over such children, as compute_head/4 does,
IsWalk(f, C, N) == f = [r \in Root |-> IF C[r] = {} THEN r ELSE f[N[r]]]

\* gets to the end.
LEMMA WalkEnds ==
    ASSUME NEW A \in SUBSET Root, IsFiniteSet(A), WithParents(A), NEW C, NEW N, Branches(A, C, N)
    PROVE  /\ \E f : IsWalk(f, C, N)
           /\ \A f : IsWalk(f, C, N) => \A r \in A : f[r] \in A /\ IsEnd(C, N, f[r], r)
<1> DEFINE F == [r \in Root |-> CHOOSE h \in Root : IsEnd(C, N, h, r)]
<1>n. \A r \in Root : C[r] # {} => N[r] \in A \ {Anchor} /\ N[r] \in Root /\ ParentOf[N[r]] = r
  BY DEF Branches
<1>1. \A r \in Root : F[r] \in Root /\ IsEnd(C, N, F[r], r)
  BY OneEnd
<1>2. \A r \in Root : F[r] = IF C[r] = {} THEN r ELSE F[N[r]]
  <2> SUFFICES ASSUME NEW r \in Root PROVE F[r] = IF C[r] = {} THEN r ELSE F[N[r]]
    OBVIOUS
  <2> HIDE DEF F
  <2>1. F[r] \in Root /\ IsEnd(C, N, F[r], r)
    BY <1>1
  <2>2. CASE C[r] = {}
    BY <2>1, <2>2, EndStep
  <2>3. CASE C[r] # {}
    <3>1. N[r] \in Root /\ IsEnd(C, N, F[r], N[r])
      BY <1>n, <2>1, <2>3, EndStep
    <3>2. F[N[r]] \in Root /\ IsEnd(C, N, F[N[r]], N[r])
      BY <1>1, <3>1
    <3> QED BY <2>1, <2>3, <3>1, <3>2, OneEnd
  <2> QED BY <2>2, <2>3
<1>3. F = [r \in Root |-> IF C[r] = {} THEN r ELSE F[N[r]]]
  <2>1. F = [r \in Root |-> F[r]]
    OBVIOUS
  <2> HIDE DEF F
  <2> QED BY <1>2, <2>1
<1> HIDE DEF F
<1>w. IsWalk(F, C, N)
  BY <1>3 DEF IsWalk
<1> SUFFICES ASSUME NEW f, IsWalk(f, C, N) PROVE \A r \in A : f[r] \in A /\ IsEnd(C, N, f[r], r)
  BY <1>w
<1>4. f = [r \in Root |-> IF C[r] = {} THEN r ELSE f[N[r]]]
  BY DEF IsWalk
<1> DEFINE S == {r \in A : f[r] \in A /\ IsEnd(C, N, f[r], r)}
<1>5. ASSUME NEW r \in A, \A k \in A \ {Anchor} : ParentOf[k] = r => k \in S PROVE r \in S
  <2>1. CASE C[r] = {}
    <3>1. f[r] = r
      BY <1>4, <2>1
    <3> QED BY <2>1, <3>1, EndStep
  <2>2. CASE C[r] # {}
    <3>1. f[r] = f[N[r]] /\ N[r] \in S
      BY <1>4, <1>5, <1>n, <2>2
    <3> QED BY <2>2, <3>1, EndStep
  <2> QED BY <2>1, <2>2
<1> HIDE DEF S
<1>6. A \subseteq S
  BY <1>5, ChildInduction
<1> QED BY <1>6 DEF S
-----------------------------------------------------------------------------
(* The head *)

\* Viable, Children and IsHead of the specification, for any store, with the
\* weights that the code computes.
ViableIn(s, r) ==
    \E leaf \in DOMAIN s.tree.nodes :
        s.tree.nodes[leaf] = {} /\ Descends(leaf, r) /\ filter_leaf_block(s, leaf)
Kids(s, r) == {k \in DOMAIN s.tree.nodes \ {Anchor} : ParentOf[k] = r /\ ViableIn(s, k)}
GhostHead(s, h) ==
    /\ Descends(h, s.justified.root)
    /\ Kids(s, h) = {}
    /\ \A b \in Root : Descends(h, b) /\ Descends(b, s.justified.root) /\ b # s.justified.root =>
          /\ ViableIn(s, b)
          /\ \A k \in Kids(s, ParentOf[b]) \ {b} :
                \/ get_weight(s, b) > get_weight(s, k)
                \/ get_weight(s, b) = get_weight(s, k) /\ RootRank[b] > RootRank[k]

\* The tree of store s is over the accepted blocks A, and has the justified block.
Grown(s, A) ==
    /\ A \subseteq Root /\ IsFiniteSet(A) /\ Anchor \in A /\ WithParents(A)
    /\ s.tree.root \in A /\ s.tree.nodes = Subtree(s.tree.root, A)
    /\ s.justified.root \in A /\ Descends(s.justified.root, s.tree.root)

\* filter_block_tree/4 on a node, by its children.
LEMMA ViableStep ==
    ASSUME NEW s, NEW A, Grown(s, A), NEW r \in DOMAIN s.tree.nodes
    PROVE  ViableIn(s, r) <=> \/ s.tree.nodes[r] = {} /\ filter_leaf_block(s, r)
                              \/ \E k \in s.tree.nodes[r] : ViableIn(s, k)
<1> DEFINE nodes == s.tree.nodes
           a == s.tree.root
<1>1. /\ DOMAIN nodes = {x \in A : Descends(x, a)} /\ A \subseteq Root /\ a \in Root
      /\ \A x \in DOMAIN nodes : nodes[x] = {k \in A \ {Anchor} : ParentOf[k] = x}
      /\ WithParents(A)
  BY DEF Grown, Subtree
<1>2. ASSUME NEW leaf \in DOMAIN nodes, Descends(leaf, r), leaf # r
      PROVE  \E k \in nodes[r] : Descends(leaf, k)
  <2>1. PICK k \in Root \ {Anchor} : ParentOf[k] = r /\ Descends(leaf, k)
    BY <1>1, <1>2, Towards
  <2>2. k \in A
    BY <1>1, <2>1, ClosedAncestors
  <2> QED BY <1>1, <2>1, <2>2
<1>3. \A k \in nodes[r], leaf \in DOMAIN nodes : Descends(leaf, k) => Descends(leaf, r)
  <2> SUFFICES ASSUME NEW k \in nodes[r], NEW leaf \in DOMAIN nodes, Descends(leaf, k) PROVE Descends(leaf, r)
    OBVIOUS
  <2>1. k \in Root \ {Anchor} /\ ParentOf[k] = r /\ r \in Root /\ leaf \in Root
    BY <1>1
  <2>2. Descends(k, r)
    BY <2>1, DescendsFrom
  <2> QED BY <2>1, <2>2, DescendsTwice
<1>4. Descends(r, r)
  BY <1>1, DescendsFrom
<1> HIDE DEF nodes
<1>5. ASSUME ViableIn(s, r)
      PROVE  \/ nodes[r] = {} /\ filter_leaf_block(s, r)
             \/ \E k \in nodes[r] : ViableIn(s, k)
  <2>1. PICK leaf \in DOMAIN nodes : nodes[leaf] = {} /\ Descends(leaf, r) /\ filter_leaf_block(s, leaf)
    BY <1>5 DEF ViableIn, nodes
  <2>2. CASE leaf = r
    BY <2>1, <2>2
  <2>3. CASE leaf # r
    BY <1>2, <2>1, <2>3 DEF ViableIn, nodes
  <2> QED BY <2>2, <2>3
<1>6. ASSUME nodes[r] = {}, filter_leaf_block(s, r) PROVE ViableIn(s, r)
  BY <1>4, <1>6 DEF ViableIn, nodes
<1>7. ASSUME NEW k \in nodes[r], ViableIn(s, k) PROVE ViableIn(s, r)
  BY <1>3, <1>7 DEF ViableIn, nodes
<1> QED BY <1>5, <1>6, <1>7 DEF nodes

\* get_filtered_block_tree/1 finds the blocks from the justified one that are viable.
LEMMA FilteredIs ==
    ASSUME NEW s, NEW A, Grown(s, A)
    PROVE  get_filtered_block_tree(s) = {r \in A : Descends(r, s.justified.root) /\ ViableIn(s, r)}
<1> DEFINE nodes == s.tree.nodes
           D == DOMAIN nodes
           a == s.tree.root
           base == s.justified.root
           V == [r \in D |-> ViableIn(s, r)]
           viable == CHOOSE f : f = [r \in D |-> IF nodes[r] = {} THEN filter_leaf_block(s, r)
                                                 ELSE \E k \in nodes[r] : f[k]]
<1>1. /\ D = {x \in A : Descends(x, a)} /\ A \in SUBSET Root /\ a \in A /\ base \in A /\ Descends(base, a)
      /\ \A x \in D : nodes[x] = {k \in A \ {Anchor} : ParentOf[k] = x}
      /\ WithParents(A) /\ IsFiniteSet(A) /\ nodes = Subtree(a, A)
  BY DEF Grown, Subtree
<1>2. /\ IsFiniteSet(D) /\ \A x \in D : nodes[x] \subseteq D
      /\ Reached(nodes, base) = {r \in A : Descends(r, base)}
  BY <1>1, SubtreeReached DEF Closed
<1>3. Reached(nodes, base) \subseteq D
  BY <1>1, <1>2, DescendsTwice
<1>4. \A r \in D : ViableIn(s, r) <=> IF nodes[r] = {} THEN filter_leaf_block(s, r)
                                      ELSE \E k \in nodes[r] : ViableIn(s, k)
  BY ViableStep
<1>5. get_filtered_block_tree(s) = {r \in Reached(nodes, base) : viable[r]}
  BY DEF get_filtered_block_tree
<1>f. \A r \in D : filter_leaf_block(s, r) \in BOOLEAN /\ ViableIn(s, r) \in BOOLEAN
  BY DEF filter_leaf_block, ViableIn
<1> HIDE DEF nodes, D
<1>6. V = [r \in D |-> IF nodes[r] = {} THEN filter_leaf_block(s, r) ELSE \E k \in nodes[r] : V[k]]
  <2>1. \A r \in D : V[r] = ViableIn(s, r)
    OBVIOUS
  <2>2. ASSUME NEW r \in D
        PROVE  V[r] = IF nodes[r] = {} THEN filter_leaf_block(s, r) ELSE \E k \in nodes[r] : V[k]
    <3>1. V[r] = IF nodes[r] = {} THEN filter_leaf_block(s, r) ELSE \E k \in nodes[r] : ViableIn(s, k)
      BY <1>4, <1>f, <2>1
    <3>2. \A k \in nodes[r] : V[k] = ViableIn(s, k)
      BY <1>2, <2>1
    <3> QED BY <3>1, <3>2
  <2>3. V = [r \in D |-> V[r]]
    OBVIOUS
  <2> HIDE DEF V
  <2> QED BY <2>2, <2>3
<1> HIDE DEF V
<1>7. viable = [r \in D |-> IF nodes[r] = {} THEN filter_leaf_block(s, r) ELSE \E k \in nodes[r] : viable[k]]
  BY <1>6
<1> HIDE DEF viable
<1> DEFINE S == {r \in D : viable[r] <=> ViableIn(s, r)}
<1>8. ASSUME NEW r \in D, \A k \in D \ {Anchor} : ParentOf[k] = r => k \in S PROVE r \in S
  <2>1. \A k \in nodes[r] : viable[k] <=> ViableIn(s, k)
    BY <1>1, <1>2, <1>8
  <2>2. viable[r] = IF nodes[r] = {} THEN filter_leaf_block(s, r) ELSE \E k \in nodes[r] : viable[k]
    BY <1>7
  <2>3. (\E k \in nodes[r] : viable[k]) <=> \E k \in nodes[r] : ViableIn(s, k)
    BY <2>1
  <2>4. viable[r] <=> ViableIn(s, r)
    BY <1>4, <1>f, <2>2, <2>3
  <2> QED BY <2>4
<1> HIDE DEF S
<1>9. D \subseteq S
  <2>1. D \in SUBSET Root
    BY <1>1
  <2> QED BY <1>2, <1>8, <2>1, ChildInduction
<1>10. \A r \in Reached(nodes, base) : viable[r] <=> ViableIn(s, r)
  BY <1>3, <1>9 DEF S
<1> QED BY <1>2, <1>5, <1>10 DEF nodes

\* Of finitely many children compute_head/4 prefers one to all the others.
LEMMA BestChild ==
    ASSUME NEW s, NEW K \in SUBSET Root, IsFiniteSet(K), K # {}
    PROVE  /\ \E k \in K : \A o \in K : Heavier(s, k, o)
           /\ \A k, l \in K : (\A o \in K : Heavier(s, k, o)) /\ (\A o \in K : Heavier(s, l, o)) => k = l
<1> DEFINE w == [k \in K |-> get_weight(s, k)]
<1>w. \A k \in K : w[k] = get_weight(s, k) /\ w[k] \in Nat
  BY WeightNat
<1>r. RootRank \in [Root -> Nat] /\ \A r, q \in Root : RootRank[r] = RootRank[q] => r = q
  BY ForkChoiceAssumption
<1> HIDE DEF w
<1>1. PICK k \in K : \A o \in K : w[o] <= w[k]
  <2> DEFINE W == {w[k] : k \in K}
  <2>1. IsFiniteSet(W) /\ W # {} /\ W \subseteq Nat /\ W \in SUBSET W
    BY <1>w, ImageFinite
  <2> HIDE DEF W
  <2>2. PICK m \in W : \A n \in W : n <= m
    BY <2>1, GreatestNat
  <2> QED BY <2>2 DEF W
<1> DEFINE B == {o \in K : w[o] = w[k]}
<1>2. PICK b \in B : \A o \in B : RootRank[o] <= RootRank[b]
  <2> DEFINE R == {RootRank[o] : o \in B}
  <2>1. IsFiniteSet(B) /\ k \in B
    BY FS_Subset
  <2> HIDE DEF B
  <2>2. B \subseteq Root
    BY DEF B
  <2>3. IsFiniteSet(R) /\ R # {} /\ R \subseteq Nat /\ R \in SUBSET R
    BY <1>r, <2>1, <2>2, ImageFinite
  <2> HIDE DEF R
  <2>4. PICK m \in R : \A n \in R : n <= m
    BY <2>3, GreatestNat
  <2> QED BY <2>4 DEF R
<1>3. \A o \in K : Heavier(s, b, o)
  <2> SUFFICES ASSUME NEW o \in K PROVE Heavier(s, b, o)
    OBVIOUS
  <2>1. b \in K /\ w[b] = w[k] /\ w[o] <= w[k] /\ w[o] \in Nat /\ w[k] \in Nat
    BY <1>1, <1>2, <1>w
  <2>2. RootRank[o] \in Nat /\ RootRank[b] \in Nat
    BY <1>r, <2>1
  <2>3. CASE w[o] = w[k]
    BY <1>2, <1>w, <2>1, <2>2, <2>3 DEF Heavier
  <2>4. CASE w[o] # w[k]
    BY <1>w, <2>1, <2>4 DEF Heavier
  <2> QED BY <2>3, <2>4
<1>4. ASSUME NEW p \in K, NEW q \in K, Heavier(s, p, q), Heavier(s, q, p) PROVE p = q
  <2>1. w[p] \in Nat /\ w[q] \in Nat /\ RootRank[p] \in Nat /\ RootRank[q] \in Nat
    BY <1>r, <1>w
  <2>2. RootRank[p] = RootRank[q]
    BY <1>4, <1>w, <2>1 DEF Heavier
  <2> QED BY <1>r, <2>2
<1>5. b \in K
  BY <1>2
<1> QED BY <1>3, <1>4, <1>5

\* Head.get_head/1 finds the head of LMD-GHOST, and there is no other.
LEMMA HeadFound ==
    ASSUME NEW s, NEW A, Grown(s, A)
    PROVE  /\ get_head(s) \in A /\ Descends(get_head(s), s.justified.root)
           /\ \A h \in A : GhostHead(s, h) <=> h = get_head(s)
<1> DEFINE base == s.justified.root
           filtered == get_filtered_block_tree(s)
           C == [r \in Root |-> {q \in filtered \ {Anchor} : ParentOf[q] = r}]
           N == [r \in Root |-> CHOOSE k \in C[r] : \A o \in C[r] : Heavier(s, k, o)]
           f == CHOOSE head : head = [r \in Root |->
                    IF {q \in filtered \ {Anchor} : ParentOf[q] = r} = {} THEN r
                    ELSE head[CHOOSE k \in {q \in filtered \ {Anchor} : ParentOf[q] = r} :
                                \A o \in {q \in filtered \ {Anchor} : ParentOf[q] = r} : Heavier(s, k, o)]]
<1>1. /\ A \in SUBSET Root /\ IsFiniteSet(A) /\ WithParents(A) /\ base \in A /\ s.tree.root \in A
      /\ DOMAIN s.tree.nodes = {r \in A : Descends(r, s.tree.root)} /\ Descends(base, s.tree.root)
  BY DEF Grown, Subtree
<1>2. filtered = {r \in A : Descends(r, base) /\ ViableIn(s, r)}
  BY FilteredIs
<1>3. get_head(s) = f[base]
  BY DEF get_head
<1>w. \A g : IsWalk(g, C, N) <=> g = [r \in Root |->
           IF {q \in filtered \ {Anchor} : ParentOf[q] = r} = {} THEN r
           ELSE g[CHOOSE k \in {q \in filtered \ {Anchor} : ParentOf[q] = r} :
                       \A o \in {q \in filtered \ {Anchor} : ParentOf[q] = r} : Heavier(s, k, o)]]
  <2>1. \A r \in Root : C[r] = {q \in filtered \ {Anchor} : ParentOf[q] = r}
    OBVIOUS
  <2>2. \A r \in Root : N[r] = CHOOSE k \in {q \in filtered \ {Anchor} : ParentOf[q] = r} :
                                 \A o \in {q \in filtered \ {Anchor} : ParentOf[q] = r} : Heavier(s, k, o)
    BY <2>1
  <2> HIDE DEF C, N
  <2> QED BY <2>1, <2>2, ZenonT(40) DEF IsWalk
<1> HIDE DEF filtered
<1>4. \A r \in Root : C[r] = {k \in filtered \ {Anchor} : ParentOf[k] = r} /\ C[r] \in SUBSET (A \ {Anchor})
  BY <1>2
<1>5. ASSUME NEW r \in Root, C[r] # {}
      PROVE  /\ N[r] \in C[r]
             /\ \A k \in C[r] : k = N[r] <=> \A o \in C[r] : Heavier(s, k, o)
  <2>1. C[r] \in SUBSET Root /\ IsFiniteSet(C[r])
    BY <1>1, <1>4, FS_Subset
  <2>2. N[r] = CHOOSE k \in C[r] : \A o \in C[r] : Heavier(s, k, o)
    OBVIOUS
  <2> HIDE DEF C, N
  <2> DEFINE K == C[r]
  <2>3. /\ \E k \in K : \A o \in K : Heavier(s, k, o)
        /\ \A k, l \in K : (\A o \in K : Heavier(s, k, o)) /\ (\A o \in K : Heavier(s, l, o)) => k = l
    <3> HIDE DEF K
    <3>1. K \in SUBSET Root /\ IsFiniteSet(K) /\ K # {}
      BY <1>5, <2>1 DEF K
    <3> QED BY <3>1, BestChild
  <2>4. N[r] \in K /\ \A o \in K : Heavier(s, N[r], o)
    BY <2>2, <2>3
  <2> QED BY <2>3, <2>4
<1>6. C \in [Root -> SUBSET (A \ {Anchor})]
  BY <1>4
<1> HIDE DEF C, N
<1>7. Branches(A, C, N)
  BY <1>4, <1>5, <1>6 DEF Branches
<1>8. f[base] \in A /\ IsEnd(C, N, f[base], base)
  <2>1. PICK g : IsWalk(g, C, N)
    BY <1>1, <1>7, WalkEnds
  <2>2. IsWalk(f, C, N)
    BY <1>w, <2>1
  <2> HIDE DEF f
  <2> QED BY <1>1, <1>7, <2>2, WalkEnds
<1> HIDE DEF f
<1>9. \A h \in A : IsEnd(C, N, h, base) <=> h = f[base]
  BY <1>1, <1>7, <1>8, OneEnd
<1>10. ASSUME NEW r \in A, Descends(r, base) PROVE Kids(s, r) = C[r]
  <2>1. ASSUME NEW k \in A \ {Anchor}, ParentOf[k] = r PROVE Descends(k, base) /\ Descends(k, s.tree.root)
    <3>1. k \in Root \ {Anchor} /\ base \in Root /\ s.tree.root \in Root
      BY <1>1
    <3>2. Descends(k, base)
      BY <1>10, <2>1, <3>1, DescendsFrom
    <3> QED BY <1>1, <3>1, <3>2, DescendsTwice
  <2>2. C[r] = {k \in A \ {Anchor} : ParentOf[k] = r /\ ViableIn(s, k)}
    BY <1>1, <1>2, <1>4, <2>1
  <2>3. Kids(s, r) = {k \in A \ {Anchor} : ParentOf[k] = r /\ ViableIn(s, k)}
    BY <1>1, <2>1 DEF Kids
  <2> QED BY <2>2, <2>3
<1>11. ASSUME NEW h \in A, NEW b \in Root, Descends(h, b), Descends(b, base), b # base
       PROVE  b \in C[ParentOf[b]] /\ b = N[ParentOf[b]] <=>
                 /\ ViableIn(s, b)
                 /\ \A k \in Kids(s, ParentOf[b]) \ {b} :
                       \/ get_weight(s, b) > get_weight(s, k)
                       \/ get_weight(s, b) = get_weight(s, k) /\ RootRank[b] > RootRank[k]
  <2> DEFINE p == ParentOf[b]
  <2>1. b \in A
    BY <1>1, <1>11, ClosedAncestors
  <2>2. b # Anchor /\ Descends(p, base)
    BY <1>1, <1>11, DescendsFrom
  <2>3. p \in A /\ p \in Root
    BY <1>1, <2>1, <2>2 DEF WithParents
  <2>4. Kids(s, p) = C[p]
    BY <1>10, <2>2, <2>3
  <2> HIDE DEF p
  <2>5. b \in C[p] <=> ViableIn(s, b)
    BY <1>2, <1>4, <1>11, <2>1, <2>2, <2>3 DEF p
  <2>6. b \in C[p] /\ b = N[p] <=> b \in C[p] /\ \A o \in C[p] : Heavier(s, b, o)
    BY <1>5, <2>3
  <2>7. ASSUME NEW k \in C[p]
        PROVE  Heavier(s, b, k) <=> \/ k = b \/ get_weight(s, b) > get_weight(s, k)
                                    \/ get_weight(s, b) = get_weight(s, k) /\ RootRank[b] > RootRank[k]
    <3>1. k \in Root
      BY <1>1, <1>4, <2>3
    <3>2. get_weight(s, k) \in Nat /\ get_weight(s, b) \in Nat
      BY <3>1, WeightNat
    <3>3. /\ RootRank[k] \in Nat /\ RootRank[b] \in Nat
          /\ RootRank[k] = RootRank[b] => k = b
      BY <3>1, ForkChoiceAssumption
    <3> QED BY <3>2, <3>3 DEF Heavier
  <2>8. b \in C[p] /\ b = N[p] <=>
           /\ ViableIn(s, b)
           /\ \A k \in Kids(s, p) \ {b} :
                 \/ get_weight(s, b) > get_weight(s, k)
                 \/ get_weight(s, b) = get_weight(s, k) /\ RootRank[b] > RootRank[k]
    BY <2>4, <2>5, <2>6, <2>7
  <2> QED BY <2>8 DEF p
<1>12. ASSUME NEW h \in A PROVE GhostHead(s, h) <=> IsEnd(C, N, h, base)
  <2>1. Descends(h, base) => (Kids(s, h) = {} <=> C[h] = {})
    BY <1>10
  <2> QED BY <1>11, <2>1 DEF GhostHead, IsEnd
<1>13. Descends(f[base], base)
  BY <1>8 DEF IsEnd
<1> QED BY <1>3, <1>8, <1>9, <1>12, <1>13

\* The weight of a block is that of the votes for it and its descendants.
LEMMA WeightIsVotes ==
    ASSUME store.messages \in Messages
    PROVE  \A r \in Root : get_weight(store, r) = ReferenceWeight(r)
<1> SUFFICES ASSUME NEW r \in Root PROVE get_weight(store, r) = ReferenceWeight(r)
  OBVIOUS
<1>1. DOMAIN store.messages \subseteq Validator
  BY DEF Messages
<1>2. {v \in Validator : v \in DOMAIN store.messages \ (store.equivocating \cup Slashed)
                         /\ get_ancestor(store.messages[v].root, SlotOf[r]) = r}
      = {v \in DOMAIN store.messages \ (store.equivocating \cup Slashed) : Descends(store.messages[v].root, r)}
  BY <1>1 DEF Descends
<1> QED BY <1>2 DEF get_weight, ReferenceWeight, Descends

\* The tree of a store has grown over the accepted blocks.
LEMMA StoreGrown ==
    ASSUME AccountableSafety, NEW s, NEW A \in SUBSET Root, Anchor \in A, WithParents(A), IsFiniteSet(A),
           Placed(s.justified, UJust, A), Placed(s.finalized, UFin, A), s.finalized.epoch <= s.justified.epoch,
           s.tree.root \in A, s.tree.nodes = Subtree(s.tree.root, A), Descends(s.finalized.root, s.tree.root)
    PROVE  /\ Grown(s, A) /\ Descends(s.justified.root, s.finalized.root)
           /\ s.justified.root \in Root /\ s.finalized.root \in Root
<1>1. s.justified.root \in A /\ s.finalized.root \in A
  BY PlacedRoot
<1>2. Placed(s.justified, UJust, Root) /\ Placed(s.finalized, UFin, Root)
  BY PlacedMore
<1>3. Descends(s.justified.root, s.finalized.root)
  BY <1>2, OnFinalized
<1>4. Descends(s.justified.root, s.tree.root)
  BY <1>1, <1>3, DescendsTwice
<1> QED BY <1>1, <1>3, <1>4 DEF Grown

\* The head that get_head/1 computes, from a store that blocks of several
\* forks, votes, slashings and ticks have put together in any order, is the
\* head of LMD-GHOST on the viable blocks, and the only one.
THEOREM HeadAlwaysGhost ==
    ASSUME AccountableSafety
    PROVE  Spec => []HeadIsGhost
<1> DEFINE Inv == TypeInv /\ BlocksOK /\ PlaceInv /\ ShapeInv /\ store.messages \in Messages
<1>1. Init => Inv
  BY InitType, InitBlocks, InitPlace, InitShape, InitVotes
<1>2. Inv /\ [Next]_vars => Inv'
  BY StepAdvances, StepKinds, StepPlace, StepShape, StepVotes
<1>3. Inv => HeadIsGhost
  <2> SUFFICES ASSUME Inv PROVE HeadIsGhost
    OBVIOUS
  <2>1. Grown(store, Accepted) /\ Accepted \subseteq Root
    <3>1. Accepted \in SUBSET Root /\ Anchor \in Accepted
      BY TreeAssumption DEF Accepted, BlocksOK
    <3>2. store.tree.nodes = Subtree(store.tree.root, Accepted)
      BY DEF ShapeInv
    <3> QED BY <3>1, <3>2, StoreGrown DEF PlaceInv, ShapeInv
  <2>2. get_head(store) \in Accepted /\ \A h \in Accepted : GhostHead(store, h) <=> h = get_head(store)
    BY <2>1, HeadFound
  <2>3. \A r \in Root : Viable(r) <=> ViableIn(store, r)
    BY DEF Viable, ViableIn
  <2>4. DOMAIN store.tree.nodes \subseteq Root
    BY <2>1 DEF Grown, Subtree
  <2>5. \A r : {k \in DOMAIN store.tree.nodes \ {Anchor} : ParentOf[k] = r /\ Viable(k)} = Kids(store, r)
    BY <2>3, <2>4 DEF Kids
  <2>6. ASSUME NEW h \in Accepted PROVE IsHead(h) <=> GhostHead(store, h)
    <3>1. \A b \in Root : Kids(store, b) \subseteq Root
      BY <2>4 DEF Kids
    <3>2. \A b \in Root : b # store.justified.root /\ Descends(b, store.justified.root) => ParentOf[b] \in Root
      <4>1. store.justified.root \in Root
        BY <2>1 DEF Grown
      <4> QED BY <4>1, DescendsFrom, TreeAssumption
    <3>3. \A r \in Root : get_weight(store, r) = ReferenceWeight(r)
      BY WeightIsVotes
    <3> QED BY <2>3, <2>5, <3>1, <3>2, <3>3 DEF IsHead, GhostHead
  <2> QED BY <2>2, <2>6 DEF HeadIsGhost
<1> QED BY <1>1, <1>2, <1>3, PTL DEF Spec

\* Whenever a block is accepted, or the head moves, the head that the store
\* then keeps is an accepted block on the finalized one.
NewHeadOnFinalized ==
    [][Accepted' # Accepted \/ store'.head # store.head =>
          store'.head \in Accepted' /\ Descends(store'.head, store'.finalized.root)]_vars

\* It does so for every step of the specification: recompute_head/1 runs after
\* the checkpoints of the block have been taken, and nothing else moves the head.
THEOREM NewHeadAlwaysOnFinalized ==
    ASSUME AccountableSafety
    PROVE  Spec => NewHeadOnFinalized
<1> DEFINE Inv == TypeInv /\ BlocksOK /\ PlaceInv /\ ShapeInv
           Moves == Accepted' # Accepted \/ store'.head # store.head =>
                        store'.head \in Accepted' /\ Descends(store'.head, store'.finalized.root)
<1>1. Init => Inv
  BY InitType, InitBlocks, InitPlace, InitShape
<1>2. Inv /\ [Next]_vars => Inv'
  BY StepAdvances, StepKinds, StepPlace, StepShape
<1>3. ASSUME Inv, [Next]_vars PROVE Moves
  <2>t. Inv' /\ StoreOK(store)
    BY <1>2, <1>3 DEF TypeInv
  <2>1. ASSUME NEW r \in Root \ {Anchor}, OnBlockAccepted(r) PROVE Moves
    <3> DEFINE new == compute_post_state(store, r)
               voted == process_attestations(new, AttestationsOf[r])
               s == on_attester_slashing(voted, SlashedBy[r])
    <3>1. StoreOK(new)
      BY <2>t, PostState
    <3> HIDE DEF new
    <3>2. StoreOK(voted)
      BY <3>1, VotesSlashingsHead
    <3> HIDE DEF voted
    <3>3. StoreOK(s)
      BY <3>2, VotesSlashingsHead
    <3>4. store' = recompute_head(s)
      BY <2>1 DEF OnBlockAccepted, s, voted, new
    <3> HIDE DEF s
    <3>5. SamePlace(s, store') /\ store'.head = get_head(s)
      <4>1. SamePlace(s, store')
        BY <3>3, <3>4, OneFieldKeepsPlace
      <4>2. store' = [s EXCEPT !.head = get_head(s)]
        BY <3>4 DEF recompute_head
      <4> QED BY <3>3, <4>1, <4>2 DEF StoreOK
    <3>6. Accepted' \in SUBSET Root /\ Anchor \in Accepted'
      BY <2>t, TreeAssumption DEF Accepted, BlocksOK
    <3>7. /\ IsFiniteSet(Accepted') /\ WithParents(Accepted')
          /\ Placed(s.justified, UJust, Accepted') /\ Placed(s.finalized, UFin, Accepted')
          /\ s.finalized.epoch <= s.justified.epoch
          /\ s.tree.root \in Accepted' /\ s.tree.nodes = Subtree(s.tree.root, Accepted')
          /\ Descends(s.finalized.root, s.tree.root)
      <4>1. /\ s.justified = store'.justified /\ s.finalized = store'.finalized /\ s.tree = store'.tree
        BY <3>5 DEF SamePlace
      <4>2. store'.tree = [root |-> store'.tree.root, nodes |-> Subtree(store'.tree.root, Accepted')]
        BY <2>t DEF ShapeInv
      <4>3. store'.tree.nodes = Subtree(store'.tree.root, Accepted')
        BY <4>2
      <4> QED BY <2>t, <4>1, <4>3 DEF PlaceInv, ShapeInv
    <3>8. /\ Grown(s, Accepted') /\ Descends(s.justified.root, s.finalized.root)
          /\ s.justified.root \in Root /\ s.finalized.root \in Root
      BY <3>6, <3>7, StoreGrown
    <3>9. get_head(s) \in Accepted' /\ Descends(get_head(s), s.justified.root)
      BY <3>8, HeadFound
    <3>10. Descends(get_head(s), s.finalized.root)
      BY <3>6, <3>8, <3>9, DescendsTwice
    <3> QED BY <3>5, <3>9, <3>10 DEF SamePlace
  <2>2. CASE UNCHANGED <<store.head, Accepted>>
    BY <2>2
  <2>3. CASE \E a \in WireAttestations : OnAttestation(a)
    <3>1. PICK a \in WireAttestations : OnAttestation(a)
      BY <2>3
    <3>2. UNCHANGED blocks /\ (UNCHANGED store \/ store' = process_attestations(store, <<a>>))
      BY <3>1 DEF OnAttestation
    <3>3. PICK m : process_attestations(store, <<a>>) = [store EXCEPT !.messages = m]
      BY <2>t, OneField
    <3>4. UNCHANGED store.head
      BY <2>t, <3>2, <3>3 DEF StoreOK
    <3> QED BY <2>2, <3>2, <3>4 DEF Accepted
  <2>4. CASE \E vs \in WireSlashings : OnAttesterSlashing(vs)
    <3>1. PICK vs \in WireSlashings : store' = [store EXCEPT !.equivocating = store.equivocating \cup vs] /\ UNCHANGED blocks
      BY <2>4 DEF OnAttesterSlashing, on_attester_slashing
    <3>2. UNCHANGED store.head
      BY <2>t, <3>1 DEF StoreOK
    <3> QED BY <2>2, <3>1, <3>2 DEF Accepted
  <2>5. CASE OnTickSlot \/ OnTickEnd
    <3>1. PICK time \in Int : store' = on_tick_per_slot(store, time) /\ UNCHANGED blocks
      BY <1>3, <2>5 DEF OnTickSlot, OnTickEnd, TypeInv, TickOK
    <3>2. UNCHANGED store.head
      BY <2>t, <3>1, TickPerSlotFields
    <3> QED BY <2>2, <3>1, <3>2 DEF Accepted
  <2>6. CASE \/ UNCHANGED vars \/ ClockMoves \/ \E time \in TickTimes : OnTick(time)
    BY <2>2, <2>6 DEF vars, ClockMoves, OnTick, Accepted
  <2>7. ASSUME NEW r \in Root \ {Anchor}, Receive(r) \/ OnBlock(r) PROVE Moves
    <3>1. CASE OnBlockAccepted(r)
      BY <2>1, <3>1
    <3>2. CASE Receive(r) \/ OnBlockRefused(r) \/ OnBlockRejected(r) \/ OnBlockRaises(r)
      <4>1. UNCHANGED store
        BY <3>2 DEF Receive, OnBlockRefused, OnBlockRejected, OnBlockRaises
      <4>2. CASE \E q \in Root \ {Anchor} : Accepts(q)
        BY <2>1, <4>2 DEF Accepts
      <4>3. CASE Accepted' = Accepted
        BY <2>2, <4>1, <4>3
      <4>4. (\E q \in Root \ {Anchor} : Accepts(q)) \/ Accepted' = Accepted
        BY <1>3, StepKinds DEF Keeps, Accepted
      <4> QED BY <4>2, <4>3, <4>4
    <3> QED BY <2>7, <3>1, <3>2 DEF OnBlock
  <2> QED BY <1>3, <2>3, <2>4, <2>5, <2>6, <2>7 DEF Next
<1> QED BY <1>1, <1>2, <1>3, PTL DEF Spec, NewHeadOnFinalized
=============================================================================

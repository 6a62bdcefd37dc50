-------------------------- MODULE ForkChoiceProofs --------------------------
(***************************************************************************)
(* Proofs about ForkChoice, for every block tree and every order of blocks, *)
(* votes and ticks.                                                         *)
(***************************************************************************)
EXTENDS ForkChoice, RecursionTheorems

\* The fields that the proofs are about, and that the store is a record.
StoreOK(s) ==
    /\ s = [time |-> s.time, justified |-> s.justified, finalized |-> s.finalized,
            ujustified |-> s.ujustified, ufinalized |-> s.ufinalized,
            boost |-> s.boost, equivocating |-> s.equivocating, messages |-> s.messages,
            unrealized |-> s.unrealized, tree |-> s.tree, head |-> s.head]
    /\ s.time \in Int
    /\ s.justified \in Checkpoints /\ s.finalized \in Checkpoints
    /\ s.ujustified \in Checkpoints /\ s.ufinalized \in Checkpoints

\* What every handler does to a store, and what it leaves of it.
Advances(s, t) ==
    /\ t.justified.epoch >= s.justified.epoch
    /\ t.finalized.epoch >= s.finalized.epoch
    /\ t.ujustified.epoch >= s.ujustified.epoch
    /\ t.ufinalized.epoch >= s.ufinalized.epoch
    /\ s.equivocating \subseteq t.equivocating

TickOK == tick \in [to : Nat, next : Int]

TypeInv == StoreOK(store) /\ TickOK

\* Advancing is transitive.
LEMMA AdvancesTwice ==
    ASSUME NEW r, NEW s, NEW t, StoreOK(r), StoreOK(s), StoreOK(t), Advances(r, s), Advances(s, t)
    PROVE  Advances(r, t)
<1>1. /\ r.justified.epoch \in Nat /\ r.finalized.epoch \in Nat
      /\ r.ujustified.epoch \in Nat /\ r.ufinalized.epoch \in Nat
      /\ s.justified.epoch \in Nat /\ s.finalized.epoch \in Nat
      /\ s.ujustified.epoch \in Nat /\ s.ufinalized.epoch \in Nat
      /\ t.justified.epoch \in Nat /\ t.finalized.epoch \in Nat
      /\ t.ujustified.epoch \in Nat /\ t.ufinalized.epoch \in Nat
  BY DEF StoreOK, Checkpoints
<1> QED BY <1>1 DEF Advances

\* The later of two checkpoints is one, and not earlier than the old one.
LEMMA LaterAdvances ==
    ASSUME NEW new \in Checkpoints, NEW old \in Checkpoints
    PROVE  Later(new, old) \in Checkpoints /\ Later(new, old).epoch >= old.epoch
  BY DEF Later, Checkpoints

\* update_checkpoints/3 advances the checkpoints and changes nothing else.
LEMMA UpdateCheckpoints ==
    ASSUME NEW s, StoreOK(s), NEW j \in Checkpoints, NEW f \in Checkpoints
    PROVE  /\ StoreOK(update_checkpoints(s, j, f))
           /\ Advances(s, update_checkpoints(s, j, f))
<1> DEFINE t == update_checkpoints(s, j, f)
<1>1. /\ Later(j, s.justified) \in Checkpoints /\ Later(j, s.justified).epoch >= s.justified.epoch
      /\ Later(f, s.finalized) \in Checkpoints /\ Later(f, s.finalized).epoch >= s.finalized.epoch
  BY LaterAdvances DEF StoreOK
<1>2. t = [s EXCEPT !.justified = Later(j, s.justified), !.finalized = Later(f, s.finalized)]
  BY DEF update_checkpoints
<1>3. /\ t.justified = Later(j, s.justified) /\ t.finalized = Later(f, s.finalized)
      /\ t.ujustified = s.ujustified /\ t.ufinalized = s.ufinalized
      /\ t.time = s.time /\ t.equivocating = s.equivocating
  BY <1>2 DEF StoreOK
<1>4. StoreOK(t)
  BY <1>1, <1>2, <1>3 DEF StoreOK
<1>5. s.ujustified.epoch \in Nat /\ s.ufinalized.epoch \in Nat
  BY DEF StoreOK, Checkpoints
<1> QED BY <1>1, <1>3, <1>4, <1>5 DEF Advances

\* update_unrealized_checkpoints/3 advances the unrealized checkpoints.
LEMMA UpdateUnrealized ==
    ASSUME NEW s, StoreOK(s), NEW j \in Checkpoints, NEW f \in Checkpoints
    PROVE  /\ StoreOK(update_unrealized_checkpoints(s, j, f))
           /\ Advances(s, update_unrealized_checkpoints(s, j, f))
<1> DEFINE t == update_unrealized_checkpoints(s, j, f)
<1>1. /\ Later(j, s.ujustified) \in Checkpoints /\ Later(j, s.ujustified).epoch >= s.ujustified.epoch
      /\ Later(f, s.ufinalized) \in Checkpoints /\ Later(f, s.ufinalized).epoch >= s.ufinalized.epoch
  BY LaterAdvances DEF StoreOK
<1>2. t = [s EXCEPT !.ujustified = Later(j, s.ujustified), !.ufinalized = Later(f, s.ufinalized)]
  BY DEF update_unrealized_checkpoints
<1>3. /\ t.ujustified = Later(j, s.ujustified) /\ t.ufinalized = Later(f, s.ufinalized)
      /\ t.justified = s.justified /\ t.finalized = s.finalized
      /\ t.time = s.time /\ t.equivocating = s.equivocating
  BY <1>2 DEF StoreOK
<1>4. StoreOK(t)
  BY <1>1, <1>2, <1>3 DEF StoreOK
<1>5. s.justified.epoch \in Nat /\ s.finalized.epoch \in Nat
  BY DEF StoreOK, Checkpoints
<1> QED BY <1>1, <1>3, <1>4, <1>5 DEF Advances

\* A change of any other field but the time leaves the checkpoints alone.
LEMMA SameCheckpoints ==
    ASSUME NEW s, StoreOK(s), NEW t, StoreOK(t),
           t.justified = s.justified, t.finalized = s.finalized,
           t.ujustified = s.ujustified, t.ufinalized = s.ufinalized,
           s.equivocating \subseteq t.equivocating
    PROVE  Advances(s, t)
<1>1. /\ s.justified.epoch \in Nat /\ s.finalized.epoch \in Nat
      /\ s.ujustified.epoch \in Nat /\ s.ufinalized.epoch \in Nat
  BY DEF StoreOK, Checkpoints
<1> QED BY <1>1 DEF Advances

\* compute_pulled_up_tip/4
LEMMA PulledUpTip ==
    ASSUME NEW s, StoreOK(s), NEW r \in Root
    PROVE  /\ StoreOK(compute_pulled_up_tip(s, r))
           /\ Advances(s, compute_pulled_up_tip(s, r))
<1> DEFINE u == [x \in DOMAIN s.unrealized \cup {r} |-> IF x = r THEN UJust[r] ELSE s.unrealized[x]]
           seen == [s EXCEPT !.unrealized = u]
           new == update_unrealized_checkpoints(seen, UJust[r], UFin[r])
           up == update_checkpoints(new, UJust[r], UFin[r])
<1>1. UJust[r] \in Checkpoints /\ UFin[r] \in Checkpoints
  BY ForkChoiceAssumption
<1>2. StoreOK(seen) /\ Advances(s, seen)
  <2> HIDE DEF u
  <2>1. StoreOK(seen)
    BY DEF StoreOK
  <2>2. /\ seen.justified = s.justified /\ seen.finalized = s.finalized
        /\ seen.ujustified = s.ujustified /\ seen.ufinalized = s.ufinalized
        /\ s.equivocating \subseteq seen.equivocating
    BY DEF StoreOK
  <2> QED BY <2>1, <2>2, SameCheckpoints
<1>3. StoreOK(new) /\ Advances(seen, new)
  BY <1>1, <1>2, UpdateUnrealized
<1>4. StoreOK(up) /\ Advances(new, up)
  BY <1>1, <1>3, UpdateCheckpoints
<1>5. compute_pulled_up_tip(s, r) = new \/ compute_pulled_up_tip(s, r) = up
  BY DEF compute_pulled_up_tip
<1> HIDE DEF seen, new, up
<1> QED BY <1>2, <1>3, <1>4, <1>5, AdvancesTwice

\* compute_post_state/3
LEMMA PostState ==
    ASSUME NEW s, StoreOK(s), NEW r \in Root
    PROVE  /\ StoreOK(compute_post_state(s, r))
           /\ Advances(s, compute_post_state(s, r))
<1> DEFINE added == update_tree(s, r)
           boosted == IF Timely(s, r) THEN [added EXCEPT !.boost = r] ELSE added
           up == update_checkpoints(boosted, JustifiedIn[r], FinalizedIn[r])
<1>1. JustifiedIn[r] \in Checkpoints /\ FinalizedIn[r] \in Checkpoints
  BY ForkChoiceAssumption
<1>2. \/ added = s
      \/ added = [s EXCEPT !.tree = AddBlock(UpdateRoot(s.tree, s.finalized.root), r, ParentOf[r])]
  BY DEF update_tree
<1>3. /\ StoreOK(added)
      /\ added.justified = s.justified /\ added.finalized = s.finalized
      /\ added.ujustified = s.ujustified /\ added.ufinalized = s.ufinalized
      /\ added.equivocating = s.equivocating
  BY <1>2 DEF StoreOK
<1> HIDE DEF added
<1>4. /\ StoreOK(boosted)
      /\ boosted.justified = s.justified /\ boosted.finalized = s.finalized
      /\ boosted.ujustified = s.ujustified /\ boosted.ufinalized = s.ufinalized
      /\ boosted.equivocating = s.equivocating
  BY <1>3 DEF StoreOK
<1> HIDE DEF boosted
<1>5. Advances(s, boosted)
  BY <1>4, SameCheckpoints
<1>6. StoreOK(up) /\ Advances(boosted, up)
  BY <1>1, <1>4, UpdateCheckpoints
<1> HIDE DEF up
<1>7. StoreOK(compute_pulled_up_tip(up, r)) /\ Advances(up, compute_pulled_up_tip(up, r))
  BY <1>6, PulledUpTip
<1>8. compute_post_state(s, r) = compute_pulled_up_tip(up, r)
  BY DEF compute_post_state, up, boosted, added
<1> QED BY <1>4, <1>5, <1>6, <1>7, <1>8, AdvancesTwice

\* Votes, slashings and the head leave the checkpoints alone.
LEMMA VotesSlashingsHead ==
    ASSUME NEW s, StoreOK(s), NEW atts, NEW vs
    PROVE  /\ StoreOK(process_attestations(s, atts)) /\ Advances(s, process_attestations(s, atts))
           /\ StoreOK(on_attester_slashing(s, vs)) /\ Advances(s, on_attester_slashing(s, vs))
           /\ StoreOK(recompute_head(s)) /\ Advances(s, recompute_head(s))
<1>1. PICK m : process_attestations(s, atts) = [s EXCEPT !.messages = m]
  BY DEF process_attestations
<1>2. StoreOK(process_attestations(s, atts)) /\ Advances(s, process_attestations(s, atts))
  <2> DEFINE t == [s EXCEPT !.messages = m]
  <2>1. /\ StoreOK(t) /\ t.justified = s.justified /\ t.finalized = s.finalized
        /\ t.ujustified = s.ujustified /\ t.ufinalized = s.ufinalized
        /\ s.equivocating \subseteq t.equivocating
    BY DEF StoreOK
  <2> QED BY <1>1, <2>1, SameCheckpoints
<1>3. StoreOK(on_attester_slashing(s, vs)) /\ Advances(s, on_attester_slashing(s, vs))
  <2> DEFINE new == s.equivocating \cup vs
             t == [s EXCEPT !.equivocating = new]
  <2> HIDE DEF new
  <2>1. /\ StoreOK(t) /\ t.justified = s.justified /\ t.finalized = s.finalized
        /\ t.ujustified = s.ujustified /\ t.ufinalized = s.ufinalized
        /\ t.equivocating = new
    BY DEF StoreOK
  <2>2. s.equivocating \subseteq new
    BY DEF new
  <2> QED BY <2>1, <2>2, SameCheckpoints DEF on_attester_slashing, new
<1>4. StoreOK(recompute_head(s)) /\ Advances(s, recompute_head(s))
  <2> DEFINE t == [s EXCEPT !.head = get_head(s)]
  <2>1. /\ StoreOK(t) /\ t.justified = s.justified /\ t.finalized = s.finalized
        /\ t.ujustified = s.ujustified /\ t.ufinalized = s.ufinalized
        /\ s.equivocating \subseteq t.equivocating
    BY DEF StoreOK
  <2> QED BY <2>1, SameCheckpoints DEF recompute_head
<1> QED BY <1>2, <1>3, <1>4

\* on_tick_per_slot/2
LEMMA TickPerSlot ==
    ASSUME NEW s, StoreOK(s), NEW time \in Int
    PROVE  StoreOK(on_tick_per_slot(s, time)) /\ Advances(s, on_tick_per_slot(s, time))
<1> DEFINE new == [s EXCEPT !.time = time]
           reset == [new EXCEPT !.boost = ZeroRoot]
           up == update_checkpoints(reset, s.ujustified, s.ufinalized)
<1>1. /\ StoreOK(new) /\ new.justified = s.justified /\ new.finalized = s.finalized
      /\ new.ujustified = s.ujustified /\ new.ufinalized = s.ufinalized
      /\ new.equivocating = s.equivocating
  BY DEF StoreOK
<1> HIDE DEF new
<1>2. /\ StoreOK(reset) /\ reset.justified = s.justified /\ reset.finalized = s.finalized
      /\ reset.ujustified = s.ujustified /\ reset.ufinalized = s.ufinalized
      /\ reset.equivocating = s.equivocating
  BY <1>1 DEF StoreOK
<1> HIDE DEF reset
<1>3. Advances(s, new) /\ Advances(s, reset)
  BY <1>1, <1>2, SameCheckpoints
<1>4. StoreOK(up) /\ Advances(reset, up)
  BY <1>2, UpdateCheckpoints DEF StoreOK
<1>5. on_tick_per_slot(s, time) \in {new, reset, up}
  BY DEF on_tick_per_slot, new, reset, up
<1> QED BY <1>1, <1>2, <1>3, <1>4, <1>5, AdvancesTwice
-----------------------------------------------------------------------------
(* Checkpoints *)

\* The store that ForkChoice.on_block/2 leaves when it accepts a block.
LEMMA OnBlockAdvances ==
    ASSUME TypeInv, NEW r \in Root, OnBlockAccepted(r)
    PROVE  StoreOK(store') /\ Advances(store, store')
<1> DEFINE new == compute_post_state(store, r)
           voted == process_attestations(new, AttestationsOf[r])
           slashed == on_attester_slashing(voted, SlashedBy[r])
<1>1. store' = recompute_head(slashed)
  BY DEF OnBlockAccepted
<1>2. StoreOK(store) /\ StoreOK(new) /\ Advances(store, new)
  BY PostState DEF TypeInv
<1> HIDE DEF new
<1>3. StoreOK(voted) /\ Advances(new, voted)
  BY <1>2, VotesSlashingsHead
<1> HIDE DEF voted
<1>4. StoreOK(slashed) /\ Advances(voted, slashed)
  BY <1>3, VotesSlashingsHead
<1> HIDE DEF slashed
<1>5. StoreOK(recompute_head(slashed)) /\ Advances(slashed, recompute_head(slashed))
  BY <1>4, VotesSlashingsHead
<1>6. Advances(store, voted)
  BY <1>2, <1>3, AdvancesTwice
<1>7. Advances(store, slashed)
  BY <1>2, <1>3, <1>4, <1>6, AdvancesTwice
<1> QED BY <1>1, <1>2, <1>4, <1>5, <1>7, AdvancesTwice

\* The slot of a time is an integer.
LEMMA SlotType == \A time \in Int : compute_current_slot(time) \in Int
  BY ForkChoiceAssumption DEF compute_current_slot, TruncDiv

\* Every step keeps the shape of the store and advances it, or leaves it alone.
LEMMA StepAdvances ==
    ASSUME TypeInv, [Next]_vars
    PROVE  TypeInv' /\ Advances(store, store')
<1> USE DEF TypeInv
<1>a. StoreOK(store) => Advances(store, store)
  BY SameCheckpoints
<1>1. CASE UNCHANGED vars
  BY <1>1, <1>a DEF vars, TickOK
<1>2. CASE \E r \in Root \ {Anchor} : Receive(r) \/ OnBlock(r)
  <2>1. PICK r \in Root \ {Anchor} : Receive(r) \/ OnBlock(r)
    BY <1>2
  <2>2. tick' = tick
    BY <2>1 DEF Receive, OnBlock, OnBlockAccepted, OnBlockRefused, OnBlockRejected, OnBlockRaises
  <2>3. store' = store \/ OnBlockAccepted(r)
    BY <2>1 DEF Receive, OnBlock, OnBlockRefused, OnBlockRejected, OnBlockRaises
  <2> QED BY <1>a, <2>2, <2>3, OnBlockAdvances DEF TickOK
<1>3. CASE \E a \in WireAttestations : OnAttestation(a)
  BY <1>3, <1>a, VotesSlashingsHead DEF OnAttestation, TickOK
<1>4. CASE \E vs \in WireSlashings : OnAttesterSlashing(vs)
  BY <1>4, VotesSlashingsHead DEF OnAttesterSlashing, TickOK
<1>5. CASE \E time \in TickTimes : OnTick(time)
  <2>1. PICK time \in TickTimes : OnTick(time)
    BY <1>5
  <2>2. get_current_slot(store) \in Int
    BY SlotType DEF StoreOK, get_current_slot
  <2>3. TickOK'
    BY <2>1, <2>2, ForkChoiceAssumption DEF OnTick, TickOK
  <2> QED BY <2>1, <2>3, <1>a DEF OnTick
<1>6. CASE OnTickSlot
  <2>1. tick.next \in Int /\ tick.to \in Int /\ tick'.next \in Int /\ tick'.to = tick.to
    BY <1>6, ForkChoiceAssumption DEF OnTickSlot, TickOK
  <2>2. TickOK'
    BY <1>6, <2>1, ForkChoiceAssumption DEF OnTickSlot, TickOK
  <2> QED BY <1>6, <2>1, <2>2, TickPerSlot DEF OnTickSlot
<1>7. CASE OnTickEnd
  <2>1. tick.to \in Int
    BY DEF TickOK
  <2>2. TickOK'
    BY <1>7 DEF OnTickEnd, TickOK, NoTick
  <2> QED BY <1>7, <2>1, <2>2, TickPerSlot DEF OnTickEnd
<1>8. CASE ClockMoves
  BY <1>8, <1>a DEF ClockMoves, TickOK
<1> QED BY <1>1, <1>2, <1>3, <1>4, <1>5, <1>6, <1>7, <1>8 DEF Next

\* The anchor's checkpoint is one.
LEMMA AnchorCheckpointType == AnchorCheckpoint \in Checkpoints
  BY TreeAssumption DEF AnchorCheckpoint, Checkpoint, Checkpoints, compute_epoch_at_slot

\* The node starts with a store of the right shape.
LEMMA InitType == Init => TypeInv
<1> SUFFICES ASSUME Init PROVE TypeInv
  OBVIOUS
<1>1. GenesisTime + SecondsPerSlot * SlotOf[Anchor] \in Int
  BY ForkChoiceAssumption, TreeAssumption
<1>2. StoreOK(store)
  BY <1>1, AnchorCheckpointType DEF Init, StoreOK
<1>3. TickOK
  BY DEF Init, TickOK, NoTick
<1> QED BY <1>2, <1>3 DEF TypeInv

\* Whatever blocks, votes and ticks come, and in whatever order, the justified,
\* finalized and unrealized checkpoints of the store and the set of equivocating
\* validators never go back (ForkChoice.Handlers).
THEOREM NeverBack == Spec => CheckpointsAdvance
<1>1. TypeInv /\ [Next]_vars => TypeInv'
  BY StepAdvances
<1>2. TypeInv /\ [Next]_vars => [Advances(store, store')]_vars
  BY StepAdvances
<1>3. Spec => []TypeInv
  BY InitType, <1>1, PTL DEF Spec
<1>4. Spec => [][Advances(store, store')]_vars
  BY <1>2, <1>3, PTL DEF Spec
<1> QED BY <1>4 DEF Advances, CheckpointsAdvance
-----------------------------------------------------------------------------
(* The proposer boost *)

\* A positive factor can be left out on both sides.
LEMMA TimesKeepsOrder == \A x, y \in Int, n \in Nat \ {0} : x * n <= y * n => x <= y
  OBVIOUS

\* Since genesis, slots follow time.
LEMMA SlotsFollowTime ==
    ASSUME NEW x \in Int, NEW y \in Int, GenesisTime <= y, y <= x
    PROVE  compute_current_slot(y) <= compute_current_slot(x)
<1>1. y - GenesisTime \in Nat /\ x - GenesisTime \in Nat /\ y - GenesisTime <= x - GenesisTime
  BY ForkChoiceAssumption
<1> QED BY <1>1, DivKeepsOrder, ForkChoiceAssumption DEF compute_current_slot, TruncDiv

\* Updating checkpoints leaves time and boost alone.
LEMMA UpdatesKeepBoost ==
    ASSUME NEW s, StoreOK(s), NEW j \in Checkpoints, NEW f \in Checkpoints
    PROVE  /\ update_checkpoints(s, j, f).time = s.time
           /\ update_checkpoints(s, j, f).boost = s.boost
           /\ update_unrealized_checkpoints(s, j, f).time = s.time
           /\ update_unrealized_checkpoints(s, j, f).boost = s.boost
<1>1. PICK x, y : update_checkpoints(s, j, f) = [s EXCEPT !.justified = x, !.finalized = y]
  BY DEF update_checkpoints
<1>2. PICK p, q : update_unrealized_checkpoints(s, j, f) = [s EXCEPT !.ujustified = p, !.ufinalized = q]
  BY DEF update_unrealized_checkpoints
<1> QED BY <1>1, <1>2 DEF StoreOK

\* Pulling up the tip leaves time and boost alone.
LEMMA PulledUpTipBoost ==
    ASSUME NEW s, StoreOK(s), NEW r \in Root
    PROVE  compute_pulled_up_tip(s, r).time = s.time /\ compute_pulled_up_tip(s, r).boost = s.boost
<1> DEFINE u == [x \in DOMAIN s.unrealized \cup {r} |-> IF x = r THEN UJust[r] ELSE s.unrealized[x]]
           seen == [s EXCEPT !.unrealized = u]
           new == update_unrealized_checkpoints(seen, UJust[r], UFin[r])
           up == update_checkpoints(new, UJust[r], UFin[r])
<1>1. UJust[r] \in Checkpoints /\ UFin[r] \in Checkpoints
  BY ForkChoiceAssumption
<1>2. StoreOK(seen) /\ seen.time = s.time /\ seen.boost = s.boost
  <2> HIDE DEF u
  <2> QED BY DEF StoreOK
<1>3. StoreOK(new) /\ new.time = s.time /\ new.boost = s.boost
  BY <1>1, <1>2, UpdateUnrealized, UpdatesKeepBoost
<1>4. up.time = s.time /\ up.boost = s.boost
  BY <1>1, <1>3, UpdatesKeepBoost
<1>5. compute_pulled_up_tip(s, r) = new \/ compute_pulled_up_tip(s, r) = up
  BY DEF compute_pulled_up_tip
<1> HIDE DEF seen, new, up
<1> QED BY <1>3, <1>4, <1>5

\* A block is boosted by compute_post_state/3 only in its slot.
LEMMA PostStateBoost ==
    ASSUME NEW s, StoreOK(s), NEW r \in Root
    PROVE  /\ compute_post_state(s, r).time = s.time
           /\ \/ compute_post_state(s, r).boost = s.boost
              \/ /\ compute_post_state(s, r).boost = r
                 /\ get_current_slot(s) = SlotOf[r]
<1> DEFINE added == update_tree(s, r)
           boosted == IF Timely(s, r) THEN [added EXCEPT !.boost = r] ELSE added
           up == update_checkpoints(boosted, JustifiedIn[r], FinalizedIn[r])
<1>1. JustifiedIn[r] \in Checkpoints /\ FinalizedIn[r] \in Checkpoints
  BY ForkChoiceAssumption
<1>2. \/ added = s
      \/ added = [s EXCEPT !.tree = AddBlock(UpdateRoot(s.tree, s.finalized.root), r, ParentOf[r])]
  BY DEF update_tree
<1>3. StoreOK(added) /\ added.time = s.time /\ added.boost = s.boost
  BY <1>2 DEF StoreOK
<1> HIDE DEF added
<1>4. /\ StoreOK(boosted) /\ boosted.time = s.time
      /\ boosted.boost = s.boost \/ (boosted.boost = r /\ get_current_slot(s) = SlotOf[r])
  BY <1>3 DEF StoreOK, Timely
<1> HIDE DEF boosted
<1>5. StoreOK(up) /\ up.time = s.time /\ up.boost = boosted.boost
  BY <1>1, <1>4, UpdateCheckpoints, UpdatesKeepBoost
<1> HIDE DEF up
<1>6. compute_post_state(s, r) = compute_pulled_up_tip(up, r)
  BY DEF compute_post_state, up, boosted, added
<1> QED BY <1>4, <1>5, <1>6, PulledUpTipBoost

\* So do votes, slashings and the new head.
LEMMA VotesSlashingsHeadBoost ==
    ASSUME NEW s, StoreOK(s), NEW atts, NEW vs
    PROVE  /\ process_attestations(s, atts).time = s.time /\ process_attestations(s, atts).boost = s.boost
           /\ on_attester_slashing(s, vs).time = s.time /\ on_attester_slashing(s, vs).boost = s.boost
           /\ recompute_head(s).time = s.time /\ recompute_head(s).boost = s.boost
<1>1. PICK m : process_attestations(s, atts) = [s EXCEPT !.messages = m]
  BY DEF process_attestations
<1>2. PICK e : on_attester_slashing(s, vs) = [s EXCEPT !.equivocating = e]
  BY DEF on_attester_slashing
<1>3. PICK h : recompute_head(s) = [s EXCEPT !.head = h]
  BY DEF recompute_head
<1> QED BY <1>1, <1>2, <1>3 DEF StoreOK

\* A block that is accepted gets the boost in its own slot only.
LEMMA OnBlockBoost ==
    ASSUME TypeInv, NEW r \in Root, OnBlockAccepted(r)
    PROVE  /\ store'.time = store.time
           /\ store'.boost = store.boost \/ (store'.boost = r /\ get_current_slot(store) = SlotOf[r])
<1> DEFINE new == compute_post_state(store, r)
           voted == process_attestations(new, AttestationsOf[r])
           slashed == on_attester_slashing(voted, SlashedBy[r])
<1>1. store' = recompute_head(slashed)
  BY DEF OnBlockAccepted
<1>2. /\ StoreOK(new) /\ new.time = store.time
      /\ new.boost = store.boost \/ (new.boost = r /\ get_current_slot(store) = SlotOf[r])
  BY PostState, PostStateBoost DEF TypeInv
<1> HIDE DEF new
<1>3. StoreOK(voted) /\ voted.time = new.time /\ voted.boost = new.boost
  BY <1>2, VotesSlashingsHead, VotesSlashingsHeadBoost
<1> HIDE DEF voted
<1>4. StoreOK(slashed) /\ slashed.time = new.time /\ slashed.boost = new.boost
  BY <1>3, VotesSlashingsHead, VotesSlashingsHeadBoost
<1> HIDE DEF slashed
<1> QED BY <1>1, <1>2, <1>4, VotesSlashingsHeadBoost

\* on_tick_per_slot/2 resets the boost unless the slot stays or goes back.
LEMMA TickPerSlotBoost ==
    ASSUME NEW s, StoreOK(s), NEW time \in Int
    PROVE  /\ on_tick_per_slot(s, time).time = time
           /\ IF compute_current_slot(time) <= compute_current_slot(s.time)
              THEN on_tick_per_slot(s, time).boost = s.boost
              ELSE on_tick_per_slot(s, time).boost = ZeroRoot
<1> DEFINE new == [s EXCEPT !.time = time]
           reset == [new EXCEPT !.boost = ZeroRoot]
           up == update_checkpoints(reset, s.ujustified, s.ufinalized)
           t == on_tick_per_slot(s, time)
<1>1. StoreOK(new) /\ new.time = time /\ new.boost = s.boost
  BY DEF StoreOK
<1>2. t = IF compute_current_slot(new.time) <= compute_current_slot(s.time) THEN new
          ELSE IF compute_slots_since_epoch_start(get_current_slot(new)) = 0 THEN up ELSE reset
  BY DEF on_tick_per_slot, get_current_slot
<1> HIDE DEF new
<1>3. StoreOK(reset) /\ reset.time = time /\ reset.boost = ZeroRoot
  BY <1>1 DEF StoreOK
<1> HIDE DEF reset
<1>4. up.time = time /\ up.boost = ZeroRoot
  BY <1>3, UpdatesKeepBoost, SMTT(30) DEF StoreOK
<1> HIDE DEF up, t
<1> QED BY <1>1, <1>2, <1>3, <1>4 DEF t

\* The boost while on_tick/2 runs: the boosted block is of the slot the store
\* left off at, or the store is in a slot that the loop has yet to leave.
Ticking == tick # NoTick
BoostInv ==
    /\ ~Ticking => GenesisTime <= store.time
    /\ Ticking => GenesisTime < tick.to
    /\ store.boost # ZeroRoot =>
        \/ ~Ticking /\ SlotOf[store.boost] = get_current_slot(store)
        \/ /\ Ticking
           /\ SlotOf[store.boost] = get_current_slot(store)
           /\ tick.next = (get_current_slot(store) + 1) * SecondsPerSlot
           /\ GenesisTime <= store.time /\ store.time < tick.to
        \/ Ticking /\ get_current_slot(store) < compute_current_slot(tick.to)

\* A step that leaves the time and the ticks alone, and boosts at most a block
\* of the current slot.
LEMMA BoostStays ==
    ASSUME BoostInv, tick' = tick, store'.time = store.time,
           \/ store'.boost = store.boost
           \/ ~Ticking /\ SlotOf[store'.boost] = get_current_slot(store)
    PROVE  BoostInv'
  BY DEF BoostInv, Ticking, get_current_slot

\* The call of on_tick/2.
LEMMA OnTickBoost ==
    ASSUME TypeInv, BoostInv, NEW time \in TickTimes, OnTick(time)
    PROVE  BoostInv'
<1>1. /\ tick = NoTick /\ store' = store /\ store.time < time
      /\ tick' = [to |-> time, next |-> (get_current_slot(store) + 1) * SecondsPerSlot]
  BY ForkChoiceAssumption DEF OnTick, Idle, TypeInv, StoreOK
<1>2. /\ tick'.to = time /\ tick'.next = (get_current_slot(store) + 1) * SecondsPerSlot
      /\ time \in Nat /\ GenesisTime \in Nat /\ store.time \in Int
  BY <1>1, ForkChoiceAssumption DEF TypeInv, StoreOK
<1>3. GenesisTime <= store.time /\ GenesisTime < time
  BY <1>1, <1>2 DEF BoostInv, Ticking
<1>4. Ticking'
  BY <1>2, <1>3 DEF Ticking, NoTick
<1>5. store.boost # ZeroRoot => SlotOf[store.boost] = get_current_slot(store)
  BY <1>1 DEF BoostInv, Ticking
<1>6. (store'.boost # ZeroRoot) =>
         /\ SlotOf[store'.boost] = get_current_slot(store')
         /\ tick'.next = (get_current_slot(store') + 1) * SecondsPerSlot
         /\ GenesisTime <= store'.time /\ store'.time < tick'.to
  BY <1>1, <1>2, <1>3, <1>5
<1> QED BY <1>2, <1>3, <1>4, <1>6 DEF BoostInv

\* A step of the loop of on_tick/2.
LEMMA OnTickSlotBoost ==
    ASSUME TypeInv, BoostInv, OnTickSlot
    PROVE  BoostInv'
<1> DEFINE cur == compute_current_slot(store.time)
           now == compute_current_slot(tick.next)
           last == compute_current_slot(tick.to)
<1>1. /\ tick.next \in Int /\ tick.to \in Nat /\ store.time \in Int /\ GenesisTime \in Nat
      /\ cur \in Int /\ now \in Int /\ last \in Int /\ SecondsPerSlot \in Nat \ {0}
  BY SlotType, ForkChoiceAssumption DEF TypeInv, TickOK, StoreOK
<1>2. /\ Ticking /\ tick.next <= last * SecondsPerSlot
      /\ store' = on_tick_per_slot(store, tick.next) /\ tick'.to = tick.to
  BY DEF OnTickSlot, TypeInv, TickOK, LastSlotStart, Ticking
<1>3. GenesisTime < tick'.to /\ Ticking'
  BY <1>1, <1>2 DEF BoostInv, Ticking, NoTick
<1>4. store'.time = tick.next
  BY <1>1, <1>2, TickPerSlotBoost DEF TypeInv
<1>5. now > cur => store'.boost = ZeroRoot
  BY <1>1, <1>2, TickPerSlotBoost DEF TypeInv
<1>6. ASSUME now <= cur, store'.boost # ZeroRoot PROVE now < last
  <2>1. store'.boost = store.boost
    BY <1>1, <1>2, <1>6, TickPerSlotBoost DEF TypeInv
  <2>2. \/ tick.next = (cur + 1) * SecondsPerSlot
        \/ cur < last
    BY <1>2, <1>6, <2>1 DEF BoostInv, get_current_slot
  <2>3. CASE tick.next = (cur + 1) * SecondsPerSlot
    <3> HIDE DEF cur, now, last
    <3>1. cur + 1 <= last
      BY <1>1, <1>2, <2>3, TimesKeepsOrder
    <3> QED BY <1>1, <1>6, <3>1
  <2> HIDE DEF cur, now, last
  <2> QED BY <1>1, <1>6, <2>2, <2>3
<1>7. store'.boost # ZeroRoot => get_current_slot(store') < compute_current_slot(tick'.to)
  <2>1. now > cur \/ now <= cur
    <3> HIDE DEF cur, now
    <3> QED BY <1>1
  <2> QED BY <1>2, <1>4, <1>5, <1>6, <2>1 DEF get_current_slot
<1> QED BY <1>3, <1>7 DEF BoostInv

\* The last step of on_tick/2.
LEMMA OnTickEndBoost ==
    ASSUME TypeInv, BoostInv, OnTickEnd
    PROVE  BoostInv'
<1> DEFINE cur == compute_current_slot(store.time)
           last == compute_current_slot(tick.to)
<1>1. /\ tick.next \in Int /\ tick.to \in Nat /\ store.time \in Int /\ GenesisTime \in Nat
      /\ cur \in Int /\ last \in Int /\ SecondsPerSlot \in Nat \ {0}
  BY SlotType, ForkChoiceAssumption DEF TypeInv, TickOK, StoreOK
<1>2. /\ Ticking /\ tick.next > last * SecondsPerSlot /\ ~Ticking'
      /\ store' = on_tick_per_slot(store, tick.to)
  BY DEF OnTickEnd, LastSlotStart, Ticking
<1>3. GenesisTime < tick.to
  BY <1>2 DEF BoostInv
<1>4. store'.time = tick.to
  BY <1>1, <1>2, TickPerSlotBoost DEF TypeInv
<1>5. last > cur => store'.boost = ZeroRoot
  BY <1>1, <1>2, TickPerSlotBoost DEF TypeInv
<1>6. ASSUME last <= cur, store'.boost # ZeroRoot PROVE SlotOf[store'.boost] = last
  <2>1. store'.boost = store.boost
    BY <1>1, <1>2, <1>6, TickPerSlotBoost DEF TypeInv
  <2>2. ~(cur < last)
    <3> HIDE DEF cur, last
    <3> QED BY <1>1, <1>6
  <2>3. SlotOf[store.boost] = cur /\ GenesisTime <= store.time /\ store.time < tick.to
    BY <1>2, <1>6, <2>1, <2>2 DEF BoostInv, get_current_slot
  <2>4. cur <= last
    BY <1>1, <2>3, SlotsFollowTime
  <2>5. cur = last
    <3> HIDE DEF cur, last
    <3> QED BY <1>1, <1>6, <2>4
  <2> QED BY <2>1, <2>3, <2>5
<1>7. store'.boost # ZeroRoot => SlotOf[store'.boost] = get_current_slot(store')
  <2>1. last > cur \/ last <= cur
    <3> HIDE DEF cur, last
    <3> QED BY <1>1
  <2> QED BY <1>4, <1>5, <1>6, <2>1 DEF get_current_slot
<1>8. GenesisTime <= store'.time
  BY <1>1, <1>3, <1>4
<1> QED BY <1>2, <1>7, <1>8 DEF BoostInv

\* Every step keeps the invariant.
LEMMA StepBoost ==
    ASSUME TypeInv, BoostInv, [Next]_vars
    PROVE  BoostInv'
<1>1. CASE UNCHANGED vars
  BY <1>1, BoostStays DEF vars
<1>2. CASE \E r \in Root \ {Anchor} : Receive(r) \/ OnBlock(r)
  <2>1. PICK r \in Root \ {Anchor} : Receive(r) \/ OnBlock(r)
    BY <1>2
  <2>2. tick' = tick /\ ~Ticking
    BY <2>1 DEF Receive, OnBlock, OnBlockAccepted, OnBlockRefused, OnBlockRejected,
                OnBlockRaises, Idle, Ticking
  <2>3. store' = store \/ OnBlockAccepted(r)
    BY <2>1 DEF Receive, OnBlock, OnBlockRefused, OnBlockRejected, OnBlockRaises
  <2>4. /\ store'.time = store.time
        /\ store'.boost = store.boost \/ SlotOf[store'.boost] = get_current_slot(store)
    BY <2>3, OnBlockBoost
  <2> QED BY <2>2, <2>4, BoostStays
<1>3. CASE \E a \in WireAttestations : OnAttestation(a)
  <2>1. PICK a \in WireAttestations : OnAttestation(a)
    BY <1>3
  <2>2. tick' = tick /\ (store' = store \/ store' = process_attestations(store, <<a>>))
    BY <2>1 DEF OnAttestation
  <2>3. store'.time = store.time /\ store'.boost = store.boost
    BY <2>2, VotesSlashingsHeadBoost DEF TypeInv
  <2> QED BY <2>2, <2>3, BoostStays
<1>4. CASE \E vs \in WireSlashings : OnAttesterSlashing(vs)
  <2>1. PICK vs \in WireSlashings : OnAttesterSlashing(vs)
    BY <1>4
  <2>2. tick' = tick /\ store'.time = store.time /\ store'.boost = store.boost
    BY <2>1, VotesSlashingsHeadBoost DEF TypeInv, OnAttesterSlashing
  <2> QED BY <2>2, BoostStays
<1>5. CASE \E time \in TickTimes : OnTick(time)
  BY <1>5, OnTickBoost
<1>6. CASE OnTickSlot
  BY <1>6, OnTickSlotBoost
<1>7. CASE OnTickEnd
  BY <1>7, OnTickEndBoost
<1>8. CASE ClockMoves
  BY <1>8, BoostStays DEF ClockMoves
<1> QED BY <1>1, <1>2, <1>3, <1>4, <1>5, <1>6, <1>7, <1>8 DEF Next

\* The node starts with no boost, at or after genesis.
LEMMA InitBoost == Init => BoostInv
<1> SUFFICES ASSUME Init PROVE BoostInv
  OBVIOUS
<1>1. GenesisTime \in Nat /\ SecondsPerSlot \in Nat /\ SlotOf[Anchor] \in Nat
  BY ForkChoiceAssumption, TreeAssumption
<1>2. /\ store.time = GenesisTime + SecondsPerSlot * SlotOf[Anchor]
      /\ store.boost = ZeroRoot /\ ~Ticking
  BY DEF Init, Ticking
<1>3. GenesisTime <= store.time
  BY <1>1, <1>2
<1> QED BY <1>2, <1>3 DEF BoostInv

\* Between ticks a boosted block is one of the current slot, whatever the
\* genesis time: on_tick/2 steps through times that are not since genesis, and
\* may go back in time, but it resets the boost before it ends.
THEOREM BoostCurrent == Spec => []BoostIsCurrent
<1>1. TypeInv /\ BoostInv /\ [Next]_vars => TypeInv' /\ BoostInv'
  BY StepAdvances, StepBoost
<1>2. Spec => [](TypeInv /\ BoostInv)
  BY InitType, InitBoost, <1>1, PTL DEF Spec
<1>3. BoostInv => BoostIsCurrent
  BY DEF BoostInv, Ticking, BoostIsCurrent
<1> QED BY <1>2, <1>3, PTL
-----------------------------------------------------------------------------
(* What the handlers leave in the store.                                    *)

\* compute_pulled_up_tip/4
LEMMA PulledUpTipFields ==
    ASSUME NEW s, StoreOK(s), NEW r \in Root
    PROVE  LET t == compute_pulled_up_tip(s, r)
               past == compute_epoch_at_slot(SlotOf[r]) < get_current_epoch(s)
           IN  /\ t.justified = IF past THEN Later(UJust[r], s.justified) ELSE s.justified
               /\ t.finalized = IF past THEN Later(UFin[r], s.finalized) ELSE s.finalized
               /\ t.ujustified = Later(UJust[r], s.ujustified)
               /\ t.ufinalized = Later(UFin[r], s.ufinalized)
               /\ t.tree = s.tree /\ t.time = s.time /\ t.messages = s.messages
<1> DEFINE u == [x \in DOMAIN s.unrealized \cup {r} |-> IF x = r THEN UJust[r] ELSE s.unrealized[x]]
           seen == [s EXCEPT !.unrealized = u]
           new == update_unrealized_checkpoints(seen, UJust[r], UFin[r])
           up == update_checkpoints(new, UJust[r], UFin[r])
           past == compute_epoch_at_slot(SlotOf[r]) < get_current_epoch(s)
<1>1. UJust[r] \in Checkpoints /\ UFin[r] \in Checkpoints
  BY ForkChoiceAssumption
<1>2. compute_pulled_up_tip(s, r) = IF past THEN up ELSE new
  BY DEF compute_pulled_up_tip
<1>3. /\ StoreOK(seen) /\ seen.justified = s.justified /\ seen.finalized = s.finalized
      /\ seen.ujustified = s.ujustified /\ seen.ufinalized = s.ufinalized
      /\ seen.tree = s.tree /\ seen.time = s.time /\ seen.messages = s.messages
  <2> HIDE DEF u
  <2> QED BY DEF StoreOK
<1> HIDE DEF seen
<1>4. StoreOK(new)
  BY <1>1, <1>3, UpdateUnrealized
<1>5. /\ new.justified = s.justified /\ new.finalized = s.finalized
      /\ new.ujustified = Later(UJust[r], s.ujustified) /\ new.ufinalized = Later(UFin[r], s.ufinalized)
      /\ new.tree = s.tree /\ new.time = s.time /\ new.messages = s.messages
  BY <1>3 DEF StoreOK, update_unrealized_checkpoints
<1> HIDE DEF new
<1>6. /\ up.justified = Later(UJust[r], s.justified) /\ up.finalized = Later(UFin[r], s.finalized)
      /\ up.ujustified = new.ujustified /\ up.ufinalized = new.ufinalized
      /\ up.tree = s.tree /\ up.time = s.time /\ up.messages = s.messages
  BY <1>4, <1>5 DEF StoreOK, update_checkpoints
<1> HIDE DEF up, past
<1> QED BY <1>2, <1>5, <1>6 DEF past

\* compute_post_state/3
LEMMA PostStateFields ==
    ASSUME NEW s, StoreOK(s), NEW r \in Root
    PROVE  LET t == compute_post_state(s, r)
               j == Later(JustifiedIn[r], s.justified)
               f == Later(FinalizedIn[r], s.finalized)
               past == compute_epoch_at_slot(SlotOf[r]) < get_current_epoch(s)
           IN  /\ t.justified = IF past THEN Later(UJust[r], j) ELSE j
               /\ t.finalized = IF past THEN Later(UFin[r], f) ELSE f
               /\ t.ujustified = Later(UJust[r], s.ujustified)
               /\ t.ufinalized = Later(UFin[r], s.ufinalized)
               /\ t.tree = update_tree(s, r).tree /\ t.time = s.time /\ t.messages = s.messages
<1> DEFINE added == update_tree(s, r)
           boosted == IF Timely(s, r) THEN [added EXCEPT !.boost = r] ELSE added
           up == update_checkpoints(boosted, JustifiedIn[r], FinalizedIn[r])
<1>1. JustifiedIn[r] \in Checkpoints /\ FinalizedIn[r] \in Checkpoints
  BY ForkChoiceAssumption
<1>2. \/ added = s
      \/ added = [s EXCEPT !.tree = AddBlock(UpdateRoot(s.tree, s.finalized.root), r, ParentOf[r])]
  BY DEF update_tree
<1>3. /\ StoreOK(added)
      /\ added.justified = s.justified /\ added.finalized = s.finalized
      /\ added.ujustified = s.ujustified /\ added.ufinalized = s.ufinalized
      /\ added.time = s.time /\ added.messages = s.messages
  BY <1>2 DEF StoreOK
<1>8. compute_post_state(s, r) = compute_pulled_up_tip(up, r)
  BY DEF compute_post_state
<1>9. added = update_tree(s, r)
  OBVIOUS
<1> HIDE DEF added
<1>4. /\ StoreOK(boosted)
      /\ boosted.justified = s.justified /\ boosted.finalized = s.finalized
      /\ boosted.ujustified = s.ujustified /\ boosted.ufinalized = s.ufinalized
      /\ boosted.time = s.time /\ boosted.messages = s.messages /\ boosted.tree = added.tree
  BY <1>3 DEF StoreOK
<1> HIDE DEF boosted
<1>6. StoreOK(up)
  BY <1>1, <1>4, UpdateCheckpoints
<1>7. /\ up.justified = Later(JustifiedIn[r], s.justified)
      /\ up.finalized = Later(FinalizedIn[r], s.finalized)
      /\ up.ujustified = s.ujustified /\ up.ufinalized = s.ufinalized
      /\ up.tree = added.tree /\ up.time = s.time /\ up.messages = s.messages
  BY <1>4 DEF StoreOK, update_checkpoints
<1> HIDE DEF up
<1>10. get_current_epoch(up) = get_current_epoch(s)
  BY <1>7 DEF get_current_epoch, get_current_slot
<1> QED BY <1>6, <1>7, <1>8, <1>9, <1>10, PulledUpTipFields

\* Votes, slashings and the head change one field each.
LEMMA OneField ==
    ASSUME NEW s, StoreOK(s), NEW atts, NEW vs
    PROVE  /\ \E m : process_attestations(s, atts) = [s EXCEPT !.messages = m]
           /\ on_attester_slashing(s, vs) = [s EXCEPT !.equivocating = s.equivocating \cup vs]
           /\ recompute_head(s) = [s EXCEPT !.head = get_head(s)]
  BY DEF process_attestations, on_attester_slashing, recompute_head, StoreOK

\* Two stores have the same checkpoints, tree and time.
SamePlace(s, t) ==
    /\ t.justified = s.justified /\ t.finalized = s.finalized
    /\ t.ujustified = s.ujustified /\ t.ufinalized = s.ufinalized
    /\ t.tree = s.tree /\ t.time = s.time

\* Votes, slashings and the new head leave them alone.
LEMMA OneFieldKeepsPlace ==
    ASSUME NEW s, StoreOK(s), NEW atts, NEW vs
    PROVE  /\ SamePlace(s, process_attestations(s, atts))
           /\ SamePlace(s, on_attester_slashing(s, vs))
           /\ SamePlace(s, recompute_head(s))
<1>1. PICK m : process_attestations(s, atts) = [s EXCEPT !.messages = m]
  BY OneField
<1>2. SamePlace(s, process_attestations(s, atts))
  BY <1>1 DEF StoreOK, SamePlace
<1>3. PICK e : on_attester_slashing(s, vs) = [s EXCEPT !.equivocating = e]
  BY OneField
<1>4. SamePlace(s, on_attester_slashing(s, vs))
  BY <1>3 DEF StoreOK, SamePlace
<1>5. PICK h : recompute_head(s) = [s EXCEPT !.head = h]
  BY OneField
<1>6. SamePlace(s, recompute_head(s))
  BY <1>5 DEF StoreOK, SamePlace
<1> QED BY <1>2, <1>4, <1>6

\* ForkChoice.on_block/2, when it accepts a block.
LEMMA OnBlockPlace ==
    ASSUME TypeInv, NEW r \in Root, OnBlockAccepted(r)
    PROVE  SamePlace(compute_post_state(store, r), store')
<1> DEFINE new == compute_post_state(store, r)
           voted == process_attestations(new, AttestationsOf[r])
           slashed == on_attester_slashing(voted, SlashedBy[r])
<1>1. store' = recompute_head(slashed)
  BY DEF OnBlockAccepted
<1>2. StoreOK(new)
  BY PostState DEF TypeInv
<1> HIDE DEF new
<1>3. StoreOK(voted) /\ SamePlace(new, voted)
  BY <1>2, VotesSlashingsHead, OneFieldKeepsPlace
<1> HIDE DEF voted
<1>4. StoreOK(slashed) /\ SamePlace(voted, slashed)
  BY <1>3, VotesSlashingsHead, OneFieldKeepsPlace
<1> HIDE DEF slashed
<1>5. SamePlace(slashed, store')
  BY <1>1, <1>4, OneFieldKeepsPlace
<1> QED BY <1>3, <1>4, <1>5 DEF SamePlace, new

\* The slot after which on_tick_per_slot/2 pulls up.
PullsUp(s, time) ==
    /\ compute_current_slot(time) > get_current_slot(s)
    /\ compute_slots_since_epoch_start(compute_current_slot(time)) = 0

\* on_tick_per_slot/2
LEMMA TickPerSlotFields ==
    ASSUME NEW s, StoreOK(s), NEW time \in Int
    PROVE  LET t == on_tick_per_slot(s, time)
           IN  /\ t.justified = IF PullsUp(s, time) THEN Later(s.ujustified, s.justified) ELSE s.justified
               /\ t.finalized = IF PullsUp(s, time) THEN Later(s.ufinalized, s.finalized) ELSE s.finalized
               /\ t.ujustified = s.ujustified /\ t.ufinalized = s.ufinalized
               /\ t.tree = s.tree /\ t.time = time /\ t.messages = s.messages /\ t.head = s.head
<1> DEFINE new == [s EXCEPT !.time = time]
           reset == [new EXCEPT !.boost = ZeroRoot]
           up == update_checkpoints(reset, s.ujustified, s.ufinalized)
<1>1. /\ StoreOK(new) /\ new.justified = s.justified /\ new.finalized = s.finalized
      /\ new.ujustified = s.ujustified /\ new.ufinalized = s.ufinalized
      /\ new.tree = s.tree /\ new.time = time /\ new.messages = s.messages /\ new.head = s.head
  BY DEF StoreOK
<1>2. on_tick_per_slot(s, time) =
        IF get_current_slot(new) <= get_current_slot(s) THEN new
        ELSE IF compute_slots_since_epoch_start(get_current_slot(new)) = 0 THEN up ELSE reset
  BY DEF on_tick_per_slot
<1> HIDE DEF new
<1>3. /\ StoreOK(reset) /\ reset.justified = s.justified /\ reset.finalized = s.finalized
      /\ reset.ujustified = s.ujustified /\ reset.ufinalized = s.ufinalized
      /\ reset.tree = s.tree /\ reset.time = time /\ reset.messages = s.messages /\ reset.head = s.head
  BY <1>1 DEF StoreOK
<1> HIDE DEF reset
<1>4. /\ up.justified = Later(s.ujustified, s.justified) /\ up.finalized = Later(s.ufinalized, s.finalized)
      /\ up.ujustified = s.ujustified /\ up.ufinalized = s.ufinalized
      /\ up.tree = s.tree /\ up.time = time /\ up.messages = s.messages /\ up.head = s.head
  BY <1>3 DEF StoreOK, update_checkpoints
<1> HIDE DEF up
<1>5. /\ get_current_slot(new) = compute_current_slot(time)
      /\ get_current_slot(s) \in Int /\ compute_current_slot(time) \in Int
  BY <1>1, SlotType DEF get_current_slot, StoreOK
<1>6. PullsUp(s, time) <=> /\ ~(get_current_slot(new) <= get_current_slot(s))
                           /\ compute_slots_since_epoch_start(get_current_slot(new)) = 0
  BY <1>5 DEF PullsUp
<1> QED BY <1>1, <1>2, <1>3, <1>4, <1>6
-----------------------------------------------------------------------------
(* What a step does to the blocks the node knows.                           *)

BlocksOK == blocks \in [Root -> BlockStatus] /\ blocks[Anchor] = "accepted"

\* The blocks the node has, before and after it has accepted them.
Held(r) == blocks[r] \in {"stored", "accepted"}

\* A block is accepted, on top of one that was.
Accepts(r) ==
    /\ OnBlockAccepted(r) /\ ~Ticking
    /\ blocks[r] = "stored" /\ blocks[ParentOf[r]] = "accepted"
    /\ Accepted' = Accepted \cup {r}

\* Nothing but blocks, votes and flags changes; a block that the node did not
\* hold is not of a future slot, or came early.
Keeps ==
    /\ SamePlace(store, store') /\ UNCHANGED <<tick, late>>
    /\ Accepted' = Accepted
    /\ \A r \in Root : Held(r)' => Held(r) \/ early' \/ (~Ticking /\ SlotOf[r] <= get_current_slot(store))

\* The steps of the specification are of these kinds.
LEMMA StepKinds ==
    ASSUME TypeInv, BlocksOK, [Next]_vars
    PROVE  /\ BlocksOK'
           /\ early => early'
           /\ \/ \E r \in Root \ {Anchor} : Accepts(r) /\ UNCHANGED <<tick, early>>
              \/ Keeps
              \/ UNCHANGED <<blocks, early>> /\ \E time \in TickTimes : OnTick(time)
              \/ UNCHANGED <<blocks, early>> /\ (OnTickSlot \/ OnTickEnd)
<1>t. BlocksOK /\ StoreOK(store) /\ SamePlace(store, store)
  BY DEF TypeInv, SamePlace
<1>1. CASE UNCHANGED vars \/ ClockMoves
  BY <1>1, <1>t DEF vars, ClockMoves, BlocksOK, Keeps, Held, Accepted
<1>2. CASE \E r \in Root \ {Anchor} : Receive(r)
  <2>1. PICK r \in Root \ {Anchor} : Receive(r)
    BY <1>2
  <2>2. ParentOf[r] \in Root
    BY TreeAssumption
  <2>3. /\ ~Ticking /\ UNCHANGED <<store, tick, late>> /\ blocks[r] \in {"none", "download"}
        /\ early' = (early \/ SlotOf[r] > get_current_slot(store))
        /\ \A q \in Root : \/ blocks'[q] = blocks[q]
                           \/ q = r /\ blocks'[q] = "stored"
                           \/ blocks[q] = "none" /\ blocks'[q] = "download"
        /\ DOMAIN blocks' = DOMAIN blocks
    <3>1. blocks' = [blocks EXCEPT ![r] = "stored",
                                   ![ParentOf[r]] = IF @ = "none" THEN "download" ELSE @]
      BY <2>1 DEF Receive
    <3>2. ParentOf[r] # r
      BY TreeAssumption
    <3>3. \A q \in Root : blocks'[q] = IF q = r THEN "stored"
                          ELSE IF q = ParentOf[r] /\ blocks[q] = "none" THEN "download" ELSE blocks[q]
      BY <1>t, <2>2, <3>1, <3>2 DEF BlocksOK
    <3> QED BY <2>1, <3>1, <3>3 DEF Receive, Idle, Ticking
  <2>4. BlocksOK' /\ Accepted' = Accepted
    BY <1>t, <2>1, <2>2, <2>3, TreeAssumption DEF BlocksOK, BlockStatus, Accepted, Receive
  <2>5. SlotOf[r] \in Nat /\ get_current_slot(store) \in Int
    BY <1>t, SlotType, TreeAssumption DEF get_current_slot, StoreOK
  <2>e. /\ early => early'
        /\ SlotOf[r] > get_current_slot(store) => early'
    <3>1. early' = (early \/ SlotOf[r] > get_current_slot(store))
      BY <2>3
    <3> QED BY <3>1, Zenon
  <2>6. early' \/ SlotOf[r] <= get_current_slot(store)
    BY <2>5, <2>e
  <2>7. Keeps
    BY <1>t, <2>3, <2>4, <2>6 DEF Keeps, Held
  <2> QED BY <2>4, <2>7, <2>e
<1>3. CASE \E r \in Root \ {Anchor} : OnBlock(r)
  <2>1. PICK r \in Root \ {Anchor} : OnBlock(r)
    BY <1>3
  <2>2. ~Ticking /\ blocks[r] = "stored" /\ blocks[ParentOf[r]] = "accepted" /\ UNCHANGED <<tick, early, late>>
    BY <2>1 DEF OnBlock, Idle, Ticking, OnBlockAccepted, OnBlockRefused, OnBlockRejected, OnBlockRaises
  <2>3. CASE OnBlockAccepted(r)
    <3>1. blocks' = [blocks EXCEPT ![r] = "accepted"]
      BY <2>3 DEF OnBlockAccepted
    <3>2. BlocksOK' /\ Accepted' = Accepted \cup {r}
      BY <1>t, <3>1 DEF BlocksOK, BlockStatus, Accepted
    <3> QED BY <2>2, <2>3, <3>2 DEF Accepts
  <2>4. CASE OnBlockRefused(r) \/ OnBlockRejected(r) \/ OnBlockRaises(r)
    <3>1. /\ UNCHANGED store
          /\ \/ \E st \in {"refused", "invalid"} : blocks' = [blocks EXCEPT ![r] = st]
             \/ blocks' = blocks
      BY <2>4 DEF OnBlockRefused, OnBlockRejected, OnBlockRaises
    <3>2. /\ BlocksOK'
          /\ \A q \in Root : \/ blocks'[q] = blocks[q]
                             \/ blocks[q] = "stored" /\ blocks'[q] \in {"refused", "invalid"}
      <4>1. CASE blocks' = blocks
        BY <1>t, <4>1 DEF BlocksOK
      <4>2. ASSUME NEW st \in {"refused", "invalid"}, blocks' = [blocks EXCEPT ![r] = st]
            PROVE  /\ BlocksOK'
                   /\ \A q \in Root : \/ blocks'[q] = blocks[q]
                                      \/ blocks[q] = "stored" /\ blocks'[q] \in {"refused", "invalid"}
        <5>1. blocks' \in [Root -> BlockStatus] /\ blocks'[Anchor] = blocks[Anchor]
          BY <1>t, <4>2, TreeAssumption DEF BlocksOK, BlockStatus
        <5>2. \A q \in Root : blocks'[q] = IF q = r THEN st ELSE blocks[q]
          BY <1>t, <4>2 DEF BlocksOK
        <5> QED BY <1>t, <2>2, <5>1, <5>2 DEF BlocksOK
      <4> QED BY <3>1, <4>1, <4>2
    <3>3. Accepted' = Accepted
      BY <3>2 DEF Accepted
    <3> QED BY <1>t, <2>2, <3>1, <3>2, <3>3 DEF Keeps, Held
  <2> QED BY <2>1, <2>3, <2>4 DEF OnBlock
<1>4. CASE \/ \E a \in WireAttestations : OnAttestation(a)
           \/ \E vs \in WireSlashings : OnAttesterSlashing(vs)
  <2>1. UNCHANGED <<blocks, tick, early, late>> /\ SamePlace(store, store')
    BY <1>4, <1>t, OneFieldKeepsPlace DEF OnAttestation, OnAttesterSlashing
  <2> QED BY <1>t, <2>1 DEF Keeps, BlocksOK, Held, Accepted
<1>5. CASE \E time \in TickTimes : OnTick(time)
  BY <1>5, <1>t DEF OnTick, BlocksOK
<1>6. CASE OnTickSlot \/ OnTickEnd
  BY <1>6, <1>t DEF OnTickSlot, OnTickEnd, BlocksOK
<1> QED BY <1>1, <1>2, <1>3, <1>4, <1>5, <1>6 DEF Next

\* The anchor is accepted at the start, and nothing else.
LEMMA InitBlocks == Init => BlocksOK /\ Accepted = {Anchor}
<1> SUFFICES ASSUME Init PROVE BlocksOK /\ Accepted = {Anchor}
  OBVIOUS
<1> QED BY TreeAssumption DEF Init, BlocksOK, BlockStatus, Accepted
-----------------------------------------------------------------------------
(* Justification and finalization are realized when their epoch is over.    *)

\* The slot that on_tick/2 takes the store to, or the one it is in.
TargetSlot == IF Ticking THEN compute_current_slot(tick.to) ELSE get_current_slot(store)
TargetEpoch == compute_epoch_at_slot(TargetSlot)

\* Since genesis, slots are natural numbers.
LEMMA SinceGenesis ==
    ASSUME NEW time \in Int, GenesisTime <= time
    PROVE  compute_current_slot(time) \in Nat
<1>1. time - GenesisTime \in Nat
  BY ForkChoiceAssumption
<1> QED BY <1>1, DivBounds, ForkChoiceAssumption DEF compute_current_slot, TruncDiv

\* The loop of on_tick/2 counts its times from 0, and is never ahead of the
\* slot that the tick is for.
LEMMA SlotAtMost ==
    ASSUME NEW time \in Int, NEW slot \in Nat, time <= slot * SecondsPerSlot
    PROVE  compute_current_slot(time) <= slot
<1> DEFINE x == time - GenesisTime
<1>n. SecondsPerSlot \in Nat \ {0} /\ GenesisTime \in Nat /\ slot * SecondsPerSlot \in Nat
  BY ForkChoiceAssumption
<1>1. x \in Int /\ x <= slot * SecondsPerSlot
  BY <1>n
<1>2. compute_current_slot(time) = TruncDiv(x, SecondsPerSlot)
  BY DEF compute_current_slot
<1> HIDE DEF x
<1>3. CASE x >= 0
  <2> DEFINE q == x \div SecondsPerSlot
  <2>1. q \in Nat /\ SecondsPerSlot * q <= x
    BY <1>1, <1>3, <1>n, DivBounds
  <2>2. compute_current_slot(time) = q
    BY <1>2, <1>3 DEF TruncDiv
  <2> HIDE DEF q
  <2>3. q * SecondsPerSlot <= slot * SecondsPerSlot
    <3>1. q * SecondsPerSlot = SecondsPerSlot * q /\ SecondsPerSlot * q \in Nat
      BY <1>n, <2>1
    <3> QED BY <1>1, <1>n, <2>1, <3>1
  <2> QED BY <1>n, <2>1, <2>2, <2>3, TimesKeepsOrder
<1>4. CASE ~(x >= 0)
  <2> DEFINE q == (-x) \div SecondsPerSlot
  <2>1. q \in Nat
    BY <1>1, <1>4, <1>n, DivBounds
  <2>2. compute_current_slot(time) = -q
    BY <1>2, <1>4 DEF TruncDiv
  <2> HIDE DEF q
  <2> QED BY <2>1, <2>2
<1> QED BY <1>3, <1>4

\* Dividing undoes multiplying.
LEMMA DivOfProduct == \A x \in Nat, n \in Nat \ {0} : (x * n) \div n = x
<1> SUFFICES ASSUME NEW x \in Nat, NEW n \in Nat \ {0} PROVE (x * n) \div n = x
  OBVIOUS
<1> DEFINE q == (x * n) \div n
<1>1. x * n \in Nat /\ q \in Nat /\ n * q <= x * n /\ x * n < n * q + n
  BY DivBounds
<1> HIDE DEF q
<1>2. q * n <= x * n /\ x * n <= q * n + n /\ n * q + n = (q + 1) * n /\ q * n = n * q
  BY <1>1
<1>3. q <= x
  <2>1. q \in Int /\ x \in Int /\ q * n <= x * n
    BY <1>1, <1>2
  <2> QED BY <2>1, TimesKeepsOrder
<1>4. ~(q + 1 <= x)
  <2> SUFFICES ASSUME q + 1 <= x PROVE FALSE
    OBVIOUS
  <2>1. (q + 1) * n <= x * n
    BY <1>1
  <2> QED BY <1>1, <1>2, <2>1
<1> QED BY <1>1, <1>3, <1>4 DEF q

\* From one slot to the next, the epoch stays unless the next slot starts one,
\* and then it is later than that of every slot before.
LEMMA NextSlotEpoch ==
    ASSUME NEW a \in Nat
    PROVE  IF compute_slots_since_epoch_start(a + 1) = 0
           THEN \A x \in Nat : x <= a => compute_epoch_at_slot(x) < compute_epoch_at_slot(a + 1)
           ELSE compute_epoch_at_slot(a + 1) = compute_epoch_at_slot(a)
<1> DEFINE n == SlotsPerEpoch
           q == (a + 1) \div n
           p == a \div n
<1>n. n \in Nat \ {0} /\ a + 1 \in Nat
  BY TreeAssumption
<1>1. /\ q \in Nat /\ n * q <= a + 1 /\ a + 1 < n * q + n
      /\ p \in Nat /\ n * p <= a /\ a < n * p + n /\ p <= q
  BY <1>n, DivBounds, DivKeepsOrder
<1>2. compute_slots_since_epoch_start(a + 1) = (a + 1) - q * n
  BY <1>n DEF compute_slots_since_epoch_start, TruncDiv
<1>3. compute_epoch_at_slot(a + 1) = q /\ compute_epoch_at_slot(a) = p
  BY DEF compute_epoch_at_slot
<1> HIDE DEF q, p
<1>4. ASSUME a + 1 = q * n, NEW x \in Nat, x <= a PROVE compute_epoch_at_slot(x) < q
  <2> DEFINE y == x \div n
  <2>1. y \in Nat /\ n * y <= x
    BY <1>n, DivBounds
  <2>2. compute_epoch_at_slot(x) = y
    BY DEF compute_epoch_at_slot
  <2> HIDE DEF y, n
  <2>3. ~(q <= y)
    <3> SUFFICES ASSUME q <= y PROVE FALSE
      OBVIOUS
    <3>1. n * q <= n * y /\ n * q = q * n /\ n * y \in Nat /\ n * q \in Nat
      BY <1>n, <1>1, <2>1
    <3> QED BY <1>4, <2>1, <3>1
  <2> QED BY <1>1, <2>1, <2>2, <2>3
<1>5. ASSUME a + 1 # q * n PROVE q = p
  <2> HIDE DEF n
  <2>1. n * q <= a /\ n * q = q * n /\ n * q \in Nat /\ n * p \in Nat /\ n * (p + 1) = n * p + n
    BY <1>1, <1>5, <1>n
  <2>2. ~(p + 1 <= q)
    <3> SUFFICES ASSUME p + 1 <= q PROVE FALSE
      OBVIOUS
    <3>1. n * (p + 1) <= n * q
      BY <1>1, <1>n
    <3> QED BY <1>1, <1>n, <2>1, <3>1
  <2> QED BY <1>1, <2>2
<1>6. (a + 1) - q * n = 0 <=> a + 1 = q * n
  <2>1. q * n \in Nat
    BY <1>1, <1>n
  <2> QED BY <1>n, <2>1
<1> QED BY <1>2, <1>3, <1>4, <1>5, <1>6

\* Epochs follow slots.
LEMMA EpochsFollowSlots ==
    \A x, y \in Nat : /\ compute_epoch_at_slot(x) \in Nat
                      /\ x <= y => compute_epoch_at_slot(x) <= compute_epoch_at_slot(y)
  BY TreeAssumption, DivBounds, DivKeepsOrder DEF compute_epoch_at_slot

\* The later of two checkpoints is later than both, and one of them.
LEMMA LaterIs ==
    ASSUME NEW new \in Checkpoints, NEW old \in Checkpoints
    PROVE  /\ Later(new, old) \in Checkpoints
           /\ new.epoch <= Later(new, old).epoch /\ old.epoch <= Later(new, old).epoch
           /\ Later(new, old) = old \/ (Later(new, old) = new /\ new.epoch > old.epoch)
  BY DEF Later, Checkpoints

\* The types of the checkpoints that are compared.
LEMMA EpochTypes ==
    ASSUME TypeInv
    PROVE  /\ {store.justified, store.finalized, store.ujustified, store.ufinalized} \subseteq Checkpoints
           /\ \A r \in Root : {UJust[r], UFin[r], JustifiedIn[r], FinalizedIn[r]} \subseteq Checkpoints
           /\ \A c \in Checkpoints : c.epoch \in Nat
<1>1. {store.justified, store.finalized, store.ujustified, store.ufinalized} \subseteq Checkpoints
  BY DEF TypeInv, StoreOK
<1>2. {JustifiedIn, FinalizedIn, UJust, UFin} \subseteq [Root -> Checkpoints]
  BY ForkChoiceAssumption
<1>3. \A r \in Root : {UJust[r], UFin[r], JustifiedIn[r], FinalizedIn[r]} \subseteq Checkpoints
  BY <1>2
<1>4. \A c \in Checkpoints : c.epoch \in Nat
  BY DEF Checkpoints
<1> QED BY <1>1, <1>3, <1>4

\* The call of on_tick/2.
LEMMA OnTickCall ==
    ASSUME TypeInv, BoostInv, NEW time \in TickTimes, OnTick(time)
    PROVE  LET cur == get_current_slot(store)
               slot == compute_current_slot(time)
           IN  /\ ~Ticking /\ Ticking' /\ UNCHANGED store
               /\ tick'.to = time /\ tick'.next = (cur + 1) * SecondsPerSlot
               /\ late' = JumpedOver(cur, slot)
               /\ TargetSlot = cur /\ TargetSlot' = slot
               /\ cur \in Nat /\ slot \in Nat /\ cur <= slot
<1>1. /\ tick = NoTick /\ store' = store /\ store.time < time
      /\ tick' = [to |-> time, next |-> (get_current_slot(store) + 1) * SecondsPerSlot]
      /\ late' = JumpedOver(get_current_slot(store), compute_current_slot(time))
  BY ForkChoiceAssumption DEF OnTick, Idle, TypeInv, StoreOK
<1>2. tick'.to = time /\ tick'.next = (get_current_slot(store) + 1) * SecondsPerSlot
  BY <1>1
<1>3. time \in Nat /\ GenesisTime \in Nat /\ store.time \in Int /\ GenesisTime <= store.time
  BY <1>1, ForkChoiceAssumption DEF TypeInv, StoreOK, BoostInv, Ticking
<1>4. GenesisTime < time /\ GenesisTime <= time /\ store.time <= time /\ time # 0
  BY <1>1, <1>3
<1>5. ~Ticking /\ Ticking'
  BY <1>1, <1>2, <1>4 DEF Ticking, NoTick
<1>6. TargetSlot = get_current_slot(store) /\ TargetSlot' = compute_current_slot(time)
  BY <1>2, <1>5 DEF TargetSlot
<1>7. get_current_slot(store) \in Nat /\ compute_current_slot(time) \in Nat
  BY <1>3, <1>4, SinceGenesis DEF get_current_slot
<1>8. get_current_slot(store) <= compute_current_slot(time)
  BY <1>3, <1>4, SlotsFollowTime DEF get_current_slot
<1> QED BY <1>1, <1>2, <1>5, <1>6, <1>7, <1>8

\* The time that a step of on_tick/2 takes the store to.
StepTime == IF tick.next <= LastSlotStart THEN tick.next ELSE tick.to

\* A step of on_tick/2: the loop does not go past the slot of the tick, the
\* last step goes to it.
LEMMA OnTickStep ==
    ASSUME TypeInv, BoostInv, OnTickSlot \/ OnTickEnd
    PROVE  /\ Ticking /\ StepTime \in Int /\ store' = on_tick_per_slot(store, StepTime)
           /\ UNCHANGED <<TargetSlot, late>>
           /\ TargetSlot \in Nat /\ get_current_slot(store) \in Int
           /\ get_current_slot(store') = compute_current_slot(StepTime)
           /\ compute_current_slot(StepTime) \in Int /\ compute_current_slot(StepTime) <= TargetSlot
           /\ tick.next \in Int /\ SecondsPerSlot \in Nat \ {0}
           /\ \/ /\ Ticking' /\ tick'.next = tick.next + SecondsPerSlot
                 /\ tick.next <= TargetSlot * SecondsPerSlot
              \/ ~Ticking' /\ compute_current_slot(StepTime) = TargetSlot
<1> DEFINE slot == compute_current_slot(tick.to)
<1>1. /\ tick.next \in Int /\ tick.to \in Nat /\ store.time \in Int /\ GenesisTime \in Nat
      /\ SecondsPerSlot \in Nat \ {0} /\ StoreOK(store)
  BY ForkChoiceAssumption DEF TypeInv, TickOK, StoreOK
<1>2. /\ Ticking /\ GenesisTime < tick.to /\ GenesisTime <= tick.to /\ tick.to # 0
      /\ TargetSlot = slot /\ UNCHANGED late
  <2>1. Ticking /\ UNCHANGED late
    BY DEF OnTickSlot, OnTickEnd, Ticking
  <2>2. GenesisTime < tick.to
    BY <2>1 DEF BoostInv
  <2> QED BY <1>1, <2>1, <2>2 DEF TargetSlot
<1>3. slot \in Nat /\ get_current_slot(store) \in Int
  BY <1>1, <1>2, SinceGenesis, SlotType DEF get_current_slot
<1>4. LastSlotStart = slot * SecondsPerSlot
  BY DEF LastSlotStart
<1>5. CASE OnTickSlot
  <2>1. /\ tick.next <= slot * SecondsPerSlot /\ store' = on_tick_per_slot(store, tick.next)
        /\ tick' = [tick EXCEPT !.next = @ + SecondsPerSlot]
    BY <1>4, <1>5 DEF OnTickSlot
  <2>2. StepTime = tick.next
    BY <1>4, <2>1 DEF StepTime
  <2>3. tick'.to = tick.to /\ tick'.next = tick.next + SecondsPerSlot
    BY <2>1 DEF TypeInv, TickOK
  <2>4. Ticking'
    BY <1>2, <2>3 DEF Ticking, NoTick
  <2>5. TargetSlot' = TargetSlot
    BY <1>2, <2>3, <2>4 DEF TargetSlot
  <2>6. store'.time = tick.next
    BY <1>1, <2>1, TickPerSlotFields
  <2>7. compute_current_slot(tick.next) <= slot /\ compute_current_slot(tick.next) \in Int
    <3> HIDE DEF slot
    <3> QED BY <1>1, <1>3, <2>1, SlotAtMost, SlotType
  <2> QED BY <1>1, <1>2, <1>3, <2>1, <2>2, <2>3, <2>4, <2>5, <2>6, <2>7 DEF get_current_slot
<1>6. CASE OnTickEnd
  <2>1. tick.next > slot * SecondsPerSlot /\ store' = on_tick_per_slot(store, tick.to) /\ tick' = NoTick
    BY <1>4, <1>6 DEF OnTickEnd
  <2>2. StepTime = tick.to
    <3>1. slot * SecondsPerSlot \in Nat
      <4> HIDE DEF slot
      <4> QED BY <1>1, <1>3
    <3>2. ~(tick.next <= slot * SecondsPerSlot)
      <4> HIDE DEF slot
      <4> QED BY <1>1, <2>1, <3>1
    <3> QED BY <1>4, <3>2 DEF StepTime
  <2>3. store'.time = tick.to /\ ~Ticking'
    BY <1>1, <2>1, TickPerSlotFields DEF Ticking
  <2>4. TargetSlot' = TargetSlot
    BY <1>2, <2>3 DEF TargetSlot, get_current_slot
  <2>5. slot <= slot
    <3> HIDE DEF slot
    <3> QED BY <1>3
  <2> QED BY <1>1, <1>2, <1>3, <2>1, <2>2, <2>3, <2>4, <2>5 DEF get_current_slot
<1> QED BY <1>5, <1>6

\* on_tick/2 is on its way to the first slot of an epoch, and will pull up there.
Awaits ==
    /\ Ticking
    /\ compute_slots_since_epoch_start(TargetSlot) = 0
    /\ get_current_slot(store) < TargetSlot

\* What is there to be pulled up, and what is pulled up.
PulledInv ==
    /\ \A r \in Accepted :
          UJust[r].epoch <= store.ujustified.epoch /\ UFin[r].epoch <= store.ufinalized.epoch
    /\ "entry" \notin late /\ ~Awaits =>
          \A r \in Accepted : compute_epoch_at_slot(SlotOf[r]) < TargetEpoch =>
              UJust[r].epoch <= store.justified.epoch /\ UFin[r].epoch <= store.finalized.epoch

\* Every step keeps it.
LEMMA StepPulled ==
    ASSUME TypeInv, BlocksOK, BoostInv, PulledInv, [Next]_vars
    PROVE  PulledInv'
<1>t. TypeInv' /\ Accepted \subseteq Root
  BY StepAdvances DEF Accepted
<1>c. /\ {store.justified, store.finalized, store.ujustified, store.ufinalized} \subseteq Checkpoints
      /\ \A r \in Root : {UJust[r], UFin[r], JustifiedIn[r], FinalizedIn[r]} \subseteq Checkpoints
      /\ \A c \in Checkpoints : c.epoch \in Nat
  BY EpochTypes
<1>1. ASSUME NEW r \in Root \ {Anchor}, Accepts(r), UNCHANGED tick PROVE PulledInv'
  <2> DEFINE j == Later(JustifiedIn[r], store.justified)
             f == Later(FinalizedIn[r], store.finalized)
             past == compute_epoch_at_slot(SlotOf[r]) < get_current_epoch(store)
  <2>1. /\ store'.justified = IF past THEN Later(UJust[r], j) ELSE j
        /\ store'.finalized = IF past THEN Later(UFin[r], f) ELSE f
        /\ store'.ujustified = Later(UJust[r], store.ujustified)
        /\ store'.ufinalized = Later(UFin[r], store.ufinalized)
        /\ store'.time = store.time
    <3>1. SamePlace(compute_post_state(store, r), store') /\ StoreOK(store)
      BY <1>1, OnBlockPlace DEF Accepts, TypeInv
    <3> QED BY <3>1, PostStateFields DEF SamePlace
  <2>2. /\ j \in Checkpoints /\ store.justified.epoch <= j.epoch
        /\ f \in Checkpoints /\ store.finalized.epoch <= f.epoch
    BY <1>c, LaterIs
  <2> HIDE DEF j, f
  <2>3. /\ UJust[r].epoch <= store'.ujustified.epoch /\ store.ujustified.epoch <= store'.ujustified.epoch
        /\ UFin[r].epoch <= store'.ufinalized.epoch /\ store.ufinalized.epoch <= store'.ufinalized.epoch
    BY <1>c, <2>1, LaterIs
  <2>4. past => UJust[r].epoch <= store'.justified.epoch /\ UFin[r].epoch <= store'.finalized.epoch
    BY <1>c, <2>1, <2>2, LaterIs
  <2>5. store.justified.epoch <= store'.justified.epoch /\ store.finalized.epoch <= store'.finalized.epoch
    BY <1>c, <1>t, StepAdvances DEF Advances
  <2>6. /\ ~Ticking /\ ~Awaits /\ UNCHANGED late
        /\ TargetEpoch = get_current_epoch(store) /\ TargetEpoch' = TargetEpoch
    BY <1>1, <2>1 DEF Accepts, OnBlockAccepted, Awaits, TargetEpoch, TargetSlot, Ticking, get_current_epoch, get_current_slot
  <2>7. Accepted' = Accepted \cup {r}
    BY <1>1 DEF Accepts
  <2>8. {store'.justified, store'.finalized, store'.ujustified, store'.ufinalized} \subseteq Checkpoints
    BY <1>t, EpochTypes DEF TypeInv, StoreOK
  <2>9. ASSUME NEW q \in Accepted'
        PROVE  /\ UJust[q].epoch <= store'.ujustified.epoch /\ UFin[q].epoch <= store'.ufinalized.epoch
               /\ "entry" \notin late /\ compute_epoch_at_slot(SlotOf[q]) < TargetEpoch =>
                    UJust[q].epoch <= store'.justified.epoch /\ UFin[q].epoch <= store'.finalized.epoch
    <3>1. CASE q = r
      BY <2>3, <2>4, <2>6, <3>1
    <3>2. CASE q \in Accepted
      <4>1. /\ UJust[q].epoch \in Nat /\ UFin[q].epoch \in Nat
            /\ store.justified.epoch \in Nat /\ store.finalized.epoch \in Nat
            /\ store.ujustified.epoch \in Nat /\ store.ufinalized.epoch \in Nat
            /\ store'.justified.epoch \in Nat /\ store'.finalized.epoch \in Nat
            /\ store'.ujustified.epoch \in Nat /\ store'.ufinalized.epoch \in Nat
        BY <1>c, <1>t, <2>8, <3>2
      <4>2. /\ UJust[q].epoch <= store.ujustified.epoch /\ UFin[q].epoch <= store.ufinalized.epoch
            /\ "entry" \notin late /\ compute_epoch_at_slot(SlotOf[q]) < TargetEpoch =>
                  UJust[q].epoch <= store.justified.epoch /\ UFin[q].epoch <= store.finalized.epoch
        BY <2>6, <3>2 DEF PulledInv
      <4> QED BY <2>3, <2>5, <4>1, <4>2
    <3> QED BY <2>7, <3>1, <3>2
  <2> HIDE DEF past
  <2> QED BY <2>6, <2>9 DEF PulledInv
<1>2. CASE Keeps
  <2>1. SamePlace(store, store') /\ UNCHANGED <<tick, late>> /\ Accepted' = Accepted
    BY <1>2 DEF Keeps
  <2>2. UNCHANGED <<Awaits, TargetEpoch>>
    BY <2>1 DEF SamePlace, Awaits, TargetEpoch, TargetSlot, Ticking, get_current_slot
  <2> QED BY <2>1, <2>2 DEF SamePlace, PulledInv
<1>3. ASSUME UNCHANGED blocks, NEW time \in TickTimes, OnTick(time) PROVE PulledInv'
  <2> DEFINE cur == get_current_slot(store)
             slot == compute_current_slot(time)
  <2>1. /\ ~Ticking /\ Ticking' /\ UNCHANGED store /\ late' = JumpedOver(cur, slot)
        /\ TargetSlot = cur /\ TargetSlot' = slot /\ cur \in Nat /\ slot \in Nat /\ cur <= slot
    BY <1>3, OnTickCall
  <2>2. Accepted' = Accepted /\ ~Awaits
    BY <1>3, <2>1 DEF Accepted, Awaits
  <2>3. compute_epoch_at_slot(cur) \in Nat /\ compute_epoch_at_slot(slot) \in Nat
        /\ compute_epoch_at_slot(cur) <= compute_epoch_at_slot(slot)
    <3> HIDE DEF cur, slot
    <3> QED BY <2>1, EpochsFollowSlots
  <2>4. CASE compute_epoch_at_slot(slot) > compute_epoch_at_slot(cur)
    <3>1. cur < slot
      <4> HIDE DEF cur, slot
      <4>1. cur # slot
        BY <2>3, <2>4
      <4> QED BY <2>1, <4>1
    <3>2. get_current_slot(store)' < TargetSlot'
      BY <2>1, <3>1
    <3>3. "entry" \in late' \/ Awaits'
      BY <2>1, <2>4, <3>2 DEF JumpedOver, Awaits
    <3> QED BY <2>1, <2>2, <3>3 DEF PulledInv
  <2>5. CASE ~(compute_epoch_at_slot(slot) > compute_epoch_at_slot(cur))
    <3>1. compute_epoch_at_slot(slot) = compute_epoch_at_slot(cur)
      <4> HIDE DEF cur, slot
      <4> QED BY <2>3, <2>5
    <3>2. TargetEpoch' = TargetEpoch
      BY <2>1, <3>1 DEF TargetEpoch
    <3>3. "entry" \in late' <=> "entry" \in late
      BY <2>1, <2>5 DEF JumpedOver
    <3> QED BY <2>1, <2>2, <3>2, <3>3 DEF PulledInv
  <2> QED BY <2>4, <2>5
<1>4. CASE UNCHANGED blocks /\ (OnTickSlot \/ OnTickEnd)
  <2> DEFINE cur == get_current_slot(store)
             now == compute_current_slot(StepTime)
  <2>1. /\ Ticking /\ StepTime \in Int /\ store' = on_tick_per_slot(store, StepTime)
        /\ UNCHANGED <<TargetSlot, late>> /\ TargetSlot \in Nat /\ cur \in Int
        /\ get_current_slot(store') = now /\ now \in Int /\ now <= TargetSlot
        /\ Ticking' \/ now = TargetSlot
    BY <1>4, OnTickStep
  <2>2. /\ store'.justified = IF PullsUp(store, StepTime) THEN Later(store.ujustified, store.justified) ELSE store.justified
        /\ store'.finalized = IF PullsUp(store, StepTime) THEN Later(store.ufinalized, store.finalized) ELSE store.finalized
        /\ UNCHANGED <<store.ujustified, store.ufinalized>>
    BY <2>1, TickPerSlotFields DEF TypeInv
  <2>3. Accepted' = Accepted /\ TargetEpoch' = TargetEpoch
    BY <1>4, <2>1 DEF Accepted, TargetEpoch
  <2>4. CASE PullsUp(store, StepTime)
    <3>1. /\ store.ujustified.epoch <= store'.justified.epoch /\ store.ufinalized.epoch <= store'.finalized.epoch
          /\ store'.justified \in Checkpoints /\ store'.finalized \in Checkpoints
      BY <1>c, <2>2, <2>4, LaterIs
    <3>2. ASSUME NEW q \in Accepted
          PROVE  /\ UJust[q].epoch <= store.ujustified.epoch /\ UFin[q].epoch <= store.ufinalized.epoch
                 /\ UJust[q].epoch <= store'.justified.epoch /\ UFin[q].epoch <= store'.finalized.epoch
      <4>1. /\ UJust[q].epoch \in Nat /\ UFin[q].epoch \in Nat
            /\ store.ujustified.epoch \in Nat /\ store.ufinalized.epoch \in Nat
            /\ store'.justified.epoch \in Nat /\ store'.finalized.epoch \in Nat
        BY <1>c, <1>t, <3>1
      <4>2. UJust[q].epoch <= store.ujustified.epoch /\ UFin[q].epoch <= store.ufinalized.epoch
        BY DEF PulledInv
      <4> QED BY <3>1, <4>1, <4>2
    <3> QED BY <2>2, <2>3, <3>2 DEF PulledInv
  <2>5. CASE ~PullsUp(store, StepTime)
    <3>1. Awaits => Awaits'
      <4> SUFFICES ASSUME Awaits PROVE Awaits'
        OBVIOUS
      <4>1. cur < TargetSlot /\ compute_slots_since_epoch_start(TargetSlot) = 0
        BY DEF Awaits
      <4>2. now # TargetSlot
        BY <2>5, <4>1, <2>1 DEF PullsUp
      <4>3. now < TargetSlot
        <5> HIDE DEF now
        <5> QED BY <2>1, <4>2
      <4> QED BY <2>1, <4>1, <4>2, <4>3 DEF Awaits
    <3> QED BY <2>1, <2>2, <2>3, <2>5, <3>1 DEF PulledInv
  <2> QED BY <2>4, <2>5
<1> QED BY <1>1, <1>2, <1>3, <1>4, StepKinds

\* The store starts at the start of the anchor's slot.
LEMMA InitSlot ==
    ASSUME Init
    PROVE  ~Ticking /\ get_current_slot(store) = SlotOf[Anchor] /\ TargetSlot = SlotOf[Anchor]
<1>1. SlotOf[Anchor] \in Nat /\ SecondsPerSlot \in Nat \ {0} /\ GenesisTime \in Nat
  BY TreeAssumption, ForkChoiceAssumption
<1>2. store.time = GenesisTime + SecondsPerSlot * SlotOf[Anchor] /\ ~Ticking
  BY DEF Init, Ticking
<1>3. /\ SlotOf[Anchor] * SecondsPerSlot \in Nat
      /\ store.time - GenesisTime = SlotOf[Anchor] * SecondsPerSlot
  BY <1>1, <1>2
<1>4. get_current_slot(store) = (SlotOf[Anchor] * SecondsPerSlot) \div SecondsPerSlot
  BY <1>3 DEF get_current_slot, compute_current_slot, TruncDiv
<1>5. get_current_slot(store) = SlotOf[Anchor]
  BY <1>1, <1>4, DivOfProduct
<1> QED BY <1>2, <1>5 DEF TargetSlot

\* Whatever the genesis time, what blocks of earlier epochs justified and
\* finalized has been pulled up between ticks, in every epoch that a tick has
\* entered at its first slot: for every tree of blocks, however late they come,
\* and although the loop of on_tick/2 may step back in time and skip the starts
\* of epochs (Handlers.on_tick, Handlers.compute_pulled_up_tip).
THEOREM AlwaysPulledUp == Spec => []PulledUp
<1> DEFINE Inv == TypeInv /\ BlocksOK /\ BoostInv /\ PulledInv
<1>1. Init => Inv
  <2> SUFFICES ASSUME Init PROVE Inv
    OBVIOUS
  <2>1. TypeInv /\ BlocksOK /\ BoostInv /\ Accepted = {Anchor} /\ TargetSlot = SlotOf[Anchor]
    BY InitType, InitBlocks, InitBoost, InitSlot
  <2>2. /\ store.ujustified = AnchorCheckpoint /\ store.ufinalized = AnchorCheckpoint
        /\ AnchorCheckpoint.epoch = compute_epoch_at_slot(SlotOf[Anchor])
    BY DEF Init, AnchorCheckpoint, Checkpoint
  <2>3. Anchor \in Root
    BY TreeAssumption
  <2>4. /\ UFin[Anchor].epoch <= UJust[Anchor].epoch
        /\ UJust[Anchor].epoch <= AnchorCheckpoint.epoch
    BY <2>2, <2>3, CheckpointsAssumption
  <2>5. UFin[Anchor].epoch \in Nat /\ UJust[Anchor].epoch \in Nat /\ AnchorCheckpoint.epoch \in Nat
    BY <2>1, <2>3, EpochTypes, AnchorCheckpointType
  <2>6. ~(compute_epoch_at_slot(SlotOf[Anchor]) < TargetEpoch)
    BY <2>1, <2>2, <2>5 DEF TargetEpoch
  <2> QED BY <2>1, <2>2, <2>4, <2>5, <2>6 DEF PulledInv
<1>2. Inv /\ [Next]_vars => Inv'
  BY StepAdvances, StepKinds, StepBoost, StepPulled
<1>3. Inv => PulledUp
  <2> SUFFICES ASSUME Inv, "entry" \notin late, ~Ticking, NEW r \in Accepted,
                      compute_epoch_at_slot(SlotOf[r]) < get_current_epoch(store)
               PROVE  store.justified.epoch >= UJust[r].epoch /\ store.finalized.epoch >= UFin[r].epoch
    BY DEF PulledUp, AllPulledUp, Ticking
  <2>1. UJust[r].epoch <= store.justified.epoch /\ UFin[r].epoch <= store.finalized.epoch
    BY DEF PulledInv, Awaits, TargetEpoch, TargetSlot, get_current_epoch
  <2>2. r \in Root
    BY DEF Accepted
  <2>3. /\ UJust[r].epoch \in Nat /\ store.justified.epoch \in Nat
        /\ UFin[r].epoch \in Nat /\ store.finalized.epoch \in Nat
    BY <2>2, EpochTypes
  <2> QED BY <2>1, <2>3
<1> QED BY <1>1, <1>2, <1>3, PTL DEF Spec

\* As long as no block comes before its slot, the blocks the node holds are not
\* of slots past the one it is in, or is being taken to by on_tick/2.
HeldInv ==
    ~early => \A r \in Root : Held(r) =>
        SlotOf[r] <= TargetSlot

\* Every step keeps it: on_tick/2 may take the store through times that are not
\* since genesis, but it ends at the time it was called with.
LEMMA StepHeld ==
    ASSUME TypeInv, BlocksOK, BoostInv, HeldInv, [Next]_vars
    PROVE  HeldInv'
<1>s. /\ SlotOf \in [Root -> Nat]
      /\ \A time \in Int : compute_current_slot(time) \in Int
      /\ store.time \in Int /\ store'.time \in Int /\ tick.to \in Int /\ GenesisTime \in Int /\ TickTimes \subseteq Int
  <2>1. TypeInv'
    BY StepAdvances
  <2> QED BY <2>1, SlotType, TreeAssumption, ForkChoiceAssumption DEF TypeInv, StoreOK, TickOK
<1>e. early => early'
  BY StepKinds
<1> SUFFICES ASSUME ~early', NEW r \in Root, Held(r)'
             PROVE  SlotOf[r] <= (IF Ticking THEN compute_current_slot(tick.to) ELSE get_current_slot(store))'
  BY DEF HeldInv, TargetSlot
<1>1. ASSUME NEW q \in Root \ {Anchor}, Accepts(q), UNCHANGED <<tick, early>>
      PROVE  SlotOf[r] <= (IF Ticking THEN compute_current_slot(tick.to) ELSE get_current_slot(store))'
  <2>1. ~Ticking /\ ~Ticking' /\ store'.time = store.time
    <3>1. SamePlace(compute_post_state(store, q), store') /\ StoreOK(store)
      BY <1>1, OnBlockPlace DEF Accepts, TypeInv
    <3> QED BY <1>1, <3>1, PostStateFields DEF SamePlace, Accepts, Ticking
  <2>2. Held(r)
    <3>1. blocks[q] = "stored" /\ blocks' = [blocks EXCEPT ![q] = "accepted"]
      BY <1>1 DEF Accepts, OnBlockAccepted
    <3>2. r # q => blocks'[r] = blocks[r]
      BY <3>1 DEF BlocksOK
    <3> QED BY <3>1, <3>2 DEF Held
  <2> QED BY <1>e, <2>1, <2>2 DEF HeldInv, TargetSlot, get_current_slot
<1>2. CASE Keeps
  <2>1. UNCHANGED <<Ticking, tick>> /\ store'.time = store.time
    BY <1>2 DEF Keeps, SamePlace, Ticking
  <2>2. Held(r) \/ (~Ticking /\ SlotOf[r] <= get_current_slot(store))
    BY <1>2 DEF Keeps
  <2> QED BY <1>e, <2>1, <2>2 DEF HeldInv, TargetSlot, get_current_slot
<1>3. ASSUME UNCHANGED <<blocks, early>>, NEW time \in TickTimes, OnTick(time)
      PROVE  SlotOf[r] <= (IF Ticking THEN compute_current_slot(tick.to) ELSE get_current_slot(store))'
  <2>1. /\ Held(r) /\ ~Ticking /\ UNCHANGED store /\ tick'.to = time /\ time > store.time
    BY <1>3 DEF OnTick, Idle, Ticking, Held
  <2>2. GenesisTime <= store.time /\ store.time <= time
    BY <1>s, <2>1 DEF BoostInv
  <2>3. compute_current_slot(store.time) <= compute_current_slot(time)
    BY <1>s, <2>2, SlotsFollowTime
  <2>4. Ticking'
    <3>1. tick'.to # 0
      <4>1. GenesisTime \in Nat /\ time \in Int /\ store.time \in Int
        BY <1>s, ForkChoiceAssumption
      <4> QED BY <2>1, <2>2, <4>1
    <3> QED BY <3>1 DEF Ticking, NoTick
  <2>5. SlotOf[r] <= compute_current_slot(store.time)
    BY <1>e, <2>1 DEF HeldInv, TargetSlot, get_current_slot
  <2>6. SlotOf[r] \in Int /\ compute_current_slot(store.time) \in Int /\ compute_current_slot(time) \in Int
    BY <1>s
  <2> QED BY <2>1, <2>3, <2>4, <2>5, <2>6
<1>4. CASE UNCHANGED <<blocks, early>> /\ OnTickSlot
  <2>1. Held(r) /\ Ticking /\ tick' = [tick EXCEPT !.next = @ + SecondsPerSlot]
    BY <1>4 DEF OnTickSlot, Ticking, Held
  <2>2. tick'.to = tick.to
    BY <2>1 DEF TypeInv, TickOK
  <2>3. Ticking'
    <3>1. GenesisTime < tick.to
      BY <2>1 DEF BoostInv
    <3>2. tick'.to # 0
      <4>1. GenesisTime \in Nat /\ tick.to \in Int
        BY <1>s, ForkChoiceAssumption
      <4> QED BY <2>2, <3>1, <4>1
    <3> QED BY <3>2 DEF Ticking, NoTick
  <2> QED BY <1>e, <2>1, <2>2, <2>3 DEF HeldInv, TargetSlot
<1>5. CASE UNCHANGED <<blocks, early>> /\ OnTickEnd
  <2>1. Held(r) /\ Ticking /\ ~Ticking' /\ store' = on_tick_per_slot(store, tick.to)
    BY <1>5 DEF OnTickEnd, Ticking, Held
  <2>2. store'.time = tick.to
    BY <1>s, <2>1, TickPerSlotFields DEF TypeInv
  <2> QED BY <1>e, <2>1, <2>2 DEF HeldInv, TargetSlot, get_current_slot
<1> QED BY <1>1, <1>2, <1>3, <1>4, <1>5, StepKinds

\* Where a justified checkpoint comes from.
FromState(c, accepted) == \E r \in accepted : c = JustifiedIn[r]
FromPast(c, accepted, epoch) == \E r \in accepted : c = UJust[r] /\ compute_epoch_at_slot(SlotOf[r]) < epoch

\* on_tick/2 stays in its slot, or goes to the next within the epoch; then it
\* pulls nothing up.
StaysInEpoch ==
    \/ get_current_slot(store) = TargetSlot /\ tick.next > TargetSlot * SecondsPerSlot
    \/ /\ compute_slots_since_epoch_start(TargetSlot) # 0
       /\ \/ get_current_slot(store) = TargetSlot - 1 /\ tick.next = TargetSlot * SecondsPerSlot
          \/ tick.next > TargetSlot * SecondsPerSlot

\* As long as no block comes before its slot, and no tick jumps over a slot
\* within the epoch, the justified checkpoint has been realized, and a tick that
\* pulls up goes to an epoch later than every block's.
RealInv ==
    /\ store.ujustified = AnchorCheckpoint \/ \E r \in Accepted : store.ujustified = UJust[r]
    /\ \/ store.justified = AnchorCheckpoint
       \/ FromState(store.justified, Accepted)
       \/ \E r \in Accepted : store.justified = UJust[r]
    /\ ~early /\ "within" \notin late =>
          /\ \/ store.justified = AnchorCheckpoint
             \/ FromState(store.justified, Accepted)
             \/ FromPast(store.justified, Accepted, TargetEpoch)
          /\ Ticking => StaysInEpoch \/ \A r \in Accepted : compute_epoch_at_slot(SlotOf[r]) < TargetEpoch

\* Every step keeps it.
LEMMA StepReal ==
    ASSUME TypeInv, BlocksOK, BoostInv, HeldInv, RealInv, [Next]_vars
    PROVE  RealInv'
<1>t. Accepted \subseteq Root /\ (early => early')
  BY StepKinds DEF Accepted
<1>c. /\ {store.justified, store.finalized, store.ujustified, store.ufinalized} \subseteq Checkpoints
      /\ \A r \in Root : {UJust[r], UFin[r], JustifiedIn[r], FinalizedIn[r]} \subseteq Checkpoints
      /\ \A c \in Checkpoints : c.epoch \in Nat
  BY EpochTypes
<1>1. ASSUME NEW r \in Root \ {Anchor}, Accepts(r), UNCHANGED <<tick, early>> PROVE RealInv'
  <2> DEFINE j == Later(JustifiedIn[r], store.justified)
             past == compute_epoch_at_slot(SlotOf[r]) < get_current_epoch(store)
  <2>1. /\ store'.justified = IF past THEN Later(UJust[r], j) ELSE j
        /\ store'.ujustified = Later(UJust[r], store.ujustified)
        /\ store'.time = store.time
    <3>1. SamePlace(compute_post_state(store, r), store') /\ StoreOK(store)
      BY <1>1, OnBlockPlace DEF Accepts, TypeInv
    <3> QED BY <3>1, PostStateFields DEF SamePlace
  <2>2. j \in Checkpoints /\ (j = store.justified \/ j = JustifiedIn[r])
    BY <1>c, LaterIs
  <2> HIDE DEF j
  <2>3. store'.justified = j \/ (past /\ store'.justified = UJust[r])
    BY <1>c, <2>1, <2>2, LaterIs
  <2>4. store'.ujustified = store.ujustified \/ store'.ujustified = UJust[r]
    BY <1>c, <2>1, LaterIs
  <2>5. /\ ~Ticking' /\ UNCHANGED late
        /\ TargetEpoch = get_current_epoch(store) /\ TargetEpoch' = TargetEpoch
    BY <1>1, <2>1 DEF Accepts, OnBlockAccepted, TargetEpoch, TargetSlot, Ticking, get_current_epoch, get_current_slot
  <2>6. Accepted' = Accepted \cup {r}
    BY <1>1 DEF Accepts
  <2>7. past => compute_epoch_at_slot(SlotOf[r]) < TargetEpoch
    BY <2>5
  <2> HIDE DEF past
  <2>8. \/ store'.justified = AnchorCheckpoint
        \/ FromState(store'.justified, Accepted')
        \/ \E q \in Accepted' : store'.justified = UJust[q]
    BY <2>2, <2>3, <2>6 DEF RealInv, FromState
  <2>9. ASSUME ~early, "within" \notin late
        PROVE  \/ store'.justified = AnchorCheckpoint
               \/ FromState(store'.justified, Accepted')
               \/ FromPast(store'.justified, Accepted', TargetEpoch)
    <3>1. CASE store'.justified = store.justified
      BY <2>6, <2>9, <3>1 DEF RealInv, FromState, FromPast
    <3>2. CASE store'.justified = JustifiedIn[r]
      BY <2>6, <3>2 DEF FromState
    <3>3. CASE past /\ store'.justified = UJust[r]
      BY <2>6, <2>7, <3>3 DEF FromPast
    <3> QED BY <2>2, <2>3, <3>1, <3>2, <3>3
  <2>10. store'.ujustified = AnchorCheckpoint \/ \E q \in Accepted' : store'.ujustified = UJust[q]
    BY <2>4, <2>6 DEF RealInv
  <2> QED BY <1>1, <2>5, <2>8, <2>9, <2>10 DEF RealInv
<1>2. CASE Keeps
  <2>1. SamePlace(store, store') /\ Accepted' = Accepted /\ UNCHANGED <<tick, late>>
    BY <1>2 DEF Keeps
  <2>2. UNCHANGED <<TargetEpoch, Ticking, StaysInEpoch>>
    BY <2>1 DEF SamePlace, TargetEpoch, TargetSlot, StaysInEpoch, Ticking, get_current_slot
  <2> QED BY <1>t, <2>1, <2>2 DEF RealInv, FromState, FromPast, SamePlace
<1>3. ASSUME UNCHANGED <<blocks, early>>, NEW time \in TickTimes, OnTick(time) PROVE RealInv'
  <2> DEFINE cur == get_current_slot(store)
             slot == compute_current_slot(time)
  <2>1. /\ ~Ticking /\ Ticking' /\ UNCHANGED store /\ late' = JumpedOver(cur, slot)
        /\ tick'.next = (cur + 1) * SecondsPerSlot
        /\ TargetSlot = cur /\ TargetSlot' = slot /\ cur \in Nat /\ slot \in Nat /\ cur <= slot
    BY <1>3, OnTickCall
  <2>2. Accepted' = Accepted /\ SecondsPerSlot \in Nat \ {0}
    BY <1>3, ForkChoiceAssumption DEF Accepted
  <2>3. compute_epoch_at_slot(cur) \in Nat /\ compute_epoch_at_slot(slot) \in Nat
        /\ compute_epoch_at_slot(cur) <= compute_epoch_at_slot(slot)
    <3> HIDE DEF cur, slot
    <3> QED BY <2>1, EpochsFollowSlots
  <2>4. CASE compute_epoch_at_slot(slot) > compute_epoch_at_slot(cur)
    <3>1. ASSUME ~early, NEW q \in Accepted PROVE compute_epoch_at_slot(SlotOf[q]) < TargetEpoch'
      <4>1. q \in Root /\ Held(q) /\ SlotOf[q] \in Nat
        BY TreeAssumption DEF Accepted, Held
      <4>2. SlotOf[q] <= cur
        BY <2>1, <3>1, <4>1 DEF HeldInv
      <4>3. TargetEpoch' = compute_epoch_at_slot(slot)
        BY <2>1 DEF TargetEpoch
      <4> HIDE DEF cur, slot
      <4>4. /\ compute_epoch_at_slot(SlotOf[q]) \in Nat
            /\ compute_epoch_at_slot(SlotOf[q]) <= compute_epoch_at_slot(cur)
        BY <2>1, <4>1, <4>2, EpochsFollowSlots
      <4> QED BY <2>3, <2>4, <4>3, <4>4
    <3> QED BY <1>3, <2>1, <2>2, <3>1 DEF RealInv, FromState, FromPast
  <2>5. CASE ~(compute_epoch_at_slot(slot) > compute_epoch_at_slot(cur))
    <3>1. compute_epoch_at_slot(slot) = compute_epoch_at_slot(cur)
      <4> HIDE DEF cur, slot
      <4> QED BY <2>3, <2>5
    <3>2. TargetEpoch' = TargetEpoch
      BY <2>1, <3>1 DEF TargetEpoch
    <3>3. "within" \notin late' => "within" \notin late /\ ~(slot > cur + 1)
      BY <2>1, <2>5 DEF JumpedOver
    <3>4. ASSUME ~(slot > cur + 1) PROVE StaysInEpoch'
      <4>1. slot = cur \/ slot = cur + 1
        <5> HIDE DEF cur, slot
        <5> QED BY <2>1, <3>4
      <4>2. CASE slot = cur
        <5>1. (cur + 1) * SecondsPerSlot > cur * SecondsPerSlot
          <6> HIDE DEF cur
          <6> QED BY <2>1, <2>2
        <5> QED BY <2>1, <4>2, <5>1 DEF StaysInEpoch
      <4>3. CASE slot = cur + 1
        <5>1. compute_slots_since_epoch_start(slot) # 0
          <6>1. cur <= cur
            <7> HIDE DEF cur
            <7> QED BY <2>1
          <6>2. compute_slots_since_epoch_start(slot) = 0 =>
                  compute_epoch_at_slot(cur) < compute_epoch_at_slot(slot)
            <7> HIDE DEF cur, slot
            <7> QED BY <2>1, <4>3, <6>1, NextSlotEpoch
          <6>3. ~(compute_epoch_at_slot(cur) < compute_epoch_at_slot(slot))
            <7> HIDE DEF cur, slot
            <7> QED BY <2>3, <3>1
          <6> QED BY <6>2, <6>3
        <5>2. cur = slot - 1
          <6> HIDE DEF cur, slot
          <6> QED BY <2>1, <4>3
        <5> QED BY <2>1, <4>3, <5>1, <5>2 DEF StaysInEpoch
      <4> QED BY <4>1, <4>2, <4>3
    <3> QED BY <1>3, <2>1, <2>2, <3>2, <3>3, <3>4 DEF RealInv
  <2> QED BY <2>4, <2>5
<1>4. CASE UNCHANGED <<blocks, early>> /\ (OnTickSlot \/ OnTickEnd)
  <2> DEFINE cur == get_current_slot(store)
             now == compute_current_slot(StepTime)
             end == TargetSlot * SecondsPerSlot
  <2>1. /\ Ticking /\ StepTime \in Int /\ store' = on_tick_per_slot(store, StepTime)
        /\ UNCHANGED <<TargetSlot, late>> /\ TargetSlot \in Nat /\ cur \in Int
        /\ get_current_slot(store') = now /\ now \in Int /\ now <= TargetSlot
        /\ tick.next \in Int /\ SecondsPerSlot \in Nat \ {0}
        /\ \/ Ticking' /\ tick'.next = tick.next + SecondsPerSlot /\ tick.next <= end
           \/ ~Ticking' /\ now = TargetSlot
    BY <1>4, OnTickStep
  <2>e. end \in Nat
    BY <2>1
  <2>2. /\ store'.justified = IF PullsUp(store, StepTime) THEN Later(store.ujustified, store.justified) ELSE store.justified
        /\ UNCHANGED store.ujustified
    BY <2>1, TickPerSlotFields DEF TypeInv
  <2>3. Accepted' = Accepted /\ TargetEpoch' = TargetEpoch
    BY <1>4, <2>1 DEF Accepted, TargetEpoch
  <2>4. store'.justified = store.justified \/ store'.justified = store.ujustified
    BY <1>c, <2>2, LaterIs
  <2>5. StaysInEpoch => store'.justified = store.justified /\ (Ticking' => StaysInEpoch')
    <3> SUFFICES ASSUME StaysInEpoch PROVE store'.justified = store.justified /\ (Ticking' => StaysInEpoch')
      OBVIOUS
    <3>p. PullsUp(store, StepTime) => now > cur /\ compute_slots_since_epoch_start(now) = 0
      BY DEF PullsUp
    <3>1. CASE tick.next > end
      <4>1. ~Ticking' /\ now = TargetSlot
        <5> HIDE DEF end, now
        <5> QED BY <2>1, <2>e, <3>1
      <4>2. cur = TargetSlot \/ compute_slots_since_epoch_start(TargetSlot) # 0
        BY DEF StaysInEpoch
      <4>3. ~PullsUp(store, StepTime)
        <5>1. cur = TargetSlot => ~(now > cur)
          <6> HIDE DEF now, cur
          <6> QED BY <2>1, <4>1
        <5> QED BY <3>p, <4>1, <4>2, <5>1
      <4> QED BY <2>2, <4>1, <4>3
    <3>2. CASE ~(tick.next > end)
      <4>1. /\ compute_slots_since_epoch_start(TargetSlot) # 0
            /\ cur = TargetSlot - 1 /\ tick.next = end
        BY <3>2 DEF StaysInEpoch
      <4>2. now > cur => now = TargetSlot
        <5> HIDE DEF now, cur
        <5> QED BY <2>1, <4>1
      <4>3. ~PullsUp(store, StepTime)
        BY <3>p, <4>1, <4>2
      <4>4. Ticking' => tick'.next > end
        <5> HIDE DEF end, now
        <5> QED BY <2>1, <2>e, <4>1
      <4>5. Ticking' => StaysInEpoch'
        BY <2>1, <4>1, <4>4 DEF StaysInEpoch
      <4> QED BY <2>2, <4>3, <4>5
    <3> QED BY <3>1, <3>2
  <2>6. /\ \/ store'.justified = AnchorCheckpoint
           \/ FromState(store'.justified, Accepted)
           \/ \E q \in Accepted : store'.justified = UJust[q]
        /\ store'.ujustified = AnchorCheckpoint \/ \E q \in Accepted : store'.ujustified = UJust[q]
    BY <2>2, <2>4 DEF RealInv
  <2>7. ASSUME ~early, "within" \notin late
        PROVE  /\ \/ store'.justified = AnchorCheckpoint
                  \/ FromState(store'.justified, Accepted)
                  \/ FromPast(store'.justified, Accepted, TargetEpoch)
               /\ Ticking' => StaysInEpoch' \/ \A r \in Accepted : compute_epoch_at_slot(SlotOf[r]) < TargetEpoch
    <3>1. CASE StaysInEpoch
      BY <2>5, <2>7, <3>1 DEF RealInv
    <3>2. CASE \A r \in Accepted : compute_epoch_at_slot(SlotOf[r]) < TargetEpoch
      BY <2>6, <3>2 DEF FromPast
    <3> QED BY <2>1, <2>7, <3>1, <3>2 DEF RealInv
  <2> QED BY <1>4, <2>1, <2>3, <2>6, <2>7 DEF RealInv
<1> QED BY <1>1, <1>2, <1>3, <1>4, StepKinds

\* Whatever the genesis time, as long as no block comes before its slot and no
\* tick jumps over a slot within the epoch, nothing is pulled up before its
\* time: the justified checkpoint is the anchor's, that of the state of an
\* accepted block, or one pulled up from a block of an earlier epoch
\* (Handlers.on_tick_per_slot).
THEOREM AlwaysRealized == Spec => []JustifiedRealized
<1> DEFINE Inv == TypeInv /\ BlocksOK /\ BoostInv /\ HeldInv /\ RealInv
<1>1. Init => Inv
  <2> SUFFICES ASSUME Init PROVE Inv
    OBVIOUS
  <2>1. TypeInv /\ BlocksOK /\ BoostInv /\ ~Ticking /\ TargetSlot = SlotOf[Anchor]
    BY InitType, InitBlocks, InitBoost, InitSlot
  <2>2. /\ store.ujustified = AnchorCheckpoint /\ store.justified = AnchorCheckpoint
        /\ \A r \in Root : Held(r) => r = Anchor
    BY DEF Init, Held
  <2>3. SlotOf[Anchor] <= SlotOf[Anchor]
    BY TreeAssumption
  <2> QED BY <2>1, <2>2, <2>3 DEF RealInv, HeldInv
<1>2. Inv /\ [Next]_vars => Inv'
  <2>1. TypeInv /\ BlocksOK /\ BoostInv /\ [Next]_vars => TypeInv' /\ BlocksOK' /\ BoostInv'
    BY StepAdvances, StepKinds, StepBoost
  <2> QED BY <2>1, StepHeld, StepReal
<1>3. Inv => JustifiedRealized
  BY DEF RealInv, FromState, FromPast, JustifiedRealized, TargetEpoch, TargetSlot, Ticking, get_current_epoch
<1> QED BY <1>1, <1>2, <1>3, PTL DEF Spec
=============================================================================

----------------------------- MODULE ForkChoice -----------------------------
(***************************************************************************)
(* The fork-choice store and the handlers that change it: ForkChoice,      *)
(* ForkChoice.Handlers, ForkChoice.Head and Types.Store.                   *)
(*                                                                         *)
(* `store` is the Types.Store the Libp2pPort process threads through its   *)
(* handlers, without its caches of states.  Every handler is one action,   *)
(* except on_tick, whose catch-up loop is one step per slot: no other      *)
(* handler runs in between.                                                *)
(***************************************************************************)
EXTENDS BlockTree, SimpleTree, FiniteSetsExt, SequencesExt

CONSTANTS
    ZeroRoot,          \* <<0::256>>
    RootRank,          \* the lexicographic order of roots
    JustifiedIn, FinalizedIn,  \* checkpoints in the post-state of a block
    UJust, UFin,       \* and after process_justification_and_finalization on it
    Validator,
    Balance,           \* effective balance, 0 for an inactive validator
    Slashed,           \* validators the justified state holds as slashed
    AttestationsOf,    \* attestations in a block, in order
    SlashedBy,         \* validators whose equivocation a block proves
    WireAttestations,  \* attestations that may come on their own
    WireSlashings,     \* sets of validators whose equivocation may come on its own
    SecondsPerSlot, IntervalsPerSlot, ProposerScoreBoost,
    GenesisTime,       \* genesis_time
    Disparity,         \* whether a block may come within MAXIMUM_GOSSIP_CLOCK_DISPARITY of its slot
    TickTimes,         \* bound: the times at which the clock ticks
    Downloads          \* whether blocks are met before their parents

AnchorCheckpoint == Checkpoint(compute_epoch_at_slot(SlotOf[Anchor]), Anchor)
Checkpoints == [epoch : Nat, root : Root \cup {ZeroRoot}]
Attestations == [slot : Nat, target : [epoch : Nat, root : Root], root : Root, voters : SUBSET Validator]

ASSUME ForkChoiceAssumption ==
    /\ ZeroRoot \notin Root
    /\ RootRank \in [Root -> Nat]
    /\ \A r, q \in Root : RootRank[r] = RootRank[q] => r = q
    /\ {JustifiedIn, FinalizedIn, UJust, UFin} \subseteq [Root -> Checkpoints]
    /\ IsFiniteSet(Validator)
    /\ Balance \in [Validator -> Nat]
    /\ Slashed \subseteq Validator
    /\ AttestationsOf \in [Root -> Seq(Attestations)]
    /\ SlashedBy \in [Root -> SUBSET Validator]
    /\ WireAttestations \subseteq Attestations
    /\ WireSlashings \subseteq SUBSET Validator
    /\ {SecondsPerSlot, IntervalsPerSlot} \subseteq Nat \ {0}
    /\ {ProposerScoreBoost, GenesisTime} \subseteq Nat
    /\ TickTimes \subseteq Nat
    /\ {Downloads, Disparity} \subseteq BOOLEAN
    /\ \A r \in Root : \A i \in DOMAIN AttestationsOf[r] : AttestationsOf[r][i].slot < SlotOf[r]

NewEpoch(r) == compute_epoch_at_slot(SlotOf[r]) > compute_epoch_at_slot(SlotOf[ParentOf[r]])

\* What the state transition guarantees of the checkpoints it computes: those
\* of a state are what its parent left, unless an epoch has ended in between,
\* and a second epoch without blocks finds the same votes and changes nothing;
\* they only grow along a chain, one that is later than the anchor is the
\* chain's block at its epoch, and a checkpoint is justified before it is final.
\* The anchor is the first block of its epoch, as genesis and the finalized
\* states of checkpoint sync are; get_forkchoice_store/2 would take any.
ASSUME CheckpointsAssumption ==
    /\ SlotOf[Anchor] % SlotsPerEpoch = 0
    /\ \A c \in {JustifiedIn[Anchor], FinalizedIn[Anchor]} : c.epoch <= AnchorCheckpoint.epoch
    /\ \A r \in Root \ {Anchor} :
          /\ JustifiedIn[r] = (IF NewEpoch(r) THEN UJust ELSE JustifiedIn)[ParentOf[r]]
          /\ FinalizedIn[r] = (IF NewEpoch(r) THEN UFin ELSE FinalizedIn)[ParentOf[r]]
    /\ \A r \in Root \ {Anchor} :
          /\ UJust[ParentOf[r]].epoch <= UJust[r].epoch
          /\ UFin[ParentOf[r]].epoch <= UFin[r].epoch
    /\ \A r \in Root :
          /\ UFin[r].epoch <= UJust[r].epoch
          /\ UJust[r].epoch <= compute_epoch_at_slot(SlotOf[r])
          /\ \A c \in {UJust[r], UFin[r]} : c.epoch > AnchorCheckpoint.epoch =>
                c.root = get_checkpoint_block(r, c.epoch)

\* What Casper FFG promises as long as less than a third of the stake is
\* slashable: a checkpoint that is not earlier than a finalized one is on its
\* chain, on whatever fork each of them was seen.
AccountableSafety ==
    \A r, q \in Root : \A c \in {UJust[q], UFin[q]} :
        AnchorCheckpoint.epoch < UFin[r].epoch /\ UFin[r].epoch <= c.epoch =>
            UFin[r].root = get_checkpoint_block(c.root, UFin[r].epoch)

VARIABLES
    store,    \* the fork-choice store
    blocks,   \* what the database knows of a root
    tick,     \* the on_tick call being run: [to, next], or NoTick
    clock,    \* where the system clock is: in the slot of the store ("in_slot"), near
              \* enough to the next for the disparity ("near_end"), or past it ("ahead")
    early,    \* whether a block has been received before its slot
    late,     \* what the ticks of the store's epoch have jumped over: its first
              \* slot ("entry"), or a slot after that ("within")
    raised    \* whether a handler has raised

\* Only properties read `early` and `late`.
vars == <<store, blocks, tick, clock, early, late, raised>>

BlockStatus == {"none", "download", "stored", "accepted", "refused", "invalid"}

NoTick == [to |-> 0, next |-> 0]
-----------------------------------------------------------------------------
(* Time *)

\* Elixir's div/2 truncates.
TruncDiv(x, n) == IF x >= 0 THEN x \div n ELSE -((-x) \div n)

\* ForkChoice.compute_current_slot/2 and get_current_slot/1
compute_current_slot(time) == TruncDiv(time - GenesisTime, SecondsPerSlot)
get_current_slot(s) == compute_current_slot(s.time)

\* Store.get_current_epoch/1
get_current_epoch(s) == compute_epoch_at_slot(get_current_slot(s))

\* compute_slots_since_epoch_start/1
compute_slots_since_epoch_start(slot) == slot - TruncDiv(slot, SlotsPerEpoch) * SlotsPerEpoch

\* ForkChoice.future_slot?/2
future_slot(s, slot) ==
    slot > get_current_slot(s) + (IF clock = "near_end" THEN 1 ELSE 0)
-----------------------------------------------------------------------------
(* Checkpoints *)

\* The later of two checkpoints; the one the store has, if they are of one epoch.
Later(new, old) == IF new.epoch > old.epoch THEN new ELSE old

\* Variant: only the finalized checkpoint is updated.
update_finalized_only(s, justified, finalized) == [s EXCEPT !.finalized = Later(finalized, @)]

\* update_checkpoints/3
update_checkpoints(s, justified, finalized) ==
    [s EXCEPT !.justified = Later(justified, @), !.finalized = Later(finalized, @)]

\* Variant: the checkpoints of the last block are taken, whatever their epoch.
update_unrealized_to_last(s, justified, finalized) ==
    [s EXCEPT !.ujustified = justified, !.ufinalized = finalized]

\* update_unrealized_checkpoints/3
update_unrealized_checkpoints(s, justified, finalized) ==
    [s EXCEPT !.ujustified = Later(justified, @), !.ufinalized = Later(finalized, @)]

\* Variants: a block of an earlier epoch does not realize its checkpoints; a
\* block of the current epoch does.
compute_pulled_up_tip_later(s, r) ==
    update_unrealized_checkpoints(
        [s EXCEPT !.unrealized = [x \in DOMAIN @ \cup {r} |-> IF x = r THEN UJust[r] ELSE @[x]]],
        UJust[r], UFin[r])
compute_pulled_up_tip_now(s, r) ==
    update_checkpoints(compute_pulled_up_tip_later(s, r), UJust[r], UFin[r])

\* compute_pulled_up_tip/4
compute_pulled_up_tip(s, r) ==
    LET seen == [s EXCEPT !.unrealized = [x \in DOMAIN @ \cup {r} |->
                                             IF x = r THEN UJust[r] ELSE @[x]]]
        new == update_unrealized_checkpoints(seen, UJust[r], UFin[r])
    IN  IF compute_epoch_at_slot(SlotOf[r]) < get_current_epoch(s)
        THEN update_checkpoints(new, UJust[r], UFin[r])
        ELSE new
-----------------------------------------------------------------------------
(* Head *)

\* get_voting_source/2
get_voting_source(s, r) ==
    IF get_current_epoch(s) > compute_epoch_at_slot(SlotOf[r])
    THEN s.unrealized[r] ELSE JustifiedIn[r]

\* filter_leaf_block/4; its second chance for a justified previous epoch asks
\* for more than the last alternative of the first, and changes nothing
filter_leaf_block(s, r) ==
    /\ \/ s.justified.epoch = 0
       \/ get_voting_source(s, r).epoch = s.justified.epoch
       \/ get_voting_source(s, r).epoch + 2 >= get_current_epoch(s)
    /\ \/ s.finalized.epoch = 0
       \/ s.finalized.root = get_checkpoint_block(r, s.finalized.epoch)

\* filter_block_tree/4 and get_filtered_block_tree/1: the blocks from which a
\* viable leaf is reached
get_filtered_block_tree(s) ==
    LET viable[r \in DOMAIN s.tree.nodes] ==
            IF s.tree.nodes[r] = {} THEN filter_leaf_block(s, r)
            ELSE \E k \in s.tree.nodes[r] : viable[k]
    IN  {r \in Reached(s.tree.nodes, s.justified.root) : viable[r]}

\* The sum of the effective balances, as get_weight/3 and
\* get_total_active_balance/1 add them up.
total_balance(vs) == MapThenSumSet(LAMBDA v : Balance[v], vs)

\* get_weight/3
get_weight(s, r) ==
    LET votes(v) == v \in DOMAIN s.messages \ (s.equivocating \cup Slashed)
                    /\ get_ancestor(s.messages[v].root, SlotOf[r]) = r
        committee_weight == total_balance(Validator) \div SlotsPerEpoch
    IN  total_balance({v \in Validator : votes(v)})
        + IF s.boost # ZeroRoot /\ get_ancestor(s.boost, SlotOf[r]) = r
          THEN (committee_weight * ProposerScoreBoost) \div 100 ELSE 0

\* Variant: ties go to the lower root.
Heavier_low(s, r, q) ==
    \/ get_weight(s, r) > get_weight(s, q)
    \/ get_weight(s, r) = get_weight(s, q) /\ RootRank[r] <= RootRank[q]

\* The order in which compute_head/4 prefers a child to another.
Heavier(s, r, q) ==
    \/ get_weight(s, r) > get_weight(s, q)
    \/ get_weight(s, r) = get_weight(s, q) /\ RootRank[r] >= RootRank[q]

\* get_head/1 and compute_head/4
get_head(s) ==
    LET filtered == get_filtered_block_tree(s)
        head[r \in Root] ==
            LET children == {k \in filtered \ {Anchor} : ParentOf[k] = r}
            IN  IF children = {} THEN r
                ELSE head[CHOOSE k \in children : \A o \in children : Heavier(s, k, o)]
    IN  head[s.justified.root]
-----------------------------------------------------------------------------
(* Attestations *)

\* Whether the walk of get_ancestor/3 from r to `slot` meets only blocks that
\* the database holds.
Walks(r, slot) ==
    \A q \in Root : Descends(r, q) /\ Descends(q, get_ancestor(r, slot)) =>
        blocks[q] \notin {"none", "download"}

\* check_attestation_valid/3 and the target state of on_attestation/3, for an
\* attestation from a block.  Blocks.get_block/1 has no clause for the block
\* info of a root that is being downloaded.
check_attestation_valid(s, a) ==
    IF blocks[a.root] = "download" THEN "raise"
    ELSE IF a.target.epoch # compute_epoch_at_slot(a.slot) THEN "error"
    ELSE IF blocks[a.target.root] = "download" THEN "raise"
    ELSE IF "none" \in {blocks[a.target.root], blocks[a.root]} THEN "unknown_block"
    ELSE IF SlotOf[a.root] > a.slot THEN "error"
    ELSE IF ~Walks(a.root, compute_start_slot_at_epoch(a.target.epoch)) THEN "raise"
    ELSE IF \/ a.target.root # get_checkpoint_block(a.root, a.target.epoch)
            \/ future_slot(s, a.slot - 1)
            \/ blocks[a.target.root] \notin {"accepted", "refused"}
         THEN "error" ELSE "ok"

\* target_epoch_against_current_time_valid?/2
target_epoch_valid(s, a) ==
    a.target.epoch \in {get_current_epoch(s), get_current_epoch(s) - 1}

\* Variant: the last vote counts, whatever its epoch.
update_latest_messages_any(equivocating, messages, a) ==
    LET fresh == a.voters \ equivocating
    IN  [v \in DOMAIN messages \cup fresh |->
            IF v \in fresh THEN Checkpoint(a.target.epoch, a.root) ELSE messages[v]]

\* update_latest_messages/3
update_latest_messages(equivocating, messages, a) ==
    LET votes(v) == /\ v \notin equivocating
                    /\ v \in DOMAIN messages => a.target.epoch > messages[v].epoch
        fresh == {v \in a.voters : votes(v)}
    IN  [v \in DOMAIN messages \cup fresh |->
            IF v \in fresh THEN Checkpoint(a.target.epoch, a.root) ELSE messages[v]]

\* process_attestations/2, when no attestation is in error
process_attestations(s, atts) ==
    [s EXCEPT !.messages =
        FoldLeft(LAMBDA m, a : IF check_attestation_valid(s, a) = "ok"
                               THEN update_latest_messages(s.equivocating, m, a) ELSE m,
                 s.messages, atts)]

\* Handlers.on_attester_slashing/2, for a slashing that is valid in the
\* justified state
on_attester_slashing(s, vs) == [s EXCEPT !.equivocating = @ \cup vs]
-----------------------------------------------------------------------------
(* Blocks *)

\* Variant: the tree is cut at the justified block.
update_tree_justified(s, r) ==
    LET tree == UpdateRoot(s.tree, s.justified.root)
    IN  IF ParentOf[r] \in DOMAIN tree.nodes
        THEN [s EXCEPT !.tree = AddBlock(tree, r, ParentOf[r])] ELSE s

\* Store.update_tree/3
update_tree(s, r) ==
    LET tree == UpdateRoot(s.tree, s.finalized.root)
    IN  IF ParentOf[r] \in DOMAIN tree.nodes
        THEN [s EXCEPT !.tree = AddBlock(tree, r, ParentOf[r])] ELSE s

\* The block came in time to be boosted, and it is the first to do so.
Timely(s, r) ==
    /\ get_current_slot(s) = SlotOf[r]
    /\ (s.time - GenesisTime) % SecondsPerSlot < SecondsPerSlot \div IntervalsPerSlot
    /\ s.boost = ZeroRoot

\* compute_post_state/3, from where the block has been found valid
compute_post_state(s, r) ==
    LET added == update_tree(s, r)
        boosted == IF Timely(s, r) THEN [added EXCEPT !.boost = r] ELSE added
    IN  compute_pulled_up_tip(update_checkpoints(boosted, JustifiedIn[r], FinalizedIn[r]), r)

\* Variant: a block must be later than the justified epoch.
on_block_ok_justified(s, r) ==
    /\ ~future_slot(s, SlotOf[r])
    /\ SlotOf[r] > compute_start_slot_at_epoch(s.justified.epoch)
    /\ s.finalized.root = get_checkpoint_block(ParentOf[r], s.finalized.epoch)

\* The conditions of Handlers.on_block/2.  The state transition, the payload
\* and the blobs are those of the PendingBlocks module, and hold here.
on_block_ok(s, r) ==
    /\ ~future_slot(s, SlotOf[r])
    /\ SlotOf[r] > compute_start_slot_at_epoch(s.finalized.epoch)
    /\ s.finalized.root = get_checkpoint_block(ParentOf[r], s.finalized.epoch)

\* What becomes of the attestations of a block: apply_handler/3 stops at the
\* first that is in error.
Outcome(s, atts) ==
    LET bad == {i \in DOMAIN atts : check_attestation_valid(s, atts[i]) \in {"error", "raise"}}
    IN  IF bad = {} THEN "ok" ELSE check_attestation_valid(s, atts[Min(bad)])


\* recompute_head/1
recompute_head(s) == [s EXCEPT !.head = get_head(s)]
-----------------------------------------------------------------------------
(* Actions *)

\* Store.get_forkchoice_store/2
Init ==
    /\ store = [time |-> GenesisTime + SecondsPerSlot * SlotOf[Anchor],
                justified |-> AnchorCheckpoint, finalized |-> AnchorCheckpoint,
                ujustified |-> AnchorCheckpoint, ufinalized |-> AnchorCheckpoint,
                boost |-> ZeroRoot, equivocating |-> {},
                messages |-> [v \in {} |-> AnchorCheckpoint],
                unrealized |-> [r \in {Anchor} |-> AnchorCheckpoint],
                tree |-> NewTree(Anchor), head |-> Anchor]
    /\ blocks = [r \in Root |-> IF r = Anchor THEN "accepted" ELSE "none"]
    /\ tick = NoTick
    /\ clock = "in_slot"
    /\ early = FALSE
    /\ late = {}
    /\ raised = FALSE

Idle == tick = NoTick /\ ~raised

\* PendingBlocks stores a block it has received, and the root of its parent
\* if that is unknown.
Receive(r) ==
    /\ Idle
    /\ blocks[r] \in {"none", "download"}
    /\ ~future_slot(store, SlotOf[r])
    /\ Downloads \/ blocks[ParentOf[r]] # "none"
    /\ blocks' = [blocks EXCEPT ![r] = "stored",
                                ![ParentOf[r]] = IF @ = "none" THEN "download" ELSE @]
    /\ early' = (early \/ SlotOf[r] > get_current_slot(store))
    /\ UNCHANGED <<store, tick, clock, late, raised>>

\* ForkChoice.on_block/2 and process_block/2.  A block refused for one of its
\* attestations, or for a slashing that the justified state does not bear out,
\* leaves its state in the database.
OnBlockAccepted(r) ==
    LET new == compute_post_state(store, r)
        voted == process_attestations(new, AttestationsOf[r])
        slashed == on_attester_slashing(voted, SlashedBy[r])
    IN  /\ on_block_ok(store, r)
        /\ Outcome(new, AttestationsOf[r]) = "ok"
        /\ store' = recompute_head(slashed)
        /\ blocks' = [blocks EXCEPT ![r] = "accepted"]
        /\ UNCHANGED <<tick, clock, early, late, raised>>

OnBlockRefused(r) ==
    /\ on_block_ok(store, r)
    /\ LET outcome == Outcome(compute_post_state(store, r), AttestationsOf[r])
       IN  outcome = "error" \/ (outcome = "ok" /\ SlashedBy[r] # {})
    /\ blocks' = [blocks EXCEPT ![r] = "refused"]
    /\ UNCHANGED <<store, tick, clock, early, late, raised>>

OnBlockRejected(r) ==
    /\ ~on_block_ok(store, r)
    /\ blocks' = [blocks EXCEPT ![r] = "invalid"]
    /\ UNCHANGED <<store, tick, clock, early, late, raised>>

OnBlockRaises(r) ==
    /\ on_block_ok(store, r)
    /\ Outcome(compute_post_state(store, r), AttestationsOf[r]) = "raise"
    /\ raised' = TRUE
    /\ UNCHANGED <<store, blocks, tick, clock, early, late>>

OnBlock(r) ==
    /\ Idle
    /\ blocks[r] = "stored"
    /\ blocks[ParentOf[r]] = "accepted"
    /\ OnBlockAccepted(r) \/ OnBlockRefused(r) \/ OnBlockRejected(r) \/ OnBlockRaises(r)

\* ForkChoice.on_attestation/2; an attestation in error changes nothing
OnAttestation(a) ==
    /\ Idle
    /\ target_epoch_valid(store, a)
    /\ \/ /\ check_attestation_valid(store, a) = "ok"
          /\ store' = process_attestations(store, <<a>>)
          /\ UNCHANGED raised
       \/ /\ check_attestation_valid(store, a) = "raise"
          /\ raised' = TRUE
          /\ UNCHANGED store
    /\ UNCHANGED <<blocks, tick, clock, early, late>>

\* ForkChoice.on_attester_slashing/2; a slashing in error changes nothing
OnAttesterSlashing(vs) ==
    /\ Idle
    /\ store' = on_attester_slashing(store, vs)
    /\ UNCHANGED <<blocks, tick, clock, early, late, raised>>

\* Variant: the boost stays until another block takes it.
on_tick_per_slot_boosted(s, time) ==
    LET new == [s EXCEPT !.time = time]
    IN  IF get_current_slot(new) > get_current_slot(s)
           /\ compute_slots_since_epoch_start(get_current_slot(new)) = 0
        THEN update_checkpoints(new, s.ujustified, s.ufinalized) ELSE new

\* on_tick_per_slot/2
on_tick_per_slot(s, time) ==
    LET new == [s EXCEPT !.time = time]
        reset == [new EXCEPT !.boost = ZeroRoot]
    IN  IF get_current_slot(new) <= get_current_slot(s) THEN new
        ELSE IF compute_slots_since_epoch_start(get_current_slot(new)) = 0
             THEN update_checkpoints(reset, s.ujustified, s.ufinalized)
             ELSE reset

\* What a tick from slot `cur` to slot `slot` jumps over.
JumpedOver(cur, slot) ==
    IF compute_epoch_at_slot(slot) > compute_epoch_at_slot(cur)
    THEN IF compute_slots_since_epoch_start(slot) = 0 THEN {} ELSE {"entry"}
    ELSE late \cup (IF slot > cur + 1 THEN {"within"} ELSE {})

\* Handlers.on_tick/2: the call, a step of its loop for each slot that the
\* store is behind, and the last step.  The loop counts its times from 0, and
\* the slots of the store are counted from genesis.
OnTick(time) ==
    /\ Idle
    /\ time > store.time
    /\ clock = "ahead" => compute_current_slot(time) > get_current_slot(store)
    /\ clock' = IF compute_current_slot(time) = get_current_slot(store) THEN clock ELSE "in_slot"
    /\ tick' = [to |-> time, next |-> (get_current_slot(store) + 1) * SecondsPerSlot]
    /\ late' = JumpedOver(get_current_slot(store), compute_current_slot(time))
    /\ UNCHANGED <<store, blocks, early, raised>>

LastSlotStart == compute_current_slot(tick.to) * SecondsPerSlot

OnTickSlot ==
    /\ tick # NoTick
    /\ tick.next <= LastSlotStart
    /\ store' = on_tick_per_slot(store, tick.next)
    /\ tick' = [tick EXCEPT !.next = @ + SecondsPerSlot]
    /\ UNCHANGED <<blocks, clock, early, late, raised>>

OnTickEnd ==
    /\ tick # NoTick
    /\ tick.next > LastSlotStart
    /\ store' = on_tick_per_slot(store, tick.to)
    /\ tick' = NoTick
    /\ UNCHANGED <<blocks, clock, early, late, raised>>

\* The system clock nears the end of the store's slot, or passes it while the
\* tick is still in the mailbox.
ClockMoves ==
    /\ Disparity
    /\ Idle
    /\ \/ clock = "in_slot" /\ clock' = "near_end"
       \/ clock = "near_end" /\ clock' = "ahead"
    /\ UNCHANGED <<store, blocks, tick, early, late, raised>>

Next ==
    \/ \E r \in Root \ {Anchor} : Receive(r) \/ OnBlock(r)
    \/ \E a \in WireAttestations : OnAttestation(a)
    \/ \E vs \in WireSlashings : OnAttesterSlashing(vs)
    \/ \E time \in TickTimes : OnTick(time)
    \/ OnTickSlot \/ OnTickEnd \/ ClockMoves

Spec == Init /\ [][Next]_vars
-----------------------------------------------------------------------------
(* Properties *)

Accepted == {r \in Root : blocks[r] = "accepted"}

IsCheckpoint(c) == c = Checkpoint(c.epoch, c.root) /\ c.epoch \in Nat /\ c.root \in Root

\* The store keeps its shape: checkpoints on blocks, and a vote, an unrealized
\* justification and a tree over known blocks only.
TypeOK ==
    /\ store.time \in Nat
    /\ \A c \in {store.justified, store.finalized, store.ujustified, store.ufinalized} :
          IsCheckpoint(c)
    /\ store.boost \in Accepted \cup {ZeroRoot}
    /\ store.equivocating \subseteq Validator
    /\ DOMAIN store.messages \subseteq Validator
    /\ \A v \in DOMAIN store.messages : IsCheckpoint(store.messages[v])
    /\ DOMAIN store.unrealized = Accepted
    /\ DOMAIN store.tree.nodes \subseteq Accepted
    /\ store.head \in Accepted
    /\ blocks \in [Root -> BlockStatus]
    /\ clock \in {"in_slot", "near_end", "ahead"}
    /\ {early, raised} \subseteq BOOLEAN
    /\ late \subseteq {"entry", "within"}

\* Between ticks, what a block of an earlier epoch justified or finalized has
\* been pulled up ("while loop catches up slot by slot to ensure that every
\* previous slot is processed with on_tick_per_slot").
AllPulledUp ==
    tick = NoTick =>
        \A r \in Accepted : compute_epoch_at_slot(SlotOf[r]) < get_current_epoch(store) =>
            /\ store.justified.epoch >= UJust[r].epoch
            /\ store.finalized.epoch >= UFin[r].epoch

\* AllPulledUp holds, however late blocks come, in every epoch that a tick has
\* entered at its first slot, whatever ticks jumped over before and after, and
\* whatever times the loop of on_tick steps through.
PulledUp == "entry" \notin late => AllPulledUp

\* As long as no block comes before its slot, and no tick jumps over a slot
\* within the epoch, PulledUp is all that is: the justified checkpoint is one
\* that the state of an accepted block holds, or one pulled up from a block of
\* an earlier epoch ("If a new epoch, pull-up justification and finalization
\* from previous epoch").
JustifiedRealized ==
    tick = NoTick /\ ~early /\ "within" \notin late =>
        \/ store.justified = AnchorCheckpoint
        \/ \E r \in Accepted :
              \/ store.justified = JustifiedIn[r]
              \/ /\ store.justified = UJust[r]
                 /\ compute_epoch_at_slot(SlotOf[r]) < get_current_epoch(store)

\* Between ticks, a boosted block is a block of the current slot.
BoostIsCurrent ==
    tick = NoTick /\ store.boost # ZeroRoot => SlotOf[store.boost] = get_current_slot(store)

\* Every accepted block that descends from the finalized one is reached in the
\* tree, and so are the justified block, where get_head starts, and the
\* finalized block, which update_tree expects ("We expect the finalized block
\* to be in the tree").
TreeComplete ==
    LET reached == Reached(store.tree.nodes, store.tree.root)
    IN  /\ {store.justified.root, store.finalized.root} \subseteq reached
        /\ {r \in Accepted : Descends(r, store.finalized.root)} \subseteq reached

\* The justified block descends from the finalized one.
JustifiedOnFinalized == Descends(store.justified.root, store.finalized.root)

\* A block is found invalid only when the finalized checkpoint is not on its
\* chain, or it is not later than the start of that epoch ("Blocks cannot be in
\* the future. If they are, their consideration must be delayed until they are
\* in the past").
OnlyStaleInvalid ==
    \A r \in Root : blocks[r] = "invalid" =>
        \/ SlotOf[r] <= compute_start_slot_at_epoch(store.finalized.epoch)
        \/ store.finalized.root # get_checkpoint_block(r, store.finalized.epoch)

\* OnlyStaleInvalid holds as long as no block comes before its slot.
InTimeNotInvalid == ~early => OnlyStaleInvalid


\* No block makes a handler raise.
NeverRaises == ~raised

\* LMD-GHOST as a definition: the viable blocks are those with a viable leaf
\* above them, and at every fork on the way from the justified block to the
\* head, the branch taken outweighs the others, by the votes for its blocks.
Viable(r) ==
    \E leaf \in DOMAIN store.tree.nodes :
        /\ store.tree.nodes[leaf] = {}
        /\ Descends(leaf, r)
        /\ filter_leaf_block(store, leaf)
ReferenceWeight(r) ==
    LET voters == {v \in DOMAIN store.messages \ (store.equivocating \cup Slashed) :
                      Descends(store.messages[v].root, r)}
    IN  total_balance(voters)
        + IF store.boost # ZeroRoot /\ Descends(store.boost, r)
          THEN ((total_balance(Validator) \div SlotsPerEpoch) * ProposerScoreBoost) \div 100 ELSE 0
IsHead(h) ==
    LET base == store.justified.root
        Children(r) == {k \in DOMAIN store.tree.nodes \ {Anchor} : ParentOf[k] = r /\ Viable(k)}
    IN  /\ Descends(h, base)
        /\ Children(h) = {}
        /\ \A b \in Root : Descends(h, b) /\ Descends(b, base) /\ b # base =>
              /\ Viable(b)
              /\ \A k \in Children(ParentOf[b]) \ {b} :
                    \/ ReferenceWeight(b) > ReferenceWeight(k)
                    \/ ReferenceWeight(b) = ReferenceWeight(k) /\ RootRank[b] > RootRank[k]

\* Between ticks, the head that Head.get_head/1 computes is the head of
\* LMD-GHOST on the viable blocks.
HeadIsGhost ==
    tick = NoTick => LET head == get_head(store)
                     IN  head \in Accepted /\ \A h \in Accepted : IsHead(h) <=> h = head


\* The checkpoints of the store and the set of equivocating validators never go
\* back, in whatever order blocks of different forks and ticks come.
CheckpointsAdvance ==
    [][/\ store'.justified.epoch >= store.justified.epoch
       /\ store'.finalized.epoch >= store.finalized.epoch
       /\ store'.ujustified.epoch >= store.ujustified.epoch
       /\ store'.ufinalized.epoch >= store.ufinalized.epoch
       /\ store.equivocating \subseteq store'.equivocating]_vars

\* A validator's vote is replaced only by one of a later epoch, and never once
\* the validator is known to have equivocated.
VotesAdvance ==
    [][\A v \in DOMAIN store.messages :
          store'.messages[v] # store.messages[v] =>
              /\ store'.messages[v].epoch > store.messages[v].epoch
              /\ v \notin store.equivocating]_vars

\* A vote counts only once its slot is past ("Attestations can only affect the
\* fork choice of subsequent slots. Delay consideration in the fork choice
\* until their slot is in the past").
VotesFromThePast ==
    [][\A v \in DOMAIN store'.messages :
          v \notin DOMAIN store.messages \/ store'.messages[v] # store.messages[v] =>
              \E a \in WireAttestations \cup UNION {Range(AttestationsOf[r]) : r \in Root} :
                  /\ v \in a.voters
                  /\ store'.messages[v] = Checkpoint(a.target.epoch, a.root)
                  /\ a.slot < get_current_slot(store)]_vars
=============================================================================

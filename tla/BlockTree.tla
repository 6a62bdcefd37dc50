----------------------------- MODULE BlockTree -----------------------------
(***************************************************************************)
(* Blocks, slots and epochs: what Types.Store and Misc compute from the    *)
(* parent links and the slots of the blocks in the database.               *)
(***************************************************************************)
EXTENDS Integers, FiniteSets

CONSTANTS
    Root,           \* block roots
    Anchor,         \* the block the store was started from
    ParentOf,       \* parent_root of a block
    SlotOf,         \* slot of a block
    SlotsPerEpoch   \* SLOTS_PER_EPOCH

ASSUME TreeAssumption ==
    /\ Anchor \in Root
    /\ SlotsPerEpoch \in Nat \ {0}
    /\ SlotOf \in [Root -> Nat]
    /\ ParentOf \in [Root \ {Anchor} -> Root]
    /\ \A r \in Root \ {Anchor} : SlotOf[ParentOf[r]] < SlotOf[r]

\* Misc.compute_epoch_at_slot/1
compute_epoch_at_slot(s) == s \div SlotsPerEpoch

\* Misc.compute_start_slot_at_epoch/1
compute_start_slot_at_epoch(e) == e * SlotsPerEpoch

Checkpoint(e, r) == [epoch |-> e, root |-> r]

\* Store.get_ancestor/3.  The code raises at the parent of the anchor, which
\* is not in the database; callers never ask for a slot before the anchor's.
get_ancestor(r, s) ==
    LET anc[x \in Root] ==
            IF x # Anchor /\ SlotOf[x] > s THEN anc[ParentOf[x]] ELSE x
    IN  anc[r]

\* Store.get_checkpoint_block/3
get_checkpoint_block(r, e) == get_ancestor(r, compute_start_slot_at_epoch(e))

\* Whether block r is block a or a descendant of it.
Descends(r, a) == get_ancestor(r, SlotOf[a]) = a
=============================================================================

------------------------------- MODULE Validators -------------------------------
(***************************************************************************)
(* The validators of a node through its slots (validator/validator_set.ex, *)
(* duties.ex, validator.ex): duties computed two epochs at a time, the     *)
(* attestation and the sync-committee message of a slot, the collection of *)
(* other members' messages (types/sync_subnet_info.ex), the contribution   *)
(* of an aggregator, the pool of contributions (operations_collector.ex),  *)
(* the sync aggregate of a proposed block (block_builder.ex) and its       *)
(* verification (process_sync_aggregate).                                  *)
(*                                                                         *)
(* Time is counted in thirds of a slot. A block is named by its slot and   *)
(* the chain is one line: a root differs from another because a block came *)
(* late or not at all. Validators are numbers; a validator's number is its *)
(* secret key, a root the message it signs (the domain never changes).     *)
(*                                                                         *)
(* Gossip is taken in as it is decoded: neither the members' messages nor  *)
(* the contributions are validated (sync_committee.ex, "validate before    *)
(* accepting"), so that some of it may be made up.                         *)
(***************************************************************************)
EXTENDS Bls, FiniteSetsExt, Functions

CONSTANTS Own, Peers,          \* validators of this node, and the others
          Committee,           \* [period -> sequence of validators]
          SubnetCount,         \* sync_committee_subnet_count
          SlotsPerEpoch, EpochsPerPeriod,
          AttestsIn,           \* [epoch -> [Own -> slot]]
          Aggregates,          \* <<slot, validator, subnet>> chosen by selection proof
          Proposer,            \* [slot -> validator]
          CommitteeLength, MaxCommittees,
          Forgers,             \* who a made-up message says it is from
          Forgeries,           \* [slot, root, subnet, bits] of made-up contributions
          LastThird, MaxRow, MaxOffers, MaxFaults   \* bounds

(* A validator belongs to one node; epochs, periods and the set of subnets *)
(* are not empty.                                                          *)
ASSUME ValidatorsAssumption ==
  /\ Own \subseteq Nat /\ IsFiniteSet(Own) /\ Own \cap Peers = {}
  /\ SlotsPerEpoch \in Nat \ {0} /\ EpochsPerPeriod \in Nat \ {0} /\ SubnetCount \in Nat \ {0}
  /\ 0 \in DOMAIN Committee
  /\ \A p \in DOMAIN Committee : Committee[p] \in Seq(Own \cup Peers)

VARIABLES
  clock,          \* thirds since genesis
  slot_data,      \* the third of the node's last tick, -1 after its start
  store_head,     \* fork choice: slot of the head block
  inbox,          \* {:new_head, _, _} messages not handled yet
  head,           \* ValidatorSet: head_root
  duties,         \* ValidatorSet: epoch -> its duties
  builder,        \* [Own -> payload_builder]
  rows,           \* database: SyncSubnetInfo by subnet
  pool,           \* database: contributions received
  messages,       \* sync-committee messages on the network
  contributions,  \* contributions on the network
  votes,          \* attestations published by this node
  proposals,      \* blocks published by this node
  refused,        \* blocks of this node that its own transition refused
  raised,         \* an exception ended the process
  skips, restarts, missed,
  forged_messages,      \* made-up messages taken in, with their subnets
  forged_contributions  \* made-up contributions taken in

vars == <<clock, slot_data, store_head, inbox, head, duties, builder, rows, pool,
          messages, contributions, votes, proposals, refused, raised, skips, restarts, missed,
          forged_messages, forged_contributions>>
network == <<messages, contributions, votes, proposals, refused>>
forged == <<forged_messages, forged_contributions>>
faults == <<skips, restarts, missed, forged>>

Subnets == 0..(SubnetCount - 1)
Nil == <<>>

SlotOf(t) == t \div 3
EpochOf(slot) == slot \div SlotsPerEpoch
PeriodOf(epoch) == epoch \div EpochsPerPeriod
(* Messages of a slot are for the block of the next one. *)
SyncEpoch(slot) == EpochOf(slot + 1)

SubSize == Len(Committee[0]) \div SubnetCount
SubcommitteeOf(p, n) == SubSeq(Committee[p], n * SubSize + 1, (n + 1) * SubSize)
(* Positions of a validator in a subcommittee, from 0. *)
Positions(p, n, v) ==
  LET sub == SubcommitteeOf(p, n) IN {i \in 0..(SubSize - 1) : sub[i + 1] = v}
SubnetsOf(p, v) == {n \in Subnets : Positions(p, n, v) # {}}
MembersOf(p) == {v \in Own : SubnetsOf(p, v) # {}}

(* All committees have one size, and there is one for every period of the  *)
(* slots; an epoch has more than one slot.                                 *)
ASSUME CommitteesAssumption ==
  /\ LastThird \in Nat /\ SlotsPerEpoch > 1
  /\ 0..PeriodOf(SyncEpoch(SlotOf(LastThird))) \subseteq DOMAIN Committee
  /\ \A p \in DOMAIN Committee : Len(Committee[p]) = Len(Committee[0])

(* A made-up contribution is decoded: its bits fill a subcommittee, of     *)
(* which its index may be none. Its slot and root are some slot's.         *)
ASSUME ForgeriesAssumption ==
  \A f \in Forgeries : /\ {f.slot, f.root} \subseteq 0..SlotOf(LastThird)
                       /\ f.subnet \in 0..SubnetCount /\ f.bits \subseteq 0..(SubSize - 1)

(***************************************************************************)
(* Duties. The sync duties of an epoch remember the period whose committee *)
(* they were computed from.                                                *)
(***************************************************************************)
NoDuties == [e \in {} |-> {}]
Duty(p) == [of |-> p, attested |-> {}, broadcasted |-> {}, aggregated |-> {}]

(* The committee is that of the slot after the one the state is at. *)
compute_sync_committee_duties(slot) == PeriodOf(EpochOf(slot + 1))

(* Within a period the members are taken from the last epoch's duties, the *)
(* second slot of them, which a node without members has not.              *)
RecomputeRaises(d, e) ==
  LET last == IF DOMAIN d = {} THEN 0 ELSE Max(DOMAIN d)
  IN  last \in DOMAIN d /\ PeriodOf(last) = PeriodOf(e) /\ MembersOf(d[last].of) = {}
ComputeEpoch(d, e, slot) ==
  LET last == IF DOMAIN d = {} THEN 0 ELSE Max(DOMAIN d)
      known == last \in DOMAIN d /\ PeriodOf(last) = PeriodOf(e)
  IN  [x \in DOMAIN d \cup {e} |->
         IF x # e THEN d[x]
         ELSE Duty(IF known THEN d[last].of ELSE compute_sync_committee_duties(slot))]

(* compute_duties: the epoch and the next one, when missing. Nothing is    *)
(* pruned: the old duties are merged back in with the new ones.            *)
WithFirst(d, slot) ==
  LET e == EpochOf(slot) IN IF e \in DOMAIN d THEN d ELSE ComputeEpoch(d, e, slot)
ComputeRaises(d, slot) ==
  LET e == EpochOf(slot)
  IN  \/ e \notin DOMAIN d /\ RecomputeRaises(d, e)
      \/ e + 1 \notin DOMAIN d /\ RecomputeRaises(WithFirst(d, slot), e + 1)
compute_duties(d, slot) ==
  LET e == EpochOf(slot)
      d1 == WithFirst(d, slot)
  IN  IF e + 1 \in DOMAIN d1 THEN d1
      ELSE ComputeEpoch(d1, e + 1, (e + 1) * SlotsPerEpoch)

current_attesters(d, slot) ==
  {v \in Own : AttestsIn[EpochOf(slot)][v] = slot /\ <<slot, v>> \notin d[EpochOf(slot)].attested}
SyncDuty(d, slot) == d[SyncEpoch(slot)]
\* Variant: the flag is not looked at.
current_sync_committee_any(d, slot) == MembersOf(SyncDuty(d, slot).of)
current_sync_committee(d, slot) ==
  {v \in MembersOf(SyncDuty(d, slot).of) : <<slot, v>> \notin SyncDuty(d, slot).broadcasted}
AggregationOf(d, slot, v) ==
  {n \in SubnetsOf(SyncDuty(d, slot).of, v) : <<slot, v, n>> \in Aggregates}
\* Variant: the duties of the slot's own epoch, which has none for its last slot.
current_sync_aggregators_own_epoch(d, slot) ==
  {v \in MembersOf(d[EpochOf(slot)].of) :
     /\ EpochOf(slot) = SyncEpoch(slot) /\ AggregationOf(d, slot, v) # {}
     /\ <<slot, v>> \notin d[EpochOf(slot)].aggregated}
current_sync_aggregators(d, slot) ==
  {v \in MembersOf(SyncDuty(d, slot).of) :
     AggregationOf(d, slot, v) # {} /\ <<slot, v>> \notin SyncDuty(d, slot).aggregated}

(***************************************************************************)
(* Messages and contributions.                                             *)
(***************************************************************************)
SyncMessage(p, slot, root, v) ==
  [slot |-> slot, root |-> root, validator |-> v, signature |-> sign(v, root)[2],
   subnets |-> SubnetsOf(p, v)]

NewRow(m) == [slot |-> m.slot, root |-> m.root, messages |-> <<m>>]

\* Variant: once for each validator.
aggregate_sync_committee_signature_once(ms, p, n) ==
  aggregate(SetToSeq({m.signature : m \in ToSet(ms)}))
(* The signature of a validator is repeated for each of its positions. *)
aggregate_sync_committee_signature(ms, p, n) ==
  LET unique == SetToSeq(ToSet(ms))
  IN  aggregate(FlattenSeq([i \in 1..Len(unique) |->
        [j \in 1..Cardinality(Positions(p, n, unique[i].validator)) |-> unique[i].signature]]))

Contribution(ms, p, n) ==
  [slot |-> ms[1].slot, root |-> ms[1].root, subnet |-> n,
   bits |-> UNION {Positions(p, n, m.validator) : m \in ToSet(ms)},
   signature |-> aggregate_sync_committee_signature(ms, p, n)[2]]

(* Of who is not in the subcommittee Map.get gives nil, which is no list   *)
(* of positions; and Bls.aggregate has to answer with a signature.         *)
ContributionRaises(ms, p, n) ==
  \/ \E m \in ToSet(ms) : Positions(p, n, m.validator) = {}
  \/ ~IsOk(aggregate_sync_committee_signature(ms, p, n))

(* Others send what they like: any bytes, no point, or a signature they    *)
(* have seen, for whatever they say it is. They sign for nobody else.      *)
FaultsLeft == MaxFaults - (skips + restarts + missed + Cardinality(forged_messages)
                           + Cardinality(forged_contributions))
Copies ==
  IF FaultsLeft > 0 THEN {Garbled, Infinity} \cup {x.signature : x \in messages \cup contributions}
  ELSE {}
MadeUpMessages(slot, root) ==
  {[slot |-> slot, root |-> root, validator |-> v, signature |-> s,
    subnets |-> SubnetsOf(PeriodOf(SyncEpoch(slot)), v)] : v \in Forgers, s \in Copies}
MadeUpContributions ==
  {[slot |-> f.slot, root |-> f.root, subnet |-> f.subnet, bits |-> f.bits, signature |-> s] :
     f \in Forgeries, s \in Copies}

(***************************************************************************)
(* The sync aggregate of a block.                                          *)
(***************************************************************************)
\* Variant: the root is not looked at.
usable_of_slot(cs, slot, parent, n) == {c \in cs : c.slot = slot - 1 /\ c.subnet = n}
usable(cs, slot, parent, n) ==
  {c \in cs : c.slot = slot - 1 /\ c.root = parent /\ c.subnet = n}
Largest(cs) == {c \in cs : \A o \in cs : Cardinality(o.bits) <= Cardinality(c.bits)}
Placed(c) == {c.subnet * SubSize + i : i \in c.bits}

(* Bits of no subnet cannot be placed, and Bls.aggregate has to answer     *)
(* with a signature.                                                       *)
AggregateRaises(picked) == \E c \in picked : c.subnet \notin Subnets \/ c.signature = Garbled

(* One contribution of each subnet that has a usable one. *)
get_sync_aggregate(picked) ==
  LET s == SetToSeq(picked)
  IN  [bits |-> UNION {Placed(c) : c \in picked},
       signature |-> IF picked = {} THEN Infinity
                     ELSE aggregate([i \in 1..Len(s) |-> s[i].signature])[2]]

(* A set of places from the first to the last. *)
InOrder(S) ==
  [k \in 1..Cardinality(S) |-> CHOOSE i \in S : Cardinality({j \in S : j <= i}) = k]

process_sync_aggregate(slot, parent, agg) ==
  LET c == Committee[PeriodOf(EpochOf(slot))]
      at == InOrder({i \in 0..(Len(c) - 1) : i \in agg.bits})
      keys == [i \in 1..Len(at) |-> derive_pubkey(c[at[i] + 1])[2]]
  IN  IsTrue(eth_fast_aggregate_verify(keys, parent, agg.signature))

(* Nothing but a restart follows an exception, and nothing the tick of the *)
(* last third, in which nothing more is sent and the node not restarted.   *)
Running == ~raised /\ slot_data < LastThird
Sending == Running /\ clock < LastThird

Init ==
  /\ clock = 0 /\ slot_data = -1
  /\ store_head = 0 /\ head = 0 /\ inbox = <<>>
  /\ duties = compute_duties(NoDuties, 0)
  /\ raised = ComputeRaises(NoDuties, 0)
  /\ builder = [v \in Own |-> Nil]
  /\ rows = [n \in Subnets |-> Nil]
  /\ pool = {} /\ messages = {} /\ contributions = {} /\ votes = {} /\ proposals = {}
  /\ refused = {} /\ forged_messages = {} /\ forged_contributions = {}
  /\ skips = 0 /\ restarts = 0 /\ missed = 0

(***************************************************************************)
(* The handlers.                                                           *)
(***************************************************************************)
(* maybe_attests, maybe_build_payload and maybe_sync_committee_broadcasts. *)
(* An attestation that SszEx cannot encode raises. Of several aggregators  *)
(* of a subnet the last one to broadcast starts the row over; their order  *)
(* turns around from epoch to epoch.                                       *)
Broadcasts(d, slot, root) ==
  LET e == EpochOf(slot)
      attesters == current_attesters(d, slot)
      senders == current_sync_committee(d, slot)
      p == SyncDuty(d, slot).of
      collectors(n) == {v \in senders : /\ n \in AggregationOf(d, slot, v)
                                        /\ <<slot, v>> \notin SyncDuty(d, slot).aggregated}
      flagged == [d EXCEPT ![e].attested = @ \cup {<<slot, v>> : v \in attesters}]
  IN  IF attesters # {} /\ CommitteeLength # MaxCommittees
      THEN raised' = TRUE /\ UNCHANGED <<duties, builder, rows, network>>
      ELSE
      /\ votes' = votes \cup {[validator |-> v, slot |-> slot, root |-> root] : v \in attesters}
      /\ IF slot + 1 \in DOMAIN Proposer /\ Proposer[slot + 1] \in Own
                /\ builder[Proposer[slot + 1]] # <<slot + 1, root>>
         THEN \E b \in {Nil, <<slot + 1, root>>} :
                builder' = [builder EXCEPT ![Proposer[slot + 1]] = b]
         ELSE builder' = builder
      /\ messages' = messages \cup {SyncMessage(p, slot, root, v) : v \in senders}
      /\ \E low \in BOOLEAN :
           rows' = [n \in Subnets |->
             IF collectors(n) = {} THEN rows[n]
             ELSE NewRow(SyncMessage(p, slot, root,
                    IF low THEN Min(collectors(n)) ELSE Max(collectors(n))))]
      /\ duties' = [flagged EXCEPT ![SyncEpoch(slot)].broadcasted =
                       @ \cup {<<slot, v>> : v \in senders}]
      /\ UNCHANGED <<contributions, proposals, refused, raised>>

(* publish_sync_aggregate: the first aggregator of a subnet takes its row, *)
(* whatever the row was collected for; the others are told it is gone. An  *)
(* exception comes after the row is taken and after some of the others     *)
(* have been published.                                                    *)
PublishAggregates(d, slot) ==
  LET aggregators == current_sync_aggregators(d, slot)
      p == PeriodOf(SyncEpoch(slot))
      taken == {n \in Subnets : /\ rows[n] # Nil
                                /\ \E v \in aggregators : n \in AggregationOf(d, slot, v)}
      bad == {n \in taken : ContributionRaises(rows[n].messages, p, n)}
  IN  /\ \E done \in SUBSET (taken \ bad), hit \in SUBSET bad :
           /\ IF bad = {} THEN done = taken ELSE Cardinality(hit) = 1
           /\ contributions' = contributions \cup {Contribution(rows[n].messages, p, n) : n \in done}
           /\ rows' = [n \in Subnets |-> IF n \in done \cup hit THEN Nil ELSE rows[n]]
      /\ raised' = (bad # {})
      /\ duties' = IF bad # {} THEN duties
                   ELSE [d EXCEPT ![SyncEpoch(slot)].aggregated =
                           @ \cup {<<slot, v>> : v \in aggregators}]
      /\ UNCHANGED <<builder, messages, votes, proposals, refused>>

(* seal_block: the node's own transition has to accept the block. *)
\* Variant: the block is signed as it is built.
seal_unchecked(block) ==
  /\ proposals' = proposals \cup {block}
  /\ refused' = refused
seal_block(block) ==
  IF process_sync_aggregate(block.slot, block.parent, block.aggregate)
  THEN proposals' = proposals \cup {block} /\ refused' = refused
  ELSE /\ refused' = refused \cup {[slot |-> block.slot, parent |-> block.parent]}
       /\ proposals' = proposals

(* maybe_propose, on the head the payload was started for. *)
Propose(d, slot) ==
  LET v == Proposer[slot]
      offers(n) == usable(pool, slot, head, n)
      groups == {n \in 0..SubnetCount : offers(n) # {}}
      built(pick) == [slot |-> slot, parent |-> head, aggregate |-> get_sync_aggregate(Range(pick))]
  IN  /\ IF slot \in DOMAIN Proposer /\ v \in Own /\ builder[v] = <<slot, head>>
         THEN \/ \E pick \in [groups -> pool] :
                   /\ \A n \in groups : pick[n] \in Largest(offers(n))
                   /\ IF AggregateRaises(Range(pick))
                      THEN raised' = TRUE /\ UNCHANGED <<duties, builder, proposals, refused>>
                      ELSE /\ seal_block(built(pick))
                           /\ builder' = [builder EXCEPT ![v] = Nil]
                           /\ duties' = d /\ raised' = raised
              \/ /\ builder' = [builder EXCEPT ![v] = Nil]     \* build_block failed
                 /\ duties' = d /\ UNCHANGED <<proposals, refused, raised>>
         ELSE duties' = d /\ UNCHANGED <<builder, proposals, refused, raised>>
      /\ UNCHANGED <<rows, messages, contributions, votes>>

Raises ==
  /\ raised' = TRUE
  /\ UNCHANGED <<duties, builder, rows, network>>

(* on_tick: nothing happens while the third is the one of the last tick. *)
OnTick ==
  /\ Running /\ slot_data # clock
  /\ slot_data' = clock
  /\ LET slot == SlotOf(clock)
         d == compute_duties(duties, slot)
     IN  IF ComputeRaises(duties, slot) THEN Raises
         ELSE CASE clock % 3 = 0 -> Propose(d, slot)
                [] clock % 3 = 1 -> Broadcasts(d, slot, head)
                [] clock % 3 = 2 -> PublishAggregates(d, slot)
  /\ UNCHANGED <<clock, store_head, inbox, head, pool, faults>>

(* {:new_head, slot, root}: the slot is the block's, not the clock's. *)
NotifyHead ==
  /\ Running /\ inbox # <<>>
  /\ head' = inbox[1] /\ inbox' = Tail(inbox)
  /\ IF ComputeRaises(duties, inbox[1]) THEN Raises
     ELSE Broadcasts(compute_duties(duties, inbox[1]), inbox[1], inbox[1])
  /\ UNCHANGED <<clock, slot_data, store_head, pool, faults>>

(* A block becomes the head: recompute_head with notify_new_block. *)
NewBlock ==
  /\ Running
  /\ \E slot \in (store_head + 1)..SlotOf(clock) :
       /\ slot - store_head - 1 <= FaultsLeft
       /\ missed' = missed + slot - store_head - 1
       /\ store_head' = slot /\ inbox' = Append(inbox, slot)
       /\ pool' = {c \in pool : c.slot >= slot}
  /\ UNCHANGED <<clock, slot_data, head, duties, builder, rows, network, raised, skips, restarts, forged>>

(* add_message!: only what agrees with the message the row began with, and *)
(* nothing else is asked: a message that its validator did not send to the *)
(* subnet is taken in as well.                                             *)
Sent(m, n) == m \in messages /\ n \in m.subnets
Deliver ==
  /\ Sending
  /\ \E n \in {k \in Subnets : rows[k] # Nil} :
       \E m \in messages \cup MadeUpMessages(rows[n].slot, rows[n].root) :
         /\ m.slot = rows[n].slot /\ m.root = rows[n].root
         /\ Len(rows[n].messages) < MaxRow
         /\ Sent(m, n) \/ FaultsLeft > 0
         /\ rows' = [rows EXCEPT ![n].messages = <<m>> \o @]
         /\ forged_messages' = IF Sent(m, n) THEN forged_messages
                               ELSE forged_messages \cup {<<n, m>>}
  /\ UNCHANGED <<clock, slot_data, store_head, inbox, head, duties, builder, pool, network,
                 raised, skips, restarts, missed, forged_contributions>>

(* handle_msg: the pool takes whatever is decoded. *)
ReceiveContribution ==
  /\ Running
  /\ \E c \in (contributions \cup MadeUpContributions) \ pool :
       /\ pool' = pool \cup {c}
       /\ forged_contributions' = forged_contributions \cup ({c} \ contributions)
  /\ UNCHANGED <<clock, slot_data, store_head, inbox, head, duties, builder, rows, network,
                 raised, skips, restarts, missed, forged_messages>>

(***************************************************************************)
(* The others, and the time.                                               *)
(***************************************************************************)
(* A member of another node signs one block in a slot. *)
PeerSigns ==
  /\ Sending
  /\ \E v \in Peers, root \in {store_head} \cup {SlotOf(clock)} :
       LET slot == SlotOf(clock)
           p == PeriodOf(SyncEpoch(slot))
       IN  /\ SubnetsOf(p, v) # {}
           /\ ~\E m \in messages : m.validator = v /\ m.slot = slot
           /\ messages' = messages \cup {SyncMessage(p, slot, root, v)}
  /\ UNCHANGED <<clock, slot_data, store_head, inbox, head, duties, builder, rows, pool,
                 contributions, votes, proposals, refused, raised, faults>>

(* An aggregator of another node has collected some of the messages. *)
PeerContributes ==
  /\ Sending
  /\ \E n \in Subnets, root \in {m.root : m \in messages} :
       LET slot == SlotOf(clock)
           p == PeriodOf(SyncEpoch(slot))
           seen == {m \in messages : m.slot = slot /\ m.root = root /\ n \in m.subnets}
       IN  /\ \E v \in Peers : n \in SubnetsOf(p, v) /\ <<slot, v, n>> \in Aggregates
           /\ Cardinality({c \in contributions : c.slot = slot /\ c.subnet = n}) < MaxOffers
           /\ \E S \in (SUBSET seen) \ {{}} :
                contributions' = contributions \cup {Contribution(SetToSeq(S), p, n)}
  /\ UNCHANGED <<clock, slot_data, store_head, inbox, head, duties, builder, rows, pool,
                 messages, votes, proposals, refused, raised, faults>>

(* A third passes; the node may be too busy to see it. *)
TimePasses ==
  /\ Sending
  /\ slot_data # clock => FaultsLeft > 0
  /\ skips' = IF slot_data # clock THEN skips + 1 ELSE skips
  /\ clock' = clock + 1
  /\ UNCHANGED <<slot_data, store_head, inbox, head, duties, builder, rows, pool, network,
                 raised, restarts, missed, forged>>

(* The node starts again, of itself or after an exception: the store and   *)
(* the rows are in the database, the pool is emptied, duties are computed  *)
(* anew for the head's epoch.                                              *)
Restart ==
  /\ clock < LastThird /\ FaultsLeft > 0
  /\ restarts' = restarts + 1
  /\ slot_data' = -1 /\ inbox' = <<>> /\ head' = store_head
  /\ builder' = [v \in Own |-> Nil] /\ pool' = {}
  /\ duties' = compute_duties(NoDuties, store_head)
  /\ raised' = ComputeRaises(NoDuties, store_head)
  /\ UNCHANGED <<clock, store_head, rows, network, skips, missed, forged>>

Next == \/ OnTick \/ NotifyHead \/ NewBlock \/ Deliver \/ ReceiveContribution
        \/ PeerSigns \/ PeerContributes \/ TimePasses \/ Restart

Spec == Init /\ [][Next]_vars

(***************************************************************************)
(* Properties.                                                             *)
(***************************************************************************)
KeysOf(c) ==
  LET sub == SubcommitteeOf(PeriodOf(SyncEpoch(c.slot)), c.subnet)
      at == InOrder({i \in 0..(SubSize - 1) : i \in c.bits})
  IN  [i \in 1..Len(at) |-> derive_pubkey(sub[at[i] + 1])[2]]

(* No tick was missed and the node was not restarted. *)
InTime == skips = 0 /\ restarts = 0

(* A contribution verifies with the keys of its bits, however messages     *)
(* were duplicated or reordered and whoever appears twice in the committee *)
(* (publish_sync_aggregate, Bls.aggregate), and it does so whichever of    *)
(* the library's ways to verify is taken: with the keys, with a message    *)
(* for each key, or with the sum of the keys. It need not after a missed   *)
(* tick, as a row left from the slot before is aggregated with the         *)
(* committee of the slot it is found in; nor after a made-up message for   *)
(* its slot and root was taken in on its subnet, as nothing validates it.  *)
Forged(c) ==
  \E f \in forged_messages : f[1] = c.subnet /\ f[2].slot = c.slot /\ f[2].root = c.root
ContributionsVerify ==
  InTime => \A c \in contributions : ~Forged(c) =>
    LET keys == KeysOf(c) IN
    /\ IsTrue(fast_aggregate_verify(keys, c.root, c.signature))
    /\ IsTrue(aggregate_verify(keys, [i \in 1..Len(keys) |-> c.root], c.signature))
    /\ IsTrue(verify(eth_aggregate_pubkeys(keys)[2], c.root, c.signature))

(* Between ticks that came in time a row is collected for its own slot: it *)
(* is gone when the next slot starts (stop_collecting), so that nothing is *)
(* published late or with another slot's duties.                           *)
RowsAreCurrent ==
  InTime => \A n \in Subnets :
    rows[n] # Nil => rows[n].slot = SlotOf(clock) \/ slot_data # clock

(* Without a restart no validator signs two things for one slot, although  *)
(* ticks and heads both make it sign, and heads come late and in the next  *)
(* slot (attested, sync_committee_broadcasted).                            *)
SignsOnce ==
  restarts = 0 =>
    /\ \A x, y \in votes : x.validator = y.validator /\ x.slot = y.slot => x = y
    /\ \A x, y \in messages : x.validator = y.validator /\ x.slot = y.slot => x = y

(* A validator never signs two attestations of one target epoch that       *)
(* differ (docs/specs/validator.md).                                       *)
NoDoubleVote ==
  \A x, y \in votes :
    x.validator = y.validator /\ EpochOf(x.slot) = EpochOf(y.slot) => x = y

(* Computing duties for the validators of the node ends with duties. *)
NeverRaises == ~raised

(* What a contribution, of whatever origin, offers: the validators of its  *)
(* bits, and whether it verifies with their keys.                          *)
OfferCounts(c) ==
  IF c.subnet \notin Subnets THEN {}
  ELSE {SubcommitteeOf(PeriodOf(SyncEpoch(c.slot)), c.subnet)[i + 1] : i \in c.bits}
OfferVerifies(c) ==
  c.subnet \in Subnets /\ IsTrue(fast_aggregate_verify(KeysOf(c), c.root, c.signature))
ValidatorsAt(slot, bits) == {Committee[PeriodOf(EpochOf(slot))][i + 1] : i \in bits}
Promise == INSTANCE SyncPromise WITH
  Counts <- OfferCounts, Verifies <- OfferVerifies,
  Validators <- Own \cup Peers, Slots <- 0..SlotOf(LastThird), Roots <- 0..SlotOf(LastThird),
  signed <- {<<m.validator, m.root>> : m \in messages},
  offered <- contributions \cup forged_contributions,
  included <- {[slot |-> b.slot, parent |-> b.parent,
                signers |-> ValidatorsAt(b.slot, b.aggregate.bits)] : b \in proposals}

(* The node implements SyncPromise whatever it is sent, in whatever order, *)
(* through missed ticks, exceptions and restarts: a block it proposes      *)
(* counts only validators that signed its parent, and its own transition   *)
(* refuses a block only for a contribution in it that does not verify      *)
(* (get_sync_aggregate with the pool, the rows and the signatures under    *)
(* it, seal_block).                                                        *)
ImplementsPromise == Promise!Spec
==============================================================================

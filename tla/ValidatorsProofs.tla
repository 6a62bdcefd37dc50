---------------------------- MODULE ValidatorsProofs ----------------------------
(***************************************************************************)
(* Theorems about Validators, for every set of validators, committee,      *)
(* choice of aggregators and number of slots.                              *)
(***************************************************************************)
EXTENDS Validators, RecursionTheorems

(* The duties of some epochs. *)
DutyType == [of : Nat, attested : SUBSET (Nat \X Own), broadcasted : SUBSET (Nat \X Own),
             aggregated : SUBSET (Nat \X Own)]
IsDuties(d) == DOMAIN d \subseteq Nat /\ d \in [DOMAIN d -> DutyType]

(* Later duties hold what the earlier ones did. *)
Keeps(d, c) == \A x \in DOMAIN d : x \in DOMAIN c /\ c[x] = d[x]

(***************************************************************************)
(* Time                                                                    *)
(***************************************************************************)

(* The epoch and the period of a slot are numbers. *)
LEMMA EpochsAreNumbers ==
  /\ \A slot \in Nat : EpochOf(slot) \in Nat
  /\ \A epoch \in Nat : PeriodOf(epoch) \in Nat
BY ValidatorsAssumption DEF EpochOf, PeriodOf

(* The next slot is of the same epoch or of the next one. *)
LEMMA NextSlotEpoch ==
  ASSUME NEW slot \in Nat
  PROVE  SyncEpoch(slot) = EpochOf(slot) \/ SyncEpoch(slot) = EpochOf(slot) + 1
<1> DEFINE n == SlotsPerEpoch
           p == slot \div n
           q == (slot + 1) \div n
<1>1. n \in Nat \ {0}
  BY ValidatorsAssumption
<1>2. p \in Nat /\ n * p <= slot /\ slot < n * p + n
  BY <1>1
<1>3. q \in Nat /\ n * q <= slot + 1 /\ slot + 1 < n * q + n
  BY <1>1
<1> HIDE DEF p, q, n
<1>4. n * p \in Nat /\ n * q \in Nat
  BY <1>1, <1>2, <1>3
<1>5. p <= q
  <2> SUFFICES ASSUME q + 1 <= p PROVE FALSE
    BY <1>2, <1>3
  <2>1. n * (q + 1) <= n * p /\ n * (q + 1) = n * q + n
    BY <1>1, <1>2, <1>3
  <2> QED BY <1>2, <1>3, <1>4, <1>1, <2>1
<1>6. q <= p + 1
  <2> SUFFICES ASSUME p + 2 <= q PROVE FALSE
    BY <1>2, <1>3
  <2>1. n * (p + 2) <= n * q /\ n * (p + 2) = n * p + n + n
    BY <1>1, <1>2, <1>3
  <2> QED BY <1>2, <1>3, <1>4, <1>1, <2>1
<1> QED BY <1>2, <1>3, <1>5, <1>6 DEF SyncEpoch, EpochOf, p, q, n

(***************************************************************************)
(* Duties                                                                  *)
(***************************************************************************)

(* New duties of an epoch leave those of the others alone. *)
LEMMA ComputedEpoch ==
  ASSUME NEW d, IsDuties(d), NEW e \in Nat, NEW slot \in Nat, e \notin DOMAIN d
  PROVE  /\ IsDuties(ComputeEpoch(d, e, slot))
         /\ Keeps(d, ComputeEpoch(d, e, slot))
         /\ DOMAIN ComputeEpoch(d, e, slot) = DOMAIN d \cup {e}
<1> DEFINE last == IF DOMAIN d = {} THEN 0 ELSE Max(DOMAIN d)
           known == last \in DOMAIN d /\ PeriodOf(last) = PeriodOf(e)
           of == IF known THEN d[last].of ELSE compute_sync_committee_duties(slot)
           c == ComputeEpoch(d, e, slot)
<1>1. of \in Nat
  <2>1. known => d[last].of \in Nat
    <3> HIDE DEF last
    <3> QED BY DEF IsDuties, DutyType
  <2>2. compute_sync_committee_duties(slot) \in Nat
    BY EpochsAreNumbers DEF compute_sync_committee_duties
  <2> QED BY <2>1, <2>2
<1>2. c = [x \in DOMAIN d \cup {e} |-> IF x # e THEN d[x] ELSE Duty(of)]
  BY DEF ComputeEpoch
<1> HIDE DEF of, c
<1>3. Duty(of) \in DutyType
  BY <1>1 DEF Duty, DutyType
<1>4. c \in [DOMAIN d \cup {e} -> DutyType]
  BY <1>2, <1>3 DEF IsDuties
<1>5. DOMAIN c = DOMAIN d \cup {e} /\ Keeps(d, c)
  BY <1>2 DEF Keeps
<1> QED BY <1>4, <1>5 DEF IsDuties, c

(* Computing the duties of a slot keeps the duties there are and has those *)
(* of the slot's epoch and of the epoch its sync messages are for.         *)
LEMMA ComputedDuties ==
  ASSUME NEW d, IsDuties(d), NEW slot \in Nat
  PROVE  /\ IsDuties(compute_duties(d, slot))
         /\ Keeps(d, compute_duties(d, slot))
         /\ EpochOf(slot) \in DOMAIN compute_duties(d, slot)
         /\ SyncEpoch(slot) \in DOMAIN compute_duties(d, slot)
<1> DEFINE e == EpochOf(slot)
           d1 == WithFirst(d, slot)
           next == (e + 1) * SlotsPerEpoch
           d2 == ComputeEpoch(d1, e + 1, next)
<1>1. e \in Nat /\ next \in Nat
  <2>1. e \in Nat /\ SlotsPerEpoch \in Nat
    BY EpochsAreNumbers, ValidatorsAssumption
  <2> HIDE DEF e
  <2> QED BY <2>1
<1>2. IsDuties(d1) /\ Keeps(d, d1) /\ e \in DOMAIN d1
  <2>1. CASE e \in DOMAIN d
    BY <2>1 DEF WithFirst, Keeps
  <2>2. CASE e \notin DOMAIN d
    <3>1. d1 = ComputeEpoch(d, e, slot)
      BY <2>2 DEF WithFirst
    <3>2. /\ IsDuties(ComputeEpoch(d, e, slot)) /\ Keeps(d, ComputeEpoch(d, e, slot))
          /\ DOMAIN ComputeEpoch(d, e, slot) = DOMAIN d \cup {e}
      <4> HIDE DEF e
      <4> QED BY <2>2, <1>1, ComputedEpoch
    <3> HIDE DEF d1, e
    <3> QED BY <3>1, <3>2
  <2> HIDE DEF d1, e
  <2> QED BY <2>1, <2>2
<1>3. compute_duties(d, slot) = IF e + 1 \in DOMAIN d1 THEN d1 ELSE d2
  BY DEF compute_duties
<1>4. e + 1 \notin DOMAIN d1 => IsDuties(d2) /\ Keeps(d1, d2) /\ DOMAIN d2 = DOMAIN d1 \cup {e + 1}
  <2> HIDE DEF d1, next, e
  <2>1. e + 1 \in Nat
    BY <1>1
  <2> QED BY <2>1, <1>1, <1>2, ComputedEpoch
<1> HIDE DEF d1, d2
<1>5. SyncEpoch(slot) \in {e, e + 1}
  BY NextSlotEpoch
<1> QED BY <1>1, <1>2, <1>3, <1>4, <1>5 DEF Keeps

(* What a broadcast of slot makes of duties d: flags for those who signed, *)
(* and nothing else.                                                       *)
Flags(d, slot, c) ==
  /\ IsDuties(c) /\ DOMAIN c = DOMAIN d
  /\ \A x \in DOMAIN d : /\ c[x].of = d[x].of /\ c[x].aggregated = d[x].aggregated
                         /\ d[x].attested \subseteq c[x].attested
                         /\ d[x].broadcasted \subseteq c[x].broadcasted
  /\ \A v \in current_attesters(d, slot) : <<slot, v>> \in c[EpochOf(slot)].attested
  /\ \A v \in current_sync_committee(d, slot) : <<slot, v>> \in c[SyncEpoch(slot)].broadcasted

(* Broadcasts flags in this way. *)
LEMMA Flagging ==
  ASSUME NEW d, IsDuties(d), NEW slot \in Nat,
         EpochOf(slot) \in DOMAIN d, SyncEpoch(slot) \in DOMAIN d
  PROVE  LET f == [d EXCEPT ![EpochOf(slot)].attested =
                     @ \cup {<<slot, v>> : v \in current_attesters(d, slot)}]
         IN  Flags(d, slot, [f EXCEPT ![SyncEpoch(slot)].broadcasted =
                     @ \cup {<<slot, v>> : v \in current_sync_committee(d, slot)}])
<1> DEFINE e == EpochOf(slot)
           y == SyncEpoch(slot)
           A == {<<slot, v>> : v \in current_attesters(d, slot)}
           B == {<<slot, v>> : v \in current_sync_committee(d, slot)}
           f == [d EXCEPT ![e].attested = @ \cup A]
           c == [f EXCEPT ![y].broadcasted = @ \cup B]
<1>1. A \in SUBSET (Nat \X Own) /\ B \in SUBSET (Nat \X Own)
  <2>1. current_attesters(d, slot) \subseteq Own /\ current_sync_committee(d, slot) \subseteq Own
    BY DEF current_attesters, current_sync_committee, MembersOf
  <2> QED BY <2>1
<1>2. /\ \A v \in current_attesters(d, slot) : <<slot, v>> \in A
      /\ \A v \in current_sync_committee(d, slot) : <<slot, v>> \in B
  OBVIOUS
<1> HIDE DEF e, y, A, B, f, c
<1>3. /\ f \in [DOMAIN d -> DutyType]
      /\ f[e].attested = d[e].attested \cup A
      /\ \A x \in DOMAIN d : /\ f[x].of = d[x].of /\ f[x].aggregated = d[x].aggregated
                             /\ d[x].attested \subseteq f[x].attested
                             /\ f[x].broadcasted = d[x].broadcasted
  <2>1. f = [d EXCEPT ![e].attested = @ \cup A] /\ e \in DOMAIN d /\ d \in [DOMAIN d -> DutyType]
    BY DEF e, f, IsDuties
  <2> QED BY <2>1, <1>1 DEF DutyType
<1>4. /\ c \in [DOMAIN d -> DutyType]
      /\ c[y].broadcasted = f[y].broadcasted \cup B
      /\ \A x \in DOMAIN d : /\ c[x].of = f[x].of /\ c[x].aggregated = f[x].aggregated
                             /\ f[x].attested = c[x].attested
                             /\ f[x].broadcasted \subseteq c[x].broadcasted
  <2>1. c = [f EXCEPT ![y].broadcasted = @ \cup B] /\ y \in DOMAIN d
    BY DEF y, c
  <2>2. f \in [DOMAIN d -> DutyType]
    BY <1>3
  <2>3. B \in SUBSET (Nat \X Own)
    BY <1>1
  <2>4. c[y] = [f[y] EXCEPT !.broadcasted = f[y].broadcasted \cup B] /\ DOMAIN c = DOMAIN d
    BY <2>1, <2>2
  <2>5. \A x \in DOMAIN d : x # y => c[x] = f[x]
    BY <2>1, <2>2
  <2>6. f[y] \in DutyType
    BY <2>1, <2>2
  <2>7. /\ c[y] \in DutyType /\ c[y].broadcasted = f[y].broadcasted \cup B
        /\ c[y].of = f[y].of /\ c[y].aggregated = f[y].aggregated /\ c[y].attested = f[y].attested
    BY <2>3, <2>4, <2>6 DEF DutyType
  <2>8. c \in [DOMAIN d -> DutyType]
    <3> HIDE DEF DutyType
    <3>1. c = [x \in DOMAIN d |-> c[x]]
      BY <2>1, <2>2, <2>4
    <3> QED BY <3>1, <2>2, <2>5, <2>7
  <2> QED BY <2>5, <2>7, <2>8
<1>5. IsDuties(c) /\ DOMAIN c = DOMAIN d
  BY <1>4 DEF IsDuties
<1>6. e \in DOMAIN d /\ y \in DOMAIN d
  BY DEF e, y
<1>7. \A x \in DOMAIN d : /\ c[x].of = d[x].of /\ c[x].aggregated = d[x].aggregated
                          /\ d[x].attested \subseteq c[x].attested
                          /\ d[x].broadcasted \subseteq c[x].broadcasted
  BY <1>3, <1>4
<1>8. A \subseteq c[e].attested /\ B \subseteq c[y].broadcasted
  BY <1>3, <1>4, <1>6
<1>9. Flags(d, slot, c)
  BY <1>2, <1>5, <1>7, <1>8 DEF Flags, e, y
<1> QED BY <1>9 DEF c, f, A, B, e, y

(***************************************************************************)
(* Nobody signs twice                                                      *)
(***************************************************************************)

(* Every vote and every message of the node's own is flagged. *)
Flagged(vs, ms, d) ==
  /\ \A x \in vs : /\ x.slot \in Nat /\ EpochOf(x.slot) \in DOMAIN d
                   /\ <<x.slot, x.validator>> \in d[EpochOf(x.slot)].attested
  /\ \A m \in ms : m.slot \in Nat /\ (m.validator \in Own =>
                   /\ SyncEpoch(m.slot) \in DOMAIN d
                   /\ <<m.slot, m.validator>> \in d[SyncEpoch(m.slot)].broadcasted)
Once(vs, ms) ==
  /\ \A x, y \in vs : x.validator = y.validator /\ x.slot = y.slot => x = y
  /\ \A x, y \in ms : x.validator = y.validator /\ x.slot = y.slot => x = y

(* Flags that are kept still cover what they covered. *)
LEMMA FlaggedStays ==
  ASSUME NEW vs, NEW ms, NEW d, NEW c, Keeps(d, c), Flagged(vs, ms, d)
  PROVE  Flagged(vs, ms, c)
BY DEF Keeps, Flagged

(* What a broadcast adds is flagged and has not been signed before. *)
LEMMA BroadcastOnce ==
  ASSUME NEW vs, NEW ms, NEW d, NEW slot \in Nat, NEW root, NEW p, NEW c,
         IsDuties(d), EpochOf(slot) \in DOMAIN d, SyncEpoch(slot) \in DOMAIN d,
         Flagged(vs, ms, d), Once(vs, ms), Flags(d, slot, c),
         NEW V, V = vs \cup {[validator |-> v, slot |-> slot, root |-> root] : v \in current_attesters(d, slot)},
         NEW M, M = ms \cup {SyncMessage(p, slot, root, v) : v \in current_sync_committee(d, slot)}
  PROVE  Flagged(V, M, c) /\ Once(V, M)
<1> DEFINE nv == {[validator |-> v, slot |-> slot, root |-> root] : v \in current_attesters(d, slot)}
           nm == {SyncMessage(p, slot, root, v) : v \in current_sync_committee(d, slot)}
<1>1. Flagged(vs, ms, c)
  BY DEF Flagged, Flags
<1>2. \A x \in nv : /\ x.slot = slot /\ x.validator \in current_attesters(d, slot)
                    /\ x = [validator |-> x.validator, slot |-> slot, root |-> root]
  OBVIOUS
<1>3. \A m \in nm : /\ m.slot = slot /\ m.validator \in current_sync_committee(d, slot)
                    /\ m = SyncMessage(p, slot, root, m.validator)
  BY DEF SyncMessage
<1> HIDE DEF nv, nm
<1>4. V = vs \cup nv /\ M = ms \cup nm
  BY DEF nv, nm
<1>5. Flagged(V, M, c)
  <2>1. \A x \in nv : /\ x.slot \in Nat /\ EpochOf(x.slot) \in DOMAIN c
                      /\ <<x.slot, x.validator>> \in c[EpochOf(x.slot)].attested
    BY <1>2 DEF Flags
  <2>2. \A m \in nm : /\ m.slot \in Nat /\ SyncEpoch(m.slot) \in DOMAIN c
                      /\ <<m.slot, m.validator>> \in c[SyncEpoch(m.slot)].broadcasted
    BY <1>3 DEF Flags
  <2> QED BY <1>1, <1>4, <2>1, <2>2 DEF Flagged
<1>6. \A x, y \in V : x.validator = y.validator /\ x.slot = y.slot => x = y
  <2>1. \A x \in vs, y \in nv : ~(x.validator = y.validator /\ x.slot = y.slot)
    BY <1>2 DEF Flagged, current_attesters
  <2>2. \A x, y \in nv : x.validator = y.validator => x = y
    BY <1>2
  <2> QED BY <1>4, <2>1, <2>2 DEF Once
<1>7. \A x, y \in M : x.validator = y.validator /\ x.slot = y.slot => x = y
  <2>1. \A x \in ms, y \in nm : ~(x.validator = y.validator /\ x.slot = y.slot)
    <3>1. \A y \in nm : y.validator \in Own /\ <<slot, y.validator>> \notin d[SyncEpoch(slot)].broadcasted
      BY <1>3 DEF current_sync_committee, MembersOf, SyncDuty
    <3> QED BY <1>3, <3>1 DEF Flagged
  <2>2. \A x, y \in nm : x.validator = y.validator => x = y
    BY <1>3
  <2> QED BY <1>4, <2>1, <2>2 DEF Once
<1> QED BY <1>5, <1>6, <1>7 DEF Once

(***************************************************************************)
(* The variables' shape, which every step keeps                            *)
(***************************************************************************)
Shape ==
  /\ clock \in Nat /\ slot_data \in Int /\ store_head \in Nat /\ head \in Nat
  /\ inbox \in Seq(Nat) /\ \A k \in 1..Len(inbox) : inbox[k] <= SlotOf(clock)
  /\ IsDuties(duties)
  /\ DOMAIN rows = Subnets /\ \A n \in Subnets : rows[n] # Nil => "slot" \in DOMAIN rows[n]
  /\ restarts \in Nat /\ skips \in Nat

(* A broadcast raises, or signs and flags; rows it does not start anew it  *)
(* leaves alone.                                                           *)
Started(d, slot, n) ==
  \E v \in current_sync_committee(d, slot) :
    n \in AggregationOf(d, slot, v) /\ <<slot, v>> \notin SyncDuty(d, slot).aggregated

NewVotes(d, slot, root) ==
  {[validator |-> v, slot |-> slot, root |-> root] : v \in current_attesters(d, slot)}
NewMessages(d, slot, root) ==
  {SyncMessage(SyncDuty(d, slot).of, slot, root, v) : v \in current_sync_committee(d, slot)}

(* Broadcasts, with its effect on duties, rows and what is signed. *)
LEMMA BroadcastsDo ==
  ASSUME NEW d, IsDuties(d), NEW slot \in Nat, NEW root,
         EpochOf(slot) \in DOMAIN d, SyncEpoch(slot) \in DOMAIN d, Broadcasts(d, slot, root)
  PROVE  \/ raised' = TRUE /\ UNCHANGED <<duties, rows, votes, messages>>
         \/ /\ Flags(d, slot, duties') /\ raised' = raised
            /\ votes' = votes \cup NewVotes(d, slot, root)
            /\ messages' = messages \cup NewMessages(d, slot, root)
            /\ DOMAIN rows' = Subnets
            /\ \A n \in Subnets : \/ rows'[n] = rows[n]
                                  \/ /\ "slot" \in DOMAIN rows'[n] /\ rows'[n].slot = slot
                                     /\ Started(d, slot, n)
<1>1. CASE current_attesters(d, slot) # {} /\ CommitteeLength # MaxCommittees
  BY <1>1 DEF Broadcasts, network
<1>2. CASE ~(current_attesters(d, slot) # {} /\ CommitteeLength # MaxCommittees)
  <2>1. duties' = LET f == [d EXCEPT ![EpochOf(slot)].attested =
                              @ \cup {<<slot, v>> : v \in current_attesters(d, slot)}]
                  IN  [f EXCEPT ![SyncEpoch(slot)].broadcasted =
                              @ \cup {<<slot, v>> : v \in current_sync_committee(d, slot)}]
    BY <1>2 DEF Broadcasts
  <2>2. Flags(d, slot, duties')
    BY <2>1, Flagging, Zenon
  <2>3. /\ raised' = raised
        /\ votes' = votes \cup NewVotes(d, slot, root)
        /\ messages' = messages \cup NewMessages(d, slot, root)
    BY <1>2 DEF Broadcasts, NewVotes, NewMessages
  <2> DEFINE collectors(n) == {v \in current_sync_committee(d, slot) :
                                 /\ n \in AggregationOf(d, slot, v)
                                 /\ <<slot, v>> \notin SyncDuty(d, slot).aggregated}
             Row(n, low) == NewRow(SyncMessage(SyncDuty(d, slot).of, slot, root,
                                     IF low THEN Min(collectors(n)) ELSE Max(collectors(n))))
  <2>4. \E low \in BOOLEAN : rows' = [n \in Subnets |-> IF collectors(n) = {} THEN rows[n] ELSE Row(n, low)]
    BY <1>2 DEF Broadcasts
  <2>5. \A n, low : "slot" \in DOMAIN Row(n, low) /\ Row(n, low).slot = slot
    BY DEF NewRow, SyncMessage
  <2>6. \A n : collectors(n) # {} => Started(d, slot, n)
    BY DEF Started
  <2> HIDE DEF collectors, Row
  <2>7. /\ DOMAIN rows' = Subnets
        /\ \A n \in Subnets : \/ rows'[n] = rows[n]
                              \/ /\ "slot" \in DOMAIN rows'[n] /\ rows'[n].slot = slot
                                 /\ Started(d, slot, n)
    BY <2>4, <2>5, <2>6
  <2> QED BY <2>2, <2>3, <2>7
<1> QED BY <1>1, <1>2

(* What the ticks of the three thirds and a head do with the duties and    *)
(* the rows.                                                               *)
Broadcasted(slot) == \E root : Broadcasts(compute_duties(duties, slot), slot, root)
BroadcastedOn(slot, root) == Broadcasts(compute_duties(duties, slot), slot, root)
Proposed == Propose(compute_duties(duties, SlotOf(clock)), SlotOf(clock))
Published == PublishAggregates(compute_duties(duties, SlotOf(clock)), SlotOf(clock))
StoodStill == raised' = TRUE /\ UNCHANGED <<duties, rows, votes, messages, contributions, proposals, refused>>

(* A tick either raises or does the work of its third. *)
LEMMA TickCases ==
  ASSUME OnTick, clock \in Nat
  PROVE  /\ slot_data' = clock /\ UNCHANGED <<clock, store_head, inbox, head, skips, restarts>>
         /\ slot_data # clock /\ ~raised
         /\ \/ StoodStill
            \/ clock % 3 = 0 /\ Proposed
            \/ clock % 3 = 1 /\ Broadcasted(SlotOf(clock)) /\ BroadcastedOn(SlotOf(clock), head)
            \/ clock % 3 = 2 /\ Published
<1>1. clock % 3 \in {0, 1, 2}
  OBVIOUS
<1> DEFINE slot == SlotOf(clock)
           d == compute_duties(duties, slot)
<1>2. slot_data' = clock /\ UNCHANGED <<clock, store_head, inbox, head, skips, restarts>> /\ slot_data # clock /\ ~raised
  BY DEF OnTick, Running, faults
<1>3. CASE ComputeRaises(duties, slot)
  BY <1>2, <1>3 DEF OnTick, Raises, StoodStill, network
<1>4. CASE ~ComputeRaises(duties, slot)
  <2>1. CASE clock % 3 = 0
    <3>0. ~(clock % 3 = 1) /\ ~(clock % 3 = 2)
      BY <2>1
    <3>1. Propose(d, slot)
      <4> HIDE DEF d, slot
      <4> QED BY <1>4, <2>1, <3>0, Zenon DEF OnTick, d, slot
    <3> QED BY <1>2, <2>1, <3>1 DEF Proposed
  <2>2. CASE clock % 3 = 1
    <3>0. ~(clock % 3 = 0) /\ ~(clock % 3 = 2)
      BY <2>2
    <3>1. Broadcasts(d, slot, head)
      <4> HIDE DEF d, slot
      <4> QED BY <1>4, <2>2, <3>0, Zenon DEF OnTick, d, slot
    <3> QED BY <1>2, <2>2, <3>1 DEF Broadcasted, BroadcastedOn
  <2>3. CASE clock % 3 = 2
    <3>1. PublishAggregates(d, slot)
      BY <1>4, <2>3 DEF OnTick
    <3> QED BY <1>2, <2>3, <3>1 DEF Published
  <2> QED BY <1>1, <2>1, <2>2, <2>3
<1> QED BY <1>3, <1>4

(* A head either raises or makes the node broadcast for the block's slot. *)
LEMMA HeadCases ==
  ASSUME NotifyHead
  PROVE  /\ ~raised /\ inbox # <<>> /\ head' = inbox[1] /\ inbox' = Tail(inbox)
         /\ UNCHANGED <<clock, slot_data, store_head, skips, restarts>>
         /\ StoodStill \/ (Broadcasted(inbox[1]) /\ BroadcastedOn(inbox[1], inbox[1]))
BY DEF NotifyHead, Running, faults, Raises, StoodStill, Broadcasted, BroadcastedOn, network

(* A proposal leaves the rows and what is signed alone; it raises with the *)
(* duties as they were, or computes them.                                  *)
LEMMA ProposedDo ==
  ASSUME Proposed
  PROVE  /\ UNCHANGED <<rows, messages, contributions, votes>>
         /\ \/ raised' = TRUE /\ UNCHANGED <<duties, proposals, refused>>
            \/ duties' = compute_duties(duties, SlotOf(clock)) /\ raised' = raised
<1> DEFINE d == compute_duties(duties, SlotOf(clock))
<1>1. Propose(d, SlotOf(clock))
  BY DEF Proposed
<1> HIDE DEF d
<1>2. UNCHANGED <<rows, messages, contributions, votes>>
  BY <1>1 DEF Propose
<1>3. (raised' = TRUE /\ UNCHANGED <<duties, proposals, refused>>) \/ (duties' = d /\ raised' = raised)
  BY <1>1, Zenon DEF Propose
<1> QED BY <1>2, <1>3 DEF d

(* PublishAggregates raises, with some of the rows emptied, or flags the   *)
(* aggregators and empties the rows it takes; with nothing taken for       *)
(* granted about what the rows hold.                                       *)
LEMMA PublishedDo ==
  ASSUME Shape, Published, NEW d, d = compute_duties(duties, SlotOf(clock)), IsDuties(d),
         SyncEpoch(SlotOf(clock)) \in DOMAIN d
  PROVE  /\ UNCHANGED <<votes, messages>> /\ DOMAIN rows' = Subnets
         /\ \A n \in Subnets : rows'[n] \in {rows[n], Nil}
         /\ \/ raised' = TRUE /\ UNCHANGED duties
            \/ /\ IsDuties(duties') /\ DOMAIN duties' = DOMAIN d
               /\ \A x \in DOMAIN d : /\ duties'[x].of = d[x].of /\ duties'[x].attested = d[x].attested
                                      /\ duties'[x].broadcasted = d[x].broadcasted
               /\ \A n \in Subnets :
                    (\E v \in current_sync_aggregators(d, SlotOf(clock)) :
                       n \in AggregationOf(d, SlotOf(clock), v)) => rows'[n] = Nil
<1> DEFINE slot == SlotOf(clock)
           aggregators == current_sync_aggregators(d, slot)
           p == PeriodOf(SyncEpoch(slot))
           taken == {n \in Subnets : /\ rows[n] # Nil
                                     /\ \E v \in aggregators : n \in AggregationOf(d, slot, v)}
           bad == {n \in taken : ContributionRaises(rows[n].messages, p, n)}
           G == {<<slot, v>> : v \in aggregators}
           y == SyncEpoch(slot)
<1>1. slot \in Nat
  BY DEF Shape, SlotOf
<1>2. /\ UNCHANGED <<votes, messages>> /\ raised' = (bad # {})
      /\ \E done \in SUBSET (taken \ bad), hit \in SUBSET bad :
           /\ IF bad = {} THEN done = taken ELSE Cardinality(hit) = 1
           /\ rows' = [n \in Subnets |-> IF n \in done \cup hit THEN Nil ELSE rows[n]]
      /\ duties' = IF bad # {} THEN duties ELSE [d EXCEPT ![y].aggregated = @ \cup G]
  <2>1. PublishAggregates(d, slot)
    BY DEF Published
  <2>2. UNCHANGED <<votes, messages>>
    BY <2>1 DEF PublishAggregates
  <2>3. raised' = (bad # {}) /\ duties' = IF bad # {} THEN duties ELSE [d EXCEPT ![y].aggregated = @ \cup G]
    BY <2>1, Zenon DEF PublishAggregates
  <2>4. \E done \in SUBSET (taken \ bad), hit \in SUBSET bad :
           /\ IF bad = {} THEN done = taken ELSE Cardinality(hit) = 1
           /\ rows' = [n \in Subnets |-> IF n \in done \cup hit THEN Nil ELSE rows[n]]
    BY <2>1, Zenon DEF PublishAggregates
  <2> QED BY <2>2, <2>3, <2>4, Zenon
<1>3. taken \subseteq Subnets /\ \A n \in Subnets : n \notin taken =>
        rows[n] = Nil \/ ~\E v \in aggregators : n \in AggregationOf(d, slot, v)
  OBVIOUS
<1>4. G \in SUBSET (Nat \X Own)
  <2>1. aggregators \subseteq Own
    BY DEF current_sync_aggregators, MembersOf
  <2> QED BY <2>1, <1>1
<1> HIDE DEF taken, bad, G, y
<1>5. DOMAIN rows' = Subnets /\ \A n \in Subnets : rows'[n] \in {rows[n], Nil}
  BY <1>2
<1>6. CASE bad # {}
  BY <1>2, <1>5, <1>6
<1>7. CASE bad = {}
  <2>1. rows' = [n \in Subnets |-> IF n \in taken THEN Nil ELSE rows[n]]
    BY <1>2, <1>7
  <2>2. duties' = [d EXCEPT ![y].aggregated = @ \cup G]
    BY <1>2, <1>7
  <2>3. \A n \in Subnets : (\E v \in aggregators : n \in AggregationOf(d, slot, v)) => rows'[n] = Nil
    BY <1>3, <2>1
  <2>5. d \in [DOMAIN d -> DutyType] /\ y \in DOMAIN d
    BY DEF IsDuties, y
  <2>6. duties'[y] = [d[y] EXCEPT !.aggregated = d[y].aggregated \cup G] /\ DOMAIN duties' = DOMAIN d
    BY <2>2, <2>5
  <2>7. \A x \in DOMAIN d : x # y => duties'[x] = d[x]
    BY <2>2, <2>5
  <2>8. d[y] \in DutyType
    BY <2>5
  <2>9. /\ duties'[y] \in DutyType /\ duties'[y].broadcasted = d[y].broadcasted
        /\ duties'[y].of = d[y].of /\ duties'[y].attested = d[y].attested
    BY <1>4, <2>6, <2>8 DEF DutyType
  <2>10. duties' \in [DOMAIN d -> DutyType]
    <3> HIDE DEF DutyType
    <3>1. duties' = [x \in DOMAIN d |-> duties'[x]]
      BY <2>2, <2>5, <2>6
    <3> QED BY <3>1, <2>5, <2>7, <2>9
  <2>11. IsDuties(duties')
    BY <2>6, <2>10 DEF IsDuties
  <2> QED BY <1>2, <1>5, <2>3, <2>6, <2>7, <2>9, <2>11
<1> QED BY <1>6, <1>7

(* Shape holds from the start. *)
LEMMA InitShape == Init => Shape
<1> SUFFICES ASSUME Init PROVE Shape
  OBVIOUS
<1>1. IsDuties(NoDuties)
  BY DEF NoDuties, IsDuties
<1>2. IsDuties(duties)
  BY <1>1, ComputedDuties DEF Init
<1> QED BY <1>2 DEF Init, Shape, SlotOf

(* A broadcast for a slot keeps the shape of duties and rows. *)
LEMMA BroadcastShape ==
  ASSUME Shape, NEW slot \in Nat, Broadcasted(slot)
  PROVE  IsDuties(duties') /\ DOMAIN rows' = Subnets /\ \A n \in Subnets : rows'[n] # Nil => "slot" \in DOMAIN rows'[n]
<1> DEFINE d == compute_duties(duties, slot)
<1>1. /\ IsDuties(d) /\ EpochOf(slot) \in DOMAIN d /\ SyncEpoch(slot) \in DOMAIN d
  BY ComputedDuties DEF Shape
<1>2. PICK root : Broadcasts(d, slot, root)
  BY DEF Broadcasted
<1> HIDE DEF d
<1> QED BY <1>1, <1>2, BroadcastsDo DEF Shape, Flags

(* Every step keeps it. *)
LEMMA NextShape == Shape /\ [Next]_vars => Shape'
<1> SUFFICES ASSUME Shape, [Next]_vars PROVE Shape'
  OBVIOUS
<1> DEFINE d == compute_duties(duties, SlotOf(clock))
<1>0. SlotOf(clock) \in Nat
  BY DEF Shape, SlotOf
<1>1. CASE OnTick
  <2>0. clock \in Nat
    BY DEF Shape
  <2>1. /\ slot_data' = clock /\ UNCHANGED <<clock, store_head, inbox, head, skips, restarts>>
        /\ \/ StoodStill \/ Proposed \/ Broadcasted(SlotOf(clock)) \/ Published
    BY <1>1, <2>0, TickCases
  <2>2. IsDuties(d) /\ SyncEpoch(SlotOf(clock)) \in DOMAIN d
    BY <1>0, ComputedDuties DEF Shape
  <2>3. /\ IsDuties(duties') /\ DOMAIN rows' = Subnets
        /\ \A n \in Subnets : rows'[n] # Nil => "slot" \in DOMAIN rows'[n]
    <3>1. CASE StoodStill
      BY <3>1 DEF StoodStill, Shape
    <3>2. CASE Proposed
      BY <3>2, <2>2, ProposedDo DEF Shape
    <3>3. CASE Broadcasted(SlotOf(clock))
      BY <3>3, <1>0, BroadcastShape
    <3>4. CASE Published
      <4> HIDE DEF d
      <4>1. d = compute_duties(duties, SlotOf(clock))
        BY DEF d
      <4> QED BY <3>4, <4>1, <2>2, PublishedDo DEF Shape
    <3> QED BY <2>1, <3>1, <3>2, <3>3, <3>4
  <2> QED BY <2>1, <2>3 DEF Shape
<1>2. CASE NotifyHead
  <2>1. /\ inbox # <<>> /\ head' = inbox[1] /\ inbox' = Tail(inbox)
        /\ UNCHANGED <<clock, slot_data, store_head, skips, restarts>>
        /\ StoodStill \/ Broadcasted(inbox[1])
    BY <1>2, HeadCases
  <2>2. inbox[1] \in Nat /\ inbox' \in Seq(Nat)
    BY <2>1 DEF Shape
  <2>3. \A k \in 1..Len(inbox') : inbox'[k] <= SlotOf(clock)
    BY <2>1 DEF Shape
  <2>4. /\ IsDuties(duties') /\ DOMAIN rows' = Subnets
        /\ \A n \in Subnets : rows'[n] # Nil => "slot" \in DOMAIN rows'[n]
    BY <2>1, <2>2, BroadcastShape DEF StoodStill, Shape
  <2>5. SlotOf(clock)' = SlotOf(clock)
    BY <2>1 DEF SlotOf
  <2> QED BY <2>1, <2>2, <2>3, <2>4, <2>5 DEF Shape
<1>3. CASE NewBlock
  <2>1. PICK slot \in (store_head + 1)..SlotOf(clock) : store_head' = slot /\ inbox' = Append(inbox, slot)
    BY <1>3 DEF NewBlock
  <2>2. UNCHANGED <<clock, slot_data, head, duties, rows, skips, restarts>>
    BY <1>3 DEF NewBlock
  <2>3. slot \in Nat /\ slot <= SlotOf(clock)
    BY <1>0, <2>1 DEF Shape
  <2>4. inbox' \in Seq(Nat) /\ \A k \in 1..Len(inbox') : inbox'[k] <= SlotOf(clock)
    BY <2>1, <2>3 DEF Shape
  <2> QED BY <2>1, <2>2, <2>3, <2>4 DEF Shape, SlotOf
<1>4. CASE Deliver
  <2>0. PICK n \in Subnets : rows[n] # Nil /\ \E m : rows' = [rows EXCEPT ![n].messages = <<m>> \o @]
    BY <1>4 DEF Deliver
  <2>1. PICK m : rows' = [rows EXCEPT ![n].messages = <<m>> \o @]
    BY <2>0
  <2>2. UNCHANGED <<clock, slot_data, store_head, inbox, head, duties, skips, restarts>>
    BY <1>4 DEF Deliver, faults
  <2>3. DOMAIN rows' = Subnets /\ \A k \in Subnets : DOMAIN rows'[k] = DOMAIN rows[k] /\ (rows[k] = Nil => rows'[k] = Nil)
    BY <2>0, <2>1 DEF Shape
  <2> QED BY <2>2, <2>3 DEF Shape, SlotOf
<1>5. CASE TimePasses
  <2>1. /\ clock' = clock + 1 /\ skips' \in Nat
        /\ UNCHANGED <<slot_data, store_head, inbox, head, duties, rows, restarts>>
    BY <1>5 DEF TimePasses, Shape
  <2>2. SlotOf(clock) <= SlotOf(clock + 1) /\ SlotOf(clock + 1) \in Nat
    BY DEF SlotOf, Shape
  <2> QED BY <1>0, <2>1, <2>2 DEF Shape
<1>6. CASE Restart
  <2>1. /\ UNCHANGED <<clock, store_head, rows, skips>> /\ restarts' = restarts + 1
        /\ slot_data' = -1 /\ inbox' = <<>> /\ head' = store_head
        /\ duties' = compute_duties(NoDuties, store_head)
    BY <1>6 DEF Restart
  <2>2. IsDuties(duties')
    <3>1. IsDuties(NoDuties)
      BY DEF NoDuties, IsDuties
    <3> QED BY <2>1, <3>1, ComputedDuties DEF Shape
  <2> QED BY <2>1, <2>2 DEF Shape
<1>7. CASE ReceiveContribution \/ PeerSigns \/ PeerContributes \/ UNCHANGED vars
  <2>1. UNCHANGED <<clock, slot_data, store_head, inbox, head, duties, rows, skips, restarts>>
    BY <1>7 DEF ReceiveContribution, PeerSigns, PeerContributes, vars, faults
  <2> QED BY <2>1 DEF Shape, SlotOf
<1> QED BY <1>1, <1>2, <1>3, <1>4, <1>5, <1>6, <1>7 DEF Next

(***************************************************************************)
(* SignsOnce                                                               *)
(***************************************************************************)
SignInv == restarts = 0 => Flagged(votes, messages, duties) /\ Once(votes, messages)

(* A broadcast of either handler keeps SignInv. *)
LEMMA BroadcastSign ==
  ASSUME Shape, SignInv, NEW slot \in Nat, Broadcasted(slot), UNCHANGED restarts
  PROVE  SignInv'
<1> DEFINE d == compute_duties(duties, slot)
<1>1. /\ IsDuties(d) /\ Keeps(duties, d) /\ EpochOf(slot) \in DOMAIN d /\ SyncEpoch(slot) \in DOMAIN d
  BY ComputedDuties DEF Shape
<1>2. PICK root : Broadcasts(d, slot, root)
  BY DEF Broadcasted
<1> HIDE DEF d
<1>3. SUFFICES ASSUME restarts = 0 PROVE Flagged(votes', messages', duties') /\ Once(votes', messages')
  BY DEF SignInv
<1>4. Flagged(votes, messages, duties) /\ Once(votes, messages)
  BY <1>3 DEF SignInv
<1>5. Flagged(votes, messages, d)
  BY <1>1, <1>4, FlaggedStays
<1>6. CASE UNCHANGED <<duties, votes, messages>>
  BY <1>4, <1>6
<1>7. CASE /\ Flags(d, slot, duties')
           /\ votes' = votes \cup NewVotes(d, slot, root)
           /\ messages' = messages \cup NewMessages(d, slot, root)
  BY <1>1, <1>4, <1>5, <1>7, BroadcastOnce DEF NewVotes, NewMessages
<1>8. \/ UNCHANGED <<duties, votes, messages>>
      \/ /\ Flags(d, slot, duties')
         /\ votes' = votes \cup NewVotes(d, slot, root)
         /\ messages' = messages \cup NewMessages(d, slot, root)
  BY <1>1, <1>2, BroadcastsDo
<1> QED BY <1>6, <1>7, <1>8, Zenon

(* Every step keeps it: a peer signs once by itself, and what is signed    *)
(* after a restart is not claimed.                                         *)
LEMMA NextSign == Shape /\ SignInv /\ [Next]_vars => SignInv'
<1> SUFFICES ASSUME Shape, SignInv, [Next]_vars PROVE SignInv'
  OBVIOUS
<1> DEFINE d == compute_duties(duties, SlotOf(clock))
<1>0. SlotOf(clock) \in Nat /\ clock \in Nat
  BY DEF Shape, SlotOf
<1>1. CASE OnTick
  <2>1. /\ UNCHANGED restarts
        /\ \/ StoodStill \/ Proposed \/ Broadcasted(SlotOf(clock)) \/ Published
    BY <1>1, <1>0, TickCases
  <2>2. IsDuties(d) /\ Keeps(duties, d) /\ SyncEpoch(SlotOf(clock)) \in DOMAIN d
    BY <1>0, ComputedDuties DEF Shape
  <2>3. CASE StoodStill
    BY <2>1, <2>3 DEF StoodStill, SignInv
  <2>4. CASE Proposed
    <3>1. restarts = 0 => Flagged(votes, messages, d)
      BY <2>2, FlaggedStays DEF SignInv
    <3> HIDE DEF d
    <3>2. UNCHANGED <<votes, messages>> /\ (duties' = duties \/ duties' = d)
      BY <2>4, ProposedDo DEF d
    <3> QED BY <2>1, <3>1, <3>2 DEF SignInv
  <2>5. CASE Broadcasted(SlotOf(clock))
    BY <1>0, <2>1, <2>5, BroadcastSign
  <2>6. CASE Published
    <3>0. restarts = 0 => Flagged(votes, messages, d)
      BY <2>2, FlaggedStays DEF SignInv
    <3>1. d = compute_duties(duties, SlotOf(clock))
      OBVIOUS
    <3> HIDE DEF d
    <3>2. /\ UNCHANGED <<votes, messages>>
          /\ \/ UNCHANGED duties
             \/ /\ DOMAIN duties' = DOMAIN d
                /\ \A x \in DOMAIN d : /\ duties'[x].attested = d[x].attested
                                       /\ duties'[x].broadcasted = d[x].broadcasted
      BY <2>2, <2>6, <3>1, PublishedDo
    <3>3. CASE UNCHANGED duties
      BY <2>1, <3>2, <3>3 DEF SignInv
    <3> QED BY <2>1, <3>0, <3>2, <3>3 DEF SignInv, Flagged
  <2> QED BY <2>1, <2>3, <2>4, <2>5, <2>6
<1>2. CASE NotifyHead
  <2>1. inbox # <<>> /\ UNCHANGED restarts /\ (StoodStill \/ Broadcasted(inbox[1]))
    BY <1>2, HeadCases
  <2>2. inbox[1] \in Nat
    BY <2>1 DEF Shape
  <2>3. CASE StoodStill
    BY <2>1, <2>3 DEF StoodStill, SignInv
  <2> QED BY <2>1, <2>2, <2>3, BroadcastSign
<1>3. CASE PeerSigns
  <2>1. PICK v \in Peers, root \in {store_head} \cup {SlotOf(clock)} :
          /\ ~\E m \in messages : m.validator = v /\ m.slot = SlotOf(clock)
          /\ messages' = messages \cup {SyncMessage(PeriodOf(SyncEpoch(SlotOf(clock))), SlotOf(clock), root, v)}
    BY <1>3 DEF PeerSigns
  <2>2. UNCHANGED <<duties, votes, restarts>>
    BY <1>3 DEF PeerSigns, faults
  <2> DEFINE new == SyncMessage(PeriodOf(SyncEpoch(SlotOf(clock))), SlotOf(clock), root, v)
  <2>3. new.validator = v /\ new.slot = SlotOf(clock) /\ v \notin Own
    BY ValidatorsAssumption DEF SyncMessage
  <2> HIDE DEF new
  <2>4. messages' = messages \cup {new}
    BY <2>1 DEF new
  <2> QED BY <1>0, <2>1, <2>2, <2>3, <2>4 DEF SignInv, Flagged, Once
<1>4. CASE Restart
  <2>1. restarts' # 0
    BY <1>4 DEF Restart, Shape
  <2> QED BY <2>1 DEF SignInv
<1>5. CASE NewBlock \/ Deliver \/ ReceiveContribution \/ PeerContributes \/ TimePasses \/ UNCHANGED vars
  <2>1. UNCHANGED <<duties, votes, messages, restarts>>
    BY <1>5 DEF NewBlock, Deliver, ReceiveContribution, PeerContributes, TimePasses, vars, network, faults
  <2> QED BY <2>1 DEF SignInv
<1> QED BY <1>1, <1>2, <1>3, <1>4, <1>5 DEF Next

(* Without a restart no validator signs two things for one slot, whichever *)
(* of ticks and heads make it sign and in whatever order heads come.       *)
THEOREM NobodySignsTwice == Spec => []SignsOnce
<1>1. Init => SignInv
  BY DEF Init, SignInv, Flagged, Once
<1>2. SignInv => SignsOnce
  BY DEF SignInv, SignsOnce, Once
<1> QED BY <1>1, <1>2, InitShape, NextShape, NextSign, PTL DEF Spec

(***************************************************************************)
(* RowsAreCurrent. A row is emptied in the last third of its slot because  *)
(* whoever it was begun for is still to aggregate then; a late head begins *)
(* none for an earlier slot because everybody has broadcast in it, at the  *)
(* tick of its second third.                                               *)
(***************************************************************************)
AllSent(d, s) == SyncEpoch(s) \in DOMAIN d /\ current_sync_committee(d, s) = {}
Awaited(d, s, n) ==
  /\ SyncEpoch(s) \in DOMAIN d
  /\ \E v \in current_sync_aggregators(d, s) : n \in AggregationOf(d, s, v)

RowInv ==
  InTime =>
    /\ slot_data \in {clock, clock - 1}
    /\ \A n \in Subnets : rows[n] # Nil => rows[n].slot = SlotOf(clock)
    /\ ~raised =>
         /\ \A s \in Nat : 3 * s + 1 <= slot_data => AllSent(duties, s)
         /\ \A n \in Subnets : rows[n] # Nil => Awaited(duties, SlotOf(clock), n)
         /\ clock % 3 = 2 /\ slot_data = clock => \A n \in Subnets : rows[n] = Nil

(* Who has sent and who is awaited depends on the duties only. *)
LEMMA KeepsSent ==
  ASSUME NEW d, NEW c, Keeps(d, c), NEW s, NEW n
  PROVE  (AllSent(d, s) => AllSent(c, s)) /\ (Awaited(d, s, n) => Awaited(c, s, n))
BY DEF Keeps, AllSent, Awaited, SyncDuty, current_sync_committee, current_sync_aggregators, AggregationOf

(* A broadcast unsends nothing and takes nobody's aggregation away. *)
LEMMA FlagsSent ==
  ASSUME NEW d, NEW slot, NEW c, Flags(d, slot, c), NEW s, NEW n
  PROVE  (AllSent(d, s) => AllSent(c, s)) /\ (Awaited(d, s, n) => Awaited(c, s, n))
<1>1. SyncEpoch(s) \in DOMAIN d =>
        /\ SyncEpoch(s) \in DOMAIN c
        /\ SyncDuty(c, s).of = SyncDuty(d, s).of /\ SyncDuty(c, s).aggregated = SyncDuty(d, s).aggregated
        /\ SyncDuty(d, s).broadcasted \subseteq SyncDuty(c, s).broadcasted
  BY DEF Flags, SyncDuty
<1>2. AllSent(d, s) => AllSent(c, s)
  BY <1>1 DEF AllSent, current_sync_committee
<1>3. Awaited(d, s, n) => Awaited(c, s, n)
  BY <1>1 DEF Awaited, current_sync_aggregators, AggregationOf
<1> QED BY <1>2, <1>3

(* After it all members have sent, and a row begun is awaited. *)
LEMMA FlagsAll ==
  ASSUME NEW d, NEW slot, NEW c, Flags(d, slot, c), SyncEpoch(slot) \in DOMAIN d
  PROVE  AllSent(c, slot) /\ \A n : Started(d, slot, n) => Awaited(c, slot, n)
<1>1. /\ SyncEpoch(slot) \in DOMAIN c
      /\ SyncDuty(c, slot).of = SyncDuty(d, slot).of
      /\ SyncDuty(d, slot).broadcasted \subseteq SyncDuty(c, slot).broadcasted
      /\ \A v \in current_sync_committee(d, slot) : <<slot, v>> \in SyncDuty(c, slot).broadcasted
  BY DEF Flags, SyncDuty
<1>2. AllSent(c, slot)
  BY <1>1 DEF AllSent, current_sync_committee
<1>3. \A n : Started(d, slot, n) => Awaited(d, slot, n)
  BY DEF Started, Awaited, current_sync_aggregators, current_sync_committee
<1>4. \A n : Started(d, slot, n) => Awaited(c, slot, n)
  BY <1>3, FlagsSent
<1> QED BY <1>2, <1>4

(* What a broadcast does to the rows and the duties, at whatever third. *)
LEMMA BroadcastRow ==
  ASSUME Shape, RowInv, skips = 0, restarts = 0, ~raised, UNCHANGED clock,
         NEW slot \in Nat, slot <= SlotOf(clock), Broadcasted(slot)
  PROVE  /\ \A n \in Subnets : rows'[n] # Nil => rows'[n].slot = SlotOf(clock)
         /\ ~raised' => /\ \A s \in Nat : AllSent(duties, s) => AllSent(duties', s)
                        /\ AllSent(duties', slot)
                        /\ \A n \in Subnets : rows'[n] # Nil => Awaited(duties', SlotOf(clock), n)
                        /\ 3 * slot + 1 <= slot_data => \A n \in Subnets : rows'[n] = rows[n]
<1> DEFINE d == compute_duties(duties, slot)
<1>1. /\ IsDuties(d) /\ Keeps(duties, d) /\ EpochOf(slot) \in DOMAIN d /\ SyncEpoch(slot) \in DOMAIN d
  BY ComputedDuties DEF Shape
<1>2. PICK root : Broadcasts(d, slot, root)
  BY DEF Broadcasted
<1> HIDE DEF d
<1>3. /\ slot_data \in {clock, clock - 1} /\ clock \in Nat /\ slot_data \in Int
      /\ \A n \in Subnets : rows[n] # Nil => rows[n].slot = SlotOf(clock)
      /\ \A s \in Nat : 3 * s + 1 <= slot_data => AllSent(duties, s)
      /\ \A n \in Subnets : rows[n] # Nil => Awaited(duties, SlotOf(clock), n)
  BY DEF InTime, RowInv, Shape
<1>4. CASE raised' = TRUE /\ UNCHANGED rows
  BY <1>3, <1>4
<1>5. CASE /\ Flags(d, slot, duties')
           /\ \A n \in Subnets : \/ rows'[n] = rows[n]
                                 \/ rows'[n].slot = slot /\ Started(d, slot, n)
  <2>1. \A s \in Nat : AllSent(duties, s) => AllSent(duties', s)
    BY <1>1, <1>5, KeepsSent, FlagsSent
  <2>2. AllSent(duties', slot) /\ \A n : Started(d, slot, n) => Awaited(duties', slot, n)
    BY <1>1, <1>5, FlagsAll
  <2>3. \A n \in Subnets : rows[n] # Nil => Awaited(duties', SlotOf(clock), n)
    BY <1>1, <1>3, <1>5, KeepsSent, FlagsSent
  <2>4. 3 * slot + 1 <= slot_data => \A n : ~Started(d, slot, n)
    <3>1. 3 * slot + 1 <= slot_data => AllSent(d, slot)
      BY <1>1, <1>3, KeepsSent
    <3> QED BY <3>1 DEF Started, AllSent
  <2>5. ~(3 * slot + 1 <= slot_data) => slot = SlotOf(clock)
    BY <1>3 DEF SlotOf
  <2> QED BY <1>3, <1>5, <2>1, <2>2, <2>3, <2>4, <2>5
<1>6. \/ raised' = TRUE /\ UNCHANGED rows
      \/ /\ Flags(d, slot, duties')
         /\ \A n \in Subnets : \/ rows'[n] = rows[n]
                               \/ rows'[n].slot = slot /\ Started(d, slot, n)
  BY <1>1, <1>2, BroadcastsDo
<1> QED BY <1>4, <1>5, <1>6

(* Every step keeps RowInv. *)
LEMMA NextRow == Shape /\ RowInv /\ [Next]_vars => RowInv'
<1> SUFFICES ASSUME Shape, RowInv, [Next]_vars, (skips = 0 /\ restarts = 0)' PROVE RowInv'
  BY DEF InTime, RowInv
<1> DEFINE slot == SlotOf(clock)
           d == compute_duties(duties, slot)
<1>0. slot \in Nat /\ clock \in Nat /\ slot_data \in Int
  BY DEF Shape, SlotOf
<1>1. skips = 0 /\ restarts = 0
  <2>1. CASE TimePasses \/ Restart
    BY <2>1 DEF TimePasses, Restart, Shape
  <2>2. CASE ~(TimePasses \/ Restart)
    BY <2>2 DEF Next, vars, OnTick, NotifyHead, NewBlock, Deliver, ReceiveContribution, PeerSigns,
                PeerContributes, faults
  <2> QED BY <2>1, <2>2
<1>2. /\ slot_data \in {clock, clock - 1}
      /\ \A n \in Subnets : rows[n] # Nil => rows[n].slot = slot
      /\ ~raised =>
           /\ \A s \in Nat : 3 * s + 1 <= slot_data => AllSent(duties, s)
           /\ \A n \in Subnets : rows[n] # Nil => Awaited(duties, slot, n)
           /\ clock % 3 = 2 /\ slot_data = clock => \A n \in Subnets : rows[n] = Nil
  BY <1>1 DEF InTime, RowInv
<1> HIDE DEF slot
<1>a. SUFFICES /\ slot_data' \in {clock', clock' - 1}
               /\ \A n \in Subnets : rows'[n] # Nil => rows'[n].slot = SlotOf(clock')
               /\ ~raised' =>
                   /\ \A s \in Nat : 3 * s + 1 <= slot_data' => AllSent(duties', s)
                   /\ \A n \in Subnets : rows'[n] # Nil => Awaited(duties', SlotOf(clock'), n)
                   /\ clock' % 3 = 2 /\ slot_data' = clock' => \A n \in Subnets : rows'[n] = Nil
  BY DEF InTime, RowInv
<1>3. CASE OnTick
  <2>1. /\ slot_data' = clock /\ UNCHANGED clock /\ slot_data # clock /\ ~raised
        /\ \/ StoodStill
           \/ clock % 3 = 0 /\ Proposed
           \/ clock % 3 = 1 /\ Broadcasted(slot)
           \/ clock % 3 = 2 /\ Published
    BY <1>0, <1>3, TickCases DEF slot
  <2>2. slot_data = clock - 1 /\ SlotOf(clock') = slot
    BY <1>2, <2>1 DEF slot
  <2>3. CASE StoodStill
    BY <1>2, <2>1, <2>2, <2>3 DEF StoodStill
  <2>4. IsDuties(d) /\ Keeps(duties, d) /\ SyncEpoch(slot) \in DOMAIN d
    BY <1>0, ComputedDuties DEF Shape
  <2>5. /\ \A s \in Nat : AllSent(duties, s) => AllSent(d, s)
        /\ \A n \in Subnets : rows[n] # Nil => Awaited(d, slot, n)
    BY <1>2, <2>1, <2>4, KeepsSent
  <2>6. CASE clock % 3 = 0 /\ Proposed
    <3>1. \A s \in Nat : 3 * s + 1 <= clock => 3 * s + 1 <= clock - 1
      BY <1>0, <2>6
    <3>2. rows' = rows /\ (raised' = TRUE \/ (duties' = d /\ raised' = raised))
      BY <2>6, ProposedDo DEF slot
    <3> HIDE DEF d
    <3> QED BY <1>2, <2>1, <2>2, <2>5, <2>6, <3>1, <3>2
  <2>7. CASE clock % 3 = 1 /\ Broadcasted(slot)
    <3>1. \A s \in Nat : 3 * s + 1 <= clock => 3 * s + 1 <= clock - 1 \/ s = slot
      BY <1>0, <2>7 DEF slot, SlotOf
    <3>2. slot <= SlotOf(clock)
      BY <1>0 DEF slot
    <3>3. /\ \A n \in Subnets : rows'[n] # Nil => rows'[n].slot = slot
          /\ ~raised' => /\ \A s \in Nat : AllSent(duties, s) => AllSent(duties', s)
                         /\ AllSent(duties', slot)
                         /\ \A n \in Subnets : rows'[n] # Nil => Awaited(duties', slot, n)
      BY <1>0, <1>1, <2>1, <2>7, <3>2, BroadcastRow DEF slot
    <3>4. ~(clock % 3 = 2)
      BY <2>7
    <3> QED BY <1>2, <2>1, <2>2, <3>1, <3>3, <3>4
  <2>8. CASE clock % 3 = 2 /\ Published
    <3>1. d = compute_duties(duties, SlotOf(clock)) /\ SlotOf(clock) = slot
      BY DEF slot
    <3> HIDE DEF d
    <3>2. /\ \A n \in Subnets : rows'[n] \in {rows[n], Nil}
          /\ \/ raised' = TRUE
             \/ /\ DOMAIN duties' = DOMAIN d
                /\ \A x \in DOMAIN d : duties'[x].of = d[x].of /\ duties'[x].broadcasted = d[x].broadcasted
                /\ \A n \in Subnets :
                     (\E v \in current_sync_aggregators(d, slot) : n \in AggregationOf(d, slot, v)) => rows'[n] = Nil
      BY <2>4, <2>8, <3>1, PublishedDo
    <3>3. CASE raised' = TRUE
      BY <1>2, <2>1, <2>2, <3>2, <3>3
    <3>4. CASE raised' # TRUE
      <4>1. \A n \in Subnets : rows'[n] = Nil
        BY <2>5, <3>2, <3>4 DEF Awaited
      <4>2. \A s \in Nat : AllSent(d, s) => AllSent(duties', s)
        BY <3>2, <3>4 DEF AllSent, current_sync_committee, SyncDuty
      <4>3. \A s \in Nat : 3 * s + 1 <= clock => 3 * s + 1 <= clock - 1
        BY <1>0, <2>8
      <4> QED BY <1>2, <2>1, <2>2, <2>5, <4>1, <4>2, <4>3
    <3> QED BY <3>3, <3>4
  <2> QED BY <2>1, <2>3, <2>6, <2>7, <2>8
<1>4. CASE NotifyHead
  <2>1. /\ ~raised /\ inbox # <<>> /\ UNCHANGED <<clock, slot_data>>
        /\ StoodStill \/ Broadcasted(inbox[1])
    BY <1>4, HeadCases
  <2>2. inbox[1] \in Nat /\ inbox[1] <= SlotOf(clock)
    BY <2>1 DEF Shape
  <2>3. SlotOf(clock') = slot
    BY <2>1 DEF slot
  <2>4. CASE StoodStill
    BY <1>2, <2>1, <2>3, <2>4 DEF StoodStill
  <2>5. CASE Broadcasted(inbox[1])
    <3> DEFINE h == inbox[1]
    <3>1. /\ \A n \in Subnets : rows'[n] # Nil => rows'[n].slot = slot
          /\ ~raised' => /\ \A s \in Nat : AllSent(duties, s) => AllSent(duties', s)
                         /\ \A n \in Subnets : rows'[n] # Nil => Awaited(duties', slot, n)
                         /\ 3 * h + 1 <= slot_data => \A n \in Subnets : rows'[n] = rows[n]
      BY <1>1, <2>1, <2>2, <2>5, BroadcastRow DEF slot
    <3>2. clock % 3 = 2 /\ slot_data = clock => 3 * h + 1 <= slot_data
      BY <1>0, <2>2 DEF SlotOf
    <3> HIDE DEF h
    <3> QED BY <1>2, <2>1, <2>3, <3>1, <3>2
  <2> QED BY <2>1, <2>4, <2>5
<1>5. CASE Deliver
  <2>0. PICK n \in Subnets : rows[n] # Nil /\ \E m : rows' = [rows EXCEPT ![n].messages = <<m>> \o @]
    BY <1>5 DEF Deliver
  <2>1. PICK m : rows' = [rows EXCEPT ![n].messages = <<m>> \o @]
    BY <2>0
  <2>2. UNCHANGED <<clock, slot_data, duties, raised>>
    BY <1>5 DEF Deliver, faults
  <2>3. \A k \in Subnets : (rows[k] = Nil => rows'[k] = Nil) /\ (rows[k] # Nil => rows'[k].slot = rows[k].slot)
    BY <2>0, <2>1 DEF Shape
  <2>4. ~raised
    BY <1>5 DEF Deliver, Sending, Running
  <2>5. ~(clock % 3 = 2 /\ slot_data = clock)
    BY <1>2, <2>0, <2>4
  <2> QED BY <1>2, <2>2, <2>3, <2>5 DEF slot
<1>6. CASE TimePasses
  <2>1. /\ clock' = clock + 1 /\ UNCHANGED <<slot_data, duties, rows, raised>> /\ ~raised
        /\ slot_data = clock
    BY <1>6, <1>1 DEF TimePasses, Sending, Running
  <2>2. clock % 3 = 2 => \A n \in Subnets : rows'[n] = Nil
    BY <1>2, <2>1
  <2>3. clock % 3 # 2 => SlotOf(clock') = slot
    BY <1>0, <2>1 DEF slot, SlotOf
  <2> QED BY <1>0, <1>2, <2>1, <2>2, <2>3
<1>7. CASE NewBlock \/ ReceiveContribution \/ PeerSigns \/ PeerContributes \/ UNCHANGED vars
  <2>1. UNCHANGED <<clock, slot_data, duties, rows, raised>>
    BY <1>7 DEF NewBlock, ReceiveContribution, PeerSigns, PeerContributes, vars
  <2> QED BY <1>2, <2>1 DEF slot
<1>8. CASE Restart
  BY <1>8, <1>1 DEF Restart
<1> QED BY <1>3, <1>4, <1>5, <1>6, <1>7, <1>8 DEF Next

(* As long as ticks come in time and the node is not restarted, a row is   *)
(* collected for the slot it is in, though heads come late and after the   *)
(* slot's last tick.                                                       *)
THEOREM RowsAlwaysCurrent == Spec => []RowsAreCurrent
<1>1. Init => RowInv
  <2> SUFFICES ASSUME Init PROVE RowInv
    OBVIOUS
  <2>1. clock = 0 /\ slot_data = -1 /\ \A n \in Subnets : rows[n] = Nil
    BY DEF Init
  <2> QED BY <2>1 DEF InTime, RowInv
<1>2. RowInv => RowsAreCurrent
  BY DEF InTime, RowInv, RowsAreCurrent
<1> QED BY <1>1, <1>2, InitShape, NextShape, NextRow, PTL DEF Spec

(***************************************************************************)
(* What the rows and the pool hold: messages that were sent or made up for *)
(* the subnet, all of one slot and root, and contributions of any origin.  *)
(***************************************************************************)

(* The least and the greatest of some of the node's validators are of them. *)
LEMMA OneOfThem ==
  ASSUME NEW S \in SUBSET Own, S # {}
  PROVE  Min(S) \in S /\ Max(S) \in S
<1>1. S \subseteq Nat
  BY ValidatorsAssumption
<1>2. \E x \in S : \A y \in S : x <= y
  BY <1>1, LeastNat
<1>3. \E x \in S : \A y \in S : x >= y
  <2>1. IsFiniteSet(Own)
    BY ValidatorsAssumption
  <2>2. \E x \in S : \A y \in S : y <= x
    BY <1>1, <2>1, GreatestNat
  <2> QED BY <1>1, <2>2
<1> QED BY <1>2, <1>3 DEF Min, Max

(* A finite set as a sequence has elements of the set only, and a first. *)
LEMMA AsSequence ==
  ASSUME NEW S, IsFiniteSet(S), S # {}
  PROVE  ToSet(SetToSeq(S)) \subseteq S /\ SetToSeq(S)[1] \in S
<1> DEFINE f == SetToSeq(S)
           n == Cardinality(S)
<1>1. n \in Nat /\ n # 0
  BY FS_CardinalityType, FS_EmptySet
<1>2. \E g \in [1..n -> S] : IsInjective(g)
  <2>1. PICK k \in Nat : ExistsBijection(1..k, S)
    BY FS_NatBijection
  <2>2. k = n
    BY <2>1, FS_CountingElements
  <2>3. PICK g : g \in Bijection(1..n, S)
    BY <2>1, <2>2 DEF ExistsBijection
  <2> HIDE DEF n
  <2>4. g \in [1..n -> S] /\ IsInjective(g)
    BY <2>3 DEF Bijection, Injection, IsInjective
  <2> QED BY <2>4
<1>3. f \in [1..n -> S]
  <2> HIDE DEF n
  <2> QED BY <1>2 DEF SetToSeq, n
<1> HIDE DEF f, n
<1>4. f[1] \in S /\ \A i \in DOMAIN f : f[i] \in S
  BY <1>1, <1>3
<1>5. ToSet(f) \subseteq S
  BY <1>4 DEF ToSet
<1> QED BY <1>4, <1>5 DEF f

(* The row r of subnet n holds messages of ms, or made up for it as fs     *)
(* says, all of the row's slot and root.                                   *)
Collected(r, n, ms, fs) ==
  r # Nil => /\ {"slot", "root", "messages"} \subseteq DOMAIN r
             /\ r.messages \in Seq(ms \cup {f[2] : f \in fs}) /\ r.messages # <<>>
             /\ \A i \in 1..Len(r.messages) :
                  /\ r.messages[i].slot = r.slot /\ r.messages[i].root = r.root
                  /\ r.messages[i] \in ms \/ <<n, r.messages[i]>> \in fs

(* A sequence of some of a set. *)
LEMMA WiderSeq ==
  ASSUME NEW A, NEW B, A \subseteq B, NEW s \in Seq(A)
  PROVE  s \in Seq(B)
<1>1. Len(s) \in Nat /\ s \in [1..Len(s) -> B]
  OBVIOUS
<1> QED BY <1>1

(* More messages change nothing of it. *)
LEMMA MoreMessages ==
  ASSUME NEW ms, NEW more, ms \subseteq more, NEW fs, NEW further, fs \subseteq further,
         NEW r, NEW n, Collected(r, n, ms, fs)
  PROVE  Collected(r, n, more, further)
<1> SUFFICES ASSUME r # Nil PROVE Collected(r, n, more, further)
  BY DEF Collected
<1> DEFINE A == ms \cup {f[2] : f \in fs}
           B == more \cup {f[2] : f \in further}
<1>1. A \subseteq B
  OBVIOUS
<1>2. r.messages \in Seq(A)
  BY DEF Collected
<1> HIDE DEF A, B
<1>3. r.messages \in Seq(B)
  BY <1>1, <1>2, WiderSeq
<1> QED BY <1>3 DEF Collected, B

(* Of a row nothing was made up for, all messages were sent. *)
LEMMA RowSent ==
  ASSUME NEW r, NEW n, NEW ms, NEW fs, Collected(r, n, ms, fs), r # Nil,
         ~\E f \in fs : f[1] = n /\ f[2].slot = r.slot /\ f[2].root = r.root
  PROVE  ToSet(r.messages) \subseteq ms
<1> DEFINE q == r.messages
<1>1. /\ q \in Seq(ms \cup {f[2] : f \in fs})
      /\ \A i \in 1..Len(q) : /\ q[i].slot = r.slot /\ q[i].root = r.root
                              /\ q[i] \in ms \/ <<n, q[i]>> \in fs
  BY DEF Collected
<1> HIDE DEF q
<1>2. ASSUME NEW i \in 1..Len(q) PROVE q[i] \in ms
  <2> DEFINE f == <<n, q[i]>>
  <2>1. f[1] = n /\ f[2] = q[i]
    OBVIOUS
  <2> HIDE DEF f
  <2>2. f \notin fs
    BY <1>1, <2>1
  <2> QED BY <1>1, <2>2 DEF f
<1>3. DOMAIN q = 1..Len(q)
  BY <1>1
<1> QED BY <1>2, <1>3 DEF ToSet, q

(* A place in a subcommittee is a place in the committee. *)
LEMMA PlaceInCommittee ==
  ASSUME NEW p, NEW n \in Subnets, NEW i \in 0..(SubSize - 1)
  PROVE  SubcommitteeOf(p, n)[i + 1] = Committee[p][(n * SubSize + i) + 1]
<1>1. SubSize \in Nat
  <2>1. Len(Committee[0]) \in Nat
    BY ValidatorsAssumption
  <2> QED BY <2>1, ValidatorsAssumption DEF SubSize
<1>2. n \in Nat
  BY ValidatorsAssumption DEF Subnets
<1> DEFINE a == n * SubSize
           b == (n + 1) * SubSize
<1>3. a \in Nat /\ b = a + SubSize
  BY <1>1, <1>2
<1> HIDE DEF a, b
<1>4. SubSeq(Committee[p], a + 1, b)[i + 1] = Committee[p][(a + i) + 1]
  BY <1>1, <1>3
<1> QED BY <1>4 DEF SubcommitteeOf, a, b

(* A broadcast begins rows with messages it sends. *)
LEMMA BroadcastCollects ==
  ASSUME NEW d, NEW slot, NEW root, Broadcasts(d, slot, root)
  PROVE  /\ UNCHANGED <<contributions, proposals, refused>>
         /\ \/ UNCHANGED <<rows, messages>>
            \/ /\ messages' = messages \cup NewMessages(d, slot, root)
               /\ \A n \in Subnets : \/ rows'[n] = rows[n]
                                     \/ \E m \in NewMessages(d, slot, root) : rows'[n] = NewRow(m)
<1>1. CASE current_attesters(d, slot) # {} /\ CommitteeLength # MaxCommittees
  BY <1>1 DEF Broadcasts, network
<1>2. CASE ~(current_attesters(d, slot) # {} /\ CommitteeLength # MaxCommittees)
  <2>1. UNCHANGED <<contributions, proposals, refused>> /\ messages' = messages \cup NewMessages(d, slot, root)
    BY <1>2 DEF Broadcasts, NewMessages
  <2> DEFINE collectors(n) == {v \in current_sync_committee(d, slot) :
                                 /\ n \in AggregationOf(d, slot, v)
                                 /\ <<slot, v>> \notin SyncDuty(d, slot).aggregated}
             One(n, low) == IF low THEN Min(collectors(n)) ELSE Max(collectors(n))
             Message(v) == SyncMessage(SyncDuty(d, slot).of, slot, root, v)
  <2>2. \E low \in BOOLEAN :
          rows' = [n \in Subnets |-> IF collectors(n) = {} THEN rows[n] ELSE NewRow(Message(One(n, low)))]
    BY <1>2 DEF Broadcasts
  <2>3. ASSUME NEW n, NEW low \in BOOLEAN, collectors(n) # {}
        PROVE  Message(One(n, low)) \in NewMessages(d, slot, root)
    <3>1. collectors(n) \in SUBSET Own
      BY DEF current_sync_committee, MembersOf
    <3>2. collectors(n) \subseteq current_sync_committee(d, slot)
      OBVIOUS
    <3> HIDE DEF collectors
    <3>3. One(n, low) \in collectors(n)
      BY <2>3, <3>1, OneOfThem
    <3>4. One(n, low) \in current_sync_committee(d, slot)
      BY <3>2, <3>3
    <3> HIDE DEF One
    <3> QED BY <3>4 DEF NewMessages
  <2> HIDE DEF collectors, One, Message
  <2>4. \A n \in Subnets : \/ rows'[n] = rows[n]
                           \/ \E m \in NewMessages(d, slot, root) : rows'[n] = NewRow(m)
    BY <2>2, <2>3
  <2> QED BY <2>1, <2>4
<1> QED BY <1>1, <1>2

(* What it sends is finite. *)
LEMMA FewMessages ==
  ASSUME NEW d, NEW slot, NEW root
  PROVE  IsFiniteSet(NewMessages(d, slot, root))
<1> DEFINE S == current_sync_committee(d, slot)
           g == [v \in Own |-> SyncMessage(SyncDuty(d, slot).of, slot, root, v)]
<1>1. S \in SUBSET Own
  BY DEF current_sync_committee, MembersOf
<1>2. IsFiniteSet(S)
  BY <1>1, ValidatorsAssumption, FS_Subset
<1>3. NewMessages(d, slot, root) = {g[v] : v \in S}
  BY <1>1 DEF NewMessages
<1> HIDE DEF S, g
<1> QED BY <1>2, <1>3, ImageFinite

CountInv ==
  /\ IsFiniteSet(messages)
  /\ \A n \in Subnets : Collected(rows[n], n, messages, forged_messages)
  /\ pool \subseteq contributions \cup forged_contributions

(* A broadcast of either handler keeps it. *)
LEMMA BroadcastCount ==
  ASSUME Shape, CountInv, NEW slot \in Nat, Broadcasted(slot), UNCHANGED <<pool, forged>>
  PROVE  CountInv'
<1> DEFINE d == compute_duties(duties, slot)
<1>1. PICK root : Broadcasts(d, slot, root)
  BY DEF Broadcasted
<1> DEFINE new == NewMessages(d, slot, root)
<1>2. /\ UNCHANGED <<contributions, proposals>>
      /\ \/ UNCHANGED <<rows, messages>>
         \/ /\ messages' = messages \cup new
            /\ \A n \in Subnets : rows'[n] = rows[n] \/ \E m \in new : rows'[n] = NewRow(m)
  BY <1>1, BroadcastCollects
<1>3. IsFiniteSet(new)
  BY FewMessages
<1>f. UNCHANGED <<pool, forged_messages, forged_contributions>>
  BY DEF forged
<1> HIDE DEF new, d
<1>4. CASE UNCHANGED <<rows, messages>>
  BY <1>2, <1>4, <1>f DEF CountInv
<1>5. CASE /\ messages' = messages \cup new
           /\ \A n \in Subnets : rows'[n] = rows[n] \/ \E m \in new : rows'[n] = NewRow(m)
  <2>1. IsFiniteSet(messages')
    BY <1>3, <1>5, FS_Union DEF CountInv
  <2>2. \A m \in new, n \in Subnets : Collected(NewRow(m), n, messages', forged_messages)
    BY <1>5 DEF Collected, NewRow
  <2>3. \A n \in Subnets : Collected(rows[n], n, messages', forged_messages)
    BY <1>5, MoreMessages DEF CountInv
  <2>4. \A n \in Subnets : Collected(rows'[n], n, messages', forged_messages)
    BY <1>5, <2>2, <2>3
  <2> QED BY <1>2, <1>f, <2>1, <2>4 DEF CountInv
<1> QED BY <1>2, <1>4, <1>5

(* So does a tick of the last third. *)
LEMMA PublishedCount ==
  ASSUME Shape, CountInv, Published, UNCHANGED <<pool, forged>>
  PROVE  CountInv'
<1> DEFINE d == compute_duties(duties, SlotOf(clock))
<1>1. d = compute_duties(duties, SlotOf(clock)) /\ SlotOf(clock) \in Nat
  BY DEF Shape, SlotOf
<1>2. IsDuties(d) /\ SyncEpoch(SlotOf(clock)) \in DOMAIN d
  BY <1>1, ComputedDuties DEF Shape
<1> HIDE DEF d
<1>3. UNCHANGED messages /\ \A n \in Subnets : rows'[n] \in {rows[n], Nil}
  BY <1>1, <1>2, PublishedDo
<1>4. contributions \subseteq contributions'
  BY DEF Published, PublishAggregates
<1>5. UNCHANGED <<pool, forged_messages, forged_contributions>>
  BY DEF forged
<1>6. \A n \in Subnets : Collected(rows'[n], n, messages, forged_messages)
  BY <1>3 DEF CountInv, Collected
<1> QED BY <1>3, <1>4, <1>5, <1>6 DEF CountInv

(* And a message that is taken in. *)
LEMMA DeliverCount ==
  ASSUME Shape, CountInv, Deliver
  PROVE  CountInv'
<1>1. PICK n \in Subnets : rows[n] # Nil /\ \E m \in messages \cup MadeUpMessages(rows[n].slot, rows[n].root) :
        /\ m.slot = rows[n].slot /\ m.root = rows[n].root
        /\ rows' = [rows EXCEPT ![n].messages = <<m>> \o @]
        /\ forged_messages' = IF Sent(m, n) THEN forged_messages ELSE forged_messages \cup {<<n, m>>}
  BY DEF Deliver
<1>2. PICK m \in messages \cup MadeUpMessages(rows[n].slot, rows[n].root) :
        /\ m.slot = rows[n].slot /\ m.root = rows[n].root
        /\ rows' = [rows EXCEPT ![n].messages = <<m>> \o @]
        /\ forged_messages' = IF Sent(m, n) THEN forged_messages ELSE forged_messages \cup {<<n, m>>}
  BY <1>1
<1>3. UNCHANGED <<pool, messages, contributions, forged_contributions>>
  BY DEF Deliver, network
<1> DEFINE fs == forged_messages'
           r == rows[n]
           old == r.messages
           s == <<m>> \o old
           A == messages \cup {f[2] : f \in fs}
<1>4. forged_messages \subseteq fs /\ (m \in messages \/ <<n, m>> \in fs)
  BY <1>2 DEF Sent
<1>5. \A k \in Subnets : Collected(rows[k], k, messages, fs)
  BY <1>4, MoreMessages DEF CountInv
<1>6. m \in A
  <2>1. <<n, m>>[2] = m
    OBVIOUS
  <2> QED BY <1>4, <2>1
<1>7. /\ {"slot", "root", "messages"} \subseteq DOMAIN r
      /\ old \in Seq(A) /\ old # <<>>
      /\ \A i \in 1..Len(old) : /\ old[i].slot = r.slot /\ old[i].root = r.root
                                /\ old[i] \in messages \/ <<n, old[i]>> \in fs
  BY <1>1, <1>5 DEF Collected
<1> HIDE DEF fs, r, old, A
<1>8. /\ s \in Seq(A) /\ s # <<>> /\ Len(s) = Len(old) + 1 /\ Len(old) \in Nat
      /\ \A i \in 1..(Len(old) + 1) : s[i] = IF i = 1 THEN m ELSE old[i - 1]
  <2>1. Len(old) \in Nat /\ s \in Seq(A) /\ Len(s) = Len(old) + 1
    BY <1>6, <1>7
  <2>2. \A i \in 1..(Len(old) + 1) : s[i] = IF i = 1 THEN m ELSE old[i - 1]
    BY <1>6, <1>7
  <2>3. s # <<>>
    BY <2>1
  <2> QED BY <2>1, <2>2, <2>3
<1> HIDE DEF s
<1>9. ASSUME NEW i \in 1..Len(s)
      PROVE  s[i].slot = r.slot /\ s[i].root = r.root /\ (s[i] \in messages \/ <<n, s[i]>> \in fs)
  <2>1. CASE i = 1
    BY <1>2, <1>4, <1>8, <2>1 DEF r
  <2>2. CASE i # 1
    <3>1. i - 1 \in 1..Len(old) /\ s[i] = old[i - 1]
      BY <1>8, <2>2
    <3> QED BY <1>7, <3>1
  <2> QED BY <2>1, <2>2
<1>10. rows' = [rows EXCEPT ![n] = [r EXCEPT !.messages = s]]
  BY <1>2 DEF r, s, old
<1>11. rows'[n] = [r EXCEPT !.messages = s] /\ \A k \in Subnets : k # n => rows'[k] = rows[k]
  BY <1>10 DEF Shape
<1>12. Collected(rows'[n], n, messages, fs)
  BY <1>7, <1>8, <1>9, <1>11 DEF Collected, A
<1>13. \A k \in Subnets : Collected(rows'[k], k, messages, fs)
  BY <1>5, <1>11, <1>12
<1> QED BY <1>3, <1>13 DEF CountInv, fs

(* Every step keeps CountInv. *)
LEMMA NextCount == Shape /\ CountInv /\ [Next]_vars => CountInv'
<1> SUFFICES ASSUME Shape, CountInv, [Next]_vars PROVE CountInv'
  OBVIOUS
<1>0. SlotOf(clock) \in Nat /\ clock \in Nat
  BY DEF Shape, SlotOf
<1>1. CASE OnTick
  <2>1. \/ StoodStill \/ Proposed \/ Broadcasted(SlotOf(clock)) \/ Published
    BY <1>1, <1>0, TickCases
  <2>2. UNCHANGED <<pool, forged>>
    BY <1>1 DEF OnTick, faults
  <2>3. CASE StoodStill \/ Proposed
    <3>1. UNCHANGED <<rows, messages, contributions>>
      BY <2>3, ProposedDo DEF StoodStill
    <3> QED BY <2>2, <3>1 DEF CountInv, forged
  <2> QED BY <1>0, <2>1, <2>2, <2>3, BroadcastCount, PublishedCount
<1>2. CASE NotifyHead
  <2>1. inbox # <<>> /\ (StoodStill \/ Broadcasted(inbox[1]))
    BY <1>2, HeadCases
  <2>2. inbox[1] \in Nat
    BY <2>1 DEF Shape
  <2>3. UNCHANGED <<pool, forged>>
    BY <1>2 DEF NotifyHead, faults
  <2>4. CASE StoodStill
    BY <2>3, <2>4 DEF StoodStill, CountInv, forged
  <2> QED BY <2>1, <2>2, <2>3, <2>4, BroadcastCount
<1>3. CASE NewBlock \/ Restart
  <2>1. pool' \subseteq pool /\ UNCHANGED <<rows, messages, contributions, forged_messages, forged_contributions>>
    BY <1>3 DEF NewBlock, Restart, network, forged
  <2> QED BY <2>1 DEF CountInv
<1>4. CASE ReceiveContribution
  <2>1. /\ UNCHANGED <<rows, messages, contributions, forged_messages>>
        /\ pool' \subseteq contributions \cup forged_contributions'
    BY <1>4 DEF ReceiveContribution, CountInv, network
  <2> QED BY <2>1 DEF CountInv
<1>5. CASE PeerSigns
  <2>1. PICK m : messages' = messages \cup {m}
    BY <1>5 DEF PeerSigns
  <2>2. UNCHANGED <<rows, pool, contributions, forged_messages, forged_contributions>>
    BY <1>5 DEF PeerSigns, faults, forged
  <2>3. IsFiniteSet(messages')
    BY <2>1, FS_AddElement DEF CountInv
  <2>4. \A n \in Subnets : Collected(rows[n], n, messages', forged_messages)
    BY <2>1, MoreMessages DEF CountInv
  <2> QED BY <2>2, <2>3, <2>4 DEF CountInv
<1>6. CASE PeerContributes \/ TimePasses \/ UNCHANGED vars
  <2>1. /\ UNCHANGED <<rows, pool, messages, forged_messages, forged_contributions>>
        /\ contributions \subseteq contributions'
    BY <1>6 DEF PeerContributes, TimePasses, vars, network, faults, forged
  <2> QED BY <2>1 DEF CountInv
<1> QED BY <1>1, <1>2, <1>3, <1>4, <1>5, <1>6, DeliverCount DEF Next

(***************************************************************************)
(* Sums of points. BagOf is the bag of the values that h has on a set of   *)
(* places, a value as many times as there are places that have it.         *)
(***************************************************************************)
BagOf(T, h) == [x \in {h[t] : t \in T} |-> Cardinality({t \in T : h[t] = x})]

(* Of no place it is infinity, of one place its point; it is a bag. *)
LEMMA BagOfFew ==
  ASSUME NEW h
  PROVE  /\ BagOf({}, h) = Infinity
         /\ \A t : BagOf({t}, h) = Point(h[t])
         /\ \A T : IsFiniteSet(T) => IsABag(BagOf(T, h)) /\ (T # {} => BagOf(T, h) # Infinity)
<1>1. BagOf({}, h) = Infinity
  BY DEF BagOf, Infinity, EmptyBag, SetToBag
<1>2. ASSUME NEW t PROVE BagOf({t}, h) = Point(h[t])
  <2>1. {u \in {t} : h[u] = h[t]} = {t} /\ {h[u] : u \in {t}} = {h[t]}
    OBVIOUS
  <2>2. Cardinality({t}) = 1
    BY FS_Singleton
  <2> QED BY <2>1, <2>2 DEF BagOf, Point, SetToBag
<1>3. ASSUME NEW T, IsFiniteSet(T) PROVE IsABag(BagOf(T, h)) /\ (T # {} => BagOf(T, h) # Infinity)
  <2>1. ASSUME NEW x \in {h[t] : t \in T} PROVE Cardinality({t \in T : h[t] = x}) \in {n \in Nat : n > 0}
    <3> DEFINE U == {t \in T : h[t] = x}
    <3>1. U # {} /\ U \in SUBSET T
      OBVIOUS
    <3> HIDE DEF U
    <3>2. IsFiniteSet(U) /\ Cardinality(U) \in Nat /\ Cardinality(U) # 0
      BY <1>3, <3>1, FS_Subset, FS_CardinalityType, FS_EmptySet
    <3> QED BY <3>2 DEF U
  <2>2. IsABag(BagOf(T, h))
    BY <2>1 DEF IsABag, BagOf
  <2>3. ASSUME T # {} PROVE BagOf(T, h) # Infinity
    <3>1. PICK t \in T : TRUE
      BY <2>3
    <3>2. h[t] \in DOMAIN BagOf(T, h)
      BY DEF BagOf
    <3>3. DOMAIN Infinity = {}
      BY DEF Infinity, EmptyBag, SetToBag
    <3> QED BY <3>2, <3>3
  <2> QED BY <2>2, <2>3
<1> QED BY <1>1, <1>2, <1>3

(* The bags of two sets of places without a common one add up. *)
LEMMA BagOfUnion ==
  ASSUME NEW h, NEW T, IsFiniteSet(T), NEW U, IsFiniteSet(U), T \cap U = {}
  PROVE  BagOf(T \cup U, h) = BagOf(T, h) (+) BagOf(U, h)
<1> DEFINE A == {h[t] : t \in T}
           B == {h[t] : t \in U}
           F(x) == {t \in T : h[t] = x}
           G(x) == {t \in U : h[t] = x}
           H(x) == {t \in T \cup U : h[t] = x}
<1>1. {h[t] : t \in T \cup U} = A \cup B
  OBVIOUS
<1>2. ASSUME NEW x
      PROVE  /\ Cardinality(H(x)) = Cardinality(F(x)) + Cardinality(G(x))
             /\ x \notin A => Cardinality(F(x)) = 0
             /\ x \notin B => Cardinality(G(x)) = 0
  <2>1. H(x) = F(x) \cup G(x) /\ F(x) \cap G(x) = {} /\ F(x) \in SUBSET T /\ G(x) \in SUBSET U
    OBVIOUS
  <2>2. (x \notin A => F(x) = {}) /\ (x \notin B => G(x) = {})
    OBVIOUS
  <2> HIDE DEF F, G, H
  <2>3. IsFiniteSet(F(x)) /\ IsFiniteSet(G(x)) /\ Cardinality(F(x)) \in Nat /\ Cardinality(G(x)) \in Nat
    BY <2>1, FS_Subset, FS_CardinalityType
  <2>4. Cardinality(F(x) \cup G(x)) = Cardinality(F(x)) + Cardinality(G(x)) - Cardinality({})
    BY <2>1, <2>3, FS_Union
  <2> QED BY <2>1, <2>2, <2>3, <2>4, FS_EmptySet
<1>3. \A x : Cardinality(F(x)) \in Nat /\ Cardinality(G(x)) \in Nat
  BY FS_Subset, FS_CardinalityType
<1>4. /\ BagOf(T, h) = [x \in A |-> Cardinality(F(x))]
      /\ BagOf(U, h) = [x \in B |-> Cardinality(G(x))]
      /\ BagOf(T \cup U, h) = [x \in A \cup B |-> Cardinality(H(x))]
  BY <1>1 DEF BagOf
<1> HIDE DEF A, B, F, G, H
<1> DEFINE f == BagOf(T, h)
           g == BagOf(U, h)
<1>5. DOMAIN f = A /\ DOMAIN g = B
  BY <1>4
<1>6. \A x \in A \cup B : Cardinality(H(x)) = (IF x \in A THEN f[x] ELSE 0) + (IF x \in B THEN g[x] ELSE 0)
  BY <1>2, <1>3, <1>4
<1> HIDE DEF f, g
<1>7. f (+) g = [x \in A \cup B |-> (IF x \in A THEN f[x] ELSE 0) + (IF x \in B THEN g[x] ELSE 0)]
  BY <1>5 DEF (+)
<1> QED BY <1>4, <1>6, <1>7 DEF f, g

(* The bags of some elements of X. *)
BagsOver(X) == UNION {[A -> Nat] : A \in SUBSET X}

(* A sum of n such bags is one: it is taken bag by bag. *)
Sums(run, s, n, X) ==
  /\ run \in [0..n -> BagsOver(X)] /\ run[0] = Infinity /\ SumOf(s) = run[n]
  /\ \A k \in 1..n : run[k] = run[k - 1] (+) s[k]

(* There is such a sum. *)
LEMMA SumIsRun ==
  ASSUME NEW X, NEW n \in Nat, NEW s, DOMAIN s = 1..n, \A i \in 1..n : s[i] \in BagsOver(X)
  PROVE  \E run : Sums(run, s, n, X)
<1> DEFINE Is(f) == f = [x \in SUBSET (DOMAIN s) |-> IF x = {} THEN Infinity ELSE f[x \ {Max(x)}] (+) s[Max(x)]]
           it == CHOOSE f : Is(f)
           M == UNION {[A -> Nat] : A \in SUBSET X}
           g == [p \in (1..n) \X M |-> p[2] (+) s[p[1]]]
<1>1. SumOf(s) = it[DOMAIN s]
  BY DEF SumOf, FoldLeft, MapThenFoldSet
<1>2. Infinity \in M
  <2>1. Infinity \in [{} -> Nat]
    BY DEF Infinity, EmptyBag, SetToBag
  <2> QED BY <2>1
<1>3. \A i \in 1..n : s[i] \in M
  BY DEF BagsOver
<1>4. \A a, b \in M : a (+) b \in M
  <2> SUFFICES ASSUME NEW a \in M, NEW b \in M PROVE a (+) b \in M
    OBVIOUS
  <2>1. PICK A \in SUBSET X : a \in [A -> Nat]
    OBVIOUS
  <2>2. PICK B \in SUBSET X : b \in [B -> Nat]
    OBVIOUS
  <2>3. A \cup B \in SUBSET X
    OBVIOUS
  <2>4. a (+) b = [e \in A \cup B |-> (IF e \in A THEN a[e] ELSE 0) + (IF e \in B THEN b[e] ELSE 0)]
    BY <2>1, <2>2 DEF (+)
  <2>5. \A e \in A \cup B : (IF e \in A THEN a[e] ELSE 0) + (IF e \in B THEN b[e] ELSE 0) \in Nat
    BY <2>1, <2>2
  <2>6. a (+) b \in [A \cup B -> Nat]
    BY <2>4, <2>5
  <2> QED BY <2>3, <2>6
<1> HIDE DEF M
<1>5. g \in [(1..n) \X M -> M] /\ \A k \in 1..n, a \in M : g[<<k, a>>] = a (+) s[k]
  BY <1>3, <1>4
<1> HIDE DEF g
<1>6. PICK run : IsRun(run, n, M, Infinity, g)
  BY <1>2, <1>5, RunExists
<1>7. \E f : f = [x \in SUBSET (1..n) |-> IF x = {} THEN Infinity ELSE f[x \ {Max(x)}] (+) s[Max(x)]]
  <2>1. PICK f \in [SUBSET (1..n) -> M] : IsFoldOf(f, n, M, Infinity, g)
    BY <1>2, <1>5, RunExists
  <2>2. \A x \in SUBSET (1..n) : x # {} => f[x \ {Max(x)}] \in M /\ Max(x) \in 1..n
    BY MaxChooses
  <2>3. \A x \in SUBSET (1..n) : x # {} => f[x] = f[x \ {Max(x)}] (+) s[Max(x)]
    BY <1>5, <2>1, <2>2 DEF IsFoldOf
  <2>4. f[{}] = Infinity /\ f = [x \in SUBSET (1..n) |-> f[x]]
    BY <2>1 DEF IsFoldOf
  <2>5. f = [x \in SUBSET (1..n) |-> IF x = {} THEN Infinity ELSE f[x \ {Max(x)}] (+) s[Max(x)]]
    BY <2>3, <2>4
  <2> QED BY <2>5
<1>8. it = [x \in SUBSET (1..n) |-> IF x = {} THEN Infinity ELSE it[x \ {Max(x)}] (+) s[Max(x)]]
  <2>1. PICK f : f = [x \in SUBSET (1..n) |-> IF x = {} THEN Infinity ELSE f[x \ {Max(x)}] (+) s[Max(x)]]
    BY <1>7
  <2>3. Is(f)
    BY <2>1
  <2> HIDE DEF Is
  <2>2. Is(it)
    BY <2>3, Zenon
  <2> HIDE DEF it
  <2> QED BY <2>2 DEF Is
<1> HIDE DEF it
<1>9. IsFoldOf(it, n, M, Infinity, g)
  <2>1. \A x \in SUBSET (1..n) : x # {} => Max(x) \in 1..n /\ it[x] = it[x \ {Max(x)}] (+) s[Max(x)]
    BY <1>8, MaxChooses
  <2>2. it[{}] = Infinity
    BY <1>8
  <2>3. \A x \in SUBSET (1..n) : x # {} /\ it[x \ {Max(x)}] \in M => it[x] = g[<<Max(x), it[x \ {Max(x)}]>>]
    BY <1>5, <2>1
  <2> QED BY <2>2, <2>3 DEF IsFoldOf
<1>10. it[1..n] = run[n]
  BY <1>6, <1>9, RunUnique
<1>11. run[0] = Infinity /\ \A k \in 1..n : run[k] = run[k - 1] (+) s[k]
  <2>1. \A k \in 1..n : k - 1 \in 0..n /\ run[k - 1] \in M
    BY <1>6 DEF IsRun
  <2> QED BY <1>5, <1>6, <2>1 DEF IsRun
<1>12. run \in [0..n -> M]
  BY <1>6 DEF IsRun
<1>13. Sums(run, s, n, X)
  BY <1>1, <1>10, <1>11, <1>12 DEF Sums, BagsOver, M
<1> QED BY <1>13

(* The sequence s is of the bags of n sets of places, no two of them with  *)
(* a common one, and U are all the places.                                 *)
Parts(s, n, T, U, h) ==
  /\ n \in Nat /\ DOMAIN s = 1..n
  /\ \A i \in 1..n : IsFiniteSet(T[i]) /\ s[i] = BagOf(T[i], h)
  /\ \A i, j \in 1..n : i # j => T[i] \cap T[j] = {}
  /\ \A t : t \in U <=> \E i \in 1..n : t \in T[i]

(* It sums up to the bag of all the places. *)
LEMMA SumOfParts ==
  ASSUME NEW h, NEW n, NEW s, NEW T, NEW All, Parts(s, n, T, All, h)
  PROVE  IsFiniteSet(All) /\ SumOf(s) = BagOf(All, h)
<1>0. /\ n \in Nat /\ DOMAIN s = 1..n
      /\ \A i \in 1..n : IsFiniteSet(T[i]) /\ s[i] = BagOf(T[i], h)
      /\ \A i, j \in 1..n : i # j => T[i] \cap T[j] = {}
      /\ \A t : t \in All <=> \E i \in 1..n : t \in T[i]
  BY DEF Parts
<1> USE <1>0
<1> DEFINE X == {h[t] : t \in UNION {T[i] : i \in 1..n}}
           U(k) == UNION {T[i] : i \in 1..k}
<1>3. \A i \in 1..n : s[i] \in BagsOver(X)
  <2> SUFFICES ASSUME NEW i \in 1..n PROVE s[i] \in BagsOver(X)
    OBVIOUS
  <2> DEFINE A == {h[t] : t \in T[i]}
  <2>1. A \in SUBSET X
    OBVIOUS
  <2>2. \A x : Cardinality({t \in T[i] : h[t] = x}) \in Nat
    BY FS_Subset, FS_CardinalityType
  <2>3. BagOf(T[i], h) \in [A -> Nat]
    BY <2>2 DEF BagOf
  <2> QED BY <2>1, <2>3 DEF BagsOver
<1> HIDE DEF X
<1>6. PICK run : Sums(run, s, n, X)
  BY <1>3, SumIsRun
<1>11. SumOf(s) = run[n] /\ run[0] = Infinity /\ \A k \in 1..n : run[k] = run[k - 1] (+) s[k]
  BY <1>6 DEF Sums
<1> DEFINE S == {k \in Nat : k <= n => IsFiniteSet(U(k)) /\ run[k] = BagOf(U(k), h)}
<1>12. 0 \in S
  <2>1. U(0) = {}
    OBVIOUS
  <2> QED BY <1>11, <2>1, BagOfFew, FS_EmptySet
<1>13. ASSUME NEW k \in Nat, k \in S PROVE k + 1 \in S
  <2> SUFFICES ASSUME k + 1 <= n PROVE IsFiniteSet(U(k + 1)) /\ run[k + 1] = BagOf(U(k + 1), h)
    OBVIOUS
  <2>1. IsFiniteSet(U(k)) /\ run[k] = BagOf(U(k), h)
    BY <1>13
  <2>2. k + 1 \in 1..n /\ (k + 1) - 1 = k /\ \A i \in 1..k : i \in 1..n /\ i # k + 1
    OBVIOUS
  <2>3. U(k + 1) = U(k) \cup T[k + 1]
    <3>1. 1..(k + 1) = (1..k) \cup {k + 1}
      OBVIOUS
    <3> QED BY <3>1
  <2>4. U(k) \cap T[k + 1] = {}
    BY <2>2
  <2>5. IsFiniteSet(T[k + 1]) /\ s[k + 1] = BagOf(T[k + 1], h)
    BY <2>2
  <2> HIDE DEF U, S
  <2>6. BagOf(U(k + 1), h) = BagOf(U(k), h) (+) BagOf(T[k + 1], h)
    BY <2>1, <2>3, <2>4, <2>5, BagOfUnion
  <2>7. run[k + 1] = run[k] (+) s[k + 1]
    BY <1>11, <2>2
  <2>8. IsFiniteSet(U(k + 1))
    <3>1. IsFiniteSet(U(k) \cup T[k + 1])
      BY <2>1, <2>5, FS_Union
    <3> QED BY <2>3, <3>1
  <2> QED BY <2>1, <2>5, <2>6, <2>7, <2>8
<1> HIDE DEF S
<1>14. n \in S
  BY <1>12, <1>13, SetInduction
<1>15. IsFiniteSet(U(n)) /\ run[n] = BagOf(U(n), h)
  BY <1>14 DEF S
<1>16. U(n) = All
  OBVIOUS
<1> QED BY <1>11, <1>15, <1>16

(* It depends on the values at these places only. *)
LEMMA BagOfAgree ==
  ASSUME NEW T, NEW h, NEW g, \A t \in T : h[t] = g[t]
  PROVE  BagOf(T, h) = BagOf(T, g)
<1>1. {h[t] : t \in T} = {g[t] : t \in T}
  OBVIOUS
<1>2. \A x : {t \in T : h[t] = x} = {t \in T : g[t] = x}
  OBVIOUS
<1> QED BY <1>1, <1>2 DEF BagOf

(* f moves the places T to U, and g has on T what h has there. *)
Moves(f, T, U, g, h) ==
  /\ IsFiniteSet(T) /\ U = {f[t] : t \in T}
  /\ \A t, u \in T : f[t] = f[u] => t = u
  /\ \A t \in T : g[t] = h[f[t]]

(* Places may be moved. *)
LEMMA BagOfMoved ==
  ASSUME NEW f, NEW T, NEW U, NEW g, NEW h, Moves(f, T, U, g, h)
  PROVE  BagOf(U, h) = BagOf(T, g)
<1> USE DEF Moves
<1>1. {h[u] : u \in U} = {g[t] : t \in T}
  OBVIOUS
<1>2. ASSUME NEW x PROVE Cardinality({u \in U : h[u] = x}) = Cardinality({t \in T : g[t] = x})
  <2> DEFINE A == {t \in T : g[t] = x}
             B == {u \in U : h[u] = x}
             b == [t \in A |-> f[t]]
  <2>1. A \in SUBSET T
    OBVIOUS
  <2>2. b \in [A -> B] /\ (\A t, u \in A : b[t] = b[u] => t = u) /\ (\A y \in B : \E t \in A : b[t] = y)
    OBVIOUS
  <2> HIDE DEF A, B, b
  <2>3. b \in Bijection(A, B)
    BY <2>2 DEF Bijection, Injection, Surjection, IsInjective
  <2>4. ExistsBijection(A, B)
    BY <2>3 DEF ExistsBijection
  <2>5. IsFiniteSet(A)
    BY <2>1, FS_Subset
  <2>6. Cardinality(B) = Cardinality(A)
    BY <2>4, <2>5, FS_Bijection
  <2> QED BY <2>6 DEF A, B
<1> HIDE DEF Moves
<1> DEFINE D == {g[t] : t \in T}
           F(x) == Cardinality({u \in U : h[u] = x})
           G(x) == Cardinality({t \in T : g[t] = x})
<1>3. \A x : F(x) = G(x)
  BY <1>2
<1>4. BagOf(U, h) = [x \in D |-> F(x)] /\ BagOf(T, g) = [x \in D |-> G(x)]
  BY <1>1, Zenon DEF BagOf
<1> HIDE DEF D, F, G
<1> QED BY <1>3, <1>4

(* What was signed when every key of some places signs m. *)
LEMMA ExpectedIs ==
  ASSUME NEW T, NEW k, NEW m
  PROVE  Expected(BagOf(T, k), m) = BagOf(T, [t \in T |-> <<k[t], m>>])
<1> DEFINE h == [t \in T |-> <<k[t], m>>]
           D == {<<x, m>> : x \in {k[t] : t \in T}}
<1>1. {h[t] : t \in T} = D
  OBVIOUS
<1>2. \A x : {t \in T : h[t] = <<x, m>>} = {t \in T : k[t] = x}
  OBVIOUS
<1>3. BagOf(T, k) = [x \in {k[t] : t \in T} |-> Cardinality({t \in T : k[t] = x})]
  BY DEF BagOf
<1>4. BagOf(T, h) = [y \in D |-> Cardinality({t \in T : h[t] = y})]
  BY <1>1 DEF BagOf
<1>5. Expected(BagOf(T, k), m) = [y \in D |-> BagOf(T, k)[y[1]]]
  BY <1>3 DEF Expected
<1>6. ASSUME NEW y \in D PROVE BagOf(T, k)[y[1]] = Cardinality({t \in T : h[t] = y})
  <2>1. PICK x \in {k[t] : t \in T} : y = <<x, m>>
    OBVIOUS
  <2>2. y[1] = x
    BY <2>1
  <2> HIDE DEF h, D
  <2> QED BY <1>2, <1>3, <2>1, <2>2
<1> HIDE DEF D, h
<1>7. Expected(BagOf(T, k), m) = BagOf(T, h)
  BY <1>4, <1>5, <1>6
<1> QED BY <1>7 DEF h

(* Of one key. *)
LEMMA ExpectedPoint ==
  ASSUME NEW k, NEW m
  PROVE  Expected(Point(k), m) = Point(<<k, m>>)
<1>1. DOMAIN Point(k) = {k} /\ Point(k)[k] = 1
  BY DEF Point, SetToBag
<1>2. {<<x, m>> : x \in {k}} = {<<k, m>>}
  OBVIOUS
<1>3. Expected(Point(k), m) = [km \in {<<k, m>>} |-> Point(k)[km[1]]]
  BY <1>1, <1>2 DEF Expected
<1>4. \A km \in {<<k, m>>} : km[1] = k
  OBVIOUS
<1> QED BY <1>1, <1>3, <1>4 DEF Point, SetToBag

(* The sequence s lists the points of h on T, each place of T once. *)
Spells(s, T, h) ==
  \E g \in [1..Len(s) -> T] :
    /\ \A i, j \in 1..Len(s) : g[i] = g[j] => i = j
    /\ \A t \in T : \E i \in 1..Len(s) : g[i] = t
    /\ \A i \in 1..Len(s) : s[i] = Point(h[g[i]])

(* Its sum is the bag of h on T. *)
LEMMA SpelledSum ==
  ASSUME NEW X, NEW s \in Seq(X), NEW T, NEW h, Spells(s, T, h)
  PROVE  IsFiniteSet(T) /\ SumOf(s) = BagOf(T, h) /\ (s = <<>> <=> T = {})
<1> DEFINE n == Len(s)
<1>1. n \in Nat /\ DOMAIN s = 1..n
  OBVIOUS
<1>2. PICK g \in [1..n -> T] :
        /\ \A i, j \in 1..n : g[i] = g[j] => i = j
        /\ \A t \in T : \E i \in 1..n : g[i] = t
        /\ \A i \in 1..n : s[i] = Point(h[g[i]])
  BY DEF Spells
<1> DEFINE P == [i \in 1..n |-> {g[i]}]
<1>3. n = 0 <=> s = <<>>
  OBVIOUS
<1> HIDE DEF n
<1>4. \A i \in 1..n : P[i] = {g[i]}
  OBVIOUS
<1>5. UNION {P[i] : i \in 1..n} = T
  BY <1>2
<1> HIDE DEF P
<1>6. \A i \in 1..n : IsFiniteSet(P[i]) /\ s[i] = BagOf(P[i], h)
  <2> SUFFICES ASSUME NEW i \in 1..n PROVE IsFiniteSet(P[i]) /\ s[i] = BagOf(P[i], h)
    OBVIOUS
  <2>1. BagOf({g[i]}, h) = Point(h[g[i]]) /\ IsFiniteSet({g[i]})
    BY BagOfFew, FS_Singleton
  <2> QED BY <1>2, <1>4, <2>1
<1>7. \A i, j \in 1..n : i # j => P[i] \cap P[j] = {}
  BY <1>2, <1>4
<1>8. IsFiniteSet(T) /\ SumOf(s) = BagOf(T, h)
  <2>1. \A t : t \in T <=> \E i \in 1..n : t \in P[i]
    BY <1>5
  <2>2. Parts(s, n, P, T, h)
    BY <1>1, <1>6, <1>7, <2>1 DEF Parts
  <2> QED BY <2>2, SumOfParts
<1>9. n = 0 <=> T = {}
  <2>1. n = 0 => 1..n = {}
    OBVIOUS
  <2>2. n # 0 => 1 \in 1..n
    BY <1>1
  <2> QED BY <1>2, <2>1, <2>2
<1> QED BY <1>3, <1>8, <1>9

(* Two lists one after the other. *)
LEMMA SpelledTwice ==
  ASSUME NEW X, NEW a \in Seq(X), NEW b \in Seq(X), NEW T, NEW U, NEW h,
         Spells(a, T, h), Spells(b, U, h), T \cap U = {}
  PROVE  Spells(a \o b, T \cup U, h)
<1> DEFINE m == Len(a)
           n == Len(b)
           c == a \o b
<1>1. m \in Nat /\ n \in Nat /\ Len(c) = m + n
  OBVIOUS
<1>2. (\A i \in 1..m : c[i] = a[i]) /\ (\A i \in (m + 1)..(m + n) : c[i] = b[i - m])
  OBVIOUS
<1>3. PICK f \in [1..m -> T] :
        /\ \A i, j \in 1..m : f[i] = f[j] => i = j
        /\ \A t \in T : \E i \in 1..m : f[i] = t
        /\ \A i \in 1..m : a[i] = Point(h[f[i]])
  BY DEF Spells
<1>4. PICK g \in [1..n -> U] :
        /\ \A i, j \in 1..n : g[i] = g[j] => i = j
        /\ \A t \in U : \E i \in 1..n : g[i] = t
        /\ \A i \in 1..n : b[i] = Point(h[g[i]])
  BY DEF Spells
<1> HIDE DEF m, n, c
<1> DEFINE e == [i \in 1..(m + n) |-> IF i <= m THEN f[i] ELSE g[i - m]]
<1>5. \A i \in 1..(m + n) : (i <= m => i \in 1..m) /\ (~(i <= m) => i - m \in 1..n /\ i \in (m + 1)..(m + n))
  BY <1>1
<1>6. \A i \in 1..(m + n) : IF i <= m THEN e[i] = f[i] /\ e[i] \in T /\ i \in 1..m
                                       ELSE e[i] = g[i - m] /\ e[i] \in U /\ i - m \in 1..n
  BY <1>3, <1>4, <1>5
<1>7. e \in [1..(m + n) -> T \cup U]
  BY <1>3, <1>4, <1>5
<1>8. \A i, j \in 1..(m + n) : e[i] = e[j] => i = j
  <2> SUFFICES ASSUME NEW i \in 1..(m + n), NEW j \in 1..(m + n), e[i] = e[j] PROVE i = j
    OBVIOUS
  <2> HIDE DEF e
  <2>1. CASE i <= m /\ j <= m
    BY <1>3, <1>6, <2>1
  <2>2. CASE ~(i <= m) /\ ~(j <= m)
    <3>1. i - m = j - m
      BY <1>4, <1>6, <2>2
    <3> QED BY <1>1, <3>1
  <2>3. CASE (i <= m) # (j <= m)
    BY <1>6, <2>3
  <2> QED BY <2>1, <2>2, <2>3
<1>9. \A t \in T \cup U : \E i \in 1..(m + n) : e[i] = t
  <2> SUFFICES ASSUME NEW t \in T \cup U PROVE \E i \in 1..(m + n) : e[i] = t
    OBVIOUS
  <2>1. CASE t \in T
    <3>1. PICK i \in 1..m : f[i] = t
      BY <1>3, <2>1
    <3>2. i \in 1..(m + n) /\ i <= m
      BY <1>1
    <3> QED BY <3>1, <3>2
  <2>2. CASE t \in U
    <3>1. PICK i \in 1..n : g[i] = t
      BY <1>4, <2>2
    <3>2. i + m \in 1..(m + n) /\ ~(i + m <= m) /\ (i + m) - m = i
      BY <1>1
    <3> QED BY <3>1, <3>2
  <2> QED BY <2>1, <2>2
<1>10. \A i \in 1..(m + n) : c[i] = Point(h[e[i]])
  <2> SUFFICES ASSUME NEW i \in 1..(m + n) PROVE c[i] = Point(h[e[i]])
    OBVIOUS
  <2> HIDE DEF e
  <2>1. CASE i <= m
    BY <1>2, <1>3, <1>6, <2>1
  <2>2. CASE ~(i <= m)
    BY <1>2, <1>4, <1>5, <1>6, <2>2
  <2> QED BY <2>1, <2>2
<1> HIDE DEF e
<1>11. Spells(c, T \cup U, h)
  <2> DEFINE k == Len(c)
             Good(g_1) == /\ \A i, j \in 1..k : g_1[i] = g_1[j] => i = j
                          /\ \A t \in T \cup U : \E i \in 1..k : g_1[i] = t
                          /\ \A i \in 1..k : c[i] = Point(h[g_1[i]])
  <2>1. k = m + n
    BY <1>1
  <2> HIDE DEF k
  <2>2. e \in [1..k -> T \cup U]
    BY <1>7, <2>1
  <2>3. Good(e)
    BY <1>8, <1>9, <1>10, <2>1
  <2>4. \E y \in [1..k -> T \cup U] : Good(y)
    BY <2>2, <2>3
  <2> QED BY <2>4 DEF Spells, k
<1> QED BY <1>11 DEF c

(* A signature once for each of some places that have one value. *)
LEMMA SpelledSame ==
  ASSUME NEW T, IsFiniteSet(T), NEW h, NEW x, \A t \in T : h[t] = x
  PROVE  LET s == [i \in 1..Cardinality(T) |-> Point(x)]
         IN  s \in Seq({Point(x)}) /\ Spells(s, T, h)
<1> DEFINE n == Cardinality(T)
           s == [i \in 1..n |-> Point(x)]
<1>1. n \in Nat /\ ExistsBijection(1..n, T)
  BY FS_CardinalityType
<1>2. PICK g : g \in Bijection(1..n, T)
  BY <1>1 DEF ExistsBijection
<1> HIDE DEF n
<1>3. g \in [1..n -> T] /\ (\A i, j \in 1..n : g[i] = g[j] => i = j) /\ (\A t \in T : \E i \in 1..n : g[i] = t)
  BY <1>2 DEF Bijection, Injection, Surjection, IsInjective
<1>4. s \in Seq({Point(x)}) /\ Len(s) = n /\ \A i \in 1..n : s[i] = Point(x)
  BY <1>1
<1> HIDE DEF s
<1>5. Spells(s, T, h)
  BY <1>3, <1>4 DEF Spells
<1> QED BY <1>4, <1>5 DEF s, n

(* A finite set as a sequence: each element once. *)
LEMMA SetToSeqIs ==
  ASSUME NEW S, IsFiniteSet(S)
  PROVE  LET s == SetToSeq(S)
         IN  /\ s \in Seq(S) /\ Len(s) = Cardinality(S)
             /\ \A i, j \in 1..Len(s) : s[i] = s[j] => i = j
             /\ \A x \in S : \E i \in 1..Len(s) : s[i] = x
<1> DEFINE f == SetToSeq(S)
           n == Cardinality(S)
<1>1. n \in Nat /\ ExistsBijection(1..n, S)
  BY FS_CardinalityType
<1>2. PICK g : g \in Bijection(1..n, S)
  BY <1>1 DEF ExistsBijection
<1>3. \E e \in [1..n -> S] : IsInjective(e)
  <2> HIDE DEF n
  <2>1. g \in [1..n -> S] /\ IsInjective(g)
    BY <1>2 DEF Bijection, Injection, IsInjective
  <2> QED BY <2>1
<1>4. f \in [1..n -> S] /\ IsInjective(f)
  <2> HIDE DEF n
  <2> QED BY <1>3 DEF SetToSeq, n
<1> HIDE DEF f, n
<1>5. \A i, j \in 1..n : f[i] = f[j] => i = j
  BY <1>4 DEF IsInjective
<1>6. f \in Injection(1..n, S)
  BY <1>4, <1>5 DEF Injection, IsInjective
<1>7. IsFiniteSet(1..n) /\ Cardinality(1..n) = n
  BY <1>1, FS_Interval
<1>8. f \in Surjection(1..n, S)
  BY <1>6, <1>7, FS_Injection DEF n
<1>9. \A x \in S : \E i \in 1..n : f[i] = x
  BY <1>8 DEF Surjection
<1>10. f \in Seq(S) /\ Len(f) = n
  BY <1>1, <1>4
<1> QED BY <1>5, <1>9, <1>10 DEF f, n

(***************************************************************************)
(* The keys of some places of a committee, and what they verify. A key is  *)
(* summed up as often as it has places, and so is its signature.           *)
(***************************************************************************)

(* Secret keys and points decode, and a root is a message of 32 bytes. *)
Decodable ==
  /\ Garbled \notin Own \cup Peers
  /\ \A b : IsABag(b) => b # Garbled
  /\ \A root \in Nat : Message32(root)

(* The places in order: each of them once. *)
LEMMA InOrderIs ==
  ASSUME NEW S \in SUBSET Nat, IsFiniteSet(S)
  PROVE  LET s == InOrder(S)
         IN  /\ s \in Seq(S) /\ Len(s) = Cardinality(S)
             /\ \A i, j \in 1..Len(s) : s[i] = s[j] => i = j
             /\ \A x \in S : \E i \in 1..Len(s) : s[i] = x
<1> DEFINE n == Cardinality(S)
           Below(i) == {j \in S : j <= i}
           rank == [i \in S |-> Cardinality(Below(i))]
           f == InOrder(S)
<1>1. n \in Nat
  BY FS_CardinalityType
<1>2. \A i \in S : Below(i) \in SUBSET S /\ i \in Below(i) /\ IsFiniteSet(Below(i))
  BY FS_Subset
<1>3. \A i \in S : rank[i] \in 1..n
  <2> SUFFICES ASSUME NEW i \in S PROVE Cardinality(Below(i)) \in 1..n
    OBVIOUS
  <2> HIDE DEF Below, n
  <2>1. IsFiniteSet(Below(i)) /\ Below(i) \in SUBSET S /\ Below(i) # {}
    BY <1>2
  <2>2. Cardinality(Below(i)) \in Nat /\ Cardinality(Below(i)) <= n /\ Cardinality(Below(i)) # 0
    BY <2>1, FS_Subset, FS_CardinalityType, FS_EmptySet DEF n
  <2> QED BY <1>1, <2>2
<1>4. \A i, j \in S : rank[i] = rank[j] => i = j
  <2>1. ASSUME NEW i \in S, NEW j \in S, i < j PROVE rank[i] # rank[j]
    <3>1. i \in Nat /\ j \in Nat
      OBVIOUS
    <3>2. Below(i) \in SUBSET Below(j) /\ j \notin Below(i) /\ j \in Below(j)
      <4>1. \A k \in S : k \in Nat /\ (k <= i => k <= j)
        BY <2>1, <3>1
      <4>2. ~(j <= i) /\ j <= j
        BY <2>1, <3>1
      <4> QED BY <4>1, <4>2
    <3> HIDE DEF Below
    <3>3. IsFiniteSet(Below(j)) /\ Below(j) # Below(i)
      BY <1>2, <3>2
    <3>4. Cardinality(Below(j)) # Cardinality(Below(i))
      BY <3>2, <3>3, FS_Subset
    <3> QED BY <3>4
  <2> HIDE DEF rank
  <2>2. \A i, j \in S : i = j \/ i < j \/ j < i
    OBVIOUS
  <2> QED BY <2>1, <2>2
<1>5. rank \in [S -> 1..n]
  BY <1>3
<1> HIDE DEF n, rank
<1>6. rank \in Injection(S, 1..n)
  BY <1>4, <1>5 DEF Injection, IsInjective
<1>7. IsFiniteSet(1..n) /\ Cardinality(1..n) = n
  BY <1>1, FS_Interval
<1>8. rank \in Surjection(S, 1..n)
  BY <1>6, <1>7, FS_Injection DEF n
<1>9. \A k \in 1..n : \E i \in S : rank[i] = k
  BY <1>8 DEF Surjection
<1>10. \A i \in S : rank[i] = Cardinality(Below(i))
  BY DEF rank
<1> HIDE DEF Below
<1>11. f = [k \in 1..n |-> CHOOSE i \in S : Cardinality(Below(i)) = k]
  BY DEF InOrder, n, Below
<1>12. \A k \in 1..n : f[k] \in S /\ rank[f[k]] = k
  <2> SUFFICES ASSUME NEW k \in 1..n PROVE f[k] \in S /\ rank[f[k]] = k
    OBVIOUS
  <2>1. \E i \in S : Cardinality(Below(i)) = k
    BY <1>9, <1>10
  <2>2. f[k] = CHOOSE i \in S : Cardinality(Below(i)) = k
    BY <1>11
  <2>3. f[k] \in S /\ Cardinality(Below(f[k])) = k
    BY <2>1, <2>2
  <2> QED BY <1>10, <2>3
<1>13. f \in [1..n -> S]
  BY <1>11, <1>12
<1> HIDE DEF f
<1>14. f \in Seq(S) /\ Len(f) = n
  BY <1>1, <1>13
<1>15. \A i, j \in 1..n : f[i] = f[j] => i = j
  BY <1>12
<1>16. \A x \in S : \E i \in 1..n : f[i] = x
  <2> SUFFICES ASSUME NEW x \in S PROVE \E i \in 1..n : f[i] = x
    OBVIOUS
  <2>1. rank[x] \in 1..n
    BY <1>5
  <2>2. f[rank[x]] \in S /\ rank[f[rank[x]]] = rank[x]
    BY <1>12, <2>1
  <2>3. f[rank[x]] = x
    BY <1>4, <2>2
  <2> QED BY <2>1, <2>3
<1> QED BY <1>14, <1>15, <1>16 DEF f, n

(* A point is a bag, and not infinity. *)
LEMMA PointIs ==
  \A x : /\ IsABag(Point(x)) /\ Point(x) # Infinity
         /\ Decodable => Point(x) # Garbled
<1> SUFFICES ASSUME NEW x PROVE IsABag(Point(x)) /\ Point(x) # Infinity /\ (Decodable => Point(x) # Garbled)
  OBVIOUS
<1>1. IsABag(Point(x))
  BY DEF IsABag, Point, SetToBag
<1>2. x \in DOMAIN Point(x) /\ x \notin DOMAIN Infinity
  BY DEF Point, Infinity, EmptyBag, SetToBag
<1> QED BY <1>1, <1>2 DEF Decodable

(* The public keys of the places B of the committee C. *)
KeysAt(C, B) == [i \in 1..Len(InOrder(B)) |-> derive_pubkey(C[InOrder(B)[i] + 1])[2]]

(* They are valid, one for each place, and so is what they sign. *)
LEMMA KeysAre ==
  ASSUME Decodable, NEW B \in SUBSET Nat, IsFiniteSet(B), NEW C, \A i \in B : C[i + 1] \in Own \cup Peers, NEW m
  PROVE  LET keys == KeysAt(C, B)
         IN  /\ keys \in Seq({Point(x) : x \in Own \cup Peers})
             /\ KeysValid(keys)
             /\ Spells(keys, B, [i \in B |-> C[i + 1]])
             /\ LET sigs == [i \in 1..Len(keys) |-> Expected(keys[i], m)]
                IN  sigs \in Seq({Point(<<x, m>>) : x \in Own \cup Peers}) /\ Spells(sigs, B, [i \in B |-> <<C[i + 1], m>>])
<1> DEFINE at == InOrder(B)
           n == Len(at)
           keys == KeysAt(C, B)
           sigs == [i \in 1..Len(keys) |-> Expected(keys[i], m)]
           key == [i \in B |-> C[i + 1]]
           mark == [i \in B |-> <<C[i + 1], m>>]
           V == Own \cup Peers
<1>1. /\ n \in Nat /\ at \in [1..n -> B]
      /\ \A i, j \in 1..n : at[i] = at[j] => i = j
      /\ \A x \in B : \E i \in 1..n : at[i] = x
  BY InOrderIs
<1>2. keys = [i \in 1..n |-> derive_pubkey(C[at[i] + 1])[2]]
  BY DEF KeysAt
<1> HIDE DEF at, n, keys
<1>3. \A i \in 1..n : at[i] \in B /\ C[at[i] + 1] \in V /\ C[at[i] + 1] # Garbled
  <2> SUFFICES ASSUME NEW i \in 1..n PROVE at[i] \in B /\ C[at[i] + 1] \in V /\ C[at[i] + 1] # Garbled
    OBVIOUS
  <2>1. at[i] \in B
    BY <1>1
  <2>2. C[at[i] + 1] \in V
    BY <2>1
  <2> QED BY <2>1, <2>2 DEF Decodable
<1>4. \A i \in 1..n : keys[i] = Point(C[at[i] + 1])
  BY <1>2, <1>3 DEF derive_pubkey, Ok
<1>5. keys \in Seq({Point(x) : x \in V}) /\ Len(keys) = n
  <2>1. keys \in [1..n -> {Point(x) : x \in V}]
    BY <1>2, <1>3, <1>4
  <2> QED BY <1>1, <2>1
<1>6. KeysValid(keys)
  <2>1. \A i \in 1..n : keys[i] # Infinity /\ keys[i] # Garbled
    BY <1>4, PointIs
  <2> QED BY <1>5, <2>1 DEF KeysValid, fast_public_key_deserialize, IsOk, Ok
<1>7. \A i \in 1..n : sigs[i] = Point(<<C[at[i] + 1], m>>)
  BY <1>4, <1>5, ExpectedPoint
<1>8. sigs \in Seq({Point(<<x, m>>) : x \in V}) /\ Len(sigs) = n
  <2> DEFINE W == {Point(<<x, m>>) : x \in V}
  <2>1. \A i \in 1..n : sigs[i] \in W
    BY <1>3, <1>7
  <2>2. DOMAIN sigs = 1..n /\ sigs = [i \in 1..n |-> sigs[i]]
    BY <1>5
  <2> HIDE DEF W, sigs
  <2>3. sigs \in [1..n -> W]
    BY <2>1, <2>2
  <2> QED BY <1>1, <2>3 DEF W
<1> HIDE DEF sigs
<1>9. \A i \in 1..n : key[at[i]] = C[at[i] + 1] /\ mark[at[i]] = <<C[at[i] + 1], m>>
  BY <1>3
<1> HIDE DEF key, mark
<1>10. Spells(keys, B, key)
  <2>1. \A i \in 1..n : keys[i] = Point(key[at[i]])
    BY <1>4, <1>9
  <2> QED BY <1>1, <1>5, <2>1 DEF Spells
<1>11. Spells(sigs, B, mark)
  <2>1. \A i \in 1..n : sigs[i] = Point(mark[at[i]])
    BY <1>7, <1>9
  <2> QED BY <1>1, <1>8, <2>1 DEF Spells
<1> QED BY <1>5, <1>6, <1>8, <1>10, <1>11 DEF keys, sigs, key, mark

(* A message signed once for each place verifies with the keys, in each of *)
(* the library's ways; with no place at all it does in eth_ only.          *)
LEMMA KeysVerify ==
  ASSUME Decodable, NEW B \in SUBSET Nat, IsFiniteSet(B), NEW C, \A i \in B : C[i + 1] \in Own \cup Peers,
         NEW m \in Nat, NEW sig, sig = BagOf(B, [i \in B |-> <<C[i + 1], m>>])
  PROVE  LET keys == KeysAt(C, B)
         IN  /\ B # {} => /\ IsTrue(fast_aggregate_verify(keys, m, sig))
                          /\ IsTrue(aggregate_verify(keys, [i \in 1..Len(keys) |-> m], sig))
                          /\ IsTrue(verify(eth_aggregate_pubkeys(keys)[2], m, sig))
             /\ IsTrue(eth_fast_aggregate_verify(keys, m, sig))
<1> DEFINE keys == KeysAt(C, B)
           sigs == [i \in 1..Len(keys) |-> Expected(keys[i], m)]
           key == [i \in B |-> C[i + 1]]
           mark == [i \in B |-> <<C[i + 1], m>>]
           ms == [i \in 1..Len(keys) |-> m]
<1>1. /\ keys \in Seq({Point(x) : x \in Own \cup Peers}) /\ KeysValid(keys) /\ Spells(keys, B, key)
      /\ sigs \in Seq({Point(<<x, m>>) : x \in Own \cup Peers}) /\ Spells(sigs, B, mark)
  BY KeysAre
<1> HIDE DEF keys
<1>2. SumOf(keys) = BagOf(B, key) /\ (keys = <<>> <=> B = {})
  <2> HIDE DEF key
  <2> QED BY <1>1, SpelledSum
<1>3. SumOf(sigs) = BagOf(B, mark)
  <2> HIDE DEF mark, sigs
  <2> QED BY <1>1, SpelledSum
<1>4. Expected(SumOf(keys), m) = sig
  <2>1. Expected(BagOf(B, key), m) = BagOf(B, [i \in B |-> <<key[i], m>>])
    BY ExpectedIs
  <2>2. [i \in B |-> <<key[i], m>>] = mark
    OBVIOUS
  <2> QED BY <1>2, <2>1, <2>2
<1>5. sig # Garbled /\ Message32(m)
  <2>1. IsABag(BagOf(B, mark))
    BY BagOfFew
  <2> QED BY <2>1 DEF Decodable
<1>6. IsOk(SignaturePoint(sig))
  BY <1>5 DEF IsOk, SignaturePoint, Ok
<1>7. sig = SumOf(sigs)
  BY <1>3
<1>8. Len(keys) \in Nat /\ Len(ms) = Len(keys) /\ \A i \in 1..Len(ms) : ms[i] = m /\ Message32(ms[i])
  <2>1. Len(keys) \in Nat
    BY <1>1
  <2> QED BY <1>5, <2>1
<1>9. sigs = [i \in 1..Len(keys) |-> Expected(keys[i], ms[i])]
  OBVIOUS
<1>10. B # {} => SumOf(keys) # Infinity /\ SumOf(keys) # Garbled
  <2> HIDE DEF key
  <2>1. IsABag(BagOf(B, key)) /\ (B # {} => BagOf(B, key) # Infinity)
    BY BagOfFew
  <2> QED BY <1>2, <2>1 DEF Decodable
<1> HIDE DEF ms, sigs, key, mark
<1>11. B # {} => IsTrue(fast_aggregate_verify(keys, m, sig))
  BY <1>1, <1>2, <1>4, <1>5, <1>6 DEF fast_aggregate_verify, FastAggregateVerify, IsTrue, Ok
<1>12. B # {} => IsTrue(aggregate_verify(keys, ms, sig))
  <2>1. B # {} => AggregateVerify(keys, ms, sig)
    BY <1>2, <1>7, <1>8, <1>9 DEF AggregateVerify
  <2> QED BY <1>1, <1>6, <1>8, <2>1 DEF aggregate_verify, IsTrue, Ok
<1>13. B # {} => IsTrue(verify(eth_aggregate_pubkeys(keys)[2], m, sig))
  <2>1. B # {} => eth_aggregate_pubkeys(keys)[2] = SumOf(keys)
    BY <1>1, <1>2 DEF eth_aggregate_pubkeys, Ok
  <2>2. B # {} => KeysValid(<<SumOf(keys)>>)
    BY <1>10 DEF KeysValid, fast_public_key_deserialize, IsOk, Ok
  <2> QED BY <1>4, <1>5, <1>6, <2>1, <2>2 DEF verify, IsTrue, Ok
<1>14. IsTrue(eth_fast_aggregate_verify(keys, m, sig))
  <2>1. B = {} => sig = Infinity
    BY BagOfFew
  <2>2. (keys = <<>> /\ sig = Infinity) \/ FastAggregateVerify(keys, m, sig)
    BY <1>2, <1>4, <2>1 DEF FastAggregateVerify
  <2> QED BY <1>1, <1>5, <1>6, <2>2 DEF eth_fast_aggregate_verify, IsTrue, Ok
<1> QED BY <1>11, <1>12, <1>13, <1>14 DEF keys, ms

(* What the places of a subcommittee sign. *)
Marks(p, n, root) == [i \in 0..(SubSize - 1) |-> <<SubcommitteeOf(p, n)[i + 1], root>>]

(* Messages of one root, one of each validator, and the places of a        *)
(* subcommittee they fill.                                                 *)
OneEach(ms, root) ==
  /\ IsFiniteSet(ToSet(ms))
  /\ \A m \in ToSet(ms) : m.signature = Point(<<m.validator, root>>)
  /\ \A x, y \in ToSet(ms) : x.validator = y.validator => x = y
BitsOf(ms, p, n) == UNION {Positions(p, n, m.validator) : m \in ToSet(ms)}

(* Their contribution has the signatures of its bits. A validator with     *)
(* several places in the subcommittee is counted at each of them and its   *)
(* signature repeated.                                                     *)
LEMMA ContributionSigned ==
  ASSUME Decodable, SubSize \in Nat, NEW ms, NEW p, NEW n, NEW root,
         OneEach(ms, root), BitsOf(ms, p, n) # {}
  PROVE  /\ BitsOf(ms, p, n) \in SUBSET (0..(SubSize - 1))
         /\ aggregate_sync_committee_signature(ms, p, n) = Ok(BagOf(BitsOf(ms, p, n), Marks(p, n, root)))
<1> DEFINE S == ToSet(ms)
           bits == UNION {Positions(p, n, m.validator) : m \in S}
           u == SetToSeq(S)
           N == Len(u)
           h == Marks(p, n, root)
           P == [i \in 1..N |-> Positions(p, n, u[i].validator)]
           q == [i \in 1..N |-> [j \in 1..Cardinality(Positions(p, n, u[i].validator)) |-> u[i].signature]]
           W == {m.signature : m \in S}
<1>0. /\ IsFiniteSet(ToSet(ms))
      /\ \A m \in ToSet(ms) : m.signature = Point(<<m.validator, root>>)
      /\ \A x, y \in ToSet(ms) : x.validator = y.validator => x = y
      /\ bits = BitsOf(ms, p, n)
  BY DEF OneEach, BitsOf
<1>1. /\ N \in Nat /\ u \in [1..N -> S]
      /\ \A i, j \in 1..N : u[i] = u[j] => i = j
      /\ \A x \in S : \E i \in 1..N : u[i] = x
  <2> HIDE DEF S
  <2> QED BY <1>0, SetToSeqIs DEF S
<1>2. bits # {} /\ bits \in SUBSET (0..(SubSize - 1))
  BY <1>0 DEF Positions
<1>3. aggregate_sync_committee_signature(ms, p, n) = aggregate(FlattenSeq(q))
  BY DEF aggregate_sync_committee_signature
<1> HIDE DEF S, u, N
<1>4. \A i \in 1..N : u[i] \in S
  BY <1>1
<1>5. \A i \in 1..N : /\ P[i] = Positions(p, n, u[i].validator)
                      /\ IsFiniteSet(P[i]) /\ P[i] \in SUBSET (0..(SubSize - 1))
                      /\ \A t \in P[i] : h[t] = <<u[i].validator, root>>
  <2> SUFFICES ASSUME NEW i \in 1..N
               PROVE  /\ IsFiniteSet(P[i]) /\ P[i] \in SUBSET (0..(SubSize - 1))
                      /\ \A t \in P[i] : h[t] = <<u[i].validator, root>>
    OBVIOUS
  <2>1. P[i] \in SUBSET (0..(SubSize - 1)) /\ \A t \in P[i] : SubcommitteeOf(p, n)[t + 1] = u[i].validator
    BY DEF Positions
  <2>2. IsFiniteSet(0..(SubSize - 1))
    BY FS_Interval
  <2>3. IsFiniteSet(P[i])
    BY <2>1, <2>2, FS_Subset
  <2> QED BY <2>1, <2>3 DEF Marks
<1>6. \A i, j \in 1..N : i # j => P[i] \cap P[j] = {}
  <2> SUFFICES ASSUME NEW i \in 1..N, NEW j \in 1..N, i # j PROVE P[i] \cap P[j] = {}
    OBVIOUS
  <2>1. u[i].validator # u[j].validator
    BY <1>0, <1>1, <1>4 DEF S
  <2> QED BY <2>1 DEF Positions
<1>7. \A i \in 1..N : u[i].signature = Point(<<u[i].validator, root>>) /\ u[i].signature \in W
  BY <1>0, <1>4 DEF S
<1>8. \A i \in 1..N : q[i] \in Seq(W) /\ Spells(q[i], P[i], h)
  <2> SUFFICES ASSUME NEW i \in 1..N PROVE q[i] \in Seq(W) /\ Spells(q[i], P[i], h)
    OBVIOUS
  <2> DEFINE x == <<u[i].validator, root>>
             s == [j \in 1..Cardinality(P[i]) |-> Point(x)]
  <2>1. q[i] = s
    BY <1>5, <1>7
  <2>2. IsFiniteSet(P[i]) /\ \A t \in P[i] : h[t] = x
    BY <1>5
  <2> HIDE DEF P, h, q, x, W
  <2>3. s \in Seq({Point(x)}) /\ Spells(s, P[i], h)
    BY <2>2, SpelledSame
  <2>4. Point(x) \in W
    BY <1>7 DEF x
  <2>5. s \in Seq(W)
    <3> HIDE DEF s
    <3>1. Len(s) \in Nat /\ s \in [1..Len(s) -> W]
      BY <2>3, <2>4
    <3> QED BY <3>1
  <2> QED BY <2>1, <2>3, <2>5
<1>9. \A t : t \in bits <=> \E i \in 1..N : t \in P[i]
  <2>1. ASSUME NEW t \in bits PROVE \E i \in 1..N : t \in P[i]
    <3>1. PICK m \in S : t \in Positions(p, n, m.validator)
      OBVIOUS
    <3>2. PICK i \in 1..N : u[i] = m
      BY <1>1
    <3> QED BY <1>5, <3>1, <3>2
  <2>2. ASSUME NEW i \in 1..N, NEW t \in P[i] PROVE t \in bits
    BY <1>4, <1>5
  <2> QED BY <2>1, <2>2
<1>10. q \in [1..N -> Seq(W)]
  BY <1>8
<1> HIDE DEF P, q, W, h, bits
<1>11. PICK run : Flattens(run, q, N, W)
  BY <1>1, <1>10, FlattenIs
<1> DEFINE U(k) == UNION {P[i] : i \in 1..k}
           K == {k \in Nat : k <= N => Spells(run[k], U(k), h)}
<1>12. 0 \in K
  <2>1. U(0) = {} /\ Len(<<>>) = 0 /\ 1..0 = {}
    OBVIOUS
  <2>2. Spells(<<>>, {}, h)
    <3> DEFINE e == [i \in 1..0 |-> {}]
    <3>1. e \in [1..Len(<<>>) -> {}]
      BY <2>1
    <3> QED BY <2>1, <3>1 DEF Spells
  <2> QED BY <1>11, <2>1, <2>2 DEF Flattens
<1>13. ASSUME NEW k \in Nat, k \in K PROVE k + 1 \in K
  <2> SUFFICES ASSUME k + 1 <= N PROVE Spells(run[k + 1], U(k + 1), h)
    OBVIOUS
  <2>1. Spells(run[k], U(k), h)
    BY <1>1, <1>13
  <2>2. k + 1 \in 1..N /\ k \in 0..N /\ (k + 1) - 1 = k /\ \A i \in 1..k : i \in 1..N /\ i # k + 1
    BY <1>1
  <2>3. U(k + 1) = U(k) \cup P[k + 1]
    <3>1. 1..(k + 1) = (1..k) \cup {k + 1}
      OBVIOUS
    <3> QED BY <3>1
  <2>4. U(k) \cap P[k + 1] = {}
    BY <1>6, <2>2
  <2> HIDE DEF U, K
  <2>5. run[k] \in Seq(W) /\ q[k + 1] \in Seq(W) /\ Spells(q[k + 1], P[k + 1], h)
    BY <1>8, <1>11, <2>2 DEF Flattens
  <2>6. Spells(run[k] \o q[k + 1], U(k) \cup P[k + 1], h)
    BY <2>1, <2>4, <2>5, SpelledTwice
  <2>7. run[k + 1] = run[k] \o q[k + 1]
    BY <1>11, <2>2 DEF Flattens
  <2> QED BY <2>3, <2>6, <2>7
<1> HIDE DEF K
<1>14. N \in K
  BY <1>1, <1>12, <1>13, SetInduction
<1> DEFINE s == FlattenSeq(q)
<1>15. s \in Seq(W) /\ Spells(s, bits, h)
  <2>1. U(N) = bits
    BY <1>9
  <2>2. N \in 0..N /\ N <= N
    BY <1>1
  <2> HIDE DEF U
  <2> QED BY <1>1, <1>11, <1>14, <2>1, <2>2 DEF K, Flattens
<1> HIDE DEF s
<1>16. SumOf(s) = BagOf(bits, h) /\ s # <<>>
  BY <1>2, <1>15, SpelledSum
<1>17. \A i \in 1..Len(s) : IsOk(SignaturePoint(s[i]))
  <2>1. \A i \in 1..Len(s) : s[i] \in W
    BY <1>15
  <2>2. \A w \in W : w # Garbled
    BY <1>0, PointIs DEF W, S
  <2> QED BY <2>1, <2>2 DEF IsOk, SignaturePoint, Ok
<1>18. aggregate(s) = Ok(BagOf(bits, h))
  BY <1>16, <1>17 DEF aggregate, Ok
<1> QED BY <1>0, <1>2, <1>3, <1>18 DEF s, h

(***************************************************************************)
(* ContributionsVerify                                                     *)
(***************************************************************************)

(* A later slot is not of an earlier epoch or period. *)
LEMMA SlotsInOrder ==
  ASSUME NEW s \in Nat, NEW t \in Nat, s <= t
  PROVE  /\ EpochOf(s) <= EpochOf(t) /\ SyncEpoch(s) <= SyncEpoch(t)
         /\ PeriodOf(SyncEpoch(s)) <= PeriodOf(SyncEpoch(t))
<1>1. SlotsPerEpoch \in Nat \ {0} /\ EpochsPerPeriod \in Nat \ {0}
  BY ValidatorsAssumption
<1>2. s + 1 \in Nat /\ t + 1 \in Nat /\ s + 1 <= t + 1
  OBVIOUS
<1>3. s \div SlotsPerEpoch <= t \div SlotsPerEpoch
  BY <1>1, DivKeepsOrder
<1>4. (s + 1) \div SlotsPerEpoch <= (t + 1) \div SlotsPerEpoch
  BY <1>1, <1>2, DivKeepsOrder
<1> DEFINE a == (s + 1) \div SlotsPerEpoch
           b == (t + 1) \div SlotsPerEpoch
<1>5. a \in Nat /\ b \in Nat /\ a <= b
  BY <1>1, <1>4
<1> HIDE DEF a, b
<1>6. a \div EpochsPerPeriod <= b \div EpochsPerPeriod
  BY <1>1, <1>5, DivKeepsOrder
<1> QED BY <1>3, <1>5, <1>6 DEF EpochOf, SyncEpoch, PeriodOf, a, b

(* A subcommittee has a number of places. *)
LEMMA SubSizeIs == SubSize \in Nat
<1>1. Len(Committee[0]) \in Nat
  BY ValidatorsAssumption
<1> QED BY <1>1, ValidatorsAssumption DEF SubSize

Slot == 0..SlotOf(LastThird)

(* The places of a subcommittee are in its committee, and validators have  *)
(* them.                                                                   *)
LEMMA MembersKnown ==
  ASSUME NEW slot \in Slot, NEW n \in Subnets, NEW i \in 0..(SubSize - 1)
  PROVE  LET p == PeriodOf(SyncEpoch(slot))
         IN  /\ n * SubSize + i \in 0..(Len(Committee[p]) - 1)
             /\ SubcommitteeOf(p, n)[i + 1] = Committee[p][(n * SubSize + i) + 1]
             /\ SubcommitteeOf(p, n)[i + 1] \in Own \cup Peers
<1> DEFINE p == PeriodOf(SyncEpoch(slot))
           last == SlotOf(LastThird)
           C == Committee[p]
           L == Len(C)
           z == SubSize
           k == SubnetCount
           j == n * z + i
<1>1. last \in Nat /\ slot \in Nat /\ slot <= last
  <2>1. last \in Nat
    BY CommitteesAssumption DEF SlotOf
  <2> QED BY <2>1 DEF Slot
<1>2. p \in DOMAIN Committee
  <2>1. p <= PeriodOf(SyncEpoch(last))
    <3> HIDE DEF last
    <3> QED BY <1>1, SlotsInOrder
  <2>2. p \in Nat /\ PeriodOf(SyncEpoch(last)) \in Nat
    <3>1. slot + 1 \in Nat /\ last + 1 \in Nat
      BY <1>1
    <3> HIDE DEF last
    <3> QED BY <3>1, EpochsAreNumbers DEF SyncEpoch
  <2> HIDE DEF p
  <2> QED BY <2>1, <2>2, CommitteesAssumption
<1>3. C \in Seq(Own \cup Peers) /\ L = Len(Committee[0])
  <2> HIDE DEF p
  <2> QED BY <1>2, ValidatorsAssumption, CommitteesAssumption
<1>4. z \in Nat /\ z = L \div k /\ k \in Nat \ {0} /\ L \in Nat
  BY <1>3, SubSizeIs, ValidatorsAssumption DEF SubSize
<1>5. n \in Nat /\ n <= k - 1
  BY <1>4 DEF Subnets
<1>6. SubcommitteeOf(p, n)[i + 1] = C[j + 1]
  <2> HIDE DEF p
  <2> QED BY PlaceInCommittee
<1> HIDE DEF p, C, L, z, k
<1>7. k * z <= L
  BY <1>4, DivBounds
<1>8. k * z \in Nat /\ n * z \in Nat
  BY <1>4, <1>5
<1>9. (n + 1) * z <= k * z
  <2>1. n + 1 <= k
    BY <1>4, <1>5
  <2> QED BY <1>4, <1>5, <2>1
<1>10. (n + 1) * z = n * z + z
  BY <1>4, <1>5
<1>11. j \in Nat /\ j + 1 <= L
  BY <1>4, <1>7, <1>8, <1>9, <1>10 DEF z
<1> HIDE DEF j
<1>12. C[j + 1] \in Own \cup Peers
  <2>1. j + 1 \in 1..Len(C)
    BY <1>4, <1>11 DEF L
  <2> QED BY <1>3, <2>1
<1>13. j \in 0..(L - 1)
  BY <1>4, <1>11
<1> QED BY <1>6, <1>12, <1>13 DEF p, C, L, z, j

(* No block is from the future. *)
Bounded == clock <= LastThird /\ store_head <= SlotOf(clock) /\ head <= SlotOf(clock)

(* Every step keeps it. *)
LEMMA NextBounded == Shape /\ Bounded /\ [Next]_vars => Bounded'
<1> SUFFICES ASSUME Shape, Bounded, [Next]_vars PROVE Bounded'
  OBVIOUS
<1>0. /\ clock \in Nat /\ SlotOf(clock) \in Nat /\ store_head \in Nat /\ head \in Nat /\ LastThird \in Nat
      /\ clock <= LastThird /\ store_head <= SlotOf(clock) /\ head <= SlotOf(clock)
  BY CommitteesAssumption DEF Shape, Bounded, SlotOf
<1>1. CASE NotifyHead
  <2>1. inbox # <<>> /\ head' = inbox[1] /\ UNCHANGED <<clock, store_head>>
    BY <1>1, HeadCases
  <2>2. inbox[1] <= SlotOf(clock)
    BY <2>1 DEF Shape
  <2> QED BY <1>0, <2>1, <2>2 DEF Bounded
<1>2. CASE NewBlock
  <2>1. PICK slot \in (store_head + 1)..SlotOf(clock) : store_head' = slot
    BY <1>2 DEF NewBlock
  <2>2. UNCHANGED <<clock, head>>
    BY <1>2 DEF NewBlock
  <2> QED BY <1>0, <2>1, <2>2 DEF Bounded
<1>3. CASE TimePasses
  <2>1. clock' = clock + 1 /\ clock < LastThird /\ UNCHANGED <<store_head, head>>
    BY <1>3 DEF TimePasses, Sending
  <2>2. SlotOf(clock) <= SlotOf(clock + 1) /\ SlotOf(clock + 1) \in Nat
    BY <1>0 DEF SlotOf
  <2> QED BY <1>0, <2>1, <2>2 DEF Bounded
<1>4. CASE Restart
  BY <1>0, <1>4 DEF Restart, Bounded
<1>5. CASE OnTick \/ Deliver \/ ReceiveContribution \/ PeerSigns \/ PeerContributes \/ UNCHANGED vars
  <2>1. UNCHANGED <<clock, store_head, head>>
    BY <1>5 DEF OnTick, Deliver, ReceiveContribution, PeerSigns, PeerContributes, vars
  <2> QED BY <1>0, <2>1 DEF Bounded
<1> QED BY <1>1, <1>2, <1>3, <1>4, <1>5 DEF Next

(* Any slot up to now, and the slot of now, is one of the slots. *)
LEMMA SlotsOfNow ==
  ASSUME Shape, Bounded, NEW s \in Nat, s <= SlotOf(clock)
  PROVE  s \in Slot
<1>1. clock \in Nat /\ LastThird \in Nat /\ clock <= LastThird
  BY CommitteesAssumption DEF Shape, Bounded
<1>2. SlotOf(clock) <= SlotOf(LastThird) /\ SlotOf(clock) \in Nat /\ SlotOf(LastThird) \in Nat
  BY <1>1 DEF SlotOf
<1> QED BY <1>2 DEF Slot

(* Duties are those of the committee that signs in their epoch. *)
OfPeriod(d) == \A e \in DOMAIN d : d[e].of = PeriodOf(e)

(* A tick in time finds the duties of its slot, computed an epoch before;  *)
(* late heads, of blocks of earlier slots, find theirs.                    *)
DutyInv ==
  InTime /\ ~raised =>
    /\ OfPeriod(duties)
    /\ \A e \in Nat : e <= EpochOf(SlotOf(clock)) => e \in DOMAIN duties
    /\ slot_data = clock \/ clock = 0 => EpochOf(SlotOf(clock)) + 1 \in DOMAIN duties

(* New duties taken from the last ones or from a state in the epoch. *)
LEMMA EpochOfPeriod ==
  ASSUME NEW d, OfPeriod(d), NEW e, NEW slot, PeriodOf(EpochOf(slot + 1)) = PeriodOf(e)
  PROVE  OfPeriod(ComputeEpoch(d, e, slot))
<1> DEFINE last == IF DOMAIN d = {} THEN 0 ELSE Max(DOMAIN d)
           known == last \in DOMAIN d /\ PeriodOf(last) = PeriodOf(e)
           of == IF known THEN d[last].of ELSE compute_sync_committee_duties(slot)
           c == ComputeEpoch(d, e, slot)
<1>1. of = PeriodOf(e)
  <2> HIDE DEF last
  <2> QED BY DEF OfPeriod, compute_sync_committee_duties
<1>2. c = [x \in DOMAIN d \cup {e} |-> IF x # e THEN d[x] ELSE Duty(of)]
  BY DEF ComputeEpoch
<1> HIDE DEF of, c
<1>3. Duty(of).of = of
  BY DEF Duty
<1>4. \A x \in DOMAIN c : c[x].of = PeriodOf(x)
  BY <1>1, <1>2, <1>3 DEF OfPeriod
<1> QED BY <1>4 DEF OfPeriod, c

(* The second slot of an epoch is of the epoch. *)
LEMMA SecondSlot == \A e \in Nat : EpochOf(e * SlotsPerEpoch + 1) = e
<1> SUFFICES ASSUME NEW e \in Nat PROVE EpochOf(e * SlotsPerEpoch + 1) = e
  OBVIOUS
<1> DEFINE n == SlotsPerEpoch
           x == e * n + 1
           q == x \div n
<1>1. n \in Nat /\ n > 1
  BY ValidatorsAssumption, CommitteesAssumption
<1> HIDE DEF n
<1>2. e * n \in Nat /\ x \in Nat /\ e * n = n * e
  BY <1>1
<1>3. q \in Nat /\ n * q <= x /\ x < n * q + n
  BY <1>1, <1>2, DivBounds
<1> HIDE DEF q
<1>4. n * e \in Nat /\ n * q \in Nat /\ x = n * e + 1
  BY <1>1, <1>2, <1>3
<1> HIDE DEF x
<1>5. ~(q + 1 <= e)
  <2> SUFFICES ASSUME q + 1 <= e PROVE FALSE
    OBVIOUS
  <2>1. n * (q + 1) <= n * e /\ n * (q + 1) = n * q + n
    BY <1>1, <1>3
  <2> QED BY <1>1, <1>3, <1>4, <2>1
<1>6. ~(e + 1 <= q)
  <2> SUFFICES ASSUME e + 1 <= q PROVE FALSE
    OBVIOUS
  <2>1. n * (e + 1) <= n * q /\ n * (e + 1) = n * e + n
    BY <1>1, <1>3
  <2> QED BY <1>1, <1>3, <1>4, <2>1
<1> QED BY <1>3, <1>5, <1>6 DEF q, x, n, EpochOf

(* Duties computed when those of the slot's epoch are there, or at the     *)
(* start, are of the right period; the next epoch is among them.           *)
LEMMA DutiesOfPeriod ==
  ASSUME NEW d, IsDuties(d), OfPeriod(d), NEW slot \in Nat, EpochOf(slot) \in DOMAIN d \/ slot = 0
  PROVE  /\ OfPeriod(compute_duties(d, slot))
         /\ EpochOf(slot) \in DOMAIN compute_duties(d, slot)
         /\ EpochOf(slot) + 1 \in DOMAIN compute_duties(d, slot)
<1> DEFINE e == EpochOf(slot)
           d1 == WithFirst(d, slot)
           next == (e + 1) * SlotsPerEpoch
           d2 == ComputeEpoch(d1, e + 1, next)
<1>1. e \in Nat
  BY EpochsAreNumbers
<1>2. slot = 0 => e = 0 /\ EpochOf(slot + 1) = e
  <2>1. SlotsPerEpoch \in Nat /\ SlotsPerEpoch > 1
    BY ValidatorsAssumption, CommitteesAssumption
  <2>2. 0 \div SlotsPerEpoch = 0 /\ 1 \div SlotsPerEpoch = 0
    <3>1. EpochOf(0 * SlotsPerEpoch + 1) = 0
      BY SecondSlot
    <3>2. 0 * SlotsPerEpoch + 1 = 1
      BY <2>1
    <3> QED BY <2>1, <3>1, <3>2 DEF EpochOf
  <2> QED BY <2>2 DEF EpochOf
<1>3. EpochOf(next + 1) = e + 1
  <2>1. e + 1 \in Nat
    BY <1>1
  <2> HIDE DEF e
  <2> QED BY <2>1, SecondSlot
<1>4. OfPeriod(d1) /\ e \in DOMAIN d1
  <2>1. CASE e \in DOMAIN d
    BY <2>1 DEF WithFirst
  <2>2. CASE e \notin DOMAIN d
    <3>1. d1 = ComputeEpoch(d, e, slot)
      BY <2>2 DEF WithFirst
    <3>2. EpochOf(slot + 1) = e
      BY <1>2, <2>2
    <3> HIDE DEF d1, e
    <3>3. PeriodOf(EpochOf(slot + 1)) = PeriodOf(e)
      BY <3>2
    <3>4. OfPeriod(ComputeEpoch(d, e, slot))
      BY <3>3, EpochOfPeriod
    <3>5. e \in DOMAIN ComputeEpoch(d, e, slot)
      BY DEF ComputeEpoch
    <3> QED BY <3>1, <3>4, <3>5
  <2> QED BY <2>1, <2>2
<1>5. compute_duties(d, slot) = IF e + 1 \in DOMAIN d1 THEN d1 ELSE d2
  BY DEF compute_duties
<1> HIDE DEF e, d1, next
<1>6. OfPeriod(d2) /\ DOMAIN d2 = DOMAIN d1 \cup {e + 1}
  <2>1. PeriodOf(EpochOf(next + 1)) = PeriodOf(e + 1)
    BY <1>3
  <2>2. OfPeriod(ComputeEpoch(d1, e + 1, next))
    BY <1>4, <2>1, EpochOfPeriod
  <2>3. DOMAIN ComputeEpoch(d1, e + 1, next) = DOMAIN d1 \cup {e + 1}
    BY DEF ComputeEpoch
  <2> QED BY <2>2, <2>3
<1> HIDE DEF d2
<1> QED BY <1>4, <1>5, <1>6 DEF e

(* Once a tick was missed, one was missed. *)
LEMMA StaysInTime ==
  ASSUME Shape, [Next]_vars, InTime'
  PROVE  InTime
<1>1. CASE TimePasses \/ Restart
  BY <1>1 DEF TimePasses, Restart, Shape, InTime
<1>2. CASE ~(TimePasses \/ Restart)
  BY <1>2 DEF Next, vars, OnTick, NotifyHead, NewBlock, Deliver, ReceiveContribution, PeerSigns,
              PeerContributes, faults, InTime
<1> QED BY <1>1, <1>2

(* What is computed for a slot that has come. *)
LEMMA SlotDuties ==
  ASSUME Shape, DutyInv, InTime, ~raised, NEW slot \in Nat, slot <= SlotOf(clock)
  PROVE  LET d == compute_duties(duties, slot)
         IN  /\ IsDuties(d) /\ OfPeriod(d) /\ DOMAIN duties \subseteq DOMAIN d
             /\ EpochOf(slot) \in DOMAIN d /\ EpochOf(slot) + 1 \in DOMAIN d /\ SyncEpoch(slot) \in DOMAIN d
<1> DEFINE d == compute_duties(duties, slot)
<1>0. IsDuties(duties) /\ SlotOf(clock) \in Nat
  BY DEF Shape, SlotOf
<1>1. EpochOf(slot) \in DOMAIN duties /\ OfPeriod(duties)
  <2>1. EpochOf(slot) <= EpochOf(SlotOf(clock)) /\ EpochOf(slot) \in Nat
    BY <1>0, SlotsInOrder, EpochsAreNumbers
  <2> QED BY <2>1 DEF DutyInv
<1>2. OfPeriod(d) /\ EpochOf(slot) \in DOMAIN d /\ EpochOf(slot) + 1 \in DOMAIN d
  BY <1>0, <1>1, DutiesOfPeriod
<1>3. IsDuties(d) /\ Keeps(duties, d) /\ SyncEpoch(slot) \in DOMAIN d
  BY <1>0, ComputedDuties
<1> HIDE DEF d
<1>4. DOMAIN duties \subseteq DOMAIN d
  BY <1>3 DEF Keeps
<1> QED BY <1>2, <1>3, <1>4 DEF d

(* A broadcast keeps the periods. *)
LEMMA BroadcastDuty ==
  ASSUME Shape, DutyInv, InTime, ~raised, NEW slot \in Nat, slot <= SlotOf(clock), Broadcasted(slot)
  PROVE  ~raised' => /\ OfPeriod(duties') /\ DOMAIN duties \subseteq DOMAIN duties'
                     /\ EpochOf(slot) + 1 \in DOMAIN duties'
<1> DEFINE d == compute_duties(duties, slot)
<1>1. /\ IsDuties(d) /\ OfPeriod(d) /\ DOMAIN duties \subseteq DOMAIN d
      /\ EpochOf(slot) \in DOMAIN d /\ EpochOf(slot) + 1 \in DOMAIN d /\ SyncEpoch(slot) \in DOMAIN d
  BY SlotDuties
<1>2. PICK root : Broadcasts(d, slot, root)
  BY DEF Broadcasted
<1> HIDE DEF d
<1>3. raised' = TRUE \/ Flags(d, slot, duties')
  BY <1>1, <1>2, BroadcastsDo
<1> QED BY <1>1, <1>3 DEF Flags, OfPeriod

(* Every step in time keeps the duties of the right periods. *)
LEMMA NextDuty == Shape /\ RowInv /\ DutyInv /\ [Next]_vars => DutyInv'
<1> SUFFICES ASSUME Shape, RowInv, DutyInv, [Next]_vars, InTime', ~raised' PROVE DutyInv'
  BY DEF DutyInv
<1> DEFINE slot == SlotOf(clock)
           d == compute_duties(duties, slot)
<1>0. slot \in Nat /\ clock \in Nat /\ slot <= slot
  BY DEF Shape, SlotOf
<1>1. InTime
  BY StaysInTime
<1>2. ~raised => /\ OfPeriod(duties)
                 /\ \A e \in Nat : e <= EpochOf(slot) => e \in DOMAIN duties
                 /\ slot_data = clock \/ clock = 0 => EpochOf(slot) + 1 \in DOMAIN duties
  BY <1>1 DEF DutyInv
<1>a. SUFFICES /\ OfPeriod(duties')
               /\ \A e \in Nat : e <= EpochOf(SlotOf(clock')) => e \in DOMAIN duties'
               /\ slot_data' = clock' \/ clock' = 0 => EpochOf(SlotOf(clock')) + 1 \in DOMAIN duties'
  BY DEF DutyInv
<1> HIDE DEF slot
<1>3. CASE OnTick
  <2>1. /\ UNCHANGED clock /\ ~raised
        /\ StoodStill \/ Proposed \/ Broadcasted(slot) \/ Published
    BY <1>0, <1>3, TickCases DEF slot
  <2>2. /\ IsDuties(d) /\ OfPeriod(d) /\ DOMAIN duties \subseteq DOMAIN d
        /\ EpochOf(slot) + 1 \in DOMAIN d /\ SyncEpoch(slot) \in DOMAIN d
    BY <1>0, <1>1, <2>1, SlotDuties DEF slot
  <2>3. /\ OfPeriod(duties') /\ DOMAIN duties \subseteq DOMAIN duties'
        /\ EpochOf(slot) + 1 \in DOMAIN duties'
    <3>1. CASE StoodStill
      BY <3>1 DEF StoodStill
    <3>2. CASE Proposed
      <4>1. duties' = d
        BY <3>2, ProposedDo DEF slot
      <4> HIDE DEF d
      <4> QED BY <2>2, <4>1
    <3>3. CASE Broadcasted(slot)
      BY <1>0, <1>1, <2>1, <3>3, BroadcastDuty DEF slot
    <3>4. CASE Published
      <4>1. d = compute_duties(duties, SlotOf(clock)) /\ SlotOf(clock) = slot
        BY DEF slot
      <4> HIDE DEF d
      <4>2. DOMAIN duties' = DOMAIN d /\ \A x \in DOMAIN d : duties'[x].of = d[x].of
        BY <2>2, <3>4, <4>1, PublishedDo
      <4> QED BY <2>2, <4>2 DEF OfPeriod
    <3> QED BY <2>1, <3>1, <3>2, <3>3, <3>4
  <2>4. SlotOf(clock') = slot
    BY <2>1 DEF slot
  <2> QED BY <1>2, <2>1, <2>3, <2>4
<1>4. CASE NotifyHead
  <2>1. /\ ~raised /\ inbox # <<>> /\ UNCHANGED <<clock, slot_data>>
        /\ StoodStill \/ Broadcasted(inbox[1])
    BY <1>4, HeadCases
  <2>2. inbox[1] \in Nat /\ inbox[1] <= SlotOf(clock)
    BY <2>1 DEF Shape
  <2>3. Broadcasted(inbox[1])
    BY <2>1 DEF StoodStill
  <2>4. OfPeriod(duties') /\ DOMAIN duties \subseteq DOMAIN duties'
    BY <1>1, <2>1, <2>2, <2>3, BroadcastDuty
  <2>5. SlotOf(clock') = slot
    BY <2>1 DEF slot
  <2> QED BY <1>2, <2>1, <2>4, <2>5
<1>5. CASE TimePasses
  <2>1. /\ clock' = clock + 1 /\ UNCHANGED <<slot_data, duties, raised>> /\ slot_data = clock
    BY <1>5, <1>1 DEF TimePasses, InTime, Shape
  <2>2. SlotOf(clock') = slot \/ SlotOf(clock') = slot + 1
    BY <1>0, <2>1 DEF slot, SlotOf
  <2>3. EpochOf(SlotOf(clock')) \in {EpochOf(slot), EpochOf(slot) + 1}
    BY <1>0, <2>2, NextSlotEpoch DEF SyncEpoch
  <2>4. EpochOf(slot) \in Nat
    BY <1>0, EpochsAreNumbers
  <2>5. \A e \in Nat : e <= EpochOf(slot) + 1 => e \in DOMAIN duties
    BY <1>2, <2>1, <2>4
  <2>6. slot_data' # clock' /\ clock' # 0
    BY <1>0, <2>1
  <2> QED BY <1>2, <2>1, <2>3, <2>4, <2>5, <2>6
<1>6. CASE Restart
  BY <1>6, <1>1 DEF Restart, InTime
<1>7. CASE NewBlock \/ Deliver \/ ReceiveContribution \/ PeerSigns \/ PeerContributes \/ UNCHANGED vars
  <2>1. UNCHANGED <<clock, slot_data, duties, raised>>
    BY <1>7 DEF NewBlock, Deliver, ReceiveContribution, PeerSigns, PeerContributes, vars
  <2> QED BY <1>2, <2>1 DEF slot
<1> QED BY <1>3, <1>4, <1>5, <1>6, <1>7 DEF Next

(* Duties are there from the start. *)
LEMMA InitDuty == Init => DutyInv /\ Bounded
<1> SUFFICES ASSUME Init PROVE DutyInv /\ Bounded
  OBVIOUS
<1>1. /\ clock = 0 /\ store_head = 0 /\ head = 0 /\ duties = compute_duties(NoDuties, 0)
  BY DEF Init
<1>2. IsDuties(NoDuties) /\ OfPeriod(NoDuties)
  BY DEF NoDuties, IsDuties, OfPeriod
<1>3. OfPeriod(duties) /\ EpochOf(0) \in DOMAIN duties /\ EpochOf(0) + 1 \in DOMAIN duties
  BY <1>1, <1>2, DutiesOfPeriod
<1>4. SlotOf(clock) = 0
  BY <1>1 DEF SlotOf
<1>5. EpochOf(0) = 0
  BY ValidatorsAssumption DEF EpochOf
<1>6. \A e \in Nat : e <= 0 => e = 0
  OBVIOUS
<1>7. DutyInv
  BY <1>1, <1>3, <1>4, <1>5, <1>6 DEF DutyInv
<1> QED BY <1>1, <1>4, <1>7, CommitteesAssumption DEF Bounded

(* A message has the signature of its validator and, in time, the subnets  *)
(* of the committee that is to sign in its slot.                           *)
Valid(m) ==
  /\ m.validator \in Own \cup Peers /\ m.slot \in Slot /\ m.root \in Slot
  /\ m.signature = Point(<<m.validator, m.root>>)
OnSubnets(m) == m.subnets = SubnetsOf(PeriodOf(SyncEpoch(m.slot)), m.validator)
MessageInv == \A m \in messages : Valid(m) /\ (InTime => OnSubnets(m))

(* What a validator signs is valid. *)
LEMMA SignedValid ==
  ASSUME Decodable, NEW p, NEW slot \in Slot, NEW root \in Slot, NEW v \in Own \cup Peers
  PROVE  /\ Valid(SyncMessage(p, slot, root, v))
         /\ p = PeriodOf(SyncEpoch(slot)) => OnSubnets(SyncMessage(p, slot, root, v))
<1> DEFINE m == SyncMessage(p, slot, root, v)
<1>1. root \in Nat
  BY DEF Slot
<1>2. sign(v, root)[2] = Point(<<v, root>>)
  BY <1>1 DEF sign, Ok, Decodable
<1>3. /\ m.validator = v /\ m.slot = slot /\ m.root = root
      /\ m.signature = Point(<<v, root>>) /\ m.subnets = SubnetsOf(p, v)
  BY <1>2 DEF SyncMessage
<1> HIDE DEF m
<1> QED BY <1>3 DEF Valid, OnSubnets, m

(* So is what a broadcast sends. *)
LEMMA BroadcastValid ==
  ASSUME Decodable, Shape, Bounded, DutyInv, MessageInv, ~raised,
         NEW slot \in Nat, slot <= SlotOf(clock), NEW root \in Nat, root <= SlotOf(clock),
         BroadcastedOn(slot, root), UNCHANGED <<skips, restarts>>
  PROVE  MessageInv'
<1> DEFINE d == compute_duties(duties, slot)
           new == NewMessages(d, slot, root)
<1>1. messages' = messages \/ messages' = messages \cup new
  BY BroadcastCollects DEF BroadcastedOn
<1>2. slot \in Slot /\ root \in Slot
  BY SlotsOfNow
<1>3. InTime => SyncDuty(d, slot).of = PeriodOf(SyncEpoch(slot))
  <2>1. InTime => OfPeriod(d) /\ SyncEpoch(slot) \in DOMAIN d
    BY SlotDuties
  <2> HIDE DEF d
  <2> QED BY <2>1 DEF OfPeriod, SyncDuty
<1>4. \A m \in new : Valid(m) /\ (InTime => OnSubnets(m))
  <2> SUFFICES ASSUME NEW m \in new PROVE Valid(m) /\ (InTime => OnSubnets(m))
    OBVIOUS
  <2>1. PICK v \in current_sync_committee(d, slot) : m = SyncMessage(SyncDuty(d, slot).of, slot, root, v)
    BY DEF NewMessages
  <2>2. v \in Own \cup Peers
    BY <2>1 DEF current_sync_committee, MembersOf
  <2> HIDE DEF d, new
  <2> QED BY <1>2, <1>3, <2>1, <2>2, SignedValid
<1> HIDE DEF new
<1> QED BY <1>1, <1>4 DEF MessageInv, InTime

(* Every step keeps what is known of messages. *)
LEMMA NextMessage ==
  ASSUME Decodable
  PROVE  Shape /\ Bounded /\ DutyInv /\ MessageInv /\ [Next]_vars => MessageInv'
<1> SUFFICES ASSUME Shape, Bounded, DutyInv, MessageInv, [Next]_vars PROVE MessageInv'
  OBVIOUS
<1>0. /\ SlotOf(clock) \in Nat /\ clock \in Nat /\ SlotOf(clock) <= SlotOf(clock)
      /\ head \in Nat /\ head <= SlotOf(clock) /\ store_head \in Nat /\ store_head <= SlotOf(clock)
  BY DEF Shape, SlotOf, Bounded
<1>i. InTime' => InTime
  BY StaysInTime
<1>1. CASE OnTick
  <2>1. /\ UNCHANGED <<skips, restarts>> /\ ~raised
        /\ \/ StoodStill \/ Proposed \/ BroadcastedOn(SlotOf(clock), head) \/ Published
    BY <1>1, <1>0, TickCases
  <2>2. CASE BroadcastedOn(SlotOf(clock), head)
    BY <1>0, <2>1, <2>2, BroadcastValid
  <2>3. CASE StoodStill \/ Proposed \/ Published
    <3>1. UNCHANGED messages
      BY <2>3, ProposedDo DEF StoodStill, Published, PublishAggregates
    <3> QED BY <2>1, <3>1 DEF MessageInv, InTime
  <2> QED BY <2>1, <2>2, <2>3
<1>2. CASE NotifyHead
  <2>1. inbox # <<>> /\ ~raised /\ UNCHANGED <<skips, restarts>> /\ (StoodStill \/ BroadcastedOn(inbox[1], inbox[1]))
    BY <1>2, HeadCases
  <2>2. inbox[1] \in Nat /\ inbox[1] <= SlotOf(clock)
    BY <2>1 DEF Shape
  <2>3. CASE StoodStill
    BY <2>1, <2>3 DEF StoodStill, MessageInv, InTime
  <2> QED BY <2>1, <2>2, <2>3, BroadcastValid
<1>3. CASE PeerSigns
  <2> DEFINE p == PeriodOf(SyncEpoch(SlotOf(clock)))
  <2>1. PICK v \in Peers, root \in {store_head} \cup {SlotOf(clock)} :
          messages' = messages \cup {SyncMessage(p, SlotOf(clock), root, v)}
    BY <1>3 DEF PeerSigns
  <2>2. root \in Slot /\ SlotOf(clock) \in Slot
    BY <1>0, SlotsOfNow
  <2>3. /\ Valid(SyncMessage(p, SlotOf(clock), root, v))
        /\ OnSubnets(SyncMessage(p, SlotOf(clock), root, v))
    BY <2>2, SignedValid
  <2> HIDE DEF p
  <2> QED BY <1>i, <2>1, <2>3 DEF MessageInv
<1>4. CASE NewBlock \/ Deliver \/ ReceiveContribution \/ PeerContributes \/ TimePasses \/ Restart \/ UNCHANGED vars
  <2>1. UNCHANGED messages
    BY <1>4 DEF NewBlock, Deliver, ReceiveContribution, PeerContributes, TimePasses, Restart, vars, network
  <2> QED BY <1>i, <2>1 DEF MessageInv
<1> QED BY <1>1, <1>2, <1>3, <1>4 DEF Next

(***************************************************************************)
(* Contributions carry the signatures of their bits, each as often as its  *)
(* validator has places in the subcommittee.                               *)
(***************************************************************************)
Sound(c) ==
  /\ c.slot \in Slot /\ c.root \in Slot /\ c.subnet \in Subnets
  /\ c.bits \in SUBSET (0..(SubSize - 1)) /\ c.bits # {}
  /\ c.signature = BagOf(c.bits, Marks(PeriodOf(SyncEpoch(c.slot)), c.subnet, c.root))
SoundInv == InTime => \A c \in contributions : Sound(c) \/ Forged(c)

(* Messages of one slot and root, one of each validator, of which one is   *)
(* of the subnet, make a sound contribution.                               *)
LEMMA ContributionSound ==
  ASSUME Decodable, NEW ms, NEW slot \in Slot, NEW root \in Slot, NEW n \in Subnets,
         ms[1].slot = slot, ms[1].root = root, IsFiniteSet(ToSet(ms)),
         \A m \in ToSet(ms) : Valid(m) /\ m.slot = slot /\ m.root = root,
         \A x, y \in ToSet(ms) : x.validator = y.validator => x = y,
         \E m \in ToSet(ms) : Positions(PeriodOf(SyncEpoch(slot)), n, m.validator) # {}
  PROVE  Sound(Contribution(ms, PeriodOf(SyncEpoch(slot)), n))
<1> DEFINE p == PeriodOf(SyncEpoch(slot))
           c == Contribution(ms, p, n)
           bits == UNION {Positions(p, n, m.validator) : m \in ToSet(ms)}
<1>1. /\ c.slot = slot /\ c.root = root /\ c.subnet = n /\ c.bits = bits
      /\ c.signature = aggregate_sync_committee_signature(ms, p, n)[2]
  BY DEF Contribution
<1>2. OneEach(ms, root) /\ BitsOf(ms, p, n) # {} /\ bits = BitsOf(ms, p, n)
  BY DEF OneEach, BitsOf, Valid
<1>3. /\ BitsOf(ms, p, n) \in SUBSET (0..(SubSize - 1))
      /\ aggregate_sync_committee_signature(ms, p, n)[2] = BagOf(BitsOf(ms, p, n), Marks(p, n, root))
  <2> HIDE DEF p
  <2>1. SubSize \in Nat /\ OneEach(ms, root) /\ BitsOf(ms, p, n) # {} /\ Decodable
    BY <1>2, SubSizeIs
  <2>2. BitsOf(ms, p, n) \in SUBSET (0..(SubSize - 1))
    BY <2>1, ContributionSigned
  <2>3. aggregate_sync_committee_signature(ms, p, n) = Ok(BagOf(BitsOf(ms, p, n), Marks(p, n, root)))
    BY <2>1, ContributionSigned
  <2> QED BY <2>2, <2>3 DEF Ok
<1> HIDE DEF c, bits
<1> QED BY <1>1, <1>2, <1>3 DEF Sound, c

(* A tick of the last third publishes sound contributions, but of rows     *)
(* that something was made up for.                                         *)
LEMMA PublishedSound ==
  ASSUME Decodable, Shape, Bounded, SignInv, RowInv, CountInv, MessageInv, SoundInv, Published,
         UNCHANGED <<skips, restarts, forged_messages>>
  PROVE  SoundInv'
<1> DEFINE slot == SlotOf(clock)
           d == compute_duties(duties, slot)
           p == PeriodOf(SyncEpoch(slot))
           taken == {n \in Subnets : /\ rows[n] # Nil
                                     /\ \E v \in current_sync_aggregators(d, slot) : n \in AggregationOf(d, slot, v)}
           bad == {n \in taken : ContributionRaises(rows[n].messages, p, n)}
<1>0. slot \in Slot
  <2>1. slot \in Nat /\ slot <= SlotOf(clock)
    BY DEF Shape, SlotOf
  <2> QED BY <2>1, SlotsOfNow
<1>1. PICK done \in SUBSET (taken \ bad) :
        contributions' = contributions \cup {Contribution(rows[n].messages, p, n) : n \in done}
  BY DEF Published, PublishAggregates
<1>2. \A n \in done : n \in Subnets /\ rows[n] # Nil /\ ~ContributionRaises(rows[n].messages, p, n)
  OBVIOUS
<1> HIDE DEF taken, bad
<1>3. ASSUME InTime, NEW n \in done
      PROVE  LET c == Contribution(rows[n].messages, p, n) IN Sound(c) \/ Forged(c)
  <2> DEFINE ms == rows[n].messages
             root == rows[n].root
             c == Contribution(ms, p, n)
  <2>1. rows[n].slot = slot /\ n \in Subnets /\ rows[n] # Nil
    BY <1>2, <1>3 DEF RowInv
  <2>2. Collected(rows[n], n, messages, forged_messages)
    BY <2>1 DEF CountInv
  <2>3. /\ ms \in Seq(messages \cup {f[2] : f \in forged_messages}) /\ ms # <<>>
        /\ \A i \in 1..Len(ms) : ms[i].slot = slot /\ ms[i].root = root
    BY <2>1, <2>2 DEF Collected
  <2>4. ~ContributionRaises(ms, p, n)
    BY <1>2
  <2>5. c.slot = ms[1].slot /\ c.root = ms[1].root /\ c.subnet = n
    BY DEF Contribution
  <2>6. CASE \E f \in forged_messages : f[1] = n /\ f[2].slot = rows[n].slot /\ f[2].root = rows[n].root
    <3> HIDE DEF ms, root, slot, p, c
    <3>1. ms[1].slot = slot /\ ms[1].root = root
      BY <2>3
    <3>2. Forged(c)
      BY <2>1, <2>5, <2>6, <3>1 DEF Forged, root
    <3> QED BY <3>2 DEF c, ms
  <2>7. CASE ~\E f \in forged_messages : f[1] = n /\ f[2].slot = rows[n].slot /\ f[2].root = rows[n].root
    <3>1. ToSet(ms) \subseteq messages
      BY <2>1, <2>2, <2>7, RowSent
    <3> HIDE DEF ms, root, slot, p
    <3>2. ms[1].slot = slot /\ ms[1].root = root /\ ms[1] \in ToSet(ms)
      BY <2>3 DEF ToSet
    <3>3. \A m \in ToSet(ms) : m.slot = slot /\ m.root = root
      BY <2>3 DEF ToSet
    <3>4. IsFiniteSet(ToSet(ms))
      BY <3>1, FS_Subset DEF CountInv
    <3>5. \A m \in ToSet(ms) : Valid(m)
      BY <3>1 DEF MessageInv
    <3>6. \A x, y \in ToSet(ms) : x.validator = y.validator => x = y
      <4>1. \A x, y \in messages : x.validator = y.validator /\ x.slot = y.slot => x = y
        BY <1>3 DEF SignInv, Once, InTime
      <4> QED BY <3>1, <3>3, <4>1
    <3>7. \E m \in ToSet(ms) : Positions(p, n, m.validator) # {}
      BY <2>4, <3>2 DEF ContributionRaises
    <3>8. root \in Slot
      BY <3>2, <3>5 DEF Valid
    <3>9. \A m \in ToSet(ms) : Valid(m) /\ m.slot = slot /\ m.root = root
      BY <3>3, <3>5
    <3>10. Sound(Contribution(ms, PeriodOf(SyncEpoch(slot)), n))
      BY <1>0, <2>1, <3>2, <3>4, <3>6, <3>7, <3>8, <3>9, ContributionSound DEF p
    <3> QED BY <3>10 DEF ms, p
  <2> QED BY <2>6, <2>7
<1> HIDE DEF p
<1> QED BY <1>1, <1>3 DEF SoundInv, InTime, Forged

(* So do the other nodes. *)
LEMMA PeersSound ==
  ASSUME Decodable, Shape, Bounded, SignInv, CountInv, MessageInv, SoundInv, PeerContributes
  PROVE  SoundInv'
<1> DEFINE slot == SlotOf(clock)
           p == PeriodOf(SyncEpoch(slot))
<1>0. slot \in Slot
  <2>1. slot \in Nat /\ slot <= SlotOf(clock)
    BY DEF Shape, SlotOf
  <2> QED BY <2>1, SlotsOfNow
<1>1. PICK n \in Subnets, root \in {m.root : m \in messages} :
        \E S \in (SUBSET {m \in messages : m.slot = slot /\ m.root = root /\ n \in m.subnets}) \ {{}} :
          contributions' = contributions \cup {Contribution(SetToSeq(S), p, n)}
  BY DEF PeerContributes
<1>2. PICK S \in (SUBSET {m \in messages : m.slot = slot /\ m.root = root /\ n \in m.subnets}) \ {{}} :
          contributions' = contributions \cup {Contribution(SetToSeq(S), p, n)}
  BY <1>1
<1>3. UNCHANGED <<skips, restarts, forged_messages>>
  BY DEF PeerContributes, faults, forged
<1>4. S \subseteq messages /\ S # {} /\ \A m \in S : m.slot = slot /\ m.root = root /\ n \in m.subnets
  BY <1>2
<1>5. IsFiniteSet(S)
  BY <1>4, FS_Subset DEF CountInv
<1> DEFINE q == SetToSeq(S)
<1>6. q[1] \in S /\ ToSet(q) = S
  <2>1. q[1] \in S /\ ToSet(q) \subseteq S
    BY <1>4, <1>5, AsSequence
  <2>2. q \in Seq(S) /\ \A x \in S : \E i \in 1..Len(q) : q[i] = x
    BY <1>5, SetToSeqIs
  <2> HIDE DEF q
  <2>3. S \subseteq ToSet(q)
    BY <2>2 DEF ToSet
  <2> QED BY <2>1, <2>3
<1> HIDE DEF q, slot, p
<1>7. InTime => Sound(Contribution(q, p, n))
  <2> SUFFICES ASSUME InTime PROVE Sound(Contribution(q, p, n))
    OBVIOUS
  <2>1. \A m \in ToSet(q) : Valid(m) /\ m.slot = slot /\ m.root = root
    BY <1>4, <1>6 DEF MessageInv
  <2>2. \A x, y \in ToSet(q) : x.validator = y.validator => x = y
    BY <1>4, <1>6 DEF SignInv, Once, InTime
  <2>3. \E m \in ToSet(q) : Positions(p, n, m.validator) # {}
    <3>1. PICK m \in S : n \in m.subnets /\ m.slot = slot /\ m \in messages
      BY <1>4
    <3>2. m.subnets = SubnetsOf(p, m.validator)
      BY <3>1 DEF MessageInv, OnSubnets, p
    <3> QED BY <1>6, <3>1, <3>2 DEF SubnetsOf
  <2>4. q[1].slot = slot /\ q[1].root = root /\ root \in Slot /\ IsFiniteSet(ToSet(q))
    BY <1>4, <1>5, <1>6, <2>1 DEF Valid
  <2>5. Sound(Contribution(q, PeriodOf(SyncEpoch(slot)), n))
    BY <1>0, <2>1, <2>2, <2>3, <2>4, ContributionSound DEF p
  <2> QED BY <2>5 DEF p
<1>8. contributions' = contributions \cup {Contribution(q, p, n)}
  BY <1>2 DEF q
<1> QED BY <1>3, <1>7, <1>8 DEF SoundInv, InTime, Forged

(* Every step keeps contributions sound. *)
LEMMA NextSound ==
  ASSUME Decodable
  PROVE  Shape /\ Bounded /\ SignInv /\ RowInv /\ CountInv /\ MessageInv /\ SoundInv /\ [Next]_vars => SoundInv'
<1> SUFFICES ASSUME Shape, Bounded, SignInv, RowInv, CountInv, MessageInv, SoundInv, [Next]_vars
             PROVE  SoundInv'
  OBVIOUS
<1>0. clock \in Nat
  BY DEF Shape
<1>i. InTime' => InTime
  BY StaysInTime
<1>f. forged_messages \subseteq forged_messages'
  <2>1. CASE Deliver
    BY <2>1 DEF Deliver
  <2>2. CASE ~Deliver
    BY <2>2 DEF Next, vars, OnTick, NotifyHead, NewBlock, ReceiveContribution, PeerSigns,
                PeerContributes, TimePasses, Restart, faults, forged
  <2> QED BY <2>1, <2>2
<1>s. UNCHANGED contributions => SoundInv'
  BY <1>i, <1>f DEF SoundInv, Forged
<1>1. CASE OnTick
  <2>1. /\ UNCHANGED <<skips, restarts, forged_messages>>
        /\ \/ StoodStill \/ Proposed \/ BroadcastedOn(SlotOf(clock), head) \/ Published
    BY <1>1, <1>0, TickCases DEF OnTick, faults, forged
  <2>2. CASE Published
    BY <2>1, <2>2, PublishedSound
  <2>3. CASE StoodStill \/ Proposed \/ BroadcastedOn(SlotOf(clock), head)
    <3>1. UNCHANGED contributions
      BY <2>3, BroadcastCollects, ProposedDo DEF StoodStill, BroadcastedOn
    <3> QED BY <1>s, <3>1
  <2> QED BY <2>1, <2>2, <2>3
<1>2. CASE NotifyHead
  <2>1. StoodStill \/ BroadcastedOn(inbox[1], inbox[1])
    BY <1>2, HeadCases
  <2>2. UNCHANGED contributions
    BY <2>1, BroadcastCollects DEF StoodStill, BroadcastedOn
  <2> QED BY <1>s, <2>2
<1>3. CASE PeerContributes
  BY <1>3, PeersSound
<1>4. CASE NewBlock \/ Deliver \/ ReceiveContribution \/ PeerSigns \/ TimePasses \/ Restart \/ UNCHANGED vars
  <2>1. UNCHANGED contributions
    BY <1>4 DEF NewBlock, Deliver, ReceiveContribution, PeerSigns, TimePasses, Restart, vars, network
  <2> QED BY <1>s, <2>1
<1> QED BY <1>1, <1>2, <1>3, <1>4 DEF Next

(* A sound contribution verifies with the keys of its bits. *)
LEMMA SoundVerifies ==
  ASSUME Decodable, NEW c, Sound(c)
  PROVE  LET keys == KeysOf(c)
         IN  /\ IsTrue(fast_aggregate_verify(keys, c.root, c.signature))
             /\ IsTrue(aggregate_verify(keys, [i \in 1..Len(keys) |-> c.root], c.signature))
             /\ IsTrue(verify(eth_aggregate_pubkeys(keys)[2], c.root, c.signature))
<1> DEFINE p == PeriodOf(SyncEpoch(c.slot))
           C == SubcommitteeOf(p, c.subnet)
           B == c.bits
           m == c.root
           sig == c.signature
<1>1. /\ c.slot \in Slot /\ m \in Nat /\ c.subnet \in Subnets /\ B # {} /\ B \in SUBSET (0..(SubSize - 1))
      /\ sig = BagOf(B, Marks(p, c.subnet, m))
  BY DEF Sound, Slot
<1>2. B \in SUBSET Nat /\ IsFiniteSet(B)
  <2> DEFINE z == SubSize - 1
  <2>1. z \in Int /\ B \in SUBSET (0..z)
    BY <1>1, SubSizeIs
  <2> HIDE DEF B, z
  <2>2. IsFiniteSet(0..z)
    BY <2>1, FS_Interval
  <2>3. IsFiniteSet(B)
    BY <2>1, <2>2, FS_Subset
  <2>4. B \in SUBSET Nat
    BY <2>1
  <2> QED BY <2>3, <2>4
<1>3. \A i \in B : C[i + 1] \in Own \cup Peers
  BY <1>1, MembersKnown
<1>4. {i \in 0..(SubSize - 1) : i \in c.bits} = B
  BY <1>1
<1>5. KeysOf(c) = KeysAt(C, B)
  BY <1>4 DEF KeysOf, KeysAt
<1>6. sig = BagOf(B, [i \in B |-> <<C[i + 1], m>>])
  <2> DEFINE h == Marks(p, c.subnet, m)
             g == [i \in B |-> <<C[i + 1], m>>]
  <2>1. \A i \in B : h[i] = g[i]
    BY <1>1 DEF Marks
  <2> HIDE DEF h, g
  <2>2. BagOf(B, h) = BagOf(B, g)
    BY <2>1, BagOfAgree
  <2> QED BY <1>1, <2>2 DEF h, g
<1> HIDE DEF B, C, m, sig
<1> DEFINE keys == KeysAt(C, B)
<1>7. /\ IsTrue(fast_aggregate_verify(keys, m, sig))
      /\ IsTrue(aggregate_verify(keys, [i \in 1..Len(keys) |-> m], sig))
      /\ IsTrue(verify(eth_aggregate_pubkeys(keys)[2], m, sig))
  BY <1>1, <1>2, <1>3, <1>6, KeysVerify
<1> HIDE DEF keys
<1> QED BY <1>5, <1>7 DEF m, sig, keys

(***************************************************************************)
(* What is signed with, whoever made it up, goes back to signatures of     *)
(* messages: nobody can sign for another.                                  *)
(***************************************************************************)
Signed == {<<m.validator, m.root>> : m \in messages}
Offered == contributions \cup forged_contributions

(* Bags of fewer elements. *)
LEMMA MoreBags ==
  ASSUME NEW X, NEW Y, X \subseteq Y
  PROVE  BagsOver(X) \subseteq BagsOver(Y)
BY DEF BagsOver

(* Points and infinity among them, and the bag of some places is of what   *)
(* stands there.                                                           *)
LEMMA FewBags ==
  ASSUME NEW X
  PROVE  /\ Infinity \in BagsOver(X) /\ <<>> \in BagsOver(X)
         /\ \A x \in X : Point(x) \in BagsOver(X)
         /\ \A T, h : BagOf(T, h) \in BagsOver(X) => \A t \in T : h[t] \in X
<1>1. Infinity \in [{} -> Nat] /\ <<>> \in [{} -> Nat] /\ {} \in SUBSET X
  BY DEF Infinity, EmptyBag, SetToBag
<1>2. ASSUME NEW x \in X PROVE Point(x) \in BagsOver(X)
  <2>1. Point(x) \in [{x} -> Nat] /\ {x} \in SUBSET X
    BY DEF Point, SetToBag
  <2> QED BY <2>1 DEF BagsOver
<1>3. ASSUME NEW T, NEW h, BagOf(T, h) \in BagsOver(X) PROVE \A t \in T : h[t] \in X
  <2> DEFINE b == BagOf(T, h)
  <2>1. PICK A \in SUBSET X : b \in [A -> Nat]
    BY <1>3 DEF BagsOver
  <2>2. DOMAIN b = {h[t] : t \in T}
    BY DEF BagOf
  <2> HIDE DEF b
  <2>3. A = {h[t] : t \in T}
    BY <2>1, <2>2
  <2> QED BY <2>3
<1> QED BY <1>1, <1>2, <1>3 DEF BagsOver

(* An aggregate is of what is aggregated. *)
LEMMA AggregateWithin ==
  ASSUME NEW X, NEW W, NEW s \in Seq(W), \A w \in W : w = Garbled \/ w \in BagsOver(X)
  PROVE  aggregate(s)[2] \in BagsOver(X)
<1> DEFINE n == Len(s)
<1>1. n \in Nat /\ DOMAIN s = 1..n /\ \A i \in 1..n : s[i] \in W
  OBVIOUS
<1>2. CASE s = <<>> \/ \E i \in 1..Len(s) : ~IsOk(SignaturePoint(s[i]))
  <2>1. aggregate(s)[2] = <<>>
    BY <1>2 DEF aggregate, Error
  <2> QED BY <2>1, FewBags
<1>3. CASE ~(s = <<>> \/ \E i \in 1..Len(s) : ~IsOk(SignaturePoint(s[i])))
  <2>1. aggregate(s)[2] = SumOf(s)
    BY <1>3 DEF aggregate, Ok
  <2>2. \A i \in 1..n : s[i] # Garbled
    BY <1>3 DEF SignaturePoint, IsOk, Error
  <2> HIDE DEF n
  <2>3. \A i \in 1..n : s[i] \in BagsOver(X)
    BY <1>1, <2>2
  <2>4. PICK run : Sums(run, s, n, X)
    BY <1>1, <2>3, SumIsRun
  <2>5. SumOf(s) = run[n] /\ run[n] \in BagsOver(X)
    BY <1>1, <2>4 DEF Sums
  <2> QED BY <2>1, <2>5
<1> QED BY <1>2, <1>3

(* The signature of a contribution is of its messages'. *)
LEMMA ContributionWithin ==
  ASSUME NEW X, NEW ms, NEW p, NEW n, IsFiniteSet(ToSet(ms)),
         \A m \in ToSet(ms) : m.signature = Garbled \/ m.signature \in BagsOver(X)
  PROVE  aggregate_sync_committee_signature(ms, p, n)[2] \in BagsOver(X)
<1> DEFINE S == ToSet(ms)
           u == SetToSeq(S)
           N == Len(u)
           W == {m.signature : m \in S}
           q == [i \in 1..N |-> [j \in 1..Cardinality(Positions(p, n, u[i].validator)) |-> u[i].signature]]
<1>1. N \in Nat /\ u \in [1..N -> S]
  <2> HIDE DEF S
  <2> QED BY SetToSeqIs DEF S
<1>2. aggregate_sync_committee_signature(ms, p, n) = aggregate(FlattenSeq(q))
  BY DEF aggregate_sync_committee_signature
<1>3. \A w \in W : w = Garbled \/ w \in BagsOver(X)
  OBVIOUS
<1> HIDE DEF S, u, N
<1>4. ASSUME NEW i \in 1..N PROVE q[i] \in Seq(W)
  <2> DEFINE k == Cardinality(Positions(p, n, u[i].validator))
             x == u[i].signature
  <2>1. k \in Nat
    <3> DEFINE y == SubSize - 1
    <3>1. IsFiniteSet(0..y)
      <4>1. y \in Int
        BY SubSizeIs
      <4> HIDE DEF y
      <4> QED BY <4>1, FS_Interval
    <3>2. Positions(p, n, u[i].validator) \in SUBSET (0..y)
      BY DEF Positions
    <3> HIDE DEF y
    <3> QED BY <3>1, <3>2, FS_Subset, FS_CardinalityType
  <2>2. x \in W
    BY <1>1
  <2>3. q[i] = [j \in 1..k |-> x]
    OBVIOUS
  <2> HIDE DEF k, x, W, q
  <2> QED BY <2>1, <2>2, <2>3
<1>5. q \in [1..N -> Seq(W)]
  BY <1>4
<1> HIDE DEF q, W
<1>6. FlattenSeq(q) \in Seq(W)
  BY <1>1, <1>5, FlattenIs
<1> QED BY <1>2, <1>3, <1>6, AggregateWithin

(* A contribution as it is decoded, and what may be signed on it. *)
Decoded(c) ==
  /\ c.slot \in Slot /\ c.root \in Slot /\ c.subnet \in 0..SubnetCount
  /\ c.bits \in SUBSET (0..(SubSize - 1))
Derived(sig) == sig = Garbled \/ sig \in BagsOver(Signed)
DerivedInv ==
  /\ \A f \in forged_messages : Derived(f[2].signature)
  /\ \A c \in Offered : Decoded(c) /\ Derived(c.signature)
  /\ \A n \in Subnets : rows[n] # Nil => rows[n].slot \in Slot /\ rows[n].root \in Slot

(* With more messages signed, no less is derived from them. *)
LEMMA DerivedStays ==
  ASSUME messages \subseteq messages', NEW sig, Derived(sig)
  PROVE  Derived(sig)'
<1>1. Signed \subseteq Signed'
  BY DEF Signed
<1>2. BagsOver(Signed) \subseteq BagsOver(Signed')
  BY <1>1, MoreBags
<1>3. Derived(sig)' <=> (sig = Garbled \/ sig \in BagsOver(Signed'))
  BY DEF Derived, BagsOver
<1> QED BY <1>2, <1>3 DEF Derived

(* Any signature to be seen is derived. *)
LEMMA CopiesDerived ==
  ASSUME MessageInv, DerivedInv
  PROVE  /\ \A m \in messages : Derived(m.signature)
         /\ \A s \in Copies : Derived(s)
<1>1. ASSUME NEW m \in messages PROVE Derived(m.signature)
  <2>1. m.signature = Point(<<m.validator, m.root>>)
    BY DEF MessageInv, Valid
  <2>2. <<m.validator, m.root>> \in Signed
    BY DEF Signed
  <2> QED BY <2>1, <2>2, FewBags DEF Derived
<1>2. \A c \in contributions : Derived(c.signature)
  BY DEF DerivedInv, Offered
<1>3. Derived(Garbled) /\ Derived(Infinity)
  BY FewBags DEF Derived
<1> QED BY <1>1, <1>2, <1>3 DEF Copies

(* A contribution of some messages is decoded and derived. *)
LEMMA ContributionDerived ==
  ASSUME NEW ms, NEW p, NEW n \in Subnets, IsFiniteSet(ToSet(ms)), ms[1].slot \in Slot, ms[1].root \in Slot,
         \A m \in ToSet(ms) : Derived(m.signature)
  PROVE  LET c == Contribution(ms, p, n) IN Decoded(c) /\ Derived(c.signature)
<1> DEFINE c == Contribution(ms, p, n)
<1>1. /\ c.slot = ms[1].slot /\ c.root = ms[1].root /\ c.subnet = n
      /\ c.bits = UNION {Positions(p, n, m.validator) : m \in ToSet(ms)}
      /\ c.signature = aggregate_sync_committee_signature(ms, p, n)[2]
  BY DEF Contribution
<1>2. c.bits \in SUBSET (0..(SubSize - 1))
  BY <1>1 DEF Positions
<1>3. n \in 0..SubnetCount
  BY ValidatorsAssumption DEF Subnets
<1> HIDE DEF c
<1>4. c.signature \in BagsOver(Signed)
  BY <1>1, ContributionWithin DEF Derived
<1>5. Decoded(c) /\ Derived(c.signature)
  BY <1>1, <1>2, <1>3, <1>4 DEF Decoded, Derived
<1> QED BY <1>5 DEF c

(* A broadcast of either handler keeps DerivedInv. *)
LEMMA BroadcastDerived ==
  ASSUME Shape, MessageInv', DerivedInv, NEW slot, NEW root, BroadcastedOn(slot, root), UNCHANGED forged
  PROVE  DerivedInv'
<1> DEFINE new == NewMessages(compute_duties(duties, slot), slot, root)
<1>1. /\ UNCHANGED contributions
      /\ \/ UNCHANGED <<rows, messages>>
         \/ /\ messages' = messages \cup new
            /\ \A n \in Subnets : rows'[n] = rows[n] \/ \E m \in new : rows'[n] = NewRow(m)
  BY BroadcastCollects DEF BroadcastedOn
<1>2. UNCHANGED <<forged_messages, forged_contributions>>
  BY DEF forged
<1> HIDE DEF new
<1>3. messages \subseteq messages'
  BY <1>1
<1>4. Offered' = Offered
  BY <1>1, <1>2 DEF Offered
<1>5. \A f \in forged_messages : Derived(f[2].signature)'
  BY <1>2, <1>3, DerivedStays DEF DerivedInv
<1>6. \A c \in Offered : Decoded(c) /\ Derived(c.signature)'
  BY <1>3, DerivedStays DEF DerivedInv
<1>7. ASSUME NEW n \in Subnets, rows'[n] # Nil PROVE rows'[n].slot \in Slot /\ rows'[n].root \in Slot
  <2>1. CASE rows'[n] = rows[n]
    BY <1>7, <2>1 DEF DerivedInv
  <2>2. CASE rows'[n] # rows[n]
    <3>1. PICK m \in messages' : rows'[n] = NewRow(m)
      BY <1>1, <2>2
    <3>2. m.slot \in Slot /\ m.root \in Slot
      BY DEF MessageInv, Valid
    <3> QED BY <3>1, <3>2 DEF NewRow
  <2> QED BY <2>1, <2>2
<1>8. \A f \in forged_messages' : Derived(f[2].signature)'
  BY <1>2, <1>5
<1>9. \A c \in Offered' : Decoded(c) /\ Derived(c.signature)'
  BY <1>4, <1>6
<1> QED BY <1>7, <1>8, <1>9 DEF DerivedInv

(* So does a tick of the last third. *)
LEMMA PublishedDerived ==
  ASSUME Shape, CountInv, MessageInv, DerivedInv, Published, UNCHANGED forged
  PROVE  DerivedInv'
<1> DEFINE slot == SlotOf(clock)
           d == compute_duties(duties, slot)
           p == PeriodOf(SyncEpoch(slot))
           taken == {n \in Subnets : /\ rows[n] # Nil
                                     /\ \E v \in current_sync_aggregators(d, slot) : n \in AggregationOf(d, slot, v)}
           bad == {n \in taken : ContributionRaises(rows[n].messages, p, n)}
<1>1. PICK done \in SUBSET (taken \ bad) :
        contributions' = contributions \cup {Contribution(rows[n].messages, p, n) : n \in done}
  BY DEF Published, PublishAggregates
<1>2. \A n \in done : n \in Subnets /\ rows[n] # Nil
  OBVIOUS
<1>3. /\ UNCHANGED <<messages, forged_messages, forged_contributions>>
      /\ \A n \in Subnets : rows'[n] \in {rows[n], Nil}
  <2>1. UNCHANGED <<messages, forged_messages, forged_contributions>>
    BY DEF Published, PublishAggregates, forged
  <2>2. PICK gone : rows' = [n \in Subnets |-> IF n \in gone THEN Nil ELSE rows[n]]
    BY DEF Published, PublishAggregates
  <2> QED BY <2>1, <2>2
<1> HIDE DEF taken, bad, p
<1>4. ASSUME NEW n \in done
      PROVE  LET c == Contribution(rows[n].messages, p, n) IN Decoded(c) /\ Derived(c.signature)
  <2> DEFINE ms == rows[n].messages
             A == messages \cup {f[2] : f \in forged_messages}
  <2>1. Collected(rows[n], n, messages, forged_messages) /\ rows[n] # Nil /\ n \in Subnets
    BY <1>2 DEF CountInv
  <2>2. /\ ms \in Seq(A) /\ ms # <<>>
        /\ \A i \in 1..Len(ms) : ms[i].slot = rows[n].slot /\ ms[i].root = rows[n].root
    BY <2>1 DEF Collected
  <2>3. rows[n].slot \in Slot /\ rows[n].root \in Slot
    BY <2>1 DEF DerivedInv
  <2>4. \A m \in A : Derived(m.signature)
    BY CopiesDerived DEF DerivedInv
  <2> HIDE DEF ms, A
  <2>5. ms[1].slot \in Slot /\ ms[1].root \in Slot
    BY <2>2, <2>3
  <2>6. ToSet(ms) \subseteq A
    BY <2>2 DEF ToSet
  <2>7. IsFiniteSet(ToSet(ms))
    <3> DEFINE L == Len(ms)
    <3>1. L \in Nat /\ DOMAIN ms = 1..L
      BY <2>2
    <3> HIDE DEF L
    <3>2. IsFiniteSet(1..L)
      BY <3>1, FS_Interval
    <3>3. IsFiniteSet({ms[i] : i \in 1..L})
      BY <3>2, ImageFinite
    <3> QED BY <3>1, <3>3 DEF ToSet
  <2>8. \A m \in ToSet(ms) : Derived(m.signature)
    BY <2>4, <2>6
  <2>9. LET c == Contribution(ms, p, n) IN Decoded(c) /\ Derived(c.signature)
    BY <2>1, <2>5, <2>7, <2>8, ContributionDerived
  <2> QED BY <2>9 DEF ms
<1>5. \A c \in Offered' : Decoded(c) /\ Derived(c.signature)
  <2>1. Offered' = Offered \cup {Contribution(rows[n].messages, p, n) : n \in done}
    BY <1>1, <1>3 DEF Offered
  <2> QED BY <1>4, <2>1 DEF DerivedInv
<1>6. \A s : Derived(s) => Derived(s)'
  BY <1>3, DerivedStays
<1>7. \A c \in Offered' : Decoded(c) /\ Derived(c.signature)'
  BY <1>5, <1>6
<1>8. \A f \in forged_messages' : Derived(f[2].signature)'
  BY <1>3, <1>6 DEF DerivedInv
<1>9. \A n \in Subnets : rows'[n] # Nil => rows'[n].slot \in Slot /\ rows'[n].root \in Slot
  BY <1>3 DEF DerivedInv
<1> QED BY <1>7, <1>8, <1>9 DEF DerivedInv

(* And a contribution of others. *)
LEMMA PeersDerived ==
  ASSUME CountInv, MessageInv, DerivedInv, PeerContributes
  PROVE  DerivedInv'
<1> DEFINE p == PeriodOf(SyncEpoch(SlotOf(clock)))
<1>1. PICK n \in Subnets : \E S \in (SUBSET messages) \ {{}} :
        contributions' = contributions \cup {Contribution(SetToSeq(S), p, n)}
  BY DEF PeerContributes
<1>2. PICK S \in (SUBSET messages) \ {{}} :
        contributions' = contributions \cup {Contribution(SetToSeq(S), p, n)}
  BY <1>1
<1>3. UNCHANGED <<messages, rows, forged_messages, forged_contributions>>
  BY DEF PeerContributes, faults, forged
<1> DEFINE q == SetToSeq(S)
           c == Contribution(q, p, n)
<1>4. IsFiniteSet(S) /\ S # {}
  BY <1>2, FS_Subset DEF CountInv
<1>5. q[1] \in messages /\ ToSet(q) \subseteq messages
  BY <1>2, <1>4, AsSequence
<1> HIDE DEF q, p
<1>6. q[1].slot \in Slot /\ q[1].root \in Slot
  BY <1>5 DEF MessageInv, Valid
<1>7. IsFiniteSet(ToSet(q)) /\ \A m \in ToSet(q) : Derived(m.signature)
  BY <1>5, FS_Subset, CopiesDerived DEF CountInv
<1>8. Decoded(c) /\ Derived(c.signature)
  BY <1>6, <1>7, ContributionDerived
<1>9. Offered' = Offered \cup {c}
  BY <1>2, <1>3 DEF Offered, q
<1> HIDE DEF c
<1>10. \A s : Derived(s) => Derived(s)'
  BY <1>3, DerivedStays
<1>11. \A e \in Offered' : Decoded(e) /\ Derived(e.signature)'
  BY <1>8, <1>9, <1>10 DEF DerivedInv
<1>12. \A f \in forged_messages' : Derived(f[2].signature)'
  BY <1>3, <1>10 DEF DerivedInv
<1> QED BY <1>3, <1>11, <1>12 DEF DerivedInv

(* Messages and contributions that are made up. *)
LEMMA ForgedDerived ==
  ASSUME Shape, MessageInv, DerivedInv, Deliver \/ ReceiveContribution
  PROVE  DerivedInv'
<1>0. UNCHANGED <<messages, contributions>>
  BY DEF Deliver, ReceiveContribution, network
<1>1. \A s : Derived(s) => Derived(s)'
  BY <1>0, DerivedStays
<1>2. CASE Deliver
  <2>1. PICK n \in Subnets : rows[n] # Nil /\ \E m \in messages \cup MadeUpMessages(rows[n].slot, rows[n].root) :
          /\ rows' = [rows EXCEPT ![n].messages = <<m>> \o @]
          /\ forged_messages' = IF Sent(m, n) THEN forged_messages ELSE forged_messages \cup {<<n, m>>}
    BY <1>2 DEF Deliver
  <2>2. PICK m \in messages \cup MadeUpMessages(rows[n].slot, rows[n].root) :
          /\ rows' = [rows EXCEPT ![n].messages = <<m>> \o @]
          /\ forged_messages' = IF Sent(m, n) THEN forged_messages ELSE forged_messages \cup {<<n, m>>}
    BY <2>1
  <2>3. Derived(m.signature)
    <3>1. CASE m \in messages
      BY <3>1, CopiesDerived
    <3>2. CASE m \in MadeUpMessages(rows[n].slot, rows[n].root)
      <4>1. m.signature \in Copies
        BY <3>2 DEF MadeUpMessages
      <4> QED BY <4>1, CopiesDerived
    <3> QED BY <3>1, <3>2
  <2>4. \A f \in forged_messages' : Derived(f[2].signature)
    <3>1. <<n, m>>[2] = m
      OBVIOUS
    <3> QED BY <2>2, <2>3, <3>1 DEF DerivedInv
  <2>5. UNCHANGED Offered
    BY <1>0, <1>2 DEF Deliver, Offered
  <2>6. \A k \in Subnets : rows'[k] # Nil => rows'[k].slot \in Slot /\ rows'[k].root \in Slot
    <3> SUFFICES ASSUME NEW k \in Subnets, rows'[k] # Nil PROVE rows'[k].slot \in Slot /\ rows'[k].root \in Slot
      OBVIOUS
    <3>1. CASE k # n
      BY <2>2, <3>1 DEF Shape, DerivedInv
    <3>2. CASE k = n
      <4>1. rows'[n].slot = rows[n].slot /\ rows'[n].root = rows[n].root
        BY <2>2 DEF Shape
      <4> QED BY <2>1, <3>2, <4>1 DEF DerivedInv
    <3> QED BY <3>1, <3>2
  <2>7. \A c \in Offered' : Decoded(c) /\ Derived(c.signature)'
    BY <1>1, <2>5 DEF DerivedInv
  <2> QED BY <1>1, <2>4, <2>6, <2>7 DEF DerivedInv
<1>3. CASE ReceiveContribution
  <2>1. PICK c \in contributions \cup MadeUpContributions :
          forged_contributions' = forged_contributions \cup ({c} \ contributions)
    BY <1>3 DEF ReceiveContribution
  <2>2. UNCHANGED <<rows, forged_messages>>
    BY <1>3 DEF ReceiveContribution
  <2>3. Decoded(c) /\ Derived(c.signature)
    <3>1. CASE c \in contributions
      BY <3>1 DEF DerivedInv, Offered
    <3>2. CASE c \in MadeUpContributions
      <4>1. PICK f \in Forgeries, s \in Copies :
              c = [slot |-> f.slot, root |-> f.root, subnet |-> f.subnet, bits |-> f.bits, signature |-> s]
        BY <3>2 DEF MadeUpContributions
      <4>2. Derived(s)
        BY CopiesDerived
      <4>3. f.slot \in Slot /\ f.root \in Slot /\ f.subnet \in 0..SubnetCount /\ f.bits \in SUBSET (0..(SubSize - 1))
        BY ForgeriesAssumption DEF Slot
      <4>4. c.slot = f.slot /\ c.root = f.root /\ c.subnet = f.subnet /\ c.bits = f.bits /\ c.signature = s
        BY <4>1
      <4> QED BY <4>2, <4>3, <4>4 DEF Decoded
    <3> QED BY <3>1, <3>2
  <2>4. Offered' \subseteq Offered \cup {c}
    BY <1>0, <2>1 DEF Offered
  <2>5. \A e \in Offered' : Decoded(e) /\ Derived(e.signature)'
    BY <1>1, <2>3, <2>4 DEF DerivedInv
  <2>6. \A f \in forged_messages' : Derived(f[2].signature)'
    BY <1>1, <2>2 DEF DerivedInv
  <2> QED BY <2>2, <2>5, <2>6 DEF DerivedInv
<1> QED BY <1>2, <1>3

(* Every step keeps it. *)
LEMMA NextDerived ==
  ASSUME Shape, CountInv, MessageInv, MessageInv', DerivedInv, [Next]_vars
  PROVE  DerivedInv'
<1>0. clock \in Nat
  BY DEF Shape
<1>s. ASSUME messages \subseteq messages', UNCHANGED <<contributions, rows, forged>> PROVE DerivedInv'
  <2>1. \A s : Derived(s) => Derived(s)'
    BY <1>s, DerivedStays
  <2>2. UNCHANGED <<contributions, rows, forged_messages, forged_contributions>> /\ Offered' = Offered
    BY <1>s DEF forged, Offered
  <2>3. \A c \in Offered' : Decoded(c) /\ Derived(c.signature)'
    BY <2>1, <2>2 DEF DerivedInv
  <2>4. \A f \in forged_messages' : Derived(f[2].signature)'
    BY <2>1, <2>2 DEF DerivedInv
  <2> QED BY <2>2, <2>3, <2>4 DEF DerivedInv
<1>1. CASE OnTick
  <2>1. /\ UNCHANGED forged
        /\ StoodStill \/ Proposed \/ BroadcastedOn(SlotOf(clock), head) \/ Published
    BY <1>1, <1>0, TickCases DEF OnTick, faults
  <2>2. CASE StoodStill \/ Proposed
    <3>1. UNCHANGED <<messages, contributions, rows>>
      BY <2>2, ProposedDo DEF StoodStill
    <3> QED BY <1>s, <2>1, <3>1
  <2>3. CASE BroadcastedOn(SlotOf(clock), head)
    BY <2>1, <2>3, BroadcastDerived
  <2>4. CASE Published
    BY <2>1, <2>4, PublishedDerived
  <2> QED BY <2>1, <2>2, <2>3, <2>4
<1>2. CASE NotifyHead
  <2>1. UNCHANGED forged /\ (StoodStill \/ BroadcastedOn(inbox[1], inbox[1]))
    BY <1>2, HeadCases DEF NotifyHead, faults
  <2>2. CASE StoodStill
    BY <1>s, <2>1, <2>2 DEF StoodStill
  <2>3. CASE BroadcastedOn(inbox[1], inbox[1])
    BY <2>1, <2>3, BroadcastDerived
  <2> QED BY <2>1, <2>2, <2>3
<1>3. CASE PeerContributes
  BY <1>3, PeersDerived
<1>4. CASE Deliver \/ ReceiveContribution
  BY <1>4, ForgedDerived
<1>5. CASE NewBlock \/ PeerSigns \/ TimePasses \/ Restart \/ UNCHANGED vars
  <2>1. messages \subseteq messages' /\ UNCHANGED <<contributions, rows, forged>>
    BY <1>5 DEF NewBlock, PeerSigns, TimePasses, Restart, vars, network, faults, forged
  <2> QED BY <1>s, <2>1
<1> QED BY <1>1, <1>2, <1>3, <1>4, <1>5 DEF Next

(* All the invariants together. *)
ValidatorsInv ==
  /\ Shape /\ SignInv /\ RowInv /\ CountInv /\ Bounded /\ DutyInv /\ MessageInv /\ SoundInv /\ DerivedInv

(* They hold from the start and every step keeps them. *)
LEMMA InvHolds ==
  ASSUME Decodable
  PROVE  (Init => ValidatorsInv) /\ (ValidatorsInv /\ [Next]_vars => ValidatorsInv')
<1>1. ASSUME Init PROVE ValidatorsInv
  <2>1. /\ clock = 0 /\ slot_data = -1 /\ messages = {} /\ pool = {} /\ contributions = {}
        /\ votes = {} /\ proposals = {} /\ \A n \in Subnets : rows[n] = Nil
        /\ forged_messages = {} /\ forged_contributions = {}
    BY <1>1 DEF Init
  <2>2. RowInv
    BY <2>1 DEF RowInv
  <2>3. CountInv
    BY <2>1, FS_EmptySet DEF CountInv, Collected
  <2>4. SignInv /\ MessageInv /\ SoundInv
    BY <2>1 DEF SignInv, Flagged, Once, MessageInv, SoundInv
  <2>5. DerivedInv
    BY <2>1 DEF DerivedInv, Offered
  <2> QED BY <1>1, <2>2, <2>3, <2>4, <2>5, InitShape, InitDuty DEF ValidatorsInv
<1>2. ASSUME ValidatorsInv, [Next]_vars PROVE ValidatorsInv'
  <2>1. Shape' /\ SignInv' /\ RowInv' /\ CountInv' /\ Bounded' /\ DutyInv' /\ MessageInv' /\ SoundInv'
    BY <1>2, NextShape, NextSign, NextRow, NextCount, NextBounded, NextDuty, NextMessage, NextSound
       DEF ValidatorsInv
  <2>2. DerivedInv'
    BY <1>2, <2>1, NextDerived DEF ValidatorsInv
  <2> QED BY <2>1, <2>2 DEF ValidatorsInv
<1> QED BY <1>1, <1>2

(* Whatever is repeated or reordered and whoever appears twice in the      *)
(* committee, a contribution verifies in each of the library's ways while  *)
(* ticks come in time, unless a made-up message was taken in for its slot  *)
(* and root on its subnet.                                                 *)
THEOREM ContributionsAlwaysVerify ==
  ASSUME Decodable
  PROVE  Spec => []ContributionsVerify
<1>1. ValidatorsInv => ContributionsVerify
  <2> SUFFICES ASSUME ValidatorsInv PROVE ContributionsVerify
    OBVIOUS
  <2>1. InTime => \A c \in contributions : Sound(c) \/ Forged(c)
    BY DEF ValidatorsInv, SoundInv
  <2> QED BY <2>1, SoundVerifies DEF ContributionsVerify
<1>2. (Init => ValidatorsInv) /\ (ValidatorsInv /\ [Next]_vars => ValidatorsInv')
  BY InvHolds
<1> QED BY <1>1, <1>2, PTL DEF Spec

(***************************************************************************)
(* What verifies was signed                                                *)
(***************************************************************************)

(* A signature that verifies with the keys of some places, with eth_ or    *)
(* without, is that of the places.                                         *)
LEMMA VerifiedIs ==
  ASSUME Decodable, NEW B \in SUBSET Nat, IsFiniteSet(B), NEW C, \A i \in B : C[i + 1] \in Own \cup Peers,
         NEW m, NEW sig
  PROVE  LET keys == KeysAt(C, B)
             is == sig = BagOf(B, [i \in B |-> <<C[i + 1], m>>])
         IN  /\ IsTrue(fast_aggregate_verify(keys, m, sig)) => B # {} /\ is
             /\ IsTrue(eth_fast_aggregate_verify(keys, m, sig)) => B = {} \/ is
<1> DEFINE keys == KeysAt(C, B)
           key == [i \in B |-> C[i + 1]]
           mark == [i \in B |-> <<C[i + 1], m>>]
<1>1. keys \in Seq({Point(x) : x \in Own \cup Peers}) /\ KeysValid(keys) /\ Spells(keys, B, key)
  BY KeysAre
<1> HIDE DEF keys
<1>2. SumOf(keys) = BagOf(B, key) /\ (keys = <<>> <=> B = {})
  <2> HIDE DEF key
  <2> QED BY <1>1, SpelledSum
<1>3. Expected(SumOf(keys), m) = BagOf(B, mark)
  <2>1. Expected(BagOf(B, key), m) = BagOf(B, [i \in B |-> <<key[i], m>>])
    BY ExpectedIs
  <2>2. [i \in B |-> <<key[i], m>>] = mark
    OBVIOUS
  <2> QED BY <1>2, <2>1, <2>2
<1> HIDE DEF key, mark
<1>4. ASSUME IsTrue(fast_aggregate_verify(keys, m, sig)) PROVE FastAggregateVerify(keys, m, sig)
  BY <1>4 DEF fast_aggregate_verify, IsTrue, Ok, Error
<1>5. ASSUME IsTrue(eth_fast_aggregate_verify(keys, m, sig)), keys # <<>> PROVE FastAggregateVerify(keys, m, sig)
  BY <1>5 DEF eth_fast_aggregate_verify, IsTrue, Ok, Error
<1> QED BY <1>2, <1>3, <1>4, <1>5 DEF FastAggregateVerify, keys, mark

(* The places of a contribution that is decoded. *)
LEMMA BitsAre ==
  ASSUME NEW c, Decoded(c), c.subnet \in Subnets
  PROVE  LET p == PeriodOf(SyncEpoch(c.slot))
             C == SubcommitteeOf(p, c.subnet)
         IN  /\ c.bits \in SUBSET Nat /\ IsFiniteSet(c.bits)
             /\ \A i \in c.bits : C[i + 1] \in Own \cup Peers
             /\ KeysOf(c) = KeysAt(C, c.bits)
<1> DEFINE p == PeriodOf(SyncEpoch(c.slot))
           C == SubcommitteeOf(p, c.subnet)
           B == c.bits
<1>1. c.slot \in Slot /\ B \in SUBSET (0..(SubSize - 1))
  BY DEF Decoded
<1>2. B \in SUBSET Nat /\ IsFiniteSet(B)
  <2> DEFINE z == SubSize - 1
  <2>1. z \in Int /\ B \in SUBSET (0..z)
    BY <1>1, SubSizeIs
  <2> HIDE DEF B, z
  <2>2. IsFiniteSet(0..z)
    BY <2>1, FS_Interval
  <2>3. IsFiniteSet(B)
    BY <2>1, <2>2, FS_Subset
  <2>4. B \in SUBSET Nat
    BY <2>1
  <2> QED BY <2>3, <2>4
<1>3. \A i \in B : C[i + 1] \in Own \cup Peers
  BY <1>1, MembersKnown
<1>4. {i \in 0..(SubSize - 1) : i \in c.bits} = B
  BY <1>1
<1>5. KeysOf(c) = KeysAt(C, B)
  BY <1>4 DEF KeysOf, KeysAt
<1> QED BY <1>2, <1>3, <1>5

(* A contribution that verifies is sound, whoever made it. *)
LEMMA VerifiedSound ==
  ASSUME Decodable, NEW c, Decoded(c), OfferVerifies(c)
  PROVE  Sound(c)
<1> DEFINE p == PeriodOf(SyncEpoch(c.slot))
           C == SubcommitteeOf(p, c.subnet)
           B == c.bits
           h == Marks(p, c.subnet, c.root)
           g == [i \in B |-> <<C[i + 1], c.root>>]
<1>1. /\ c.subnet \in Subnets /\ c.slot \in Slot /\ c.root \in Slot /\ B \in SUBSET (0..(SubSize - 1))
      /\ IsTrue(fast_aggregate_verify(KeysOf(c), c.root, c.signature))
  BY DEF OfferVerifies, Decoded
<1>2. /\ B \in SUBSET Nat /\ IsFiniteSet(B) /\ (\A i \in B : C[i + 1] \in Own \cup Peers)
      /\ KeysOf(c) = KeysAt(C, B)
  BY <1>1, BitsAre
<1>3. \A i \in B : h[i] = g[i]
  BY <1>1 DEF Marks
<1> HIDE DEF B, C, h, g
<1>4. BagOf(B, h) = BagOf(B, g)
  BY <1>3, BagOfAgree
<1>5. B # {} /\ c.signature = BagOf(B, g)
  BY <1>1, <1>2, VerifiedIs DEF g
<1> QED BY <1>1, <1>4, <1>5 DEF Sound, B, h

(* Who is counted by a contribution that verifies has signed its root. *)
SignersOf(root) == {v \in Own \cup Peers : <<v, root>> \in Signed}
LEMMA VerifiedSigned ==
  ASSUME Decodable, NEW c, Decoded(c), Derived(c.signature), OfferVerifies(c)
  PROVE  OfferCounts(c) # {} /\ OfferCounts(c) \subseteq SignersOf(c.root)
<1> DEFINE p == PeriodOf(SyncEpoch(c.slot))
           C == SubcommitteeOf(p, c.subnet)
           B == c.bits
           h == Marks(p, c.subnet, c.root)
<1>1. /\ c.subnet \in Subnets /\ B # {} /\ B \in SUBSET (0..(SubSize - 1)) /\ c.signature = BagOf(B, h)
  BY VerifiedSound DEF Sound
<1>2. IsFiniteSet(B) /\ \A i \in B : C[i + 1] \in Own \cup Peers
  BY <1>1, BitsAre
<1>3. OfferCounts(c) = {C[i + 1] : i \in B}
  BY <1>1 DEF OfferCounts
<1>4. \A i \in B : h[i] = <<C[i + 1], c.root>>
  BY <1>1 DEF Marks
<1> HIDE DEF B, C, h
<1>5. c.signature # Garbled
  <2>1. IsABag(BagOf(B, h))
    BY <1>2, BagOfFew
  <2> QED BY <1>1, <2>1 DEF Decodable
<1>6. \A i \in B : h[i] \in Signed
  BY <1>1, <1>5, FewBags DEF Derived
<1> QED BY <1>1, <1>2, <1>3, <1>4, <1>6 DEF SignersOf

(***************************************************************************)
(* ImplementsPromise                                                       *)
(***************************************************************************)
BlockOf(b) ==
  [slot |-> b.slot, parent |-> b.parent, signers |-> ValidatorsAt(b.slot, b.aggregate.bits)]
Included == {BlockOf(b) : b \in proposals}

(* The promise's variables are these. *)
LEMMA PromiseVars ==
  /\ Promise!vars = <<Signed, Offered, Included, refused>>
  /\ Promise!vars' = <<Signed', Offered', Included', refused'>>
BY DEF Promise!vars, Signed, Offered, Included, BlockOf

(* Its actions, in terms of them. *)
LEMMA PromiseSign ==
  ASSUME Signed' # Signed, Signed \subseteq Signed', Signed' \subseteq (Own \cup Peers) \X Slot,
         UNCHANGED <<Offered, Included, refused>>
  PROVE  Promise!Next
<1>1. Promise!Sign
  BY DEF Promise!Sign, Signed, Offered, Included, BlockOf, Slot
<1> QED BY <1>1 DEF Promise!Next

(* An offer. *)
LEMMA PromiseOffer ==
  ASSUME UNCHANGED <<Signed, Included, refused>>, Offered \subseteq Offered',
         \A c \in Offered' \ Offered :
           OfferVerifies(c) => OfferCounts(c) # {} /\ OfferCounts(c) \subseteq SignersOf(c.root)
  PROVE  Promise!Next
<1>1. Promise!Offer
  BY DEF Promise!Offer, Promise!Signers, Signed, SignersOf, Offered, Included, BlockOf
<1> QED BY <1>1 DEF Promise!Next

(* What a block may take. *)
Picked(slot, parent, S, pick) ==
  /\ pick \in [S -> Offered]
  /\ \A n \in S : pick[n].slot = slot - 1 /\ pick[n].root = parent /\ pick[n].subnet = n
LEMMA PromisePicks ==
  ASSUME NEW slot, NEW parent, NEW S, NEW pick, Picked(slot, parent, S, pick)
  PROVE  pick \in Promise!Picks(slot, parent, S)
BY DEF Picked, Promise!Picks, Offered

(* Whom the offers picked count. *)
Counted(S, pick) == UNION {OfferCounts(pick[n]) : n \in S}

(* A block of such offers. *)
LEMMA PromiseInclude ==
  ASSUME UNCHANGED <<Signed, Offered, refused>>, Included' # Included,
         NEW slot \in Slot, NEW parent \in Slot, NEW S \in SUBSET Subnets, NEW pick,
         Picked(slot, parent, S, pick),
         NEW signers, signers = Counted(S, pick), signers \subseteq SignersOf(parent),
         Included' = Included \cup {[slot |-> slot, parent |-> parent, signers |-> signers]}
  PROVE  Promise!Next
<1>1. pick \in Promise!Picks(slot, parent, S)
  BY PromisePicks
<1>2. UNCHANGED <<Signed, Offered, refused>> /\ signers \subseteq Promise!Signers(parent)
  BY DEF Promise!Signers, SignersOf, Signed
<1>3. Promise!Include
  <2>1. \E x \in Slot, y \in Slot, T \in SUBSET Subnets :
          \E f \in Promise!Picks(x, y, T) :
            LET vs == UNION {OfferCounts(f[n]) : n \in T}
            IN  /\ Included' = Included \cup {[slot |-> x, parent |-> y, signers |-> vs]}
                /\ vs \subseteq Promise!Signers(y)
    <3> WITNESS slot \in Slot, parent \in Slot, S \in SUBSET Subnets
    <3> WITNESS pick \in Promise!Picks(slot, parent, S)
    <3> QED BY <1>2 DEF Counted
  <2> QED BY <1>2, <2>1 DEF Promise!Include, Signed, Offered, Included, BlockOf, Slot
<1> QED BY <1>3 DEF Promise!Next

(* A block given up. *)
LEMMA PromiseRefuse ==
  ASSUME UNCHANGED <<Signed, Offered, Included>>, refused' # refused,
         NEW slot \in Slot, NEW parent \in Slot, NEW S \in SUBSET Subnets, NEW pick,
         Picked(slot, parent, S, pick), NEW n \in S, ~OfferVerifies(pick[n]),
         refused' = refused \cup {[slot |-> slot, parent |-> parent]}
  PROVE  Promise!Next
<1>1. pick \in Promise!Picks(slot, parent, S)
  BY PromisePicks
<1>2. Promise!Refuse
  <2>1. \E x \in Slot, y \in Slot, T \in SUBSET Subnets :
          /\ refused' = refused \cup {[slot |-> x, parent |-> y]}
          /\ \E f \in Promise!Picks(x, y, T) : \E k \in T : ~OfferVerifies(f[k])
    <3> WITNESS slot \in Slot, parent \in Slot, S \in SUBSET Subnets
    <3> QED BY <1>1
  <2> QED BY <2>1 DEF Promise!Refuse, Signed, Offered, Included, BlockOf, Slot
<1> QED BY <1>2 DEF Promise!Next

(* What the places of a committee sign. *)
AllMarks(p, root) == [j \in 0..(Len(Committee[p]) - 1) |-> <<Committee[p][j + 1], root>>]

(* A contribution in the whole committee, and its signature if it is sound. *)
LEMMA PlacedSigned ==
  ASSUME NEW c, Decoded(c), c.subnet \in Subnets, NEW p, p = PeriodOf(SyncEpoch(c.slot))
  PROVE  /\ IsFiniteSet(Placed(c)) /\ Placed(c) \in SUBSET (0..(Len(Committee[p]) - 1))
         /\ \A j \in Placed(c) : Committee[p][j + 1] \in Own \cup Peers
         /\ Sound(c) => c.signature = BagOf(Placed(c), AllMarks(p, c.root))
         /\ {Committee[p][j + 1] : j \in Placed(c)} = OfferCounts(c)
<1> DEFINE B == c.bits
           n == c.subnet
           z == SubSize
           f == [i \in B |-> n * z + i]
           C == Committee[p]
           h == AllMarks(p, c.root)
           g == Marks(p, n, c.root)
<1>1. /\ c.slot \in Slot /\ n \in Subnets /\ B \in SUBSET (0..(SubSize - 1))
      /\ Sound(c) => c.signature = BagOf(B, g)
  BY DEF Sound, Decoded
<1>2. B \in SUBSET Nat /\ IsFiniteSet(B)
  <2> DEFINE y == SubSize - 1
  <2>1. y \in Int /\ B \in SUBSET (0..y)
    BY <1>1, SubSizeIs
  <2> HIDE DEF B, y
  <2>2. IsFiniteSet(0..y)
    BY <2>1, FS_Interval
  <2>3. IsFiniteSet(B)
    BY <2>1, <2>2, FS_Subset
  <2>4. B \in SUBSET Nat
    BY <2>1
  <2> QED BY <2>3, <2>4
<1>3. \A i \in B : /\ f[i] \in 0..(Len(C) - 1) /\ SubcommitteeOf(p, n)[i + 1] = C[f[i] + 1]
                   /\ C[f[i] + 1] \in Own \cup Peers
  <2> SUFFICES ASSUME NEW i \in B
               PROVE  /\ f[i] \in 0..(Len(C) - 1) /\ SubcommitteeOf(p, n)[i + 1] = C[f[i] + 1]
                      /\ C[f[i] + 1] \in Own \cup Peers
    OBVIOUS
  <2>1. f[i] = n * SubSize + i /\ i \in 0..(SubSize - 1)
    BY <1>1
  <2> HIDE DEF f, n, B
  <2> QED BY <1>1, <2>1, MembersKnown
<1>4. Placed(c) = {f[i] : i \in B}
  BY DEF Placed
<1>5. \A i \in B : g[i] = h[f[i]]
  <2>1. \A i \in B : g[i] = <<SubcommitteeOf(p, n)[i + 1], c.root>>
    BY <1>1 DEF Marks
  <2>2. \A i \in B : h[f[i]] = <<C[f[i] + 1], c.root>>
    <3> HIDE DEF f
    <3> QED BY <1>3 DEF AllMarks
  <2> HIDE DEF f, g, h, B, C
  <2> QED BY <1>3, <2>1, <2>2
<1>6. \A t, u \in B : f[t] = f[u] => t = u
  <2>1. n * z \in Nat
    BY <1>1, SubSizeIs, ValidatorsAssumption DEF Subnets
  <2> DEFINE a == n * z
  <2>2. \A i \in B : f[i] = a + i
    OBVIOUS
  <2> HIDE DEF a, f
  <2> QED BY <1>2, <2>1, <2>2 DEF a
<1>7. {C[j + 1] : j \in Placed(c)} = OfferCounts(c)
  <2>1. OfferCounts(c) = {SubcommitteeOf(p, n)[i + 1] : i \in B}
    BY <1>1 DEF OfferCounts
  <2> HIDE DEF f, n, B, C
  <2> QED BY <1>3, <1>4, <2>1
<1> HIDE DEF f, h, g, B, C
<1>8. BagOf(B, g) = BagOf(Placed(c), h)
  <2>1. Moves(f, B, Placed(c), g, h)
    BY <1>2, <1>4, <1>5, <1>6 DEF Moves
  <2> QED BY <2>1, BagOfMoved
<1>9. IsFiniteSet(Placed(c))
  <2>1. IsFiniteSet({f[i] : i \in B})
    BY <1>2, ImageFinite
  <2> QED BY <1>4, <2>1
<1> QED BY <1>1, <1>3, <1>4, <1>7, <1>8, <1>9 DEF h, C

(* A sound one is decoded. *)
LEMMA SoundDecoded ==
  ASSUME NEW c, Sound(c)
  PROVE  Decoded(c) /\ c.subnet \in Subnets
<1>1. c.subnet \in 0..SubnetCount
  BY ValidatorsAssumption DEF Sound, Subnets
<1> QED BY <1>1 DEF Sound, Decoded

(* Contributions of two subnets have no place in common. *)
LEMMA PlacedApart ==
  ASSUME NEW c, Sound(c), NEW e, Sound(e), c.subnet # e.subnet
  PROVE  Placed(c) \cap Placed(e) = {}
<1> SUFFICES ASSUME NEW x, x \in Placed(c), x \in Placed(e) PROVE FALSE
  OBVIOUS
<1> DEFINE n == c.subnet
           k == e.subnet
           z == SubSize
<1>1. PICK i \in c.bits : x = n * z + i
  BY DEF Placed
<1>2. PICK j \in e.bits : x = k * z + j
  BY DEF Placed
<1>3. n \in Nat /\ k \in Nat /\ z \in Nat /\ n # k
  BY SubSizeIs, ValidatorsAssumption DEF Sound, Subnets
<1>4. i \in 0..(z - 1) /\ j \in 0..(z - 1)
  BY DEF Sound
<1> HIDE DEF n, k, z
<1>5. n * z \in Nat /\ k * z \in Nat
  BY <1>3
<1>6. CASE n + 1 <= k
  <2>1. (n + 1) * z <= k * z /\ (n + 1) * z = n * z + z
    BY <1>3, <1>6
  <2> QED BY <1>1, <1>2, <1>3, <1>4, <1>5, <2>1
<1>7. CASE k + 1 <= n
  <2>1. (k + 1) * z <= n * z /\ (k + 1) * z = k * z + z
    BY <1>3, <1>7
  <2> QED BY <1>1, <1>2, <1>3, <1>4, <1>5, <2>1
<1> QED BY <1>3, <1>6, <1>7

(* Contributions a block may take: of the slot before and of its parent,   *)
(* one of each subnet.                                                     *)
Takes(picked, slot, parent) ==
  /\ IsFiniteSet(picked)
  /\ \A c \in picked : Sound(c) /\ c.slot = slot - 1 /\ c.root = parent
  /\ \A c, e \in picked : c.subnet = e.subnet => c = e

(* Their aggregate has the signatures of its bits. *)
LEMMA AggregateSigned ==
  ASSUME Decodable, NEW slot \in Slot, NEW parent \in Slot, NEW picked, Takes(picked, slot, parent)
  PROVE  LET agg == get_sync_aggregate(picked)
             p == PeriodOf(EpochOf(slot))
         IN  /\ agg.bits = UNION {Placed(c) : c \in picked}
             /\ IsFiniteSet(agg.bits) /\ agg.bits \in SUBSET (0..(Len(Committee[p]) - 1))
             /\ \A j \in agg.bits : Committee[p][j + 1] \in Own \cup Peers
             /\ agg.signature = BagOf(agg.bits, AllMarks(p, parent))
<1> DEFINE p == PeriodOf(EpochOf(slot))
           agg == get_sync_aggregate(picked)
           s == SetToSeq(picked)
           N == Len(s)
           q == [i \in 1..N |-> s[i].signature]
           T == [i \in 1..N |-> Placed(s[i])]
           h == AllMarks(p, parent)
           bits == UNION {Placed(c) : c \in picked}
<1>1. /\ agg.bits = bits
      /\ agg.signature = IF picked = {} THEN Infinity ELSE aggregate(q)[2]
  BY DEF get_sync_aggregate
<1>2. /\ N \in Nat /\ s \in [1..N -> picked]
      /\ \A i, j \in 1..N : s[i] = s[j] => i = j
      /\ \A x \in picked : \E i \in 1..N : s[i] = x
  BY SetToSeqIs DEF Takes
<1>3. ASSUME NEW c \in picked
      PROVE  /\ Sound(c) /\ c.root = parent /\ IsFiniteSet(Placed(c))
             /\ Placed(c) \in SUBSET (0..(Len(Committee[p]) - 1))
             /\ \A j \in Placed(c) : Committee[p][j + 1] \in Own \cup Peers
             /\ c.signature = BagOf(Placed(c), h)
  <2>1. Sound(c) /\ c.slot = slot - 1 /\ c.root = parent
    BY DEF Takes
  <2>2. c.slot + 1 = slot
    <3>1. slot \in Int
      BY DEF Slot
    <3> QED BY <2>1, <3>1
  <2>3. p = PeriodOf(SyncEpoch(c.slot))
    BY <2>2 DEF SyncEpoch
  <2> HIDE DEF p
  <2>4. Decoded(c) /\ c.subnet \in Subnets
    BY <2>1, SoundDecoded
  <2> QED BY <2>1, <2>3, <2>4, PlacedSigned
<1> HIDE DEF s, N, p, h
<1>4. Parts(q, N, T, bits, h)
  <2>1. \A i \in 1..N : s[i] \in picked
    BY <1>2
  <2>2. \A i \in 1..N : IsFiniteSet(T[i]) /\ q[i] = BagOf(T[i], h)
    BY <1>3, <2>1
  <2>3. \A i, j \in 1..N : i # j => T[i] \cap T[j] = {}
    <3> SUFFICES ASSUME NEW i \in 1..N, NEW j \in 1..N, i # j PROVE T[i] \cap T[j] = {}
      OBVIOUS
    <3>1. s[i] # s[j] /\ s[i] \in picked /\ s[j] \in picked
      BY <1>2, <2>1
    <3>2. s[i].subnet # s[j].subnet
      BY <3>1 DEF Takes
    <3>3. Sound(s[i]) /\ Sound(s[j])
      BY <1>3, <3>1
    <3>4. Placed(s[i]) \cap Placed(s[j]) = {}
      BY <3>2, <3>3, PlacedApart
    <3> QED BY <3>4
  <2>4. \A t : t \in bits <=> \E i \in 1..N : t \in T[i]
    BY <1>2, <2>1
  <2>5. DOMAIN q = 1..N
    OBVIOUS
  <2> HIDE DEF q, T, bits
  <2> QED BY <1>2, <2>2, <2>3, <2>4, <2>5 DEF Parts
<1>5. q # <<>> <=> picked # {}
  <2>1. picked = {} <=> N = 0
    BY <1>2
  <2>2. q \in Seq({s[i].signature : i \in 1..N}) /\ Len(q) = N
    BY <1>2
  <2> HIDE DEF q
  <2> QED BY <2>1, <2>2
<1>6. \A i \in 1..N : IsOk(SignaturePoint(q[i]))
  <2>1. \A i \in 1..N : IsABag(q[i])
    <3>1. \A i \in 1..N : IsFiniteSet(T[i]) /\ q[i] = BagOf(T[i], h)
      BY <1>4 DEF Parts
    <3> HIDE DEF q, T
    <3> QED BY <3>1, BagOfFew
  <2> HIDE DEF q
  <2> QED BY <2>1 DEF IsOk, SignaturePoint, Ok, Decodable
<1>7. Len(q) = N
  BY <1>2
<1> HIDE DEF q, T, bits
<1>8. IsFiniteSet(bits) /\ SumOf(q) = BagOf(bits, h)
  BY <1>4, SumOfParts
<1>9. picked # {} => aggregate(q)[2] = BagOf(bits, h)
  BY <1>5, <1>6, <1>7, <1>8 DEF aggregate, Ok
<1>10. picked = {} => bits = {} /\ BagOf(bits, h) = Infinity
  <2>1. picked = {} => bits = {}
    BY DEF bits
  <2> QED BY <2>1, BagOfFew
<1>11. agg.signature = BagOf(bits, h)
  BY <1>1, <1>9, <1>10
<1>12. bits \in SUBSET (0..(Len(Committee[p]) - 1)) /\ \A j \in bits : Committee[p][j + 1] \in Own \cup Peers
  BY <1>3 DEF bits
<1> HIDE DEF agg
<1> QED BY <1>1, <1>8, <1>11, <1>12 DEF p, h, agg, bits

(* The block is accepted. *)
LEMMA AggregateAccepted ==
  ASSUME Decodable, NEW slot \in Slot, NEW parent \in Slot, NEW picked, Takes(picked, slot, parent)
  PROVE  process_sync_aggregate(slot, parent, get_sync_aggregate(picked))
<1> DEFINE agg == get_sync_aggregate(picked)
           p == PeriodOf(EpochOf(slot))
           C == Committee[p]
           B == agg.bits
           sig == agg.signature
           h == AllMarks(p, parent)
<1>1. /\ IsFiniteSet(B) /\ B \in SUBSET (0..(Len(C) - 1))
      /\ \A j \in B : C[j + 1] \in Own \cup Peers /\ sig = BagOf(B, h)
      /\ sig = BagOf(B, h)
  BY AggregateSigned
<1>2. parent \in Nat
  BY DEF Slot
<1>3. {i \in 0..(Len(C) - 1) : i \in agg.bits} = B
  BY <1>1
<1>4. process_sync_aggregate(slot, parent, agg) = IsTrue(eth_fast_aggregate_verify(KeysAt(C, B), parent, sig))
  BY <1>3 DEF process_sync_aggregate, KeysAt
<1>5. sig = BagOf(B, [i \in B |-> <<C[i + 1], parent>>])
  <2> DEFINE g == [i \in B |-> <<C[i + 1], parent>>]
  <2>1. \A i \in B : h[i] = g[i]
    <3> HIDE DEF B
    <3> QED BY <1>1 DEF AllMarks
  <2> HIDE DEF h, g, B, sig
  <2>2. BagOf(B, h) = BagOf(B, g)
    BY <2>1, BagOfAgree
  <2> QED BY <1>1, <2>2 DEF g
<1>6. B \in SUBSET Nat
  <2> HIDE DEF B
  <2> QED BY <1>1
<1> HIDE DEF B, C, sig, agg
<1>7. IsTrue(eth_fast_aggregate_verify(KeysAt(C, B), parent, sig))
  BY <1>1, <1>2, <1>5, <1>6, KeysVerify
<1> QED BY <1>4, <1>7 DEF agg

(* The state of the promise moves with messages, contributions and         *)
(* proposals only.                                                         *)
LEMMA PromiseMoves ==
  /\ Signed' = {<<m.validator, m.root>> : m \in messages'}
  /\ Included' = {BlockOf(b) : b \in proposals'}
<1>1. Signed' = {<<m.validator, m.root>> : m \in messages'}
  BY DEF Signed
<1>2. Included' = {BlockOf(b) : b \in proposals'}
  BY DEF Included, BlockOf
<1> QED BY <1>1, <1>2

(* Without them it stays as it is. *)
LEMMA PromiseStays ==
  ASSUME UNCHANGED <<Signed, Offered, Included, refused>>
  PROVE  UNCHANGED Promise!vars
BY PromiseVars

(* More messages are signatures. *)
LEMMA MessagesPromise ==
  ASSUME MessageInv', messages \subseteq messages', UNCHANGED <<Offered, proposals, refused>>
  PROVE  Promise!Next \/ UNCHANGED Promise!vars
<1>1. UNCHANGED Included
  BY PromiseMoves DEF Included
<1>2. Signed \subseteq Signed'
  BY PromiseMoves DEF Signed
<1>3. Signed' \subseteq (Own \cup Peers) \X Slot
  <2>1. \A m \in messages' : m.validator \in Own \cup Peers /\ m.root \in Slot
    BY DEF MessageInv, Valid
  <2> QED BY <2>1, PromiseMoves
<1>4. CASE Signed' = Signed
  BY <1>1, <1>4, PromiseStays
<1>5. CASE Signed' # Signed
  BY <1>1, <1>2, <1>3, <1>5, PromiseSign
<1> QED BY <1>4, <1>5

(* New contributions are offers, whoever makes them. *)
LEMMA ContributionsPromise ==
  ASSUME Decodable, DerivedInv', UNCHANGED <<messages, proposals, refused>>, Offered \subseteq Offered'
  PROVE  Promise!Next
<1>1. UNCHANGED <<Signed, Included, refused>>
  BY PromiseMoves DEF Signed, Included
<1>2. \A c \in Offered' : Decoded(c) /\ Derived(c.signature)
  <2>1. \A c \in Offered' : Decoded(c) /\ Derived(c.signature)'
    BY DEF DerivedInv
  <2>2. \A s : Derived(s)' => Derived(s)
    BY <1>1 DEF Derived
  <2> QED BY <2>1, <2>2
<1>3. \A c \in Offered' \ Offered :
        OfferVerifies(c) => OfferCounts(c) # {} /\ OfferCounts(c) \subseteq SignersOf(c.root)
  BY <1>2, VerifiedSigned
<1> QED BY <1>1, <1>3, PromiseOffer

(* The committee of every slot is known. *)
LEMMA CommitteeIs ==
  ASSUME NEW slot \in Slot
  PROVE  Committee[PeriodOf(EpochOf(slot))] \in Seq(Own \cup Peers)
<1> DEFINE last == SlotOf(LastThird)
           p == PeriodOf(EpochOf(slot))
           a == EpochOf(slot)
           b == SyncEpoch(last)
<1>1. last \in Nat /\ slot \in Nat /\ slot <= last
  <2>1. last \in Nat
    BY CommitteesAssumption DEF SlotOf
  <2> QED BY <2>1 DEF Slot
<1>2. a \in Nat /\ b \in Nat /\ EpochOf(last) \in Nat
  <2>1. last + 1 \in Nat
    BY <1>1
  <2> HIDE DEF last
  <2> QED BY <1>1, <2>1, EpochsAreNumbers DEF SyncEpoch
<1>3. a <= b
  <2> HIDE DEF last
  <2>1. a <= EpochOf(last)
    BY <1>1, SlotsInOrder
  <2>2. EpochOf(last) <= b
    BY <1>1, <1>2, NextSlotEpoch
  <2> QED BY <1>2, <2>1, <2>2
<1> HIDE DEF a, b
<1>4. a \div EpochsPerPeriod <= b \div EpochsPerPeriod
  BY <1>2, <1>3, DivKeepsOrder, ValidatorsAssumption
<1>5. p \in Nat /\ PeriodOf(b) \in Nat /\ p <= PeriodOf(b)
  BY <1>2, <1>4, EpochsAreNumbers DEF PeriodOf, a
<1>6. p \in 0..PeriodOf(SyncEpoch(SlotOf(LastThird)))
  <2> HIDE DEF p
  <2> QED BY <1>5 DEF b, last
<1> HIDE DEF p
<1>7. p \in DOMAIN Committee
  BY <1>6, CommitteesAssumption
<1> QED BY <1>7, ValidatorsAssumption DEF p

(* An aggregate that the transition accepts counts only who signed, if it  *)
(* is of signatures that were made.                                        *)
LEMMA AcceptedSigned ==
  ASSUME Decodable, NEW slot, NEW parent, NEW agg,
         LET C == Committee[PeriodOf(EpochOf(slot))]
         IN  /\ IsFiniteSet(agg.bits) /\ agg.bits \in SUBSET (0..(Len(C) - 1)) /\ Len(C) \in Nat
             /\ \A j \in agg.bits : C[j + 1] \in Own \cup Peers,
         agg.signature \in BagsOver(Signed), process_sync_aggregate(slot, parent, agg)
  PROVE  ValidatorsAt(slot, agg.bits) \subseteq SignersOf(parent)
<1> DEFINE C == Committee[PeriodOf(EpochOf(slot))]
           B == agg.bits
           sig == agg.signature
           mark == [i \in B |-> <<C[i + 1], parent>>]
<1>1. {i \in 0..(Len(C) - 1) : i \in agg.bits} = B
  OBVIOUS
<1>2. IsTrue(eth_fast_aggregate_verify(KeysAt(C, B), parent, sig))
  BY <1>1 DEF process_sync_aggregate, KeysAt
<1>3. /\ IsFiniteSet(B) /\ (\A j \in B : C[j + 1] \in Own \cup Peers)
      /\ sig \in BagsOver(Signed)
  OBVIOUS
<1>4. B \in SUBSET Nat
  OBVIOUS
<1>5. ValidatorsAt(slot, agg.bits) = {C[i + 1] : i \in B}
  BY DEF ValidatorsAt
<1> HIDE DEF B, C, sig
<1>6. B = {} \/ sig = BagOf(B, mark)
  BY <1>2, <1>3, <1>4, VerifiedIs
<1>7. \A i \in B : mark[i] = <<C[i + 1], parent>>
  OBVIOUS
<1> HIDE DEF mark
<1>8. \A i \in B : mark[i] \in Signed
  BY <1>3, <1>6, FewBags
<1> QED BY <1>3, <1>5, <1>7, <1>8 DEF SignersOf

(* What a block takes from the pool: offers of the slot before and of its  *)
(* parent, one of each subnet.                                             *)
LEMMA PoolPicked ==
  ASSUME ValidatorsInv, NEW slot, NEW S, NEW pick \in [S -> pool],
         \A n \in S : pick[n] \in Largest(usable(pool, slot, head, n))
  PROVE  Picked(slot, head, S, pick)
<1>1. \A n \in S : pick[n] \in Offered /\ pick[n] \in usable(pool, slot, head, n)
  BY DEF Largest, ValidatorsInv, CountInv, Offered
<1>2. pick \in [S -> Offered]
  BY <1>1
<1> QED BY <1>1, <1>2 DEF Picked, usable

(* The aggregate of a block, whatever it takes. *)
LEMMA AggregateOf ==
  ASSUME Decodable, ValidatorsInv, NEW slot \in Slot, NEW parent \in Slot, NEW S \in SUBSET Subnets, NEW pick,
         Picked(slot, parent, S, pick)
  PROVE  LET agg == get_sync_aggregate(Range(pick))
             C == Committee[PeriodOf(EpochOf(slot))]
         IN  /\ IsFiniteSet(Range(pick)) /\ \A c : c \in Range(pick) <=> \E n \in S : c = pick[n]
             /\ agg.signature \in BagsOver(Signed)
             /\ IsFiniteSet(agg.bits) /\ agg.bits \in SUBSET (0..(Len(C) - 1))
             /\ \A j \in agg.bits : C[j + 1] \in Own \cup Peers
             /\ ValidatorsAt(slot, agg.bits) = Counted(S, pick)
<1> DEFINE R == Range(pick)
           agg == get_sync_aggregate(R)
           p == PeriodOf(EpochOf(slot))
           C == Committee[p]
           s == SetToSeq(R)
           W == {c.signature : c \in R}
           q == [i \in 1..Len(s) |-> s[i].signature]
<1>1. /\ pick \in [S -> Offered]
      /\ \A n \in S : pick[n].slot = slot - 1 /\ pick[n].root = parent /\ pick[n].subnet = n
  BY DEF Picked
<1>2. R = {pick[n] : n \in S}
  BY <1>1 DEF Range
<1>3. IsFiniteSet(S)
  <2>1. IsFiniteSet(Subnets)
    <3> DEFINE k == SubnetCount - 1
    <3>1. k \in Int
      BY ValidatorsAssumption
    <3> HIDE DEF k
    <3>2. IsFiniteSet(0..k)
      BY <3>1, FS_Interval
    <3> QED BY <3>2 DEF k, Subnets
  <2> QED BY <2>1, FS_Subset
<1>4. IsFiniteSet(R)
  BY <1>2, <1>3, ImageFinite
<1>5. ASSUME NEW c \in R
      PROVE  /\ Decoded(c) /\ Derived(c.signature) /\ c.subnet \in Subnets
             /\ p = PeriodOf(SyncEpoch(c.slot))
  <2>1. PICK n \in S : c = pick[n]
    BY <1>2
  <2>2. c \in Offered /\ c.slot = slot - 1 /\ c.subnet \in Subnets
    BY <1>1, <2>1
  <2>3. c.slot + 1 = slot
    <3>1. slot \in Int
      BY DEF Slot
    <3> QED BY <2>2, <3>1
  <2> QED BY <2>2, <2>3 DEF SyncEpoch, ValidatorsInv, DerivedInv
<1> HIDE DEF p
<1>6. ASSUME NEW c \in R
      PROVE  /\ IsFiniteSet(Placed(c)) /\ Placed(c) \in SUBSET (0..(Len(C) - 1))
             /\ \A j \in Placed(c) : C[j + 1] \in Own \cup Peers
             /\ {C[j + 1] : j \in Placed(c)} = OfferCounts(c)
  BY <1>5, PlacedSigned
<1> HIDE DEF R
<1>7. /\ agg.bits = UNION {Placed(c) : c \in R}
      /\ agg.signature = IF R = {} THEN Infinity ELSE aggregate(q)[2]
  BY DEF get_sync_aggregate
<1>8. agg.signature \in BagsOver(Signed)
  <2>1. s \in Seq(R)
    BY <1>4, SetToSeqIs
  <2> HIDE DEF s
  <2>2. q \in Seq(W)
    <3>1. Len(s) \in Nat /\ \A i \in 1..Len(s) : s[i] \in R
      BY <2>1
    <3> QED BY <3>1
  <2>3. \A w \in W : w = Garbled \/ w \in BagsOver(Signed)
    BY <1>5 DEF Derived
  <2> HIDE DEF q, W
  <2>4. aggregate(q)[2] \in BagsOver(Signed)
    BY <2>2, <2>3, AggregateWithin
  <2> QED BY <1>7, <2>4, FewBags
<1>9. IsFiniteSet(agg.bits)
  <2> DEFINE F == [c \in R |-> Placed(c)]
             P == {F[c] : c \in R}
  <2>1. IsFiniteSet(P)
    <3> HIDE DEF F
    <3> QED BY <1>4, ImageFinite
  <2>2. \A B \in P : IsFiniteSet(B)
    BY <1>6
  <2>3. agg.bits = UNION P
    BY <1>7
  <2> HIDE DEF P
  <2> QED BY <2>1, <2>2, <2>3, FS_UNION
<1> HIDE DEF agg
<1>10. agg.bits \in SUBSET (0..(Len(C) - 1)) /\ \A j \in agg.bits : C[j + 1] \in Own \cup Peers
  BY <1>6, <1>7
<1>11. ValidatorsAt(slot, agg.bits) = Counted(S, pick)
  <2>1. ValidatorsAt(slot, agg.bits) = {C[j + 1] : j \in agg.bits}
    BY DEF ValidatorsAt, p
  <2>2. {C[j + 1] : j \in agg.bits} = UNION {OfferCounts(c) : c \in R}
    <3>1. ASSUME NEW v PROVE v \in {C[j + 1] : j \in agg.bits} <=> \E c \in R : v \in OfferCounts(c)
      BY <1>6, <1>7
    <3> QED BY <3>1
  <2>3. UNION {OfferCounts(c) : c \in R} = Counted(S, pick)
    BY <1>2 DEF Counted
  <2> QED BY <2>1, <2>2, <2>3
<1> QED BY <1>2, <1>4, <1>8, <1>9, <1>10, <1>11 DEF agg, p, R

(* A proposed block includes offers of validators that signed; one that is *)
(* refused took an offer that does not verify.                             *)
LEMMA ProposedPromise ==
  ASSUME Decodable, ValidatorsInv, Proposed, UNCHANGED forged
  PROVE  Promise!Next \/ UNCHANGED Promise!vars
<1> DEFINE slot == SlotOf(clock)
           offers(n) == usable(pool, slot, head, n)
           D == {n \in 0..SubnetCount : offers(n) # {}}
           built(pick) == [slot |-> slot, parent |-> head, aggregate |-> get_sync_aggregate(Range(pick))]
<1>0. slot \in Slot /\ head \in Slot
  <2>1. slot \in Nat /\ slot <= SlotOf(clock) /\ head \in Nat /\ head <= SlotOf(clock) /\ Shape /\ Bounded
    BY DEF ValidatorsInv, Shape, Bounded, SlotOf
  <2> QED BY <2>1, SlotsOfNow
<1>1. UNCHANGED <<Signed, Offered>>
  <2>1. UNCHANGED <<messages, contributions, forged_contributions>>
    BY ProposedDo DEF forged
  <2> QED BY <2>1 DEF Signed, Offered
<1>2. \/ UNCHANGED <<proposals, refused>>
      \/ \E pick \in [D -> pool] :
           /\ \A n \in D : pick[n] \in Largest(offers(n))
           /\ ~AggregateRaises(Range(pick)) /\ seal_block(built(pick))
  <2> DEFINE d == compute_duties(duties, slot)
  <2>1. Propose(d, slot)
    BY DEF Proposed
  <2> HIDE DEF d, slot
  <2> QED BY <2>1, Zenon DEF Propose
<1>3. CASE UNCHANGED <<proposals, refused>>
  BY <1>1, <1>3, PromiseMoves, PromiseStays DEF Included
<1>4. ASSUME NEW pick \in [D -> pool], \A n \in D : pick[n] \in Largest(offers(n)),
             ~AggregateRaises(Range(pick)), seal_block(built(pick))
      PROVE  Promise!Next \/ UNCHANGED Promise!vars
  <2> DEFINE R == Range(pick)
             agg == get_sync_aggregate(R)
             b == built(pick)
             C == Committee[PeriodOf(EpochOf(slot))]
             signers == Counted(D, pick)
  <2> HIDE DEF D, slot
  <2>1. Picked(slot, head, D, pick)
    BY <1>4, PoolPicked
  <2>2. D \in SUBSET Subnets
    <3>1. \A n \in D : pick[n] \in R
      BY <1>4 DEF Range
    <3> QED BY <1>4, <2>1, <3>1 DEF Picked, AggregateRaises
  <2>3. /\ IsFiniteSet(R) /\ \A c : c \in R <=> \E n \in D : c = pick[n]
        /\ agg.signature \in BagsOver(Signed)
        /\ IsFiniteSet(agg.bits) /\ agg.bits \in SUBSET (0..(Len(C) - 1))
        /\ \A j \in agg.bits : C[j + 1] \in Own \cup Peers
        /\ ValidatorsAt(slot, agg.bits) = signers
    <3>1. slot \in Slot /\ head \in Slot /\ D \in SUBSET Subnets /\ Picked(slot, head, D, pick)
      BY <1>0, <2>1, <2>2
    <3> QED BY <3>1, AggregateOf
  <2>4. b.slot = slot /\ b.parent = head /\ b.aggregate = agg
    OBVIOUS
  <2>5. BlockOf(b) = [slot |-> slot, parent |-> head, signers |-> signers]
    BY <2>3, <2>4 DEF BlockOf
  <2> HIDE DEF R, agg, b, signers
  <2>6. CASE process_sync_aggregate(slot, head, agg)
    <3>1. proposals' = proposals \cup {b} /\ UNCHANGED refused
      BY <1>4, <2>4, <2>6 DEF seal_block, b
    <3>2. Included' = Included \cup {[slot |-> slot, parent |-> head, signers |-> signers]}
      BY <2>5, <3>1, PromiseMoves DEF Included
    <3>3. Len(C) \in Nat
      <4>1. C \in Seq(Own \cup Peers)
        BY <1>0, CommitteeIs
      <4> HIDE DEF C
      <4> QED BY <4>1
    <3>4. signers \subseteq SignersOf(head)
      BY <2>3, <2>6, <3>3, AcceptedSigned
    <3>5. CASE Included' = Included
      BY <1>1, <3>1, <3>5, PromiseStays
    <3>6. CASE Included' # Included
      <4>1. slot \in Slot /\ head \in Slot /\ D \in SUBSET Subnets /\ Picked(slot, head, D, pick)
        BY <1>0, <2>1, <2>2
      <4>2. UNCHANGED <<Signed, Offered, refused>> /\ signers = Counted(D, pick)
        BY <1>1, <3>1 DEF signers
      <4> QED BY <3>2, <3>4, <3>6, <4>1, <4>2, PromiseInclude
    <3> QED BY <3>5, <3>6
  <2>7. CASE ~process_sync_aggregate(slot, head, agg)
    <3>1. refused' = refused \cup {[slot |-> slot, parent |-> head]} /\ UNCHANGED proposals
      BY <1>4, <2>4, <2>7 DEF seal_block, b
    <3>2. UNCHANGED Included
      BY <3>1, PromiseMoves DEF Included
    <3>3. \E n \in D : ~OfferVerifies(pick[n])
      <4> SUFFICES ASSUME \A n \in D : OfferVerifies(pick[n]) PROVE FALSE
        OBVIOUS
      <4>1. \A n \in D : /\ pick[n] \in Offered /\ pick[n].slot = slot - 1
                         /\ pick[n].root = head /\ pick[n].subnet = n
        BY <2>1 DEF Picked
      <4>2. \A n \in D : Sound(pick[n])
        BY <4>1, VerifiedSound DEF ValidatorsInv, DerivedInv
      <4>3. Takes(R, slot, head)
        BY <2>3, <4>1, <4>2 DEF Takes
      <4> QED BY <1>0, <2>7, <4>3, AggregateAccepted DEF agg
    <3>4. CASE refused' = refused
      BY <1>1, <3>2, <3>4, PromiseStays
    <3>5. CASE refused' # refused
      BY <1>0, <1>1, <2>1, <2>2, <3>1, <3>2, <3>3, <3>5, PromiseRefuse
    <3> QED BY <3>4, <3>5
  <2> QED BY <2>6, <2>7
<1> HIDE DEF D, offers, slot, built
<1> QED BY <1>2, <1>3, <1>4

(* Every step is one of the promise's, or changes nothing of it. *)
LEMMA NextPromise ==
  ASSUME Decodable, ValidatorsInv, ValidatorsInv', [Next]_vars
  PROVE  Promise!Next \/ UNCHANGED Promise!vars
<1>0. MessageInv' /\ DerivedInv' /\ clock \in Nat
  BY DEF ValidatorsInv, Shape
<1>s. UNCHANGED <<messages, contributions, forged_contributions, proposals, refused>> => UNCHANGED Promise!vars
  <2> SUFFICES ASSUME UNCHANGED <<messages, contributions, forged_contributions, proposals, refused>>
               PROVE  UNCHANGED Promise!vars
    OBVIOUS
  <2>1. UNCHANGED <<Signed, Offered, Included, refused>>
    BY PromiseMoves DEF Signed, Offered, Included
  <2> QED BY <2>1, PromiseStays
<1>b. ASSUME NEW slot, NEW root, BroadcastedOn(slot, root), UNCHANGED forged_contributions
      PROVE  Promise!Next \/ UNCHANGED Promise!vars
  <2>1. UNCHANGED <<contributions, proposals, refused>> /\ messages \subseteq messages'
    BY <1>b, BroadcastCollects DEF BroadcastedOn
  <2>2. UNCHANGED Offered
    BY <1>b, <2>1 DEF Offered
  <2> QED BY <1>0, <2>1, <2>2, MessagesPromise
<1>1. CASE OnTick
  <2>1. /\ UNCHANGED <<forged, forged_contributions>>
        /\ StoodStill \/ Proposed \/ BroadcastedOn(SlotOf(clock), head) \/ Published
    BY <1>0, <1>1, TickCases DEF OnTick, faults, forged
  <2>2. CASE StoodStill
    BY <1>s, <2>1, <2>2 DEF StoodStill
  <2>3. CASE Proposed
    BY <2>1, <2>3, ProposedPromise
  <2>4. CASE BroadcastedOn(SlotOf(clock), head)
    BY <1>b, <2>1, <2>4
  <2>5. CASE Published
    <3>1. UNCHANGED <<messages, proposals, refused>> /\ contributions \subseteq contributions'
      BY <2>5 DEF Published, PublishAggregates
    <3>2. Offered \subseteq Offered'
      BY <2>1, <3>1 DEF Offered
    <3> QED BY <1>0, <3>1, <3>2, ContributionsPromise
  <2> QED BY <2>1, <2>2, <2>3, <2>4, <2>5
<1>2. CASE NotifyHead
  <2>1. UNCHANGED forged_contributions /\ (StoodStill \/ BroadcastedOn(inbox[1], inbox[1]))
    BY <1>2, HeadCases DEF NotifyHead, faults, forged
  <2>2. CASE StoodStill
    BY <1>s, <2>1, <2>2 DEF StoodStill
  <2> QED BY <1>b, <2>1, <2>2
<1>3. CASE PeerSigns
  <2>1. messages \subseteq messages' /\ UNCHANGED <<contributions, forged_contributions, proposals, refused>>
    BY <1>3 DEF PeerSigns, faults, forged
  <2>2. UNCHANGED Offered
    BY <2>1 DEF Offered
  <2> QED BY <1>0, <2>1, <2>2, MessagesPromise
<1>4. CASE PeerContributes \/ ReceiveContribution
  <2>1. /\ UNCHANGED <<messages, proposals, refused>>
        /\ contributions \subseteq contributions' /\ forged_contributions \subseteq forged_contributions'
    BY <1>4 DEF PeerContributes, ReceiveContribution, faults, forged, network
  <2>2. Offered \subseteq Offered'
    BY <2>1 DEF Offered
  <2> QED BY <1>0, <2>1, <2>2, ContributionsPromise
<1>5. CASE NewBlock \/ Deliver \/ TimePasses \/ Restart \/ UNCHANGED vars
  <2>1. UNCHANGED <<messages, contributions, forged_contributions, proposals, refused>>
    BY <1>5 DEF NewBlock, Deliver, TimePasses, Restart, vars, network, forged
  <2> QED BY <1>s, <2>1
<1> QED BY <1>1, <1>2, <1>3, <1>4, <1>5 DEF Next

(* The node implements SyncPromise through missed ticks, exceptions and    *)
(* restarts and whatever it is sent: messages are signatures, what         *)
(* verifies among the contributions, made-up ones included, is of some who *)
(* signed, every block it proposes counts only validators that signed its  *)
(* parent, and its transition (seal_block) refuses a block of its own only *)
(* for a contribution in it that does not verify.                          *)
THEOREM NodeKeepsPromise ==
  ASSUME Decodable
  PROVE  Spec => ImplementsPromise
<1>1. Init => Promise!Init
  <2> SUFFICES ASSUME Init PROVE Promise!Init
    OBVIOUS
  <2>1. /\ messages = {} /\ contributions = {} /\ forged_contributions = {} /\ proposals = {} /\ refused = {}
    BY DEF Init
  <2> QED BY <2>1 DEF Promise!Init
<1>2. (Init => ValidatorsInv) /\ (ValidatorsInv /\ [Next]_vars => ValidatorsInv')
  BY InvHolds
<1>3. ValidatorsInv /\ ValidatorsInv' /\ [Next]_vars => [Promise!Next]_(Promise!vars)
  BY NextPromise
<1> QED BY <1>1, <1>2, <1>3, PTL DEF Spec, ImplementsPromise, Promise!Spec
=============================================================================

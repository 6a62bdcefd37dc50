------------------------------ MODULE Registry ------------------------------
(* The life of validators and of their balances through blocks and epochs.   *)
(* A slot has at most one block; a block's operations come in the order of   *)
(* process_operations, each an action of its own, and phase says how far the *)
(* block has come.  A block that fails leaves no state behind, so only       *)
(* operations that succeed, and requests that are ignored, are steps.        *)
EXTENDS RegistryEpoch, TLC

CONSTANTS
    Anchors,         \* what is particular of the states the chain may start from
    BridgeDeposits,  \* the deposits made before requests came from payloads
    Deposits,        \* deposits a request may carry
    Amounts,         \* amounts a withdrawal request may name; 0 asks for the exit
    RewardOutcomes,  \* what an epoch of attesting may earn each validator
    MaxSlot,         \* bound on the slots
    MaxEvents        \* bound on the events: operations that change the state, slots
                     \* without a block, epochs in which something goes wrong

VARIABLES
    state,        \* the BeaconState fields of this module
    phase,        \* 0: no block in this slot yet; else the stage of its operations
    proposer,     \* of the block, once an operation depends on it; 0 before
    events,       \* number of events so far
    ledger,       \* what deposits, rewards, penalties and payouts leave in the registry
    overdrawn,    \* some payout was larger than the balance it came from
    penalised,    \* per validator, the correlation penalties it got
    churned       \* per epoch, the balance the exit queue put there

vars == <<state, phase, proposer, events, ledger, overdrawn, penalised, churned>>

Total(seq) == SumOf(seq)
Queued(queue) == SumOf([k \in DOMAIN queue |-> queue[k].amount])

\* A genesis state has its validators and nothing under way; the state of a
\* checkpoint may also have exits, deposits and withdrawals in its queues.
StartState(g) ==
    g @@ [slot |-> 0, failed |-> FALSE,
     deposits |-> << >>, deposit_balance_to_consume |-> 0,
     exits |-> [epoch |-> 0, left |-> 0], consolidating |-> [epoch |-> 0, left |-> 0],
     partials |-> << >>, consolidations |-> << >>,
     slashings |-> [e \in 0..(EPOCHS_PER_SLASHINGS_VECTOR - 1) |-> 0],
     next_withdrawal_validator_index |-> 0,
     eth1_deposit_index |-> 0, deposit_count |-> 0, start_index |-> UNSET_START_INDEX,
     finalized |-> 0]

Keys == {v.key : v \in UNION {ToSet(g.validators) : g \in Anchors}}
        \cup {d.key : d \in Deposits \cup ToSet(BridgeDeposits)}
Credentials == {"bls", "eth1", "compounding"}
ValidatorType ==
    [key : Keys, credentials : Credentials, effective : 0..MAX_EFFECTIVE_BALANCE_ELECTRA, slashed : BOOLEAN,
     eligibility : Nat, activation : Nat, exit : Nat, withdrawable : Nat]
DepositType == [key : Keys, credentials : Credentials, amount : Nat, signed : BOOLEAN]
PendingDepositType == [key : Keys, credentials : Credentials, amount : Nat, slot : Nat, signed : BOOLEAN]
PartialType == [index : Nat, amount : Nat, withdrawable : Nat]
ConsolidationType == [source : Nat, target : Nat]
ChurnQueue == [epoch : Nat, left : Int]
StateType ==
    [slot : Nat, failed : BOOLEAN, validators : Seq(ValidatorType), balances : Seq(Nat),
     deposits : Seq(PendingDepositType), deposit_balance_to_consume : Int,
     exits : ChurnQueue, consolidating : ChurnQueue,
     partials : Seq(PartialType), consolidations : Seq(ConsolidationType),
     slashings : [0..(EPOCHS_PER_SLASHINGS_VECTOR - 1) -> Nat],
     next_withdrawal_validator_index : Nat, eth1_deposit_index : Nat, deposit_count : 0..Len(BridgeDeposits),
     start_index : Nat, finalized : Nat]
StateOK(s) ==
    /\ s \in StateType
    /\ s.validators # << >> /\ Len(s.balances) = Len(s.validators)
    /\ \A k \in DOMAIN s.partials : s.partials[k].index \in Indices(s)
    /\ \A k \in DOMAIN s.consolidations : {s.consolidations[k].source, s.consolidations[k].target} \subseteq Indices(s)

\* The epochs of a validator's life are in order.
InOrder(v) ==
    /\ v.activation # FAR_FUTURE_EPOCH => v.eligibility <= v.activation
    /\ v.exit # FAR_FUTURE_EPOCH => v.activation < v.exit
    /\ IF v.exit = FAR_FUTURE_EPOCH THEN v.withdrawable = FAR_FUTURE_EPOCH
       ELSE v.exit + MIN_VALIDATOR_WITHDRAWABILITY_DELAY <= v.withdrawable
    /\ v.slashed => v.exit # FAR_FUTURE_EPOCH

\* Partial withdrawals are queued in the order in which they become payable,
\* consolidations in the order in which their sources, unless slashed, become
\* withdrawable, and none lies beyond its churn queue.
QueuesInOrder(s) ==
    LET Free(k) == s.validators[s.consolidations[k].source].withdrawable
        Slashed(k) == s.validators[s.consolidations[k].source].slashed
    IN  /\ \A k \in DOMAIN s.partials :
              /\ s.partials[k].withdrawable <= s.exits.epoch + MIN_VALIDATOR_WITHDRAWABILITY_DELAY
              /\ \A j \in 1..(k - 1) : s.partials[j].withdrawable <= s.partials[k].withdrawable
        /\ \A k \in DOMAIN s.consolidations :
              /\ s.validators[s.consolidations[k].source].exit # FAR_FUTURE_EPOCH
              /\ ~Slashed(k) => Free(k) <= s.consolidating.epoch + MIN_VALIDATOR_WITHDRAWABILITY_DELAY
              /\ \A j \in 1..(k - 1) : ~Slashed(j) /\ ~Slashed(k) => Free(j) <= Free(k)

\* The chain starts from a state that a chain can be in, and ends long before
\* the far future.
ASSUME AnchorsAssumption ==
    /\ Deposits \subseteq DepositType /\ BridgeDeposits \in Seq(DepositType)
    /\ Amounts \subseteq Nat /\ IsFiniteSet(Amounts) /\ {MaxSlot, MaxEvents} \subseteq Nat
    /\ \A d \in RewardOutcomes : \A i \in DOMAIN d : d[i] \in Int
    /\ compute_activation_exit_epoch(compute_epoch_at_slot(MaxSlot)) < FAR_FUTURE_EPOCH
    /\ \A g \in Anchors :
          LET s == StartState(g)
              epoch == get_current_epoch(s)
          IN  /\ StateOK(s) /\ ~s.failed /\ s.slot <= MaxSlot /\ s.finalized <= epoch
              /\ QueuesInOrder(s) /\ s.exits.left \in 0..MAX_PER_EPOCH_ACTIVATION_EXIT_CHURN_LIMIT
              /\ \A k \in DOMAIN s.consolidations : s.validators[s.consolidations[k].source].withdrawable > epoch
              /\ \A i \in Indices(s) :
                    LET v == s.validators[i]
                    IN  InOrder(v) /\ (v.slashed => epoch + (EPOCHS_PER_SLASHINGS_VECTOR \div 2) <= v.withdrawable)

Init ==
    /\ state \in {StartState(g) : g \in Anchors}
    /\ phase = 0 /\ proposer = 0 /\ events = 0
    /\ ledger = Total(state.balances) + Queued(state.deposits) /\ overdrawn = FALSE
    /\ penalised = [i \in Indices(state) |-> 0]
    /\ churned = << >>
-----------------------------------------------------------------------------
(* Slots and epochs.                                                        *)

\* The loop of process_pending_deposits drops a deposit with a bad signature
\* whose key neither the registry nor a better deposit before it has.
Dropped(s, k) ==
    /\ ~s.deposits[k].signed /\ find_validator(s, s.deposits[k].key) = 0
    /\ \A j \in 1..(k - 1) : s.deposits[j].key = s.deposits[k].key => ~s.deposits[j].signed
Lost(s) ==
    SumOf([k \in {k \in 1..PendingDepositsLoop(s).last : Dropped(s, k)} |-> s.deposits[k].amount])

\* The counts c per epoch, with x more in epoch e.
Gains(c, e, x) ==
    [f \in DOMAIN c \cup {e} |-> (IF f \in DOMAIN c THEN c[f] ELSE 0) + (IF f = e THEN x ELSE 0)]
\* The exits that step s -> t put in the queue.
NewExits(s, t) ==
    {i \in Indices(s) : s.validators[i].exit = FAR_FUTURE_EPOCH /\ t.validators[i].exit # FAR_FUTURE_EPOCH}
WithExits(s, t) ==
    LET epochs == {t.validators[i].exit : i \in NewExits(s, t)}
        Added(e) == SumOf([i \in {i \in NewExits(s, t) : t.validators[i].exit = e} |-> s.validators[i].effective])
        Before(e) == IF e \in DOMAIN churned THEN churned[e] ELSE 0
    IN  [e \in epochs \cup DOMAIN churned |-> Before(e) + Added(e)]

\* process_epoch on the last slot of the epoch, then the next slot.
process_epoch(finalized, deltas) ==
    LET rewarded == process_rewards_and_penalties([state EXCEPT !.finalized = finalized], deltas)
        updated == process_registry_updates(rewarded)
        punished == process_slashings(updated)
        deposited == process_pending_deposits(punished)
        consolidated == process_pending_consolidations(deposited)
        final == process_slashings_reset(process_effective_balance_updates(consolidated))
    IN  /\ ~updated.failed
        /\ state' = [final EXCEPT !.slot = @ + 1]
        /\ ledger' = ledger + (Total(rewarded.balances) - Total(state.balances))
                            + (Total(punished.balances) - Total(updated.balances))
                            - Lost(punished)
        /\ penalised' = [i \in Indices(final) |->
                            (IF i \in DOMAIN penalised THEN penalised[i] ELSE 0)
                            + (IF i \in PenaltyDue(updated) THEN 1 ELSE 0)]
        /\ churned' = WithExits(rewarded, updated)

\* In a good epoch the one before it is finalized and nobody is penalised; in
\* any other, finality may stay where it is and rewards have any outcome.
LastEpoch == Larger(state.finalized, get_current_epoch(state) - 1)
NoReward == [i \in 1..Len(state.validators) |-> 0]

\* A slot is over, its block too or there was none; process_slots goes on.
NextSlot ==
    LET empty == IF phase = 0 /\ state.slot > 0 THEN 1 ELSE 0
    IN  /\ phase \notin {1, 2} /\ state.slot < MaxSlot
        /\ phase' = 0 /\ proposer' = 0
        /\ UNCHANGED overdrawn
        /\ \/ /\ (state.slot + 1) % SLOTS_PER_EPOCH = 0
              /\ \/ process_epoch(LastEpoch, NoReward) /\ events' = events + empty
                 \/ /\ events' = events + empty + 1
                    /\ \E f \in {state.finalized, LastEpoch}, d \in RewardOutcomes : process_epoch(f, d)
           \/ /\ (state.slot + 1) % SLOTS_PER_EPOCH # 0
              /\ state' = [state EXCEPT !.slot = @ + 1]
              /\ events' = events + empty
              /\ UNCHANGED <<ledger, penalised, churned>>
        /\ events' <= MaxEvents
-----------------------------------------------------------------------------
(* The start of a block: its withdrawals.                                   *)

do_process_partial_withdrawal(s, w) ==
    LET v == s.validators[w.index]
        excess == s.balances[w.index] - MIN_ACTIVATION_BALANCE
    IN  IF v.exit = FAR_FUTURE_EPOCH /\ v.effective >= MIN_ACTIVATION_BALANCE /\ excess > 0
        THEN <<[index |-> w.index, amount |-> Smaller(excess, w.amount)]>>
        ELSE << >>
PartialWithdrawals(s) ==
    FoldLeft(LAMBDA a, w :
                 IF \/ a.halted \/ w.withdrawable > get_current_epoch(s)
                    \/ a.done = MAX_PENDING_PARTIALS_PER_WITHDRAWALS_SWEEP
                 THEN [a EXCEPT !.halted = TRUE]
                 ELSE [a EXCEPT !.done = @ + 1, !.out = @ \o do_process_partial_withdrawal(s, w)],
             [done |-> 0, out |-> << >>, halted |-> FALSE], s.partials)

Swept(s, i, partial) ==
    LET v == s.validators[i]
        balance == s.balances[i] - AmountFor(partial, i)
    IN  IF fully_withdrawable_validator(v, balance, get_current_epoch(s))
        THEN <<[index |-> i, amount |-> balance]>>
        ELSE IF partially_withdrawable_validator(v, balance)
        THEN <<[index |-> i, amount |-> balance - get_max_effective_balance(v)]>>
        ELSE << >>
Sweep(s, partial) ==
    LET n == Len(s.validators)
        order == [k \in 1..Smaller(n, MAX_VALIDATORS_PER_WITHDRAWALS_SWEEP) |->
                    ((s.next_withdrawal_validator_index + k - 1) % n) + 1]
    IN  FlattenSeq([k \in DOMAIN order |-> Swept(s, order[k], partial)])

get_expected_withdrawals(s) ==
    LET partial == PartialWithdrawals(s).out
        all == partial \o Sweep(s, partial)
    IN  SubSeq(all, 1, Smaller(Len(all), MAX_WITHDRAWALS_PER_PAYLOAD))

decrease_balances(s, withdrawals) ==
    FoldLeft(LAMBDA t, w : decrease_balance(t, w.index, w.amount), s, withdrawals)
update_next_withdrawal_validator_index(s, withdrawals) ==
    IF Len(withdrawals) = MAX_WITHDRAWALS_PER_PAYLOAD
    THEN Last(withdrawals).index % Len(s.validators)
    ELSE (s.next_withdrawal_validator_index + MAX_VALIDATORS_PER_WITHDRAWALS_SWEEP) % Len(s.validators)

process_withdrawals(s) ==
    LET withdrawals == get_expected_withdrawals(s)
    IN  [decrease_balances(s, withdrawals) EXCEPT
            !.partials = Drop(@, PartialWithdrawals(s).done),
            !.next_withdrawal_validator_index = update_next_withdrawal_validator_index(s, withdrawals)]

\* The block's header, which a validator that is active and not slashed signs,
\* its withdrawals, and its vote on the deposit contract.
StartBlock ==
    /\ phase = 0 /\ state.slot > 0
    /\ \E p \in active_validator_indices(state, get_current_epoch(state)) : ~state.validators[p].slashed
    /\ LET withdrawals == get_expected_withdrawals(state)
       IN  /\ ledger' = ledger - Queued(withdrawals)
           /\ overdrawn' = (overdrawn \/ \E i \in Indices(state) : AmountFor(withdrawals, i) > state.balances[i])
    /\ \E count \in {state.deposit_count, Len(BridgeDeposits)} :
        /\ state' = [process_withdrawals(state) EXCEPT !.deposit_count = count]
        /\ events' = events + (IF count = state.deposit_count THEN 0 ELSE 1)
    /\ events' <= MaxEvents
    /\ phase' = 1
    /\ UNCHANGED <<proposer, penalised, churned>>
-----------------------------------------------------------------------------
(* The operations of a block, in the order of process_operations: proposer   *)
(* slashings in phase 1, attester slashings up to 2, the deposits, which end *)
(* in 3, then exits, address changes and the three kinds of request.         *)

\* An operation is over: t is the new state and later operations are in phase
\* next or after it; a request that is ignored leaves no trace.
Done(t, next) ==
    /\ ~t.failed
    /\ state' = t
    /\ IF t = state THEN UNCHANGED <<phase, events>>
                     ELSE phase' = next /\ events' = events + 1
    /\ UNCHANGED <<overdrawn, penalised>>
InPhase(first, last) == phase \in first..last /\ events < MaxEvents

\* The block's proposer matters to slashings only, and is chosen by the first.
Proposers ==
    IF proposer # 0 THEN {proposer}
    ELSE {p \in active_validator_indices(state, get_current_epoch(state)) : ~state.validators[p].slashed}

Slashing(t, p, next) ==
    /\ Done(t, next)
    /\ proposer' = p
    /\ ledger' = ledger + Total(t.balances) - Total(state.balances)
    /\ churned' = WithExits(state, t)

ProposerSlashing(i) ==
    /\ InPhase(1, 1)
    /\ slashable_validator(state.validators[i], get_current_epoch(state))
    /\ \E p \in Proposers : Slashing(slash_validator(state, i, p), p, 1)

\* The validators in both attestations, in order; at least one is slashed.
slash_validators(s, S, p) ==
    FoldLeftDomain(LAMBDA t, i :
                       IF ~t.failed /\ i \in S /\ slashable_validator(t.validators[i], get_current_epoch(s))
                       THEN slash_validator(t, i, p) ELSE t,
                   s, s.validators)
AttesterSlashing(S) ==
    /\ InPhase(1, 2)
    /\ \E i \in S : slashable_validator(state.validators[i], get_current_epoch(state))
    /\ \E p \in Proposers : Slashing(slash_validators(state, S, p), p, 2)

PendingDeposit(d, slot) ==
    [key |-> d.key, credentials |-> d.credentials, amount |-> d.amount, slot |-> slot, signed |-> d.signed]
apply_deposit(s, d) ==
    LET t == IF find_validator(s, d.key) # 0 THEN s
             ELSE add_validator_to_registry(s, d.key, d.credentials, 0)
    IN  IF find_validator(s, d.key) = 0 /\ ~d.signed THEN s
        ELSE [t EXCEPT !.deposits = Append(@, PendingDeposit(d, 0))]
process_deposit(s, d) == apply_deposit([s EXCEPT !.eth1_deposit_index = @ + 1], d)

\* The deposits of the contract that a block must carry: as many as are left
\* before the first one that came as a request, up to MAX_DEPOSITS.
DepositsDue ==
    LET limit == Smaller(state.deposit_count, state.start_index)
    IN  IF state.eth1_deposit_index < limit
        THEN Smaller(MAX_DEPOSITS, limit - state.eth1_deposit_index) ELSE 0
ProcessDeposits ==
    LET due == SubSeq(BridgeDeposits, state.eth1_deposit_index + 1, state.eth1_deposit_index + DepositsDue)
        t == FoldLeft(process_deposit, state, due)
    IN  /\ phase \in {1, 2}
        /\ state' = t /\ phase' = 3
        /\ ledger' = ledger + Queued(t.deposits) - Queued(state.deposits)
        /\ penalised' = [i \in Indices(t) |-> IF i \in DOMAIN penalised THEN penalised[i] ELSE 0]
        /\ UNCHANGED <<proposer, events, overdrawn, churned>>

OldEnough(v) == get_current_epoch(state) >= v.activation + SHARD_COMMITTEE_PERIOD
Staying(v) == active_validator(v, get_current_epoch(state)) /\ v.exit = FAR_FUTURE_EPOCH

VoluntaryExit(i) ==
    LET t == initiate_validator_exit(state, i)
    IN  /\ InPhase(3, 4)
        /\ Staying(state.validators[i]) /\ OldEnough(state.validators[i])
        /\ get_pending_balance_to_withdraw(state, i) = 0
        /\ Done(t, 4)
        /\ churned' = WithExits(state, t)
        /\ UNCHANGED <<proposer, ledger>>

BlsToExecutionChange(i) ==
    /\ InPhase(3, 5)
    /\ state.validators[i].credentials = "bls"
    /\ Done([state EXCEPT !.validators[i].credentials = "eth1"], 5)
    /\ UNCHANGED <<proposer, ledger, churned>>

\* Requests carry the contract's index, which counts the earlier deposits.
DepositRequest(d) ==
    /\ InPhase(3, 6)
    /\ Done([state EXCEPT
                !.start_index = IF @ = UNSET_START_INDEX THEN Len(BridgeDeposits) ELSE @,
                !.deposits = Append(@, PendingDeposit(d, state.slot))], 6)
    /\ ledger' = ledger + d.amount
    /\ UNCHANGED <<proposer, churned>>

\* A partial withdrawal enters the exit churn and the queue.
QueuePartial(s, i, amount) ==
    LET pending == get_pending_balance_to_withdraw(s, i)
        excess == s.balances[i] - MIN_ACTIVATION_BALANCE - pending
        to_withdraw == Smaller(excess, amount)
        t == compute_exit_epoch_and_update_churn(s, to_withdraw)
    IN  IF /\ s.validators[i].credentials = "compounding"
           /\ s.validators[i].effective >= MIN_ACTIVATION_BALANCE /\ excess > 0
        THEN [t EXCEPT !.partials = Append(@, [index |-> i, amount |-> to_withdraw,
                 withdrawable |-> t.exits.epoch + MIN_VALIDATOR_WITHDRAWABILITY_DELAY])]
        ELSE s
\* owner: the request comes from the validator's own withdrawal address.
process_withdrawal_request(s, i, amount, owner) ==
    LET v == s.validators[i]
    IN  IF \/ amount # 0 /\ Len(s.partials) = PENDING_PARTIAL_WITHDRAWALS_LIMIT
           \/ ~(has_execution_withdrawal_credential(v) /\ owner)
           \/ ~Staying(v) \/ ~OldEnough(v)
        THEN s
        ELSE IF amount # 0 THEN QueuePartial(s, i, amount)
        ELSE IF get_pending_balance_to_withdraw(s, i) = 0 THEN initiate_validator_exit(s, i)
        ELSE s
WithdrawalRequest(i, amount, owner) ==
    LET t == process_withdrawal_request(state, i, amount, owner)
        queued == Queued(t.partials) - Queued(state.partials)
    IN  /\ InPhase(3, 7)
        /\ Done(t, 7)
        /\ churned' = IF queued = 0 THEN WithExits(state, t) ELSE Gains(churned, t.exits.epoch, queued)
        /\ UNCHANGED <<proposer, ledger>>

valid_switch_to_compounding_request(s, i, j, owner) ==
    i = j /\ owner /\ s.validators[i].credentials = "eth1" /\ Staying(s.validators[i])
verify_consolidation_request(s, i, j) ==
    /\ i # j
    /\ Len(s.consolidations) < PENDING_CONSOLIDATIONS_LIMIT
    /\ get_consolidation_churn_limit(s) > MIN_ACTIVATION_BALANCE
verify_consolidation_validators(s, i, j, owner) ==
    /\ has_execution_withdrawal_credential(s.validators[i]) /\ owner
    /\ s.validators[j].credentials = "compounding"
    /\ Staying(s.validators[i]) /\ Staying(s.validators[j])
    /\ OldEnough(s.validators[i])
    /\ get_pending_balance_to_withdraw(s, i) = 0
process_consolidation_request(s, i, j, owner) ==
    LET t == compute_consolidation_epoch_and_update_churn(s, s.validators[i].effective)
    IN  IF valid_switch_to_compounding_request(s, i, j, owner) THEN switch_to_compounding_validator(s, i)
        ELSE IF verify_consolidation_request(s, i, j) /\ verify_consolidation_validators(s, i, j, owner)
        THEN [t EXCEPT !.validators[i] =
                           [@ EXCEPT !.exit = t.consolidating.epoch,
                                     !.withdrawable = t.consolidating.epoch + MIN_VALIDATOR_WITHDRAWABILITY_DELAY],
                       !.consolidations = Append(@, [source |-> i, target |-> j])]
        ELSE s
ConsolidationRequest(i, j, owner) ==
    /\ InPhase(3, 8)
    /\ Done(process_consolidation_request(state, i, j, owner), 8)
    /\ UNCHANGED <<proposer, ledger, churned>>

Next ==
    \/ NextSlot
    \/ StartBlock
    \/ \E i \in Indices(state) :
        \/ ProposerSlashing(i) \/ VoluntaryExit(i) \/ BlsToExecutionChange(i)
        \/ \E owner \in BOOLEAN :
            \/ \E amount \in Amounts : WithdrawalRequest(i, amount, owner)
            \/ \E j \in Indices(state) : ConsolidationRequest(i, j, owner)
    \/ \E S \in SUBSET Indices(state) : AttesterSlashing(S)
    \/ ProcessDeposits
    \/ \E d \in Deposits : DepositRequest(d)

Spec == Init /\ [][Next]_vars
-----------------------------------------------------------------------------
(* Properties.                                                              *)

\* The state keeps its types: one balance per validator, queues that name
\* validators, and a proposer that is one.
TypeOK ==
    /\ StateOK(state) /\ ~state.failed
    /\ phase \in 0..8 /\ proposer \in {0} \cup Indices(state) /\ events \in Nat
    /\ DOMAIN penalised = Indices(state)

\* A validator's epochs come in the order of its life: it activates once it is
\* eligible, exits after it activated, and its balance is free no earlier than
\* the delay after the exit; who is slashed is leaving (initiate_validator_exit,
\* add_slashing, process_consolidation_request, process_registry_updates).
LifeInOrder == \A i \in Indices(state) : InOrder(state.validators[i])

\* Pending partial withdrawals stay ordered by the epoch they become payable
\* in, which the loop over them relies on (process_partial_withdrawal).
PartialsOrdered ==
    \A j, k \in DOMAIN state.partials :
        j < k => state.partials[j].withdrawable <= state.partials[k].withdrawable

\* The source of a queued consolidation is consolidated before its balance is
\* free: no sweep can pay out what the target is to get
\* (process_pending_consolidations against get_expected_withdrawals).
ConsolidatedBeforeSwept ==
    \A c \in ToSet(state.consolidations) :
        LET v == state.validators[c.source]
        IN  ~v.slashed => v.withdrawable > get_current_epoch(state)

\* A slashed validator gets the penalty for the slashings around its own
\* exactly once, half a slashings vector before its balance is free, whatever
\* moved its withdrawable epoch before (process_slashings, add_slashing).
PenalisedOnce ==
    \A i \in Indices(state) :
        LET v == state.validators[i]
            due == v.slashed /\ v.withdrawable - (EPOCHS_PER_SLASHINGS_VECTOR \div 2) < get_current_epoch(state)
        IN  penalised[i] = IF due THEN 1 ELSE 0

\* Balances and queued deposits together are what came in less what went out:
\* postponed and partly processed deposits, consolidations, switches to
\* compounding and sweeps neither lose nor double a balance.  It is not claimed
\* once a payload overdrew a balance, which decrease_balances hides.
Accounted == ~overdrawn => Total(state.balances) + Queued(state.deposits) = ledger

\* The largest balance that one exit or one partial withdrawal can move, and
\* what the exit queue put into the epochs from a to b.
LargestExit == Max({MAX_EFFECTIVE_BALANCE_ELECTRA} \cup Amounts)
Stretch(c, a, b) == SumOf([e \in {e \in DOMAIN c : a <= e /\ e <= b} |-> c[e]])

\* However exits, ejections, slashings and partial withdrawals interleave, the
\* exit queue puts no more balance into a stretch of epochs than their churn,
\* up to the part of one exit that began before it
\* (compute_exit_epoch_and_update_churn).
ChurnRespected ==
    \A a \in DOMAIN churned, b \in DOMAIN churned :
        a <= b => Stretch(churned, a, b) <= MAX_PER_EPOCH_ACTIVATION_EXIT_CHURN_LIMIT * (b - a + 1) + LargestExit - 1

\* What is decided of a validator stays decided: activation and exit epochs do
\* not move, the balance is never freed earlier, a slashing is not undone.
EpochsFinal ==
    [][\A i \in Indices(state) :
        LET v == state.validators[i]
            w == state'.validators[i]
        IN  /\ v.activation # FAR_FUTURE_EPOCH => w.activation = v.activation
            /\ v.exit # FAR_FUTURE_EPOCH => w.exit = v.exit /\ w.withdrawable >= v.withdrawable
            /\ v.slashed => w.slashed /\ w.withdrawable = v.withdrawable]_vars

\* Nothing a block does changes who is active in its own epoch or with how much
\* balance: the active indices and the total balance may be cached for the
\* epoch (Cache.lazily_compute in accessors.ex).
ActiveSetStable ==
    [][get_current_epoch(state') = get_current_epoch(state) =>
        LET epoch == get_current_epoch(state)
        IN  /\ active_validator_indices(state', epoch) = active_validator_indices(state, epoch)
            /\ get_total_active_balance(state') = get_total_active_balance(state)]_vars

\* The electra specification, which the code follows, credits a deposit to a
\* validator whose balance is free at the first epoch boundary after that
\* epoch; the code compares with the epoch that ends.
WithdrawnCredited ==
    \A d \in ToSet(state.deposits) :
        LET i == find_validator(state, d.key)
            boundary == phase = 0 /\ state.slot % SLOTS_PER_EPOCH = 0
        IN  (boundary /\ Len(state.deposits) = 1 /\ i # 0 /\ d.slot = 0)
                => ~(state.validators[i].withdrawable < get_current_epoch(state))
=============================================================================

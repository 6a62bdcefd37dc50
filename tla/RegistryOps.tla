---------------------------- MODULE RegistryOps ----------------------------
(* The validator registry and the balances of a beacon state, and the        *)
(* functions of the state transition that change them: exits, slashings,     *)
(* deposits, withdrawals, consolidations and the epoch's bookkeeping.        *)
(* Every operator takes a state record and returns the new one; a step of    *)
(* the code that answers {:error, _} sets the field failed, and no action    *)
(* commits such a state.  Validators are numbered from 1.                    *)
EXTENDS Integers, Sequences, FiniteSets, SequencesExt

CONSTANTS
    SLOTS_PER_EPOCH, MAX_SEED_LOOKAHEAD, FAR_FUTURE_EPOCH,
    MIN_VALIDATOR_WITHDRAWABILITY_DELAY, SHARD_COMMITTEE_PERIOD,
    EFFECTIVE_BALANCE_INCREMENT, HYSTERESIS_QUOTIENT,
    HYSTERESIS_DOWNWARD_MULTIPLIER, HYSTERESIS_UPWARD_MULTIPLIER,
    MIN_ACTIVATION_BALANCE, MAX_EFFECTIVE_BALANCE_ELECTRA, EJECTION_BALANCE,
    MIN_PER_EPOCH_CHURN_LIMIT_ELECTRA, CHURN_LIMIT_QUOTIENT,
    MAX_PER_EPOCH_ACTIVATION_EXIT_CHURN_LIMIT,
    EPOCHS_PER_SLASHINGS_VECTOR, PROPORTIONAL_SLASHING_MULTIPLIER,
    MIN_SLASHING_PENALTY_QUOTIENT, WHISTLEBLOWER_REWARD_QUOTIENT,
    MAX_WITHDRAWALS_PER_PAYLOAD, MAX_VALIDATORS_PER_WITHDRAWALS_SWEEP,
    MAX_PENDING_PARTIALS_PER_WITHDRAWALS_SWEEP, MAX_PENDING_DEPOSITS_PER_EPOCH,
    PENDING_PARTIAL_WITHDRAWALS_LIMIT, PENDING_CONSOLIDATIONS_LIMIT,
    MAX_DEPOSITS, UNSET_START_INDEX

\* What the arithmetic of the churn and of the slashings vector relies on.
ASSUME ChainSpecAssumption ==
    /\ {SLOTS_PER_EPOCH, HYSTERESIS_QUOTIENT, EPOCHS_PER_SLASHINGS_VECTOR, EFFECTIVE_BALANCE_INCREMENT,
        CHURN_LIMIT_QUOTIENT, MAX_PER_EPOCH_ACTIVATION_EXIT_CHURN_LIMIT,
        MIN_SLASHING_PENALTY_QUOTIENT, WHISTLEBLOWER_REWARD_QUOTIENT,
        MAX_WITHDRAWALS_PER_PAYLOAD, MAX_EFFECTIVE_BALANCE_ELECTRA} \subseteq Nat \ {0}
    /\ {MAX_SEED_LOOKAHEAD, FAR_FUTURE_EPOCH, MIN_VALIDATOR_WITHDRAWABILITY_DELAY, SHARD_COMMITTEE_PERIOD,
        HYSTERESIS_DOWNWARD_MULTIPLIER, HYSTERESIS_UPWARD_MULTIPLIER, MIN_ACTIVATION_BALANCE,
        EJECTION_BALANCE, MIN_PER_EPOCH_CHURN_LIMIT_ELECTRA,
        PROPORTIONAL_SLASHING_MULTIPLIER, MAX_VALIDATORS_PER_WITHDRAWALS_SWEEP,
        MAX_PENDING_PARTIALS_PER_WITHDRAWALS_SWEEP, MAX_PENDING_DEPOSITS_PER_EPOCH, PENDING_PARTIAL_WITHDRAWALS_LIMIT,
        PENDING_CONSOLIDATIONS_LIMIT, MAX_DEPOSITS, UNSET_START_INDEX} \subseteq Nat
    /\ MIN_PER_EPOCH_CHURN_LIMIT_ELECTRA >= EFFECTIVE_BALANCE_INCREMENT
    /\ MIN_ACTIVATION_BALANCE <= MAX_EFFECTIVE_BALANCE_ELECTRA

Smaller(x, y) == Min({x, y})
Larger(x, y) == Max({x, y})
Drop(s, n) == SubSeq(s, n + 1, Len(s))
\* f as a sequence; TLC then evaluates its elements here and not where they are used.
AsSeq(f) == SubSeq(f, 1, Len(f))
SumOf(f) == MapThenSumSet(LAMBDA x : f[x], DOMAIN f)
Indices(s) == DOMAIN s.validators
-----------------------------------------------------------------------------
(* Predicates and accessors.                                                *)

compute_epoch_at_slot(slot) == slot \div SLOTS_PER_EPOCH
compute_start_slot_at_epoch(epoch) == epoch * SLOTS_PER_EPOCH
\* Mutated: operations take effect at once.
compute_activation_exit_epoch_now(epoch) == epoch
compute_activation_exit_epoch(epoch) == epoch + 1 + MAX_SEED_LOOKAHEAD
get_current_epoch(s) == compute_epoch_at_slot(s.slot)

active_validator(v, epoch) == v.activation <= epoch /\ epoch < v.exit
eligible_validator(v, previous) ==
    active_validator(v, previous) \/ (v.slashed /\ previous + 1 < v.withdrawable)
eligible_for_activation_queue(v) ==
    v.eligibility = FAR_FUTURE_EPOCH /\ v.effective >= MIN_ACTIVATION_BALANCE
eligible_for_activation(s, v) ==
    v.eligibility <= s.finalized /\ v.activation = FAR_FUTURE_EPOCH
slashable_validator(v, epoch) ==
    ~v.slashed /\ v.activation <= epoch /\ epoch < v.withdrawable

has_execution_withdrawal_credential(v) == v.credentials \in {"eth1", "compounding"}
get_max_effective_balance(v) ==
    IF v.credentials = "compounding" THEN MAX_EFFECTIVE_BALANCE_ELECTRA ELSE MIN_ACTIVATION_BALANCE
fully_withdrawable_validator(v, balance, epoch) ==
    has_execution_withdrawal_credential(v) /\ v.withdrawable <= epoch /\ balance > 0
partially_withdrawable_validator(v, balance) ==
    /\ has_execution_withdrawal_credential(v)
    /\ v.effective = get_max_effective_balance(v)
    /\ balance > get_max_effective_balance(v)

\* 0 when no validator has the key.
find_validator(s, key) == SelectInSeq(s.validators, LAMBDA v : v.key = key)

active_validator_indices(s, epoch) == {i \in Indices(s) : active_validator(s.validators[i], epoch)}
get_total_active_balance(s) ==
    Larger(EFFECTIVE_BALANCE_INCREMENT,
           SumOf([i \in active_validator_indices(s, get_current_epoch(s)) |-> s.validators[i].effective]))
get_balance_churn_limit(s) ==
    LET churn == Larger(MIN_PER_EPOCH_CHURN_LIMIT_ELECTRA,
                        get_total_active_balance(s) \div CHURN_LIMIT_QUOTIENT)
    IN  churn - (churn % EFFECTIVE_BALANCE_INCREMENT)
get_activation_exit_churn_limit(s) ==
    Smaller(MAX_PER_EPOCH_ACTIVATION_EXIT_CHURN_LIMIT, get_balance_churn_limit(s))
get_consolidation_churn_limit(s) ==
    get_balance_churn_limit(s) - get_activation_exit_churn_limit(s)
AmountFor(withdrawals, i) ==
    SumOf([k \in {k \in DOMAIN withdrawals : withdrawals[k].index = i} |-> withdrawals[k].amount])
get_pending_balance_to_withdraw(s, i) ==
    AmountFor(s.partials, i)
-----------------------------------------------------------------------------
(* Balances, the registry's growth, and the two churn queues.               *)

increase_balance(s, i, delta) == [s EXCEPT !.balances[i] = @ + delta]
decrease_balance(s, i, delta) == [s EXCEPT !.balances[i] = Larger(@ - delta, 0)]
Failed(s) == [s EXCEPT !.failed = TRUE]

EffectiveOf(amount, v) ==
    Smaller(amount - (amount % EFFECTIVE_BALANCE_INCREMENT), get_max_effective_balance(v))

get_validator_from_deposit(key, credentials, amount) ==
    LET v == [key |-> key, credentials |-> credentials, effective |-> 0, slashed |-> FALSE,
              eligibility |-> FAR_FUTURE_EPOCH, activation |-> FAR_FUTURE_EPOCH,
              exit |-> FAR_FUTURE_EPOCH, withdrawable |-> FAR_FUTURE_EPOCH]
    IN  [v EXCEPT !.effective = EffectiveOf(amount, v)]

add_validator_to_registry(s, key, credentials, amount) ==
    [s EXCEPT !.validators = Append(@, get_validator_from_deposit(key, credentials, amount)),
              !.balances = Append(@, amount)]

\* Room for a balance in a queue that stands at epoch earliest with left to
\* give: as many further epochs as it takes.
PlaceInQueue(earliest, left, balance, per_epoch_churn) ==
    LET additional == IF balance > left THEN ((balance - left - 1) \div per_epoch_churn) + 1 ELSE 0
    IN  [epoch |-> earliest + additional, left |-> left + additional * per_epoch_churn - balance]
\* Mutated: what is consumed is not taken off; the queue's own epoch is not
\* looked at.
NextInQueueUnconsumed(queue, balance, now, per_epoch_churn) ==
    LET earliest == Larger(queue.epoch, compute_activation_exit_epoch(now))
        left == IF queue.epoch < earliest THEN per_epoch_churn ELSE queue.left
    IN  [PlaceInQueue(earliest, left, balance, per_epoch_churn) EXCEPT !.left = @ + balance]
NextInQueueFromNow(queue, balance, now, per_epoch_churn) ==
    PlaceInQueue(compute_activation_exit_epoch(now), per_epoch_churn, balance, per_epoch_churn)
\* One step of a churn queue [epoch, left]: the first epoch, not before the one
\* an operation of now may take effect in, with room for the balance.
NextInQueue(queue, balance, now, per_epoch_churn) ==
    LET earliest == Larger(queue.epoch, compute_activation_exit_epoch(now))
        left == IF queue.epoch < earliest THEN per_epoch_churn ELSE queue.left
    IN  PlaceInQueue(earliest, left, balance, per_epoch_churn)

compute_exit_epoch_and_update_churn(s, balance) ==
    [s EXCEPT !.exits = NextInQueue(@, balance, get_current_epoch(s), get_activation_exit_churn_limit(s))]
compute_consolidation_epoch_and_update_churn(s, balance) ==
    [s EXCEPT !.consolidating = NextInQueue(@, balance, get_current_epoch(s), get_consolidation_churn_limit(s))]

\* Mutated: a validator that is leaving leaves once more.
initiate_validator_exit_again(s, i) ==
    LET t == compute_exit_epoch_and_update_churn(s, s.validators[i].effective)
    IN  [t EXCEPT !.validators[i] =
                  [@ EXCEPT !.exit = t.exits.epoch,
                            !.withdrawable = t.exits.epoch + MIN_VALIDATOR_WITHDRAWABILITY_DELAY]]
initiate_validator_exit(s, i) ==
    LET t == compute_exit_epoch_and_update_churn(s, s.validators[i].effective)
    IN  IF s.validators[i].exit # FAR_FUTURE_EPOCH THEN s
        ELSE IF t.exits.epoch + MIN_VALIDATOR_WITHDRAWABILITY_DELAY > FAR_FUTURE_EPOCH + 1 THEN Failed(s)
        ELSE [t EXCEPT !.validators[i] =
                       [@ EXCEPT !.exit = t.exits.epoch,
                                 !.withdrawable = t.exits.epoch + MIN_VALIDATOR_WITHDRAWABILITY_DELAY]]

\* Mutated: the later of the two epochs is not looked for.
add_slashing_overwrites(s, i) ==
    LET epoch == get_current_epoch(s)
        v == s.validators[i]
    IN  [s EXCEPT !.slashings[epoch % EPOCHS_PER_SLASHINGS_VECTOR] = @ + v.effective,
                  !.validators[i] = [v EXCEPT !.slashed = TRUE, !.withdrawable = epoch + EPOCHS_PER_SLASHINGS_VECTOR]]
add_slashing(s, i) ==
    LET epoch == get_current_epoch(s)
        v == s.validators[i]
    IN  [s EXCEPT !.slashings[epoch % EPOCHS_PER_SLASHINGS_VECTOR] = @ + v.effective,
                  !.validators[i] = [v EXCEPT !.slashed = TRUE, !.withdrawable = Larger(@, epoch + EPOCHS_PER_SLASHINGS_VECTOR)]]

\* Every caller leaves the whistleblower out, so the proposer takes its share.
slash_validator(s, i, proposer) ==
    LET t == add_slashing(initiate_validator_exit(s, i), i)
        effective == s.validators[i].effective
    IN  IF initiate_validator_exit(s, i).failed THEN Failed(s)
        ELSE increase_balance(decrease_balance(t, i, effective \div MIN_SLASHING_PENALTY_QUOTIENT),
                              proposer, effective \div WHISTLEBLOWER_REWARD_QUOTIENT)

queue_excess_active_balance(s, i) ==
    IF s.balances[i] <= MIN_ACTIVATION_BALANCE THEN s
    ELSE [s EXCEPT !.balances[i] = MIN_ACTIVATION_BALANCE,
                   !.deposits = Append(@, [key |-> s.validators[i].key,
                                           credentials |-> s.validators[i].credentials,
                                           amount |-> s.balances[i] - MIN_ACTIVATION_BALANCE,
                                           slot |-> 0, signed |-> FALSE])]
switch_to_compounding_validator(s, i) ==
    queue_excess_active_balance([s EXCEPT !.validators[i].credentials = "compounding"], i)
=============================================================================

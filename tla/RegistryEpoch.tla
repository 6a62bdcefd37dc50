--------------------------- MODULE RegistryEpoch ---------------------------
(* The part of process_epoch that the registry and the balances go through,  *)
(* in the code's order, on the state of the epoch's last slot.  Which epoch  *)
(* is finalized and what attesting earned are parameters: justification and  *)
(* the reward formulas are not part of this module.                          *)
EXTENDS RegistryOps

\* Rewards and penalties of the previous epoch's attesters, none at the end of
\* the genesis epoch, nor of a validator that deltas does not name; a balance
\* never goes below zero.
process_rewards_and_penalties(s, deltas) ==
    LET epoch == get_current_epoch(s)
        Rewarded(i) == epoch > 0 /\ i \in DOMAIN deltas /\ eligible_validator(s.validators[i], epoch - 1)
    IN  [s EXCEPT !.balances = AsSeq([i \in DOMAIN @ |-> IF Rewarded(i) THEN Larger(@[i] + deltas[i], 0) ELSE @[i]])]

\* One validator of the registry pass, read as it was when the pass began.
handle_validator_registry_update(s, v, i, epoch) ==
    IF eligible_for_activation_queue(v) THEN [s EXCEPT !.validators[i].eligibility = epoch + 1]
    ELSE IF active_validator(v, epoch) /\ v.effective <= EJECTION_BALANCE THEN initiate_validator_exit(s, i)
    ELSE IF eligible_for_activation(s, v)
         THEN [s EXCEPT !.validators[i].activation = compute_activation_exit_epoch(epoch)]
    ELSE s
process_registry_updates(s) ==
    FoldLeftDomain(LAMBDA t, i : IF t.failed THEN t
                                 ELSE handle_validator_registry_update(t, s.validators[i], i, get_current_epoch(s)),
                   s, s.validators)

\* Mutated: the penalty is due from its epoch on.
PenaltyDueSince(s) ==
    {i \in Indices(s) :
        /\ s.validators[i].slashed
        /\ get_current_epoch(s) + (EPOCHS_PER_SLASHINGS_VECTOR \div 2) >= s.validators[i].withdrawable}
\* The validators half a slashings vector before their withdrawable epoch.
PenaltyDue(s) ==
    {i \in Indices(s) :
        /\ s.validators[i].slashed
        /\ get_current_epoch(s) + (EPOCHS_PER_SLASHINGS_VECTOR \div 2) = s.validators[i].withdrawable}
process_slashings(s) ==
    LET total == get_total_active_balance(s)
        adjusted == Smaller(SumOf(s.slashings) * PROPORTIONAL_SLASHING_MULTIPLIER, total)
        per_increment == adjusted \div (total \div EFFECTIVE_BALANCE_INCREMENT)
        Penalty(i) == per_increment * (s.validators[i].effective \div EFFECTIVE_BALANCE_INCREMENT)
    IN  [s EXCEPT !.balances = AsSeq([i \in DOMAIN @ |->
                                  IF i \in PenaltyDue(s) THEN Larger(@[i] - Penalty(i), 0) ELSE @[i]])]

\* Mutated: a top-up takes the place of the balance.
apply_pending_deposit_over(s, d) ==
    LET i == find_validator(s, d.key)
    IN  IF i # 0 THEN [s EXCEPT !.balances[i] = d.amount]
        ELSE IF d.signed THEN add_validator_to_registry(s, d.key, d.credentials, d.amount)
        ELSE s
apply_pending_deposit(s, d) ==
    LET i == find_validator(s, d.key)
    IN  IF i # 0 THEN increase_balance(s, i, d.amount)
        ELSE IF d.signed THEN add_validator_to_registry(s, d.key, d.credentials, d.amount)
        ELSE s

\* The loop over the queue: a deposit is applied, postponed, or ends the loop.
\* last is the number of deposits taken off the queue.
handle_pending_deposit(acc, d, available) ==
    LET s == acc.state
        i == find_validator(s, d.key)
        exited == i # 0 /\ s.validators[i].exit < FAR_FUTURE_EPOCH
        withdrawn == i # 0 /\ s.validators[i].withdrawable < get_current_epoch(s)
        fits == acc.processed + d.amount <= available
        taken == [acc EXCEPT !.last = @ + 1]
    IN  IF withdrawn THEN [taken EXCEPT !.state = apply_pending_deposit(s, d)]
        ELSE IF exited THEN [taken EXCEPT !.postponed = Append(@, d)]
        ELSE IF ~fits THEN [acc EXCEPT !.halted = TRUE, !.churn_limit_reached = TRUE]
        ELSE [taken EXCEPT !.state = apply_pending_deposit(s, d),
                           !.processed = @ + d.amount, !.churn_limit_reached = FALSE]
DepositMustWait(s, d, taken) ==
    \/ d.slot > 0 /\ s.eth1_deposit_index < s.start_index
    \/ d.slot > compute_start_slot_at_epoch(s.finalized)
    \/ taken >= MAX_PENDING_DEPOSITS_PER_EPOCH
available_for_processing(s) == s.deposit_balance_to_consume + get_activation_exit_churn_limit(s)
PendingDepositsLoop(s) ==
    FoldLeft(LAMBDA a, d :
                 IF a.halted THEN a
                 ELSE IF DepositMustWait(a.state, d, a.last) THEN [a EXCEPT !.halted = TRUE]
                 ELSE handle_pending_deposit(a, d, available_for_processing(s)),
             [state |-> s, churn_limit_reached |-> FALSE, processed |-> 0,
              postponed |-> << >>, last |-> 0, halted |-> FALSE],
             s.deposits)
process_pending_deposits(s) ==
    LET acc == PendingDepositsLoop(s)
    IN  [acc.state EXCEPT
            !.deposits = Drop(@, acc.last) \o acc.postponed,
            !.deposit_balance_to_consume =
                IF acc.churn_limit_reached THEN available_for_processing(s) - acc.processed ELSE 0]

\* Consolidations whose source has become withdrawable move its balance; the
\* first one that has not ends the pass, a slashed source is passed over.
process_pending_consolidations_by(s, epoch) ==
    LET Move(t, c) ==
            LET moved == Smaller(t.balances[c.source], t.validators[c.source].effective)
            IN  increase_balance(decrease_balance(t, c.source, moved), c.target, moved)
        acc == FoldLeft(LAMBDA a, c :
                   IF a.halted THEN a
                   ELSE IF s.validators[c.source].slashed THEN [a EXCEPT !.done = @ + 1]
                   ELSE IF s.validators[c.source].withdrawable > epoch THEN [a EXCEPT !.halted = TRUE]
                   ELSE [a EXCEPT !.done = @ + 1, !.state = Move(@, c)],
                   [state |-> s, done |-> 0, halted |-> FALSE], s.consolidations)
    IN  [acc.state EXCEPT !.consolidations = Drop(@, acc.done)]
\* Mutated: the epoch that ends is looked at, not the one that starts.
process_pending_consolidations_late(s) == process_pending_consolidations_by(s, get_current_epoch(s))
process_pending_consolidations(s) == process_pending_consolidations_by(s, get_current_epoch(s) + 1)

process_effective_balance_updates(s) ==
    LET step == EFFECTIVE_BALANCE_INCREMENT \div HYSTERESIS_QUOTIENT
        Stale(v, balance) == \/ balance + step * HYSTERESIS_DOWNWARD_MULTIPLIER < v.effective
                             \/ v.effective + step * HYSTERESIS_UPWARD_MULTIPLIER < balance
        Updated(v, balance) == IF Stale(v, balance) THEN [v EXCEPT !.effective = EffectiveOf(balance, v)] ELSE v
    IN  [s EXCEPT !.validators = AsSeq([i \in DOMAIN @ |-> Updated(@[i], s.balances[i])])]

process_slashings_reset(s) ==
    [s EXCEPT !.slashings[(get_current_epoch(s) + 1) % EPOCHS_PER_SLASHINGS_VECTOR] = 0]
=============================================================================

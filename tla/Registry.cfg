SPECIFICATION Spec
CONSTANTS
    SLOTS_PER_EPOCH = 2
    MAX_SEED_LOOKAHEAD = 0
    FAR_FUTURE_EPOCH = 1000
    MIN_VALIDATOR_WITHDRAWABILITY_DELAY = 1
    SHARD_COMMITTEE_PERIOD = 1
    EFFECTIVE_BALANCE_INCREMENT = 4
    HYSTERESIS_QUOTIENT = 4
    HYSTERESIS_DOWNWARD_MULTIPLIER = 1
    HYSTERESIS_UPWARD_MULTIPLIER = 5
    MIN_ACTIVATION_BALANCE = 8
    MAX_EFFECTIVE_BALANCE_ELECTRA = 16
    EJECTION_BALANCE = 4
    MIN_PER_EPOCH_CHURN_LIMIT_ELECTRA = 20
    CHURN_LIMIT_QUOTIENT = 1000
    MAX_PER_EPOCH_ACTIVATION_EXIT_CHURN_LIMIT = 8
    EPOCHS_PER_SLASHINGS_VECTOR = 4
    PROPORTIONAL_SLASHING_MULTIPLIER = 2
    MIN_SLASHING_PENALTY_QUOTIENT = 4
    WHISTLEBLOWER_REWARD_QUOTIENT = 8
    MAX_WITHDRAWALS_PER_PAYLOAD = 2
    MAX_VALIDATORS_PER_WITHDRAWALS_SWEEP = 2
    MAX_PENDING_PARTIALS_PER_WITHDRAWALS_SWEEP = 1
    MAX_PENDING_DEPOSITS_PER_EPOCH = 2
    PENDING_PARTIAL_WITHDRAWALS_LIMIT = 2
    PENDING_CONSOLIDATIONS_LIMIT = 2
    MAX_DEPOSITS = 1
    UNSET_START_INDEX = 1000
    Anchors <- FreshAndBusy
    BridgeDeposits <- Bridge
    Deposits <- Requested
    Amounts = {0, 2}
    RewardOutcomes <- BadEpochs
    MaxSlot = 10
    MaxEvents = 2
INVARIANTS LifeInOrder PartialsOrdered ConsolidatedBeforeSwept PenalisedOnce Accounted ChurnRespected
PROPERTIES EpochsFinal ActiveSetStable
CHECK_DEADLOCK FALSE

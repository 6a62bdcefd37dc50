SPECIFICATION Spec
CONSTANTS
    a = a
    b = b
    c = c
    d = d
    e = e
    f = f
    h = h
    n = n
    zero = zero
    v1 = v1
    v2 = v2
    v3 = v3
    v4 = v4
    Root <- TreeRoot
    Anchor = a
    ParentOf <- TreeParent
    SlotOf <- TreeSlot
    SlotsPerEpoch = 4
    ZeroRoot = zero
    RootRank <- TreeRank
    JustifiedIn <- RealizedJust
    FinalizedIn <- RealizedFin
    UJust <- TreeJust
    UFin <- TreeFin
    Validator <- Validators
    Balance <- Balances
    Slashed = {v4}
    AttestationsOf <- TreeAttestations
    SlashedBy <- TreeSlashings
    WireAttestations = {}
    WireSlashings = {}
    SecondsPerSlot = 3
    IntervalsPerSlot = 3
    ProposerScoreBoost = 40
    GenesisTime = 103
    Disparity = FALSE
    TickTimes <- Ticks
    Downloads = TRUE
CHECK_DEADLOCK FALSE
INVARIANTS NeverRaises

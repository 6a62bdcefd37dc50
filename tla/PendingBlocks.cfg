SPECIFICATION FairSpec
CONSTANTS
    a = a
    b = b
    c = c
    d = d
    e = e
    Root <- TreeRoot
    Anchor = a
    ParentOf <- TreeParent
    SlotOf <- TreeSlot
    BlobsOf <- TreeTwoBlobsOnB
    Valid <- TreeAllButC
    SlotsPerEpoch = 32
    MaxRetries = 1
    MaxSlot = 3
    MaxRestarts = 2
    Environments <- Environment
INVARIANTS TypeOK OnlyVerifiedBlocks AcceptedInTree ReadyProcessed InvalidForAReason IndexAgrees DownloadsRequested
PROPERTIES VerdictsFinal PendingSettles

SPECIFICATION Spec
CONSTANTS
    a = a
    b = b
    c = c
    d = d
    e = e
    Root <- TreeRoot
    Anchor = a
    ParentOf <- TreeParent
    SlotOf <- TreeSlot
    BlobsOf <- TreeTwoBlobsOnB
    Valid <- TreeRoot
    SlotsPerEpoch = 32
    MaxRetries = 0
    MaxSlot = 3
    MaxRestarts = 0
    Environments = {{"late_blobs"}}
INVARIANT TransitionedInTree

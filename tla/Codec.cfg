SPECIFICATION Spec
CONSTANTS
  Small = {"IndexedAttestation", "PendingAttestation", "Attestation",
           "AttesterSlashing", "ExecutionPayload", "ExecutionPayloadHeader",
           "SyncAggregate", "SyncCommitteeContribution", "AggregateAndProof",
           "Metadata", "ExecutionRequests"}
  Medium = {"HistoricalBatch", "BeaconBlock", "SignedBeaconBlock", "SyncCommittee",
           "ContributionAndProof", "SignedContributionAndProof", "BeaconState",
           "BeaconBlockBody", "SignedAggregateAndProof", "HistoricalSummary",
           "AttestationData", "Checkpoint", "Eth1Data", "Fork", "ForkData",
           "Validator", "DepositData", "VoluntaryExit", "Deposit",
           "DepositMessage", "BLSToExecutionChange", "SignedBLSToExecutionChange",
           "BeaconBlockHeader", "SignedBeaconBlockHeader", "SignedVoluntaryExit",
           "ProposerSlashing", "Withdrawal", "SigningData", "SyncCommitteeMessage",
           "StatusMessage", "BeaconBlocksByRangeRequest", "Transaction", "Root",
           "Epoch", "BlobIdentifier", "PendingDeposit", "PendingPartialWithdrawal",
           "PendingConsolidation", "DepositRequest", "WithdrawalRequest",
           "ConsolidationRequest", "SingleAttestation"}
  Containers <- NativeContainers
  SchemasEx <- ElixirSchemas
  MaxAltered = 3
  MaxHops = 1
  Objects <- MCObjects
  Term <- MCTerm
  Raw <- MCRaw
  OverLimit <- MCOverLimit
  Altered <- MCAltered
INVARIANTS
  Delivered
  AcceptedIsCanonical
  ResponseTakesGossip
  RootsAgree
  SummariesKeepRoots
PROPERTY RestartKeepsObject
CHECK_DEADLOCK FALSE

------------------------------ MODULE SszConfig ------------------------------
(***************************************************************************)
(* The compile-time presets of the SSZ library: one record of limits and   *)
(* lengths per preset, as the implementations of the trait Config give     *)
(* them (native/ssz_nif/src/ssz_types/config.rs).                          *)
(***************************************************************************)
EXTENDS Naturals, TLC

(* VALIDATOR_REGISTRY_LIMIT is 2^40, beyond the integers of the checker; a *)
(* list never comes near it, so only the depth of its tree changes.        *)
RegistryLimitCap == 2^30

(* The constants every implementation computes from its own ones. *)
Derived(c) ==
  [SyncSubcommitteeSize |-> c.SyncCommitteeSize \div c.SyncCommitteeSubnetCount,
   MaxPendingAttestations |-> c.MaxAttestations * c.SlotsPerEpoch,
   SlotsPerEth1VotingPeriod |-> c.EpochsPerEth1VotingPeriod * c.SlotsPerEpoch,
   BytesPerBlob |-> c.FieldElementsPerBlob * c.BytesPerFieldElement] @@ c

MainnetOwn ==
  [JustificationBitsLength |-> 4, SubnetBitfieldLength |-> 64,
   MaxValidatorsPerCommittee |-> 2048, GenesisEpoch |-> 0, SlotsPerEpoch |-> 32,
   EpochsPerEth1VotingPeriod |-> 64, SlotsPerHistoricalRoot |-> 8192,
   EpochsPerHistoricalVector |-> 65536, EpochsPerSlashingsVector |-> 8192,
   HistoricalRootsLimit |-> 16777216, ValidatorRegistryLimit |-> RegistryLimitCap,
   MaxProposerSlashings |-> 16, MaxAttesterSlashings |-> 2, MaxAttestations |-> 128,
   MaxDeposits |-> 16, MaxVoluntaryExits |-> 16, SyncCommitteeSize |-> 512,
   SyncCommitteeSubnetCount |-> 4, AttestationSubnetCount |-> 64,
   MaxBytesPerTransaction |-> 1073741824, MaxTransactionsPerPayload |-> 1048576,
   BytesPerLogsBloom |-> 256, GasLimitDenominator |-> 1024, MinGasLimit |-> 5000,
   MaxExtraDataBytes |-> 32, MaxBlsToExecutionChanges |-> 16,
   MaxWithdrawalsPerPayload |-> 16, MaxBlobsPerBlock |-> 6,
   MaxBlobCommitmentsPerBlock |-> 4096, FieldElementsPerBlob |-> 4096,
   BytesPerFieldElement |-> 32, KzgCommitmentInclusionProofDepth |-> 17,
   MaxCommitteesPerSlot |-> 64, MaxConsolidationRequestsPerPayload |-> 2,
   MaxDepositRequestsPerPayload |-> 8192, MaxWithdrawalRequestsPerPayload |-> 16,
   PendingDepositsLimit |-> 134217728, PendingPartialWithdrawalsLimit |-> 134217728,
   PendingConsolidationsLimit |-> 262144, MaxAttesterSlashingsElectra |-> 1,
   MaxAttestationsElectra |-> 8, MaxValidatorsPerSlot |-> 131072]

Mainnet == Derived(MainnetOwn)

(* Minimal gives its own values and inherits the others of Mainnet. *)
MinimalOwn ==
  [SlotsPerEpoch |-> 8, EpochsPerEth1VotingPeriod |-> 4, SlotsPerHistoricalRoot |-> 64,
   EpochsPerHistoricalVector |-> 64, EpochsPerSlashingsVector |-> 64,
   SyncCommitteeSize |-> 32, MaxWithdrawalsPerPayload |-> 4,
   FieldElementsPerBlob |-> 4096, MaxBlobCommitmentsPerBlock |-> 32,
   KzgCommitmentInclusionProofDepth |-> 10, MaxCommitteesPerSlot |-> 4,
   MaxDepositRequestsPerPayload |-> 4, MaxWithdrawalRequestsPerPayload |-> 2,
   PendingPartialWithdrawalsLimit |-> 64, PendingConsolidationsLimit |-> 64,
   MaxValidatorsPerSlot |-> 8192]

Minimal == Derived(MinimalOwn @@ MainnetOwn)

GnosisOwn ==
  [JustificationBitsLength |-> 4, SubnetBitfieldLength |-> 64,
   MaxValidatorsPerCommittee |-> 2048, GenesisEpoch |-> 0, SlotsPerEpoch |-> 16,
   EpochsPerEth1VotingPeriod |-> 64, SlotsPerHistoricalRoot |-> 8192,
   EpochsPerHistoricalVector |-> 65536, EpochsPerSlashingsVector |-> 8192,
   HistoricalRootsLimit |-> 16777216, ValidatorRegistryLimit |-> RegistryLimitCap,
   MaxProposerSlashings |-> 16, MaxAttesterSlashings |-> 2, MaxAttestations |-> 128,
   MaxDeposits |-> 16, MaxVoluntaryExits |-> 16, SyncCommitteeSize |-> 512,
   SyncCommitteeSubnetCount |-> 4, AttestationSubnetCount |-> 64,
   MaxBytesPerTransaction |-> 1073741824, MaxTransactionsPerPayload |-> 1048576,
   BytesPerLogsBloom |-> 256, GasLimitDenominator |-> 1024, MinGasLimit |-> 5000,
   MaxExtraDataBytes |-> 32, MaxBlsToExecutionChanges |-> 16,
   MaxWithdrawalsPerPayload |-> 8, MaxBlobsPerBlock |-> 6,
   MaxBlobCommitmentsPerBlock |-> 4096, FieldElementsPerBlob |-> 4096,
   BytesPerFieldElement |-> 32, KzgCommitmentInclusionProofDepth |-> 17,
   MaxCommitteesPerSlot |-> 64, MaxConsolidationRequestsPerPayload |-> 2,
   MaxDepositRequestsPerPayload |-> 8192, MaxWithdrawalRequestsPerPayload |-> 16,
   PendingDepositsLimit |-> 134217728, PendingPartialWithdrawalsLimit |-> 134217728,
   PendingConsolidationsLimit |-> 262144, MaxAttesterSlashingsElectra |-> 1,
   MaxAttestationsElectra |-> 8, MaxValidatorsPerSlot |-> 131072]

Gnosis == Derived(GnosisOwn)
==============================================================================

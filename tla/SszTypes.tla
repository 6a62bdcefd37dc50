------------------------------- MODULE SszTypes -------------------------------
(***************************************************************************)
(* The SSZ side of every container of the native library                   *)
(* (native/ssz_nif/src/ssz_types): the ordered fields with their SSZ types,*)
(* C being the record of a preset (SszConfig).                             *)
(***************************************************************************)
EXTENDS SszWidths

Array(n) == [k |-> "array", len |-> n]                   \* [u8; N]
FixedVector(t, n) == [k |-> "vector", of |-> t, len |-> n]
VariableList(t, n) == [k |-> "list", of |-> t, max |-> n]
BitVector(n) == [k |-> "bitvector", len |-> n]
BitList(n) == [k |-> "bitlist", max |-> n]
Struct(name, fields) == [k |-> "struct", name |-> name, fields |-> fields]

U8 == [k |-> "uint"]
U64 == [k |-> "uint"]
Bool == [k |-> "bool"]
Uint256 == [k |-> "u256", len |-> Len32]

Bytes4 == Array(Len4)
Bytes20 == FixedVector(U8, Len20)
Bytes32 == Array(Len32)
Bytes48 == FixedVector(U8, Len48)
Bytes96 == FixedVector(U8, Len96)
Slot == U64
Epoch == U64
CommitteeIndex == U64
ValidatorIndex == U64
Gwei == U64
WithdrawalIndex == U64
BlobIndex == U64
ParticipationFlags == U8
Root == Bytes32
Hash32 == Bytes32
Domain == Bytes32
Version == Bytes4
ForkDigest == Bytes4
BLSPubkey == Bytes48
BLSSignature == Bytes96
KZGCommitment == Bytes48
KZGProof == Bytes48
ExecutionAddress == Bytes20
Transaction == VariableList(U8, 1073741824)
Blob(C) == FixedVector(U8, C.BytesPerBlob)

Fork == Struct("Fork", << <<"previous_version", Version>>,
                         <<"current_version", Version>>, <<"epoch", Epoch>> >>)

ForkData == Struct("ForkData", << <<"current_version", Version>>,
                                 <<"genesis_validators_root", Root>> >>)

Checkpoint == Struct("Checkpoint", << <<"epoch", Epoch>>, <<"root", Root>> >>)

Validator == Struct("Validator", << <<"pubkey", BLSPubkey>>,
    <<"withdrawal_credentials", Bytes32>>, <<"effective_balance", Gwei>>,
    <<"slashed", Bool>>, <<"activation_eligibility_epoch", Epoch>>,
    <<"activation_epoch", Epoch>>, <<"exit_epoch", Epoch>>,
    <<"withdrawable_epoch", Epoch>> >>)

AttestationData == Struct("AttestationData", << <<"slot", Slot>>,
    <<"index", CommitteeIndex>>, <<"beacon_block_root", Root>>,
    <<"source", Checkpoint>>, <<"target", Checkpoint>> >>)

IndexedAttestation(C) == Struct("IndexedAttestation", <<
    <<"attesting_indices", VariableList(ValidatorIndex, C.MaxValidatorsPerSlot)>>,
    <<"data", AttestationData>>, <<"signature", BLSSignature>> >>)

PendingAttestation(C) == Struct("PendingAttestation", <<
    <<"aggregation_bits", BitList(C.MaxValidatorsPerCommittee)>>,
    <<"data", AttestationData>>, <<"inclusion_delay", Slot>>,
    <<"proposer_index", ValidatorIndex>> >>)

Eth1Data == Struct("Eth1Data", << <<"deposit_root", Root>>, <<"deposit_count", U64>>,
                                 <<"block_hash", Hash32>> >>)

HistoricalBatch(C) == Struct("HistoricalBatch", <<
    <<"block_roots", FixedVector(Root, C.SlotsPerHistoricalRoot)>>,
    <<"state_roots", FixedVector(Root, C.SlotsPerHistoricalRoot)>> >>)

DepositMessage == Struct("DepositMessage", << <<"pubkey", BLSPubkey>>,
    <<"withdrawal_credentials", Bytes32>>, <<"amount", Gwei>> >>)

DepositData == Struct("DepositData", << <<"pubkey", BLSPubkey>>,
    <<"withdrawal_credentials", Bytes32>>, <<"amount", Gwei>>,
    <<"signature", BLSSignature>> >>)

HistoricalSummary == Struct("HistoricalSummary", << <<"block_summary_root", Root>>,
    <<"state_summary_root", Root>> >>)

Deposit == Struct("Deposit", << <<"proof", FixedVector(Bytes32, 33)>>,
                               <<"data", DepositData>> >>)

VoluntaryExit == Struct("VoluntaryExit", << <<"epoch", Epoch>>,
    <<"validator_index", ValidatorIndex>> >>)

Attestation(C) == Struct("Attestation", <<
    <<"aggregation_bits", BitList(C.MaxValidatorsPerSlot)>>,
    <<"data", AttestationData>>, <<"signature", BLSSignature>>,
    <<"committee_bits", BitVector(C.MaxCommitteesPerSlot)>> >>)

AttesterSlashing(C) == Struct("AttesterSlashing", <<
    <<"attestation_1", IndexedAttestation(C)>>,
    <<"attestation_2", IndexedAttestation(C)>> >>)

BLSToExecutionChange == Struct("BLSToExecutionChange", <<
    <<"validator_index", ValidatorIndex>>, <<"from_bls_pubkey", BLSPubkey>>,
    <<"to_execution_address", ExecutionAddress>> >>)

SignedBLSToExecutionChange == Struct("SignedBLSToExecutionChange", <<
    <<"message", BLSToExecutionChange>>, <<"signature", BLSSignature>> >>)

SignedVoluntaryExit == Struct("SignedVoluntaryExit", << <<"message", VoluntaryExit>>,
    <<"signature", BLSSignature>> >>)

BeaconBlockHeader == Struct("BeaconBlockHeader", << <<"slot", Slot>>,
    <<"proposer_index", ValidatorIndex>>, <<"parent_root", Root>>,
    <<"state_root", Root>>, <<"body_root", Root>> >>)

SignedBeaconBlockHeader == Struct("SignedBeaconBlockHeader", <<
    <<"message", BeaconBlockHeader>>, <<"signature", BLSSignature>> >>)

ProposerSlashing == Struct("ProposerSlashing", <<
    <<"signed_header_1", SignedBeaconBlockHeader>>,
    <<"signed_header_2", SignedBeaconBlockHeader>> >>)

SyncAggregate(C) == Struct("SyncAggregate", <<
    <<"sync_committee_bits", BitVector(C.SyncCommitteeSize)>>,
    <<"sync_committee_signature", BLSSignature>> >>)

Withdrawal == Struct("Withdrawal", << <<"index", WithdrawalIndex>>,
    <<"validator_index", ValidatorIndex>>, <<"address", ExecutionAddress>>,
    <<"amount", Gwei>> >>)

ExecutionPayload(C) == Struct("ExecutionPayload", << <<"parent_hash", Hash32>>,
    <<"fee_recipient", ExecutionAddress>>, <<"state_root", Root>>,
    <<"receipts_root", Root>>, <<"logs_bloom", FixedVector(U8, C.BytesPerLogsBloom)>>,
    <<"prev_randao", Bytes32>>, <<"block_number", U64>>, <<"gas_limit", U64>>,
    <<"gas_used", U64>>, <<"timestamp", U64>>,
    <<"extra_data", VariableList(U8, C.MaxExtraDataBytes)>>,
    <<"base_fee_per_gas", Uint256>>, <<"block_hash", Hash32>>,
    <<"transactions", VariableList(Transaction, C.MaxTransactionsPerPayload)>>,
    <<"withdrawals", VariableList(Withdrawal, C.MaxWithdrawalsPerPayload)>>,
    <<"blob_gas_used", U64>>, <<"excess_blob_gas", U64>> >>)

DepositRequest == Struct("DepositRequest", << <<"pubkey", BLSPubkey>>,
    <<"withdrawal_credentials", Bytes32>>, <<"amount", Gwei>>,
    <<"signature", BLSSignature>>, <<"index", U64>> >>)

WithdrawalRequest == Struct("WithdrawalRequest", <<
    <<"source_address", ExecutionAddress>>, <<"validator_pubkey", BLSPubkey>>,
    <<"amount", Gwei>> >>)

ConsolidationRequest == Struct("ConsolidationRequest", <<
    <<"source_address", ExecutionAddress>>, <<"source_pubkey", BLSPubkey>>,
    <<"target_pubkey", BLSPubkey>> >>)

ExecutionRequests(C) == Struct("ExecutionRequests", <<
    <<"deposits", VariableList(DepositRequest, C.MaxDepositRequestsPerPayload)>>,
    <<"withdrawals", VariableList(WithdrawalRequest, C.MaxWithdrawalRequestsPerPayload)>>,
    <<"consolidations", VariableList(ConsolidationRequest, C.MaxConsolidationRequestsPerPayload)>> >>)

BeaconBlockBody(C) == Struct("BeaconBlockBody", << <<"randao_reveal", BLSSignature>>,
    <<"eth1_data", Eth1Data>>, <<"graffiti", Bytes32>>,
    <<"proposer_slashings", VariableList(ProposerSlashing, C.MaxProposerSlashings)>>,
    <<"attester_slashings", VariableList(AttesterSlashing(C), C.MaxAttesterSlashingsElectra)>>,
    <<"attestations", VariableList(Attestation(C), C.MaxAttestationsElectra)>>,
    <<"deposits", VariableList(Deposit, C.MaxDeposits)>>,
    <<"voluntary_exits", VariableList(SignedVoluntaryExit, C.MaxVoluntaryExits)>>,
    <<"sync_aggregate", SyncAggregate(C)>>,
    <<"execution_payload", ExecutionPayload(C)>>,
    <<"bls_to_execution_changes", VariableList(SignedBLSToExecutionChange, C.MaxBlsToExecutionChanges)>>,
    <<"blob_kzg_commitments", VariableList(KZGCommitment, C.MaxBlobCommitmentsPerBlock)>>,
    <<"execution_requests", ExecutionRequests(C)>> >>)

BeaconBlock(C) == Struct("BeaconBlock", << <<"slot", Slot>>,
    <<"proposer_index", ValidatorIndex>>, <<"parent_root", Root>>,
    <<"state_root", Root>>, <<"body", BeaconBlockBody(C)>> >>)

SignedBeaconBlock(C) == Struct("SignedBeaconBlock", << <<"message", BeaconBlock(C)>>,
    <<"signature", BLSSignature>> >>)

SigningData == Struct("SigningData", << <<"object_root", Root>>,
    <<"domain", Domain>> >>)

ExecutionPayloadHeader(C) == Struct("ExecutionPayloadHeader", <<
    <<"parent_hash", Hash32>>, <<"fee_recipient", ExecutionAddress>>,
    <<"state_root", Root>>, <<"receipts_root", Root>>,
    <<"logs_bloom", FixedVector(U8, C.BytesPerLogsBloom)>>, <<"prev_randao", Bytes32>>,
    <<"block_number", U64>>, <<"gas_limit", U64>>, <<"gas_used", U64>>,
    <<"timestamp", U64>>, <<"extra_data", VariableList(U8, C.MaxExtraDataBytes)>>,
    <<"base_fee_per_gas", Uint256>>, <<"block_hash", Hash32>>,
    <<"transactions_root", Root>>, <<"withdrawals_root", Root>>,
    <<"blob_gas_used", U64>>, <<"excess_blob_gas", U64>> >>)

SyncCommittee(C) == Struct("SyncCommittee", <<
    <<"pubkeys", FixedVector(BLSPubkey, C.SyncCommitteeSize)>>,
    <<"aggregate_pubkey", BLSPubkey>> >>)

PendingDeposit == Struct("PendingDeposit", << <<"pubkey", BLSPubkey>>,
    <<"withdrawal_credentials", Bytes32>>, <<"amount", Gwei>>,
    <<"signature", BLSSignature>>, <<"slot", Slot>> >>)

PendingPartialWithdrawal == Struct("PendingPartialWithdrawal", <<
    <<"validator_index", ValidatorIndex>>, <<"amount", Gwei>>,
    <<"withdrawable_epoch", Epoch>> >>)

PendingConsolidation == Struct("PendingConsolidation", <<
    <<"source_index", ValidatorIndex>>, <<"target_index", ValidatorIndex>> >>)

SingleAttestation == Struct("SingleAttestation", <<
    <<"committee_index", CommitteeIndex>>, <<"attester_index", ValidatorIndex>>,
    <<"data", AttestationData>>, <<"signature", BLSSignature>> >>)

BeaconState(C) == Struct("BeaconState", << <<"genesis_time", U64>>,
    <<"genesis_validators_root", Root>>, <<"slot", Slot>>, <<"fork", Fork>>,
    <<"latest_block_header", BeaconBlockHeader>>,
    <<"block_roots", FixedVector(Root, C.SlotsPerHistoricalRoot)>>,
    <<"state_roots", FixedVector(Root, C.SlotsPerHistoricalRoot)>>,
    <<"historical_roots", VariableList(Root, C.HistoricalRootsLimit)>>,
    <<"eth1_data", Eth1Data>>,
    <<"eth1_data_votes", VariableList(Eth1Data, C.SlotsPerEth1VotingPeriod)>>,
    <<"eth1_deposit_index", U64>>,
    <<"validators", VariableList(Validator, C.ValidatorRegistryLimit)>>,
    <<"balances", VariableList(Gwei, C.ValidatorRegistryLimit)>>,
    <<"randao_mixes", FixedVector(Bytes32, C.EpochsPerHistoricalVector)>>,
    <<"slashings", FixedVector(Gwei, C.EpochsPerSlashingsVector)>>,
    <<"previous_epoch_participation", VariableList(ParticipationFlags, C.ValidatorRegistryLimit)>>,
    <<"current_epoch_participation", VariableList(ParticipationFlags, C.ValidatorRegistryLimit)>>,
    <<"justification_bits", BitVector(C.JustificationBitsLength)>>,
    <<"previous_justified_checkpoint", Checkpoint>>,
    <<"current_justified_checkpoint", Checkpoint>>,
    <<"finalized_checkpoint", Checkpoint>>,
    <<"inactivity_scores", VariableList(U64, C.ValidatorRegistryLimit)>>,
    <<"current_sync_committee", SyncCommittee(C)>>,
    <<"next_sync_committee", SyncCommittee(C)>>,
    <<"latest_execution_payload_header", ExecutionPayloadHeader(C)>>,
    <<"next_withdrawal_index", WithdrawalIndex>>,
    <<"next_withdrawal_validator_index", ValidatorIndex>>,
    <<"historical_summaries", VariableList(HistoricalSummary, C.HistoricalRootsLimit)>>,
    <<"deposit_requests_start_index", U64>>, <<"deposit_balance_to_consume", Gwei>>,
    <<"exit_balance_to_consume", Gwei>>, <<"earliest_exit_epoch", Epoch>>,
    <<"consolidation_balance_to_consume", Gwei>>,
    <<"earliest_consolidation_epoch", Epoch>>,
    <<"pending_deposits", VariableList(PendingDeposit, C.PendingDepositsLimit)>>,
    <<"pending_partial_withdrawals", VariableList(PendingPartialWithdrawal, C.PendingPartialWithdrawalsLimit)>>,
    <<"pending_consolidations", VariableList(PendingConsolidation, C.PendingConsolidationsLimit)>> >>)

StatusMessage == Struct("StatusMessage", << <<"fork_digest", ForkDigest>>,
    <<"finalized_root", Root>>, <<"finalized_epoch", Epoch>>, <<"head_root", Root>>,
    <<"head_slot", Slot>> >>)

BeaconBlocksByRangeRequest == Struct("BeaconBlocksByRangeRequest", <<
    <<"start_slot", Slot>>, <<"count", U64>>, <<"step", U64>> >>)

Metadata(C) == Struct("Metadata", << <<"seq_number", U64>>,
    <<"attnets", BitVector(C.AttestationSubnetCount)>>,
    <<"syncnets", BitVector(C.SyncCommitteeSubnetCount)>> >>)

BlobSidecar(C) == Struct("BlobSidecar", << <<"index", BlobIndex>>, <<"blob", Blob(C)>>,
    <<"kzg_commitment", KZGCommitment>>, <<"kzg_proof", KZGProof>>,
    <<"signed_block_header", SignedBeaconBlockHeader>>,
    <<"kzg_commitment_inclusion_proof", FixedVector(Bytes32, C.KzgCommitmentInclusionProofDepth)>> >>)

BlobIdentifier == Struct("BlobIdentifier", << <<"block_root", Root>>,
    <<"index", BlobIndex>> >>)

AggregateAndProof(C) == Struct("AggregateAndProof", <<
    <<"aggregator_index", ValidatorIndex>>, <<"aggregate", Attestation(C)>>,
    <<"selection_proof", BLSSignature>> >>)

SignedAggregateAndProof(C) == Struct("SignedAggregateAndProof", <<
    <<"message", AggregateAndProof(C)>>, <<"signature", BLSSignature>> >>)

SyncCommitteeMessage == Struct("SyncCommitteeMessage", << <<"slot", Slot>>,
    <<"beacon_block_root", Root>>, <<"validator_index", ValidatorIndex>>,
    <<"signature", BLSSignature>> >>)

SyncCommitteeContribution(C) == Struct("SyncCommitteeContribution", << <<"slot", Slot>>,
    <<"beacon_block_root", Root>>, <<"subcommittee_index", U64>>,
    <<"aggregation_bits", BitVector(C.SyncSubcommitteeSize)>>,
    <<"signature", BLSSignature>> >>)

ContributionAndProof(C) == Struct("ContributionAndProof", <<
    <<"aggregator_index", ValidatorIndex>>,
    <<"contribution", SyncCommitteeContribution(C)>>,
    <<"selection_proof", BLSSignature>> >>)

SignedContributionAndProof(C) == Struct("SignedContributionAndProof", <<
    <<"message", ContributionAndProof(C)>>, <<"signature", BLSSignature>> >>)
==============================================================================

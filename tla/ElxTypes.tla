------------------------------- MODULE ElxTypes -------------------------------
(***************************************************************************)
(* The Elixir side of every container of the native library                *)
(* (native/ssz_nif/src/elx_types): what kind of Elixir term rustler takes  *)
(* and gives for each field. A struct is a map: its fields have no order.  *)
(***************************************************************************)
Vec(t) == [k |-> "vec", of |-> t]
NifStruct(name, fields) == [k |-> "struct", name |-> name, fields |-> fields]

U8 == [k |-> "u8"]
U64 == [k |-> "u64"]
Bool == [k |-> "bool"]
Binary == [k |-> "binary"]

Bytes4 == Binary
Bytes20 == Binary
Bytes32 == Binary
Bytes48 == Binary
Bytes96 == Binary
Uint256 == Binary
Slot == U64
Epoch == U64
CommitteeIndex == U64
ValidatorIndex == U64
Gwei == U64
WithdrawalIndex == U64
BlobIndex == U64
ParticipationFlags == U8
Root == Bytes32
Hash32 == Bytes32
Domain == Bytes32
Version == Bytes4
ForkDigest == Bytes4
BLSPubkey == Bytes48
BLSSignature == Bytes96
KZGCommitment == Bytes48
KZGProof == Bytes48
ExecutionAddress == Bytes20
Transaction == Binary
Blob == Binary

Fork == NifStruct("Fork", [previous_version |-> Version, current_version |-> Version,
                           epoch |-> Epoch])

ForkData == NifStruct("ForkData", [current_version |-> Version,
    genesis_validators_root |-> Root])

Checkpoint == NifStruct("Checkpoint", [epoch |-> Epoch, root |-> Root])

Validator == NifStruct("Validator", [pubkey |-> BLSPubkey,
    withdrawal_credentials |-> Bytes32, effective_balance |-> Gwei, slashed |-> Bool,
    activation_eligibility_epoch |-> Epoch, activation_epoch |-> Epoch,
    exit_epoch |-> Epoch, withdrawable_epoch |-> Epoch])

AttestationData == NifStruct("AttestationData", [slot |-> Slot,
    index |-> CommitteeIndex, beacon_block_root |-> Root, source |-> Checkpoint,
    target |-> Checkpoint])

IndexedAttestation == NifStruct("IndexedAttestation", [
    attesting_indices |-> Vec(ValidatorIndex), data |-> AttestationData,
    signature |-> BLSSignature])

PendingAttestation == NifStruct("PendingAttestation", [aggregation_bits |-> Binary,
    data |-> AttestationData, inclusion_delay |-> Slot,
    proposer_index |-> ValidatorIndex])

Eth1Data == NifStruct("Eth1Data", [deposit_root |-> Root, deposit_count |-> U64,
    block_hash |-> Hash32])

HistoricalBatch == NifStruct("HistoricalBatch", [block_roots |-> Vec(Root),
    state_roots |-> Vec(Root)])

DepositMessage == NifStruct("DepositMessage", [pubkey |-> BLSPubkey,
    withdrawal_credentials |-> Bytes32, amount |-> Gwei])

DepositData == NifStruct("DepositData", [pubkey |-> BLSPubkey,
    withdrawal_credentials |-> Bytes32, amount |-> Gwei, signature |-> BLSSignature])

HistoricalSummary == NifStruct("HistoricalSummary", [block_summary_root |-> Root,
    state_summary_root |-> Root])

Deposit == NifStruct("Deposit", [proof |-> Vec(Bytes32), data |-> DepositData])

VoluntaryExit == NifStruct("VoluntaryExit", [epoch |-> Epoch,
    validator_index |-> ValidatorIndex])

Attestation == NifStruct("Attestation", [aggregation_bits |-> Binary,
    data |-> AttestationData, signature |-> BLSSignature, committee_bits |-> Binary])

AttesterSlashing == NifStruct("AttesterSlashing", [attestation_1 |-> IndexedAttestation,
    attestation_2 |-> IndexedAttestation])

SignedVoluntaryExit == NifStruct("SignedVoluntaryExit", [message |-> VoluntaryExit,
    signature |-> BLSSignature])

BLSToExecutionChange == NifStruct("BLSToExecutionChange", [
    validator_index |-> ValidatorIndex, from_bls_pubkey |-> BLSPubkey,
    to_execution_address |-> ExecutionAddress])

SignedBLSToExecutionChange == NifStruct("SignedBLSToExecutionChange", [
    message |-> BLSToExecutionChange, signature |-> BLSSignature])

BeaconBlockHeader == NifStruct("BeaconBlockHeader", [slot |-> Slot,
    proposer_index |-> ValidatorIndex, parent_root |-> Root, state_root |-> Root,
    body_root |-> Root])

SignedBeaconBlockHeader == NifStruct("SignedBeaconBlockHeader", [
    message |-> BeaconBlockHeader, signature |-> BLSSignature])

ProposerSlashing == NifStruct("ProposerSlashing", [
    signed_header_1 |-> SignedBeaconBlockHeader,
    signed_header_2 |-> SignedBeaconBlockHeader])

SyncAggregate == NifStruct("SyncAggregate", [sync_committee_bits |-> Binary,
    sync_committee_signature |-> BLSSignature])

Withdrawal == NifStruct("Withdrawal", [index |-> WithdrawalIndex,
    validator_index |-> ValidatorIndex, address |-> ExecutionAddress, amount |-> Gwei])

ExecutionPayload == NifStruct("ExecutionPayload", [parent_hash |-> Hash32,
    fee_recipient |-> ExecutionAddress, state_root |-> Root, receipts_root |-> Root,
    logs_bloom |-> Binary, prev_randao |-> Bytes32, block_number |-> U64,
    gas_limit |-> U64, gas_used |-> U64, timestamp |-> U64, extra_data |-> Binary,
    base_fee_per_gas |-> Uint256, block_hash |-> Hash32,
    transactions |-> Vec(Transaction), withdrawals |-> Vec(Withdrawal),
    blob_gas_used |-> U64, excess_blob_gas |-> U64])

DepositRequest == NifStruct("DepositRequest", [pubkey |-> BLSPubkey,
    withdrawal_credentials |-> Bytes32, amount |-> Gwei, signature |-> BLSSignature,
    index |-> U64])

WithdrawalRequest == NifStruct("WithdrawalRequest", [
    source_address |-> ExecutionAddress, validator_pubkey |-> BLSPubkey,
    amount |-> Gwei])

ConsolidationRequest == NifStruct("ConsolidationRequest", [
    source_address |-> ExecutionAddress, source_pubkey |-> BLSPubkey,
    target_pubkey |-> BLSPubkey])

ExecutionRequests == NifStruct("ExecutionRequests", [deposits |-> Vec(DepositRequest),
    withdrawals |-> Vec(WithdrawalRequest),
    consolidations |-> Vec(ConsolidationRequest)])

BeaconBlockBody == NifStruct("BeaconBlockBody", [randao_reveal |-> BLSSignature,
    eth1_data |-> Eth1Data, graffiti |-> Bytes32,
    proposer_slashings |-> Vec(ProposerSlashing),
    attester_slashings |-> Vec(AttesterSlashing), attestations |-> Vec(Attestation),
    deposits |-> Vec(Deposit), voluntary_exits |-> Vec(SignedVoluntaryExit),
    sync_aggregate |-> SyncAggregate, execution_payload |-> ExecutionPayload,
    bls_to_execution_changes |-> Vec(SignedBLSToExecutionChange),
    blob_kzg_commitments |-> Vec(KZGCommitment),
    execution_requests |-> ExecutionRequests])

BeaconBlock == NifStruct("BeaconBlock", [slot |-> Slot,
    proposer_index |-> ValidatorIndex, parent_root |-> Root, state_root |-> Root,
    body |-> BeaconBlockBody])

SignedBeaconBlock == NifStruct("SignedBeaconBlock", [message |-> BeaconBlock,
    signature |-> BLSSignature])

SigningData == NifStruct("SigningData", [object_root |-> Root, domain |-> Domain])

ExecutionPayloadHeader == NifStruct("ExecutionPayloadHeader", [parent_hash |-> Hash32,
    fee_recipient |-> ExecutionAddress, state_root |-> Root, receipts_root |-> Root,
    logs_bloom |-> Binary, prev_randao |-> Bytes32, block_number |-> U64,
    gas_limit |-> U64, gas_used |-> U64, timestamp |-> U64, extra_data |-> Binary,
    base_fee_per_gas |-> Uint256, block_hash |-> Hash32, transactions_root |-> Root,
    withdrawals_root |-> Root, blob_gas_used |-> U64, excess_blob_gas |-> U64])

SyncCommittee == NifStruct("SyncCommittee", [pubkeys |-> Vec(BLSPubkey),
    aggregate_pubkey |-> BLSPubkey])

PendingDeposit == NifStruct("PendingDeposit", [pubkey |-> BLSPubkey,
    withdrawal_credentials |-> Bytes32, amount |-> Gwei, signature |-> BLSSignature,
    slot |-> Slot])

PendingPartialWithdrawal == NifStruct("PendingPartialWithdrawal", [
    validator_index |-> ValidatorIndex, amount |-> Gwei, withdrawable_epoch |-> Epoch])

PendingConsolidation == NifStruct("PendingConsolidation", [
    source_index |-> ValidatorIndex, target_index |-> ValidatorIndex])

SingleAttestation == NifStruct("SingleAttestation", [committee_index |-> CommitteeIndex,
    attester_index |-> ValidatorIndex, data |-> AttestationData,
    signature |-> BLSSignature])

BeaconState == NifStruct("BeaconState", [genesis_time |-> U64,
    genesis_validators_root |-> Root, slot |-> Slot, fork |-> Fork,
    latest_block_header |-> BeaconBlockHeader, block_roots |-> Vec(Root),
    state_roots |-> Vec(Root), historical_roots |-> Vec(Root), eth1_data |-> Eth1Data,
    eth1_data_votes |-> Vec(Eth1Data), eth1_deposit_index |-> U64,
    validators |-> Vec(Validator), balances |-> Vec(Gwei),
    randao_mixes |-> Vec(Bytes32), slashings |-> Vec(Gwei),
    previous_epoch_participation |-> Vec(ParticipationFlags),
    current_epoch_participation |-> Vec(ParticipationFlags),
    justification_bits |-> Binary, previous_justified_checkpoint |-> Checkpoint,
    current_justified_checkpoint |-> Checkpoint, finalized_checkpoint |-> Checkpoint,
    inactivity_scores |-> Vec(U64), current_sync_committee |-> SyncCommittee,
    next_sync_committee |-> SyncCommittee,
    latest_execution_payload_header |-> ExecutionPayloadHeader,
    next_withdrawal_index |-> WithdrawalIndex,
    next_withdrawal_validator_index |-> ValidatorIndex,
    historical_summaries |-> Vec(HistoricalSummary),
    deposit_requests_start_index |-> U64, deposit_balance_to_consume |-> Gwei,
    exit_balance_to_consume |-> Gwei, earliest_exit_epoch |-> Epoch,
    consolidation_balance_to_consume |-> Gwei, earliest_consolidation_epoch |-> Epoch,
    pending_deposits |-> Vec(PendingDeposit),
    pending_partial_withdrawals |-> Vec(PendingPartialWithdrawal),
    pending_consolidations |-> Vec(PendingConsolidation)])

StatusMessage == NifStruct("StatusMessage", [fork_digest |-> ForkDigest,
    finalized_root |-> Root, finalized_epoch |-> Epoch, head_root |-> Root,
    head_slot |-> Slot])

BeaconBlocksByRangeRequest == NifStruct("BeaconBlocksByRangeRequest", [
    start_slot |-> Slot, count |-> U64, step |-> U64])

Metadata == NifStruct("Metadata", [seq_number |-> U64, attnets |-> Binary,
    syncnets |-> Binary])

BlobSidecar == NifStruct("BlobSidecar", [index |-> BlobIndex, blob |-> Blob,
    kzg_commitment |-> KZGCommitment, kzg_proof |-> KZGProof,
    signed_block_header |-> SignedBeaconBlockHeader,
    kzg_commitment_inclusion_proof |-> Vec(Bytes32)])

BlobIdentifier == NifStruct("BlobIdentifier", [block_root |-> Root,
    index |-> BlobIndex])

AggregateAndProof == NifStruct("AggregateAndProof", [
    aggregator_index |-> ValidatorIndex, aggregate |-> Attestation,
    selection_proof |-> BLSSignature])

SignedAggregateAndProof == NifStruct("SignedAggregateAndProof", [
    message |-> AggregateAndProof, signature |-> BLSSignature])

SyncCommitteeMessage == NifStruct("SyncCommitteeMessage", [slot |-> Slot,
    beacon_block_root |-> Root, validator_index |-> ValidatorIndex,
    signature |-> BLSSignature])

SyncCommitteeContribution == NifStruct("SyncCommitteeContribution", [slot |-> Slot,
    beacon_block_root |-> Root, subcommittee_index |-> U64, aggregation_bits |-> Binary,
    signature |-> BLSSignature])

ContributionAndProof == NifStruct("ContributionAndProof", [
    aggregator_index |-> ValidatorIndex, contribution |-> SyncCommitteeContribution,
    selection_proof |-> BLSSignature])

SignedContributionAndProof == NifStruct("SignedContributionAndProof", [
    message |-> ContributionAndProof, signature |-> BLSSignature])
==============================================================================

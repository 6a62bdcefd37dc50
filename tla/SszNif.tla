-------------------------------- MODULE SszNif --------------------------------
(***************************************************************************)
(* The native SSZ library (native/ssz_nif/src/lib.rs, utils): the six      *)
(* functions Elixir calls, with the choice of the container and preset by  *)
(* name, the conversion of Elixir terms to SSZ values and back, and the    *)
(* four ways a call ends: an answer, an error tuple, an ArgumentError      *)
(* (BadArg) or an exception (a panic).                                     *)
(*                                                                         *)
(* Elixir terms are tagged: an integer, a Boolean, a binary (bytes), a     *)
(* bitstring (bits by index), a list, an Aja vector, or a struct with its  *)
(* name and its values in the order of the schema.                         *)
(***************************************************************************)
EXTENDS SszLib, SszConfig

E == INSTANCE ElxTypes

Num(n) == <<"int", n>>
Boolean(b) == <<"bool", b>>
Bin(b) == <<"bin", b>>
Bits(s) == <<"bits", s>>
Lst(s) == <<"list", s>>
Aja(s) == <<"aja", s>>
Map(name, vs) == <<"struct", name, vs>>

(* The containers by name: the Elixir and the SSZ type of each. *)
schema_match(C) ==
  [HistoricalSummary |-> <<E!HistoricalSummary, HistoricalSummary>>,
   AttestationData |-> <<E!AttestationData, AttestationData>>,
   IndexedAttestation |-> <<E!IndexedAttestation, IndexedAttestation(C)>>,
   Checkpoint |-> <<E!Checkpoint, Checkpoint>>, Eth1Data |-> <<E!Eth1Data, Eth1Data>>,
   Fork |-> <<E!Fork, Fork>>, ForkData |-> <<E!ForkData, ForkData>>,
   HistoricalBatch |-> <<E!HistoricalBatch, HistoricalBatch(C)>>,
   PendingAttestation |-> <<E!PendingAttestation, PendingAttestation(C)>>,
   Validator |-> <<E!Validator, Validator>>, DepositData |-> <<E!DepositData, DepositData>>,
   VoluntaryExit |-> <<E!VoluntaryExit, VoluntaryExit>>, Deposit |-> <<E!Deposit, Deposit>>,
   DepositMessage |-> <<E!DepositMessage, DepositMessage>>,
   BLSToExecutionChange |-> <<E!BLSToExecutionChange, BLSToExecutionChange>>,
   SignedBLSToExecutionChange |-> <<E!SignedBLSToExecutionChange, SignedBLSToExecutionChange>>,
   Attestation |-> <<E!Attestation, Attestation(C)>>,
   BeaconBlock |-> <<E!BeaconBlock, BeaconBlock(C)>>,
   BeaconBlockHeader |-> <<E!BeaconBlockHeader, BeaconBlockHeader>>,
   AttesterSlashing |-> <<E!AttesterSlashing, AttesterSlashing(C)>>,
   SignedBeaconBlock |-> <<E!SignedBeaconBlock, SignedBeaconBlock(C)>>,
   SignedBeaconBlockHeader |-> <<E!SignedBeaconBlockHeader, SignedBeaconBlockHeader>>,
   SignedVoluntaryExit |-> <<E!SignedVoluntaryExit, SignedVoluntaryExit>>,
   ProposerSlashing |-> <<E!ProposerSlashing, ProposerSlashing>>,
   ExecutionPayload |-> <<E!ExecutionPayload, ExecutionPayload(C)>>,
   ExecutionPayloadHeader |-> <<E!ExecutionPayloadHeader, ExecutionPayloadHeader(C)>>,
   Withdrawal |-> <<E!Withdrawal, Withdrawal>>,
   SigningData |-> <<E!SigningData, SigningData>>,
   SyncAggregate |-> <<E!SyncAggregate, SyncAggregate(C)>>,
   SyncCommittee |-> <<E!SyncCommittee, SyncCommittee(C)>>,
   SyncCommitteeMessage |-> <<E!SyncCommitteeMessage, SyncCommitteeMessage>>,
   SyncCommitteeContribution |-> <<E!SyncCommitteeContribution, SyncCommitteeContribution(C)>>,
   ContributionAndProof |-> <<E!ContributionAndProof, ContributionAndProof(C)>>,
   SignedContributionAndProof |-> <<E!SignedContributionAndProof, SignedContributionAndProof(C)>>,
   BeaconState |-> <<E!BeaconState, BeaconState(C)>>,
   BeaconBlockBody |-> <<E!BeaconBlockBody, BeaconBlockBody(C)>>,
   StatusMessage |-> <<E!StatusMessage, StatusMessage>>,
   AggregateAndProof |-> <<E!AggregateAndProof, AggregateAndProof(C)>>,
   SignedAggregateAndProof |-> <<E!SignedAggregateAndProof, SignedAggregateAndProof(C)>>,
   BeaconBlocksByRangeRequest |-> <<E!BeaconBlocksByRangeRequest, BeaconBlocksByRangeRequest>>,
   Transaction |-> <<E!Transaction, Transaction>>, Metadata |-> <<E!Metadata, Metadata(C)>>,
   Root |-> <<E!Root, Root>>, Epoch |-> <<E!Epoch, Epoch>>,
   BlobSidecar |-> <<E!BlobSidecar, BlobSidecar(C)>>,
   BlobIdentifier |-> <<E!BlobIdentifier, BlobIdentifier>>,
   PendingDeposit |-> <<E!PendingDeposit, PendingDeposit>>,
   PendingPartialWithdrawal |-> <<E!PendingPartialWithdrawal, PendingPartialWithdrawal>>,
   PendingConsolidation |-> <<E!PendingConsolidation, PendingConsolidation>>,
   DepositRequest |-> <<E!DepositRequest, DepositRequest>>,
   WithdrawalRequest |-> <<E!WithdrawalRequest, WithdrawalRequest>>,
   ConsolidationRequest |-> <<E!ConsolidationRequest, ConsolidationRequest>>,
   ExecutionRequests |-> <<E!ExecutionRequests, ExecutionRequests(C)>>,
   SingleAttestation |-> <<E!SingleAttestation, SingleAttestation>>]

(* The containers by preset and name; a constant, so that they are         *)
(* computed once.                                                          *)
CONSTANT Containers
NativeContainers ==
  LET table(C) == schema_match(C)
  IN  [mainnet |-> table(Mainnet), minimal |-> table(Minimal), gnosis |-> table(Gnosis)]
ASSUME ContainersAssumption == Containers = NativeContainers

Configs == DOMAIN Containers
Schemas == DOMAIN Containers.mainnet

(* An unknown schema or preset is an ArgumentError. *)
KnownCall(schema, config) == schema \in Schemas /\ config \in Configs
config_match(schema, config) == Containers[config][schema]
FieldsOf(schema, config) == config_match(schema, config)[2].fields

(***************************************************************************)
(* Elixir terms as rustler takes them. A bitstring of whole bytes is a     *)
(* binary too, its highest bit first.                                      *)
(***************************************************************************)
IsBinary(x) == x[1] = "bin" \/ (x[1] = "bits" /\ Len(x[2]) % 8 = 0)
AsBinary(x) == IF x[1] = "bin" THEN x[2] ELSE Reverse(BytesOfBits(x[2], Len(x[2]) \div 8))

RECURSIVE Decodes(_, _, _)
Decodes(e, t, x) ==
  CASE e.k \in {"u8", "u64"} -> x[1] = "int" /\ x[2] \in 0..(256^LenUint - 1)
    [] e.k = "bool" -> x[1] = "bool"
    [] e.k = "binary" -> IsBinary(x)
    [] e.k = "vec" -> x[1] = "list" /\ \A i \in 1..Len(x[2]) : Decodes(e.of, t.of, x[2][i])
    [] e.k = "struct" ->
         /\ x[1] = "struct" /\ x[2] = e.name
         /\ \A i \in 1..Len(t.fields) : Decodes(e.fields[t.fields[i][1]], t.fields[i][2], x[3][i])

(* trait FromElx: lengths and limits are checked here. A Uint256 takes the *)
(* bytes it is given up to its own length, and zeros after them.           *)
Uint256FromElx(b) == Seq1([i \in 1..Len32 |-> IF i <= Len(b) THEN b[i] ELSE 0])

Sized(t, v) ==
  IF (t.k = "list" /\ Len(v) > t.max) \/ (t.k \in {"vector", "array"} /\ Len(v) # t.len)
  THEN Error ELSE Ok(v)

RECURSIVE FromElx(_, _)
(* gen_struct, gen_struct_with_config: field by field. *)
FromElxStruct(t, x) ==
  All(Seq1([i \in 1..Len(t.fields) |-> FromElx(t.fields[i][2], x[3][i])]))
FromElx(t, x) ==
  CASE t.k \in {"uint", "bool"} -> Ok(x[2])
    [] t.k = "u256" -> Ok(Uint256FromElx(AsBinary(x)))
    [] t.k \in {"bitlist", "bitvector"} -> SszValue(t, AsBinary(x))
    [] t.k = "array" \/ (t.k \in {"vector", "list"} /\ x[1] # "list") -> Sized(t, AsBinary(x))
    [] t.k \in {"vector", "list"} /\ x[1] = "list" ->
         LET vs == All(Seq1([i \in 1..Len(x[2]) |-> FromElx(t.of, x[2][i])]))
         IN  IF IsOk(vs) THEN Sized(t, vs[2]) ELSE vs
    [] t.k = "struct" -> FromElxStruct(t, x)

(* trait FromSsz: total. *)
RECURSIVE FromSsz(_, _, _)
FromSszStruct(e, t, v) ==
  Map(e.name, Seq1([i \in 1..Len(v) |->
        FromSsz(e.fields[t.fields[i][1]], t.fields[i][2], v[i])]))
\* Variant: a bit list is handed out without its sentinel.
FromSszNoSentinel(e, t, v) ==
  CASE e.k \in {"u8", "u64"} -> Num(v)
    [] e.k = "bool" -> Boolean(v)
    [] e.k = "binary" -> Bin(CASE t.k = "bitlist" -> BytesOfBits(v, Len(v) \div 8 + 1)
                               [] t.k = "bitvector" -> SszBytes(t, v)
                               [] OTHER -> v)
    [] e.k = "vec" -> Lst(Seq1([i \in 1..Len(v) |-> FromSsz(e.of, t.of, v[i])]))
    [] e.k = "struct" -> FromSszStruct(e, t, v)
FromSsz(e, t, v) ==
  CASE e.k \in {"u8", "u64"} -> Num(v)
    [] e.k = "bool" -> Boolean(v)
    [] e.k = "binary" -> Bin(IF t.k \in {"bitlist", "bitvector"} THEN SszBytes(t, v) ELSE v)
    [] e.k = "vec" -> Lst(Seq1([i \in 1..Len(v) |-> FromSsz(e.of, t.of, v[i])]))
    [] e.k = "struct" -> FromSszStruct(e, t, v)

(* Elx::decode, then FromElx. *)
ToSszValue(et, x) == IF ~Decodes(et[1], et[2], x) THEN BadArg ELSE FromElx(et[2], x)
ToSszValues(et, xs) ==
  IF \E i \in 1..Len(xs) : ~Decodes(et[1], et[2], xs[i]) THEN BadArg
  ELSE All(Seq1([i \in 1..Len(xs) |-> FromElx(et[2], xs[i])]))

Then(r, F(_)) == IF IsOk(r) THEN F(r[2]) ELSE r

(***************************************************************************)
(* The functions of the library (helpers.rs), and the ones that export     *)
(* them (lib.rs).                                                          *)
(***************************************************************************)
(* A list is encoded with no limit on its length. *)
encode_ssz(et, x) ==
  IF x[1] = "list"
  THEN Then(ToSszValues(et, x[2]),
            LAMBDA vs : Ok(SszItems([i \in 1..Len(vs) |-> et[2]], vs)))
  ELSE Then(ToSszValue(et, x), LAMBDA v : Ok(SszBytes(et[2], v)))

decode_ssz(et, b) == Then(SszValue(et[2], b), LAMBDA v : Ok(FromSsz(et[1], et[2], v)))

list_decode_ssz(et, b) ==
  Then(SszList(et[2], -1, b),
       LAMBDA vs : Ok(Lst(Seq1([i \in 1..Len(vs) |-> FromSsz(et[1], et[2], vs[i])]))))

hash_tree_root(et, x) == Then(ToSszValue(et, x), LAMBDA v : Ok(TreeRoot(et[2], v)))

\* Variant: the room is that of the elements there are.
vec_tree_hash_root_tight(t, vs, max) ==
  IF t.k = "uint" THEN MerkleHasher(Pack(vs), CeilDiv(Len(vs), LenChunk \div LenUint))
  ELSE MerkleHasher(Roots(t, vs), Len(vs))
(* The limit counts elements: packed ones share chunks. *)
vec_tree_hash_root(t, vs, max) ==
  IF t.k = "uint"
  THEN MerkleHasher(Pack(vs), CeilDiv(max, LenChunk \div LenUint))
  ELSE MerkleHasher(Roots(t, vs), max)

hash_vector_tree_root(et, xs, max) ==
  Then(ToSszValues(et, xs), LAMBDA vs : vec_tree_hash_root(et[2], vs, max))

hash_list_tree_root(et, xs, max) ==
  Then(hash_vector_tree_root(et, xs, max), LAMBDA root : Ok(MixInLength(root, Len(xs))))

to_ssz_rs(x, schema, config) ==
  IF ~KnownCall(schema, config) THEN BadArg ELSE encode_ssz(config_match(schema, config), x)
from_ssz_rs(b, schema, config) ==
  IF ~KnownCall(schema, config) THEN BadArg ELSE decode_ssz(config_match(schema, config), b)
list_from_ssz_rs(b, schema, config) ==
  IF ~KnownCall(schema, config) THEN BadArg ELSE list_decode_ssz(config_match(schema, config), b)
hash_tree_root_rs(x, schema, config) ==
  IF ~KnownCall(schema, config) THEN BadArg ELSE hash_tree_root(config_match(schema, config), x)
hash_tree_root_list_rs(xs, max, schema, config) ==
  IF ~KnownCall(schema, config) THEN BadArg
  ELSE hash_list_tree_root(config_match(schema, config), xs, max)
hash_tree_root_vector_rs(xs, max, schema, config) ==
  IF ~KnownCall(schema, config) THEN BadArg
  ELSE hash_vector_tree_root(config_match(schema, config), xs, max)
==============================================================================

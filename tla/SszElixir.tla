------------------------------- MODULE SszElixir -------------------------------
(***************************************************************************)
(* The Elixir wrappers of the native SSZ library (lib/ssz.ex) and the      *)
(* conversions of the containers that have encode/1 and decode/1: the      *)
(* native library takes bit fields and 256-bit integers as bytes, so they  *)
(* are converted before and after each call. The NIF knows no Aja vector.  *)
(***************************************************************************)
EXTENDS SszNif

\* Variant: Attestation.encode/1 as it was before committees had bits.
ConvertsBeforeElectra ==
  [Attestation |-> [aggregation_bits |-> "bitlist"],
   PendingAttestation |-> [aggregation_bits |-> "bitlist"],
   SyncAggregate |-> [sync_committee_bits |-> "bitvector"],
   SyncCommitteeContribution |-> [aggregation_bits |-> "bitvector"],
   Metadata |-> [attnets |-> "bitvector", syncnets |-> "bitvector"],
   ExecutionPayload |-> [base_fee_per_gas |-> "u256"],
   ExecutionPayloadHeader |-> [base_fee_per_gas |-> "u256"],
   BeaconState |->
     [validators |-> "aja", balances |-> "aja", randao_mixes |-> "aja",
      previous_epoch_participation |-> "aja", current_epoch_participation |-> "aja",
      latest_execution_payload_header |-> "container", justification_bits |-> "bitvector"]]
(* The fields that a container's encode/1 and decode/1 convert, and how.   *)
(* Such a container converts its own fields only; the others are walked.   *)
Converts ==
  [Attestation |-> [aggregation_bits |-> "bitlist", committee_bits |-> "bitvector"],
   PendingAttestation |-> [aggregation_bits |-> "bitlist"],
   SyncAggregate |-> [sync_committee_bits |-> "bitvector"],
   SyncCommitteeContribution |-> [aggregation_bits |-> "bitvector"],
   Metadata |-> [attnets |-> "bitvector", syncnets |-> "bitvector"],
   ExecutionPayload |-> [base_fee_per_gas |-> "u256"],
   ExecutionPayloadHeader |-> [base_fee_per_gas |-> "u256"],
   BeaconState |->
     [validators |-> "aja", balances |-> "aja", randao_mixes |-> "aja",
      previous_epoch_participation |-> "aja", current_epoch_participation |-> "aja",
      latest_execution_payload_header |-> "container", justification_bits |-> "bitvector"]]

(* BitList.to_bytes ends with the sentinel bit. *)
BitListBytes(s) == BytesOfBits(Append(s, 1), Len(s) \div 8 + 1)
BitVectorBytes(s) == BytesOfBits(s, CeilDiv(Len(s), 8))
(* BitList.new drops the sentinel, or the last byte when it is zero. *)
BitListNew(b) ==
  BitsOf(b, 8 * (Len(b) - 1) + (IF Last(b) = 0 THEN 0 ELSE TopBit(Last(b))))

Names(name, config) ==
  LET fs == FieldsOf(name, config) IN Seq1([i \in 1..Len(fs) |-> fs[i][1]])

RECURSIVE Encode(_, _)
EncodeField(how, v, config) ==
  CASE how = "bitlist"   -> Bin(BitListBytes(v[2]))
    [] how = "bitvector" -> Bin(BitVectorBytes(v[2]))
    [] how = "u256"      -> Bin(LE(v[2], Len32))
    [] how = "aja"       -> Lst(v[2])
    [] how = "container" -> Encode(v, config)
Encode(x, config) ==
  CASE x[1] = "list" -> Lst(Seq1([i \in 1..Len(x[2]) |-> Encode(x[2][i], config)]))
    [] x[1] = "struct" /\ x[2] \in DOMAIN Converts ->
         LET ns == Names(x[2], config)
             how == Converts[x[2]]
         IN  Map(x[2], Seq1([i \in 1..Len(ns) |->
               IF ns[i] \in DOMAIN how THEN EncodeField(how[ns[i]], x[3][i], config) ELSE x[3][i]]))
    [] x[1] = "struct" /\ x[2] \notin DOMAIN Converts ->
         Map(x[2], Seq1([i \in 1..Len(x[3]) |-> Encode(x[3][i], config)]))
    [] x[1] \notin {"list", "struct"} -> x

RECURSIVE Decode(_, _)
DecodeField(how, len, v, config) ==
  CASE how = "bitlist"   -> Bits(BitListNew(v[2]))
    [] how = "bitvector" -> Bits(BitsOf(v[2], len))
    [] how = "u256"      -> Num(FromLE(v[2]))
    [] how = "aja"       -> Aja(v[2])
    [] how = "container" -> Decode(v, config)
Decode(x, config) ==
  CASE x[1] = "list" -> Lst(Seq1([i \in 1..Len(x[2]) |-> Decode(x[2][i], config)]))
    [] x[1] = "struct" /\ x[2] \in DOMAIN Converts ->
         LET fs == FieldsOf(x[2], config)
             how == Converts[x[2]]
             field(i) == IF fs[i][1] \notin DOMAIN how THEN x[3][i]
                         ELSE DecodeField(how[fs[i][1]],
                                IF fs[i][2].k = "bitvector" THEN fs[i][2].len ELSE 0,
                                x[3][i], config)
         IN  Map(x[2], Seq1([i \in 1..Len(fs) |-> field(i)]))
    [] x[1] = "struct" /\ x[2] \notin DOMAIN Converts ->
         Map(x[2], Seq1([i \in 1..Len(x[3]) |-> Decode(x[3][i], config)]))
    [] x[1] \notin {"list", "struct"} -> x

(***************************************************************************)
(* The functions the rest of the node calls.                               *)
(***************************************************************************)
to_ssz(x, schema, config) == to_ssz_rs(Encode(x, config), schema, config)

from_ssz(b, schema, config) ==
  Then(from_ssz_rs(b, schema, config), LAMBDA x : Ok(Decode(x, config)))

list_from_ssz(b, schema, config) ==
  Then(list_from_ssz_rs(b, schema, config), LAMBDA x : Ok(Decode(x, config)))

HashTreeRoot(x, schema, config) == hash_tree_root_rs(Encode(x, config), schema, config)

(* With no element to name the type, hash_list_tree_root takes ForkData. *)
hash_list_tree_root_typed(xs, max, schema, config) ==
  hash_tree_root_list_rs(Encode(Lst(xs), config)[2], max, schema, config)
HashListTreeRoot(xs, max, config) ==
  hash_list_tree_root_typed(xs, max, IF xs = <<>> THEN "ForkData" ELSE xs[1][2], config)

hash_vector_tree_root_typed(xs, max, schema, config) ==
  hash_tree_root_vector_rs(Encode(Lst(xs), config)[2], max, schema, config)
==============================================================================

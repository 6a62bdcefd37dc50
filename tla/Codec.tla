--------------------------------- MODULE Codec ---------------------------------
(***************************************************************************)
(* An SSZ object on its way through the node. A node encodes it with one   *)
(* of the two libraries and hands it to the network; the bytes may reach   *)
(* another node changed, or come from a peer that knows no limits. There   *)
(* gossip decodes with the native library (gossip handlers), responses are *)
(* decoded with the Elixir one (ReqResp.decode_request). The object is     *)
(* stored with the native library (BlockInfo, StateInfo, BlobDb), read     *)
(* back after a restart, and served to others with the Elixir one          *)
(* (ReqResp.encode). Compression is the identity on what it carries.       *)
(***************************************************************************)
EXTENDS SszEx

CONSTANTS Objects,       \* [schema, config, sample]
          Term(_),       \* an object as Elixir holds it
          Raw(_),        \* the same object as an SSZ value
          OverLimit(_),  \* a list in it is longer than its limit
          Altered(_),    \* what the network may make of some bytes
          MaxHops        \* bound: how often an object is served again

None == <<"none", <<>>>>

VARIABLES object, wire, altered, memory, disk, hops
vars == <<object, wire, altered, memory, disk, hops>>

Schema0 == object.schema
Config == object.config
NativeType == config_match(Schema0, Config)[2]

Init ==
  /\ object \in Objects
  /\ wire = None /\ memory = None /\ disk = None
  /\ altered = FALSE /\ hops = 0

(* Validator.publish_block and BlobSidecar use the native library, the     *)
(* other topics the Elixir one.                                            *)
PublishNative ==
  /\ wire = None /\ ~OverLimit(object)
  /\ wire' = to_ssz(Term(object), Schema0, Config)
  /\ UNCHANGED <<object, altered, memory, disk, hops>>

PublishEx ==
  /\ wire = None /\ ~OverLimit(object)
  /\ wire' = ex_encode(Term(object), Schema0, Config)
  /\ UNCHANGED <<object, altered, memory, disk, hops>>

(* A peer that checks no limit. *)
PeerSends ==
  /\ wire = None /\ OverLimit(object)
  /\ wire' = Ok(SszBytes(NativeType, Raw(object)))
  /\ UNCHANGED <<object, altered, memory, disk, hops>>

Alter ==
  /\ IsOk(wire) /\ memory = None /\ ~altered /\ hops = 0
  /\ \E b \in Altered(wire[2]) : wire' = Ok(b) /\ b # wire[2]
  /\ altered' = TRUE
  /\ UNCHANGED <<object, memory, disk, hops>>

(* The gossip handlers: {:ok, _} goes on, {:error, _} rejects. *)
ReceiveGossip ==
  /\ IsOk(wire) /\ memory = None
  /\ memory' = from_ssz(wire[2], Schema0, Config)
  /\ UNCHANGED <<object, wire, altered, disk, hops>>

ReceiveResponse ==
  /\ IsOk(wire) /\ memory = None
  /\ memory' = ex_decode(wire[2], Schema0, Config)
  /\ UNCHANGED <<object, wire, altered, disk, hops>>

Store ==
  /\ IsOk(memory) /\ disk = None
  /\ disk' = to_ssz(memory[2], Schema0, Config)
  /\ UNCHANGED <<object, wire, altered, memory, hops>>

(* The process goes down with its caches; the object is read back. *)
Restart ==
  /\ IsOk(disk)
  /\ memory' = from_ssz(disk[2], Schema0, Config)
  /\ UNCHANGED <<object, wire, altered, disk, hops>>

(* The object goes out again to a node that has not seen it. *)
Serve ==
  /\ IsOk(memory) /\ hops < MaxHops
  /\ wire' = ex_encode(memory[2], Schema0, Config)
  /\ memory' = None /\ disk' = None /\ hops' = hops + 1
  /\ UNCHANGED <<object, altered>>

Next == \/ PublishNative \/ PublishEx \/ PeerSends \/ Alter
        \/ ReceiveGossip \/ ReceiveResponse \/ Store \/ Restart \/ Serve

Spec == Init /\ [][Next]_vars

(***************************************************************************)
(* Properties.                                                             *)
(***************************************************************************)
(* Bytes are about to be decoded. *)
Arriving == IsOk(wire) /\ memory = None

(* What no one altered is what was published: either encoder, either       *)
(* decoder, the store, a restart and any number of servings give back the  *)
(* object, and all of them use its one canonical encoding (to_ssz_rs,      *)
(* SszEx.encode, from_ssz_rs, SszEx.decode). So does a list of objects     *)
(* (list_from_ssz_rs).                                                     *)
Delivered ==
  ~altered /\ ~OverLimit(object) =>
    /\ wire \in {None, Ok(SszBytes(NativeType, Raw(object)))}
    /\ memory \in {None, Ok(Term(object))}
    /\ disk \in {None, Ok(SszBytes(NativeType, Raw(object)))}
    /\ Arriving => LET xs == Lst(<<Term(object), Term(object)>>)
                       bs == to_ssz(xs, Schema0, Config)
                   IN  IsOk(bs) /\ list_from_ssz(bs[2], Schema0, Config) = Ok(xs)

(* The native library accepts canonical encodings only: whatever came in,  *)
(* bytes it decoded are the bytes it writes for the decoded object, so two *)
(* messages never decode to one object, and no list is over its limit      *)
(* (decode_ssz, FromSsz, FromElx).                                         *)
AcceptedIsCanonical ==
  Arriving => LET x == from_ssz(wire[2], Schema0, Config) IN
    IsOk(x) => /\ ~OverLimit(object) \/ altered
               /\ to_ssz(x[2], Schema0, Config) = wire

(* A message accepted from gossip is accepted in a response too, as the    *)
(* same object: the Elixir decoder takes everything the native one takes,  *)
(* whatever the bytes (SszEx.Decode.decode).                               *)
ResponseTakesGossip ==
  Arriving => LET x == from_ssz(wire[2], Schema0, Config) IN
    IsOk(x) => ex_decode(wire[2], Schema0, Config) = x

(* The two libraries give an object the same root, and it is the root of   *)
(* the SSZ value: blocks are keyed by the native one, sidecar proofs and   *)
(* signing roots use the Elixir one (hash_tree_root, SszEx.hash_tree_root).*)
RootsAgree ==
  Arriving => LET x == from_ssz(wire[2], Schema0, Config) IN
    IsOk(x) => LET root == Ok(TreeRoot(NativeType, SszValue(NativeType, wire[2])[2]))
               IN  /\ HashTreeRoot(x[2], Schema0, Config) = root
                   /\ ex_hash_tree_root(x[2], Schema0, Config) = root

(* The lists and vectors that the state transition hashes by themselves    *)
(* have the roots they have as fields: the header it keeps of a payload    *)
(* has the root of the payload, a historical summary the root of the batch *)
(* (process_execution_payload, process_historical_summaries_update).       *)
SummariesKeepRoots ==
  Arriving => LET x == from_ssz(wire[2], Schema0, Config) IN
    IsOk(x) =>
      LET v == SszValue(NativeType, wire[2])[2]
          fs == NativeType.fields
          Same(field, Hash(_, _)) == \E i \in 1..Len(fs) :
            fs[i][1] = field /\ Hash(x[2][3][i][2], fs[i][2]) = Ok(TreeRoot(fs[i][2], v[i]))
      IN  CASE Schema0 = "ExecutionPayload" ->
                 /\ Same("transactions", LAMBDA xs, t :
                      hash_list_tree_root_typed(xs, t.max, "Transaction", Config))
                 /\ Same("withdrawals", LAMBDA xs, t : HashListTreeRoot(xs, t.max, Config))
            [] Schema0 \in {"HistoricalBatch", "BeaconState"} ->
                 \A field \in {"block_roots", "state_roots"} : Same(field, LAMBDA xs, t :
                   hash_vector_tree_root_typed(xs, t.len, "Root", Config))
            [] OTHER -> TRUE

(* A restart brings back exactly what was in memory when it was stored,    *)
(* also when the object came in altered or from the laxer decoder          *)
(* (store_block_info, get_block_info).                                     *)
RestartKeepsObject == [][Restart => memory' = memory]_vars

(* SszEx.decode answers {:ok, _} or {:error, _} whatever the bytes.        *)
ResponseAlwaysAnswered == memory[1] \in {"none", "ok", "error"}
==============================================================================

--------------------------------- MODULE Blobs ---------------------------------
(***************************************************************************)
(* Blob sidecars: how a proposer makes them (block_builder.ex), how they   *)
(* come in by gossip and by request and are stored (gossip/blob_sidecar.ex,*)
(* pending_blocks.ex, store/blobs.ex, store/blob_db.ex), and how a block   *)
(* is imported or refused for what is stored (handlers.ex, data_available?)*)
(* The database keeps a sidecar and its blob in rows written one after the *)
(* other. Every block's parent is there.                                   *)
(***************************************************************************)
EXTENDS Integers, Sequences, FiniteSets, SequencesExt

CONSTANTS Short, Junk, SetupFound,
          Block,
          BlobsOf,         \* [Block -> sequence of blobs]
          Mixed,           \* blocks of which wrong sidecars go around
          MaxDeliveries, MaxCrashes     \* bounds

K == INSTANCE Kzg

VARIABLES
  made,         \* sidecars on the network
  sidecar,      \* database: sidecar rows, by <<block, index>>
  blobdata,     \* database: blob and proof rows, by <<block, index>>
  status,       \* BlockInfo.status; "none" when unknown
  requests,     \* identifiers asked for, by root
  handler,      \* the message being handled: sidecars to store, row to write
  imported,     \* what data_available? saw of a block that was imported
  deliveries, crashes

vars == <<made, sidecar, blobdata, status, requests, handler, imported,
          deliveries, crashes>>

None == <<>>
Idle == [todo |-> <<>>, row |-> 0, roots |-> {}, blocks |-> FALSE]
Ids == {<<b, i>> : b \in Block, i \in 0..8}

commitments(b) == [i \in 1..Len(BlobsOf[b]) |-> K!blob_to_kzg_commitment(BlobsOf[b][i])[2]]

(* What the library makes of a blob. *)
Terms(x) ==
  LET c == K!Commitment(x)
      z == K!Challenge(x, c)
  IN  {c, z, K!Value(x, z), K!Opening(x, z)}

(* The blocks are those that have blobs, as many as an index tells apart;  *)
(* what the library makes of a blob it does not refuse.                    *)
ASSUME BlobsAssumption ==
  \A b \in Block :
    /\ BlobsOf[b] \in Seq(ToSet(BlobsOf[b])) /\ Len(BlobsOf[b]) \in 1..9
    /\ \A x \in ToSet(BlobsOf[b]) : {Short, Junk} \cap Terms(x) = {}

(***************************************************************************)
(* Sidecars.                                                               *)
(***************************************************************************)
(* The inclusion proof follows from the block and the index. *)
generate_sidecars(b) ==
  LET cs == commitments(b)
  IN  [i \in 1..Len(BlobsOf[b]) |->
         [block |-> b, index |-> i - 1, blob |-> BlobsOf[b][i], commitment |-> cs[i],
          proof |-> K!compute_blob_kzg_proof(BlobsOf[b][i], cs[i])[2]]]

(* Sidecars with the data of another index of the block, with or without   *)
(* its commitment: gossip takes them as they are.                          *)
WithData(x, y) == [x EXCEPT !.blob = y.blob, !.proof = y.proof]
WithAll(x, y) == [WithData(x, y) EXCEPT !.commitment = y.commitment]
Wrong(scs) == {WithData(x, y) : x \in scs, y \in scs} \cup {WithAll(x, y) : x \in scs, y \in scs}

Id(sc) == <<sc.block, sc.index>>

(* A sidecar with the block's commitment at its index is not missing. *)
missing_for_block(b) ==
  {i \in 0..(Len(BlobsOf[b]) - 1) :
     \/ sidecar[<<b, i>>] = None
     \/ sidecar[<<b, i>>] # None /\ sidecar[<<b, i>>].commitment # commitments(b)[i + 1]}

\* Variant: from the second blob on.
BlobRowsFromOne(b) == [i \in 1..Len(BlobsOf[b]) |-> blobdata[<<b, i>>]]
BlobRows(b) == [i \in 1..Len(BlobsOf[b]) |-> blobdata[<<b, i - 1>>]]
data_available(b) ==
  LET rows == BlobRows(b)
  IN  \/ rows = <<>>
      \/ /\ \A i \in 1..Len(rows) : rows[i] # None
         /\ K!blob_kzg_proof_batch_valid([i \in 1..Len(rows) |-> rows[i][1]], commitments(b),
                                         [i \in 1..Len(rows) |-> rows[i][2]])

(* process_block: nothing else keeps a block from being imported here. *)
ProcessBlocks(bs) ==
  LET good == {b \in bs : data_available(b)}
  IN  /\ status' = [b \in Block |-> IF b \in good THEN "transitioned"
                                    ELSE IF b \in bs THEN "invalid" ELSE status[b]]
      /\ imported' = [b \in Block |-> IF b \in good THEN BlobRows(b) ELSE imported[b]]

Init ==
  /\ made = {} /\ requests = {} /\ handler = Idle
  /\ sidecar = [id \in Ids |-> None] /\ blobdata = [id \in Ids |-> None]
  /\ status = [b \in Block |-> "none"] /\ imported = [b \in Block |-> None]
  /\ deliveries = 0 /\ crashes = 0

Published(scs, b) == scs \cup (IF b \in Mixed THEN Wrong(scs) ELSE {})

(* A block is proposed: by another node, or by this one, which stores the  *)
(* sidecars as it makes them and then publishes them.                      *)
Propose ==
  /\ handler = Idle
  /\ \E b \in Block, own \in BOOLEAN :
       LET scs == generate_sidecars(b) IN
       /\ ~\E sc \in made : sc.block = b
       /\ sidecar[<<b, 0>>] = None
       /\ IF own THEN /\ handler' = [todo |-> scs, row |-> 1, roots |-> {b}, blocks |-> FALSE]
                      /\ made' = made
          ELSE made' = made \cup Published(ToSet(scs), b) /\ handler' = Idle
  /\ UNCHANGED <<sidecar, blobdata, status, requests, imported, deliveries, crashes>>

(* The handler of a gossiped sidecar, in any order and again and again. *)
ReceiveSidecar ==
  /\ handler = Idle /\ deliveries < MaxDeliveries
  /\ \E sc \in made :
       handler' = [todo |-> <<sc>>, row |-> 1, roots |-> {sc.block}, blocks |-> TRUE]
  /\ deliveries' = deliveries + 1
  /\ UNCHANGED <<made, sidecar, blobdata, status, requests, imported, crashes>>

(* A peer answers a request by root with what it has. *)
ReceiveAnswer ==
  /\ handler = Idle
  /\ \E ids \in requests, b \in Block :
       LET known == {sc \in ToSet(generate_sidecars(b)) : Id(sc) \in ids} IN
       /\ known # {} /\ requests' = requests \ {ids}
       /\ \E S \in SUBSET known :
            handler' = IF S = {} THEN Idle
                       ELSE [todo |-> SetToSeq(S), row |-> 1, roots |-> {b}, blocks |-> TRUE]
  /\ UNCHANGED <<made, sidecar, blobdata, status, imported, deliveries, crashes>>

(* add_block of a new block. *)
AddBlock ==
  /\ handler = Idle
  /\ \E b \in Block :
       LET missing == missing_for_block(b) IN
       /\ status[b] = "none" /\ \E sc \in made : sc.block = b
       /\ IF missing = {} THEN ProcessBlocks({b}) /\ requests' = requests
          ELSE /\ status' = [status EXCEPT ![b] = "download_blobs"]
               /\ requests' = requests \cup {{<<b, i>> : i \in missing}}
               /\ imported' = imported
  /\ UNCHANGED <<made, sidecar, blobdata, handler, deliveries, crashes>>

(* store_blob: the sidecar's row, then the blob's. The third row, the root *)
(* of the block by slot and index, is read by range requests only.         *)
StoreSidecar ==
  /\ handler.todo # <<>> /\ handler.row = 1
  /\ sidecar' = [sidecar EXCEPT ![Id(handler.todo[1])] = handler.todo[1]]
  /\ handler' = [handler EXCEPT !.row = 2]
  /\ UNCHANGED <<made, blobdata, status, requests, imported, deliveries, crashes>>
StoreBlob ==
  /\ handler.todo # <<>> /\ handler.row = 2
  /\ LET sc == handler.todo[1] IN
     blobdata' = [blobdata EXCEPT ![Id(sc)] = <<sc.blob, sc.proof>>]
  /\ IF Tail(handler.todo) = <<>> /\ ~handler.blocks
     THEN /\ handler' = Idle
          /\ \E b \in handler.roots :
               made' = made \cup Published(ToSet(generate_sidecars(b)), b)
     ELSE handler' = [handler EXCEPT !.todo = Tail(@), !.row = 1] /\ made' = made
  /\ UNCHANGED <<sidecar, status, requests, imported, deliveries, crashes>>

(* process_blobs, when all its sidecars are stored. *)
ProcessBlobs ==
  /\ handler.blocks /\ handler.todo = <<>>
  /\ ProcessBlocks({b \in handler.roots : status[b] = "download_blobs" /\ missing_for_block(b) = {}})
  /\ handler' = Idle
  /\ UNCHANGED <<made, sidecar, blobdata, requests, deliveries, crashes>>

(* The process ends and starts again. *)
Crash ==
  /\ crashes < MaxCrashes
  /\ crashes' = crashes + 1 /\ handler' = Idle /\ requests' = {}
  /\ UNCHANGED <<made, sidecar, blobdata, status, imported, deliveries>>

Next == \/ Propose \/ ReceiveSidecar \/ ReceiveAnswer \/ AddBlock
        \/ StoreSidecar \/ StoreBlob \/ ProcessBlobs \/ Crash

Spec == Init /\ [][Next]_vars

(***************************************************************************)
(* Properties.                                                             *)
(***************************************************************************)
(* A block that was imported had the blobs it commits to, in their order,  *)
(* however its sidecars were mixed up, repeated or torn by a crash, and    *)
(* whichever way to verify them is taken: each alone, or by the opening of *)
(* its polynomial (data_available?, verify_blob_kzg_proof_batch).          *)
ImportedIsCommitted ==
  \A b \in Block : imported[b] # None => \A i \in 1..Len(BlobsOf[b]) :
    LET blob == imported[b][i][1]
        proof == imported[b][i][2]
        c == commitments(b)[i]
        z == K!Challenge(blob, c)
    IN  /\ K!blob_to_kzg_commitment(blob) = K!Ok(c)
        /\ K!IsTrue(K!verify_blob_kzg_proof(blob, c, proof))
        /\ K!IsTrue(K!verify_kzg_proof(c, z, K!compute_kzg_proof(blob, z)[2][2], proof))

(* Without a crash a block of which only its own sidecars go around is     *)
(* never refused, in whatever order and number they come in by gossip, by  *)
(* request and from this node's own proposal (missing_for_block against    *)
(* data_available?, which read different rows).                            *)
NeverRefused ==
  crashes = 0 => \A b \in Block \ Mixed : status[b] # "invalid"

(* "Returns true if the blob's data is available from the network": a      *)
(* block is refused only when a sidecar of it was wrong.                   *)
RefusedForWrongBlobs == \A b \in Block \ Mixed : status[b] # "invalid"
==============================================================================

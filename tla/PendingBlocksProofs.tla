------------------------ MODULE PendingBlocksProofs ------------------------
(***************************************************************************)
(* Proofs about PendingBlocks, for every tree of blocks and all faults.    *)
(***************************************************************************)
EXTENDS PendingBlocks, RecursionTheorems, SequenceTheorems, TLAPS

\* The inductive invariant of the type correctness proof.
TypeInv == TypeOK /\ HandlerOK

\* The database writes of a status change are a sequence of writes.
LEMMA ThreeWrites ==
    ASSUME NEW x \in Writes, NEW y \in Writes, NEW z \in Writes
    PROVE  <<x>> \o <<y, z>> \in Seq(Writes) /\ Head(<<x>> \o <<y, z>>) = x /\ <<x>> \o <<y, z>> # <<>>
  BY DEF Writes

\* The writes of Blocks.new_block_info/1 are well-typed.
LEMMA NewBlockInfoType ==
    ASSUME NEW r \in Root \ {Anchor}, NEW s \in Status
    PROVE  /\ new_block_info(r, s) \in Seq(Writes)
           /\ new_block_info(r, s) # <<>>
           /\ Head(new_block_info(r, s)) = Write("put", r, s)
<1>1. Write("put", r, s) \in Writes /\ Write("remove", r, "download") \in Writes /\ Write("add", r, s) \in Writes
  BY DEF Write, Writes, Status
<1> QED BY <1>1, ThreeWrites DEF new_block_info, change_root_status

\* The writes of Blocks.change_status/2 are well-typed for a stored block.
LEMMA ChangeStatusType ==
    ASSUME NEW r \in Root \ {Anchor}, NEW s \in Status, info[r] \in Status
    PROVE  /\ change_status(r, s) \in Seq(Writes)
           /\ change_status(r, s) # <<>>
           /\ Head(change_status(r, s)) = Write("put", r, s)
           /\ <<Write("persist", r, s)>> \o change_status(r, s) \in Seq(Writes)
<1>1. Write("put", r, s) \in Writes /\ Write("remove", r, info[r]) \in Writes /\ Write("add", r, s) \in Writes
  BY DEF Write, Writes, Status
<1>2. change_status(r, s) \in Seq(Writes) /\ change_status(r, s) # <<>> /\ Head(change_status(r, s)) = Write("put", r, s)
  BY <1>1, ThreeWrites DEF change_status, change_root_status
<1>3. Write("persist", r, s) \in Writes
  BY DEF Write, Writes
<1> QED BY <1>2, <1>3

\* Store.update_tree/3 keeps a tree on the anchor.
LEMMA UpdateTreeType ==
    ASSUME NEW t, IsTree(t), NEW r \in Root
    PROVE  /\ IsTree(update_tree(t, r))
           /\ DOMAIN update_tree(t, r).nodes \subseteq DOMAIN t.nodes \cup {r}
<1> DEFINE new == AddBlock(t, r, ParentOf[r])
<1>1. CASE new = NotFound
  BY <1>1 DEF update_tree
<1>2. CASE new # NotFound
  <2>p. ParentOf[r] \in DOMAIN t.nodes
    BY <1>2 DEF AddBlock
  <2>1. update_tree(t, r) = [root |-> t.root, nodes |-> AddNode(t.nodes, r, ParentOf[r])]
    BY <1>2 DEF update_tree, AddBlock
  <2>2. AddNode(t.nodes, r, ParentOf[r]) \in [DOMAIN t.nodes \cup {r} -> SUBSET Root]
    BY <2>p DEF IsTree, AddNode
  <2> QED BY <2>1, <2>2 DEF IsTree
<1> QED BY <1>1, <1>2

\* The anchor's tree is one.
LEMMA NewTreeType == IsTree(NewTree(Anchor)) /\ DOMAIN NewTree(Anchor).nodes = {Anchor}
  BY BlocksAssumption DEF NewTree, IsTree

\* The initial state is well-typed.
LEMMA InitType == Init => TypeInv
  BY NewTreeType, BlocksAssumption, BoundsAssumption
  DEF Init, TypeInv, TypeOK, HandlerOK, IsStore, ForkStore, Status, Writes, Requests

\* One outcome of process_block/2 on a stored block keeps what it changes typed.
LEMMA ProcessBlockType ==
    ASSUME TypeInv, NEW r \in Root \ {Anchor}, info[r] # "none",
           NEW settled \in {"blocks", "batch"}, NEW other \in {"return", "batch"},
           process_block(r, settled, other)
    PROVE  /\ writes' \in Seq(Writes)
           /\ requests' \subseteq Requests
           /\ IsStore(work')
           /\ saving' \subseteq Root
           /\ pc' \in {"blocks", "batch", "return"}
<1>1. info[r] \in Status /\ ParentOf[r] \in Root
  BY BlocksAssumption DEF TypeInv, TypeOK
<1>2. CASE DownloadParent(r, other)
  <2>1. ParentOf[r] \in Root \ {Anchor}
    BY <1>1, <1>2 DEF TypeInv, HandlerOK, DownloadParent
  <2>2. Request("block", ParentOf[r], MaxRetries) \in Requests
    BY <2>1, BoundsAssumption DEF Request, Requests
  <2> QED BY <1>2, <2>1, <2>2, NewBlockInfoType DEF DownloadParent, TypeInv, TypeOK, Status
<1>3. CASE InheritInvalid(r, settled)
  BY <1>1, <1>3, ChangeStatusType DEF InheritInvalid, TypeInv, TypeOK, Status
<1>4. CASE Transition(r, settled)
  <2>1. IsStore(work')
    BY <1>1, <1>4, UpdateTreeType DEF Transition, TypeInv, TypeOK, IsStore, ForkStore
  <2> QED BY <1>1, <1>4, <2>1, ChangeStatusType DEF Transition, TypeInv, TypeOK, Status
<1>5. CASE Reject(r, settled)
  BY <1>1, <1>5, ChangeStatusType DEF Reject, TypeInv, TypeOK, Status
<1>6. CASE AwaitParent(r, other)
  BY <1>6 DEF AwaitParent, TypeInv, TypeOK
<1> QED BY <1>2, <1>3, <1>4, <1>5, <1>6 DEF process_block

\* A database write keeps the types.
LEMMA WriteType ==
    ASSUME TypeInv,
           store_block_info \/ remove_root_from_status \/ add_root_to_status \/ persist_store
    PROVE  TypeInv'
<1>1. /\ writes # <<>> /\ writes' = Tail(writes)
      /\ Head(writes) \in Writes /\ Tail(writes) \in Seq(Writes)
      /\ UNCHANGED <<sup, port, pc, cur, batch, work, keep>>
  BY DEF TypeInv, TypeOK, store_block_info, remove_root_from_status, add_root_to_status, persist_store, Pop
<1>2. /\ Head(writes).root \in Root \ {Anchor} /\ Head(writes).status \in Status
      /\ "none" \notin Status
  BY <1>1 DEF Writes, Status
<1>3. CASE store_block_info
  <2>1. /\ info' \in [Root -> Status \cup {"none"}]
        /\ info'[Anchor] = "transitioned"
        /\ \A r \in Root : info[r] # "none" => info'[r] # "none"
        /\ info'[Head(writes).root] # "none"
    BY <1>2, <1>3, BlocksAssumption DEF store_block_info, TypeInv, TypeOK, HandlerOK
  <2> QED BY <1>1, <1>2, <1>3, <2>1 DEF store_block_info, TypeInv, TypeOK, HandlerOK, sup, port
<1>4. CASE remove_root_from_status \/ add_root_to_status \/ persist_store
  <2>1. Head(writes).op # "put" /\ UNCHANGED <<info, blobs, states>>
    BY <1>4 DEF remove_root_from_status, add_root_to_status, persist_store
  <2>2. index' \in [Status -> SUBSET (Root \ {Anchor})]
    BY <1>2, <1>4 DEF remove_root_from_status, add_root_to_status, persist_store, TypeInv, TypeOK
  <2>3. IsTree(saved')
    BY <1>4 DEF remove_root_from_status, add_root_to_status, persist_store, TypeInv, TypeOK, IsStore
  <2> QED BY <1>1, <2>1, <2>2, <2>3 DEF TypeInv, TypeOK, HandlerOK, sup, port
<1> QED BY <1>3, <1>4

\* The steps of process_blocks/1 and of process_block_and_check_children/2,
\* and the end of a handler, keep the types.
LEMMA StepType ==
    ASSUME TypeInv,
           ProcessBlockAndCheckChildren \/ ProcessBlocks \/ ProcessNext \/ Return
    PROVE  TypeInv'
<1>1. CASE ProcessBlockAndCheckChildren
  <2>1. cur \in Root \ {Anchor} /\ info[cur] # "none"
    BY <1>1 DEF ProcessBlockAndCheckChildren, TypeInv, TypeOK, HandlerOK
  <2>2. process_block(cur, "blocks", "return") /\ UNCHANGED <<cur, batch, db, sup, slot, store, keep>>
    BY <1>1 DEF ProcessBlockAndCheckChildren, process_block
  <2>3. /\ writes' \in Seq(Writes) /\ requests' \subseteq Requests /\ IsStore(work')
        /\ saving' \subseteq Root /\ pc' \in {"blocks", "batch", "return"}
    BY <2>1, <2>2, ProcessBlockType
  <2> QED BY <2>2, <2>3 DEF TypeInv, TypeOK, HandlerOK, db, sup
<1>2. CASE ProcessBlocks
  BY <1>2 DEF ProcessBlocks, TypeInv, TypeOK, HandlerOK, Status, db, sup, port
<1>3. CASE ProcessNext
  <2>1. PICK r \in batch : batch' = batch \ {r} /\ process_block(r, "batch", "batch")
    BY <1>3 DEF ProcessNext
  <2>2. r \in Root \ {Anchor} /\ info[r] # "none"
    BY DEF TypeInv, TypeOK, HandlerOK
  <2>3. UNCHANGED <<cur, db, sup, slot, store, keep>>
    BY <1>3, <2>1 DEF ProcessNext, process_block
  <2>4. /\ writes' \in Seq(Writes) /\ requests' \subseteq Requests /\ IsStore(work')
        /\ saving' \subseteq Root /\ pc' \in {"blocks", "batch", "return"}
    BY <2>1, <2>2, ProcessBlockType
  <2> QED BY <2>1, <2>3, <2>4 DEF TypeInv, TypeOK, HandlerOK, db, sup
<1>4. CASE Return
  BY <1>4, BlocksAssumption DEF Return, TypeInv, TypeOK, HandlerOK, db, sup
<1> QED BY <1>1, <1>2, <1>3, <1>4

\* Taking in a block keeps the types.
LEMMA AddBlockType ==
    ASSUME TypeInv, NEW r \in Root \ {Anchor}, NEW reqs \in SUBSET Requests, add_block(r, reqs)
    PROVE  TypeInv'
<1>1. UNCHANGED <<db, sup, slot, store, saving, batch, work, keep>> /\ pc = "idle"
  BY DEF add_block
<1>2. CASE AddComplete(r, reqs)
  <2>1. /\ writes' \in Seq(Writes) /\ writes' # <<>>
        /\ Head(writes') = Write("put", r, "pending")
    BY <1>2, NewBlockInfoType DEF AddComplete, Status
  <2>2. Head(writes').op = "put" /\ Head(writes').root = r
    BY <2>1 DEF Write
  <2>3. pc' = "block" /\ cur' = r /\ requests' = reqs
    BY <1>2 DEF AddComplete
  <2> QED BY <1>1, <2>1, <2>2, <2>3 DEF TypeInv, TypeOK, HandlerOK, db, sup
<1>3. CASE AddIncomplete(r, reqs)
  <2>1. Request("blobs", r, MaxRetries) \in Requests
    BY BoundsAssumption DEF Request, Requests
  <2> QED BY <1>1, <1>3, <2>1, NewBlockInfoType DEF AddIncomplete, TypeInv, TypeOK, HandlerOK, Status, db, sup
<1>4. CASE AddKnown(r, reqs)
  BY <1>1, <1>4 DEF AddKnown, TypeInv, TypeOK, HandlerOK, db, sup
<1> QED BY <1>2, <1>3, <1>4 DEF add_block

\* Taking in blobs keeps the types.
LEMMA ProcessBlobsType ==
    ASSUME TypeInv, NEW r \in Root \ {Anchor}, NEW ids \in SUBSET BlobsOf[r],
           process_blobs(r, ids), requests' \subseteq Requests
    PROVE  TypeInv'
<1>1. blobs' \subseteq Root \X Nat
  BY BlocksAssumption DEF process_blobs, TypeInv, TypeOK
<1>2. pc = "idle" /\ UNCHANGED <<info, index, states, saved, sup, slot, store, saving, batch, work>>
  BY DEF process_blobs
<1>3. CASE UNCHANGED <<pc, cur, keep, writes>>
  BY <1>1, <1>2, <1>3 DEF TypeInv, TypeOK, HandlerOK, sup
<1>4. CASE /\ info[r] = "download_blobs" /\ writes' = change_status(r, "pending")
           /\ pc' = "block" /\ cur' = r /\ keep' = FALSE
  <2>1. writes' \in Seq(Writes)
    BY <1>4, ChangeStatusType DEF Status
  <2> QED BY <1>1, <1>2, <1>4, <2>1 DEF TypeInv, TypeOK, HandlerOK, sup
<1> QED BY <1>3, <1>4 DEF process_blobs

\* Every step keeps the types.
LEMMA NextType == TypeInv /\ [Next]_vars => TypeInv'
<1> SUFFICES ASSUME TypeInv, [Next]_vars PROVE TypeInv'
  OBVIOUS
<1>1. CASE HandlerStep
  BY <1>1, WriteType, StepType DEF HandlerStep
<1>2. CASE SaveState
  BY <1>2 DEF SaveState, TypeInv, TypeOK, HandlerOK, sup, handler
<1>3. CASE GossipBlock \/ SyncedBlock
  BY <1>3, AddBlockType DEF GossipBlock, SyncedBlock, TypeInv, TypeOK
<1>4. CASE DownloadedBlock
  <2>1. PICK q \in requests : add_block(q.root, requests \ {q})
    BY <1>4 DEF DownloadedBlock
  <2>2. q.root \in Root \ {Anchor} /\ requests \ {q} \in SUBSET Requests
    BY DEF TypeInv, TypeOK, Requests
  <2> QED BY <2>1, <2>2, AddBlockType
<1>5. CASE GossipBlob
  <2>1. PICK r \in Root \ {Anchor} : \E i \in BlobsOf[r] : process_blobs(r, {i}) /\ UNCHANGED requests
    BY <1>5 DEF GossipBlob
  <2>2. PICK i \in BlobsOf[r] : process_blobs(r, {i}) /\ UNCHANGED requests
    BY <2>1
  <2> QED BY <2>2, ProcessBlobsType DEF TypeInv, TypeOK
<1>6. CASE DownloadedBlobs
  <2>1. PICK q \in requests : \E ids \in SUBSET BlobsOf[q.root] :
           process_blobs(q.root, ids) /\ requests' = requests \ {q}
    BY <1>6 DEF DownloadedBlobs
  <2>2. q.root \in Root \ {Anchor} /\ requests' \subseteq Requests
    BY <2>1 DEF TypeInv, TypeOK, Requests
  <2> QED BY <2>1, <2>2, ProcessBlobsType
<1>7. CASE ReplyError
  <2>1. PICK q \in requests :
           requests' = (requests \ {q}) \cup
              IF q.retries > 0 THEN {Request(q.kind, q.root, q.retries - 1)} ELSE {}
    BY <1>7 DEF ReplyError
  <2>2. requests' \subseteq Requests
    <3>1. q \in Requests
      BY DEF TypeInv, TypeOK
    <3>2. q.retries > 0 => Request(q.kind, q.root, q.retries - 1) \in Requests
      BY <3>1, BoundsAssumption DEF Requests, Request
    <3> QED BY <2>1, <3>2 DEF TypeInv, TypeOK
  <2> QED BY <1>7, <2>2 DEF ReplyError, TypeInv, TypeOK, HandlerOK, db, sup, handler
<1>8. CASE Tick
  BY <1>8, BoundsAssumption DEF Tick, TypeInv, TypeOK, HandlerOK, IsStore, sup, handler
<1>9. CASE SupervisorRestart \/ NodeRestart
  <2>1. PICK tree \in {boot, saved} : StartFrom(tree) /\ boot' \in {boot, saved}
    BY <1>9 DEF SupervisorRestart, NodeRestart
  <2>2. IsTree(tree) /\ IsTree(boot') /\ IsStore(ForkStore(tree, {}))
    BY <2>1 DEF TypeInv, TypeOK, IsStore, ForkStore
  <2>3. restarts' \in 0..MaxRestarts
    BY <2>1, BoundsAssumption DEF StartFrom, TypeInv, TypeOK
  <2> QED BY <2>1, <2>2, <2>3, BlocksAssumption DEF StartFrom, TypeInv, TypeOK, HandlerOK, db
<1>10. CASE UNCHANGED vars
  BY <1>10 DEF vars, db, sup, port, handler, TypeInv, TypeOK, HandlerOK
<1> QED BY <1>1, <1>2, <1>3, <1>4, <1>5, <1>6, <1>7, <1>8, <1>9, <1>10 DEF Next

\* The block pipeline is type-correct: database, store, requests and the work
\* of the running handler keep their types through every handler, fault and
\* restart, and a block is stored before it is processed.
THEOREM TypeCorrect == Spec => []TypeOK
<1>1. Init => TypeInv
  BY InitType
<1>2. TypeInv /\ [Next]_vars => TypeInv'
  BY NextType
<1>3. TypeInv => TypeOK
  BY DEF TypeInv
<1> QED BY <1>1, <1>2, <1>3, PTL DEF Spec
-----------------------------------------------------------------------------
(* Only verified blocks enter the fork choice.                              *)

SafeInv == TypeInv /\ OnlyVerifiedBlocks /\ WritesVerified

\* A sequence of writes puts no unverified block.
PutsOnly(ws, V) ==
    \A i \in 1..Len(ws) : ws[i].op = "put" /\ ws[i].status = "transitioned" => ws[i].root \in V

\* Concatenation keeps it.
LEMMA ConcatPuts ==
    ASSUME NEW S, NEW x \in Seq(S), NEW y \in Seq(S), NEW V, PutsOnly(x, V), PutsOnly(y, V)
    PROVE  PutsOnly(x \o y, V)
<1>1. /\ x \o y \in Seq(S) /\ Len(x \o y) = Len(x) + Len(y)
      /\ \A i \in 1 .. Len(x) + Len(y) : (x \o y)[i] = IF i <= Len(x) THEN x[i] ELSE y[i - Len(x)]
  BY ConcatProperties
<1>2. Len(x) \in Nat /\ Len(y) \in Nat
  BY LenProperties
<1> QED BY <1>1, <1>2 DEF PutsOnly

\* The rest of the writes puts no more than they did.
LEMMA TailPuts ==
    ASSUME NEW S, NEW ws \in Seq(S), ws # <<>>, NEW V, PutsOnly(ws, V)
    PROVE  PutsOnly(Tail(ws), V)
<1>1. /\ Tail(ws) \in Seq(S) /\ Len(Tail(ws)) = Len(ws) - 1
      /\ \A i \in 1 .. Len(Tail(ws)) : Tail(ws)[i] = ws[i + 1]
  BY HeadTailProperties
<1>2. Len(ws) \in Nat
  BY LenProperties
<1> QED BY <1>1, <1>2 DEF PutsOnly

\* What the writes of a status change put.
LEMMA StatusPuts ==
    ASSUME NEW r \in Root, NEW s \in Status, NEW V, s = "transitioned" => r \in V
    PROVE  /\ PutsOnly(new_block_info(r, s), V)
           /\ PutsOnly(change_status(r, s), V)
           /\ PutsOnly(<<Write("persist", r, s)>> \o change_status(r, s), V)
<1> DEFINE S == [op : {"put", "remove", "add", "persist"}, root : Root, status : {s, "download", info[r]}]
           put == <<Write("put", r, s)>>
           persist == <<Write("persist", r, s)>>
           move(from) == <<Write("remove", r, from), Write("add", r, s)>>
<1>0. /\ Write("put", r, s) \in S /\ Write("persist", r, s) \in S /\ Write("add", r, s) \in S
      /\ \A from \in {"download", info[r]} : Write("remove", r, from) \in S
      /\ Write("put", r, s).root = r /\ Write("put", r, s).status = s
      /\ Write("persist", r, s).op # "put" /\ Write("add", r, s).op # "put"
      /\ \A from : Write("remove", r, from).op # "put"
  BY DEF Write
<1>1. put \in Seq(S) /\ PutsOnly(put, V) /\ persist \in Seq(S) /\ PutsOnly(persist, V)
  BY <1>0 DEF PutsOnly
<1>2. ASSUME NEW from \in {"download", info[r]}
      PROVE  move(from) \in Seq(S) /\ PutsOnly(move(from), V)
  BY <1>0 DEF PutsOnly
<1>3. ASSUME NEW from \in {"download", info[r]}
      PROVE  put \o move(from) \in Seq(S) /\ PutsOnly(put \o move(from), V)
  BY <1>1, <1>2, ConcatPuts, ConcatProperties
<1>4. PutsOnly(persist \o (put \o move(info[r])), V)
  BY <1>1, <1>3, ConcatPuts
<1> QED BY <1>3, <1>4 DEF new_block_info, change_status, change_root_status

\* The verified blocks.
VerifiedRoots == {r \in Root : Verified(r)}

\* Blobs are never removed, so what is verified stays verified.
LEMMA VerifiedStays ==
    ASSUME blobs \subseteq blobs'
    PROVE  VerifiedRoots \subseteq VerifiedRoots'
  BY DEF VerifiedRoots, Verified, missing_for_block

\* The invariant, in terms of the set of verified blocks.
LEMMA SafeInvAsSet ==
    ASSUME TypeInv
    PROVE  SafeInv <=>
             /\ \A r \in Root : info[r] = "transitioned" => r \in VerifiedRoots
             /\ DOMAIN store.tree.nodes \subseteq VerifiedRoots
             /\ DOMAIN work.tree.nodes \subseteq VerifiedRoots
             /\ DOMAIN saved.nodes \subseteq VerifiedRoots
             /\ DOMAIN boot.nodes \subseteq VerifiedRoots
             /\ PutsOnly(writes, VerifiedRoots)
<1>0. writes \in Seq(Writes)
  BY DEF TypeInv, TypeOK
<1>1. ASSUME NEW i \in 1..Len(writes) PROVE writes[i].root \in Root
  <2>1. writes[i] \in Writes
    BY <1>0, ElementOfSeq
  <2> QED BY <2>1 DEF Writes
<1> QED BY <1>1 DEF SafeInv, OnlyVerifiedBlocks, WritesVerified, PutsOnly, VerifiedRoots,
                    TypeInv, TypeOK, IsStore, IsTree

\* The initial state is safe.
LEMMA InitSafe == Init => SafeInv
<1> SUFFICES ASSUME Init PROVE SafeInv
  OBVIOUS
<1>1. Anchor \in VerifiedRoots
  BY BlocksAssumption DEF VerifiedRoots, Verified, missing_for_block
<1>2. PutsOnly(writes, VerifiedRoots)
  BY DEF Init, PutsOnly
<1>3. /\ DOMAIN store.tree.nodes = {Anchor} /\ DOMAIN work.tree.nodes = {Anchor}
      /\ DOMAIN saved.nodes = {Anchor} /\ DOMAIN boot.nodes = {Anchor}
  BY NewTreeType DEF Init, ForkStore
<1>4. \A r \in Root : info[r] = "transitioned" => r = Anchor
  BY DEF Init
<1> QED BY <1>1, <1>2, <1>3, <1>4, InitType, SafeInvAsSet

\* process_block/2 adds a block to the tree, or writes it as :transitioned,
\* only when on_block has verified it.
LEMMA ProcessBlockSafe ==
    ASSUME SafeInv, NEW r \in Root \ {Anchor}, NEW settled, NEW other,
           writes = <<>>, process_block(r, settled, other)
    PROVE  /\ DOMAIN work'.tree.nodes \subseteq VerifiedRoots
           /\ PutsOnly(writes', VerifiedRoots)
<1>1. DOMAIN work.tree.nodes \subseteq VerifiedRoots /\ PutsOnly(writes, VerifiedRoots)
  BY SafeInvAsSet DEF SafeInv
<1>2. ParentOf[r] \in Root
  BY BlocksAssumption
<1>3. CASE DownloadParent(r, other)
  BY <1>1, <1>2, <1>3, StatusPuts DEF DownloadParent, Status
<1>4. CASE InheritInvalid(r, settled) \/ Reject(r, settled)
  BY <1>1, <1>4, StatusPuts DEF InheritInvalid, Reject, Status
<1>5. CASE Transition(r, settled)
  <2>1. r \in VerifiedRoots
    BY <1>5 DEF Transition, on_block_ok, VerifiedRoots, Verified
  <2>2. IsTree(work.tree) /\ work'.tree = update_tree(work.tree, r)
    BY <1>5 DEF SafeInv, TypeInv, TypeOK, IsStore, Transition, ForkStore
  <2>3. DOMAIN work'.tree.nodes \subseteq DOMAIN work.tree.nodes \cup {r}
    BY <2>2, UpdateTreeType
  <2> QED BY <1>1, <1>5, <2>1, <2>3, StatusPuts DEF Transition, Status
<1>6. CASE AwaitParent(r, other)
  BY <1>1, <1>6 DEF AwaitParent
<1> QED BY <1>3, <1>4, <1>5, <1>6 DEF process_block

\* A step that keeps the blobs, the trees and the writes verified, and makes
\* no other block :transitioned, keeps the invariant.
LEMMA SafeStep ==
    ASSUME SafeInv, TypeInv', blobs \subseteq blobs',
           \A r \in Root : info'[r] = "transitioned" => info[r] = "transitioned" \/ r \in VerifiedRoots,
           DOMAIN store'.tree.nodes \subseteq VerifiedRoots,
           DOMAIN work'.tree.nodes \subseteq VerifiedRoots,
           DOMAIN saved'.nodes \subseteq VerifiedRoots,
           DOMAIN boot'.nodes \subseteq VerifiedRoots,
           PutsOnly(writes', VerifiedRoots)
    PROVE  SafeInv'
<1>1. VerifiedRoots \subseteq VerifiedRoots'
  BY VerifiedStays
<1>2. \A r \in Root : info'[r] = "transitioned" => r \in VerifiedRoots'
  BY <1>1, SafeInvAsSet DEF SafeInv
<1>3. PutsOnly(writes', VerifiedRoots')
  BY <1>1 DEF PutsOnly
<1>4. /\ DOMAIN store'.tree.nodes \subseteq VerifiedRoots'
      /\ DOMAIN work'.tree.nodes \subseteq VerifiedRoots'
      /\ DOMAIN saved'.nodes \subseteq VerifiedRoots'
      /\ DOMAIN boot'.nodes \subseteq VerifiedRoots'
  BY <1>1
<1>5. OnlyVerifiedBlocks'
  BY <1>2, <1>4 DEF OnlyVerifiedBlocks, VerifiedRoots
<1>6. WritesVerified'
  BY <1>3 DEF WritesVerified, PutsOnly, VerifiedRoots
<1> QED BY <1>5, <1>6 DEF SafeInv

\* Every step keeps the invariant.
LEMMA NextSafe == SafeInv /\ [Next]_vars => SafeInv'
<1> SUFFICES ASSUME SafeInv, [Next]_vars PROVE SafeInv'
  OBVIOUS
<1>t. TypeInv /\ TypeInv'
  BY NextType DEF SafeInv
<1>s. /\ \A r \in Root : info[r] = "transitioned" => r \in VerifiedRoots
      /\ DOMAIN store.tree.nodes \subseteq VerifiedRoots
      /\ DOMAIN work.tree.nodes \subseteq VerifiedRoots
      /\ DOMAIN saved.nodes \subseteq VerifiedRoots
      /\ DOMAIN boot.nodes \subseteq VerifiedRoots
      /\ PutsOnly(writes, VerifiedRoots)
  BY <1>t, SafeInvAsSet
<1>1. CASE store_block_info \/ remove_root_from_status \/ add_root_to_status \/ persist_store
  <2>1. /\ writes \in Seq(Writes) /\ writes # <<>> /\ writes' = Tail(writes)
        /\ UNCHANGED <<blobs, store, work, boot>> /\ saved' \in {saved, work.tree}
    BY <1>1, <1>t DEF store_block_info, remove_root_from_status, add_root_to_status, persist_store, Pop,
                      TypeInv, TypeOK, sup, port
  <2>2. PutsOnly(writes', VerifiedRoots)
    BY <1>s, <2>1, TailPuts
  <2>3. 1 \in 1..Len(writes) /\ Head(writes) = writes[1]
    BY <2>1
  <2>4. \A r \in Root : info'[r] = "transitioned" => info[r] = "transitioned" \/ r \in VerifiedRoots
    BY <1>1, <1>s, <1>t, <2>3 DEF store_block_info, remove_root_from_status, add_root_to_status, persist_store,
                             PutsOnly, TypeInv, TypeOK
  <2> QED BY <1>s, <1>t, <2>1, <2>2, <2>4, SafeStep
<1>2. CASE ProcessBlockAndCheckChildren
  <2>1. cur \in Root \ {Anchor} /\ writes = <<>> /\ process_block(cur, "blocks", "return")
    BY <1>2, <1>t DEF ProcessBlockAndCheckChildren, TypeInv, TypeOK, HandlerOK
  <2>2. UNCHANGED <<info, blobs, saved, boot, store>>
    BY <2>1 DEF process_block, db, sup
  <2> QED BY <1>s, <1>t, <2>1, <2>2, ProcessBlockSafe, SafeStep
<1>3. CASE ProcessNext
  <2>1. PICK r \in batch : process_block(r, "batch", "batch")
    BY <1>3 DEF ProcessNext
  <2>2. r \in Root \ {Anchor} /\ writes = <<>>
    BY <1>3, <1>t DEF ProcessNext, TypeInv, TypeOK
  <2>3. UNCHANGED <<info, blobs, saved, boot, store>>
    BY <2>1 DEF process_block, db, sup
  <2> QED BY <1>s, <1>t, <2>1, <2>2, <2>3, ProcessBlockSafe, SafeStep
<1>4. CASE ProcessBlocks \/ SaveState \/ ReplyError \/ Tick
  <2>1. UNCHANGED <<info, blobs, boot, store, work, writes>> /\ saved' \in {saved, store.tree}
    BY <1>4 DEF ProcessBlocks, SaveState, ReplyError, Tick, db, sup, port, handler
  <2> QED BY <1>s, <1>t, <2>1, SafeStep
<1>5. CASE Return
  <2>1. UNCHANGED <<info, blobs, saved, boot, writes>> /\ store' \in {store, work} /\ work' \in {store, work}
    BY <1>5 DEF Return, db, sup
  <2> QED BY <1>s, <1>t, <2>1, SafeStep
<1>6. CASE GossipBlock \/ SyncedBlock \/ DownloadedBlock
  <2>1. PICK r \in Root \ {Anchor}, reqs \in SUBSET Requests : add_block(r, reqs)
    BY <1>6, <1>t DEF GossipBlock, SyncedBlock, DownloadedBlock, TypeInv, TypeOK, Requests
  <2>2. UNCHANGED <<info, blobs, saved, boot, store, work>>
    BY <2>1 DEF add_block, db, sup
  <2>3. PutsOnly(writes', VerifiedRoots)
    BY <1>s, <2>1, StatusPuts DEF add_block, AddComplete, AddIncomplete, AddKnown, Status
  <2> QED BY <1>s, <1>t, <2>2, <2>3, SafeStep
<1>7. CASE GossipBlob \/ DownloadedBlobs
  <2>1. PICK r \in Root \ {Anchor} : \E ids : process_blobs(r, ids)
    BY <1>7, <1>t DEF GossipBlob, DownloadedBlobs, TypeInv, TypeOK, Requests
  <2>2. UNCHANGED <<info, saved, boot, store, work>> /\ blobs \subseteq blobs'
    BY <2>1 DEF process_blobs, sup
  <2>3. PutsOnly(writes', VerifiedRoots)
    BY <1>s, <2>1, StatusPuts DEF process_blobs, Status
  <2> QED BY <1>s, <1>t, <2>2, <2>3, SafeStep
<1>8. CASE SupervisorRestart \/ NodeRestart
  <2>1. PICK tree \in {boot, saved} : StartFrom(tree) /\ boot' \in {boot, saved}
    BY <1>8 DEF SupervisorRestart, NodeRestart
  <2>2. /\ UNCHANGED <<info, blobs, saved>> /\ store'.tree = tree /\ work'.tree = tree /\ writes' = <<>>
    BY <2>1 DEF StartFrom, ForkStore, db
  <2>3. PutsOnly(writes', VerifiedRoots)
    BY <2>2 DEF PutsOnly
  <2> QED BY <1>s, <1>t, <2>1, <2>2, <2>3, SafeStep
<1>9. CASE UNCHANGED vars
  <2>1. UNCHANGED <<info, blobs, saved, boot, store, work, writes>>
    BY <1>9 DEF vars, db, sup, port, handler
  <2> QED BY <1>s, <1>t, <2>1, SafeStep
<1> QED BY <1>1, <1>2, <1>3, <1>4, <1>5, <1>6, <1>7, <1>8, <1>9 DEF Next, HandlerStep

\* Whatever blocks arrive in whatever order, whatever peers and the execution
\* client answer, and wherever the node dies, a block that is :transitioned or
\* in a fork-choice tree has a valid transition and all its blobs.
THEOREM OnlyVerified == Spec => []OnlyVerifiedBlocks
<1>1. Init => SafeInv
  BY InitSafe
<1>2. SafeInv /\ [Next]_vars => SafeInv'
  BY NextSafe
<1>3. SafeInv => OnlyVerifiedBlocks
  BY DEF SafeInv
<1> QED BY <1>1, <1>2, <1>3, PTL DEF Spec

(***************************************************************************)
(* The statuses of blocks and the fork-choice tree, as long as the node    *)
(* stops only between handlers: for every set of blocks, whatever order    *)
(* they come in and whatever peers and the execution client answer.        *)
(***************************************************************************)

Verdicts == {"transitioned", "invalid"}

\* The statuses a root is listed under, and whether they are the one it has.
Listed(q) == {s \in Status : q \in index[s]}
Agrees(q) == Listed(q) = {info[q]} \ {"none"}

\* The three writes of a change of status, and what is left of them.
Adding(r, to) == <<Write("add", r, to)>>
Moving(r, from, to) == <<Write("remove", r, from), Write("add", r, to)>>
Changing(r, from, to) == <<Write("put", r, to), Write("remove", r, from), Write("add", r, to)>>
Persisting(r, from, to) ==
    <<Write("persist", r, to), Write("put", r, to), Write("remove", r, from), Write("add", r, to)>>

\* Where a change of status stands, for the writes that are left of it.
PutLeft(r, from, to) ==
    /\ writes \in {Changing(r, from, to), Persisting(r, from, to)}
    /\ Agrees(r) /\ info[r] \in {from, "none"} /\ info[r] \notin Verdicts
MoveLeft(r, from, to) ==
    /\ writes = Moving(r, from, to)
    /\ info[r] = to /\ Listed(r) \subseteq {from}
AddLeft(r, from, to) ==
    /\ writes = Adding(r, to)
    /\ info[r] = to /\ Listed(r) = {}

\* At most one change of status is under way, and the index agrees with the
\* block infos of all other roots.
OneChange ==
    \/ writes = <<>> /\ \A q \in Root \ {Anchor} : Agrees(q)
    \/ \E r \in Root \ {Anchor}, from \in Status, to \in Status :
          /\ \A q \in Root \ {Anchor, r} : Agrees(q)
          /\ PutLeft(r, from, to) \/ MoveLeft(r, from, to) \/ AddLeft(r, from, to)

\* The statuses as the handler has decided them: those in the database, and
\* the one that it has still to put there.
ToldOf(stored, ws) ==
    IF Len(ws) < 3 THEN stored
    ELSE [stored EXCEPT ![ws[Len(ws) - 2].root] = ws[Len(ws) - 2].status]
Told == ToldOf(info, writes)

\* The handler processes pending blocks only.
StatusInv ==
    /\ OneChange
    /\ pc = "idle" => writes = <<>>
    /\ pc # "batch" => batch = {}
    /\ \A q \in batch : Told[q] = "pending"
    /\ pc = "block" => Told[cur] = "pending"

\* What is told by each of the lists of writes.
LEMMA ToldIs ==
    ASSUME NEW stored, NEW r, NEW from, NEW to
    PROVE  /\ ToldOf(stored, <<>>) = stored
           /\ ToldOf(stored, Adding(r, to)) = stored
           /\ ToldOf(stored, Moving(r, from, to)) = stored
           /\ ToldOf(stored, Changing(r, from, to)) = [stored EXCEPT ![r] = to]
           /\ ToldOf(stored, Persisting(r, from, to)) = [stored EXCEPT ![r] = to]
<1>1. ToldOf(stored, <<>>) = stored
  BY DEF ToldOf
<1>2. ToldOf(stored, Adding(r, to)) = stored
  BY DEF ToldOf, Adding
<1>3. ToldOf(stored, Moving(r, from, to)) = stored
  BY DEF ToldOf, Moving
<1>4. ToldOf(stored, Changing(r, from, to)) = [stored EXCEPT ![r] = to]
  <2> DEFINE ws == Changing(r, from, to)
  <2>1. Len(ws) = 3 /\ ws[1] = Write("put", r, to)
    BY DEF Changing
  <2>2. ws[1].root = r /\ ws[1].status = to
    BY <2>1 DEF Write
  <2>3. ~(Len(ws) < 3) /\ Len(ws) - 2 = 1
    BY <2>1
  <2> QED BY <2>2, <2>3 DEF ToldOf
<1>5. ToldOf(stored, Persisting(r, from, to)) = [stored EXCEPT ![r] = to]
  <2> DEFINE ws == Persisting(r, from, to)
  <2>1. Len(ws) = 4 /\ ws[2] = Write("put", r, to)
    BY DEF Persisting
  <2>2. ws[2].root = r /\ ws[2].status = to
    BY <2>1 DEF Write
  <2>3. ~(Len(ws) < 3) /\ Len(ws) - 2 = 2
    BY <2>1
  <2> QED BY <2>2, <2>3 DEF ToldOf
<1> QED BY <1>1, <1>2, <1>3, <1>4, <1>5

\* The writes of Blocks.new_block_info/1 and Blocks.change_status/2.
LEMMA ChangesAre ==
    ASSUME NEW r, NEW to
    PROVE  /\ new_block_info(r, to) = Changing(r, "download", to)
           /\ change_status(r, to) = Changing(r, info[r], to)
           /\ <<Write("persist", r, to)>> \o change_status(r, to) = Persisting(r, info[r], to)
<1>1. \A x, y, z : <<x>> \o <<y, z>> = <<x, y, z>>
  <2> TAKE x, y, z
  <2> DEFINE S == {x, y, z}
  <2>1. <<x>> \in Seq(S) /\ <<y, z>> \in Seq(S) /\ <<x, y, z>> \in Seq(S)
    OBVIOUS
  <2> HIDE DEF S
  <2>2. /\ <<x>> \o <<y, z>> \in Seq(S) /\ Len(<<x>> \o <<y, z>>) = 3
        /\ (<<x>> \o <<y, z>>)[1] = x /\ (<<x>> \o <<y, z>>)[2] = y /\ (<<x>> \o <<y, z>>)[3] = z
    BY <2>1, ConcatProperties
  <2>3. \A i \in 1..3 : (<<x>> \o <<y, z>>)[i] = <<x, y, z>>[i]
    BY <2>2
  <2> QED BY <2>1, <2>2, <2>3, SeqEqual
<1>2. \A w, x, y, z : <<w>> \o <<x, y, z>> = <<w, x, y, z>>
  <2> TAKE w, x, y, z
  <2> DEFINE S == {w, x, y, z}
  <2>1. <<w>> \in Seq(S) /\ <<x, y, z>> \in Seq(S) /\ <<w, x, y, z>> \in Seq(S)
    OBVIOUS
  <2> HIDE DEF S
  <2>2. /\ <<w>> \o <<x, y, z>> \in Seq(S) /\ Len(<<w>> \o <<x, y, z>>) = 4
        /\ (<<w>> \o <<x, y, z>>)[1] = w /\ (<<w>> \o <<x, y, z>>)[2] = x
        /\ (<<w>> \o <<x, y, z>>)[3] = y /\ (<<w>> \o <<x, y, z>>)[4] = z
    BY <2>1, ConcatProperties
  <2>3. \A i \in 1..4 : (<<w>> \o <<x, y, z>>)[i] = <<w, x, y, z>>[i]
    BY <2>2
  <2> QED BY <2>1, <2>2, <2>3, SeqEqual
<1>3. /\ new_block_info(r, to) = Changing(r, "download", to)
      /\ change_status(r, to) = Changing(r, info[r], to)
  BY <1>1 DEF new_block_info, change_status, change_root_status, Changing
<1> QED BY <1>2, <1>3 DEF Changing, Persisting

\* The head and the tail of the writes.
LEMMA HeadsAndTails ==
    ASSUME NEW r, NEW from, NEW to
    PROVE  /\ Head(Adding(r, to)) = Write("add", r, to) /\ Tail(Adding(r, to)) = <<>>
           /\ Head(Moving(r, from, to)) = Write("remove", r, from)
           /\ Tail(Moving(r, from, to)) = Adding(r, to)
           /\ Head(Changing(r, from, to)) = Write("put", r, to)
           /\ Tail(Changing(r, from, to)) = Moving(r, from, to)
           /\ Head(Persisting(r, from, to)) = Write("persist", r, to)
           /\ Tail(Persisting(r, from, to)) = Changing(r, from, to)
  BY DEF Adding, Moving, Changing, Persisting

\* A database write makes one step of the change that is under way, tells
\* nothing new, and overwrites no verdict.
LEMMA WriteStatus ==
    ASSUME TypeInv, OneChange,
           store_block_info \/ remove_root_from_status \/ add_root_to_status \/ persist_store
    PROVE  /\ OneChange' /\ Told' = Told
           /\ \A q \in Root : info[q] \in Verdicts => info'[q] = info[q]
<1>1. /\ writes # <<>> /\ writes' = Tail(writes)
      /\ UNCHANGED <<sup, port, pc, cur, batch, work, keep>>
  BY DEF store_block_info, remove_root_from_status, add_root_to_status, persist_store, Pop
<1>2. PICK r \in Root \ {Anchor}, from \in Status, to \in Status :
          /\ \A q \in Root \ {Anchor, r} : Agrees(q)
          /\ PutLeft(r, from, to) \/ MoveLeft(r, from, to) \/ AddLeft(r, from, to)
  BY <1>1 DEF OneChange
<1>t. info \in [Root -> Status \cup {"none"}] /\ index \in [Status -> SUBSET (Root \ {Anchor})]
  BY DEF TypeInv, TypeOK
<1>w. /\ \A o, s : Write(o, r, s).op = o /\ Write(o, r, s).root = r /\ Write(o, r, s).status = s
  BY DEF Write
<1>3. CASE writes = Persisting(r, from, to)
  <2>1. Head(writes).op = "persist" /\ writes' = Changing(r, from, to)
    BY <1>1, <1>3, <1>w, HeadsAndTails
  <2>2. UNCHANGED <<info, index>>
    BY <2>1 DEF store_block_info, remove_root_from_status, add_root_to_status, persist_store
  <2>3. PutLeft(r, from, to)
    BY <1>2, <1>3 DEF MoveLeft, AddLeft, Persisting, Moving, Adding
  <2>4. PutLeft(r, from, to)' /\ \A q \in Root \ {Anchor, r} : Agrees(q)'
    BY <1>2, <2>1, <2>2, <2>3 DEF PutLeft, Agrees, Listed
  <2> QED BY <1>3, <2>1, <2>2, <2>4, ToldIs DEF OneChange, Told
<1>4. CASE writes = Changing(r, from, to)
  <2>1. Head(writes) = Write("put", r, to) /\ writes' = Moving(r, from, to)
    BY <1>1, <1>4, HeadsAndTails
  <2>2. info' = [info EXCEPT ![r] = to] /\ UNCHANGED index
    BY <1>w, <2>1 DEF store_block_info, remove_root_from_status, add_root_to_status, persist_store
  <2>3. PutLeft(r, from, to)
    BY <1>2, <1>4 DEF MoveLeft, AddLeft, Changing, Moving, Adding
  <2>4. MoveLeft(r, from, to)' /\ \A q \in Root \ {Anchor, r} : Agrees(q)'
    BY <1>2, <1>t, <2>1, <2>2, <2>3 DEF PutLeft, MoveLeft, Agrees, Listed
  <2>5. Told' = Told
    <3>1. Told = [info EXCEPT ![r] = to]
      BY <1>4, ToldIs DEF Told
    <3>2. Told' = info'
      BY <2>1, ToldIs DEF Told
    <3> QED BY <2>2, <3>1, <3>2
  <2> QED BY <1>t, <2>2, <2>3, <2>4, <2>5 DEF OneChange, PutLeft
<1>5. CASE writes = Moving(r, from, to)
  <2>1. Head(writes) = Write("remove", r, from) /\ writes' = Adding(r, to)
    BY <1>1, <1>5, HeadsAndTails
  <2>2. index' = [index EXCEPT ![from] = @ \ {r}] /\ UNCHANGED info
    BY <1>w, <2>1 DEF store_block_info, remove_root_from_status, add_root_to_status, persist_store
  <2>3. MoveLeft(r, from, to)
    BY <1>2, <1>5 DEF PutLeft, AddLeft, Persisting, Changing, Moving, Adding
  <2>4. Listed(r)' = {} /\ \A q \in Root \ {Anchor, r} : Listed(q)' = Listed(q)
    BY <1>t, <2>2, <2>3 DEF MoveLeft, Listed
  <2>5. AddLeft(r, from, to)' /\ \A q \in Root \ {Anchor, r} : Agrees(q)'
    BY <1>2, <2>1, <2>2, <2>3, <2>4 DEF AddLeft, MoveLeft, Agrees
  <2>6. Told' = Told
    BY <1>5, <2>1, <2>2, ToldIs DEF Told
  <2> QED BY <2>2, <2>5, <2>6 DEF OneChange
<1>6. CASE writes = Adding(r, to)
  <2>1. Head(writes) = Write("add", r, to) /\ writes' = <<>>
    BY <1>1, <1>6, HeadsAndTails
  <2>2. index' = [index EXCEPT ![to] = @ \cup {r}] /\ UNCHANGED info
    BY <1>w, <2>1 DEF store_block_info, remove_root_from_status, add_root_to_status, persist_store
  <2>3. AddLeft(r, from, to)
    BY <1>2, <1>6 DEF PutLeft, MoveLeft, Persisting, Changing, Moving, Adding
  <2>4. Listed(r)' = {to} /\ \A q \in Root \ {Anchor, r} : Listed(q)' = Listed(q)
    BY <1>t, <2>2, <2>3 DEF AddLeft, Listed
  <2>5. \A q \in Root \ {Anchor} : Agrees(q)'
    BY <1>2, <2>2, <2>3, <2>4 DEF AddLeft, Agrees, Status
  <2>6. Told' = Told
    <3>1. Told = info
      BY <1>6 DEF Told, ToldOf, Adding
    <3>2. Told' = info'
      BY <2>1, ToldIs DEF Told
    <3> QED BY <2>2, <3>1, <3>2
  <2> QED BY <2>1, <2>2, <2>5, <2>6 DEF OneChange
<1> QED BY <1>2, <1>3, <1>4, <1>5, <1>6 DEF PutLeft, MoveLeft, AddLeft

\* A handler that has nothing left to write decides on a status.
LEMMA Decides ==
    ASSUME TypeInv, OneChange, writes = <<>>, UNCHANGED <<info, index>>,
           NEW r \in Root \ {Anchor}, NEW from \in Status, NEW to \in Status,
           info[r] \in {from, "none"}, info[r] \notin Verdicts,
           writes' \in {Changing(r, from, to), Persisting(r, from, to)}
    PROVE  OneChange' /\ Told = info /\ Told' = [Told EXCEPT ![r] = to]
<1>1. \A q \in Root \ {Anchor} : Agrees(q)'
  BY DEF OneChange, Changing, Persisting, PutLeft, MoveLeft, AddLeft, Moving, Adding, Agrees, Listed
<1>2. PutLeft(r, from, to)'
  BY <1>1 DEF PutLeft
<1>3. Told = info
  BY DEF Told, ToldOf
<1>4. Told' = [info' EXCEPT ![r] = to]
  BY ToldIs DEF Told
<1>5. OneChange'
  BY <1>1, <1>2 DEF OneChange
<1> QED BY <1>3, <1>4, <1>5

\* A step that neither writes nor decides tells nothing new.
LEMMA NothingTold ==
    ASSUME OneChange, UNCHANGED <<info, index, writes>>
    PROVE  OneChange' /\ Told' = Told
  BY DEF OneChange, PutLeft, MoveLeft, AddLeft, Agrees, Listed, Told

\* What process_block/2 decides about a pending block.
LEMMA ProcessBlockStatus ==
    ASSUME TypeInv, OneChange, writes = <<>>, NEW r \in Root \ {Anchor}, info[r] = "pending",
           NEW settled, NEW other, process_block(r, settled, other)
    PROVE  /\ OneChange' /\ Told = info
           /\ \/ DownloadParent(r, other) /\ ParentOf[r] # Anchor
                 /\ Told' = [Told EXCEPT ![ParentOf[r]] = "download"]
              \/ (InheritInvalid(r, settled) \/ Reject(r, settled)) /\ Told' = [Told EXCEPT ![r] = "invalid"]
              \/ Transition(r, settled) /\ Told' = [Told EXCEPT ![r] = "transitioned"]
              \/ AwaitParent(r, other) /\ Told' = Told
<1>0. UNCHANGED <<info, index>> /\ Told = info
  BY DEF process_block, db, Told, ToldOf
<1>t. {"pending", "invalid", "download", "transitioned"} \subseteq Status /\ "pending" \notin Verdicts /\ "none" \notin Verdicts
  BY DEF Status, Verdicts
<1>1. CASE DownloadParent(r, other)
  <2>1. /\ ParentOf[r] \in Root \ {Anchor} /\ info[ParentOf[r]] = "none"
    BY <1>1, BlocksAssumption DEF DownloadParent, TypeInv, HandlerOK
  <2>2. writes' = Changing(ParentOf[r], "download", "download")
    BY <1>1, ChangesAre DEF DownloadParent
  <2> QED BY <1>0, <1>1, <1>t, <2>1, <2>2, Decides
<1>2. CASE InheritInvalid(r, settled) \/ Reject(r, settled)
  <2>1. writes' = Changing(r, info[r], "invalid")
    BY <1>2, ChangesAre DEF InheritInvalid, Reject
  <2> QED BY <1>0, <1>2, <1>t, <2>1, Decides
<1>3. CASE Transition(r, settled)
  <2>1. writes' = Persisting(r, info[r], "transitioned")
    BY <1>3, ChangesAre DEF Transition
  <2> QED BY <1>0, <1>3, <1>t, <2>1, Decides
<1>4. CASE AwaitParent(r, other)
  BY <1>0, <1>4, NothingTold DEF AwaitParent
<1> QED BY <1>1, <1>2, <1>3, <1>4 DEF process_block

\* What add_block/2 decides.
LEMMA AddBlockStatus ==
    ASSUME TypeInv, OneChange, writes = <<>>, NEW r \in Root \ {Anchor},
           NEW reqs, add_block(r, reqs)
    PROVE  /\ OneChange' /\ Told = info
           /\ \/ AddComplete(r, reqs) /\ Told' = [Told EXCEPT ![r] = "pending"]
              \/ AddIncomplete(r, reqs) /\ Told' = [Told EXCEPT ![r] = "download_blobs"]
              \/ AddKnown(r, reqs) /\ Told' = Told /\ writes' = <<>>
<1>0. UNCHANGED <<info, index>> /\ Told = info
  BY DEF add_block, db, Told, ToldOf
<1>t. {"pending", "download_blobs", "download"} \subseteq Status /\ {"none", "download"} \cap Verdicts = {}
  BY DEF Status, Verdicts
<1>1. CASE AddComplete(r, reqs)
  <2>1. writes' = Changing(r, "download", "pending") /\ info[r] \in {"download", "none"}
    BY <1>1, ChangesAre DEF AddComplete
  <2> QED BY <1>0, <1>1, <1>t, <2>1, Decides
<1>2. CASE AddIncomplete(r, reqs)
  <2>1. writes' = Changing(r, "download", "download_blobs") /\ info[r] \in {"download", "none"}
    BY <1>2, ChangesAre DEF AddIncomplete
  <2> QED BY <1>0, <1>2, <1>t, <2>1, Decides
<1>3. CASE AddKnown(r, reqs)
  BY <1>0, <1>3, NothingTold DEF AddKnown
<1> QED BY <1>1, <1>2, <1>3 DEF add_block

\* What process_blobs/2 decides.
LEMMA ProcessBlobsStatus ==
    ASSUME TypeInv, OneChange, writes = <<>>, NEW r \in Root \ {Anchor},
           NEW ids, process_blobs(r, ids)
    PROVE  /\ OneChange' /\ Told = info
           /\ \/ /\ info[r] = "download_blobs" /\ pc' = "block" /\ cur' = r
                 /\ Told' = [Told EXCEPT ![r] = "pending"]
              \/ UNCHANGED <<pc, cur, keep, writes>> /\ Told' = Told
<1>0. UNCHANGED <<info, index>> /\ Told = info
  BY DEF process_blobs, Told, ToldOf
<1>t. {"pending", "download_blobs"} \subseteq Status /\ "download_blobs" \notin Verdicts
  BY DEF Status, Verdicts
<1>1. CASE UNCHANGED <<pc, cur, keep, writes>>
  BY <1>0, <1>1, NothingTold
<1>2. CASE info[r] = "download_blobs" /\ writes' = change_status(r, "pending") /\ pc' = "block" /\ cur' = r
  <2>1. writes' = Changing(r, info[r], "pending")
    BY <1>2, ChangesAre
  <2> QED BY <1>0, <1>2, <1>t, <2>1, Decides
<1> QED BY <1>1, <1>2 DEF process_blobs

\* The handlers of blocks, with the block each is about.
LEMMA BlockHandlers ==
    ASSUME TypeInv, GossipBlock \/ SyncedBlock \/ DownloadedBlock
    PROVE  \E r \in Root \ {Anchor}, reqs \in SUBSET requests : add_block(r, reqs)
  BY DEF GossipBlock, SyncedBlock, DownloadedBlock, TypeInv, TypeOK, Requests

\* The handlers of blobs, with the block each is about.
LEMMA BlobHandlers ==
    ASSUME TypeInv, GossipBlob \/ DownloadedBlobs
    PROVE  \E r \in Root \ {Anchor} : \E ids : process_blobs(r, ids) /\ requests' \subseteq requests
  BY DEF GossipBlob, DownloadedBlobs, TypeInv, TypeOK, Requests

\* Every step of a node that stops only between handlers keeps the invariant,
\* and overwrites no verdict.
LEMMA NextStatus ==
    ASSUME TypeInv, StopsCleanly, StatusInv, [Next]_vars
    PROVE  /\ StatusInv' /\ StopsCleanly'
           /\ \A q \in Root : info[q] \in Verdicts => info'[q] = info[q]
<1>t. TypeInv' /\ info \in [Root -> Status \cup {"none"}] /\ batch \subseteq Root \ {Anchor}
  BY NextType DEF TypeInv, TypeOK
<1>o. OneChange
  BY DEF StatusInv
<1>1. CASE store_block_info \/ remove_root_from_status \/ add_root_to_status \/ persist_store
  <2>1. /\ OneChange' /\ Told' = Told
        /\ \A q \in Root : info[q] \in Verdicts => info'[q] = info[q]
    BY <1>1, <1>o, WriteStatus
  <2>2. writes # <<>> /\ UNCHANGED <<pc, cur, batch, faults>>
    BY <1>1 DEF store_block_info, remove_root_from_status, add_root_to_status, persist_store, Pop, sup
  <2> QED BY <2>1, <2>2 DEF StatusInv, StopsCleanly
<1>2. CASE ProcessBlockAndCheckChildren
  <2>1. /\ pc = "block" /\ writes = <<>> /\ process_block(cur, "blocks", "return")
        /\ UNCHANGED <<cur, batch, info, faults>>
    BY <1>2 DEF ProcessBlockAndCheckChildren, process_block, db, sup
  <2>2. cur \in Root \ {Anchor} /\ info[cur] = "pending" /\ batch = {}
    BY <2>1 DEF StatusInv, Told, ToldOf, TypeInv, TypeOK, HandlerOK
  <2>3. OneChange'
    BY <1>o, <2>1, <2>2, ProcessBlockStatus
  <2>4. pc' \in {"blocks", "return"}
    BY <2>1 DEF process_block, DownloadParent, InheritInvalid, Transition, Reject, AwaitParent
  <2> QED BY <2>1, <2>2, <2>3, <2>4 DEF StatusInv, StopsCleanly
<1>3. CASE ProcessBlocks
  <2>1. /\ writes = <<>> /\ UNCHANGED <<info, index, writes, faults>> /\ pc' = "batch"
        /\ batch' \subseteq index["pending"]
    BY <1>3 DEF ProcessBlocks, db, sup
  <2>2. \A q \in Root \ {Anchor} : Agrees(q)
    BY <1>o, <2>1 DEF OneChange, PutLeft, MoveLeft, AddLeft, Persisting, Changing, Moving, Adding
  <2>3. OneChange' /\ Told' = info
    BY <1>o, <2>1, NothingTold DEF Told, ToldOf
  <2>4. \A q \in batch' : info[q] = "pending"
    <3> SUFFICES ASSUME NEW q \in batch' PROVE info[q] = "pending"
      OBVIOUS
    <3>1. q \in Root \ {Anchor}
      BY <1>t DEF TypeInv, TypeOK
    <3>2. "pending" \in Listed(q)
      BY <2>1 DEF Listed, Status
    <3> QED BY <2>2, <3>1, <3>2 DEF Agrees
  <2> QED BY <2>1, <2>3, <2>4 DEF StatusInv, StopsCleanly
<1>4. CASE ProcessNext
  <2>1. PICK r \in batch : batch' = batch \ {r} /\ process_block(r, "batch", "batch")
    BY <1>4 DEF ProcessNext
  <2>2. pc = "batch" /\ writes = <<>> /\ UNCHANGED <<cur, info, faults>>
    BY <1>4, <2>1 DEF ProcessNext, process_block, db, sup
  <2>3. Told = info
    BY <2>2 DEF Told, ToldOf
  <2>4. r \in Root \ {Anchor} /\ \A q \in batch : info[q] = "pending"
    BY <1>t, <2>3 DEF StatusInv
  <2>5. \/ \E q \in Root : \E st : q \notin batch' /\ Told' = [Told EXCEPT ![q] = st]
        \/ Told' = Told
    <3>1. DownloadParent(r, "batch") => ParentOf[r] \in Root /\ ParentOf[r] \notin batch'
      BY <2>1, <2>4, BlocksAssumption DEF DownloadParent
    <3> QED BY <1>o, <2>1, <2>2, <2>4, <3>1, ProcessBlockStatus
  <2>6. OneChange'
    BY <1>o, <2>1, <2>2, <2>4, ProcessBlockStatus
  <2>7. \A q \in batch' : Told'[q] = "pending"
    BY <1>t, <2>1, <2>3, <2>4, <2>5
  <2>8. pc' = "batch"
    BY <2>1 DEF process_block, DownloadParent, InheritInvalid, Transition, Reject, AwaitParent
  <2> QED BY <2>2, <2>6, <2>7, <2>8 DEF StatusInv, StopsCleanly
<1>5. CASE Return
  <2>1. /\ UNCHANGED <<info, index, writes, batch, faults>> /\ pc' = "idle" /\ writes = <<>>
        /\ pc = "return" \/ batch = {}
    BY <1>5 DEF Return, db, sup
  <2> QED BY <1>o, <2>1, NothingTold DEF StatusInv, StopsCleanly
<1>6. CASE SaveState \/ ReplyError \/ Tick \/ UNCHANGED vars
  <2>1. UNCHANGED <<info, index, writes, batch, faults, pc, cur>>
    BY <1>6 DEF SaveState, ReplyError, Tick, db, sup, handler, vars
  <2> QED BY <1>o, <2>1, NothingTold DEF StatusInv, StopsCleanly
<1>7. CASE GossipBlock \/ SyncedBlock \/ DownloadedBlock
  <2>1. PICK r \in Root \ {Anchor}, reqs \in SUBSET requests : add_block(r, reqs)
    BY <1>7, BlockHandlers
  <2>2. pc = "idle" /\ UNCHANGED <<info, batch, faults>> /\ writes = <<>> /\ batch = {}
    BY <2>1 DEF add_block, db, sup, StatusInv
  <2>3. /\ OneChange' /\ Told = info
        /\ \/ AddComplete(r, reqs) /\ Told' = [Told EXCEPT ![r] = "pending"]
           \/ AddIncomplete(r, reqs)
           \/ AddKnown(r, reqs) /\ writes' = <<>>
    BY <1>o, <2>1, <2>2, AddBlockStatus
  <2>4. \/ pc' = "block" /\ cur' = r /\ Told' = [Told EXCEPT ![r] = "pending"]
        \/ pc' = "return"
        \/ pc' = "idle" /\ writes' = <<>>
    BY <2>2, <2>3 DEF AddComplete, AddIncomplete, AddKnown
  <2> QED BY <1>t, <2>2, <2>3, <2>4 DEF StatusInv, StopsCleanly
<1>8. CASE GossipBlob \/ DownloadedBlobs
  <2>1. PICK r \in Root \ {Anchor} : \E ids : process_blobs(r, ids)
    BY <1>8, BlobHandlers
  <2>2. pc = "idle" /\ UNCHANGED <<info, batch, faults>> /\ writes = <<>> /\ batch = {}
    BY <2>1 DEF process_blobs, sup, StatusInv
  <2>3. /\ OneChange' /\ Told = info
        /\ \/ pc' = "block" /\ cur' = r /\ Told' = [Told EXCEPT ![r] = "pending"]
           \/ UNCHANGED <<pc, cur, keep, writes>> /\ Told' = Told
    BY <1>o, <2>1, <2>2, ProcessBlobsStatus
  <2> QED BY <1>t, <2>2, <2>3 DEF StatusInv, StopsCleanly
<1>9. CASE SupervisorRestart \/ NodeRestart
  <2>1. pc = "idle" /\ \E tree : StartFrom(tree)
    BY <1>9 DEF SupervisorRestart, NodeRestart, StopsCleanly
  <2>2. /\ UNCHANGED <<info, index, faults>> /\ writes = <<>> /\ writes' = <<>>
        /\ pc' = "blocks" /\ batch' = {}
    BY <2>1 DEF StartFrom, db, StatusInv
  <2> QED BY <1>o, <2>2, NothingTold DEF StatusInv, StopsCleanly
<1> QED BY <1>1, <1>2, <1>3, <1>4, <1>5, <1>6, <1>7, <1>8, <1>9 DEF Next, HandlerStep

\* The node starts with the index empty and no block but the anchor.
LEMMA InitStatus == Init => StatusInv
<1> SUFFICES ASSUME Init PROVE StatusInv
  OBVIOUS
<1>1. \A q \in Root \ {Anchor} : Agrees(q)
  BY DEF Init, Agrees, Listed
<1> QED BY <1>1 DEF Init, StatusInv, OneChange

\* The environment of a behaviour does not change.
LEMMA SameFaults == [Next]_vars => faults' = faults
  BY DEF Next, vars, HandlerStep, store_block_info, remove_root_from_status, add_root_to_status,
         persist_store, Pop, ProcessBlockAndCheckChildren, ProcessBlocks, ProcessNext, process_block,
         Return, SaveState, GossipBlock, SyncedBlock, DownloadedBlock, add_block, GossipBlob,
         DownloadedBlobs, process_blobs, ReplyError, Tick, SupervisorRestart, NodeRestart,
         StartFrom, sup

\* TypeInv and, while the node stops cleanly, StatusInv are invariants.
CleanInv == TypeInv /\ (StopsCleanly => StatusInv)

\* They hold in every behaviour.
LEMMA CleanInvariant == Spec => []CleanInv
<1>1. Init => CleanInv
  BY InitType, InitStatus DEF CleanInv
<1>2. CleanInv /\ [Next]_vars => CleanInv'
  BY NextType, NextStatus, SameFaults DEF CleanInv, StopsCleanly
<1> QED BY <1>1, <1>2, PTL DEF Spec

\* As long as the node stops only between handlers, the status index lists
\* every block, when no handler is running, under the status of its block
\* info and under no other (BlockDb.change_root_status, which is two writes
\* that follow a third).
THEOREM IndexAlwaysAgrees == Spec => []IndexAgrees
<1>1. CleanInv => IndexAgrees
  <2> SUFFICES ASSUME CleanInv, StopsCleanly, pc = "idle", NEW r \in Root \ {Anchor}, NEW s \in Status
               PROVE  r \in index[s] <=> info[r] = s
    BY DEF IndexAgrees
  <2>1. Agrees(r)
    BY DEF CleanInv, StatusInv, OneChange, PutLeft, MoveLeft, AddLeft, Persisting, Changing, Moving, Adding
  <2> QED BY <2>1 DEF Agrees, Listed, Status
<1> QED BY <1>1, CleanInvariant, PTL

\* As long as the node stops only between handlers, no handler overwrites the
\* verdict on a block: neither a block that is delivered again, nor its blobs,
\* nor a batch of pending blocks that was read before the verdict.
THEOREM VerdictsAreFinal == Spec => VerdictsFinal
<1>1. CleanInv /\ [Next]_vars =>
        [StopsCleanly => \A r \in Root : info[r] \in {"transitioned", "invalid"} => info'[r] = info[r]]_vars
  BY NextStatus DEF CleanInv, Verdicts
<1> QED BY <1>1, CleanInvariant, PTL DEF Spec, VerdictsFinal
-----------------------------------------------------------------------------
(* No block is left pending that could be processed.                        *)

\* Every block is of a later slot than its parent.  The state transition
\* refuses a block that is not, but the pipeline meets it before that.
ParentsEarlier == \A r \in Root \ {Anchor} : SlotOf[ParentOf[r]] < SlotOf[r]

Waiting == {"pending", "download", "download_blobs"}

\* A pending block waits for its parent.
Waits(q) == Told[q] = "pending" => Told[ParentOf[q]] \in Waiting

\* Between handlers every pending block waits; the handler of one block has
\* that one to process, and process_blocks/1 those that are left of its batch,
\* all of them of the latest slots.
ReadyInv ==
    /\ pc \in {"idle", "return"} => \A q \in Root \ {Anchor} : Waits(q)
    /\ pc = "block" => \A q \in Root \ {Anchor, cur} : Waits(q)
    /\ pc = "batch" =>
          \A q \in Root \ {Anchor} : Told[q] = "pending" /\ q \notin batch =>
              Waits(q) /\ \A o \in batch : SlotOf[q] <= SlotOf[o]

\* Told is a status for each root.
LEMMA ToldType ==
    ASSUME TypeInv, OneChange
    PROVE  Told \in [Root -> Status \cup {"none"}]
<1>1. info \in [Root -> Status \cup {"none"}]
  BY DEF TypeInv, TypeOK
<1>2. CASE writes = <<>>
  BY <1>1, <1>2, ToldIs DEF Told
<1>3. CASE \E r \in Root \ {Anchor}, from \in Status, to \in Status :
             PutLeft(r, from, to) \/ MoveLeft(r, from, to) \/ AddLeft(r, from, to)
  <2>1. PICK r \in Root \ {Anchor}, from \in Status, to \in Status :
             PutLeft(r, from, to) \/ MoveLeft(r, from, to) \/ AddLeft(r, from, to)
    BY <1>3
  <2>2. Told = info \/ Told = [info EXCEPT ![r] = to]
    <3>1. CASE writes = Adding(r, to)
      BY <3>1 DEF Told, ToldOf, Adding
    <3> QED BY <2>1, <3>1, ToldIs DEF Told, PutLeft, MoveLeft, AddLeft
  <2> QED BY <1>1, <2>2
<1> QED BY <1>2, <1>3 DEF OneChange

\* One block of the batch is processed: it was of the earliest slot, so that
\* its children, if they are pending, are still in the batch.
LEMMA ProcessNextReady ==
    ASSUME TypeInv, StatusInv, ReadyInv, ParentsEarlier, ProcessNext
    PROVE  ReadyInv'
<1>1. PICK r \in batch :
         /\ \A o \in batch : SlotOf[r] <= SlotOf[o]
         /\ batch' = batch \ {r} /\ process_block(r, "batch", "batch")
  BY DEF ProcessNext
<1>2. pc = "batch" /\ writes = <<>> /\ OneChange
  BY DEF ProcessNext, StatusInv
<1>3. Told = info /\ Told \in [Root -> Status \cup {"none"}]
  BY <1>2, ToldType, ToldIs DEF Told
<1>4. r \in Root \ {Anchor} /\ info[r] = "pending" /\ batch \subseteq Root
  BY <1>3 DEF StatusInv, TypeInv, TypeOK
<1>5. pc' = "batch"
  BY <1>1 DEF process_block, DownloadParent, InheritInvalid, Transition, Reject, AwaitParent
<1>6. SUFFICES ASSUME NEW q \in Root \ {Anchor}, Told'[q] = "pending", q \notin batch'
               PROVE  Told'[ParentOf[q]] \in Waiting /\ \A o \in batch' : SlotOf[q] <= SlotOf[o]
  BY <1>5 DEF ReadyInv, Waits
<1>7. ParentOf[q] \in Root /\ ParentOf[r] \in Root
  BY <1>4, BlocksAssumption
<1>8. q # r /\ Told[q] = "pending" => Told[ParentOf[q]] \in Waiting /\ \A o \in batch : SlotOf[q] <= SlotOf[o]
  BY <1>1, <1>2, <1>6 DEF ReadyInv, Waits
<1>9. CASE DownloadParent(r, "batch") /\ Told' = [Told EXCEPT ![ParentOf[r]] = "download"]
  BY <1>1, <1>3, <1>4, <1>6, <1>7, <1>8, <1>9 DEF Waiting, Status
<1>10. CASE \E v \in Verdicts : Told' = [Told EXCEPT ![r] = v]
  <2>1. q # r /\ Told[q] = "pending"
    BY <1>3, <1>4, <1>6, <1>10 DEF Verdicts
  <2>2. ParentOf[q] # r
    <3> SUFFICES ASSUME ParentOf[q] = r PROVE FALSE
      OBVIOUS
    <3>1. SlotOf[q] <= SlotOf[r] /\ SlotOf[r] < SlotOf[q]
      BY <1>8, <2>1 DEF ParentsEarlier
    <3> QED BY <1>4, <3>1, BlocksAssumption
  <2> QED BY <1>1, <1>3, <1>7, <1>8, <1>10, <2>1, <2>2
<1>11. CASE AwaitParent(r, "batch") /\ Told' = Told
  BY <1>1, <1>3, <1>4, <1>6, <1>8, <1>11 DEF AwaitParent, Waiting
<1> QED BY <1>1, <1>2, <1>4, <1>9, <1>10, <1>11, ProcessBlockStatus DEF Verdicts

\* Every step of a node that stops only between handlers keeps it.
LEMMA NextReady ==
    ASSUME TypeInv, StopsCleanly, StatusInv, ReadyInv, ParentsEarlier, [Next]_vars
    PROVE  ReadyInv'
<1>t. /\ OneChange /\ Told \in [Root -> Status \cup {"none"}]
      /\ ParentOf \in [Root \ {Anchor} -> Root]
  BY ToldType, BlocksAssumption DEF StatusInv
<1>1. CASE store_block_info \/ remove_root_from_status \/ add_root_to_status \/ persist_store
  <2>1. Told' = Told /\ UNCHANGED <<pc, cur, batch>>
    BY <1>1, <1>t, WriteStatus DEF store_block_info, remove_root_from_status, add_root_to_status, persist_store, Pop
  <2> QED BY <2>1 DEF ReadyInv, Waits
<1>2. CASE ProcessBlockAndCheckChildren
  <2>1. /\ pc = "block" /\ writes = <<>> /\ process_block(cur, "blocks", "return") /\ cur' = cur
    BY <1>2 DEF ProcessBlockAndCheckChildren
  <2>2. cur \in Root \ {Anchor} /\ info[cur] = "pending"
    BY <2>1, ToldIs DEF StatusInv, Told, TypeInv, TypeOK, HandlerOK
  <2>3. Told = info
    BY <2>1, ToldIs DEF Told
  <2>4. CASE pc' = "blocks"
    BY <2>4 DEF ReadyInv
  <2>5. CASE DownloadParent(cur, "return") /\ Told' = [Told EXCEPT ![ParentOf[cur]] = "download"]
    BY <1>t, <2>1, <2>2, <2>5 DEF DownloadParent, ReadyInv, Waits, Waiting
  <2>6. CASE AwaitParent(cur, "return") /\ Told' = Told
    BY <2>1, <2>2, <2>3, <2>6 DEF AwaitParent, ReadyInv, Waits, Waiting
  <2> QED BY <1>t, <2>1, <2>2, <2>4, <2>5, <2>6, ProcessBlockStatus DEF InheritInvalid, Transition, Reject
<1>3. CASE ProcessBlocks
  <2>1. /\ writes = <<>> /\ UNCHANGED <<info, index, writes>> /\ pc' = "batch"
        /\ batch' = IF \E r \in index["pending"] : info[r] = "none" THEN {} ELSE index["pending"]
    BY <1>3 DEF ProcessBlocks, db
  <2>2. \A q \in Root \ {Anchor} : Agrees(q)
    BY <1>t, <2>1 DEF OneChange, PutLeft, MoveLeft, AddLeft, Persisting, Changing, Moving, Adding
  <2>3. Told' = info
    BY <2>1, ToldIs DEF Told
  <2>4. \A q \in Root \ {Anchor} : q \in index["pending"] <=> info[q] = "pending"
    BY <2>2 DEF Agrees, Listed, Status
  <2>5. index["pending"] \subseteq Root \ {Anchor}
    BY DEF TypeInv, TypeOK, Status
  <2>6. batch' = index["pending"]
    BY <2>1, <2>4, <2>5
  <2> QED BY <2>1, <2>3, <2>4, <2>6 DEF ReadyInv
<1>4. CASE ProcessNext
  BY <1>4, ProcessNextReady
<1>5. CASE Return
  <2>1. /\ UNCHANGED <<info, index, writes>> /\ pc' = "idle"
        /\ pc = "return" \/ (pc = "batch" /\ batch = {})
    BY <1>5 DEF Return, db
  <2>2. Told' = Told
    BY <1>t, <2>1, NothingTold
  <2> QED BY <2>1, <2>2 DEF ReadyInv, Waits
<1>6. CASE SaveState \/ ReplyError \/ Tick \/ UNCHANGED vars
  <2>1. UNCHANGED <<info, index, writes, batch, pc, cur>>
    BY <1>6 DEF SaveState, ReplyError, Tick, db, handler, vars
  <2> QED BY <1>t, <2>1, NothingTold DEF ReadyInv, Waits
<1>7. CASE GossipBlock \/ SyncedBlock \/ DownloadedBlock
  <2>1. PICK r \in Root \ {Anchor}, reqs \in SUBSET requests : add_block(r, reqs)
    BY <1>7, BlockHandlers
  <2>2. pc = "idle" /\ writes = <<>> /\ \A q \in Root \ {Anchor} : Waits(q)
    BY <2>1 DEF add_block, StatusInv, ReadyInv
  <2>3. \/ pc' = "block" /\ cur' = r /\ Told' = [Told EXCEPT ![r] = "pending"]
        \/ pc' = "return" /\ Told' = [Told EXCEPT ![r] = "download_blobs"]
        \/ pc' = "idle" /\ Told' = Told
    BY <1>t, <2>1, <2>2, AddBlockStatus DEF AddComplete, AddIncomplete, AddKnown
  <2> QED BY <1>t, <2>2, <2>3 DEF ReadyInv, Waits, Waiting
<1>8. CASE GossipBlob \/ DownloadedBlobs
  <2>1. PICK r \in Root \ {Anchor} : \E ids : process_blobs(r, ids)
    BY <1>8, BlobHandlers
  <2>2. pc = "idle" /\ writes = <<>> /\ \A q \in Root \ {Anchor} : Waits(q)
    BY <2>1 DEF process_blobs, StatusInv, ReadyInv
  <2>3. \/ pc' = "block" /\ cur' = r /\ Told' = [Told EXCEPT ![r] = "pending"]
        \/ pc' = "idle" /\ Told' = Told
    BY <1>t, <2>1, <2>2, ProcessBlobsStatus
  <2> QED BY <1>t, <2>2, <2>3 DEF ReadyInv, Waits, Waiting
<1>9. CASE SupervisorRestart \/ NodeRestart
  <2>1. pc' = "blocks"
    BY <1>9 DEF SupervisorRestart, NodeRestart, StartFrom
  <2> QED BY <2>1 DEF ReadyInv
<1> QED BY <1>1, <1>2, <1>3, <1>4, <1>5, <1>6, <1>7, <1>8, <1>9 DEF Next, HandlerStep

\* As long as the node stops only between handlers and blocks are later than
\* their parents, no handler leaves a pending block behind whose parent has a
\* verdict or is unknown, in whatever order blocks and blobs come: processing
\* the pending blocks once, by slot, is enough (PendingBlocks.process_blocks).
THEOREM ReadyAlwaysProcessed ==
    ASSUME ParentsEarlier
    PROVE  Spec => []ReadyProcessed
<1>1. Init => ReadyInv
  <2> SUFFICES ASSUME Init PROVE ReadyInv
    OBVIOUS
  <2>1. pc = "idle" /\ \A q \in Root \ {Anchor} : Told[q] # "pending"
    <3>1. Told = info
      BY ToldIs DEF Init, Told
    <3> QED BY <3>1 DEF Init
  <2> QED BY <2>1 DEF ReadyInv, Waits
<1>2. CleanInv /\ (StopsCleanly => ReadyInv) /\ [Next]_vars => (StopsCleanly => ReadyInv)'
  BY NextReady, SameFaults DEF CleanInv, StopsCleanly
<1>3. CleanInv /\ (StopsCleanly => ReadyInv) => ReadyProcessed
  <2> SUFFICES ASSUME CleanInv, StopsCleanly, ReadyInv, pc = "idle",
                      NEW r \in Root \ {Anchor}, info[r] = "pending"
               PROVE  info[ParentOf[r]] \in {"pending", "download", "download_blobs"}
    BY DEF ReadyProcessed, NoReadyPending
  <2>1. Told = info
    BY ToldIs DEF CleanInv, StatusInv, Told
  <2> QED BY <2>1 DEF ReadyInv, Waits, Waiting
<1> QED BY <1>1, <1>2, <1>3, CleanInvariant, PTL DEF Spec
-----------------------------------------------------------------------------
(* No block waits for an answer that cannot come.                           *)

\* A request of this kind for r is in flight.
Asked(kind, r, reqs) == \E q \in reqs : q.root = r /\ q.kind = kind

\* What is told to be downloaded has been asked for.
AskedInv ==
    \A r \in Root : /\ Told[r] = "download" => Asked("block", r, requests)
                    /\ Told[r] = "download_blobs" => Asked("blobs", r, requests)

\* A step that tells nothing new and drops no request.
LEMMA SameAsked ==
    ASSUME AskedInv, Told' = Told, requests' = requests
    PROVE  AskedInv'
  BY DEF AskedInv

\* A request that has been sent is in flight, with those there were.
LEMMA SentIsAsked ==
    ASSUME NEW reqs, NEW kind, NEW r, NEW n
    PROVE  /\ Asked(kind, r, reqs \cup {Request(kind, r, n)})
           /\ \A k, p : Asked(k, p, reqs) => Asked(k, p, reqs \cup {Request(kind, r, n)})
<1> DEFINE sent == Request(kind, r, n)
<1>1. sent.root = r /\ sent.kind = kind
  BY DEF Request
<1> HIDE DEF sent
<1>2. Asked(kind, r, reqs \cup {sent})
  BY <1>1 DEF Asked
<1>3. \A k, p : Asked(k, p, reqs) => Asked(k, p, reqs \cup {sent})
  BY DEF Asked
<1> QED BY <1>2, <1>3 DEF sent

\* The parent that process_block/2 tells to be downloaded, it asks for.
LEMMA ProcessBlockAsked ==
    ASSUME TypeInv, OneChange, AskedInv, writes = <<>>, NEW r \in Root \ {Anchor}, info[r] = "pending",
           NEW settled, NEW other, process_block(r, settled, other)
    PROVE  AskedInv'
<1>t. Told \in [Root -> Status \cup {"none"}] /\ ParentOf[r] \in Root
  BY ToldType, BlocksAssumption
<1>1. CASE DownloadParent(r, other) /\ Told' = [Told EXCEPT ![ParentOf[r]] = "download"]
  <2>1. requests' = requests \cup {Request("block", ParentOf[r], MaxRetries)}
    BY <1>1 DEF DownloadParent
  <2>2. Asked("block", ParentOf[r], requests')
    BY <2>1, SentIsAsked
  <2>3. \A q \in Root : Told'[q] = IF q = ParentOf[r] THEN "download" ELSE Told[q]
    BY <1>1, <1>t
  <2>4. \A k, q : Asked(k, q, requests) => Asked(k, q, requests')
    BY <2>1, SentIsAsked
  <2> QED BY <2>2, <2>3, <2>4 DEF AskedInv
<1>2. CASE requests' = requests /\ \E v \in Verdicts : Told' = [Told EXCEPT ![r] = v]
  <2>1. \A q \in Root : Told'[q] = Told[q] \/ Told'[q] \in Verdicts
    BY <1>2, <1>t
  <2> QED BY <1>2, <2>1 DEF AskedInv, Verdicts
<1>3. CASE requests' = requests /\ Told' = Told
  BY <1>3, SameAsked
<1> QED BY <1>1, <1>2, <1>3, ProcessBlockStatus
        DEF InheritInvalid, Reject, Transition, AwaitParent, Verdicts

\* A block that is answered with, or that comes of itself, is not downloaded
\* any more, and its blobs are asked for when some are missing.
LEMMA AddBlockAsked ==
    ASSUME TypeInv, OneChange, AskedInv, writes = <<>>, NEW r \in Root \ {Anchor},
           NEW reqs, add_block(r, reqs),
           \A k, p : Asked(k, p, requests) /\ <<k, p>> # <<"block", r>> => Asked(k, p, reqs)
    PROVE  AskedInv'
<1>t. Told \in [Root -> Status \cup {"none"}] /\ Told = info
  BY ToldType, AddBlockStatus
<1>1. CASE AddComplete(r, reqs) /\ Told' = [Told EXCEPT ![r] = "pending"]
  <2>1. \A q \in Root : Told'[q] = IF q = r THEN "pending" ELSE Told[q]
    BY <1>1, <1>t
  <2>2. requests' = reqs
    BY <1>1 DEF AddComplete
  <2> QED BY <2>1, <2>2 DEF AskedInv
<1>2. CASE AddIncomplete(r, reqs) /\ Told' = [Told EXCEPT ![r] = "download_blobs"]
  <2>1. \A q \in Root : Told'[q] = IF q = r THEN "download_blobs" ELSE Told[q]
    BY <1>2, <1>t
  <2>2. requests' = reqs \cup {Request("blobs", r, MaxRetries)}
    BY <1>2 DEF AddIncomplete
  <2>3. Asked("blobs", r, requests') /\ \A k, p : Asked(k, p, reqs) => Asked(k, p, requests')
    BY <2>2, SentIsAsked
  <2> QED BY <2>1, <2>3 DEF AskedInv
<1>3. CASE AddKnown(r, reqs) /\ Told' = Told
  <2>1. requests' = reqs /\ Told[r] # "download"
    BY <1>3, <1>t DEF AddKnown
  <2> QED BY <1>3, <2>1 DEF AskedInv
<1> QED BY <1>1, <1>2, <1>3, AddBlockStatus

\* Every step of such a node keeps the invariant.
LEMMA NextAsked ==
    ASSUME TypeInv, StatusInv, AskedInv, PeersAnswer, [Next]_vars
    PROVE  AskedInv'
<1>o. OneChange /\ (pc = "idle" => writes = <<>>) /\ Told \in [Root -> Status \cup {"none"}]
  BY ToldType DEF StatusInv
<1>1. CASE store_block_info \/ remove_root_from_status \/ add_root_to_status \/ persist_store
  <2>1. Told' = Told /\ requests' = requests
    BY <1>1, <1>o, WriteStatus
    DEF store_block_info, remove_root_from_status, add_root_to_status, persist_store, Pop, port
  <2> QED BY <2>1, SameAsked
<1>2. CASE ProcessBlockAndCheckChildren
  <2>1. pc = "block" /\ writes = <<>> /\ process_block(cur, "blocks", "return")
    BY <1>2 DEF ProcessBlockAndCheckChildren
  <2>2. cur \in Root \ {Anchor} /\ info[cur] = "pending"
    BY <2>1, ToldIs DEF StatusInv, Told, TypeInv, TypeOK, HandlerOK
  <2> QED BY <1>o, <2>1, <2>2, ProcessBlockAsked
<1>3. CASE ProcessNext
  <2>1. PICK r \in batch : process_block(r, "batch", "batch")
    BY <1>3 DEF ProcessNext
  <2>2. writes = <<>> /\ r \in Root \ {Anchor} /\ info[r] = "pending"
    BY <1>3, <2>1, ToldIs DEF ProcessNext, StatusInv, Told, TypeInv, TypeOK
  <2> QED BY <1>o, <2>1, <2>2, ProcessBlockAsked
<1>4. CASE ProcessBlocks \/ Return \/ SaveState \/ Tick \/ UNCHANGED vars
  <2>1. UNCHANGED <<info, index, writes, requests>>
    BY <1>4 DEF ProcessBlocks, Return, SaveState, Tick, db, port, handler, vars
  <2> QED BY <1>o, <2>1, NothingTold, SameAsked
<1>5. CASE GossipBlock \/ SyncedBlock
  <2>1. PICK r \in Root \ {Anchor} : add_block(r, requests)
    BY <1>5 DEF GossipBlock, SyncedBlock
  <2> QED BY <1>o, <2>1, AddBlockAsked DEF add_block
<1>6. CASE DownloadedBlock
  <2>1. PICK q \in requests : q.kind = "block" /\ add_block(q.root, requests \ {q})
    BY <1>6 DEF DownloadedBlock
  <2>2. \A k, p : Asked(k, p, requests) /\ <<k, p>> # <<"block", q.root>> => Asked(k, p, requests \ {q})
    BY <2>1 DEF Asked
  <2>3. q.root \in Root \ {Anchor}
    BY DEF TypeInv, TypeOK, Requests
  <2> QED BY <1>o, <2>1, <2>2, <2>3, AddBlockAsked DEF add_block
<1>7. CASE GossipBlob
  <2>1. PICK r \in Root \ {Anchor} : \E ids : process_blobs(r, ids) /\ requests' = requests
    BY <1>7 DEF GossipBlob
  <2>2. writes = <<>>
    BY <1>o, <2>1 DEF process_blobs
  <2>3. Told' = [Told EXCEPT ![r] = "pending"] \/ Told' = Told
    BY <1>o, <2>1, <2>2, ProcessBlobsStatus
  <2>4. \A q \in Root : Told'[q] \in {Told[q], "pending"}
    BY <1>o, <2>3
  <2> QED BY <2>1, <2>4 DEF AskedInv
<1>8. CASE DownloadedBlobs
  <2>1. PICK q \in requests : /\ q.kind = "blobs" /\ process_blobs(q.root, BlobsOf[q.root])
                             /\ requests' = requests \ {q}
    BY <1>8 DEF DownloadedBlobs, PeersAnswer
  <2>2. writes = <<>> /\ q.root \in Root \ {Anchor}
    BY <1>o, <2>1 DEF process_blobs, TypeInv, TypeOK, Requests
  <2>3. Told = info /\ (Told' = [Told EXCEPT ![q.root] = "pending"] \/ Told' = Told)
    BY <1>o, <2>1, <2>2, ProcessBlobsStatus
  <2>4. Told'[q.root] # "download_blobs"
    <3>1. CASE info[q.root] # "download_blobs"
      BY <1>o, <2>2, <2>3, <3>1
    <3>2. CASE info[q.root] = "download_blobs"
      <4>1. missing_for_block(q.root, blobs \cup {<<q.root, i>> : i \in BlobsOf[q.root]}) = {}
        BY DEF missing_for_block
      <4>2. pc = "idle" /\ pc' = "block"
        BY <2>1, <3>2, <4>1 DEF process_blobs
      <4>3. Told' = [Told EXCEPT ![q.root] = "pending"]
        BY <1>o, <2>1, <2>2, <4>2, ProcessBlobsStatus
      <4> QED BY <1>o, <2>2, <4>3
    <3> QED BY <3>1, <3>2
  <2>5. \A p \in Root : Told'[p] \in {Told[p], "pending"}
    BY <1>o, <2>3
  <2>6. \A k, p : Asked(k, p, requests) /\ <<k, p>> # <<"blobs", q.root>> => Asked(k, p, requests')
    BY <2>1 DEF Asked
  <2> QED BY <2>4, <2>5, <2>6 DEF AskedInv
<1>9. ~ReplyError /\ ~SupervisorRestart /\ ~NodeRestart
  BY DEF PeersAnswer, ReplyError, SupervisorRestart, NodeRestart
<1> QED BY <1>1, <1>2, <1>3, <1>4, <1>5, <1>6, <1>7, <1>8, <1>9 DEF Next, HandlerStep

\* Where peers answer with what they are asked for and the node keeps running,
\* every block that is told to be downloaded, and every block that waits for
\* its blobs, has a request in flight when no handler is running, in whatever
\* order answers and gossip come (BlockDownloader and BlobDownloader, whose
\* requests are the only way out of those statuses).
THEOREM DownloadsAlwaysRequested == Spec => []DownloadsRequested
<1>1. Init => AskedInv
  <2> SUFFICES ASSUME Init PROVE AskedInv
    OBVIOUS
  <2>1. Told = info
    BY ToldIs DEF Init, Told
  <2>2. \A r \in Root : Told[r] \in {"none", "transitioned"}
    BY <2>1 DEF Init
  <2> QED BY <2>2 DEF AskedInv
<1>2. CleanInv /\ PeersAnswer => StatusInv
  BY DEF CleanInv, PeersAnswer, StopsCleanly
<1>3. CleanInv /\ (PeersAnswer => AskedInv) /\ [Next]_vars => (PeersAnswer => AskedInv)'
  BY <1>2, NextAsked, SameFaults DEF CleanInv, PeersAnswer
<1>4. CleanInv /\ (PeersAnswer => AskedInv) => DownloadsRequested
  <2> SUFFICES ASSUME CleanInv, PeersAnswer, AskedInv, pc = "idle" PROVE \A r \in Root : Requested(r)
    BY DEF DownloadsRequested
  <2>1. Told = info
    BY <1>2, ToldIs DEF StatusInv, Told
  <2> QED BY <2>1 DEF AskedInv, Asked, Requested
<1> QED BY <1>1, <1>3, <1>4, CleanInvariant, PTL DEF Spec

-----------------------------------------------------------------------------
(***************************************************************************)
(* The tree and the verdicts, when no blob comes after its block either:   *)
(* the blocks the node accepted are those its fork choice reaches, and the *)
(* blocks it refused are refused for a reason.                             *)
(***************************************************************************)
\* No blob comes after its block.
BlobsInTime == StopsCleanly /\ "late_blobs" \notin faults

\* A tree above the anchor, all of whose nodes are reached from it.
Grown(nodes) ==
    /\ Anchor \in DOMAIN nodes /\ IsFiniteSet(DOMAIN nodes) /\ Closed(nodes)
    /\ DOMAIN nodes \subseteq Reached(nodes, Anchor)

\* The handler returns the store it works on; that store is the one persisted,
\* unless persisting it is what comes next; its tree is grown from the anchor
\* and has the blocks that are told :transitioned.
TreeInv ==
    /\ keep
    /\ pc = "idle" => store = work
    /\ saved = work.tree \/ (writes # <<>> /\ Head(writes).op = "persist")
    /\ Grown(work.tree.nodes)
    /\ DOMAIN work.tree.nodes = {r \in Root : Told[r] = "transitioned"}
    /\ \A r \in Root : Told[r] # "download_blobs"

\* The tree with one block more.
LEMMA UpdateTreeGrows ==
    ASSUME NEW tree, IsTree(tree), Grown(tree.nodes), NEW r \in Root \ {Anchor},
           r \notin DOMAIN tree.nodes, ParentOf[r] \in DOMAIN tree.nodes
    PROVE  /\ Grown(update_tree(tree, r).nodes)
           /\ DOMAIN update_tree(tree, r).nodes = DOMAIN tree.nodes \cup {r}
<1> DEFINE new == AddNode(tree.nodes, r, ParentOf[r])
<1>1. /\ IsFiniteSet(DOMAIN new) /\ DOMAIN new = DOMAIN tree.nodes \cup {r} /\ Closed(new)
      /\ Reached(tree.nodes, Anchor) \cup {r} \subseteq Reached(new, Anchor)
  BY AddNodeReaches DEF Grown
<1>2. update_tree(tree, r).nodes = new
  <2>1. AddBlock(tree, r, ParentOf[r]) = [root |-> tree.root, nodes |-> new]
    BY DEF AddBlock
  <2>2. [root |-> tree.root, nodes |-> new] # NotFound
    BY DEF NotFound
  <2> QED BY <2>1, <2>2 DEF update_tree
<1> HIDE DEF new
<1>3. Grown(new)
  BY <1>1 DEF Grown
<1> QED BY <1>1, <1>2, <1>3

\* What process_block/2 does to the tree.
LEMMA ProcessBlockTree ==
    ASSUME TypeInv, OneChange, TreeInv, writes = <<>>, NEW r \in Root \ {Anchor}, info[r] = "pending",
           NEW settled, NEW other, settled # "idle", other # "idle", process_block(r, settled, other)
    PROVE  TreeInv'
<1>t. Told \in [Root -> Status \cup {"none"}] /\ ParentOf[r] \in Root
  BY ToldType, BlocksAssumption
<1>1. /\ keep' /\ pc' # "idle" /\ saved = work.tree /\ saved' = saved /\ Told = info
  BY ProcessBlockStatus DEF TreeInv, process_block, db, DownloadParent, InheritInvalid, Transition, Reject, AwaitParent
<1>2. CASE Transition(r, settled) /\ Told' = [Told EXCEPT ![r] = "transitioned"]
  <2>1. r \notin DOMAIN work.tree.nodes /\ ParentOf[r] \in DOMAIN work.tree.nodes
    BY <1>1, <1>2, <1>t DEF TreeInv, Transition
  <2>2. work'.tree = update_tree(work.tree, r)
    BY <1>2 DEF Transition, ForkStore
  <2>3. /\ Grown(work'.tree.nodes)
        /\ DOMAIN work'.tree.nodes = DOMAIN work.tree.nodes \cup {r}
    BY <2>1, <2>2, UpdateTreeGrows DEF TreeInv, TypeInv, TypeOK, IsStore
  <2>4. DOMAIN work'.tree.nodes = {q \in Root : Told'[q] = "transitioned"}
    BY <1>2, <1>t, <2>3 DEF TreeInv
  <2>5. \A q \in Root : Told'[q] # "download_blobs"
    BY <1>2, <1>t DEF TreeInv
  <2>6. writes' = Persisting(r, info[r], "transitioned")
    BY <1>2, ChangesAre DEF Transition
  <2>7. writes' # <<>> /\ Head(writes').op = "persist"
    BY <2>6, HeadsAndTails DEF Write, Persisting
  <2> QED BY <1>1, <2>3, <2>4, <2>5, <2>7 DEF TreeInv
<1>3. CASE /\ UNCHANGED work
           /\ \/ Told' = Told
              \/ \E q \in Root, s \in {"download", "invalid"} :
                    Told[q] # "transitioned" /\ Told' = [Told EXCEPT ![q] = s]
  <2>1. /\ {q \in Root : Told'[q] = "transitioned"} = {q \in Root : Told[q] = "transitioned"}
        /\ \A q \in Root : Told'[q] # "download_blobs"
    BY <1>3, <1>t DEF TreeInv
  <2> QED BY <1>1, <1>3, <2>1 DEF TreeInv
<1>4. CASE DownloadParent(r, other) /\ Told' = [Told EXCEPT ![ParentOf[r]] = "download"]
  BY <1>1, <1>3, <1>4, <1>t DEF DownloadParent
<1>5. CASE (InheritInvalid(r, settled) \/ Reject(r, settled)) /\ Told' = [Told EXCEPT ![r] = "invalid"]
  BY <1>1, <1>3, <1>5, <1>t DEF InheritInvalid, Reject
<1>6. CASE AwaitParent(r, other) /\ Told' = Told
  BY <1>3, <1>6 DEF AwaitParent
<1> QED BY <1>2, <1>4, <1>5, <1>6, ProcessBlockStatus

\* A step that tells nothing of :transitioned blocks and changes neither the
\* working store nor what is persisted.
LEMMA SameTree ==
    ASSUME TypeInv, OneChange, TreeInv, UNCHANGED <<work, saved, keep>>,
           \/ UNCHANGED <<pc, store>> \/ pc' # "idle",
           writes = <<>> \/ writes' = writes,
           \/ Told' = Told
           \/ \E q \in Root : Told[q] # "transitioned" /\ Told' = [Told EXCEPT ![q] = "pending"]
    PROVE  TreeInv'
<1>1. Told \in [Root -> Status \cup {"none"}]
  BY ToldType
<1>2. /\ {q \in Root : Told'[q] = "transitioned"} = {q \in Root : Told[q] = "transitioned"}
      /\ \A q \in Root : Told'[q] # "download_blobs"
  BY <1>1 DEF TreeInv
<1> QED BY <1>2 DEF TreeInv

\* Every step keeps the invariant.
LEMMA NextTree ==
    ASSUME TypeInv, BlobsInTime, StatusInv, TreeInv, [Next]_vars
    PROVE  TreeInv'
<1>o. OneChange /\ StopsCleanly
  BY DEF StatusInv, BlobsInTime
<1>1. CASE store_block_info \/ remove_root_from_status \/ add_root_to_status \/ persist_store
  <2>1. Told' = Told /\ UNCHANGED <<pc, store, work, keep>>
    BY <1>1, <1>o, WriteStatus
    DEF store_block_info, remove_root_from_status, add_root_to_status, persist_store, Pop, port
  <2>2. saved' = work'.tree
    BY <1>1, <2>1 DEF store_block_info, remove_root_from_status, add_root_to_status, persist_store, TreeInv
  <2> QED BY <2>1, <2>2 DEF TreeInv
<1>2. CASE ProcessBlockAndCheckChildren
  <2>1. pc = "block" /\ writes = <<>> /\ process_block(cur, "blocks", "return")
    BY <1>2 DEF ProcessBlockAndCheckChildren
  <2>2. cur \in Root \ {Anchor} /\ info[cur] = "pending"
    BY <2>1, ToldIs DEF StatusInv, Told, TypeInv, TypeOK, HandlerOK
  <2> QED BY <1>o, <2>1, <2>2, ProcessBlockTree
<1>3. CASE ProcessBlocks
  <2>1. /\ writes = <<>> /\ UNCHANGED <<info, index, writes, work, saved, keep>> /\ pc' = "batch"
    BY <1>3 DEF ProcessBlocks, db
  <2> QED BY <1>o, <2>1, NothingTold, SameTree
<1>4. CASE ProcessNext
  <2>1. PICK r \in batch : process_block(r, "batch", "batch")
    BY <1>4 DEF ProcessNext
  <2>2. writes = <<>> /\ r \in Root \ {Anchor} /\ info[r] = "pending"
    BY <1>4, <2>1, ToldIs DEF ProcessNext, StatusInv, Told, TypeInv, TypeOK
  <2> QED BY <1>o, <2>1, <2>2, ProcessBlockTree
<1>5. CASE Return
  <2>1. /\ UNCHANGED <<info, index, writes, saved, work>> /\ store' = work /\ keep'
    BY <1>5 DEF Return, db, TreeInv
  <2>2. Told' = Told
    BY <1>o, <2>1, NothingTold
  <2> QED BY <2>1, <2>2 DEF TreeInv
<1>6. CASE SaveState \/ ReplyError \/ Tick \/ UNCHANGED vars
  <2>1. UNCHANGED <<info, index, store, pc, work, keep, writes>>
    BY <1>6 DEF SaveState, ReplyError, Tick, db, port, handler, vars
  <2>2. CASE Tick
    <3>1. store = work /\ saved = work.tree /\ saved' = store.tree
      BY <2>2 DEF Tick, TreeInv, StatusInv
    <3> QED BY <1>o, <2>1, <3>1, NothingTold, SameTree
  <2>3. CASE ~Tick
    <3>1. saved' = saved
      BY <1>6, <2>3 DEF SaveState, ReplyError, db, vars
    <3> QED BY <1>o, <2>1, <3>1, NothingTold, SameTree
  <2> QED BY <2>2, <2>3
<1>7. CASE GossipBlock \/ SyncedBlock \/ DownloadedBlock
  <2>1. PICK r \in Root \ {Anchor}, reqs \in SUBSET requests : add_block(r, reqs)
    BY <1>7, BlockHandlers
  <2>2. writes = <<>> /\ UNCHANGED <<saved, store, work, keep>>
    BY <2>1 DEF add_block, db, StatusInv
  <2>3. ~AddIncomplete(r, reqs) /\ Told = info
    BY <1>o, <2>1, <2>2, AddBlockStatus DEF AddIncomplete, BlobsInTime
  <2>4. \/ Told[r] # "transitioned" /\ Told' = [Told EXCEPT ![r] = "pending"] /\ pc' # "idle"
        \/ Told' = Told /\ UNCHANGED pc
    BY <1>o, <2>1, <2>2, <2>3, AddBlockStatus DEF AddComplete, AddKnown
  <2> QED BY <1>o, <2>2, <2>4, SameTree
<1>8. CASE GossipBlob \/ DownloadedBlobs
  <2>1. PICK r \in Root \ {Anchor} : \E ids : process_blobs(r, ids)
    BY <1>8, BlobHandlers
  <2>2. writes = <<>> /\ UNCHANGED <<saved, store, work>>
    BY <2>1 DEF process_blobs, StatusInv
  <2>3. UNCHANGED <<pc, keep, writes>> /\ Told' = Told
    BY <1>o, <2>1, <2>2, ProcessBlobsStatus DEF TreeInv
  <2> QED BY <1>o, <2>2, <2>3, SameTree
<1>9. CASE SupervisorRestart \/ NodeRestart
  <2>1. pc = "idle" /\ StartFrom(saved)
    BY <1>9, <1>o DEF SupervisorRestart, NodeRestart, StopsCleanly
  <2>2. /\ UNCHANGED <<info, index, saved>> /\ writes = <<>> /\ writes' = <<>>
        /\ work' = ForkStore(saved, {}) /\ store' = work' /\ keep'
    BY <2>1 DEF StartFrom, db, StatusInv
  <2>3. work'.tree = work.tree /\ work.tree = saved
    BY <2>2 DEF ForkStore, TreeInv
  <2>4. Told' = Told
    BY <1>o, <2>2, NothingTold
  <2> QED BY <2>2, <2>3, <2>4 DEF TreeInv
<1> QED BY <1>1, <1>2, <1>3, <1>4, <1>5, <1>6, <1>7, <1>8, <1>9 DEF Next, HandlerStep

\* The node starts with the anchor alone.
LEMMA InitTree == Init => TreeInv
<1> SUFFICES ASSUME Init PROVE TreeInv
  OBVIOUS
<1>1. Told = info
  BY ToldIs DEF Init, Told
<1>2. work.tree = NewTree(Anchor) /\ keep /\ store = work /\ saved = work.tree
  BY DEF Init, ForkStore
<1>3. Grown(NewTree(Anchor).nodes) /\ DOMAIN NewTree(Anchor).nodes = {Anchor}
  BY NewTreeReaches DEF Grown
<1>4. /\ {r \in Root : Told[r] = "transitioned"} = {Anchor}
      /\ \A r \in Root : Told[r] # "download_blobs"
  BY <1>1, BlocksAssumption DEF Init
<1> QED BY <1>2, <1>3, <1>4 DEF TreeInv

\* The invariants hold together.
InTimeInv == CleanInv /\ (BlobsInTime => TreeInv)

\* They hold in every behaviour.
LEMMA InTimeInvariant == Spec => []InTimeInv
<1>1. Init => (BlobsInTime => TreeInv)
  BY InitTree
<1>2. CleanInv /\ (BlobsInTime => TreeInv) /\ [Next]_vars => (BlobsInTime => TreeInv)'
  BY NextTree, SameFaults DEF CleanInv, StopsCleanly, BlobsInTime
<1> QED BY <1>1, <1>2, CleanInvariant, PTL DEF Spec, InTimeInv

\* As long as the node stops only between handlers and no blob comes after its
\* block, every block it accepted is reached from the root of its fork-choice
\* tree when no handler is running, for trees of any shape and size
\* (Store.update_tree, which leaves out a block whose parent is not there).
THEOREM AcceptedAlwaysInTree == Spec => []AcceptedInTree
<1>1. InTimeInv => AcceptedInTree
  <2> SUFFICES ASSUME InTimeInv, BlobsInTime, pc = "idle", NEW r \in Root, info[r] = "transitioned"
               PROVE  r \in Reached(store.tree.nodes, store.tree.root)
    BY DEF AcceptedInTree, TransitionedInTree, BlobsInTime
  <2>1. TypeInv /\ StatusInv /\ TreeInv
    BY DEF InTimeInv, CleanInv, BlobsInTime
  <2>2. Told = info /\ store = work
    BY <2>1, ToldIs DEF StatusInv, TreeInv, Told
  <2>3. store.tree.root = Anchor
    BY <2>1 DEF TypeInv, TypeOK, IsStore, IsTree
  <2> QED BY <2>1, <2>2, <2>3 DEF TreeInv, Grown
<1> QED BY <1>1, InTimeInvariant, PTL
-----------------------------------------------------------------------------
(* A block is refused for its own sake or for its parent's.                 *)

\* Nothing but the blocks themselves can make on_block/2 fail.
NothingElseFails == StopsCleanly /\ faults \cap {"late_blobs", "payload_error"} = {}

\* What on_block/2 will look for is there: a block that is pending or requested
\* is not of a future slot, a pending one has its blobs, and the post-state of
\* an accepted one is in memory or in the database, and on its way to it.
ReasonInv ==
    /\ \A q \in requests : SlotOf[q.root] <= slot
    /\ \A r \in Root \ {Anchor} :
          /\ Told[r] = "pending" => SlotOf[r] <= slot /\ missing_for_block(r, blobs) = {}
          /\ Told[r] = "invalid" => r \notin Valid \/ info[ParentOf[r]] = "invalid"
    /\ \A r \in Root : Told[r] = "transitioned" =>
          /\ SlotOf[r] >= SlotOf[Anchor]
          /\ r \in (work.states \cup states) \cap (states \cup saving)

\* A step that decides nothing, forgets no state, and sends no request anew.
LEMMA SameReasons ==
    ASSUME ReasonInv, Told' = Told, slot \in Nat, slot' \in Nat, slot' >= slot,
           SlotOf \in [Root -> Nat], requests \subseteq Requests,
           \A q \in requests' : \E p \in requests : q.root = p.root,
           \A q \in Root : info[q] \in Verdicts => info'[q] = info[q],
           ParentOf \in [Root \ {Anchor} -> Root], blobs \subseteq blobs',
           \A r \in Root : r \in (work.states \cup states) \cap (states \cup saving) =>
                           r \in (work'.states \cup states') \cap (states' \cup saving')
    PROVE  ReasonInv'
<1>1. \A q \in requests' : SlotOf[q.root] <= slot'
  BY DEF ReasonInv, Requests
<1>2. ASSUME NEW r \in Root \ {Anchor}, Told'[r] = "pending"
      PROVE  SlotOf[r] <= slot' /\ missing_for_block(r, blobs') = {}
  <2>1. SlotOf[r] <= slot /\ missing_for_block(r, blobs) = {}
    BY <1>2 DEF ReasonInv
  <2> QED BY <2>1 DEF missing_for_block
<1>3. ASSUME NEW r \in Root \ {Anchor}, Told'[r] = "invalid"
      PROVE  r \notin Valid \/ info'[ParentOf[r]] = "invalid"
  BY <1>3 DEF ReasonInv, Verdicts
<1>4. ASSUME NEW r \in Root, Told'[r] = "transitioned"
      PROVE  /\ SlotOf[r] >= SlotOf[Anchor]
             /\ r \in (work'.states \cup states') \cap (states' \cup saving')
  BY <1>4 DEF ReasonInv
<1> QED BY <1>1, <1>2, <1>3, <1>4 DEF ReasonInv

\* process_block/2 refuses a block for a reason.
LEMMA ProcessBlockReason ==
    ASSUME TypeInv, OneChange, ReasonInv, ParentsEarlier, NothingElseFails,
           writes = <<>>, NEW r \in Root \ {Anchor}, info[r] = "pending",
           NEW settled, NEW other, process_block(r, settled, other)
    PROVE  ReasonInv'
<1>t. /\ Told \in [Root -> Status \cup {"none"}] /\ ParentOf \in [Root \ {Anchor} -> Root]
      /\ SlotOf \in [Root -> Nat] /\ slot \in Nat /\ requests \subseteq Requests /\ Anchor \in Root
  BY ToldType, BlocksAssumption DEF TypeInv, TypeOK
<1>1. UNCHANGED <<info, blobs, slot, states>> /\ Told = info
  BY ProcessBlockStatus DEF process_block, db
<1>2. SlotOf[r] <= slot /\ missing_for_block(r, blobs) = {} /\ SlotOf[ParentOf[r]] < SlotOf[r]
  BY <1>1 DEF ReasonInv, ParentsEarlier
<1>3. CASE DownloadParent(r, other) /\ Told' = [Told EXCEPT ![ParentOf[r]] = "download"]
  <2>1. requests' = requests \cup {Request("block", ParentOf[r], MaxRetries)} /\ UNCHANGED <<work, saving>>
    BY <1>3 DEF DownloadParent
  <2>2. \A q \in requests' : SlotOf[q.root] <= slot
    BY <1>2, <1>t, <2>1 DEF ReasonInv, Request
  <2>3. \A q \in Root : Told'[q] \in {"pending", "invalid", "transitioned"} => Told'[q] = Told[q]
    BY <1>3, <1>t
  <2> QED BY <1>1, <2>1, <2>2, <2>3 DEF ReasonInv
<1>4. CASE (InheritInvalid(r, settled) \/ Reject(r, settled)) /\ Told' = [Told EXCEPT ![r] = "invalid"]
  <2>1. UNCHANGED <<requests, work, saving>>
    BY <1>4 DEF InheritInvalid, Reject
  <2>2. r \notin Valid \/ info[ParentOf[r]] = "invalid"
    <3>1. CASE InheritInvalid(r, settled)
      BY <3>1 DEF InheritInvalid
    <3>2. CASE Reject(r, settled)
      <4>1. info[ParentOf[r]] = "transitioned" /\ ~on_block_ok(r)
        BY <3>2 DEF Reject, NothingElseFails
      <4>2. SlotOf[ParentOf[r]] >= SlotOf[Anchor] /\ ParentOf[r] \in work.states \cup states
        BY <1>1, <1>t, <4>1 DEF ReasonInv
      <4>3. SlotOf[r] > SlotOf[Anchor]
        BY <1>2, <1>t, <4>2
      <4> QED BY <1>2, <4>1, <4>2, <4>3 DEF on_block_ok, HasState
    <3> QED BY <1>4, <3>1, <3>2
  <2>3. \A q \in Root : Told'[q] = IF q = r THEN "invalid" ELSE Told[q]
    BY <1>4, <1>t
  <2> QED BY <1>1, <2>1, <2>2, <2>3 DEF ReasonInv
<1>5. CASE Transition(r, settled) /\ Told' = [Told EXCEPT ![r] = "transitioned"]
  <2>1. /\ UNCHANGED requests /\ saving' = saving \cup {r} /\ work'.states = work.states \cup {r}
        /\ SlotOf[r] > SlotOf[Anchor]
    BY <1>5 DEF Transition, ForkStore, on_block_ok
  <2>2. \A q \in Root : Told'[q] = IF q = r THEN "transitioned" ELSE Told[q]
    BY <1>5, <1>t
  <2>3. \A q \in Root : Told'[q] = "transitioned" =>
          /\ SlotOf[q] >= SlotOf[Anchor]
          /\ q \in (work'.states \cup states) \cap (states \cup saving')
    BY <1>t, <2>1, <2>2 DEF ReasonInv
  <2> QED BY <1>1, <2>1, <2>2, <2>3 DEF ReasonInv
<1>6. CASE AwaitParent(r, other) /\ Told' = Told
  BY <1>1, <1>6 DEF AwaitParent, ReasonInv
<1> QED BY <1>3, <1>4, <1>5, <1>6, ProcessBlockStatus

\* Every step keeps the invariant.
LEMMA NextReason ==
    ASSUME TypeInv, StatusInv, TreeInv, ReasonInv, ParentsEarlier, NothingElseFails, [Next]_vars
    PROVE  ReasonInv'
<1>t. /\ Told \in [Root -> Status \cup {"none"}] /\ ParentOf \in [Root \ {Anchor} -> Root]
      /\ SlotOf \in [Root -> Nat] /\ slot \in Nat /\ slot' \in Nat /\ requests \subseteq Requests
      /\ \A n \in Nat : n >= n /\ n + 1 >= n
  BY ToldType, BlocksAssumption, NextType DEF StatusInv, TypeInv, TypeOK
<1>o. OneChange /\ StopsCleanly
  BY DEF StatusInv, NothingElseFails
<1>v. \A q \in Root : info[q] \in Verdicts => info'[q] = info[q]
  BY <1>o, NextStatus
<1>1. CASE store_block_info \/ remove_root_from_status \/ add_root_to_status \/ persist_store
  <2>1. Told' = Told /\ UNCHANGED <<slot, requests, saving, work, blobs, states>>
    BY <1>1, <1>o, WriteStatus
    DEF store_block_info, remove_root_from_status, add_root_to_status, persist_store, Pop, port
  <2> QED BY <1>t, <1>v, <2>1, SameReasons
<1>2. CASE ProcessBlockAndCheckChildren
  <2>1. pc = "block" /\ writes = <<>> /\ process_block(cur, "blocks", "return")
    BY <1>2 DEF ProcessBlockAndCheckChildren
  <2>2. cur \in Root \ {Anchor} /\ info[cur] = "pending"
    BY <2>1, ToldIs DEF StatusInv, Told, TypeInv, TypeOK, HandlerOK
  <2> QED BY <1>o, <2>1, <2>2, ProcessBlockReason
<1>3. CASE ProcessBlocks
  <2>1. UNCHANGED <<info, index, writes, slot, requests, saving, work, blobs, states>>
    BY <1>3 DEF ProcessBlocks, db, port
  <2>2. Told' = Told
    BY <1>o, <2>1, NothingTold
  <2> QED BY <1>t, <1>v, <2>1, <2>2, SameReasons
<1>4. CASE ProcessNext
  <2>1. PICK r \in batch : process_block(r, "batch", "batch")
    BY <1>4 DEF ProcessNext
  <2>2. writes = <<>> /\ r \in Root \ {Anchor} /\ info[r] = "pending"
    BY <1>4, <2>1, ToldIs DEF ProcessNext, StatusInv, Told, TypeInv, TypeOK
  <2> QED BY <1>o, <2>1, <2>2, ProcessBlockReason
<1>5. CASE Return
  <2>1. UNCHANGED <<info, index, writes, slot, requests, saving, work, blobs, states>>
    BY <1>5 DEF Return, db, TreeInv
  <2>2. Told' = Told
    BY <1>o, <2>1, NothingTold
  <2> QED BY <1>t, <1>v, <2>1, <2>2, SameReasons
<1>6. CASE SaveState \/ ReplyError \/ Tick \/ UNCHANGED vars
  <2>1. UNCHANGED <<info, index, writes, work, blobs>>
    BY <1>6 DEF SaveState, ReplyError, Tick, db, handler, vars
  <2>2. Told' = Told
    BY <1>o, <2>1, NothingTold
  <2>3. slot' \in {slot, slot + 1}
    BY <1>6 DEF SaveState, ReplyError, Tick, port, vars
  <2>4. \A q \in requests' : \E p \in requests : q.root = p.root
    BY <1>6 DEF SaveState, ReplyError, Tick, port, vars, Request
  <2>5. states \subseteq states' /\ states \cup saving \subseteq states' \cup saving'
    BY <1>6 DEF SaveState, ReplyError, Tick, db, port, vars
  <2> QED BY <1>t, <1>v, <2>1, <2>2, <2>3, <2>4, <2>5, SameReasons
<1>7. CASE GossipBlock \/ SyncedBlock \/ DownloadedBlock
  <2>1. PICK r \in Root \ {Anchor}, reqs \in SUBSET requests : add_block(r, reqs) /\ SlotOf[r] <= slot
    <3>1. CASE GossipBlock \/ SyncedBlock
      BY <3>1 DEF GossipBlock, SyncedBlock
    <3>2. CASE DownloadedBlock
      <4>1. PICK q \in requests : add_block(q.root, requests \ {q})
        BY <3>2 DEF DownloadedBlock
      <4>2. q.root \in Root \ {Anchor} /\ SlotOf[q.root] <= slot
        BY <1>t DEF Requests, ReasonInv
      <4> QED BY <4>1, <4>2
    <3> QED BY <1>7, <3>1, <3>2
  <2>2. writes = <<>> /\ UNCHANGED <<info, blobs, states, slot, saving, work>>
    BY <2>1 DEF add_block, db, StatusInv
  <2>3. ~AddIncomplete(r, reqs) /\ requests' = reqs
    BY <1>o, <2>1, <2>2, AddBlockStatus DEF AddIncomplete, NothingElseFails, AddComplete, AddKnown
  <2>4. CASE Told' = Told
    BY <1>t, <1>v, <2>1, <2>2, <2>3, <2>4, SameReasons
  <2>5. CASE AddComplete(r, reqs) /\ Told' = [Told EXCEPT ![r] = "pending"]
    <3>1. missing_for_block(r, blobs) = {}
      BY <2>5 DEF AddComplete
    <3>2. \A q \in Root : Told'[q] = IF q = r THEN "pending" ELSE Told[q]
      BY <1>t, <2>5
    <3>3. \A q \in requests' : SlotOf[q.root] <= slot
      BY <2>1, <2>3 DEF ReasonInv
    <3> QED BY <2>1, <2>2, <3>1, <3>2, <3>3 DEF ReasonInv
  <2> QED BY <1>o, <2>1, <2>2, <2>3, <2>4, <2>5, AddBlockStatus
<1>8. CASE GossipBlob \/ DownloadedBlobs
  <2>1. PICK r \in Root \ {Anchor} : \E ids : process_blobs(r, ids) /\ requests' \subseteq requests
    BY <1>8, BlobHandlers
  <2>2. writes = <<>> /\ UNCHANGED <<states, slot, saving, work>> /\ blobs \subseteq blobs'
    BY <2>1 DEF process_blobs, StatusInv
  <2>3. Told' = Told
    BY <1>o, <2>1, <2>2, ProcessBlobsStatus DEF TreeInv
  <2> QED BY <1>t, <1>v, <2>1, <2>2, <2>3, SameReasons
<1>9. CASE SupervisorRestart \/ NodeRestart
  <2>1. pc = "idle" /\ saving = {} /\ StartFrom(saved)
    BY <1>9, <1>o DEF SupervisorRestart, NodeRestart, StopsCleanly
  <2>2. /\ UNCHANGED <<info, index, blobs, states, slot>> /\ writes = <<>> /\ writes' = <<>>
        /\ requests' = {}
    BY <2>1 DEF StartFrom, db, StatusInv
  <2>3. Told' = Told
    BY <1>o, <2>2, NothingTold
  <2>4. \A r \in Root : r \in (work.states \cup states) \cap (states \cup saving) => r \in states'
    BY <2>1, <2>2
  <2> QED BY <1>t, <1>v, <2>2, <2>3, <2>4, SameReasons
<1> QED BY <1>1, <1>2, <1>3, <1>4, <1>5, <1>6, <1>7, <1>8, <1>9 DEF Next, HandlerStep

\* As long as the node stops only between handlers, no blob comes after its
\* block, the execution client answers, and blocks are later than their
\* parents, a block is :invalid only because its transition or payload is, or
\* because its parent is :invalid: never because its parent's state is not
\* found, its time has not come or its blobs are not there
\* (PendingBlocks.process_block, which takes any error for invalid).
THEOREM AlwaysInvalidForAReason ==
    ASSUME ParentsEarlier
    PROVE  Spec => []InvalidForAReason
<1>1. Init => ReasonInv
  <2> SUFFICES ASSUME Init PROVE ReasonInv
    OBVIOUS
  <2>1. Told = info
    BY ToldIs DEF Init, Told
  <2>2. \A r \in Root \ {Anchor} : Told[r] = "none"
    BY <2>1 DEF Init
  <2>3. Anchor \in states /\ requests = {} /\ SlotOf[Anchor] >= SlotOf[Anchor]
    BY BlocksAssumption DEF Init
  <2> QED BY <2>2, <2>3 DEF ReasonInv
<1>2. InTimeInv /\ (NothingElseFails => ReasonInv) /\ [Next]_vars => (NothingElseFails => ReasonInv)'
  BY NextReason, SameFaults DEF InTimeInv, CleanInv, BlobsInTime, StopsCleanly, NothingElseFails
<1>3. InTimeInv /\ (NothingElseFails => ReasonInv) => InvalidForAReason
  <2> SUFFICES ASSUME InTimeInv, NothingElseFails, ReasonInv, NEW r \in Root, info[r] = "invalid"
               PROVE  r \notin Valid \/ info[ParentOf[r]] = "invalid"
    BY DEF InvalidForAReason, NothingElseFails
  <2>1. TypeInv /\ StatusInv
    BY DEF InTimeInv, CleanInv, NothingElseFails
  <2>2. r # Anchor
    BY <2>1 DEF TypeInv, HandlerOK
  <2>3. Told[r] = "invalid"
    <3>1. CASE Told = info
      BY <3>1
    <3>3. CASE writes = <<>>
      BY <3>1, <3>3, ToldIs DEF Told
    <3>4. ASSUME NEW q \in Root \ {Anchor}, NEW from \in Status, NEW to \in Status,
                 PutLeft(q, from, to) \/ MoveLeft(q, from, to) \/ AddLeft(q, from, to)
          PROVE  Told[r] = "invalid"
      <4>1. CASE writes = Adding(q, to)
        BY <3>1, <4>1 DEF Told, ToldOf, Adding
      <4>2. CASE writes = Moving(q, from, to)
        BY <3>1, <4>2, ToldIs DEF Told
      <4>3. CASE PutLeft(q, from, to)
        <5>1. Told = [info EXCEPT ![q] = to] /\ q # r
          BY <4>3, ToldIs DEF PutLeft, Told, Verdicts
        <5> QED BY <2>1, <5>1 DEF TypeInv, TypeOK
      <4> QED BY <3>4, <4>1, <4>2, <4>3 DEF MoveLeft, AddLeft
    <3> QED BY <2>1, <3>3, <3>4 DEF StatusInv, OneChange
  <2> QED BY <2>2, <2>3 DEF ReasonInv
<1> QED BY <1>1, <1>2, <1>3, InTimeInvariant, PTL DEF Spec
=============================================================================

--------------------------- MODULE PendingBlocks ---------------------------
(***************************************************************************)
(* The block pipeline of the beacon node: PendingBlocks, Blocks/BlockDb,   *)
(* the by-root downloads of BlockDownloader and BlobDownloader, and the    *)
(* block half of ForkChoice.on_block, as the Libp2pPort GenServer runs     *)
(* them.                                                                   *)
(*                                                                         *)
(* One process (Libp2pPort) runs one handler at a time.  A handler is a    *)
(* sequence of steps here, because it writes the database several times    *)
(* and the node may die between two writes, and because the task that      *)
(* saves a post-state runs beside it.  `pc` says where the handler is and  *)
(* `writes` which database writes come before its next step; when a        *)
(* handler returns, the store it worked on becomes the process's store.    *)
(***************************************************************************)
EXTENDS Naturals, Sequences, FiniteSets, SimpleTree

CONSTANTS
    Root,           \* block roots that the node may ever meet
    Anchor,         \* the root the node started from, finalized throughout
    ParentOf,       \* parent_root of a block
    SlotOf,         \* slot of a block
    BlobsOf,        \* blob indices a block commits to
    Valid,          \* blocks whose state transition and payload are valid
    SlotsPerEpoch,  \* SLOTS_PER_EPOCH, the age up to which gossip is accepted
    MaxRetries,     \* @download_retries
    MaxSlot,        \* bound: slots the clock goes through
    MaxRestarts,    \* bound: restarts in a behaviour
    Environments    \* the sets of faults that behaviours may meet

Status == {"pending", "invalid", "download", "download_blobs", "transitioned"}
FaultKinds == {"late_blobs", "partial_blobs", "reply_error", "payload_error",
               "supervisor_restart", "node_restart", "clean_restart"}

ASSUME BlocksAssumption ==
    /\ Anchor \in Root
    /\ ParentOf \in [Root \ {Anchor} -> Root]
    /\ SlotOf \in [Root -> Nat]
    /\ BlobsOf \in [Root -> SUBSET Nat]
    /\ Valid \subseteq Root
    /\ Anchor \in Valid
    /\ BlobsOf[Anchor] = {}
ASSUME BoundsAssumption ==
    /\ SlotsPerEpoch \in Nat \ {0}
    /\ MaxRetries \in Nat
    /\ MaxSlot \in Nat
    /\ MaxRestarts \in Nat
    /\ Environments \subseteq SUBSET FaultKinds

VARIABLES
    \* the database, which survives a restart
    info,       \* status of the block info of a root, "none" when absent
    index,      \* roots listed under each status
    blobs,      \* blob sidecars stored, as <<root, index>>
    states,     \* block roots whose post-state is stored
    saved,      \* tree of the store last persisted
    \* the environment and the supervisor
    faults,     \* the faults that this behaviour may meet
    boot,       \* tree of the store BeaconNode.init gave to Libp2pPort
    restarts,   \* restarts so far
    \* the Libp2pPort process and the tasks it starts
    slot,       \* the latest slot that is not in the future by the store's time
                \* and the clock disparity
    store,      \* its fork-choice store: [tree, states]
    requests,   \* response handlers registered: [kind, root, retries]
    saving,     \* states being saved by StoreStatesSupervisor tasks
    \* the handler being run
    pc,         \* "idle", "block", "blocks", "batch" or "return"
    cur,        \* block processed on its own
    batch,      \* pending blocks that process_blocks has still to process
    work,       \* the store the handler works on
    keep,       \* whether the handler returns the store it worked on
    writes      \* database writes to make before the handler's next step

db == <<info, index, blobs, states, saved>>
sup == <<faults, boot, restarts>>
port == <<slot, store, requests, saving>>
handler == <<pc, cur, batch, work, keep, writes>>
vars == <<db, sup, port, handler>>
-----------------------------------------------------------------------------
\* A fork-choice store: its tree and the post-states it holds in memory.
ForkStore(tree, sts) == [tree |-> tree, states |-> sts]

\* The node starts from an anchor: its state is saved, its block info is
\* stored as transitioned (without an entry in the status index), the store
\* is persisted, and Libp2pPort has run check_pending_blocks on nothing.
Init ==
    /\ info = [r \in Root |-> IF r = Anchor THEN "transitioned" ELSE "none"]
    /\ index = [s \in Status |-> {}]
    /\ blobs = {}
    /\ states = {Anchor}
    /\ saved = NewTree(Anchor)
    /\ faults \in Environments
    /\ boot = NewTree(Anchor)
    /\ restarts = 0
    /\ slot = SlotOf[Anchor]
    /\ store = ForkStore(NewTree(Anchor), {Anchor})
    /\ requests = {}
    /\ saving = {}
    /\ pc = "idle"
    /\ cur = Anchor
    /\ batch = {}
    /\ work = store
    /\ keep = TRUE
    /\ writes = <<>>
-----------------------------------------------------------------------------
(* Database writes *)

Write(op, r, s) == [op |-> op, root |-> r, status |-> s]

\* BlockDb.change_root_status/3
change_root_status(r, from, to) ==
    <<Write("remove", r, from), Write("add", r, to)>>

\* Blocks.new_block_info/1
new_block_info(r, s) ==
    <<Write("put", r, s)>> \o change_root_status(r, "download", s)

\* Variant: the root is taken off the :download list, whatever it was on.
change_status_from_download(r, s) ==
    <<Write("put", r, s)>> \o change_root_status(r, "download", s)

\* Blocks.change_status/2, on the block info as it was loaded
change_status(r, s) ==
    <<Write("put", r, s)>> \o change_root_status(r, info[r], s)

\* The four writes, each atomic in the database.
Pop == /\ writes # <<>>
       /\ writes' = Tail(writes)
       /\ UNCHANGED <<sup, port, pc, cur, batch, work, keep>>

\* Blocks.store_block_info/1 and BlockDb.store_block_info/1
store_block_info ==
    /\ Pop
    /\ Head(writes).op = "put"
    /\ info' = [info EXCEPT ![Head(writes).root] = Head(writes).status]
    /\ UNCHANGED <<index, blobs, states, saved>>

\* BlockDb.remove_root_from_status/2
remove_root_from_status ==
    /\ Pop
    /\ Head(writes).op = "remove"
    /\ index' = [index EXCEPT ![Head(writes).status] = @ \ {Head(writes).root}]
    /\ UNCHANGED <<info, blobs, states, saved>>

\* BlockDb.add_root_to_status/2
add_root_to_status ==
    /\ Pop
    /\ Head(writes).op = "add"
    /\ index' = [index EXCEPT ![Head(writes).status] = @ \cup {Head(writes).root}]
    /\ UNCHANGED <<info, blobs, states, saved>>

\* StoreDb.persist_store/1
persist_store ==
    /\ Pop
    /\ Head(writes).op = "persist"
    /\ saved' = work.tree
    /\ UNCHANGED <<info, index, blobs, states>>

\* StateDb.store_state_info/1 in a task of StoreStatesSupervisor
SaveState ==
    \E r \in saving :
        /\ saving' = saving \ {r}
        /\ states' = states \cup {r}
        /\ UNCHANGED <<info, index, blobs, saved, sup, slot, store, requests, handler>>
-----------------------------------------------------------------------------
(* Requests *)

Request(kind, r, n) == [kind |-> kind, root |-> r, retries |-> n]

\* Blobs.missing_for_block/1
missing_for_block(r, bs) == {i \in BlobsOf[r] : <<r, i>> \notin bs}

\* Variant: retries are not checked.
ReplyErrorUnchecked ==
    /\ "reply_error" \in faults
    /\ pc = "idle"
    /\ \E q \in requests :
          requests' = (requests \ {q}) \cup {Request(q.kind, q.root, q.retries - 1)}
    /\ UNCHANGED <<db, sup, slot, store, saving, handler>>

\* handle_blocks_by_root_response / handle_blobs_by_root on an error: the
\* request is sent again while it has retries, and given up after that; the
\* error clauses of process_downloaded_block and process_blobs only log.
ReplyError ==
    /\ "reply_error" \in faults
    /\ pc = "idle"
    /\ \E q \in requests :
          requests' = (requests \ {q}) \cup
              IF q.retries > 0 THEN {Request(q.kind, q.root, q.retries - 1)} ELSE {}
    /\ UNCHANGED <<db, sup, slot, store, saving, handler>>
-----------------------------------------------------------------------------
(* process_block/2, its outcomes.  `next` is where the handler goes on.     *)

\* Variant: states the store holds in memory are not looked at.
HasStateInDb(r) == r \in states

\* Store.get_state/2
HasState(r) == r \in work.states \cup states

\* Variant: the results of the transition and of the payload are ignored.
on_block_ok_unverified(r) ==
    /\ HasState(ParentOf[r])
    /\ SlotOf[r] <= slot
    /\ SlotOf[r] > SlotOf[Anchor]
    /\ missing_for_block(r, blobs) = {}

\* ForkChoice.on_block/2 accepts the block: Handlers.on_block/2 finds the
\* parent's state, the block is neither in the future nor finalized past, its
\* blobs are there, and transition and payload are valid.  The check that the
\* block descends from the finalized one cannot fail, because its parent was
\* itself accepted on top of the anchor.
on_block_ok(r) ==
    /\ HasState(ParentOf[r])
    /\ SlotOf[r] <= slot
    /\ SlotOf[r] > SlotOf[Anchor]
    /\ missing_for_block(r, blobs) = {}
    /\ r \in Valid

\* Store.update_tree/3: a block whose parent is not in the tree leaves the
\* tree as it is.
update_tree(tree, r) ==
    LET new == AddBlock(tree, r, ParentOf[r])
    IN  IF new = NotFound THEN tree ELSE new

\* The parent is unknown: store it as :download and request it.
DownloadParent(r, next) ==
    /\ info[ParentOf[r]] = "none"
    /\ writes' = new_block_info(ParentOf[r], "download")
    /\ requests' = requests \cup {Request("block", ParentOf[r], MaxRetries)}
    /\ pc' = next
    /\ UNCHANGED <<work, saving>>

\* The parent is invalid, and so is the block.
InheritInvalid(r, next) ==
    /\ info[ParentOf[r]] = "invalid"
    /\ writes' = change_status(r, "invalid")
    /\ pc' = next
    /\ UNCHANGED <<work, saving, requests>>

\* Variant: the store is not persisted.
TransitionUnsaved(r, next) ==
    /\ info[ParentOf[r]] = "transitioned"
    /\ on_block_ok(r)
    /\ work' = ForkStore(update_tree(work.tree, r), work.states \cup {r})
    /\ saving' = saving \cup {r}
    /\ writes' = change_status(r, "transitioned")
    /\ pc' = next
    /\ UNCHANGED requests

\* on_block accepts: compute_post_state adds state and block to the store and
\* starts the task that saves the state; ForkChoice persists the store before
\* the block becomes :transitioned.
Transition(r, next) ==
    /\ info[ParentOf[r]] = "transitioned"
    /\ on_block_ok(r)
    /\ work' = ForkStore(update_tree(work.tree, r), work.states \cup {r})
    /\ saving' = saving \cup {r}
    /\ writes' = <<Write("persist", r, "transitioned")>> \o change_status(r, "transitioned")
    /\ pc' = next
    /\ UNCHANGED requests

\* on_block fails, for whatever reason: the block becomes :invalid.  An error
\* of the call to the execution client is one of the reasons.
Reject(r, next) ==
    /\ info[ParentOf[r]] = "transitioned"
    /\ ~on_block_ok(r) \/ "payload_error" \in faults
    /\ writes' = change_status(r, "invalid")
    /\ pc' = next
    /\ UNCHANGED <<work, saving, requests>>

\* The parent is :pending, :download or :download_blobs.
AwaitParent(r, next) ==
    /\ info[ParentOf[r]] \in {"pending", "download", "download_blobs"}
    /\ pc' = next
    /\ UNCHANGED <<work, saving, requests, writes>>

process_block(r, settled, other) ==
    /\ \/ DownloadParent(r, other)
       \/ InheritInvalid(r, settled)
       \/ Transition(r, settled)
       \/ Reject(r, settled)
       \/ AwaitParent(r, other)
    /\ UNCHANGED <<db, sup, slot, store, keep>>

\* Variant: children are not checked.
ProcessBlockAlone ==
    /\ pc = "block" /\ writes = <<>>
    /\ process_block(cur, "return", "return")
    /\ UNCHANGED <<cur, batch>>

\* process_block_and_check_children/2
ProcessBlockAndCheckChildren ==
    /\ pc = "block" /\ writes = <<>>
    /\ process_block(cur, "blocks", "return")
    /\ UNCHANGED <<cur, batch>>

\* process_blocks/1 reads the pending blocks: Blocks.get_blocks_with_status
\* fails as a whole when a listed root has no block info.
ProcessBlocks ==
    /\ pc = "blocks" /\ writes = <<>>
    /\ batch' = IF \E r \in index["pending"] : info[r] = "none"
                THEN {} ELSE index["pending"]
    /\ pc' = "batch"
    /\ UNCHANGED <<db, sup, port, cur, work, keep, writes>>

\* Variant: the latest slot goes first.
ProcessNextBackwards ==
    /\ pc = "batch" /\ writes = <<>>
    /\ \E r \in batch :
          /\ \A o \in batch : SlotOf[r] >= SlotOf[o]
          /\ batch' = batch \ {r}
          /\ process_block(r, "batch", "batch")
    /\ UNCHANGED cur

\* ... and processes them by slot, each of them once.
ProcessNext ==
    /\ pc = "batch" /\ writes = <<>>
    /\ \E r \in batch :
          /\ \A o \in batch : SlotOf[r] <= SlotOf[o]
          /\ batch' = batch \ {r}
          /\ process_block(r, "batch", "batch")
    /\ UNCHANGED cur

\* The handler returns the store it worked on; process_blobs/2 returns the
\* store it was given instead.
Return ==
    /\ writes = <<>>
    /\ pc = "return" \/ (pc = "batch" /\ batch = {})
    /\ store' = IF keep THEN work ELSE store
    /\ work' = IF keep THEN work ELSE store
    /\ pc' = "idle" /\ cur' = Anchor /\ keep' = TRUE
    /\ UNCHANGED <<db, sup, slot, requests, saving, batch, writes>>
-----------------------------------------------------------------------------
(* Handlers.  `reqs` are the response handlers left when this one runs.     *)

\* Variant: a block the node has a verdict on is taken in again.
AddCompleteAgain(r, reqs) ==
    /\ info[r] # "pending"
    /\ missing_for_block(r, blobs) = {}
    /\ writes' = new_block_info(r, "pending")
    /\ pc' = "block" /\ cur' = r
    /\ requests' = reqs

\* add_block/2 on a new block, or one being downloaded, with all its blobs
AddComplete(r, reqs) ==
    /\ info[r] \in {"none", "download"}
    /\ missing_for_block(r, blobs) = {}
    /\ writes' = new_block_info(r, "pending")
    /\ pc' = "block" /\ cur' = r
    /\ requests' = reqs

\* Variant: the missing blobs are not requested.
AddIncompleteSilently(r, reqs) ==
    /\ "late_blobs" \in faults
    /\ info[r] \in {"none", "download"}
    /\ missing_for_block(r, blobs) # {}
    /\ writes' = new_block_info(r, "download_blobs")
    /\ requests' = reqs
    /\ pc' = "return" /\ UNCHANGED cur

\* add_block/2 when blobs are missing, which they are unless they all came
\* before the block
AddIncomplete(r, reqs) ==
    /\ "late_blobs" \in faults
    /\ info[r] \in {"none", "download"}
    /\ missing_for_block(r, blobs) # {}
    /\ writes' = new_block_info(r, "download_blobs")
    /\ requests' = reqs \cup {Request("blobs", r, MaxRetries)}
    /\ pc' = "return" /\ UNCHANGED cur

\* add_block/2 on a block the node has already
AddKnown(r, reqs) ==
    /\ info[r] \notin {"none", "download"}
    /\ requests' = reqs
    /\ UNCHANGED <<pc, cur, writes>>

add_block(r, reqs) ==
    /\ pc = "idle"
    /\ AddComplete(r, reqs) \/ AddIncomplete(r, reqs) \/ AddKnown(r, reqs)
    /\ UNCHANGED <<db, sup, slot, store, saving, batch, work, keep>>

\* Gossip.BeaconBlock.handle_gossip_message/4; a block that validate/2 ignores
\* changes nothing.
GossipBlock ==
    \E r \in Root \ {Anchor} :
        /\ SlotOf[r] <= slot
        /\ SlotOf[r] + SlotsPerEpoch > slot
        /\ add_block(r, requests)

\* One block of a range that SyncBlocks downloaded: its slot is one of those
\* the node asked for, all past its head and none past its current slot.
SyncedBlock ==
    \E r \in Root \ {Anchor} :
        /\ SlotOf[r] <= slot
        /\ SlotOf[r] > SlotOf[Anchor]
        /\ add_block(r, requests)

\* process_downloaded_block/2 on the block that was asked for
DownloadedBlock ==
    \E q \in requests :
        /\ q.kind = "block"
        /\ add_block(q.root, requests \ {q})

\* process_blobs/2: the block may be complete now.  Its result is dropped.
process_blobs(r, ids) ==
    LET bs == blobs \cup {<<r, i>> : i \in ids}
        ready == info[r] = "download_blobs" /\ missing_for_block(r, bs) = {}
    IN  /\ pc = "idle"
        /\ blobs' = bs
        /\ IF ready
           THEN /\ writes' = change_status(r, "pending")
                /\ pc' = "block" /\ cur' = r /\ keep' = FALSE
           ELSE UNCHANGED <<pc, cur, keep, writes>>
        /\ UNCHANGED <<info, index, states, saved, sup, slot, store, saving, batch, work>>

\* Gossip.BlobSideCar.handle_gossip_message/4
GossipBlob ==
    \E r \in Root \ {Anchor} : \E i \in BlobsOf[r] :
        /\ process_blobs(r, {i})
        /\ UNCHANGED requests

\* The answer to a request for blobs; a peer may hold only some of them.
DownloadedBlobs ==
    \E q \in requests : \E ids \in SUBSET BlobsOf[q.root] \ {{}} :
        /\ q.kind = "blobs"
        /\ "partial_blobs" \in faults \/ ids = BlobsOf[q.root]
        /\ process_blobs(q.root, ids)
        /\ requests' = requests \ {q}

\* ForkChoice.on_tick/2, as far as blocks are concerned: the time moves on, in
\* the slot or to the next, and the store of the process is persisted.
Tick ==
    /\ pc = "idle"
    /\ slot' \in {slot, slot + 1} /\ slot' <= MaxSlot
    /\ saved' = store.tree
    /\ UNCHANGED <<info, index, blobs, states, sup, store, requests, saving, handler>>
-----------------------------------------------------------------------------
(* Restarts, at any point of a handler *)

\* The process starts over from `tree`, without states, requests or tasks, and
\* runs handle_continue(:check_pending_blocks).
StartFrom(tree) ==
    /\ restarts < MaxRestarts
    /\ restarts' = restarts + 1
    /\ store' = ForkStore(tree, {})
    /\ work' = ForkStore(tree, {})
    /\ requests' = {} /\ saving' = {}
    /\ pc' = "blocks" /\ cur' = Anchor
    /\ batch' = {} /\ keep' = TRUE /\ writes' = <<>>
    /\ UNCHANGED <<db, slot, faults>>

\* Libp2pPort dies and its one_for_all supervisor starts it again with the
\* arguments it was first given.
SupervisorRestart ==
    /\ "supervisor_restart" \in faults
    /\ StartFrom(boot)
    /\ UNCHANGED boot

\* The node is started again: StoreSetup takes the persisted store.  A clean
\* restart is one that finds no handler and no task running.
NodeRestart ==
    /\ \/ "node_restart" \in faults
       \/ "clean_restart" \in faults /\ pc = "idle" /\ saving = {}
    /\ StartFrom(saved)
    /\ boot' = saved
-----------------------------------------------------------------------------
HandlerStep ==
    \/ store_block_info \/ remove_root_from_status
    \/ add_root_to_status \/ persist_store
    \/ ProcessBlockAndCheckChildren \/ ProcessBlocks \/ ProcessNext \/ Return

Next ==
    \/ HandlerStep
    \/ SaveState
    \/ GossipBlock \/ SyncedBlock \/ DownloadedBlock
    \/ GossipBlob \/ DownloadedBlobs \/ ReplyError
    \/ Tick
    \/ SupervisorRestart \/ NodeRestart

Spec == Init /\ [][Next]_vars

\* The process goes on with its handler, and every request is answered: the
\* port reports a failure or a timeout of a request as an error response.
Fairness ==
    /\ WF_vars(HandlerStep)
    /\ WF_vars(DownloadedBlock \/ DownloadedBlobs \/ ReplyError)
    /\ WF_vars(SaveState)

FairSpec == Spec /\ Fairness
-----------------------------------------------------------------------------
(* Properties *)

IsTree(t) ==
    /\ t = [root |-> Anchor, nodes |-> t.nodes]
    /\ DOMAIN t.nodes \subseteq Root
    /\ t.nodes \in [DOMAIN t.nodes -> SUBSET Root]
IsStore(s) ==
    /\ s = ForkStore(s.tree, s.states)
    /\ IsTree(s.tree)
    /\ s.states \subseteq Root
Requests == [kind : {"block", "blobs"}, root : Root \ {Anchor}, retries : 0..MaxRetries]
Writes == [op : {"put", "remove", "add", "persist"}, root : Root \ {Anchor}, status : Status]

\* The variables have the types their declarations say.
TypeOK ==
    /\ info \in [Root -> Status \cup {"none"}]
    /\ index \in [Status -> SUBSET (Root \ {Anchor})]
    /\ blobs \subseteq Root \X Nat
    /\ states \subseteq Root
    /\ IsTree(saved) /\ IsTree(boot)
    /\ faults \in Environments
    /\ restarts \in 0..MaxRestarts
    /\ slot \in Nat
    /\ IsStore(store) /\ IsStore(work)
    /\ requests \subseteq Requests
    /\ saving \subseteq Root
    /\ pc \in {"idle", "block", "blocks", "batch", "return"}
    /\ cur \in Root
    /\ batch \subseteq Root \ {Anchor}
    /\ keep \in BOOLEAN
    /\ writes \in Seq(Writes)

\* What the handler relies on between its steps: the anchor keeps its status,
\* and every block it is about to process has been stored, or is the next to be.
HandlerOK ==
    /\ info[Anchor] = "transitioned"
    /\ \A r \in batch : info[r] # "none"
    /\ pc = "block" =>
          /\ cur # Anchor
          /\ \/ info[cur] # "none"
             \/ writes # <<>> /\ Head(writes).op = "put" /\ Head(writes).root = cur

\* What ForkChoice.on_block must have established of a block.
Verified(r) == r \in Valid /\ missing_for_block(r, blobs) = {}

\* Only a block whose transition is valid and whose blobs are stored is ever
\* :transitioned or a node of a fork-choice tree, in memory, persisted or kept
\* by the supervisor, whatever fails and whenever the node restarts
\* (PendingBlocks.process_block, Store.store_block_info).
OnlyVerifiedBlocks ==
    /\ \A r \in Root : info[r] = "transitioned" => Verified(r)
    /\ \A t \in {store.tree, work.tree, saved, boot} :
          \A r \in DOMAIN t.nodes : Verified(r)

\* A block about to be written as :transitioned is verified already.
WritesVerified ==
    \A i \in 1..Len(writes) :
        writes[i].op = "put" /\ writes[i].status = "transitioned" => Verified(writes[i].root)

\* When no handler is running, every :transitioned block is reached from the
\* root of the fork-choice tree: a block the node accepted takes part in its
\* fork choice (Store.update_tree, "We expect the finalized block to be in the
\* tree").
TransitionedInTree ==
    pc = "idle" =>
        \A r \in Root : info[r] = "transitioned" =>
            r \in Reached(store.tree.nodes, store.tree.root)

\* When no handler is running, no :pending block has a parent that is settled
\* or unknown: pending blocks are processed as soon as they can be
\* (add_block: "If the new state enables older blocks that were pending to be
\* processed, they will be processed immediately").
NoReadyPending ==
    pc = "idle" =>
        \A r \in Root \ {Anchor} : info[r] = "pending" =>
            info[ParentOf[r]] \in {"pending", "download", "download_blobs"}

\* The node stops only between handlers, and with it all that it does at once.
StopsCleanly == faults \cap {"node_restart", "supervisor_restart"} = {}

\* As long as the node stops only between handlers and no blob comes after its
\* block, accepted blocks take part in the fork choice (TransitionedInTree).
AcceptedInTree == StopsCleanly /\ "late_blobs" \notin faults => TransitionedInTree

\* As long as the node stops only between handlers, whatever peers and the
\* execution client do, no block that could be processed is left pending
\* (NoReadyPending).
ReadyProcessed == StopsCleanly => NoReadyPending

\* A block is :invalid only for its own sake or for its parent's, as long as
\* the node stops between handlers, no blob comes after its block, and the
\* execution client answers.
InvalidForAReason ==
    StopsCleanly /\ faults \cap {"late_blobs", "payload_error"} = {} =>
        \A r \in Root : info[r] = "invalid" =>
            r \notin Valid \/ info[ParentOf[r]] = "invalid"

\* When no handler is running, the status index and the block infos agree, as
\* long as the node stops only between handlers.
IndexAgrees ==
    StopsCleanly /\ pc = "idle" =>
        \A r \in Root \ {Anchor}, s \in Status : r \in index[s] <=> info[r] = s

\* Peers answer with what they are asked for, and the node keeps running.
PeersAnswer == faults \subseteq {"late_blobs", "payload_error"}

\* What is being downloaded, block or blobs, has a request in flight.
Requested(r) ==
    /\ info[r] = "download" => \E q \in requests : q.root = r /\ q.kind = "block"
    /\ info[r] = "download_blobs" => \E q \in requests : q.root = r /\ q.kind = "blobs"

\* When no handler is running, whatever is being downloaded has a request in
\* flight, as long as peers answer and the node keeps running: no block waits
\* for an answer that cannot come.
DownloadsRequested == PeersAnswer /\ pc = "idle" => \A r \in Root : Requested(r)

\* A verdict on a block is final, as long as the node stops between handlers.
VerdictsFinal ==
    [][StopsCleanly => \A r \in Root : info[r] \in {"transitioned", "invalid"} => info'[r] = info[r]]_vars

\* A block r waits for a download that nobody has in flight: its own, or that
\* of a block below it.
Stranded(r) ==
    LET waits[x \in Root] == ~Requested(x) \/ (x # Anchor /\ waits[ParentOf[x]])
    IN  waits[r]

\* Every pending block gets a verdict, as long as the node stops only between
\* handlers, unless it or a block below it waits for a download that is not in
\* flight: retries that ran out, an answer with some of the blobs, or a restart
\* that forgot its request are all that can leave a block pending for ever.
PendingSettles ==
    \A r \in Root : StopsCleanly /\ info[r] = "pending" ~>
        info[r] \in {"transitioned", "invalid"} \/ Stranded(r)
=============================================================================

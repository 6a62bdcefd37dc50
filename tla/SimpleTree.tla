----------------------------- MODULE SimpleTree -----------------------------
(***************************************************************************)
(* LambdaEthereumConsensus.ForkChoice.Simple.Tree: the block tree the      *)
(* fork-choice store keeps above the last finalized block.                 *)
(*                                                                         *)
(* A tree is [root |-> id, nodes |-> id -> set of child ids].  The code    *)
(* also keeps parent_id in a node, which nothing reads, and keeps the      *)
(* children as a list, whose order and repetitions nothing distinguishes.  *)
(***************************************************************************)
EXTENDS Naturals, FiniteSets

\* What the `{:error, :not_found}` results are modelled by.
NotFound == [error |-> "not_found"]

\* new/1
NewTree(root) == [root |-> root, nodes |-> [n \in {root} |-> {}]]

\* has_block?/2
HasBlock(tree, b) == b \in DOMAIN tree.nodes

\* add_node_to_tree/3 when the parent is there: the block gets a node without
\* children, also when it had one already, and the parent gets one more child.
AddNode(nodes, b, p) ==
    [n \in DOMAIN nodes \cup {b} |->
        IF n = p THEN nodes[p] \cup {b}
        ELSE IF n = b THEN {} ELSE nodes[n]]

\* add_block/3
AddBlock(tree, b, p) ==
    IF p \in DOMAIN tree.nodes
    THEN [root |-> tree.root, nodes |-> AddNode(tree.nodes, b, p)]
    ELSE NotFound

\* One level of the recursion of get_subtree/3: the ids plus their children.
Grow(nodes, ids) == ids \cup UNION {nodes[n] : n \in ids}

\* The ids get_subtree/3 visits from `id`, by the depth of the recursion.
Reached(nodes, id) ==
    LET reach[k \in 0..Cardinality(DOMAIN nodes)] ==
            IF k = 0 THEN {id} ELSE Grow(nodes, reach[k - 1])
    IN  reach[Cardinality(DOMAIN nodes)]

\* update_root/2
UpdateRoot(tree, r) ==
    IF r = tree.root THEN tree
    ELSE IF r \notin DOMAIN tree.nodes THEN NotFound
    ELSE [root |-> r, nodes |-> [n \in Reached(tree.nodes, r) |-> tree.nodes[n]]]
=============================================================================

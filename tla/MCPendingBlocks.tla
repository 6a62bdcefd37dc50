-------------------------- MODULE MCPendingBlocks --------------------------
(* Instances of PendingBlocks for TLC: small block trees on the anchor a.   *)
EXTENDS PendingBlocks, TLC

CONSTANTS a, b, c, d, e

\* a <- b <- c <- d and b <- e, with every block a slot after its parent but
\* e, whose slot lies two after its parent's.
TreeRoot == {a, b, c, d, e}
TreeParent == (b :> a) @@ (c :> b) @@ (d :> c) @@ (e :> b)
TreeSlot == (a :> 0) @@ (b :> 1) @@ (c :> 2) @@ (d :> 3) @@ (e :> 3)
TreeNoBlobs == [r \in TreeRoot |-> {}]
TreeTwoBlobsOnB == [r \in TreeRoot |-> IF r = b THEN {0, 1} ELSE {}]
TreeAllButC == TreeRoot \ {c}

\* Everything fails; the node fails only between handlers; nothing fails but
\* requests, and blobs are early; peers answer, and the node keeps running.
Environment ==
    {{"late_blobs", "partial_blobs", "reply_error", "payload_error", "supervisor_restart", "node_restart"},
     {"late_blobs", "partial_blobs", "reply_error", "payload_error", "clean_restart"},
     {"reply_error", "clean_restart"},
     {"late_blobs", "payload_error"}}
=============================================================================

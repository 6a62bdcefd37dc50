-------------------------------- MODULE MCBlobs --------------------------------
(***************************************************************************)
(* Two blocks: one with a blob that occurs twice, one of which sidecars    *)
(* with each other's data go around.                                       *)
(***************************************************************************)
EXTENDS InclusionProofs

MCBlobsOf == [plain |-> <<"x", "y", "x">>, mixed |-> <<"x", "u">>]
==============================================================================

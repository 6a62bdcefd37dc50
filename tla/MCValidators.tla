----------------------------- MODULE MCValidators -----------------------------
(***************************************************************************)
(* Two validators of the node, one of another; a committee of two          *)
(* subcommittees of three that changes with every epoch, in which a        *)
(* validator may appear twice in a subcommittee, and in both.              *)
(***************************************************************************)
EXTENDS Validators

CONSTANT First     \* the committee of period 0

MCCommittee == [p \in 0..3 |-> CASE p = 0 -> First
                                 [] p % 2 = 1 -> <<1, 3, 3, 2, 1, 2>>
                                 [] p % 2 = 0 /\ p > 0 -> <<3, 2, 1, 1, 2, 3>>]
OwnOnly == <<1, 2, 1, 2, 2, 2>>
Others == <<3, 3, 3, 3, 3, 3>>

MCAttestsIn == [e \in 0..3 |-> [v \in Own |-> 2 * e + ((v - 1) % 2)]]
MCAggregates == {<<1, 1, 0>>, <<1, 3, 0>>, <<1, 1, 1>>, <<1, 2, 1>>}
MCProposer == [s \in 0..4 |-> IF s = 2 THEN 1 ELSE 3]
AnyMessage32(m) == TRUE

\* A made-up message names a member of another node, which sits in some of the
\* subnets only.
MCForgers == {3}

\* Made-up contributions of slot 1 on block 1: of all of a subcommittee, and of
\* no subnet.
MCForgeries ==
  {[slot |-> 1, root |-> 1, subnet |-> x[1], bits |-> x[2]] :
     x \in {<<0, 0..2>>, <<2, {0}>>}}
==============================================================================

------------------------------ MODULE SyncPromise ------------------------------
(***************************************************************************)
(* What the aggregation of sync-committee messages promises, without bits, *)
(* signatures, subnets' rows or duties, and whatever others send: an offer *)
(* that verifies and a block that is proposed count a validator only if it *)
(* signed their root, and a block is refused only for an offer in it that  *)
(* does not verify.                                                        *)
(***************************************************************************)
EXTENDS Integers

CONSTANTS Validators, Slots, Roots, Subnets,
          Counts(_),        \* the validators an offer counts
          Verifies(_)       \* and whether it verifies with their keys

VARIABLES signed,     \* <<validator, root>>
          offered,    \* offers of a slot, a root and a subnet
          included,   \* [slot, parent, signers]
          refused     \* [slot, parent]

vars == <<signed, offered, included, refused>>

Signers(root) == {v \in Validators : <<v, root>> \in signed}

Init == signed = {} /\ offered = {} /\ included = {} /\ refused = {}

(* Validators sign what they take for the head. *)
Sign ==
  /\ signed' # signed
  /\ signed \subseteq signed' /\ signed' \subseteq Validators \X Roots
  /\ UNCHANGED <<included, refused, offered>>

(* Offers are made up or made of what was signed; those that verify are of *)
(* validators that signed.                                                 *)
Offer ==
  /\ UNCHANGED <<signed, included, refused>>
  /\ offered \subseteq offered'
  /\ \A o \in offered' \ offered :
       Verifies(o) => Counts(o) # {} /\ Counts(o) \subseteq Signers(o.root)

(* At most one offer of each subnet, of the parent and of the slot before. *)
Picks(slot, parent, S) ==
  {pick \in [S -> offered] :
     \A n \in S : pick[n].slot = slot - 1 /\ pick[n].root = parent /\ pick[n].subnet = n}

(* A block takes such offers, all of whose validators signed its parent. *)
Include ==
  /\ included' # included
  /\ \E slot \in Slots, parent \in Roots, S \in SUBSET Subnets :
       \E pick \in Picks(slot, parent, S) :
         LET signers == UNION {Counts(pick[n]) : n \in S}
         IN  /\ included' = included \cup {[slot |-> slot, parent |-> parent, signers |-> signers]}
             /\ signers \subseteq Signers(parent)
  /\ UNCHANGED <<signed, refused, offered>>

(* A block is given up for an offer that does not verify. *)
Refuse ==
  /\ refused' # refused
  /\ \E slot \in Slots, parent \in Roots, S \in SUBSET Subnets :
       /\ refused' = refused \cup {[slot |-> slot, parent |-> parent]}
       /\ \E pick \in Picks(slot, parent, S) : \E n \in S : ~Verifies(pick[n])
  /\ UNCHANGED <<signed, included, offered>>

Next == Sign \/ Offer \/ Include \/ Refuse

Spec == Init /\ [][Next]_vars
==============================================================================

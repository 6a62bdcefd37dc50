---------------------------- MODULE MCForkChoice ----------------------------
(* Instances of ForkChoice for TLC: four slots an epoch, three seconds a      *)
(* slot, and a tree that forks twice on an anchor of epoch 2.                  *)
EXTENDS ForkChoice

CONSTANTS a, b, c, d, e, f, h, n, zero, v1, v2, v3, v4

\* a8 <- b12 <- c13 <- d16 <- e17 <- h21 with the forks b <- f13 and c <- n17.
TreeRoot == {a, b, c, d, e, f, h, n}
TreeParent == (b :> a) @@ (c :> b) @@ (d :> c) @@ (e :> d) @@ (h :> e) @@ (f :> b) @@ (n :> c)
TreeSlot == (a :> 8) @@ (b :> 12) @@ (c :> 13) @@ (d :> 16) @@ (e :> 17) @@ (h :> 21)
            @@ (f :> 13) @@ (n :> 17)
TreeRank == (a :> 0) @@ (b :> 1) @@ (c :> 2) @@ (d :> 3) @@ (e :> 4) @@ (h :> 5)
            @@ (f :> 6) @@ (n :> 7)
TreeJust ==
    (a :> Checkpoint(1, zero)) @@ (b :> Checkpoint(2, a)) @@ (c :> Checkpoint(2, a))
    @@ (d :> Checkpoint(3, b)) @@ (e :> Checkpoint(4, d)) @@ (h :> Checkpoint(5, e))
    @@ (f :> Checkpoint(2, a)) @@ (n :> Checkpoint(3, b))
TreeFin ==
    (a :> Checkpoint(0, zero)) @@ (b :> Checkpoint(1, zero)) @@ (c :> Checkpoint(1, zero))
    @@ (d :> Checkpoint(2, a)) @@ (e :> Checkpoint(3, b)) @@ (h :> Checkpoint(4, d))
    @@ (f :> Checkpoint(1, zero)) @@ (n :> Checkpoint(2, a))

\* The checkpoints in the post-states.
Realized(U) ==
    LET real[r \in TreeRoot] ==
            IF r = a THEN U[r]
            ELSE IF NewEpoch(r) THEN U[TreeParent[r]] ELSE real[TreeParent[r]]
    IN  real
RealizedJust == Realized(TreeJust)
RealizedFin == Realized(TreeFin)

Vote(s, t, r, vs) == [slot |-> s, target |-> t, root |-> r, voters |-> vs]
TreeAttestations ==
    (a :> <<>>) @@ (b :> <<>>) @@ (f :> <<>>)
    @@ (c :> <<Vote(12, Checkpoint(3, b), b, {v3, v4})>>)
    @@ (d :> <<Vote(14, Checkpoint(3, b), c, {v1, v2})>>)
    @@ (e :> <<Vote(16, Checkpoint(4, d), d, {v1, v2})>>)
    @@ (h :> <<Vote(20, Checkpoint(5, e), e, {v1, v2})>>)
    @@ (n :> <<Vote(16, Checkpoint(4, d), d, {v3})>>)
TreeSlashings == [r \in TreeRoot |-> IF r = h THEN {v3} ELSE {}]
OnTheWire == {Vote(17, Checkpoint(4, c), n, {v2, v3})}

Validators == {v1, v2, v3, v4}
Balances == [v \in Validators |-> 32]

\* The checkpoints of the tree are those of a chain that is safe.
ASSUME SafeTree == AccountableSafety

\* Ticks at the start of slots of three epochs, of which the first is entered
\* late, and a second later in slot 17.
Ticks == {GenesisTime + 3 * s : s \in {13, 16, 17, 18, 20, 21}} \cup {GenesisTime + 52}
=============================================================================

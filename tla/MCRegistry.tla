---------------------------- MODULE MCRegistry ----------------------------
(* A registry of three or four validators, with balances in quarters of an   *)
(* increment.                                                                *)
EXTENDS Registry

Active(key, credentials, effective) ==
    [key |-> key, credentials |-> credentials, effective |-> effective, slashed |-> FALSE,
     eligibility |-> 0, activation |-> 0, exit |-> FAR_FUTURE_EPOCH, withdrawable |-> FAR_FUTURE_EPOCH]
Fresh == [validators |-> <<Active("A", "compounding", 16), Active("B", "eth1", 8), Active("C", "eth1", 8)>>,
          balances |-> <<18, 10, 8>>]
\* B is leaving with a deposit on its way, C was slashed behind it in the exit
\* queue, G waits for its activation and a partial withdrawal of A is queued.
Busy == [validators |-> <<Fresh.validators[1],
                          [Fresh.validators[2] EXCEPT !.exit = 1, !.withdrawable = 2],
                          [Active("C", "bls", 8) EXCEPT !.exit = 2, !.withdrawable = 4, !.slashed = TRUE],
                          [Active("G", "eth1", 8) EXCEPT !.eligibility = 1, !.activation = FAR_FUTURE_EPOCH]>>,
         balances |-> Fresh.balances \o <<8>>,
         exits |-> [epoch |-> 3, left |-> 0], slashings |-> [e \in 0..3 |-> IF e = 0 THEN 8 ELSE 0],
         deposits |-> <<[key |-> "B", credentials |-> "eth1", amount |-> 4, slot |-> 0, signed |-> FALSE]>>,
         partials |-> <<[index |-> 1, amount |-> 2, withdrawable |-> 4]>>]
FreshAndBusy == {Fresh, Busy}
OnlyBusy == {Busy}

Deposit(key, amount, signed) ==
    [key |-> key, credentials |-> "eth1", amount |-> amount, signed |-> signed]
Bridge == <<Deposit("B", 4, FALSE), Deposit("E", 4, TRUE)>>
Requested == {Deposit("D", 8, TRUE), Deposit("A", 3, FALSE), Deposit("F", 4, FALSE)}

\* B loses more than an increment in a bad epoch.
BadEpochs == {[i \in 1..7 |-> IF i = 2 THEN -5 ELSE 0]}
=============================================================================

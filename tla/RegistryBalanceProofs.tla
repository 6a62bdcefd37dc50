------------------------ MODULE RegistryBalanceProofs ------------------------
(* No balance is lost and none is counted twice: what balances and queued    *)
(* deposits hold together is what the ledger says, for every chain.  And no   *)
(* stretch of epochs loses more balance through the exit queue than its churn.*)
EXTENDS RegistryProofs

\* What a state holds.
Held(s) == Total(s.balances) + Queued(s.deposits)

\* It is a number, made of numbers.
LEMMA HeldIs ==
    ASSUME NEW s, StateOK(s)
    PROVE  /\ s.balances \in Seq(Nat) /\ Total(s.balances) \in Nat
           /\ Paying(PendingDepositType) /\ s.deposits \in Seq(PendingDepositType) /\ Queued(s.deposits) \in Nat
           /\ Held(s) \in Nat
<1>1. s \in StateType
  BY DEF StateOK
<1>2. s.balances \in Seq(Nat) /\ s.deposits \in Seq(PendingDepositType)
  BY <1>1 DEF StateType
<1>3. Paying(PendingDepositType)
  BY DEF Paying, PendingDepositType
<1>4. Total(s.balances) \in Nat
  BY <1>2, TotalIs
<1>5. Queued(s.deposits) \in Nat
  BY <1>2, <1>3, QueuedJoined
<1> QED BY <1>2, <1>3, <1>4, <1>5 DEF Held

\* The same balances and the same deposits hold the same.
LEMMA HeldSame ==
    ASSUME NEW s, NEW t, Total(t.balances) = Total(s.balances), t.deposits = s.deposits
    PROVE  Held(t) = Held(s)
  BY DEF Held

\* switch_to_compounding_validator/2 moves the excess from the balance to the
\* queue.
LEMMA SwitchHeld ==
    ASSUME NEW s, Good(s), NEW i \in Indices(s)
    PROVE  Held(switch_to_compounding_validator(s, i)) = Held(s)
<1> DEFINE t == [s EXCEPT !.validators[i].credentials = "compounding"]
           M == MIN_ACTIVATION_BALANCE
           b == t.balances[i]
           d == [key |-> t.validators[i].key, credentials |-> t.validators[i].credentials,
                 amount |-> b - M, slot |-> 0, signed |-> FALSE]
           u == [t EXCEPT !.balances[i] = M, !.deposits = Append(@, d)]
<1>1. Step(s, t) /\ Near(s, t) /\ t.balances = s.balances /\ t.deposits = s.deposits
  BY CredentialsSet DEF Credentials, Alike
<1>2. StateOK(s)
  BY DEF Good
<1> HIDE DEF t
<1>3. Good(t) /\ StateOK(t) /\ t \in StateType /\ Indices(t) = Indices(s)
  BY <1>1, <1>2, NearOK DEF Step, Good, StateOK
<1>4. /\ t.validators[i] \in ValidatorType /\ b \in Nat /\ t.balances \in Seq(Nat)
      /\ i \in DOMAIN t.balances /\ t.deposits \in Seq(PendingDepositType) /\ M \in Nat
  BY <1>3, Fields, ChainSpecAssumption DEF StateType
<1>5. Held(t) = Held(s)
  BY <1>1, HeldSame
<1>6. CASE b <= M
  <2>1. switch_to_compounding_validator(s, i) = t
    BY <1>6 DEF switch_to_compounding_validator, queue_excess_active_balance, t
  <2> QED BY <1>5, <2>1
<1>7. CASE ~(b <= M)
  <2>1. b - M \in Nat /\ t.validators[i].key \in Keys /\ t.validators[i].credentials \in Credentials
    BY <1>4, <1>7, SMTT(30) DEF ValidatorType
  <2>2. d \in PendingDepositType /\ d.amount = b - M
    BY <2>1 DEF PendingDepositType
  <2>3. switch_to_compounding_validator(s, i) = u
    BY <1>7 DEF switch_to_compounding_validator, queue_excess_active_balance, t
  <2> HIDE DEF d
  <2>4. u.balances = [t.balances EXCEPT ![i] = M] /\ u.deposits = Append(t.deposits, d)
    BY <1>3 DEF StateType
  <2> HIDE DEF u
  <2>5. Queued(u.deposits) = Queued(t.deposits) + (b - M) /\ Queued(t.deposits) \in Nat
    BY <1>4, <2>2, <2>4, HeldIs, <1>3, QueuedAppended
  <2>6. Total(u.balances) + b = Total(t.balances) + M /\ Total(t.balances) \in Nat
    BY <1>4, <2>4, TotalIs
  <2>7. Total(u.balances) \in Nat
    <3>1. u.balances \in Seq(Nat)
      BY <1>4, <2>4
    <3> QED BY <3>1, TotalIs
  <2> DEFINE x == Total(u.balances)
             y == Total(t.balances)
             p == Queued(u.deposits)
             q == Queued(t.deposits)
  <2>8. x \in Nat /\ y \in Nat /\ q \in Nat /\ b \in Nat /\ M \in Nat /\ p = q + (b - M) /\ x + b = y + M
    BY <1>4, <2>5, <2>6, <2>7
  <2> HIDE DEF x, y, p, q, b, M
  <2>9. x + p = y + q
    BY <2>8
  <2>10. Held(u) = Held(t)
    BY <2>9 DEF Held, x, y, p, q
  <2> QED BY <1>5, <2>3, <2>10
<1> QED BY <1>6, <1>7

\* Some validator of s has the key.
Known(s, key) == \E i \in Indices(s) : s.validators[i].key = key

\* find_validator/2 answers 0 exactly when no validator has the key.
LEMMA FindKnown ==
    ASSUME NEW s, StateOK(s), NEW key
    PROVE  find_validator(s, key) = 0 <=> ~Known(s, key)
<1> DEFINE I == {i \in 1..Len(s.validators) : s.validators[i].key = key}
<1>1. find_validator(s, key) = IF I # {} THEN Min(I) ELSE 0
  BY DEF find_validator, SelectInSeq
<1>2. I # {} => Min(I) \in I
  <2> SUFFICES ASSUME I # {} PROVE Min(I) \in I
    OBVIOUS
  <2>1. I \subseteq Nat
    BY Fields
  <2> HIDE DEF I
  <2>2. \E m \in I : \A n \in I : m <= n
    BY <2>1, LeastNat
  <2> QED BY <2>2 DEF Min
<1>3. Indices(s) = 1..Len(s.validators) /\ 0 \notin I
  BY Fields
<1>4. Known(s, key) <=> I # {}
  BY <1>3 DEF Known
<1> HIDE DEF I
<1> QED BY <1>1, <1>2, <1>3, <1>4

\* apply_pending_deposit/2 adds the amount to the total and makes the key known,
\* unless it is one that is dropped.
LEMMA ApplyPendingHeld ==
    ASSUME NEW s, Good(s), NEW d \in PendingDepositType
    PROVE  LET t == apply_pending_deposit(s, d)
           IN  IF find_validator(s, d.key) = 0 /\ ~d.signed THEN t = s
               ELSE /\ Total(t.balances) = Total(s.balances) + d.amount
                    /\ \A key : Known(t, key) <=> Known(s, key) \/ key = d.key
<1> DEFINE i == find_validator(s, d.key)
           up == increase_balance(s, i, d.amount)
           new == add_validator_to_registry(s, d.key, d.credentials, d.amount)
<1>1. StateOK(s) /\ s \in StateType
  BY DEF Good, StateOK
<1>2. i # 0 => i \in Indices(s)
  BY <1>1, FindIs
<1>3. d.key \in Keys /\ d.credentials \in Credentials /\ d.amount \in Nat /\ d.signed \in BOOLEAN
  BY DEF PendingDepositType
<1>4. i = 0 <=> ~Known(s, d.key)
  BY <1>1, FindKnown
<1>5. CASE i # 0
  <2>1. apply_pending_deposit(s, d) = up
    BY <1>5 DEF apply_pending_deposit
  <2> HIDE DEF i
  <2>2. Total(up.balances) = Total(s.balances) + d.amount
    BY <1>2, <1>3, <1>5, BalanceUp
  <2>3. up.validators = s.validators
    BY <1>2, <1>3, <1>5, BalanceMoved
  <2> HIDE DEF up
  <2>4. \A key : Known(up, key) <=> Known(s, key)
    BY <2>3 DEF Known, Indices
  <2> QED BY <1>4, <1>5, <2>1, <2>2, <2>4 DEF i
<1>6. CASE i = 0 /\ d.signed
  <2>1. apply_pending_deposit(s, d) = new
    BY <1>6 DEF apply_pending_deposit
  <2> HIDE DEF i
  <2> DEFINE w == get_validator_from_deposit(d.key, d.credentials, d.amount)
  <2>2. new.balances = Append(s.balances, d.amount) /\ new.validators = Append(s.validators, w)
    BY <1>1 DEF add_validator_to_registry, StateType
  <2>3. w.key = d.key
    BY DEF get_validator_from_deposit
  <2> HIDE DEF new, w
  <2>4. Total(new.balances) = Total(s.balances) + d.amount
    <3>1. s.balances \in Seq(Nat)
      BY <1>1, Fields
    <3> QED BY <1>3, <2>2, <3>1, TotalIs
  <2>5. \A key : Known(new, key) <=> Known(s, key) \/ key = d.key
    <3> DEFINE n == Len(s.validators)
    <3>1. s.validators \in Seq(ValidatorType) /\ n \in Nat
      BY <1>1, Fields
    <3>2. /\ Indices(s) = 1..n /\ Indices(new) = 1..(n + 1)
          /\ new.validators[n + 1] = w /\ \A j \in 1..n : new.validators[j] = s.validators[j]
      BY <2>2, <3>1 DEF Indices
    <3> HIDE DEF n
    <3>3. 1..(n + 1) = (1..n) \cup {n + 1}
      BY <3>1
    <3>4. ASSUME NEW key PROVE Known(new, key) <=> Known(s, key) \/ key = d.key
      BY <2>3, <3>2, <3>3 DEF Known
    <3> QED BY <3>4
  <2> QED BY <1>6, <2>1, <2>4, <2>5 DEF i
<1>7. CASE i = 0 /\ ~d.signed
  BY <1>7 DEF apply_pending_deposit
<1> QED BY <1>3, <1>5, <1>6, <1>7

\* What is dropped of the first m deposits.
LostUpto(s, m) == SumOf([k \in {k \in 1..m : Dropped(s, k)} |-> s.deposits[k].amount])

\* The amount grows with the deposits that the loop drops.
LEMMA LostIs ==
    ASSUME NEW s, StateOK(s)
    PROVE  /\ LostUpto(s, 0) = 0
           /\ \A m \in 0..Len(s.deposits) : LostUpto(s, m) \in Nat
           /\ \A m \in Nat : m + 1 <= Len(s.deposits) =>
                  LostUpto(s, m + 1) = LostUpto(s, m) + (IF Dropped(s, m + 1) THEN s.deposits[m + 1].amount ELSE 0)
<1> DEFINE q == s.deposits
           D(m) == {k \in 1..m : Dropped(s, k)}
           F(m) == [k \in D(m) |-> q[k].amount]
<1>1. q \in Seq(PendingDepositType) /\ \A k \in 1..Len(q) : q[k].amount \in Nat
  BY HeldIs DEF Paying
<1>2. \A m : LostUpto(s, m) = SumOf(F(m)) /\ DOMAIN F(m) = D(m)
  BY DEF LostUpto
<1>3. ASSUME NEW m \in 0..Len(q) PROVE Summable(F(m), D(m))
  <2>1. IsFiniteSet(1..m) /\ D(m) \in SUBSET (1..m)
    BY <1>1, FS_Interval
  <2>2. \A k \in D(m) : k \in 1..Len(q)
    BY <1>1
  <2>3. \A k \in D(m) : F(m)[k] \in Nat
    BY <1>1, <2>2
  <2> HIDE DEF D, F
  <2> QED BY <2>1, <2>3, FS_Subset DEF Summable
<1>4. D(0) = {}
  OBVIOUS
<1>5. LostUpto(s, 0) = 0
  <2>1. 0 \in 0..Len(q)
    BY <1>1
  <2> HIDE DEF D, F, q
  <2> QED BY <1>2, <1>3, <1>4, <2>1, SumOfIs
<1>6. ASSUME NEW m \in Nat, m + 1 <= Len(q)
      PROVE  LostUpto(s, m + 1) = LostUpto(s, m) + (IF Dropped(s, m + 1) THEN q[m + 1].amount ELSE 0)
  <2> DEFINE x == m + 1
             a == F(m)
             b == F(x)
  <2>1. m \in 0..Len(q) /\ x \in 1..Len(q) /\ 1..x = (1..m) \cup {x} /\ x \notin 1..m
    BY <1>1, <1>6
  <2> HIDE DEF x
  <2>2. Summable(a, DOMAIN a) /\ LostUpto(s, m) = SumOf(a) /\ LostUpto(s, x) = SumOf(b) /\ SumOf(a) \in Nat
    BY <1>2, <1>3, <2>1, SumOfIs
  <2>3. CASE Dropped(s, x)
    <3>1. D(x) = D(m) \cup {x} /\ x \notin D(m)
      BY <2>1, <2>3
    <3>2. b[x] = q[x].amount /\ DOMAIN b = DOMAIN a \cup {x} /\ x \notin DOMAIN a /\ \A k \in DOMAIN a : b[k] = a[k]
      BY <3>1
    <3>3. b[x] \in Nat
      BY <1>1, <2>1, <3>2
    <3> HIDE DEF a, b
    <3>4. SumOf(b) = SumOf(a) + b[x]
      BY <2>2, <3>2, <3>3, SumMore
    <3> QED BY <2>2, <2>3, <3>2, <3>4 DEF x
  <2>4. CASE ~Dropped(s, x)
    <3>1. D(x) = D(m)
      BY <2>1, <2>4
    <3>2. DOMAIN b = DOMAIN a /\ \A k \in DOMAIN a : b[k] = a[k]
      BY <3>1
    <3> HIDE DEF a, b
    <3>3. SumOf(b) = SumOf(a)
      BY <2>2, <3>2, SumEqual
    <3> QED BY <2>2, <2>4, <3>3 DEF x
  <2> QED BY <2>3, <2>4
<1>7. \A m \in 0..Len(q) : LostUpto(s, m) \in Nat
  <2> HIDE DEF D, F, q
  <2> QED BY <1>2, <1>3, SumOfIs
<1> QED BY <1>5, <1>6, <1>7

\* Who is known, and what is held, lost and queued, when the loop over the
\* deposits of s has come to a.
Before(s, m, key) == \E j \in 1..m : s.deposits[j].signed /\ s.deposits[j].key = key
KnownBy(s, a) == \A key : Known(a.state, key) <=> Known(s, key) \/ Before(s, a.last, key)
Balanced(s, a) ==
    Total(a.state.balances) + Queued(a.postponed) + LostUpto(s, a.last)
        = Total(s.balances) + Queued(SubSeq(s.deposits, 1, a.last))
Counted(s, a, k) ==
    /\ IF a.halted THEN a.last \in 0..k ELSE a.last = k
    /\ KnownBy(s, a) /\ Balanced(s, a)

\* The loop starts with everything accounted for.
LEMMA CountedFirst ==
    ASSUME NEW s, Good(s)
    PROVE  Counted(s, DepositBase(s), 0)
<1> DEFINE a == DepositBase(s)
<1>1. StateOK(s)
  BY DEF Good
<1>2. a.state = s /\ a.last = 0 /\ a.postponed = << >> /\ ~a.halted
  BY DEF DepositBase
<1> HIDE DEF a
<1>3. SubSeq(s.deposits, 1, 0) = << >>
  BY <1>1, HeldIs
<1>4. Total(s.balances) \in Nat /\ Queued(<< >>) = 0 /\ LostUpto(s, 0) = 0
  BY <1>1, HeldIs, LostIs, QueuedEmpty
<1>5. Balanced(s, a)
  <2> DEFINE y == Total(s.balances)
             e == Queued(<< >>)
  <2>1. /\ Total(a.state.balances) = y /\ Queued(a.postponed) = e /\ LostUpto(s, a.last) = 0
        /\ Queued(SubSeq(s.deposits, 1, a.last)) = e /\ y \in Nat /\ e = 0
    BY <1>2, <1>3, <1>4
  <2> HIDE DEF y, e
  <2>2. y + e + 0 = y + e
    BY <2>1
  <2> QED BY <2>1, <2>2 DEF Balanced, y
<1>6. KnownBy(s, a)
  BY <1>2 DEF KnownBy, Before
<1> QED BY <1>2, <1>5, <1>6 DEF Counted, a

\* One deposit more.
LEMMA CountedNext ==
    ASSUME NEW s, Good(s), NEW k \in Nat, k + 1 <= Len(s.deposits), NEW a \in DepositAcc(s), Counted(s, a, k)
    PROVE  Counted(s, DepositStep(s, a, s.deposits[k + 1]), k + 1)
<1> DEFINE q == s.deposits
           d == q[k + 1]
           st == a.state
           c == DepositStep(s, a, d)
           t == apply_pending_deposit(st, d)
           Taken(b, u, p) == b.last = a.last + 1 /\ ~b.halted /\ b.state = u /\ b.postponed = p
<1>1. StateOK(s) /\ q \in Seq(PendingDepositType) /\ Paying(PendingDepositType) /\ d \in PendingDepositType
  BY HeldIs DEF Good
<1>2. /\ st \in DepositStates(s) /\ a.last \in Nat /\ a.halted \in BOOLEAN /\ a.postponed \in Seq(PendingDepositType)
      /\ a.processed \in Nat /\ a.churn_limit_reached \in BOOLEAN
  BY DEF DepositAcc
<1>3. Good(st) /\ StateOK(st)
  BY <1>2 DEF DepositStates, Step, Good
<1>4. d.key \in Keys /\ d.amount \in Nat /\ d.signed \in BOOLEAN
  BY <1>1 DEF PendingDepositType
<1>5. a \in [state : DepositStates(s), churn_limit_reached : BOOLEAN, processed : Nat,
             postponed : Seq(PendingDepositType), last : Nat, halted : BOOLEAN]
  BY DEF DepositAcc
<1>6. \/ c.last = a.last /\ c.state = st /\ c.postponed = a.postponed /\ c.halted
      \/ /\ ~a.halted /\ find_validator(st, d.key) # 0 /\ Taken(c, st, Append(a.postponed, d))
      \/ /\ ~a.halted /\ Taken(c, t, a.postponed)
  <2> DEFINE A == [a EXCEPT !.halted = TRUE]
             B == [[a EXCEPT !.last = @ + 1] EXCEPT !.state = t]
             C == [[a EXCEPT !.last = @ + 1] EXCEPT !.postponed = Append(@, d)]
             D == [a EXCEPT !.halted = TRUE, !.churn_limit_reached = TRUE]
             E == [[a EXCEPT !.last = @ + 1] EXCEPT !.state = t, !.processed = @ + d.amount, !.churn_limit_reached = FALSE]
  <2>1. \/ a.halted /\ c = a
        \/ ~a.halted /\ c \in {A, B, D, E}
        \/ ~a.halted /\ c = C /\ find_validator(st, d.key) # 0
    BY <1>2 DEF DepositStep, handle_pending_deposit
  <2> HIDE DEF d, c, t
  <2>2. A.last = a.last /\ A.state = st /\ A.postponed = a.postponed /\ A.halted
    BY <1>5
  <2>3. D.last = a.last /\ D.state = st /\ D.postponed = a.postponed /\ D.halted
    BY <1>5
  <2>4. ~a.halted => Taken(B, t, a.postponed) /\ Taken(E, t, a.postponed)
    BY <1>5
  <2>5. ~a.halted => Taken(C, st, Append(a.postponed, d))
    BY <1>5
  <2> HIDE DEF A, B, C, D, E, Taken, st
  <2>6. a.halted => c = a \/ ~a.halted
    BY <2>1
  <2> QED BY <2>1, <2>2, <2>3, <2>4, <2>5 DEF st
<1> HIDE DEF c
<1>7. CASE c.last = a.last /\ c.state = st /\ c.postponed = a.postponed /\ c.halted
  <2>1. a.last \in 0..(k + 1)
    BY <1>2 DEF Counted
  <2>2. KnownBy(s, c)
    BY <1>7 DEF Counted, KnownBy
  <2>3. Balanced(s, c)
    BY <1>7 DEF Counted, Balanced
  <2> QED BY <1>7, <2>1, <2>2, <2>3 DEF Counted, c
<1>8. ASSUME ~a.halted PROVE /\ a.last = k /\ k \in 0..Len(q) /\ k + 1 \in 1..Len(q)
                             /\ Queued(SubSeq(q, 1, k + 1)) = Queued(SubSeq(q, 1, k)) + d.amount
                             /\ Queued(SubSeq(q, 1, k)) \in Nat
  <2>1. SubSeq(q, 1, k) \in Seq(PendingDepositType) /\ SubSeq(q, 1, k + 1) = Append(SubSeq(q, 1, k), d)
    BY <1>1, PrefixNext
  <2>2. a.last = k /\ k \in 0..Len(q) /\ k + 1 \in 1..Len(q)
    BY <1>1, <1>8 DEF Counted
  <2> HIDE DEF d, q
  <2> QED BY <1>1, <2>1, <2>2, QueuedAppended
<1>9. /\ Total(st.balances) \in Nat /\ Queued(a.postponed) \in Nat /\ Total(s.balances) \in Nat
      /\ Queued(Append(a.postponed, d)) = Queued(a.postponed) + d.amount
  <2> HIDE DEF d, q, st
  <2> QED BY <1>1, <1>2, <1>3, HeldIs, QueuedAppended
<1>10. ASSUME ~a.halted PROVE /\ LostUpto(s, k + 1) = LostUpto(s, k) + (IF Dropped(s, k + 1) THEN d.amount ELSE 0)
                              /\ LostUpto(s, k) \in Nat
  BY <1>1, <1>8, <1>10, LostIs
<1>11. ASSUME ~a.halted PROVE Dropped(s, k + 1) <=> (find_validator(st, d.key) = 0 /\ ~d.signed)
  <2>1. Known(st, d.key) <=> Known(s, d.key) \/ Before(s, k, d.key)
    BY <1>8, <1>11 DEF Counted, KnownBy
  <2>2. (k + 1) - 1 = k /\ \A j \in 1..k : q[j].signed \in BOOLEAN
    <3>1. \A j \in 1..k : j \in 1..Len(q)
      BY <1>8, <1>11
    <3>2. \A j \in 1..k : q[j] \in PendingDepositType
      BY <1>1, <3>1
    <3> QED BY <3>2 DEF PendingDepositType
  <2>3. Dropped(s, k + 1) <=> ~d.signed /\ find_validator(s, d.key) = 0 /\ ~Before(s, k, d.key)
    BY <2>2 DEF Dropped, Before
  <2>4. (find_validator(s, d.key) = 0 <=> ~Known(s, d.key)) /\ (find_validator(st, d.key) = 0 <=> ~Known(st, d.key))
    BY <1>1, <1>3, FindKnown
  <2> QED BY <2>1, <2>3, <2>4
<1>12. ASSUME ~a.halted PROVE \A key : Before(s, k + 1, key) <=> Before(s, k, key) \/ (d.signed /\ key = d.key)
  <2>1. 1..(k + 1) = (1..k) \cup {k + 1}
    OBVIOUS
  <2> QED BY <2>1 DEF Before
<1>13. CASE ~a.halted /\ find_validator(st, d.key) # 0 /\ Taken(c, st, Append(a.postponed, d))
  <2>1. ~Dropped(s, k + 1) /\ Known(st, d.key)
    BY <1>3, <1>11, <1>13, FindKnown
  <2>2. KnownBy(s, c)
    <3> SUFFICES ASSUME NEW key PROVE Known(c.state, key) <=> Known(s, key) \/ Before(s, c.last, key)
      BY DEF KnownBy
    <3>1. Known(st, key) <=> Known(s, key) \/ Before(s, k, key)
      BY <1>8, <1>13 DEF Counted, KnownBy
    <3> QED BY <1>8, <1>12, <1>13, <2>1, <3>1
  <2>3. Balanced(s, c)
    <3>1. Total(st.balances) + Queued(a.postponed) + LostUpto(s, k) = Total(s.balances) + Queued(SubSeq(q, 1, k))
      BY <1>8, <1>13 DEF Counted, Balanced
    <3>2. LostUpto(s, k + 1) = LostUpto(s, k) + 0 /\ LostUpto(s, k) \in Nat
      BY <1>10, <1>13, <2>1
    <3> DEFINE v == Total(st.balances)
               w == Queued(a.postponed)
               x == LostUpto(s, k)
               y == Total(s.balances)
               z == Queued(SubSeq(q, 1, k))
               amount == d.amount
    <3>3. v \in Nat /\ w \in Nat /\ x \in Nat /\ y \in Nat /\ z \in Nat /\ amount \in Nat /\ v + w + x = y + z
      BY <1>4, <1>8, <1>9, <1>13, <3>1, <3>2
    <3>4. /\ Total(c.state.balances) = v /\ Queued(c.postponed) = w + amount /\ LostUpto(s, c.last) = x + 0
          /\ Total(s.balances) = y /\ Queued(SubSeq(q, 1, c.last)) = z + amount
      BY <1>8, <1>9, <1>13, <3>2
    <3> HIDE DEF v, w, x, y, z, amount
    <3>5. v + (w + amount) + (x + 0) = y + (z + amount)
      BY <3>3
    <3> QED BY <3>4, <3>5 DEF Balanced
  <2> QED BY <1>8, <1>13, <2>2, <2>3 DEF Counted, c
<1>14. CASE ~a.halted /\ Taken(c, t, a.postponed)
  <2>1. KnownBy(s, c)
    <3> SUFFICES ASSUME NEW key PROVE Known(c.state, key) <=> Known(s, key) \/ Before(s, c.last, key)
      BY DEF KnownBy
    <3>1. Known(st, key) <=> Known(s, key) \/ Before(s, k, key)
      BY <1>8, <1>14 DEF Counted, KnownBy
    <3>2. CASE find_validator(st, d.key) = 0 /\ ~d.signed
      BY <1>1, <1>3, <1>8, <1>12, <1>14, <3>1, <3>2, ApplyPendingHeld
    <3>3. CASE ~(find_validator(st, d.key) = 0 /\ ~d.signed)
      <4>1. Known(t, key) <=> Known(st, key) \/ key = d.key
        BY <1>1, <1>3, <3>3, ApplyPendingHeld
      <4>2. d.signed \/ Known(st, d.key)
        BY <1>3, <3>3, FindKnown
      <4>3. Known(st, d.key) <=> Known(s, d.key) \/ Before(s, k, d.key)
        BY <1>8, <1>14 DEF Counted, KnownBy
      <4> HIDE DEF t, st, d
      <4> QED BY <1>8, <1>12, <1>14, <3>1, <4>1, <4>2, <4>3
    <3> QED BY <3>2, <3>3
  <2>2. Balanced(s, c)
    <3> DEFINE v == Total(st.balances)
               w == Queued(a.postponed)
               x == LostUpto(s, k)
               y == Total(s.balances)
               z == Queued(SubSeq(q, 1, k))
               amount == d.amount
               lost == IF find_validator(st, d.key) = 0 /\ ~d.signed THEN amount ELSE 0
    <3>1. v + w + x = y + z
      BY <1>8, <1>14 DEF Counted, Balanced
    <3>2. LostUpto(s, k + 1) = x + lost /\ x \in Nat
      BY <1>10, <1>11, <1>14
    <3>3. v \in Nat /\ w \in Nat /\ x \in Nat /\ y \in Nat /\ z \in Nat /\ amount \in Nat
      BY <1>4, <1>8, <1>9, <1>14, <3>2
    <3>4. Total(t.balances) = v + (amount - lost)
      <4>1. CASE find_validator(st, d.key) = 0 /\ ~d.signed
        <5>1. t = st
          BY <1>1, <1>3, <4>1, ApplyPendingHeld
        <5> QED BY <3>3, <4>1, <5>1
      <4>2. CASE ~(find_validator(st, d.key) = 0 /\ ~d.signed)
        <5>1. Total(t.balances) = Total(st.balances) + d.amount
          BY <1>1, <1>3, <4>2, ApplyPendingHeld
        <5>2. lost = 0
          BY <4>2
        <5> HIDE DEF t
        <5> QED BY <3>3, <5>1, <5>2
      <4> QED BY <4>1, <4>2
    <3>5. lost \in Nat
      BY <3>3
    <3>6. /\ Total(c.state.balances) = v + (amount - lost) /\ Queued(c.postponed) = w /\ LostUpto(s, c.last) = x + lost
          /\ Total(s.balances) = y /\ Queued(SubSeq(q, 1, c.last)) = z + amount
      BY <1>8, <1>14, <3>2, <3>4
    <3> HIDE DEF v, w, x, y, z, amount, lost
    <3>7. (v + (amount - lost)) + w + (x + lost) = y + (z + amount)
      BY <3>1, <3>3, <3>5
    <3> QED BY <3>6, <3>7 DEF Balanced
  <2> QED BY <1>8, <1>14, <2>1, <2>2 DEF Counted, c
<1> QED BY <1>6, <1>7, <1>13, <1>14

\* process_pending_deposits/1 credits, postpones or keeps every deposit that it
\* does not drop.
LEMMA DepositsHeld ==
    ASSUME NEW s, Good(s)
    PROVE  Held(process_pending_deposits(s)) + Lost(s) = Held(s) /\ Lost(s) \in Nat
<1> DEFINE q == s.deposits
           n == Len(q)
           acc == PendingDepositsLoop(s)
           t == process_pending_deposits(s)
<1>1. StateOK(s) /\ q \in Seq(PendingDepositType) /\ Paying(PendingDepositType) /\ n \in Nat
  BY HeldIs DEF Good
<1>2. PICK run \in [0..n -> DepositAcc(s)] :
          /\ run[0] = DepositBase(s) /\ run[n] = acc
          /\ \A k \in 1..n : run[k] = DepositStep(s, run[k - 1], q[k])
  BY DepositRun
<1> DEFINE K == {k \in Nat : k <= n => Counted(s, run[k], k)}
<1>3. 0 \in K
  BY <1>2, CountedFirst
<1>4. ASSUME NEW k \in Nat, k \in K PROVE k + 1 \in K
  <2> SUFFICES ASSUME k + 1 <= n PROVE Counted(s, run[k + 1], k + 1)
    OBVIOUS
  <2>1. k <= n /\ k \in 0..n /\ k + 1 \in 1..n /\ (k + 1) - 1 = k
    BY <1>1
  <2>2. Counted(s, run[k], k) /\ run[k] \in DepositAcc(s) /\ run[k + 1] = DepositStep(s, run[k], q[k + 1])
    BY <1>2, <1>4, <2>1
  <2> QED BY <2>2, CountedNext
<1> HIDE DEF K
<1>5. Nat \subseteq K
  BY <1>3, <1>4, SetInduction
<1>6. Counted(s, acc, n) /\ acc \in DepositAcc(s)
  <2>1. n \in K /\ n <= n /\ n \in 0..n
    BY <1>1, <1>5
  <2> QED BY <1>2, <2>1 DEF K
<1>7. acc.last \in 0..n
  BY <1>1, <1>6 DEF Counted
<1>8. /\ t.balances = acc.state.balances /\ t.deposits = Drop(q, acc.last) \o acc.postponed
      /\ acc.postponed \in Seq(PendingDepositType)
  BY DepositsGood
<1>9. Lost(s) = LostUpto(s, acc.last)
  BY DEF Lost, LostUpto
<1> HIDE DEF acc, t, q, n
<1>10. Drop(q, acc.last) \in Seq(PendingDepositType)
  <2>1. acc.last \in Nat
    BY <1>1, <1>7
  <2> QED BY <1>1, <2>1, DropIs
<1>11. Queued(t.deposits) = Queued(Drop(q, acc.last)) + Queued(acc.postponed)
       /\ Queued(Drop(q, acc.last)) \in Nat /\ Queued(acc.postponed) \in Nat
  BY <1>1, <1>8, <1>10, QueuedJoined
<1>12. Queued(q) = Queued(SubSeq(q, 1, acc.last)) + Queued(Drop(q, acc.last)) /\ Queued(SubSeq(q, 1, acc.last)) \in Nat
  BY <1>1, <1>7, QueuedSplit DEF n
<1>13. Total(s.balances) \in Nat /\ Total(acc.state.balances) \in Nat /\ LostUpto(s, acc.last) \in Nat
  <2>1. StateOK(acc.state)
    BY <1>6 DEF DepositAcc, DepositStates, Step, Good
  <2>2. LostUpto(s, acc.last) \in Nat
    BY <1>1, <1>7, LostIs DEF n, q
  <2> QED BY <1>1, <2>1, <2>2, HeldIs
<1>14. Total(acc.state.balances) + Queued(acc.postponed) + LostUpto(s, acc.last)
           = Total(s.balances) + Queued(SubSeq(q, 1, acc.last))
  BY <1>6 DEF Counted, Balanced, q
<1> DEFINE v == Total(acc.state.balances)
           w == Queued(acc.postponed)
           x == LostUpto(s, acc.last)
           y == Total(s.balances)
           z == Queued(SubSeq(q, 1, acc.last))
           r == Queued(Drop(q, acc.last))
<1>15. v \in Nat /\ w \in Nat /\ x \in Nat /\ y \in Nat /\ z \in Nat /\ r \in Nat /\ v + w + x = y + z
  BY <1>11, <1>12, <1>13, <1>14
<1>16. Held(t) = v + (r + w) /\ Held(s) = y + (z + r) /\ Lost(s) = x
  BY <1>8, <1>9, <1>11, <1>12 DEF Held, q
<1> HIDE DEF v, w, x, y, z, r
<1> QED BY <1>15, <1>16 DEF t
-----------------------------------------------------------------------------
(* The steps of the chain.                                                  *)

\* Requests that withdraw move neither balances nor deposits.
LEMMA WithdrawalRequestHeld ==
    ASSUME Good(state), NEW i \in Indices(state), NEW amount \in Nat, NEW owner \in BOOLEAN
    PROVE  Held(process_withdrawal_request(state, i, amount, owner)) = Held(state)
<1> DEFINE s == state
           pending == get_pending_balance_to_withdraw(s, i)
           excess == s.balances[i] - MIN_ACTIVATION_BALANCE - pending
           to_withdraw == Smaller(excess, amount)
           c == compute_exit_epoch_and_update_churn(s, to_withdraw)
           t == [c EXCEPT !.partials = Append(@, [index |-> i, amount |-> to_withdraw,
                    withdrawable |-> c.exits.epoch + MIN_VALIDATOR_WITHDRAWABILITY_DELAY])]
           x == initiate_validator_exit(s, i)
<1>1. StateOK(s) /\ s \in StateType
  BY DEF Good, StateOK
<1>2. process_withdrawal_request(s, i, amount, owner) \in {s, t, x}
  BY DEF process_withdrawal_request, QueuePartial
<1>3. Held(x) = Held(s)
  <2>1. Alike(s, x) /\ x.balances = s.balances
    BY <1>1, ExitAlike
  <2> HIDE DEF x
  <2> QED BY <2>1, HeldSame DEF Alike
<1>4. Held(t) = Held(s)
  <2>1. t.balances = s.balances /\ t.deposits = s.deposits
    BY <1>1 DEF compute_exit_epoch_and_update_churn, StateType
  <2> HIDE DEF t
  <2> QED BY <2>1, HeldSame
<1> HIDE DEF t, x
<1> QED BY <1>2, <1>3, <1>4

\* Requests to consolidate move at most the excess of a validator that starts
\* to compound.
LEMMA ConsolidationRequestHeld ==
    ASSUME Good(state), NEW i \in Indices(state), NEW j \in Indices(state), NEW owner \in BOOLEAN
    PROVE  Held(process_consolidation_request(state, i, j, owner)) = Held(state)
<1> DEFINE s == state
           c == compute_consolidation_epoch_and_update_churn(s, s.validators[i].effective)
           t == [c EXCEPT !.validators[i] =
                           [@ EXCEPT !.exit = c.consolidating.epoch,
                                     !.withdrawable = c.consolidating.epoch + MIN_VALIDATOR_WITHDRAWABILITY_DELAY],
                       !.consolidations = Append(@, [source |-> i, target |-> j])]
           x == switch_to_compounding_validator(s, i)
<1>1. StateOK(s) /\ s \in StateType
  BY DEF Good, StateOK
<1>2. process_consolidation_request(s, i, j, owner) \in {s, t, x}
  BY DEF process_consolidation_request
<1>3. Held(x) = Held(s)
  BY SwitchHeld
<1>4. Held(t) = Held(s)
  <2>1. t.balances = s.balances /\ t.deposits = s.deposits
    BY <1>1 DEF compute_consolidation_epoch_and_update_churn, StateType
  <2> HIDE DEF t
  <2> QED BY <2>1, HeldSame
<1> HIDE DEF t, x
<1> QED BY <1>2, <1>3, <1>4

\* The passes of an epoch: only rewards, penalties and dropped deposits change
\* what is held.
LEMMA EpochHeld ==
    ASSUME NEW s, Good(s), NEW deltas, \A i \in DOMAIN deltas : deltas[i] \in Int
    PROVE  LET r == process_rewards_and_penalties(s, deltas)
               u == process_registry_updates(r)
               p == process_slashings(u)
           IN  /\ Held(Final(s, deltas)) =
                      Held(s) + (Total(r.balances) - Total(s.balances)) + (Total(p.balances) - Total(u.balances)) - Lost(p)
               /\ Final(s, deltas) \in StateType
<1> DEFINE r == process_rewards_and_penalties(s, deltas)
           u == process_registry_updates(r)
           p == process_slashings(u)
           d == process_pending_deposits(p)
           c == process_pending_consolidations(d)
           e == process_effective_balance_updates(c)
           f == process_slashings_reset(e)
<1>1. Alike(s, r) /\ Good(r)
  BY RewardsGood DEF Step
<1> HIDE DEF r
<1>2. Alike(r, u) /\ Good(u) /\ u.balances = r.balances
  BY <1>1, RegistryPassGood DEF Pass
<1> HIDE DEF u
<1>3. Alike(u, p) /\ Good(p)
  BY <1>2, SlashingsGood DEF Step
<1> HIDE DEF p
<1>4. Good(d) /\ Held(d) + Lost(p) = Held(p) /\ Lost(p) \in Nat
  BY <1>3, DepositsGood, DepositsHeld DEF Step
<1> HIDE DEF d
<1>5. Good(c) /\ Total(c.balances) = Total(d.balances) /\ c.deposits = d.deposits
  BY <1>4, ConsolidationsGood DEF Step
<1> HIDE DEF c
<1>6. Good(e) /\ e.balances = c.balances /\ e.deposits = c.deposits
  BY <1>5, EffectiveGood DEF Pass, Alike
<1> HIDE DEF e
<1>7. f.balances = e.balances /\ f.deposits = e.deposits /\ Good(f)
  BY <1>6, ResetGood DEF Step, Alike
<1> HIDE DEF f
<1>8. Held(f) = Held(d)
  BY <1>5, <1>6, <1>7 DEF Held
<1>9. r.deposits = s.deposits /\ u.deposits = s.deposits /\ p.deposits = s.deposits
  BY <1>1, <1>2, <1>3 DEF Alike
<1>10. /\ Held(d) \in Nat /\ Total(s.balances) \in Nat /\ Total(r.balances) \in Nat /\ Total(p.balances) \in Nat
       /\ Queued(s.deposits) \in Nat
  BY <1>1, <1>3, <1>4, HeldIs DEF Good
<1> DEFINE a == Total(s.balances)
           b == Total(r.balances)
           g == Total(p.balances)
           w == Queued(s.deposits)
           l == Lost(p)
           h == Held(d)
<1>11. a \in Nat /\ b \in Nat /\ g \in Nat /\ w \in Nat /\ l \in Nat /\ h \in Nat /\ h + l = g + w
  BY <1>4, <1>9, <1>10 DEF Held
<1>12. Held(s) = a + w /\ Total(u.balances) = b
  BY <1>2 DEF Held
<1>13. h = (a + w) + (b - a) + (g - b) - l
  <2> HIDE DEF a, b, g, w, l, h
  <2> QED BY <1>11
<1>14. Held(f) = Held(s) + (Total(r.balances) - Total(s.balances)) + (Total(p.balances) - Total(u.balances)) - Lost(p)
  BY <1>8, <1>12, <1>13
<1>15. f \in StateType
  BY <1>7 DEF Good, StateOK
<1> QED BY <1>14, <1>15 DEF Final, Updated, f, e, c, d, p, u, r

\* The ledger of a step that changes what is held by as much.
Booked == ~overdrawn' => Held(state') = ledger'

\* A block's slashings: the ledger follows the balances.
LEMMA SlashingsBooked ==
    ASSUME Inv, Accounted, \/ \E i \in Indices(state) : ProposerSlashing(i)
                           \/ \E S \in SUBSET Indices(state) : AttesterSlashing(S)
    PROVE  Booked
<1>1. Good(state) /\ StateOK(state) /\ \A p \in Proposers : p \in Indices(state)
  BY DEF Inv, Proposers, active_validator_indices, Good
<1>2. ASSUME NEW t, Step(state, t), Alike(state, t), NEW p, NEW next, Slashing(t, p, next) PROVE Booked
  <2>1. state' = t /\ overdrawn' = overdrawn /\ ledger' = ledger + Total(t.balances) - Total(state.balances)
    BY <1>2 DEF Slashing, Done
  <2>2. t.deposits = state.deposits
    BY <1>2 DEF Alike
  <2> DEFINE a == Total(state.balances)
             b == Total(t.balances)
             w == Queued(state.deposits)
  <2>3. a \in Nat /\ b \in Nat /\ w \in Nat
    BY <1>1, <1>2, HeldIs DEF Step, Good
  <2>4. ~overdrawn => a + w = ledger
    BY DEF Accounted
  <2>5. Held(t) = b + w
    BY <2>2 DEF Held
  <2>6. ledger' = ledger + b - a
    BY <2>1
  <2> HIDE DEF a, b, w
  <2>7. ~overdrawn => b + w = ledger + b - a
    BY <2>3, <2>4
  <2> QED BY <2>1, <2>5, <2>6, <2>7 DEF Booked
<1>3. ASSUME NEW i \in Indices(state), ProposerSlashing(i) PROVE Booked
  <2>1. PICK p \in Proposers : Slashing(slash_validator(state, i, p), p, 1)
    BY <1>3 DEF ProposerSlashing
  <2>2. slashable_validator(state.validators[i], get_current_epoch(state))
    BY <1>3 DEF ProposerSlashing
  <2>3. Step(state, slash_validator(state, i, p)) /\ Alike(state, slash_validator(state, i, p))
    BY <1>1, <2>2, SlashGood
  <2> QED BY <1>2, <2>1, <2>3
<1>4. ASSUME NEW S \in SUBSET Indices(state), AttesterSlashing(S) PROVE Booked
  <2>1. PICK p \in Proposers : Slashing(slash_validators(state, S, p), p, 2)
    BY <1>4 DEF AttesterSlashing
  <2>2. Step(state, slash_validators(state, S, p)) /\ Alike(state, slash_validators(state, S, p))
    BY <1>1, SlashAllGood
  <2> QED BY <1>2, <2>1, <2>2
<1> QED BY <1>3, <1>4

\* Exits, address changes and requests leave the ledger alone.
LEMMA RequestsBooked ==
    ASSUME Inv, Accounted, NEW i \in Indices(state),
           \/ VoluntaryExit(i) \/ BlsToExecutionChange(i)
           \/ \E owner \in BOOLEAN : \/ \E amount \in Amounts : WithdrawalRequest(i, amount, owner)
                                     \/ \E j \in Indices(state) : ConsolidationRequest(i, j, owner)
    PROVE  Booked
<1>1. Good(state) /\ StateOK(state)
  BY DEF Inv, Good
<1>2. ASSUME NEW t, NEW next, Done(t, next), ledger' = ledger, Held(t) = Held(state) PROVE Booked
  BY <1>2 DEF Done, Booked, Accounted, Held
<1>3. CASE VoluntaryExit(i)
  <2> DEFINE t == initiate_validator_exit(state, i)
  <2>1. Done(t, 4) /\ ledger' = ledger
    BY <1>3 DEF VoluntaryExit
  <2>2. Alike(state, t) /\ t.balances = state.balances
    BY <1>1, ExitAlike
  <2> HIDE DEF t
  <2>3. Held(t) = Held(state)
    BY <2>2, HeldSame DEF Alike
  <2> QED BY <1>2, <2>1, <2>3
<1>4. CASE BlsToExecutionChange(i)
  <2> DEFINE t == [state EXCEPT !.validators[i].credentials = "eth1"]
  <2>1. Done(t, 5) /\ ledger' = ledger
    BY <1>4 DEF BlsToExecutionChange
  <2>2. t.balances = state.balances /\ t.deposits = state.deposits
    BY <1>1, CredentialsSet DEF Credentials
  <2> HIDE DEF t
  <2>3. Held(t) = Held(state)
    BY <2>2, HeldSame
  <2> QED BY <1>2, <2>1, <2>3
<1>5. ASSUME NEW owner \in BOOLEAN, NEW amount \in Amounts, WithdrawalRequest(i, amount, owner) PROVE Booked
  <2> DEFINE t == process_withdrawal_request(state, i, amount, owner)
  <2>1. Done(t, 7) /\ ledger' = ledger
    BY <1>5 DEF WithdrawalRequest
  <2>2. amount \in Nat
    BY AnchorsAssumption
  <2>3. Held(t) = Held(state)
    BY <1>1, <2>2, WithdrawalRequestHeld
  <2> HIDE DEF t
  <2> QED BY <1>2, <2>1, <2>3
<1>6. ASSUME NEW owner \in BOOLEAN, NEW j \in Indices(state), ConsolidationRequest(i, j, owner) PROVE Booked
  <2> DEFINE t == process_consolidation_request(state, i, j, owner)
  <2>1. Done(t, 8) /\ ledger' = ledger
    BY <1>6 DEF ConsolidationRequest
  <2>2. Held(t) = Held(state)
    BY <1>1, ConsolidationRequestHeld
  <2> HIDE DEF t
  <2> QED BY <1>2, <2>1, <2>2
<1> QED BY <1>3, <1>4, <1>5, <1>6

\* Deposits, from payloads and from the contract, come into the ledger when they
\* are queued.
LEMMA DepositsBooked ==
    ASSUME Inv, Accounted, ProcessDeposits \/ \E d \in Deposits : DepositRequest(d)
    PROVE  Booked
<1>1. Good(state) /\ StateOK(state) /\ state \in StateType
  BY DEF Inv, Good, StateOK
<1>2. /\ state.deposits \in Seq(PendingDepositType) /\ Paying(PendingDepositType)
      /\ Total(state.balances) \in Nat /\ Queued(state.deposits) \in Nat
  BY <1>1, HeldIs
<1>3. ~overdrawn => Total(state.balances) + Queued(state.deposits) = ledger
  BY DEF Accounted
<1>4. CASE ProcessDeposits
  <2> DEFINE due == SubSeq(BridgeDeposits, state.eth1_deposit_index + 1, state.eth1_deposit_index + DepositsDue)
             t == FoldLeft(process_deposit, state, due)
  <2>1. due \in Seq(DepositType)
    BY <1>1, DueTyped
  <2>2. state' = t /\ overdrawn' = overdrawn /\ ledger' = ledger + Queued(t.deposits) - Queued(state.deposits)
    BY <1>4 DEF ProcessDeposits
  <2> HIDE DEF due
  <2>3. Total(t.balances) = Total(state.balances) /\ StateOK(t)
    BY <1>1, <2>1, ContractDepositsGood DEF Step, Good
  <2> HIDE DEF t
  <2>4. Queued(t.deposits) \in Nat
    BY <2>3, HeldIs
  <2> DEFINE a == Total(state.balances)
             w == Queued(state.deposits)
             x == Queued(t.deposits)
  <2>5. /\ a \in Nat /\ w \in Nat /\ x \in Nat /\ (~overdrawn => a + w = ledger)
        /\ Held(t) = a + x /\ ledger' = ledger + x - w
    BY <1>2, <1>3, <2>2, <2>3, <2>4 DEF Held
  <2> HIDE DEF a, w, x
  <2>6. ~overdrawn => a + x = ledger + x - w
    BY <2>5
  <2> QED BY <2>2, <2>5, <2>6 DEF Booked
<1>5. ASSUME NEW d \in Deposits, DepositRequest(d) PROVE Booked
  <2> DEFINE first == IF state.start_index = UNSET_START_INDEX THEN Len(BridgeDeposits) ELSE state.start_index
             p == PendingDeposit(d, state.slot)
             t == [state EXCEPT !.start_index = first, !.deposits = Append(state.deposits, p)]
  <2>1. p \in PendingDepositType /\ p.amount = d.amount /\ d.amount \in Nat
    <3>1. d \in DepositType /\ state.slot \in Nat
      BY <1>1, AnchorsAssumption DEF StateType
    <3> QED BY <3>1 DEF PendingDeposit, DepositType, PendingDepositType
  <2>2. Done(t, 6) /\ ledger' = ledger + d.amount
    BY <1>1, <1>5 DEF DepositRequest, StateType
  <2> HIDE DEF p, first
  <2>3. t.balances = state.balances /\ t.deposits = Append(state.deposits, p)
    BY <1>1 DEF StateType
  <2> HIDE DEF t
  <2>4. Queued(t.deposits) = Queued(state.deposits) + d.amount
    BY <1>2, <2>1, <2>3, QueuedAppended
  <2> DEFINE a == Total(state.balances)
             w == Queued(state.deposits)
             x == d.amount
  <2>5. a \in Nat /\ w \in Nat /\ x \in Nat /\ (~overdrawn => a + w = ledger) /\ ledger' = ledger + x
    BY <1>2, <1>3, <2>1, <2>2
  <2>6. Held(t) = a + (w + x) /\ state' = t /\ overdrawn' = overdrawn
    BY <2>2, <2>3, <2>4 DEF Held, Done
  <2> HIDE DEF a, w, x
  <2>7. ~overdrawn => a + (w + x) = ledger + x
    BY <2>5
  <2> QED BY <2>5, <2>6, <2>7 DEF Booked
<1> QED BY <1>4, <1>5

\* A block's withdrawals: what is paid out comes off the balances, unless a
\* balance was overdrawn.
LEMMA StartBlockBooked ==
    ASSUME Inv, Accounted, StartBlock
    PROVE  Booked
<1> SUFFICES ASSUME ~overdrawn' PROVE Held(state') = ledger'
  BY DEF Booked
<1> DEFINE q == get_expected_withdrawals(state)
           b == decrease_balances(state, q).balances
<1>1. Good(state) /\ StateOK(state) /\ state \in StateType
  BY DEF Inv, Good, StateOK
<1>2. PICK count \in {state.deposit_count, Len(BridgeDeposits)} :
          state' = [process_withdrawals(state) EXCEPT !.deposit_count = count]
  BY DEF StartBlock
<1>3. count \in 0..Len(BridgeDeposits)
  <2>1. state.deposit_count \in 0..Len(BridgeDeposits)
    BY <1>1 DEF StateType
  <2>2. BridgeDeposits \in Seq(DepositType)
    BY AnchorsAssumption
  <2> QED BY <2>1, <2>2
<1>4. state'.deposits = state.deposits /\ state'.balances = b /\ q \in Seq(WithdrawalType(state))
  BY <1>1, <1>2, <1>3, WithdrawalsGood
<1>5. ledger' = ledger - Queued(q) /\ overdrawn' = (overdrawn \/ \E i \in Indices(state) : AmountFor(q, i) > state.balances[i])
  BY DEF StartBlock
<1> HIDE DEF q
<1>6. \A i \in Indices(state) : AmountFor(q, i) <= state.balances[i]
  <2> SUFFICES ASSUME NEW i \in Indices(state) PROVE AmountFor(q, i) <= state.balances[i]
    OBVIOUS
  <2>1. ~(AmountFor(q, i) > state.balances[i])
    BY <1>5
  <2>2. state.balances[i] \in Nat
    BY <1>1, Fields
  <2>3. Paying(WithdrawalType(state))
    BY DEF Paying, WithdrawalType
  <2>4. AmountFor(q, i) \in Nat
    BY <1>4, <2>3, AmountForIs
  <2> QED BY <2>1, <2>2, <2>4
<1>7. Total(b) + Queued(q) = Total(state.balances)
  BY <1>1, <1>4, <1>6, PayoutsGood
<1>8. Total(state.balances) \in Nat /\ Queued(state.deposits) \in Nat /\ Total(b) \in Nat /\ Queued(q) \in Nat
  <2>1. StateOK(decrease_balances(state, q))
    BY <1>1, <1>4, PayoutsGood DEF Step, Good
  <2>2. Paying(WithdrawalType(state))
    BY DEF Paying, WithdrawalType
  <2>3. Queued(q) \in Nat
    BY <1>4, <2>2, QueuedJoined
  <2> QED BY <1>1, <2>1, <2>3, HeldIs
<1>9. Total(state.balances) + Queued(state.deposits) = ledger
  BY <1>5 DEF Accounted
<1> DEFINE x == Total(b)
           y == Queued(q)
           a == Total(state.balances)
           w == Queued(state.deposits)
<1>10. /\ a \in Nat /\ w \in Nat /\ x \in Nat /\ y \in Nat /\ x + y = a /\ a + w = ledger
       /\ ledger' = ledger - y /\ Held(state') = x + w
  BY <1>4, <1>5, <1>7, <1>8, <1>9 DEF Held
<1> HIDE DEF x, y, a, w
<1> QED BY <1>10

\* An epoch, and the slot after it.
LEMMA EpochBooked ==
    ASSUME Inv, Accounted, NEW f \in Nat, f <= get_current_epoch(state), NEW d, \A i \in DOMAIN d : d[i] \in Int,
           process_epoch(f, d), overdrawn' = overdrawn
    PROVE  Booked
<1> DEFINE s == [state EXCEPT !.finalized = f]
           r == process_rewards_and_penalties(s, d)
           u == process_registry_updates(r)
           p == process_slashings(u)
           z == Final(s, d)
<1>1. Good(state) /\ StateOK(state) /\ state \in StateType
  BY DEF Inv, Good, StateOK
<1>2. Good(s) /\ s.balances = state.balances /\ s.deposits = state.deposits
  BY <1>1, FinalizedGood DEF StateType
<1>3. /\ state' = [z EXCEPT !.slot = @ + 1]
      /\ ledger' = ledger + (Total(r.balances) - Total(state.balances)) + (Total(p.balances) - Total(u.balances)) - Lost(p)
  BY DEF process_epoch, Updated, Final
<1> HIDE DEF s
<1>4. /\ Held(z) = Held(s) + (Total(r.balances) - Total(s.balances)) + (Total(p.balances) - Total(u.balances)) - Lost(p)
      /\ z \in StateType
  BY <1>2, EpochHeld
<1> HIDE DEF r, u, p, z
<1>5. Held(state') = Held(z)
  <2>1. state'.balances = z.balances /\ state'.deposits = z.deposits
    BY <1>3, <1>4 DEF StateType
  <2> QED BY <2>1, HeldSame
<1>6. ~overdrawn => Held(s) = ledger
  BY <1>2 DEF Accounted, Held
<1> QED BY <1>2, <1>3, <1>4, <1>5, <1>6 DEF Booked

\* A slot, or an epoch, that is over.
LEMMA NextSlotBooked ==
    ASSUME Inv, Accounted, NextSlot
    PROVE  Booked
<1>1. Good(state) /\ state \in StateType /\ overdrawn' = overdrawn
  BY DEF Inv, Good, StateOK, NextSlot
<1>2. \/ process_epoch(LastEpoch, NoReward)
      \/ \E f \in {state.finalized, LastEpoch}, d \in RewardOutcomes : process_epoch(f, d)
      \/ state' = [state EXCEPT !.slot = @ + 1] /\ ledger' = ledger
  BY DEF NextSlot
<1>3. CASE process_epoch(LastEpoch, NoReward)
  BY <1>1, <1>3, EpochChoices, EpochBooked
<1>4. ASSUME NEW f \in {state.finalized, LastEpoch}, NEW d \in RewardOutcomes, process_epoch(f, d) PROVE Booked
  <2>1. f \in Nat /\ f <= get_current_epoch(state) /\ \A i \in DOMAIN d : d[i] \in Int
    BY <1>1, EpochChoices
  <2> QED BY <1>1, <1>4, <2>1, EpochBooked
<1>5. CASE state' = [state EXCEPT !.slot = @ + 1] /\ ledger' = ledger
  <2>1. state'.balances = state.balances /\ state'.deposits = state.deposits
    BY <1>1, <1>5 DEF StateType
  <2>2. Held(state') = Held(state)
    BY <2>1, HeldSame
  <2> QED BY <1>1, <1>5, <2>2 DEF Booked, Accounted, Held
<1> QED BY <1>2, <1>3, <1>4, <1>5

\* Balances and queued deposits are always what came in less what went out, on
\* every chain on which no payload overdraws a balance: the excess of a switch to
\* compounding, postponed and partly processed deposits, consolidations and
\* sweeps move balances and neither lose nor double them
\* (process_pending_deposits/1, process_pending_consolidations/1,
\* queue_excess_active_balance/2, decrease_balances/2).
THEOREM AlwaysAccounted == Spec => []Accounted
<1>1. Init => Accounted
  BY DEF Init, Accounted
<1>2. Inv /\ Accounted /\ [Next]_vars => Accounted'
  <2> SUFFICES ASSUME Inv, Accounted, [Next]_vars PROVE Booked
    BY DEF Booked, Accounted, Held
  <2>1. CASE NextSlot
    BY <2>1, NextSlotBooked
  <2>2. CASE StartBlock
    BY <2>2, StartBlockBooked
  <2>3. CASE \E i \in Indices(state) : ProposerSlashing(i)
    BY <2>3, SlashingsBooked
  <2>4. CASE \E S \in SUBSET Indices(state) : AttesterSlashing(S)
    BY <2>4, SlashingsBooked
  <2>5. CASE \E i \in Indices(state) :
                 \/ VoluntaryExit(i) \/ BlsToExecutionChange(i)
                 \/ \E owner \in BOOLEAN : \/ \E amount \in Amounts : WithdrawalRequest(i, amount, owner)
                                           \/ \E j \in Indices(state) : ConsolidationRequest(i, j, owner)
    BY <2>5, RequestsBooked
  <2>6. CASE ProcessDeposits \/ \E d \in Deposits : DepositRequest(d)
    BY <2>6, DepositsBooked
  <2>7. CASE UNCHANGED vars
    BY <2>7 DEF vars, Booked, Accounted, Held
  <2> QED BY <2>1, <2>2, <2>3, <2>4, <2>5, <2>6, <2>7 DEF Next
<1> QED BY <1>1, <1>2, InvAlways, PTL DEF Spec
-----------------------------------------------------------------------------
(* What the exit queue puts into epochs, step by step.                      *)

\* Within the churn at the next step too.
Churned == Within(churned', state'.exits)

\* Exits and partial withdrawals that a request asks for.
LEMMA WithdrawalChurns ==
    ASSUME Inv, Within(churned, state.exits), NEW i \in Indices(state), NEW amount \in Amounts, NEW owner \in BOOLEAN,
           WithdrawalRequest(i, amount, owner)
    PROVE  Churned
<1> DEFINE t == process_withdrawal_request(state, i, amount, owner)
           queued == Queued(t.partials) - Queued(state.partials)
           x == initiate_validator_exit(state, i)
           q == QueuePartial(state, i, amount)
<1>1. Good(state) /\ StateOK(state) /\ state \in StateType /\ state.partials \in Seq(PartialType) /\ Counts(churned)
  BY DEF Inv, Good, StateOK, StateType, Within
<1>2. /\ state' = t
      /\ churned' = IF queued = 0 THEN WithExits(state, t) ELSE Gains(churned, t.exits.epoch, queued)
  BY DEF WithdrawalRequest, Done
<1>3. t = state \/ (t = q /\ amount # 0) \/ t = x
  BY DEF process_withdrawal_request
<1>4. Paying(PartialType)
  BY DEF Paying, PartialType
<1>5. Queued(state.partials) \in Nat
  <2>1. [index |-> 0, amount |-> 0, withdrawable |-> 0] \in PartialType
    BY DEF PartialType
  <2> QED BY <1>1, <1>4, <2>1, QueuedAppended
<1> HIDE DEF t
<1>6. ASSUME t.partials = state.partials, Churns(state, t) PROVE Churned
  <2>1. queued = 0
    BY <1>5, <1>6
  <2> QED BY <1>2, <1>6, <2>1 DEF Churned, Churns
<1>7. CASE t = state
  BY <1>1, <1>6, <1>7, ChurnsNothing
<1>8. CASE t = x
  <2>1. Churns(state, state)
    BY <1>1, ChurnsNothing
  <2>2. Churns(state, x)
    BY <1>1, <2>1, ExitChurns
  <2>3. x.partials = state.partials
    BY <1>1, ExitAlike DEF Alike, Near
  <2> HIDE DEF x
  <2> QED BY <1>6, <1>8, <2>2, <2>3
<1>9. CASE t = q /\ amount # 0
  <2> DEFINE pending == get_pending_balance_to_withdraw(state, i)
             excess == state.balances[i] - MIN_ACTIVATION_BALANCE - pending
             to_withdraw == Smaller(excess, amount)
             c == compute_exit_epoch_and_update_churn(state, to_withdraw)
             p == [index |-> i, amount |-> to_withdraw, withdrawable |-> c.exits.epoch + DELAY]
             z == [c EXCEPT !.partials = Append(@, p)]
             next == NextInQueue(state.exits, to_withdraw, get_current_epoch(state), get_activation_exit_churn_limit(state))
  <2>1. q = state \/ (q = z /\ excess > 0)
    BY DEF QueuePartial, DELAY
  <2>2. excess \in Int
    <3>1. pending \in Nat
      BY <1>1, <1>4, AmountForIs DEF get_pending_balance_to_withdraw
    <3>2. state.balances[i] \in Nat /\ MIN_ACTIVATION_BALANCE \in Nat
      BY <1>1, Fields, ChainSpecAssumption
    <3> HIDE DEF pending
    <3> QED BY <3>1, <3>2
  <2> HIDE DEF q, excess
  <2>3. CASE q = state
    BY <1>7, <1>9, <2>3
  <2>4. CASE q = z /\ excess > 0
    <3>1. amount \in Nat \ {0} /\ amount <= LargestExit /\ LargestExit \in Nat
      BY <1>9, ChurnConstants
    <3>2. to_withdraw \in Nat \ {0} /\ to_withdraw \in 0..LargestExit
      <4>1. to_withdraw = IF excess <= amount THEN excess ELSE amount
        BY <2>2, <3>1, SmallerIs
      <4> HIDE DEF to_withdraw
      <4> QED BY <2>2, <2>4, <3>1, <4>1
    <3> HIDE DEF to_withdraw
    <3>3. get_current_epoch(state) \in Nat /\ get_activation_exit_churn_limit(state) \in 1..LIMIT
      <4> DEFINE per == get_activation_exit_churn_limit(state)
      <4>1. get_current_epoch(state) \in Nat /\ per \in Nat \ {0} /\ per <= LIMIT
        BY <1>1, Fields, ChurnPositive DEF LIMIT
      <4> HIDE DEF per
      <4>2. per \in 1..LIMIT
        BY <4>1, ChurnConstants
      <4> QED BY <4>1, <4>2 DEF per
    <3>4. Within(Gains(churned, next.epoch, to_withdraw), next)
      BY <3>2, <3>3, WithinNext
    <3>5. c = [state EXCEPT !.exits = next] /\ c \in StateType /\ c.exits \in ChurnQueue
      BY <1>1, <3>2, ExitChurn DEF compute_exit_epoch_and_update_churn
    <3> HIDE DEF c, next
    <3>6. c.exits = next /\ c.partials = state.partials
      BY <1>1, <3>5 DEF StateType
    <3>7. p \in PartialType /\ p.amount = to_withdraw
      <4>1. i \in Nat
        BY <1>1, Fields
      <4>2. c.exits.epoch + DELAY \in Nat
        BY <3>5, Delays DEF ChurnQueue
      <4> QED BY <3>2, <4>1, <4>2 DEF PartialType
    <3> HIDE DEF p
    <3>8. z.exits = next /\ z.partials = Append(state.partials, p)
      BY <3>5, <3>6 DEF StateType
    <3> HIDE DEF z
    <3>9. queued = to_withdraw /\ queued # 0
      <4>1. Queued(Append(state.partials, p)) = Queued(state.partials) + p.amount
        BY <1>1, <1>4, <3>7, QueuedAppended
      <4>2. Queued(t.partials) = Queued(state.partials) + to_withdraw
        BY <1>9, <2>4, <3>7, <3>8, <4>1
      <4> QED BY <1>5, <3>2, <4>2
    <3>10. t.exits = next
      BY <1>9, <2>4, <3>8
    <3> HIDE DEF queued
    <3>11. churned' = Gains(churned, next.epoch, to_withdraw)
      BY <1>2, <3>9, <3>10
    <3> QED BY <1>2, <3>4, <3>10, <3>11 DEF Churned
  <2> QED BY <2>1, <2>3, <2>4
<1> QED BY <1>3, <1>7, <1>8, <1>9

\* Slashings and voluntary exits.
LEMMA ExitsChurn ==
    ASSUME Inv, Within(churned, state.exits),
           \/ \E i \in Indices(state) : ProposerSlashing(i) \/ VoluntaryExit(i)
           \/ \E S \in SUBSET Indices(state) : AttesterSlashing(S)
    PROVE  Churned
<1>1. Good(state) /\ StateOK(state) /\ state \in StateType
  BY DEF Inv, Good, StateOK
<1>2. Churns(state, state) /\ Step(state, state) /\ Alike(state, state)
  BY <1>1, ChurnsNothing, RegistrySame DEF Alike, Near
<1>3. ASSUME NEW t, Churns(state, t), state' = t, churned' = WithExits(state, t) PROVE Churned
  BY <1>3 DEF Churned, Churns
<1>4. \A p \in Proposers : p \in Indices(state)
  BY DEF Proposers, active_validator_indices, Inv
<1>5. ASSUME NEW i \in Indices(state), ProposerSlashing(i) PROVE Churned
  <2>1. PICK p \in Proposers : Slashing(slash_validator(state, i, p), p, 1)
    BY <1>5 DEF ProposerSlashing
  <2> DEFINE t == slash_validator(state, i, p)
  <2>2. state' = t /\ churned' = WithExits(state, t)
    BY <2>1 DEF Slashing, Done
  <2>3. slashable_validator(state.validators[i], get_current_epoch(state))
    BY <1>5 DEF ProposerSlashing
  <2>4. Churns(state, t)
    BY <1>1, <1>2, <1>4, <2>3, SlashChurns
  <2> HIDE DEF t
  <2> QED BY <1>3, <2>2, <2>4
<1>6. ASSUME NEW S \in SUBSET Indices(state), AttesterSlashing(S) PROVE Churned
  <2>1. PICK p \in Proposers : Slashing(slash_validators(state, S, p), p, 2)
    BY <1>6 DEF AttesterSlashing
  <2> DEFINE t == slash_validators(state, S, p)
  <2>2. state' = t /\ churned' = WithExits(state, t)
    BY <2>1 DEF Slashing, Done
  <2>3. Churns(state, t)
    BY <1>1, <1>4, SlashAllGood
  <2> HIDE DEF t
  <2> QED BY <1>3, <2>2, <2>3
<1>7. ASSUME NEW i \in Indices(state), VoluntaryExit(i) PROVE Churned
  <2> DEFINE t == initiate_validator_exit(state, i)
  <2>1. state' = t /\ churned' = WithExits(state, t)
    BY <1>7 DEF VoluntaryExit, Done
  <2>2. Churns(state, t)
    BY <1>1, <1>2, ExitChurns
  <2> HIDE DEF t
  <2> QED BY <1>3, <2>1, <2>2
<1> QED BY <1>5, <1>6, <1>7

\* Whatever leaves the exit queue alone.
LEMMA OthersChurn ==
    ASSUME Inv, Within(churned, state.exits),
           \/ StartBlock \/ ProcessDeposits
           \/ \E d \in Deposits : DepositRequest(d)
           \/ \E i \in Indices(state) : BlsToExecutionChange(i)
           \/ \E i, j \in Indices(state), owner \in BOOLEAN : ConsolidationRequest(i, j, owner)
    PROVE  Churned
<1>1. Good(state) /\ StateOK(state) /\ state \in StateType /\ Ahead(state)
  BY DEF Inv, Good, StateOK
<1>2. SUFFICES state'.exits = state.exits /\ churned' = churned
  BY DEF Churned
<1>3. CASE StartBlock
  <2>1. PICK count \in {state.deposit_count, Len(BridgeDeposits)} :
            state' = [process_withdrawals(state) EXCEPT !.deposit_count = count]
    BY <1>3 DEF StartBlock
  <2>2. count \in 0..Len(BridgeDeposits)
    <3>1. state.deposit_count \in 0..Len(BridgeDeposits)
      BY <1>1 DEF StateType
    <3>2. BridgeDeposits \in Seq(DepositType)
      BY AnchorsAssumption
    <3> QED BY <3>1, <3>2
  <2> DEFINE t == [process_withdrawals(state) EXCEPT !.deposit_count = count]
  <2>3. t.exits = state.exits
    BY <1>1, <2>2, WithdrawalsGood
  <2> HIDE DEF t
  <2> QED BY <1>3, <2>1, <2>3 DEF StartBlock, t
<1>4. CASE ProcessDeposits
  <2> DEFINE due == SubSeq(BridgeDeposits, state.eth1_deposit_index + 1, state.eth1_deposit_index + DepositsDue)
             t == FoldLeft(process_deposit, state, due)
  <2>1. due \in Seq(DepositType)
    BY <1>1, DueTyped
  <2>2. state' = t /\ churned' = churned
    BY <1>4 DEF ProcessDeposits
  <2> HIDE DEF due
  <2>3. t.exits = state.exits
    BY <1>1, <2>1, ContractDepositsGood
  <2> QED BY <2>2, <2>3
<1>5. ASSUME NEW d \in Deposits, DepositRequest(d) PROVE state'.exits = state.exits /\ churned' = churned
  <2> DEFINE first == IF state.start_index = UNSET_START_INDEX THEN Len(BridgeDeposits) ELSE state.start_index
             t == [state EXCEPT !.start_index = first, !.deposits = Append(state.deposits, PendingDeposit(d, state.slot))]
  <2>1. state' = t /\ churned' = churned
    BY <1>1, <1>5 DEF DepositRequest, Done, StateType
  <2> HIDE DEF first
  <2>2. t.exits = state.exits
    BY <1>1 DEF StateType
  <2> QED BY <2>1, <2>2
<1>6. ASSUME NEW i \in Indices(state), BlsToExecutionChange(i) PROVE state'.exits = state.exits /\ churned' = churned
  <2> DEFINE t == [state EXCEPT !.validators[i].credentials = "eth1"]
  <2>1. state' = t /\ churned' = churned
    BY <1>6 DEF BlsToExecutionChange, Done
  <2>2. t.exits = state.exits
    BY <1>1, CredentialsSet DEF Credentials
  <2> QED BY <2>1, <2>2
<1>7. ASSUME NEW i \in Indices(state), NEW j \in Indices(state), NEW owner \in BOOLEAN, ConsolidationRequest(i, j, owner)
      PROVE  state'.exits = state.exits /\ churned' = churned
  <2> DEFINE t == process_consolidation_request(state, i, j, owner)
  <2>1. state' = t /\ churned' = churned
    BY <1>7 DEF ConsolidationRequest, Done
  <2>2. t.exits = state.exits
    BY <1>1, ConsolidationRequestGood
  <2> HIDE DEF t
  <2> QED BY <2>1, <2>2
<1> QED BY <1>3, <1>4, <1>5, <1>6, <1>7

\* The ejections of an epoch's end; no pass after the registry's moves the queue.
LEMMA EpochChurns ==
    ASSUME Inv, Within(churned, state.exits), state.slot < MaxSlot,
           NEW f \in Nat, f <= get_current_epoch(state), NEW deltas, \A i \in DOMAIN deltas : deltas[i] \in Int,
           process_epoch(f, deltas)
    PROVE  Churned
<1> DEFINE s == [state EXCEPT !.finalized = f]
           r == process_rewards_and_penalties(s, deltas)
           u == process_registry_updates(r)
           p == process_slashings(u)
           d == process_pending_deposits(p)
           c == process_pending_consolidations(d)
           e == process_effective_balance_updates(c)
           z == process_slashings_reset(e)
<1>1. state' = [z EXCEPT !.slot = @ + 1] /\ churned' = WithExits(r, u)
  BY DEF process_epoch
<1>2. Good(state)
  BY DEF Inv
<1>3. Good(s) /\ s.exits = state.exits
  BY <1>2, FinalizedGood
<1> HIDE DEF s
<1>4. Good(r) /\ r.exits = s.exits
  BY <1>3, RewardsGood DEF Step
<1> HIDE DEF r
<1>5. Good(u) /\ Churns(r, u)
  BY <1>4, RegistryPassGood DEF Pass
<1> HIDE DEF u
<1>6. Good(p) /\ p.exits = u.exits
  BY <1>5, SlashingsGood DEF Step
<1> HIDE DEF p
<1>7. Good(d) /\ d.exits = p.exits
  BY <1>6, DepositsGood DEF Step
<1> HIDE DEF d
<1>8. Good(c) /\ c.exits = d.exits
  BY <1>7, ConsolidationsGood DEF Step
<1> HIDE DEF c
<1>9. Good(e) /\ e.exits = c.exits
  BY <1>8, EffectiveGood DEF Pass
<1> HIDE DEF e
<1>10. z.exits = e.exits /\ z \in StateType
  BY <1>9, ResetGood DEF Step, Good, StateOK
<1> HIDE DEF z
<1>11. state'.exits = z.exits
  BY <1>1, <1>10 DEF StateType
<1>12. Within(WithExits(r, u), u.exits)
  BY <1>3, <1>4, <1>5 DEF Churns
<1> QED BY <1>1, <1>6, <1>7, <1>8, <1>9, <1>10, <1>11, <1>12 DEF Churned

\* A slot, or an epoch, that is over.
LEMMA NextSlotChurns ==
    ASSUME Inv, Within(churned, state.exits), NextSlot
    PROVE  Churned
<1>1. Good(state) /\ state \in StateType /\ state.slot < MaxSlot
  BY DEF Inv, Good, StateOK, NextSlot
<1>2. \/ process_epoch(LastEpoch, NoReward)
      \/ \E f \in {state.finalized, LastEpoch}, d \in RewardOutcomes : process_epoch(f, d)
      \/ state' = [state EXCEPT !.slot = @ + 1] /\ churned' = churned
  BY DEF NextSlot
<1>3. CASE process_epoch(LastEpoch, NoReward)
  BY <1>1, <1>3, EpochChoices, EpochChurns
<1>4. ASSUME NEW f \in {state.finalized, LastEpoch}, NEW d \in RewardOutcomes, process_epoch(f, d) PROVE Churned
  <2>1. f \in Nat /\ f <= get_current_epoch(state) /\ \A i \in DOMAIN d : d[i] \in Int
    BY <1>1, EpochChoices
  <2> QED BY <1>1, <1>4, <2>1, EpochChurns
<1>5. CASE state' = [state EXCEPT !.slot = @ + 1] /\ churned' = churned
  <2>1. state'.exits = state.exits
    BY <1>1, <1>5 DEF StateType
  <2> QED BY <1>5, <2>1 DEF Churned
<1> QED BY <1>2, <1>3, <1>4, <1>5

\* At the start the queue has put nothing into any epoch.
LEMMA ChurnStarts == Init => Within(churned, state.exits)
<1> SUFFICES ASSUME Init PROVE Within(churned, state.exits)
  OBVIOUS
<1> DEFINE E == state.exits.epoch
<1>1. StateOK(state) /\ state.exits.left \in 0..LIMIT
  BY AnchorsAssumption DEF Init, LIMIT
<1>2. E \in Nat /\ LIMIT \in Nat \ {0} /\ LargestExit \in Nat \ {0}
  BY <1>1, Fields, ChurnConstants DEF ChurnQueue
<1>3. churned = << >> /\ DOMAIN churned = {}
  BY DEF Init
<1>4. Counts(churned)
  <2>1. churned \in [DOMAIN churned -> Nat]
    BY <1>3
  <2> QED BY <1>3, <2>1, FS_EmptySet DEF Counts
<1>5. \A a, b : Stretch(churned, a, b) = 0
  <2> SUFFICES ASSUME NEW a, NEW b PROVE Stretch(churned, a, b) = 0
    OBVIOUS
  <2>1. {e \in DOMAIN churned : a <= e /\ e <= b} = {}
    BY <1>3
  <2> QED BY <1>4, <2>1, StretchIs
<1> HIDE DEF E
<1>6. \A a, b \in Nat : a <= b => 0 <= LIMIT * (b - a + 1) + LargestExit - 1 /\ LIMIT <= LIMIT * (b - a + 1)
  <2> SUFFICES ASSUME NEW a \in Nat, NEW b \in Nat, a <= b
               PROVE  0 <= LIMIT * (b - a + 1) + LargestExit - 1 /\ LIMIT <= LIMIT * (b - a + 1)
    OBVIOUS
  <2> DEFINE p == b - a
             A == LIMIT * p
  <2>1. p \in Nat /\ b - a + 1 = p + 1
    OBVIOUS
  <2>2. LIMIT * (p + 1) = LIMIT * p + LIMIT /\ LIMIT * p \in Nat
    <3> HIDE DEF p
    <3> QED BY <1>2, <2>1, TimesOrder
  <2>3. LIMIT * (b - a + 1) = A + LIMIT /\ A \in Nat
    BY <2>1, <2>2
  <2> HIDE DEF A, p
  <2> QED BY <1>2, <2>3
<1>7. \A a \in 0..E : Stretch(churned, a, E) + state.exits.left <= LIMIT * (E - a + 1) + LargestExit - 1
  <2> SUFFICES ASSUME NEW a \in 0..E PROVE Stretch(churned, a, E) + state.exits.left <= LIMIT * (E - a + 1) + LargestExit - 1
    OBVIOUS
  <2> DEFINE A == LIMIT * (E - a + 1)
  <2>1. LIMIT <= A
    BY <1>2, <1>6
  <2>2. A \in Int
    BY <1>2
  <2>3. Stretch(churned, a, E) = 0
    BY <1>5
  <2> HIDE DEF A
  <2> QED BY <1>1, <1>2, <2>1, <2>2, <2>3 DEF A
<1>8. \A a, b \in Nat : a <= b => Stretch(churned, a, b) <= LIMIT * (b - a + 1) + LargestExit - 1
  BY <1>5, <1>6
<1> QED BY <1>1, <1>2, <1>3, <1>4, <1>7, <1>8 DEF Within, E

\* Whatever exits, ejections, slashings and partial withdrawals a chain sees, the
\* exit queue never puts more balance into a stretch of epochs than these may
\* lose, up to the part of one exit that began before it
\* (compute_exit_epoch_and_update_churn/2).
THEOREM ChurnAlwaysRespected == Spec => []ChurnRespected
<1> DEFINE J == Within(churned, state.exits)
<1>1. Init => J
  BY ChurnStarts
<1>2. Inv /\ J /\ [Next]_vars => J'
  <2> SUFFICES ASSUME Inv, J, [Next]_vars PROVE Churned
    BY DEF Churned
  <2>1. CASE NextSlot
    BY <2>1, NextSlotChurns
  <2>2. CASE \/ \E i \in Indices(state) : ProposerSlashing(i) \/ VoluntaryExit(i)
             \/ \E S \in SUBSET Indices(state) : AttesterSlashing(S)
    BY <2>2, ExitsChurn
  <2>3. CASE \E i \in Indices(state), owner \in BOOLEAN, amount \in Amounts : WithdrawalRequest(i, amount, owner)
    BY <2>3, WithdrawalChurns
  <2>4. CASE \/ StartBlock \/ ProcessDeposits
             \/ \E d \in Deposits : DepositRequest(d)
             \/ \E i \in Indices(state) : BlsToExecutionChange(i)
             \/ \E i, j \in Indices(state), owner \in BOOLEAN : ConsolidationRequest(i, j, owner)
    BY <2>4, OthersChurn
  <2>5. CASE UNCHANGED vars
    BY <2>5 DEF vars, Churned
  <2> QED BY <2>1, <2>2, <2>3, <2>4, <2>5 DEF Next
<1>3. J => ChurnRespected
  <2> SUFFICES ASSUME J PROVE ChurnRespected
    OBVIOUS
  <2>1. \A a, b \in DOMAIN churned : a \in Nat /\ b \in Nat
    BY DEF Within, Counts
  <2> QED BY <2>1 DEF Within, ChurnRespected, LIMIT
<1> QED BY <1>1, <1>2, <1>3, InvAlways, PTL DEF Spec
=============================================================================

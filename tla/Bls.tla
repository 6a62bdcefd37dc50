---------------------------------- MODULE Bls ----------------------------------
(***************************************************************************)
(* The native BLS library (native/bls_nif/src/lib.rs) over symbolic        *)
(* points: a public key is a formal sum (bag) of secret keys, a signature  *)
(* a formal sum of <<secret key, message>> pairs. Infinity is the empty    *)
(* sum. Distinct sums are distinct points, which is what unforgeability    *)
(* and the absence of rogue keys amount to. Bytes that encode no point are *)
(* Garbled; Message32 tells the messages that are 32 bytes long.           *)
(***************************************************************************)
EXTENDS Integers, Sequences, FiniteSets, Bags, SequencesExt

CONSTANTS Garbled,         \* bytes that decode to no key and no point
          Message32(_)     \* a message of 32 bytes

Ok(x) == <<"ok", x>>
Error == <<"error", <<>>>>
Raise == <<"raise", <<>>>>
IsOk(r) == r[1] = "ok"
IsTrue(r) == r = Ok(TRUE)

(***************************************************************************)
(* The crate bls with its backend blst, external.                          *)
(***************************************************************************)
Infinity == EmptyBag
Point(x) == SetToBag({x})
SumOf(points) == FoldLeft(LAMBDA acc, p : acc (+) p, Infinity, points)

(* What a key must have signed for the signature to verify. *)
Expected(pk, m) == [km \in {<<k, m>> : k \in DOMAIN pk} |-> pk[km[1]]]

SignaturePoint(sig) == IF sig = Garbled THEN Error ELSE Ok(sig)

(* aggregate_verify is false with no key, or with as many messages as not  *)
(* to be one for each.                                                     *)
AggregateVerify(pks, ms, sig) ==
  /\ pks # <<>> /\ Len(pks) = Len(ms)
  /\ sig = SumOf([i \in 1..Len(pks) |-> Expected(pks[i], ms[i])])
FastAggregateVerify(pks, m, sig) == pks # <<>> /\ sig = Expected(SumOf(pks), m)

(***************************************************************************)
(* The functions of the library.                                           *)
(***************************************************************************)
fast_public_key_deserialize(pk) == IF pk = Infinity \/ pk = Garbled THEN Error ELSE Ok(pk)
KeysValid(pks) == \A i \in 1..Len(pks) : IsOk(fast_public_key_deserialize(pks[i]))

derive_pubkey(sk) == IF sk = Garbled THEN Error ELSE Ok(Point(sk))
key_validate(pk) == IF IsOk(fast_public_key_deserialize(pk)) THEN Ok(TRUE) ELSE Error

sign(sk, m) == IF ~Message32(m) \/ sk = Garbled THEN Error ELSE Ok(Point(<<sk, m>>))

aggregate(sigs) ==
  IF sigs = <<>> \/ \E i \in 1..Len(sigs) : ~IsOk(SignaturePoint(sigs[i])) THEN Error
  ELSE Ok(SumOf(sigs))

verify(pk, m, sig) ==
  IF ~Message32(m) \/ ~IsOk(SignaturePoint(sig)) \/ ~KeysValid(<<pk>>) THEN Error
  ELSE Ok(sig = Expected(pk, m))

(* A message of another length is not looked for: Hash256 panics on it. *)
aggregate_verify(pks, ms, sig) ==
  IF ~IsOk(SignaturePoint(sig)) \/ ~KeysValid(pks) THEN Error
  ELSE IF \E i \in 1..Len(ms) : ~Message32(ms[i]) THEN Raise
  ELSE Ok(AggregateVerify(pks, ms, sig))

fast_aggregate_verify(pks, m, sig) ==
  IF ~Message32(m) \/ ~IsOk(SignaturePoint(sig)) \/ ~KeysValid(pks) THEN Error
  ELSE Ok(FastAggregateVerify(pks, m, sig))

(* With no key, infinity is a valid signature. *)
eth_fast_aggregate_verify(pks, m, sig) ==
  IF ~Message32(m) \/ ~IsOk(SignaturePoint(sig)) \/ ~KeysValid(pks) THEN Error
  ELSE Ok((pks = <<>> /\ sig = Infinity) \/ FastAggregateVerify(pks, m, sig))

eth_aggregate_pubkeys(pks) ==
  IF pks = <<>> \/ ~KeysValid(pks) THEN Error ELSE Ok(SumOf(pks))
==============================================================================

---------------------------------- MODULE Kzg ----------------------------------
(***************************************************************************)
(* The native KZG library (native/kzg_nif/src/lib.rs) over symbolic        *)
(* polynomials: a commitment names its blob, a value the blob and the      *)
(* point it was evaluated at, a proof the blob and the point it opens.     *)
(* Distinct terms are distinct points, which is what binding amounts to.   *)
(*                                                                         *)
(* Short is a binary of a wrong length; Junk has the right length and is   *)
(* no field element or no point of the curve.                              *)
(***************************************************************************)
EXTENDS Integers, Sequences

CONSTANTS Short, Junk,
          SetupFound      \* the trusted setup file is found from the working directory

Ok(x) == <<"ok", x>>
Error == <<"error", <<>>>>
Raise == <<"raise", <<>>>>
IsTrue(r) == r = Ok(TRUE)

(***************************************************************************)
(* The crate c_kzg, external. from_bytes looks at the length only.         *)
(***************************************************************************)
Commitment(b) == <<"commitment", b>>
Value(b, z) == <<"value", b, z>>
Opening(b, z) == <<"opening", b, z>>
Challenge(b, c) == <<"challenge", b, c>>
Opens(c, z, y, p) == c = Commitment(c[2]) /\ y = Value(c[2], z) /\ p = Opening(c[2], z)

(***************************************************************************)
(* The functions of the library.                                           *)
(***************************************************************************)
(* A length is refused before the setup is read from its file, which every *)
(* call does; a missing file is a panic; what is no element or no point is *)
(* refused by the crate.                                                   *)
get_trusted_setup(args, answer) ==
  CASE \E i \in 1..Len(args) : args[i] = Short -> Error
    [] ~SetupFound /\ ~\E i \in 1..Len(args) : args[i] = Short -> Raise
    [] SetupFound /\ ~\E i \in 1..Len(args) : args[i] = Short ->
         IF \E i \in 1..Len(args) : args[i] = Junk THEN Error ELSE answer

blob_to_kzg_commitment(b) == get_trusted_setup(<<b>>, Ok(Commitment(b)))

compute_kzg_proof(b, z) == get_trusted_setup(<<b, z>>, Ok(<<Opening(b, z), Value(b, z)>>))

compute_blob_kzg_proof(b, c) == get_trusted_setup(<<b, c>>, Ok(Opening(b, Challenge(b, c))))

verify_kzg_proof(c, z, y, p) == get_trusted_setup(<<c, z, y, p>>, Ok(Opens(c, z, y, p)))

verify_blob_kzg_proof(b, c, p) ==
  LET z == Challenge(b, c) IN get_trusted_setup(<<b, c, p>>, Ok(Opens(c, z, Value(b, z), p)))

\* Variant: the blobs are proved against their own commitments.
verify_blob_kzg_proof_batch_own(bs, cs, ps) ==
  get_trusted_setup(bs \o cs \o ps,
    Ok(\A i \in 1..Len(bs) : IsTrue(verify_blob_kzg_proof(bs[i], Commitment(bs[i]), ps[i]))))
(* As many blobs, commitments and proofs; no blobs at all are valid. *)
verify_blob_kzg_proof_batch(bs, cs, ps) ==
  get_trusted_setup(bs \o cs \o ps,
    IF Len(bs) # Len(cs) \/ Len(bs) # Len(ps) THEN Error
    ELSE Ok(\A i \in 1..Len(bs) : IsTrue(verify_blob_kzg_proof(bs[i], cs[i], ps[i]))))

blob_kzg_proof_batch_valid(bs, cs, ps) == IsTrue(verify_blob_kzg_proof_batch(bs, cs, ps))
==============================================================================

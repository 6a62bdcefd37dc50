------------------------------ MODULE BlobsProofs ------------------------------
(***************************************************************************)
(* What is proved of module Blobs: an imported block had the blobs it      *)
(* commits to, and without a crash no honest block is refused.             *)
(***************************************************************************)
EXTENDS Blobs, FiniteSetTheorems, TLAPS

(***************************************************************************)
(* The library.                                                            *)
(***************************************************************************)
(* The bytes that it refuses. *)
Refused == {Short, Junk}
Among(x, args) == \E i \in 1..Len(args) : args[i] = x

(* A call fails for a refused argument or for want of the setup, and has   *)
(* its answer otherwise.                                                   *)
LEMMA SetupAnswers ==
  ASSUME NEW args, NEW answer
  PROVE  K!get_trusted_setup(args, answer) =
           IF Among(Short, args) THEN K!Error
           ELSE IF ~SetupFound THEN K!Raise
           ELSE IF Among(Junk, args) THEN K!Error ELSE answer
<1> DEFINE short == Among(Short, args)
           junk == Among(Junk, args)
<1>1. K!get_trusted_setup(args, answer) =
        CASE short -> K!Error
          [] ~SetupFound /\ ~short -> K!Raise
          [] SetupFound /\ ~short -> IF junk THEN K!Error ELSE answer
  BY DEF K!get_trusted_setup, Among
<1> HIDE DEF short, junk
<1>2. CASE short
  BY <1>1, <1>2 DEF short, junk
<1>3. CASE ~short /\ ~SetupFound
  BY <1>1, <1>3 DEF short, junk
<1>4. CASE ~short /\ SetupFound
  BY <1>1, <1>4 DEF short, junk
<1> QED BY <1>2, <1>3, <1>4

(* When an answer is given, it is that of the crate. *)
LEMMA TrueAnswer ==
  ASSUME NEW args, NEW holds \in BOOLEAN, K!IsTrue(K!get_trusted_setup(args, K!Ok(holds)))
  PROVE  SetupFound /\ holds /\ ~Among(Short, args) /\ ~Among(Junk, args)
<1>1. K!Error # K!Ok(TRUE) /\ K!Raise # K!Ok(TRUE)
  BY DEF K!Error, K!Raise, K!Ok
<1>2. K!Ok(holds) = K!Ok(TRUE) => holds
  BY DEF K!Ok
<1> QED BY <1>1, <1>2, SetupAnswers DEF K!IsTrue

(* A blob that verifies alone is the one that is committed to, with its    *)
(* own proof.                                                              *)
LEMMA BlobVerifies ==
  ASSUME NEW x, NEW c, NEW p, K!IsTrue(K!verify_blob_kzg_proof(x, c, p))
  PROVE  /\ SetupFound /\ x \notin Refused /\ c \notin Refused /\ p \notin Refused
         /\ c = K!Commitment(x) /\ p = K!Opening(x, K!Challenge(x, c))
<1> DEFINE z == K!Challenge(x, c)
           args == <<x, c, p>>
<1>1. K!IsTrue(K!get_trusted_setup(args, K!Ok(K!Opens(c, z, K!Value(x, z), p))))
  BY DEF K!verify_blob_kzg_proof
<1>2. K!Opens(c, z, K!Value(x, z), p) \in BOOLEAN
  BY DEF K!Opens
<1>3. SetupFound /\ K!Opens(c, z, K!Value(x, z), p) /\ ~Among(Short, args) /\ ~Among(Junk, args)
  BY <1>1, <1>2, TrueAnswer
<1>4. c = K!Commitment(c[2]) /\ K!Value(x, z) = K!Value(c[2], z) /\ p = K!Opening(c[2], z)
  BY <1>3 DEF K!Opens
<1>5. x = c[2]
  BY <1>4 DEF K!Value
<1>6. x \notin Refused /\ c \notin Refused /\ p \notin Refused
  <2>1. args[1] = x /\ args[2] = c /\ args[3] = p /\ Len(args) = 3
    OBVIOUS
  <2> HIDE DEF args
  <2> QED BY <1>3, <2>1 DEF Among, Refused
<1> QED BY <1>3, <1>4, <1>5, <1>6

\* Arguments none of which is refused are neither short nor junk.
LEMMA NotAmong ==
  ASSUME NEW S, Refused \cap S = {}, NEW args \in Seq(S)
  PROVE  ~Among(Short, args) /\ ~Among(Junk, args)
BY DEF Among, Refused

(* The terms of a blob that is not refused are what the library answers,   *)
(* and they verify.                                                        *)
LEMMA TermsVerify ==
  ASSUME SetupFound, NEW x, x \notin Refused, Refused \cap Terms(x) = {}
  PROVE  LET c == K!Commitment(x)
             z == K!Challenge(x, c)
             p == K!Opening(x, z)
         IN  /\ K!blob_to_kzg_commitment(x) = K!Ok(c)
             /\ K!compute_blob_kzg_proof(x, c) = K!Ok(p)
             /\ K!IsTrue(K!verify_blob_kzg_proof(x, c, p))
             /\ K!IsTrue(K!verify_kzg_proof(c, z, K!compute_kzg_proof(x, z)[2][2], p))
<1> DEFINE c == K!Commitment(x)
           z == K!Challenge(x, c)
           p == K!Opening(x, z)
           y == K!Value(x, z)
<1>1. {x, c, z, p, y} \cap Refused = {}
  BY DEF Terms
<1>2. c[2] = x
  BY DEF K!Commitment
<1>3. K!Opens(c, z, y, p) = TRUE
  BY <1>2 DEF K!Opens
<1> HIDE DEF c, z, p, y
<1>4. K!blob_to_kzg_commitment(x) = K!Ok(c)
  <2>1. ~Among(Short, <<x>>) /\ ~Among(Junk, <<x>>)
    BY <1>1, <<x>> \in Seq({x, c, z, p, y}), NotAmong
  <2> QED BY <2>1, SetupAnswers DEF K!blob_to_kzg_commitment, c
<1>5. K!compute_blob_kzg_proof(x, c) = K!Ok(p)
  <2>1. ~Among(Short, <<x, c>>) /\ ~Among(Junk, <<x, c>>)
    BY <1>1, <<x, c>> \in Seq({x, c, z, p, y}), NotAmong
  <2> QED BY <2>1, SetupAnswers DEF K!compute_blob_kzg_proof, p, z
<1>6. K!IsTrue(K!verify_blob_kzg_proof(x, c, p))
  <2>1. ~Among(Short, <<x, c, p>>) /\ ~Among(Junk, <<x, c, p>>)
    BY <1>1, <<x, c, p>> \in Seq({x, c, z, p, y}), NotAmong
  <2> QED BY <2>1, <1>3, SetupAnswers DEF K!verify_blob_kzg_proof, K!IsTrue, z, y
<1>7. K!compute_kzg_proof(x, z)[2][2] = y
  <2>1. ~Among(Short, <<x, z>>) /\ ~Among(Junk, <<x, z>>)
    BY <1>1, <<x, z>> \in Seq({x, c, z, p, y}), NotAmong
  <2>2. K!compute_kzg_proof(x, z) = K!Ok(<<p, y>>)
    BY <2>1, SetupAnswers DEF K!compute_kzg_proof, p, y
  <2> QED BY <2>2 DEF K!Ok
<1>8. K!IsTrue(K!verify_kzg_proof(c, z, y, p))
  <2>1. ~Among(Short, <<c, z, y, p>>) /\ ~Among(Junk, <<c, z, y, p>>)
    BY <1>1, <<c, z, y, p>> \in Seq({x, c, z, p, y}), NotAmong
  <2> QED BY <2>1, <1>3, SetupAnswers DEF K!verify_kzg_proof, K!IsTrue
<1> QED BY <1>4, <1>5, <1>6, <1>7, <1>8 DEF c, z, p

(* In a batch that is valid every blob verifies. *)
LEMMA BatchVerifies ==
  ASSUME NEW bs, NEW cs, NEW ps, K!blob_kzg_proof_batch_valid(bs, cs, ps)
  PROVE  \A i \in 1..Len(bs) : K!IsTrue(K!verify_blob_kzg_proof(bs[i], cs[i], ps[i]))
<1> DEFINE each == \A i \in 1..Len(bs) : K!IsTrue(K!verify_blob_kzg_proof(bs[i], cs[i], ps[i]))
           answer == IF Len(bs) # Len(cs) \/ Len(bs) # Len(ps) THEN K!Error ELSE K!Ok(each)
           args == bs \o cs \o ps
<1>1. K!IsTrue(K!get_trusted_setup(args, answer))
  BY DEF K!blob_kzg_proof_batch_valid, K!verify_blob_kzg_proof_batch
<1>2. each \in BOOLEAN
  OBVIOUS
<1> HIDE DEF each, args
<1>3. CASE Len(bs) # Len(cs) \/ Len(bs) # Len(ps)
  <2>1. K!Error # K!Ok(TRUE) /\ K!Raise # K!Ok(TRUE)
    BY DEF K!Error, K!Raise, K!Ok
  <2>2. answer = K!Error
    BY <1>3
  <2> QED BY <1>1, <2>1, <2>2, SetupAnswers DEF K!IsTrue
<1>4. CASE ~(Len(bs) # Len(cs) \/ Len(bs) # Len(ps))
  <2>1. answer = K!Ok(each)
    BY <1>4
  <2>2. each
    BY <1>1, <1>2, <2>1, TrueAnswer
  <2> QED BY <2>2 DEF each
<1> QED BY <1>3, <1>4

(* A blob that verifies against a commitment of the block is the block's.  *)
LEMMA VerifiesIsTheBlob ==
  ASSUME NEW b \in Block, NEW i \in 1..Len(BlobsOf[b]), NEW x, NEW p,
         K!IsTrue(K!verify_blob_kzg_proof(x, commitments(b)[i], p))
  PROVE  x = BlobsOf[b][i] /\ commitments(b)[i] = K!Commitment(x) /\ x \in ToSet(BlobsOf[b])
<1> DEFINE y == BlobsOf[b][i]
           c == commitments(b)[i]
<1>1. c = K!blob_to_kzg_commitment(y)[2]
  BY DEF commitments
<1>2. c = K!Commitment(x)
  BY BlobVerifies
<1>3. c # <<>>
  BY <1>2 DEF K!Commitment
<1>4. K!blob_to_kzg_commitment(y) \in {K!Error, K!Raise, K!Ok(K!Commitment(y))}
  BY SetupAnswers DEF K!blob_to_kzg_commitment
<1>5. K!Error[2] = <<>> /\ K!Raise[2] = <<>> /\ K!Ok(K!Commitment(y))[2] = K!Commitment(y)
  BY DEF K!Error, K!Raise, K!Ok
<1>6. K!Commitment(x) = K!Commitment(y)
  BY <1>1, <1>2, <1>3, <1>4, <1>5
<1>7. x = y
  BY <1>6 DEF K!Commitment
<1>8. y \in ToSet(BlobsOf[b])
  BY BlobsAssumption DEF ToSet
<1> QED BY <1>2, <1>7, <1>8

(***************************************************************************)
(* Imported blocks.                                                        *)
(***************************************************************************)
(* Each row that was read verified against the block's commitment. *)
AllVerify(b, rows) ==
  \A i \in 1..Len(BlobsOf[b]) :
    K!IsTrue(K!verify_blob_kzg_proof(rows[i][1], commitments(b)[i], rows[i][2]))
ImportedInv ==
  /\ imported \in [Block -> {imported[b] : b \in Block}]
  /\ \A b \in Block : imported[b] # None => AllVerify(b, imported[b])

(* What data_available? takes verifies. *)
LEMMA AvailableVerifies ==
  ASSUME NEW b \in Block, data_available(b)
  PROVE  AllVerify(b, BlobRows(b))
<1> DEFINE rows == BlobRows(b)
           n == Len(BlobsOf[b])
           bs == [i \in 1..Len(rows) |-> rows[i][1]]
           ps == [i \in 1..Len(rows) |-> rows[i][2]]
<1>1. n \in Nat /\ n > 0
  <2>1. n \in 1..9
    BY BlobsAssumption
  <2> HIDE DEF n
  <2> QED BY <2>1
<1> HIDE DEF n
<1>2. rows = [i \in 1..n |-> blobdata[<<b, i - 1>>]]
  BY DEF BlobRows, n
<1>3. Len(rows) = n
  BY <1>1, <1>2
<1>4. rows # <<>>
  BY <1>1, <1>3
<1>5. K!blob_kzg_proof_batch_valid(bs, commitments(b), ps)
  BY <1>4 DEF data_available
<1> HIDE DEF rows
<1>6. Len(bs) = n /\ \A i \in 1..n : bs[i] = rows[i][1] /\ ps[i] = rows[i][2]
  BY <1>1, <1>3
<1> HIDE DEF bs, ps
<1>7. \A i \in 1..n : K!IsTrue(K!verify_blob_kzg_proof(bs[i], commitments(b)[i], ps[i]))
  BY <1>5, <1>6, BatchVerifies
<1> QED BY <1>6, <1>7 DEF AllVerify, rows, n

\* An import of several blocks keeps what was imported verified.
LEMMA ProcessImports ==
  ASSUME ImportedInv, NEW bs, ProcessBlocks(bs)
  PROVE  ImportedInv'
<1>1. \A b \in Block : imported'[b] # None => AllVerify(b, imported'[b])
  BY AvailableVerifies DEF ImportedInv, ProcessBlocks
<1>2. imported' \in [Block -> {imported'[b] : b \in Block}]
  BY DEF ProcessBlocks
<1> QED BY <1>1, <1>2 DEF ImportedInv, AllVerify, commitments

(* Blocks are imported as they are added or when the last of their blobs   *)
(* comes in, and only if data_available?.                                  *)
LEMMA ImportedStep == ImportedInv /\ [Next]_vars => ImportedInv'
<1> SUFFICES ASSUME ImportedInv, [Next]_vars PROVE ImportedInv'
  OBVIOUS
<1>1. CASE UNCHANGED imported
  BY <1>1 DEF ImportedInv, AllVerify, commitments
<1>2. CASE AddBlock
  <2>1. UNCHANGED imported \/ \E b \in Block : ProcessBlocks({b})
    BY <1>2 DEF AddBlock
  <2> QED BY <2>1, <1>1, ProcessImports
<1>3. CASE ProcessBlobs
  BY <1>3, ProcessImports DEF ProcessBlobs
<1>4. CASE Propose \/ ReceiveSidecar \/ ReceiveAnswer \/ StoreSidecar \/ StoreBlob \/ Crash
  BY <1>1, <1>4 DEF Propose, ReceiveSidecar, ReceiveAnswer, StoreSidecar, StoreBlob, Crash
<1>5. CASE UNCHANGED vars
  BY <1>1, <1>5 DEF vars
<1> QED BY <1>2, <1>3, <1>4, <1>5 DEF Next

\* What was imported is what its block committed to.
LEMMA ImportedHolds == ASSUME ImportedInv PROVE ImportedIsCommitted
<1> SUFFICES ASSUME NEW b \in Block, imported[b] # None, NEW i \in 1..Len(BlobsOf[b])
             PROVE  LET blob == imported[b][i][1]
                        proof == imported[b][i][2]
                        c == commitments(b)[i]
                        z == K!Challenge(blob, c)
                    IN  /\ K!blob_to_kzg_commitment(blob) = K!Ok(c)
                        /\ K!IsTrue(K!verify_blob_kzg_proof(blob, c, proof))
                        /\ K!IsTrue(K!verify_kzg_proof(c, z, K!compute_kzg_proof(blob, z)[2][2], proof))
  BY DEF ImportedIsCommitted
<1> DEFINE x == imported[b][i][1]
           p == imported[b][i][2]
           c == commitments(b)[i]
<1>1. K!IsTrue(K!verify_blob_kzg_proof(x, c, p))
  BY DEF ImportedInv, AllVerify
<1> HIDE DEF x, p, c
<1>2. SetupFound /\ x \notin Refused /\ c = K!Commitment(x) /\ p = K!Opening(x, K!Challenge(x, c))
  BY <1>1, BlobVerifies
<1>3. x \in ToSet(BlobsOf[b])
  BY <1>1, VerifiesIsTheBlob DEF c
<1>4. Refused \cap Terms(x) = {}
  BY <1>3, BlobsAssumption DEF Refused
<1>5. /\ K!blob_to_kzg_commitment(x) = K!Ok(c)
      /\ K!IsTrue(K!verify_kzg_proof(c, K!Challenge(x, c), K!compute_kzg_proof(x, K!Challenge(x, c))[2][2], p))
  BY <1>2, <1>4, TermsVerify
<1> QED BY <1>1, <1>5 DEF x, p, c

(* However its sidecars were mixed up, repeated or torn, a block that was  *)
(* imported had the blobs it commits to, in their order, and they verify   *)
(* one by one as well (data_available?, verify_blob_kzg_proof_batch).      *)
THEOREM ImportedSafe == Spec => []ImportedIsCommitted
<1>1. Init => ImportedInv
  BY DEF Init, ImportedInv
<1>2. ImportedInv => ImportedIsCommitted
  BY ImportedHolds
<1> QED BY <1>1, <1>2, ImportedStep, PTL DEF Spec

(***************************************************************************)
(* Blocks that are not refused.                                            *)
(***************************************************************************)
LEMMA BlobCount ==
  ASSUME NEW b \in Block
  PROVE  /\ Len(BlobsOf[b]) \in 1..9 /\ BlobsOf[b] \in Seq(ToSet(BlobsOf[b]))
         /\ \A i \in 1..Len(BlobsOf[b]) : BlobsOf[b][i] \in ToSet(BlobsOf[b])
BY BlobsAssumption DEF ToSet

\* A finite set as a sequence has the set's elements.
LEMMA AsSequence ==
  ASSUME NEW S, IsFiniteSet(S)
  PROVE  SetToSeq(S) \in Seq(S)
<1> DEFINE n == Cardinality(S)
<1>1. n \in Nat
  BY FS_CardinalityType
<1>2. \E g \in [1..n -> S] : IsInjective(g)
  <2>1. PICK k \in Nat : ExistsBijection(1..k, S)
    BY FS_NatBijection
  <2>2. k = n
    BY <2>1, FS_CountingElements
  <2>3. PICK g : g \in Bijection(1..n, S)
    BY <2>1, <2>2 DEF ExistsBijection
  <2> HIDE DEF n
  <2>4. g \in [1..n -> S] /\ IsInjective(g)
    BY <2>3 DEF Bijection, Injection, IsInjective
  <2> QED BY <2>4
<1>3. SetToSeq(S) \in [1..n -> S]
  <2> HIDE DEF n
  <2> QED BY <1>2 DEF SetToSeq, n
<1> HIDE DEF n
<1> QED BY <1>1, <1>3

(* What goes around of a block. *)
Circulating(b) == Published(ToSet(generate_sidecars(b)), b)
Sidecars == UNION {Circulating(b) : b \in Block}

(* A sidecar of a block that is not mixed has the blob of its index and    *)
(* the proof that the proposer made.                                       *)
Exact(sc) ==
  /\ sc.block \in Block /\ sc.index \in 0..(Len(BlobsOf[sc.block]) - 1)
  /\ sc.block \notin Mixed => sc = generate_sidecars(sc.block)[sc.index + 1]

\* The sidecars of a block are one per blob, in the order of the indices.
LEMMA Generated ==
  ASSUME NEW b \in Block
  PROVE  /\ Len(generate_sidecars(b)) = Len(BlobsOf[b])
         /\ generate_sidecars(b) \in Seq(Circulating(b))
         /\ \A sc \in ToSet(generate_sidecars(b)) :
              /\ sc.block = b /\ sc.index \in 0..(Len(BlobsOf[b]) - 1)
              /\ {"block", "index", "blob", "proof"} \subseteq DOMAIN sc
              /\ sc = generate_sidecars(b)[sc.index + 1]
<1> DEFINE n == Len(BlobsOf[b])
           g == generate_sidecars(b)
           side(i) == [block |-> b, index |-> i - 1, blob |-> BlobsOf[b][i], commitment |-> commitments(b)[i],
                       proof |-> K!compute_blob_kzg_proof(BlobsOf[b][i], commitments(b)[i])[2]]
<1>1. n \in 1..9
  BY BlobCount
<1>2. g = [i \in 1..n |-> side(i)]
  BY DEF generate_sidecars
<1>3. \A i \in 1..n : /\ side(i).block = b /\ side(i).index = i - 1
                       /\ {"block", "index", "blob", "proof"} \subseteq DOMAIN side(i)
  OBVIOUS
<1> HIDE DEF n, g, side
<1>4. Len(g) = n /\ DOMAIN g = 1..n /\ \A i \in 1..n : g[i] = side(i)
  BY <1>1, <1>2
<1>5. \A i \in 1..n : g[i] \in ToSet(g)
  BY <1>4 DEF ToSet
<1>6. ToSet(g) \subseteq Circulating(b)
  BY DEF Circulating, Published, g
<1>7. g \in [1..n -> Circulating(b)]
  BY <1>2, <1>4, <1>5, <1>6
<1>8. g \in Seq(Circulating(b))
  BY <1>1, <1>7
<1>9. ASSUME NEW sc \in ToSet(g)
      PROVE  /\ sc.block = b /\ sc.index \in 0..(n - 1) /\ sc = g[sc.index + 1]
             /\ {"block", "index", "blob", "proof"} \subseteq DOMAIN sc
  <2>1. PICK i \in 1..n : sc = g[i]
    BY <1>4 DEF ToSet
  <2>2. sc.block = b /\ sc.index = i - 1
    BY <2>1, <1>3, <1>4
  <2>3. {"block", "index", "blob", "proof"} \subseteq DOMAIN sc
    BY <2>1, <1>3, <1>4
  <2> QED BY <2>1, <2>2, <2>3, <1>1
<1> QED BY <1>4, <1>8, <1>9 DEF n, g

\* They are finitely many.
LEMMA GeneratedFinite ==
  ASSUME NEW b \in Block
  PROVE  IsFiniteSet(ToSet(generate_sidecars(b)))
<1> DEFINE n == Len(BlobsOf[b])
           g == generate_sidecars(b)
<1>1. n \in 1..9
  BY BlobCount
<1>2. Len(g) = n /\ DOMAIN g = 1..n
  BY <1>1, Generated
<1> HIDE DEF n, g
<1>3. IsFiniteSet(1..n)
  BY <1>1, FS_Interval
<1>4. g \in Surjection(1..n, ToSet(g))
  <2>1. g \in [1..n -> ToSet(g)]
    BY <1>2, Generated DEF ToSet, g
  <2> QED BY <1>2, <2>1 DEF Surjection, ToSet
<1> QED BY <1>3, <1>4, FS_Surjection DEF g

\* A wrong sidecar still names its block and an index of it.
LEMMA WrongKeepsId ==
  ASSUME NEW b \in Block, NEW sc \in Wrong(ToSet(generate_sidecars(b)))
  PROVE  sc.block = b /\ sc.index \in 0..(Len(BlobsOf[b]) - 1)
<1> DEFINE T == ToSet(generate_sidecars(b))
<1>1. ASSUME NEW x \in T, NEW y \in T
      PROVE  /\ WithData(x, y).block = x.block /\ WithData(x, y).index = x.index
             /\ WithAll(x, y).block = x.block /\ WithAll(x, y).index = x.index
  BY Generated DEF WithData, WithAll
<1>2. \E x \in T, y \in T : sc = WithData(x, y) \/ sc = WithAll(x, y)
  BY DEF Wrong
<1>3. \E x \in T : sc.block = x.block /\ sc.index = x.index
  <2> HIDE DEF T
  <2> QED BY <1>1, <1>2
<1> QED BY <1>3, Generated

\* So does every sidecar, and those of a block that is not mixed are its own.
LEMMA SidecarsExact ==
  ASSUME NEW sc \in Sidecars
  PROVE  Exact(sc) /\ Id(sc) \in Ids
<1>1. PICK b \in Block : sc \in Circulating(b)
  BY DEF Sidecars
<1>2. sc.block = b /\ sc.index \in 0..(Len(BlobsOf[b]) - 1)
  BY <1>1, Generated, WrongKeepsId DEF Circulating, Published
<1>3. b \notin Mixed => sc = generate_sidecars(b)[sc.index + 1]
  BY <1>1, Generated DEF Circulating, Published
<1>4. Id(sc) \in Ids
  <2>1. sc.index \in 0..8
    <3> DEFINE n == Len(BlobsOf[b])
    <3>1. n \in 1..9 /\ sc.index \in 0..(n - 1)
      BY <1>2, BlobCount
    <3> HIDE DEF n
    <3> QED BY <3>1
  <2> QED BY <1>2, <2>1 DEF Id, Ids
<1> QED BY <1>2, <1>3, <1>4 DEF Exact

(* The rows of sidecars and blobs. A blob's row is that of a sidecar, and  *)
(* as long as the process runs a sidecar's row is followed by its blob's.  *)
RowsExact ==
  \A id \in Ids : blobdata[id] # None =>
    \E sc \in Sidecars : Id(sc) = id /\ blobdata[id] = <<sc.blob, sc.proof>>
Writing(id) == handler.todo # <<>> /\ handler.row = 2 /\ Id(handler.todo[1]) = id
Followed == crashes = 0 =>
  \A id \in Ids : sidecar[id] # None => blobdata[id] # None \/ Writing(id)

StoreInv ==
  /\ made \subseteq Sidecars /\ crashes \in Nat
  /\ handler.todo \in Seq(Sidecars) /\ handler.roots \subseteq Block
  /\ handler = [todo |-> handler.todo, row |-> handler.row, roots |-> handler.roots,
                blocks |-> handler.blocks]
  /\ DOMAIN sidecar = Ids /\ DOMAIN blobdata = Ids
  /\ RowsExact /\ Followed

(* The setup is found, and the library takes the blobs of the blocks that  *)
(* are not mixed.                                                          *)
Honest == SetupFound /\ \A b \in Block \ Mixed : Refused \cap ToSet(BlobsOf[b]) = {}

(* The blobs of such a block verify, together. *)
LEMMA OwnVerify ==
  ASSUME Honest, NEW b \in Block \ Mixed, NEW i \in 1..Len(BlobsOf[b])
  PROVE  LET x == BlobsOf[b][i]
             c == commitments(b)[i]
             p == generate_sidecars(b)[i].proof
         IN  /\ K!IsTrue(K!verify_blob_kzg_proof(x, c, p))
             /\ generate_sidecars(b)[i].blob = x
<1> DEFINE x == BlobsOf[b][i]
           c == K!Commitment(x)
           p == K!Opening(x, K!Challenge(x, c))
<1>1. x \in ToSet(BlobsOf[b])
  BY BlobCount
<1>2. SetupFound /\ x \notin Refused /\ Refused \cap Terms(x) = {}
  BY <1>1, BlobsAssumption DEF Honest, Refused
<1> HIDE DEF x
<1>3. /\ K!blob_to_kzg_commitment(x) = K!Ok(c) /\ K!compute_blob_kzg_proof(x, c) = K!Ok(p)
      /\ K!IsTrue(K!verify_blob_kzg_proof(x, c, p))
  BY <1>2, TermsVerify
<1> HIDE DEF c, p
<1>4. commitments(b)[i] = c
  BY <1>3 DEF commitments, x, K!Ok
<1>5. /\ generate_sidecars(b)[i].proof = K!compute_blob_kzg_proof(x, commitments(b)[i])[2]
      /\ generate_sidecars(b)[i].blob = x
  BY DEF generate_sidecars, x
<1>6. generate_sidecars(b)[i].proof = p
  BY <1>3, <1>4, <1>5 DEF K!Ok
<1> QED BY <1>3, <1>4, <1>5, <1>6 DEF x

\* Rows that verify one by one verify as a batch.
LEMMA BatchValid ==
  ASSUME NEW bs, NEW cs, NEW ps, NEW n \in Nat, SetupFound,
         DOMAIN bs = 1..n, DOMAIN cs = 1..n, DOMAIN ps = 1..n,
         bs = [i \in 1..n |-> bs[i]], cs = [i \in 1..n |-> cs[i]], ps = [i \in 1..n |-> ps[i]],
         \A i \in 1..n : K!IsTrue(K!verify_blob_kzg_proof(bs[i], cs[i], ps[i]))
  PROVE  K!blob_kzg_proof_batch_valid(bs, cs, ps)
<1> DEFINE S == {bs[i] : i \in 1..n} \cup {cs[i] : i \in 1..n} \cup {ps[i] : i \in 1..n}
<1>1. Refused \cap S = {}
  BY BlobVerifies
<1>2. bs \in Seq(S) /\ cs \in Seq(S) /\ ps \in Seq(S)
  <2>1. bs \in [1..n -> S] /\ cs \in [1..n -> S] /\ ps \in [1..n -> S]
    OBVIOUS
  <2> HIDE DEF S
  <2> QED BY <2>1
<1>3. Len(bs) = n /\ Len(cs) = n /\ Len(ps) = n
  BY <1>2
<1> HIDE DEF S
<1>4. bs \o cs \o ps \in Seq(S)
  BY <1>2
<1>5. ~Among(Short, bs \o cs \o ps) /\ ~Among(Junk, bs \o cs \o ps)
  BY <1>1, <1>4, NotAmong
<1> DEFINE each == \A i \in 1..Len(bs) : K!IsTrue(K!verify_blob_kzg_proof(bs[i], cs[i], ps[i]))
           answer == IF Len(bs) # Len(cs) \/ Len(bs) # Len(ps) THEN K!Error ELSE K!Ok(each)
           args == bs \o cs \o ps
<1>6. each = TRUE
  BY <1>3
<1>7. answer = K!Ok(TRUE)
  <2> HIDE DEF each
  <2> QED BY <1>3, <1>6
<1>8. K!verify_blob_kzg_proof_batch(bs, cs, ps) = K!get_trusted_setup(args, answer)
  BY DEF K!verify_blob_kzg_proof_batch
<1> HIDE DEF each, answer, args
<1>9. K!get_trusted_setup(args, answer) = answer
  BY <1>5, SetupAnswers DEF args
<1> QED BY <1>7, <1>8, <1>9 DEF K!blob_kzg_proof_batch_valid, K!IsTrue

\* What is stored for a block that is not mixed is what the block has there.
LEMMA HonestRow ==
  ASSUME StoreInv, NEW b \in Block \ Mixed, NEW i \in 1..Len(BlobsOf[b]),
         blobdata[<<b, i - 1>>] # None
  PROVE  blobdata[<<b, i - 1>>] = <<generate_sidecars(b)[i].blob, generate_sidecars(b)[i].proof>>
<1>0. Len(BlobsOf[b]) \in 1..9 /\ i \in Int
  BY BlobCount
<1>1. <<b, i - 1>> \in Ids
  <2>1. i - 1 \in 0..8
    <3> DEFINE n == Len(BlobsOf[b])
    <3>1. n \in 1..9 /\ i \in 1..n
      BY <1>0
    <3> HIDE DEF n
    <3> QED BY <3>1
  <2> QED BY <2>1 DEF Ids
<1>2. PICK sc \in Sidecars : Id(sc) = <<b, i - 1>> /\ blobdata[<<b, i - 1>>] = <<sc.blob, sc.proof>>
  BY <1>1 DEF StoreInv, RowsExact
<1>3. sc.block = b /\ sc.index = i - 1
  BY <1>2 DEF Id
<1>4. sc = generate_sidecars(b)[sc.index + 1]
  BY <1>3, SidecarsExact DEF Exact
<1>5. sc.index + 1 = i
  BY <1>0, <1>3
<1> QED BY <1>2, <1>4, <1>5

(* Once no sidecar is missing, and nothing is being written, the rows that *)
(* data_available? reads are there and verify.                             *)
LEMMA HonestAvailable ==
  ASSUME Honest, StoreInv, crashes = 0, handler.todo = <<>>, NEW b \in Block \ Mixed,
         missing_for_block(b) = {}
  PROVE  data_available(b)
<1> DEFINE n == Len(BlobsOf[b])
           rows == BlobRows(b)
           bs == [i \in 1..Len(rows) |-> rows[i][1]]
           ps == [i \in 1..Len(rows) |-> rows[i][2]]
           cs == commitments(b)
<1>1. n \in 1..9
  BY BlobCount
<1>2. \A i \in 1..n : blobdata[<<b, i - 1>>] # None
  <2> SUFFICES ASSUME NEW i \in 1..n PROVE blobdata[<<b, i - 1>>] # None
    OBVIOUS
  <2>1. i - 1 \in 0..(n - 1) /\ i - 1 \in 0..8
    <3> HIDE DEF n
    <3> QED BY <1>1
  <2>2. sidecar[<<b, i - 1>>] # None
    BY <2>1 DEF missing_for_block
  <2>3. <<b, i - 1>> \in Ids
    BY <2>1 DEF Ids
  <2> QED BY <2>2, <2>3 DEF StoreInv, Followed, Writing
<1>3. rows = [i \in 1..n |-> blobdata[<<b, i - 1>>]]
  BY DEF BlobRows
<1>4. /\ cs = [i \in 1..n |-> cs[i]] /\ DOMAIN cs = 1..n
  BY DEF commitments
<1>5. \A i \in 1..n : /\ rows[i] # None
                      /\ K!IsTrue(K!verify_blob_kzg_proof(rows[i][1], cs[i], rows[i][2]))
  <2> SUFFICES ASSUME NEW i \in 1..n
               PROVE  /\ rows[i] # None
                      /\ K!IsTrue(K!verify_blob_kzg_proof(rows[i][1], cs[i], rows[i][2]))
    OBVIOUS
  <2>1. rows[i] = <<generate_sidecars(b)[i].blob, generate_sidecars(b)[i].proof>>
    BY <1>2, <1>3, HonestRow
  <2>2. rows[i] # None
    BY <1>2, <1>3
  <2> HIDE DEF rows
  <2>3. rows[i][1] = generate_sidecars(b)[i].blob /\ rows[i][2] = generate_sidecars(b)[i].proof
    BY <2>1
  <2> QED BY <2>2, <2>3, OwnVerify
<1> HIDE DEF n, rows, cs
<1>6. Len(rows) = n
  BY <1>1, <1>3
<1>7. /\ bs = [i \in 1..n |-> bs[i]] /\ ps = [i \in 1..n |-> ps[i]] /\ DOMAIN bs = 1..n /\ DOMAIN ps = 1..n
      /\ \A i \in 1..n : bs[i] = rows[i][1] /\ ps[i] = rows[i][2]
  BY <1>6
<1> HIDE DEF bs, ps
<1>8. SetupFound /\ n \in Nat
  BY <1>1 DEF Honest
<1>9. \A i \in 1..n : K!IsTrue(K!verify_blob_kzg_proof(bs[i], cs[i], ps[i]))
  BY <1>5, <1>7
<1>10. K!blob_kzg_proof_batch_valid(bs, cs, ps)
  BY <1>4, <1>7, <1>8, <1>9, BatchValid
<1> QED BY <1>5, <1>6, <1>10 DEF data_available, rows, bs, ps, cs

(* What is written is a sidecar that goes around, its row and then the     *)
(* blob's.                                                                 *)
LEMMA StoreStep == StoreInv /\ [Next]_vars => StoreInv'
<1> SUFFICES ASSUME StoreInv, [Next]_vars PROVE StoreInv'
  OBVIOUS
<1> DEFINE scs == handler.todo
<1>0. \A b \in Block : /\ Circulating(b) \subseteq Sidecars
                       /\ generate_sidecars(b) \in Seq(Sidecars)
                       /\ ToSet(generate_sidecars(b)) \subseteq Sidecars
  <2> SUFFICES ASSUME NEW b \in Block PROVE /\ Circulating(b) \subseteq Sidecars
                       /\ generate_sidecars(b) \in Seq(Sidecars)
                       /\ ToSet(generate_sidecars(b)) \subseteq Sidecars
    OBVIOUS
  <2>1. Circulating(b) \subseteq Sidecars
    BY DEF Sidecars
  <2>2. generate_sidecars(b) \in Seq(Circulating(b)) /\ ToSet(generate_sidecars(b)) \subseteq Circulating(b)
    BY Generated DEF Circulating, Published
  <2> QED BY <2>1, <2>2
<1>1. CASE Propose
  <2>1. PICK b \in Block : \/ /\ handler' = [todo |-> generate_sidecars(b), row |-> 1, roots |-> {b}, blocks |-> FALSE]
                              /\ made' = made
                           \/ made' = made \cup Circulating(b) /\ handler' = Idle
    BY <1>1 DEF Propose, Circulating
  <2>2. UNCHANGED <<sidecar, blobdata, crashes>> /\ handler = Idle
    BY <1>1 DEF Propose
  <2>3. RowsExact' /\ Followed'
    BY <2>2 DEF StoreInv, RowsExact, Followed, Writing, Idle
  <2>4. made' \subseteq Sidecars
    BY <1>0, <2>1 DEF StoreInv
  <2>5. /\ handler'.todo \in Seq(Sidecars) /\ handler'.roots \subseteq Block
        /\ handler' = [todo |-> handler'.todo, row |-> handler'.row, roots |-> handler'.roots,
                       blocks |-> handler'.blocks]
    <3>1. CASE handler' = Idle
      BY <3>1 DEF Idle
    <3>2. CASE handler' = [todo |-> generate_sidecars(b), row |-> 1, roots |-> {b}, blocks |-> FALSE]
      BY <3>2, <1>0
    <3> QED BY <2>1, <3>1, <3>2
  <2> QED BY <2>2, <2>3, <2>4, <2>5 DEF StoreInv
<1>2. CASE ReceiveSidecar
  <2>1. PICK sc \in made : handler' = [todo |-> <<sc>>, row |-> 1, roots |-> {sc.block}, blocks |-> TRUE]
    BY <1>2 DEF ReceiveSidecar
  <2>2. UNCHANGED <<made, sidecar, blobdata, crashes>> /\ handler = Idle
    BY <1>2 DEF ReceiveSidecar
  <2>3. RowsExact' /\ Followed'
    BY <2>2 DEF StoreInv, RowsExact, Followed, Writing, Idle
  <2>4. sc \in Sidecars /\ sc.block \in Block
    BY SidecarsExact DEF StoreInv, Exact
  <2>5. <<sc>> \in Seq(Sidecars)
    BY <2>4
  <2> QED BY <2>1, <2>2, <2>3, <2>4, <2>5 DEF StoreInv
<1>3. CASE ReceiveAnswer
  <2>1. PICK ids \in requests, b \in Block :
          \E S \in SUBSET {sc \in ToSet(generate_sidecars(b)) : Id(sc) \in ids} :
            handler' = IF S = {} THEN Idle
                       ELSE [todo |-> SetToSeq(S), row |-> 1, roots |-> {b}, blocks |-> TRUE]
    BY <1>3 DEF ReceiveAnswer
  <2>2. UNCHANGED <<made, sidecar, blobdata, crashes>> /\ handler = Idle
    BY <1>3 DEF ReceiveAnswer
  <2>3. RowsExact' /\ Followed'
    BY <2>2 DEF StoreInv, RowsExact, Followed, Writing, Idle
  <2>4. PICK S \in SUBSET ToSet(generate_sidecars(b)) :
            handler' = IF S = {} THEN Idle
                       ELSE [todo |-> SetToSeq(S), row |-> 1, roots |-> {b}, blocks |-> TRUE]
    BY <2>1
  <2>5. IsFiniteSet(S)
    <3>1. IsFiniteSet(ToSet(generate_sidecars(b)))
      BY GeneratedFinite
    <3> QED BY <3>1, FS_Subset
  <2>6. SetToSeq(S) \in Seq(Sidecars)
    BY <1>0, <2>5, AsSequence
  <2> QED BY <2>2, <2>3, <2>4, <2>6 DEF StoreInv, Idle
<1>4. CASE AddBlock
  <2>1. UNCHANGED <<made, sidecar, blobdata, handler, crashes>>
    BY <1>4 DEF AddBlock
  <2> QED BY <2>1 DEF StoreInv, RowsExact, Followed, Writing
<1>5. CASE StoreSidecar
  <2>1. /\ scs # <<>> /\ handler' = [handler EXCEPT !.row = 2]
        /\ sidecar' = [sidecar EXCEPT ![Id(scs[1])] = scs[1]]
        /\ UNCHANGED <<made, blobdata, crashes>>
    BY <1>5 DEF StoreSidecar
  <2>2. handler'.todo = scs /\ handler'.roots = handler.roots /\ handler'.row = 2 /\ handler'.blocks = handler.blocks
    BY <2>1 DEF StoreInv
  <2>3. handler' = [todo |-> handler'.todo, row |-> handler'.row, roots |-> handler'.roots, blocks |-> handler'.blocks]
    BY <2>1 DEF StoreInv
  <2>4. RowsExact'
    BY <2>1 DEF StoreInv, RowsExact
  <2>5. Followed'
    <3> SUFFICES ASSUME crashes = 0, NEW id \in Ids, sidecar'[id] # None
                 PROVE  blobdata[id] # None \/ Writing(id)'
      BY <2>1 DEF Followed
    <3>1. CASE id = Id(scs[1])
      BY <3>1, <2>1, <2>2 DEF Writing
    <3>2. CASE id # Id(scs[1])
      <4>1. sidecar[id] # None
        BY <2>1, <3>2 DEF StoreInv
      <4>2. ~Writing(id)
        BY <3>2 DEF Writing
      <4> QED BY <4>1, <4>2 DEF StoreInv, Followed
    <3> QED BY <3>1, <3>2
  <2> QED BY <2>1, <2>2, <2>3, <2>4, <2>5 DEF StoreInv
<1>6. CASE StoreBlob
  <2> DEFINE sc == scs[1]
  <2>1. /\ scs # <<>> /\ blobdata' = [blobdata EXCEPT ![Id(sc)] = <<sc.blob, sc.proof>>]
        /\ UNCHANGED <<sidecar, crashes>>
    BY <1>6 DEF StoreBlob
  <2>2. scs \in Seq(Sidecars) /\ sc \in Sidecars /\ Tail(scs) \in Seq(Sidecars)
    BY <2>1 DEF StoreInv
  <2>3. Id(sc) \in Ids /\ <<sc.blob, sc.proof>> # None
    <3>1. Id(sc) \in Ids
      <4> HIDE DEF sc
      <4> QED BY <2>2, SidecarsExact
    <3>2. <<sc.blob, sc.proof>> # None
      BY DEF None
    <3> QED BY <3>1, <3>2
  <2>4. \/ handler' = Idle /\ \E b \in handler.roots : made' = made \cup Circulating(b)
        \/ handler' = [handler EXCEPT !.todo = Tail(@), !.row = 1] /\ made' = made
    BY <1>6 DEF StoreBlob, Circulating
  <2>5. RowsExact'
    BY <2>1, <2>2, <2>3 DEF StoreInv, RowsExact
  <2>6. Followed'
    <3> SUFFICES ASSUME crashes = 0, NEW id \in Ids, sidecar[id] # None
                 PROVE  blobdata'[id] # None
      BY <2>1 DEF Followed
    <3>1. CASE id = Id(sc)
      BY <3>1, <2>1, <2>3 DEF StoreInv
    <3>2. CASE id # Id(sc)
      <4>1. ~Writing(id)
        BY <3>2 DEF Writing
      <4> QED BY <2>1, <3>2, <4>1 DEF StoreInv, Followed
    <3> QED BY <3>1, <3>2
  <2>7. CASE handler' = Idle /\ \E b \in handler.roots : made' = made \cup Circulating(b)
    <3>1. made' \subseteq Sidecars
      BY <1>0, <2>7 DEF StoreInv
    <3>2. handler' = [todo |-> handler'.todo, row |-> handler'.row, roots |-> handler'.roots, blocks |-> handler'.blocks]
          /\ handler'.todo \in Seq(Sidecars) /\ handler'.roots \subseteq Block
      BY <2>7 DEF Idle
    <3> QED BY <3>1, <3>2, <2>1, <2>5, <2>6 DEF StoreInv
  <2>8. CASE handler' = [handler EXCEPT !.todo = Tail(@), !.row = 1] /\ made' = made
    <3>1. handler' = [todo |-> Tail(scs), row |-> 1, roots |-> handler.roots, blocks |-> handler.blocks]
      BY <2>8 DEF StoreInv
    <3> QED BY <3>1, <2>1, <2>2, <2>5, <2>6, <2>8 DEF StoreInv
  <2> QED BY <2>4, <2>7, <2>8
<1>7. CASE ProcessBlobs
  <2>1. UNCHANGED <<made, sidecar, blobdata, crashes>> /\ handler' = Idle /\ handler.todo = <<>>
    BY <1>7 DEF ProcessBlobs
  <2> QED BY <2>1 DEF StoreInv, RowsExact, Followed, Writing, Idle
<1>8. CASE Crash
  <2>1. UNCHANGED <<made, sidecar, blobdata>> /\ handler' = Idle /\ crashes' = crashes + 1
    BY <1>8 DEF Crash
  <2> QED BY <2>1 DEF StoreInv, RowsExact, Followed, Writing, Idle
<1>9. CASE UNCHANGED vars
  BY <1>9 DEF vars, StoreInv, RowsExact, Followed, Writing
<1> QED BY <1>1, <1>2, <1>3, <1>4, <1>5, <1>6, <1>7, <1>8, <1>9 DEF Next

(* A block is refused only by ProcessBlocks, when its rows do not verify. *)
RefusedInv == DOMAIN status = Block /\ NeverRefused

\* No step refuses a block that is not mixed.
LEMMA RefusedStep == Honest /\ StoreInv /\ RefusedInv /\ [Next]_vars => RefusedInv'
<1> SUFFICES ASSUME Honest, StoreInv, DOMAIN status = Block, NeverRefused, [Next]_vars
             PROVE  DOMAIN status' = Block /\ NeverRefused'
  BY DEF RefusedInv
<1>0. DOMAIN status' = Block
  BY DEF Next, Propose, ReceiveSidecar, ReceiveAnswer, AddBlock, StoreSidecar, StoreBlob,
         ProcessBlobs, Crash, ProcessBlocks, vars
<1> SUFFICES ASSUME crashes' = 0, NEW b \in Block \ Mixed
             PROVE  status'[b] # "invalid"
  BY <1>0 DEF NeverRefused
<1>1. crashes = 0 /\ status[b] # "invalid"
  <2>1. crashes \in Nat
    BY DEF StoreInv
  <2>2. crashes' = crashes \/ crashes' = crashes + 1
    BY DEF Next, Propose, ReceiveSidecar, ReceiveAnswer, AddBlock, StoreSidecar, StoreBlob,
           ProcessBlobs, Crash, vars
  <2> QED BY <2>1, <2>2 DEF NeverRefused
<1>2. ASSUME NEW bs, ProcessBlocks(bs), handler.todo = <<>>, b \in bs => missing_for_block(b) = {}
      PROVE  status'[b] # "invalid"
  BY <1>1, <1>2, HonestAvailable DEF ProcessBlocks
<1>3. CASE AddBlock
  <2>1. PICK d \in Block : /\ handler = Idle
                           /\ IF missing_for_block(d) = {} THEN ProcessBlocks({d})
                              ELSE status' = [status EXCEPT ![d] = "download_blobs"]
    BY <1>3 DEF AddBlock
  <2>2. CASE missing_for_block(d) = {}
    BY <2>1, <2>2, <1>2 DEF Idle
  <2>3. CASE missing_for_block(d) # {}
    <3>1. status'[b] = status[b] \/ status'[b] = "download_blobs"
      BY <2>1, <2>3
    <3> QED BY <3>1, <1>1
  <2> QED BY <2>2, <2>3
<1>4. CASE ProcessBlobs
  <2>1. handler.todo = <<>> /\ ProcessBlocks({d \in handler.roots : status[d] = "download_blobs" /\ missing_for_block(d) = {}})
    BY <1>4 DEF ProcessBlobs
  <2> QED BY <2>1, <1>2
<1>5. CASE UNCHANGED status
  BY <1>1, <1>5
<1>6. CASE Propose \/ ReceiveSidecar \/ ReceiveAnswer \/ StoreSidecar \/ StoreBlob \/ Crash
  BY <1>5, <1>6 DEF Propose, ReceiveSidecar, ReceiveAnswer, StoreSidecar, StoreBlob, Crash
<1> QED BY <1>3, <1>4, <1>5, <1>6 DEF Next, vars

(* Without a crash a block of which only its own sidecars go around is     *)
(* never refused, if the library takes its blobs: in whatever order its    *)
(* sidecars come in, by gossip, by request or from this node's proposal,   *)
(* the rows that missing_for_block looks at are followed by those that     *)
(* data_available? reads.                                                  *)
THEOREM HonestSafe == ASSUME Honest PROVE Spec => []NeverRefused
<1>1. Init => StoreInv /\ RefusedInv
  BY DEF Init, StoreInv, RowsExact, Followed, RefusedInv, NeverRefused, Idle
<1>2. StoreInv /\ RefusedInv /\ [Next]_vars => StoreInv' /\ RefusedInv'
  BY StoreStep, RefusedStep
<1>3. RefusedInv => NeverRefused
  BY DEF RefusedInv
<1> QED BY <1>1, <1>2, <1>3, PTL DEF Spec
================================================================================

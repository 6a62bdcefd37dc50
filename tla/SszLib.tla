-------------------------------- MODULE SszLib --------------------------------
(***************************************************************************)
(* The crates the native library is built on (ethereum_ssz, ssz_types and  *)
(* tree_hash), external to the repository: serialisation, deserialisation  *)
(* and Merkleisation of the types of SszTypes. A value is a number, a      *)
(* Boolean, a sequence of bytes (array), of bits by index (bit fields) or  *)
(* of values (vector, list, and struct in the order of its fields). Hashes *)
(* are symbolic and so free of collisions: a zero tree of depth d, a chunk *)
(* of bytes, or a node over two hashes.                                    *)
(***************************************************************************)
EXTENDS SszTypes, Integers, Sequences, SequencesExt

Ok(x) == <<"ok", x>>
Error == <<"error", <<>>>>
BadArg == <<"badarg", <<>>>>     \* rustler::Error::BadArg, an ArgumentError
Raise == <<"raise", <<>>>>       \* an exception or a Rust panic
IsOk(r) == r[1] = "ok"

(* A sequence with its elements evaluated. *)
Seq1(f) == <<>> \o f

(* The results of several conversions as one. *)
All(rs) == LET bad == {i \in 1..Len(rs) : ~IsOk(rs[i])}
           IN  IF bad = {} THEN Ok(Seq1([i \in 1..Len(rs) |-> rs[i][2]]))
               ELSE rs[CHOOSE i \in bad : \A j \in bad : i <= j]

LE(n, w) == Seq1([i \in 1..w |-> (n \div 256^(i-1)) % 256])
FromLE(b) == FoldRight(LAMBDA x, acc : x + 256 * acc, b, 0)

CeilDiv(a, b) == (a + b - 1) \div b
BitOf(b, i) == (b[(i \div 8) + 1] \div 2^(i % 8)) % 2            \* i from 0
BitsOf(b, n) == Seq1([i \in 1..n |-> BitOf(b, i - 1)])
BytesOfBits(s, n) ==
  LET bit(i) == IF i < Len(s) THEN s[i+1] ELSE 0
      byte(j) == bit(8*j) + 2*bit(8*j+1) + 4*bit(8*j+2) + 8*bit(8*j+3)
                 + 16*bit(8*j+4) + 32*bit(8*j+5) + 64*bit(8*j+6) + 128*bit(8*j+7)
  IN  Seq1([j \in 1..n |-> byte(j - 1)])
TopBit(x) == CHOOSE i \in 0..7 : 2^i <= x /\ x < 2^(i+1)

FieldTypes(t) == Seq1([i \in 1..Len(t.fields) |-> t.fields[i][2]])

RECURSIVE IsFixed(_)
IsFixed(t) ==
  CASE t.k \in {"uint", "bool", "array", "u256", "bitvector"} -> TRUE
    [] t.k \in {"list", "bitlist"} -> FALSE
    [] t.k = "vector" -> IsFixed(t.of)
    [] t.k = "struct" -> \A i \in 1..Len(t.fields) : IsFixed(t.fields[i][2])

Sum(s) == FoldLeft(LAMBDA acc, x : acc + x, 0, s)

RECURSIVE FixedLen(_)
FixedLen(t) ==
  CASE t.k = "uint" -> LenUint
    [] t.k = "bool" -> 1
    [] t.k \in {"array", "u256"} -> t.len
    [] t.k = "bitvector" -> CeilDiv(t.len, 8)
    [] t.k = "vector" -> t.len * FixedLen(t.of)
    [] t.k = "struct" -> Sum([i \in 1..Len(t.fields) |-> FixedLen(t.fields[i][2])])

(* What a field takes in the fixed part: itself or an offset. *)
HeadLen(t) == IF IsFixed(t) THEN FixedLen(t) ELSE LenOffset

(* Start positions of consecutive parts of the given lengths. *)
Starts(base, lens) ==
  FoldLeft(LAMBDA acc, n : Append(acc, acc[Len(acc)] + n), <<base>>, lens)

(***************************************************************************)
(* Serialisation.                                                          *)
(***************************************************************************)
(* Parts with the flags that say which are of fixed size: the fixed parts  *)
(* and the offsets of the variable ones, counted from head, then the       *)
(* variable ones.                                                          *)
Join(fixed, parts, head) ==
  LET n == Len(parts)
      at == Starts(head, [i \in 1..n |-> IF fixed[i] THEN 0 ELSE Len(parts[i])])
  IN  FlattenSeq([i \in 1..n |-> IF fixed[i] THEN parts[i] ELSE LE(at[i], LenOffset)])
      \o FlattenSeq([i \in 1..n |-> IF fixed[i] THEN <<>> ELSE parts[i]])

RECURSIVE SszBytes(_, _)
SszItems(ts, vs) == Join(Seq1([i \in 1..Len(vs) |-> IsFixed(ts[i])]),
                         Seq1([i \in 1..Len(vs) |-> SszBytes(ts[i], vs[i])]),
                         Sum([i \in 1..Len(vs) |-> HeadLen(ts[i])]))
SszBytes(t, v) ==
  CASE t.k = "uint" -> LE(v, LenUint)
    [] t.k = "bool" -> IF v THEN <<1>> ELSE <<0>>
    [] t.k \in {"array", "u256"} -> v
    [] t.k = "bitvector" -> BytesOfBits(v, CeilDiv(t.len, 8))
    [] t.k = "bitlist" -> BytesOfBits(Append(v, 1), Len(v) \div 8 + 1)
    [] t.k \in {"vector", "list"} /\ t.of.k = "uint" -> v   \* LenUint = 1
    [] t.k \in {"vector", "list"} /\ t.of.k # "uint" -> SszItems([i \in 1..Len(v) |-> t.of], v)
    [] t.k = "struct" -> SszItems(FieldTypes(t), v)

(***************************************************************************)
(* Deserialisation, strict: every byte belongs to exactly one value.       *)
(***************************************************************************)
Offset(b, at) == FromLE(SubSeq(b, at + 1, at + LenOffset))

(* The parts between consecutive offsets, the last reaching to the end. *)
Slices(b, offs) ==
  Seq1([i \in 1..Len(offs) |->
          SubSeq(b, offs[i] + 1, IF i < Len(offs) THEN offs[i+1] ELSE Len(b))])

OffsetsInOrder(b, offs, first) ==
  /\ offs # <<>> => offs[1] = first
  /\ \A i \in 1..Len(offs) : offs[i] <= Len(b)
  /\ \A i \in 1..Len(offs)-1 : offs[i] <= offs[i+1]

Chunked(b, n) == Seq1([i \in 1..(Len(b) \div n) |-> SubSeq(b, (i-1)*n + 1, i*n)])

RECURSIVE SszValue(_, _)
(* max < 0: no limit (Vec<T>) *)
SszList(t, max, b) ==
  IF b = <<>> THEN Ok(<<>>)
  ELSE IF IsFixed(t)
  THEN LET n == FixedLen(t) IN
       IF Len(b) % n # 0 \/ (max >= 0 /\ Len(b) \div n > max) THEN Error
       ELSE IF t.k = "uint" THEN Ok(b)
       ELSE All(Seq1([i \in 1..(Len(b) \div n) |-> SszValue(t, Chunked(b, n)[i])]))
  ELSE IF Len(b) < LenOffset THEN Error
  ELSE LET first == Offset(b, 0)
           n == first \div LenOffset
       IN  IF first % LenOffset # 0 \/ first < LenOffset \/ first > Len(b)
              \/ (max >= 0 /\ n > max) THEN Error
           ELSE LET offs == Seq1([i \in 1..n |-> Offset(b, (i-1) * LenOffset)]) IN
                IF ~OffsetsInOrder(b, offs, first) THEN Error
                ELSE LET ps == Slices(b, offs)
                     IN  All(Seq1([i \in 1..n |-> SszValue(t, ps[i])]))

SszStruct(ts, b) ==
  LET n == Len(ts)
      at == Starts(0, [i \in 1..n |-> HeadLen(ts[i])])
      vars == SelectSeq([i \in 1..n |-> i], LAMBDA i : ~IsFixed(ts[i]))
      offs == Seq1([j \in 1..Len(vars) |-> Offset(b, at[vars[j]])])
  IN  IF Len(b) < at[n+1] \/ (vars = <<>> /\ Len(b) # at[n+1]) THEN Error
      ELSE IF ~OffsetsInOrder(b, offs, at[n+1]) THEN Error
      ELSE LET ps == Slices(b, offs)
               part(i) == IF IsFixed(ts[i]) THEN SubSeq(b, at[i] + 1, at[i+1])
                          ELSE ps[CHOOSE j \in 1..Len(vars) : vars[j] = i]
           IN  All(Seq1([i \in 1..n |-> SszValue(ts[i], part(i))]))

SszValue(t, b) ==
  CASE t.k = "uint" -> IF Len(b) = LenUint THEN Ok(FromLE(b)) ELSE Error
    [] t.k = "bool" -> IF b \in {<<0>>, <<1>>} THEN Ok(b = <<1>>) ELSE Error
    [] t.k \in {"array", "u256"} -> IF Len(b) = t.len THEN Ok(b) ELSE Error
    [] t.k = "bitvector" ->
         IF /\ Len(b) = CeilDiv(t.len, 8)
            /\ \A i \in t.len..(8 * Len(b) - 1) : BitOf(b, i) = 0
         THEN Ok(BitsOf(b, t.len)) ELSE Error
    [] t.k = "bitlist" ->
         IF b = <<>> THEN Error
         ELSE IF Last(b) = 0 THEN Error
         ELSE LET n == 8 * (Len(b) - 1) + TopBit(Last(b))
              IN  IF n > t.max THEN Error ELSE Ok(BitsOf(b, n))
    [] t.k = "vector" ->
         IF b # <<>> /\ IsFixed(t.of) /\ Len(b) = t.len * FixedLen(t.of)
         THEN SszList(t.of, -1, b) ELSE Error
    [] t.k = "list" -> SszList(t.of, t.max, b)
    [] t.k = "struct" -> SszStruct(FieldTypes(t), b)

(***************************************************************************)
(* Merkleisation.                                                          *)
(***************************************************************************)
Zero(d) == <<"zero", d>>
Node(l, r) == IF l[1] = "zero" /\ r = l THEN Zero(l[2] + 1) ELSE <<"node", l, r>>
Leaf(b) == IF \A i \in 1..Len(b) : b[i] = 0 THEN Zero(0)
           ELSE <<"chunk", b \o [i \in 1..(LenChunk - Len(b)) |-> 0]>>
Pack(b) == Seq1([i \in 1..CeilDiv(Len(b), LenChunk) |->
                   Leaf(SubSeq(b, (i-1)*LenChunk + 1, IF i*LenChunk < Len(b) THEN i*LenChunk ELSE Len(b)))])

RECURSIVE Depth(_)
Depth(n) == IF n <= 1 THEN 0 ELSE 1 + Depth(CeilDiv(n, 2))

RECURSIVE Merkle(_, _)
Merkle(leaves, d) ==
  CASE leaves = <<>> -> Zero(d)
    [] leaves # <<>> /\ d = 0 -> leaves[1]
    [] leaves # <<>> /\ d > 0 ->
         LET half == IF Len(leaves) < 2^(d-1) THEN Len(leaves) ELSE 2^(d-1)
         IN  Node(Merkle(SubSeq(leaves, 1, half), d - 1),
                  Merkle(SubSeq(leaves, half + 1, Len(leaves)), d - 1))

(* MerkleHasher: room for the next power of two of the leaves asked for. *)
MerkleHasher(leaves, max) ==
  IF Len(leaves) > 2^Depth(max) THEN Raise ELSE Ok(Merkle(leaves, Depth(max)))

MixInLength(root, n) == Node(root, Leaf(LE(n, LenChunk)))

RECURSIVE TreeRoot(_, _)
Roots(t, vs) == Seq1([i \in 1..Len(vs) |-> TreeRoot(t, vs[i])])
TreeRoot(t, v) ==
  CASE t.k = "uint" -> Leaf(LE(v, LenUint))
    [] t.k = "bool" -> Leaf(IF v THEN <<1>> ELSE <<0>>)
    [] t.k \in {"array", "u256"} -> Merkle(Pack(v), Depth(CeilDiv(t.len, LenChunk)))
    [] t.k = "bitvector" ->
         Merkle(Pack(BytesOfBits(v, CeilDiv(t.len, 8))), Depth(CeilDiv(t.len, 8 * LenChunk)))
    [] t.k = "bitlist" ->
         MixInLength(Merkle(Pack(BytesOfBits(v, CeilDiv(Len(v), 8))),
                            Depth(CeilDiv(t.max, 8 * LenChunk))), Len(v))
    [] t.k = "vector" ->
         IF t.of.k = "uint" THEN Merkle(Pack(v), Depth(CeilDiv(t.len, LenChunk)))
         ELSE Merkle(Roots(t.of, v), Depth(t.len))
    [] t.k = "list" ->
         MixInLength(IF t.of.k = "uint" THEN Merkle(Pack(v), Depth(CeilDiv(t.max, LenChunk)))
                     ELSE Merkle(Roots(t.of, v), Depth(t.max)), Len(v))
    [] t.k = "struct" ->
         LET ts == FieldTypes(t)
         IN  Merkle(Seq1([i \in 1..Len(ts) |-> TreeRoot(ts[i], v[i])]), Depth(Len(ts)))
==============================================================================

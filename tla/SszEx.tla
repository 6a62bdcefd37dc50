--------------------------------- MODULE SszEx ---------------------------------
(***************************************************************************)
(* The SSZ library written in Elixir (lib/ssz_ex): encode, decode and      *)
(* hash_tree_root over schemas. A call ends with {:ok, _}, {:error, _},    *)
(* an exception (Raise), or an error tuple of four elements (Malformed),   *)
(* which no caller matches.                                                *)
(***************************************************************************)
EXTENDS SszElixir

Malformed == <<"malformed", <<>>>>

(***************************************************************************)
(* The schemas of lib/types. They name the same fields with the same types *)
(* and limits as the native containers and are read off them: a binary is  *)
(* a byte_list or a byte_vector, a Uint256 an integer of 256 bits.         *)
(***************************************************************************)
RECURSIVE Schema(_, _)
Schema(e, t) ==
  CASE t.k = "uint" -> [k |-> "int", size |-> LenUint]
    [] t.k = "u256" -> [k |-> "int", size |-> Len32]
    [] t.k = "bool" -> [k |-> "bool"]
    [] t.k = "bitlist" -> [k |-> "bitlist", size |-> t.max]
    [] t.k = "bitvector" -> [k |-> "bitvector", size |-> t.len]
    [] t.k = "array" \/ (t.k = "vector" /\ e.k = "binary") -> [k |-> "byte_vector", size |-> t.len]
    [] t.k = "list" /\ e.k = "binary" -> [k |-> "byte_list", size |-> t.max]
    [] t.k = "vector" /\ e.k = "vec" -> [k |-> "vector", of |-> Schema(e.of, t.of), size |-> t.len]
    [] t.k = "list" /\ e.k = "vec" -> [k |-> "list", of |-> Schema(e.of, t.of), size |-> t.max]
    [] t.k = "struct" ->
         [k |-> "container", name |-> t.name, fields |->
            Seq1([i \in 1..Len(t.fields) |-> Schema(e.fields[t.fields[i][1]], t.fields[i][2])])]

(* The schemas by preset and name, computed once as well. *)
CONSTANT SchemasEx
ElixirSchemas ==
  LET schema(et) == Schema(et[1], et[2])
  IN  [c \in Configs |-> [s \in Schemas |-> schema(config_match(s, c))]]
ASSUME SchemasAssumption == SchemasEx = ElixirSchemas

SchemaOf(name, config) == SchemasEx[config][name]

RECURSIVE VariableSize(_)
VariableSize(s) ==
  CASE s.k \in {"int", "bool", "byte_vector", "bitvector"} -> FALSE
    [] s.k \in {"list", "byte_list", "bitlist"} -> TRUE
    [] s.k = "vector" -> VariableSize(s.of)
    [] s.k = "container" -> \E i \in 1..Len(s.fields) : VariableSize(s.fields[i])

RECURSIVE FixedSize(_)
FixedSize(s) ==
  CASE s.k \in {"int", "byte_vector"} -> s.size
    [] s.k = "bool" -> 1
    [] s.k = "bitvector" -> CeilDiv(s.size, 8)
    [] s.k = "vector" -> s.size * FixedSize(s.of)
    [] s.k = "container" -> Sum([i \in 1..Len(s.fields) |-> FixedSize(s.fields[i])])

FixedPart(s) == IF VariableSize(s) THEN LenOffset ELSE FixedSize(s)
IsBasic(s) == s.k \in {"int", "bool"}

(* flatten_results: an exception ends everything; a malformed tuple raises *)
(* when it is matched; the first error is the answer.                      *)
Flatten(rs) == IF \E i \in 1..Len(rs) : rs[i][1] \in {"raise", "malformed"} THEN Raise ELSE All(rs)

(***************************************************************************)
(* encode.ex                                                               *)
(***************************************************************************)
CheckLength(b) == IF Len(b) < 256^LenOffset THEN Ok(b) ELSE Error

RECURSIVE ExEncode(_, _)
ExEncode(x, s) ==
  CASE s.k = "int" -> Ok(LE(x[2] % 256^s.size, s.size))
    [] s.k = "bool" -> Ok(IF x[2] THEN <<1>> ELSE <<0>>)
    [] s.k \in {"byte_list", "byte_vector"} -> Ok(x[2])
    [] s.k = "bitlist" -> IF Len(x[2]) > s.size THEN Error ELSE Ok(BitListBytes(x[2]))
    [] s.k = "bitvector" -> IF Len(x[2]) # s.size THEN Error ELSE Ok(BitVectorBytes(x[2]))
    [] s.k \in {"list", "vector"} ->
         IF Len(x[2]) > s.size THEN Error
         ELSE LET n == Len(x[2])
                  parts == Flatten(Seq1([i \in 1..n |-> ExEncode(x[2][i], s.of)]))
                  var == VariableSize(s.of)
              IN  Then(parts, LAMBDA ps : IF var
                    THEN CheckLength(Join([i \in 1..n |-> FALSE], ps, n * LenOffset))
                    ELSE Ok(FlattenSeq(ps)))
    [] s.k = "container" ->
         LET n == Len(s.fields)
             parts == Flatten(Seq1([i \in 1..n |-> ExEncode(x[3][i], s.fields[i])]))
             fixed == Seq1([i \in 1..n |-> ~VariableSize(s.fields[i])])
         IN  Then(parts, LAMBDA ps :
               CheckLength(Join(fixed, ps, Sum([i \in 1..n |-> FixedPart(s.fields[i])]))))

(***************************************************************************)
(* decode.ex                                                               *)
(***************************************************************************)
(* :binary.part: a negative length reads backwards from the position. *)
Part(b, from, to) == IF from <= to THEN SubSeq(b, from + 1, to) ELSE SubSeq(b, to + 1, from)

\* Variant: an empty part is taken for an overlap.
sanitize_offset_strict(offset, previous, num_bytes) == offset <= num_bytes /\ previous < offset
(* Offsets of a container's parts: in order and inside the binary. *)
sanitize_offset(offset, previous, num_bytes) == offset <= num_bytes /\ previous <= offset

RECURSIVE ExDecode(_, _)

(* The elements of a list of variable-size elements. The offset table may  *)
(* be cut off, an offset may point before the first or beyond the end:     *)
(* each of them raises. A decreasing offset is not noticed.                *)
DecodeVariableList(b, s) ==
  IF b = <<>> THEN Ok(Lst(<<>>))
  ELSE IF Len(b) < LenOffset THEN Raise
  ELSE LET first == Offset(b, 0)
           n == first \div LenOffset
       IN  IF n > s.size \/ first % LenOffset # 0 \/ first < LenOffset THEN Error
           ELSE IF first > Len(b) THEN Raise
           ELSE LET offs == Seq1([i \in 1..n |-> Offset(b, (i-1) * LenOffset)]) IN
                IF \E i \in 1..n : offs[i] < first \/ offs[i] > Len(b) THEN Raise
                ELSE Then(Flatten(Seq1([i \in 1..n |->
                            ExDecode(Part(b, offs[i], IF i < n THEN offs[i+1] ELSE Len(b)), s.of)])),
                          LAMBDA xs : Ok(Lst(xs)))

DecodeFixedCollection(b, s) ==
  LET n == FixedSize(s.of)
      rs == Seq1([i \in 1..(Len(b) \div n) |-> ExDecode(Chunked(b, n)[i], s.of)])
  IN  Then(Flatten(IF Len(b) % n = 0 THEN rs ELSE Append(rs, Error)), LAMBDA xs : Ok(Lst(xs)))

(* The fixed section gives its error in a tuple of four. *)
DecodeContainer(b, s) ==
  LET n == Len(s.fields)
      at == Starts(0, [i \in 1..n |-> FixedPart(s.fields[i])])
      vars == SelectSeq([i \in 1..n |-> i], LAMBDA i : VariableSize(s.fields[i]))
      fixs == SelectSeq([i \in 1..n |-> i], LAMBDA i : ~VariableSize(s.fields[i]))
      m == Len(vars)
  IN  IF Len(b) < at[n+1] \/ (m = 0 /\ Len(b) # at[n+1]) THEN Error
      ELSE
      LET offs == Seq1([j \in 1..m |-> Offset(b, at[vars[j]])])
          fix == Flatten(Seq1([j \in 1..Len(fixs) |->
                   ExDecode(SubSeq(b, at[fixs[j]] + 1, at[fixs[j] + 1]), s.fields[fixs[j]])]))
          bad == {j \in 1..(m-1) : ~sanitize_offset(offs[j+1], offs[j], Len(b))}
          good == IF bad = {} THEN m ELSE (CHOOSE j \in bad : \A k \in bad : j <= k) - 1
          var == Flatten(Seq1([j \in 1..good |->
                   ExDecode(Part(b, offs[j], IF j < m THEN offs[j+1] ELSE Len(b)), s.fields[vars[j]])]))
          value(i) == IF VariableSize(s.fields[i]) THEN var[2][CHOOSE j \in 1..m : vars[j] = i]
                      ELSE fix[2][CHOOSE j \in 1..Len(fixs) : fixs[j] = i]
      IN  CASE fix[1] = "raise" -> Raise
            [] fix[1] = "error" -> Malformed
            [] IsOk(fix) /\ m > 0 /\ offs[1] # at[n+1] -> Error
            [] IsOk(fix) /\ (m = 0 \/ offs[1] = at[n+1]) ->
                 IF ~IsOk(var) THEN var
                 ELSE IF bad # {} THEN Error
                 ELSE Ok(Map(s.name, Seq1([i \in 1..n |-> value(i)])))

\* Variant: the lists of a state are left as lists.
DecodeExLists(x, config) == x
(* BeaconState.decode_ex *)
DecodeEx(x, config) ==
  IF x[2] # "BeaconState" THEN x
  ELSE LET ns == Names("BeaconState", config)
           aja(i) == ns[i] \in DOMAIN Converts.BeaconState /\ Converts.BeaconState[ns[i]] = "aja"
       IN  Map(x[2], Seq1([i \in 1..Len(ns) |-> IF aja(i) THEN Aja(x[3][i][2]) ELSE x[3][i]]))

ExDecode(b, s) ==
  CASE s.k = "int" -> IF Len(b) = s.size THEN Ok(Num(FromLE(b))) ELSE Error
    [] s.k = "bool" -> IF b \in {<<0>>, <<1>>} THEN Ok(Boolean(b = <<1>>)) ELSE Error
    [] s.k \in {"byte_list", "byte_vector"} -> Ok(Bin(b))
    [] s.k = "bitlist" ->
         IF b = <<>> THEN Error
         ELSE IF Last(b) = 0 \/ Len(BitListNew(b)) > s.size THEN Error
         ELSE Ok(Bits(BitListNew(b)))
    [] s.k = "bitvector" ->
         IF /\ Len(b) = CeilDiv(s.size, 8)
            /\ \A i \in s.size..(8 * Len(b) - 1) : BitOf(b, i) = 0
         THEN Ok(Bits(BitsOf(b, s.size))) ELSE Error
    [] s.k \in {"list", "vector"} /\ VariableSize(s.of) -> DecodeVariableList(b, s)
    [] s.k = "list" /\ ~VariableSize(s.of) ->
         IF CeilDiv(Len(b), FixedSize(s.of)) > s.size THEN Error ELSE DecodeFixedCollection(b, s)
    [] s.k = "vector" /\ ~VariableSize(s.of) ->
         IF Len(b) # FixedSize(s.of) * s.size \/ b = <<>> THEN Error ELSE DecodeFixedCollection(b, s)
    [] s.k = "container" -> DecodeContainer(b, s)

(***************************************************************************)
(* merkleization.ex                                                        *)
(***************************************************************************)
RECURSIVE FloorLog2(_)
FloorLog2(n) == IF n < 2 THEN 0 ELSE 1 + FloorLog2(n \div 2)
\* Variant: the power of two below.
PreviousPowOfTwo(n) == IF n = 0 THEN 0 ELSE 2^FloorLog2(n)
NextPowOfTwo(n) == IF n = 0 THEN 0 ELSE 2^FloorLog2(2 * n - 1)

RECURSIVE Layers(_, _, _)
Layers(layer, d, height) ==
  IF d = height THEN layer[1]
  ELSE Layers(Seq1([i \in 1..CeilDiv(Len(layer), 2) |->
                 Node(layer[2*i - 1], IF 2*i <= Len(layer) THEN layer[2*i] ELSE Zero(d))]),
              d + 1, height)

(* leaf_count is taken as a power of two; what does not fit is left out of *)
(* the root, and raises when there is room for one chunk only.             *)
MerkleizeVirtual(chunks, leaf_count) ==
  LET power == FloorLog2(leaf_count)
  IN  CASE chunks = <<>> -> Ok(Zero(power))
        [] Len(chunks) = 1 /\ leaf_count = 1 -> Ok(chunks[1])
        [] Len(chunks) > 1 /\ power = 0 -> Raise
        [] chunks # <<>> /\ power > 0 -> Ok(Layers(chunks, 0, power))

MixIn(r, n) == Then(r, LAMBDA root : Ok(Node(root, Leaf(LE(n, LenChunk)))))

RECURSIVE ExRoot(_, _)
ExRoots(xs, s) == Flatten(Seq1([i \in 1..Len(xs) |-> ExRoot(xs[i], s)]))
PackItems(xs, s) == Pack(FlattenSeq([i \in 1..Len(xs) |-> ExEncode(xs[i], s)[2]]))
Chunks(xs, s) == IF IsBasic(s) THEN Ok(PackItems(xs, s)) ELSE ExRoots(xs, s)
ExRoot(x, s) ==
  CASE IsBasic(s) -> Ok(Leaf(ExEncode(x, s)[2]))
    [] s.k = "byte_list" ->
         MixIn(MerkleizeVirtual(Pack(x[2]), CeilDiv(s.size, LenChunk)), Len(x[2]))
    [] s.k = "byte_vector" ->
         IF Len(x[2]) # s.size THEN Error
         ELSE MerkleizeVirtual(Pack(x[2]), NextPowOfTwo(Len(Pack(x[2]))))
    [] s.k = "bitvector" ->
         MerkleizeVirtual(Pack(BitVectorBytes(x[2])), NextPowOfTwo(CeilDiv(s.size, 8 * LenChunk)))
    [] s.k = "bitlist" ->          \* to_packed_bytes always ends with a partial byte
         MixIn(MerkleizeVirtual(Pack(BytesOfBits(x[2], Len(x[2]) \div 8 + 1)),
                                NextPowOfTwo(CeilDiv(s.size, 8 * LenChunk))), Len(x[2]))
    [] s.k = "list" ->
         IF Len(x[2]) > s.size THEN Error
         ELSE MixIn(Then(Chunks(x[2], s.of), LAMBDA cs : MerkleizeVirtual(cs,
                      IF IsBasic(s.of) THEN CeilDiv(s.size * FixedSize(s.of), LenChunk) ELSE s.size)),
                    Len(x[2]))
    [] s.k = "vector" ->
         IF Len(x[2]) # s.size THEN Error
         ELSE Then(Chunks(x[2], s.of), LAMBDA cs : MerkleizeVirtual(cs, NextPowOfTwo(Len(cs))))
    [] s.k = "container" ->
         Then(Flatten(Seq1([i \in 1..Len(s.fields) |-> ExRoot(x[3][i], s.fields[i])])),
              LAMBDA cs : MerkleizeVirtual(cs, NextPowOfTwo(Len(cs))))

(* The public functions, with the schema of a container by name. *)
ex_encode(x, name, config) == ExEncode(x, SchemaOf(name, config))
ex_decode(b, name, config) ==
  Then(ExDecode(b, SchemaOf(name, config)),
       LAMBDA x : Ok(IF x[1] = "struct" THEN DecodeEx(x, config) ELSE x))
ex_hash_tree_root(x, name, config) == ExRoot(x, SchemaOf(name, config))
==============================================================================

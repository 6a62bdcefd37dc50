------------------------------- MODULE MCCodec -------------------------------
(***************************************************************************)
(* Codec on every container of the native library but BlobSidecar, whose   *)
(* blob is too long: all with the minimal preset, the ones that depend on  *)
(* a preset and are small enough with the two others. Four samples of      *)
(* each: everything empty or zero, lists of up to two distinct elements,   *)
(* lists of up to four, and lists one over their limit.                    *)
(***************************************************************************)
EXTENDS Codec

CONSTANTS Small, Medium, MaxAltered

(* The number of elements of a list with limit max in sample k. *)
Count(k, max) ==
  LET n == CASE k = 0 -> 0 [] k = 1 -> 2 [] k = 2 -> 4
             [] k = 3 -> IF max < 5 THEN max + 1 ELSE 1
  IN  IF k # 3 /\ n > max THEN max ELSE n

Number(k, i) == IF k = 0 THEN 0 ELSE (200 * k + i) % 256
Bytes(k, n) == Seq1([i \in 1..n |-> Number(k, i)])
BitField(k, n) == Seq1([i \in 1..n |-> IF k = 0 \/ i % (k + 1) # 0 THEN 0 ELSE 1])
BitCount(k, max) == LET n == CASE k = 0 -> 0 [] k = 1 -> 3 [] k = 2 -> 8 [] k = 3 -> 9
                    IN  IF n > max THEN max ELSE n

(* As Elixir holds it; an inner element i of a list is told from the next. *)
RECURSIVE ElixirTerm(_, _, _, _, _)
ElixirTerm(e, t, k, i, how) ==
  CASE how = "aja" -> Aja(ElixirTerm(e, t, k, i, "list")[2])
    [] t.k = "uint" -> Num(Number(k, i))
    [] t.k = "bool" -> Boolean(k # 0 /\ i % 2 = 0)
    [] t.k = "u256" -> Num(FromLE(Bytes(k, t.len)))
    [] t.k = "bitlist" -> Bits(BitField(k, BitCount(k, t.max)))
    [] t.k = "bitvector" -> Bits(BitField(k, t.len))
    [] t.k = "array" \/ (t.k = "vector" /\ e.k = "binary") ->
         Bin(Seq1([j \in 1..t.len |-> Number(k, i + j)]))
    [] t.k = "list" /\ e.k = "binary" ->
         Bin(Seq1([j \in 1..Count(k, t.max) |-> Number(k, i + j)]))
    [] e.k = "vec" /\ how # "aja" ->
         Lst(Seq1([j \in 1..(IF t.k = "list" THEN Count(k, t.max) ELSE t.len) |->
                     ElixirTerm(e.of, t.of, k, i + j, "")]))
    [] t.k = "struct" ->
         LET field(j) == t.fields[j][1]
             aja(j) == /\ t.name = "BeaconState" /\ field(j) \in DOMAIN Converts.BeaconState
                       /\ Converts.BeaconState[field(j)] = "aja"
         IN  Map(t.name, Seq1([j \in 1..Len(t.fields) |->
               ElixirTerm(e.fields[field(j)], t.fields[j][2], k, i + j, IF aja(j) THEN "aja" ELSE "")]))

RECURSIVE RawValue(_, _, _)
RawValue(t, k, i) ==
  CASE t.k = "uint" -> Number(k, i)
    [] t.k = "bool" -> k # 0 /\ i % 2 = 0
    [] t.k = "u256" -> Bytes(k, t.len)
    [] t.k = "bitlist" -> BitField(k, BitCount(k, t.max))
    [] t.k = "bitvector" -> BitField(k, t.len)
    [] t.k = "array" -> Seq1([j \in 1..t.len |-> Number(k, i + j)])
    [] t.k \in {"vector", "list"} ->
         Seq1([j \in 1..(IF t.k = "list" THEN Count(k, t.max) ELSE t.len) |-> RawValue(t.of, k, i + j)])
    [] t.k = "struct" ->
         Seq1([j \in 1..Len(t.fields) |-> RawValue(t.fields[j][2], k, i + j)])

MCTerm(o) == LET et == config_match(o.schema, o.config)
             IN  ElixirTerm(et[1], et[2], o.sample, 0, "")
MCRaw(o) == RawValue(config_match(o.schema, o.config)[2], o.sample, 0)

RECURSIVE HasShortList(_)
HasShortList(t) ==
  \/ t.k = "list" /\ (t.max < 5 \/ HasShortList(t.of))
  \/ t.k = "vector" /\ HasShortList(t.of)
  \/ t.k = "struct" /\ \E i \in 1..Len(t.fields) : HasShortList(t.fields[i][2])
ShortLists == {s \in Schemas : HasShortList(Containers.minimal[s][2])}

MCOverLimit(o) == o.sample = 3

(* Shortened, lengthened, or one byte changed, near either end. *)
MCAltered(b) ==
  {SubSeq(b, 1, Len(b) - 1), Append(b, 0), Append(b, 1)}
  \cup {[b EXCEPT ![i] = v] : i \in {i \in 1..Len(b) : i <= MaxAltered \/ i > Len(b) - MaxAltered},
                              v \in {0, 2}}
  \cup {[b EXCEPT ![i] = (@ + d) % 256] :
          i \in {i \in 1..Len(b) : i <= MaxAltered \/ i > Len(b) - MaxAltered}, d \in {1, 255}}

MCObjects ==
  [schema : Small, config : Configs \ {"minimal"}, sample : {1}]
  \cup [schema : Small \cup Medium, config : {"minimal"}, sample : {0, 1, 2}]
  \cup [schema : (Small \cup Medium) \cap ShortLists, config : {"minimal"}, sample : {3}]
==============================================================================

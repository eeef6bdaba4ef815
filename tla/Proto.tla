------------------------------- MODULE Proto -------------------------------
(***************************************************************************)
(* Marshal, Size and Unmarshal of boxd's generated message code: an        *)
(* interpretation of the tables of the *Pb modules that does, field by     *)
(* field, what the generated statements do.                                *)
(***************************************************************************)
EXTENDS Wire

Core == INSTANCE CorePb
Sync == INSTANCE SyncPb
Consensus == INSTANCE BposPb
P2p == INSTANCE P2pPb
RpcTransaction == INSTANCE RpcTransactionPb
RpcWeb == INSTANCE RpcWebPb
RpcControl == INSTANCE RpcControlPb

Schema ==
    Core!Messages @@ Sync!Messages @@ Consensus!Messages @@ P2p!Messages
        @@ RpcTransaction!Messages @@ RpcWeb!Messages @@ RpcControl!Messages

TypeOf(kind) == Schema[kind.name]

-----------------------------------------------------------------------------
(* MarshalTo. *)

Prefixed(bytes) == EncodeVarint(Digits(Len(bytes))) \o bytes
Concat(seqs) == FoldLeft(LAMBDA acc, s : acc \o s, <<>>, seqs)
Map(Op(_), s) == [i \in 1..Len(s) |-> Op(s[i])]

PutNumber(kind, x) == EncodeVarint(AsUint64(kind, x))

(* The elements of a field that is set: a number or bytes stand for themselves, *)
(* an optional message and a repeated field are sequences.                      *)
Elements(entry, x) == IF entry.form = "one" /\ ~IsMessage(entry.kind) THEN <<x>> ELSE x

RECURSIVE MarshalTo(_, _), PutField(_, _), PutElement(_, _)

(* One element after its key: a number, a length and bytes, a nested message. *)
PutElement(kind, x) ==
    IF IsNumber(kind) THEN PutNumber(kind, x)
    ELSE IF kind = Bool THEN <<1>>
    ELSE IF kind = Bytes THEN Prefixed(x)
    ELSE Prefixed(MarshalTo(TypeOf(kind).marshal, x))

(***************************************************************************)
(* The bytes of a field with value x.  A number that is zero, bytes that   *)
(* are empty, a false Boolean, a nil message and an empty repeated field   *)
(* are not written; every element of a repeated field is.                  *)
(***************************************************************************)
PutField(p, x) ==
    IF x = <<>> THEN <<>>
    ELSE IF p.form = "oneof" THEN MarshalTo(p.wrappers[x[1]], x[1] :> <<x[2]>>)
    ELSE LET key == EncodeVarint(Digits(p.key))
         IN IF p.form = "packed"
              THEN key \o Prefixed(Concat(Map(LAMBDA e : PutNumber(p.kind, e), x)))
              ELSE Concat(Map(LAMBDA e : key \o PutElement(p.kind, e), Elements(p, x)))

MarshalTo(table, v) == Concat(Map(LAMBDA p : PutField(p, v[p.field]), table))

-----------------------------------------------------------------------------
(* Size. *)

Total(s) == FoldLeft(LAMBDA acc, x : acc + x, 0, s)
WithLength(l) == l + Sov(Digits(l))

AddNumber(kind, x) == Sov(AsUint64(kind, x))

RECURSIVE SizeOf(_, _), AddField(_, _), AddElement(_, _)

AddElement(kind, x) ==
    IF IsNumber(kind) THEN AddNumber(kind, x)
    ELSE IF kind = Bool THEN 1
    ELSE IF kind = Bytes THEN WithLength(Len(x))
    ELSE WithLength(SizeOf(TypeOf(kind).size, x))

AddField(a, x) ==
    IF x = <<>> THEN 0
    ELSE IF a.form = "oneof" THEN SizeOf(a.wrappers[x[1]], x[1] :> <<x[2]>>)
    ELSE IF a.form = "packed"
      THEN a.tag + WithLength(Total(Map(LAMBDA e : AddNumber(a.kind, e), x)))
      ELSE Total(Map(LAMBDA e : a.tag + AddElement(a.kind, e), Elements(a, x)))

SizeOf(table, v) == Total(Map(LAMBDA a : AddField(a, v[a.field]), table))

(***************************************************************************)
(* Marshal allocates Size() bytes, has MarshalTo fill them, from the end   *)
(* in the newer generator and from the start in the older one, and returns *)
(* as many bytes from the start as MarshalTo says it wrote.  A buffer too  *)
(* short is an index out of range; one too long, filled from the end,      *)
(* loses its tail.                                                         *)
(***************************************************************************)
Filled(size, body, backward) ==
    IF size < Len(body) THEN <<>>
    ELSE IF backward THEN <<SubSeq([i \in 1..(size - Len(body)) |-> 0] \o body, 1, Len(body))>>
    ELSE <<body>>
MarshalBuffer(type, v) ==
    Filled(SizeOf(type.size, v), MarshalTo(type.marshal, v), type.backward)

-----------------------------------------------------------------------------
(* Unmarshal. *)

(* A number read from position i, and the position after it. *)
GetNumber(kind, b, i) ==
    OnSuccess(ReadVarint(b, i), LAMBDA n : <<Narrow(kind, n[1]), n[2]>>)

(* The numbers of a packed field that start before the end of its announced   *)
(* bytes, and the position after them: the last number may end behind that.   *)
RECURSIVE GetPackedFrom(_, _, _, _, _)
GetPackedFrom(kind, b, i, end, acc) ==
    IF i >= end THEN <<acc, i>>
    ELSE OnSuccess(GetNumber(kind, b, i),
                   LAMBDA r : GetPackedFrom(kind, b, r[2], end, Append(acc, r[1])))

RECURSIVE Unmarshal(_, _, _, _), UnmarshalField(_, _, _, _, _), GetField(_, _, _, _, _),
          GetElement(_, _, _, _)

(***************************************************************************)
(* One element read from position i, and the position after it.  A nested  *)
(* message is decoded over the one of "over", if there is one.             *)
(***************************************************************************)
UnmarshalOver(type, b, over) ==
    Unmarshal(type, b, 1, IF over = <<>> THEN ZeroMessage(type) ELSE over[1])
GetElement(kind, b, i, over) ==
    IF IsNumber(kind) \/ kind = Bool THEN GetNumber(kind, b, i)
    ELSE OnSuccess(ReadLength(b, i), LAMBDA range :
            LET bytes == SubSeq(b, range[1], range[2] - 1)
            IN IF kind = Bytes THEN <<bytes, range[2]>>
               ELSE OnSuccess(UnmarshalOver(TypeOf(kind), bytes, over),
                              LAMBDA m : <<m[1], range[2]>>))

(***************************************************************************)
(* The case of the switch for one field whose key has been read: the new   *)
(* value of the field and the position after it.  An optional message that *)
(* occurs again is decoded over the first; a oneof is replaced.            *)
(***************************************************************************)
GetField(g, wireType, b, i, old) ==
    IF g.form = "packed" /\ wireType = 2
      THEN OnSuccess(ReadLength(b, i), LAMBDA range :
             GetPackedFrom(g.kind, b, range[1], range[2], old))
    ELSE IF wireType # g.wire THEN <<>>
    ELSE OnSuccess(GetElement(g.kind, b, i, IF g.form = "one" THEN old ELSE <<>>), LAMBDA r :
           <<CASE g.form \in {"each", "packed"} -> Append(old, r[1])
               [] g.form = "oneof" -> <<g.wrapper, r[1]>>
               [] g.form = "one" -> IF IsMessage(g.kind) THEN <<r[1]>> ELSE r[1],
             r[2]>>)

(* One turn of the loop of Unmarshal, and the rest: the key at position i has *)
(* been read, a field no case is for is skipped.                              *)
UnmarshalField(type, b, i, m, key) ==
    LET number == ToNat(key[1]) \div 8
        wireType == ToNat(key[1]) % 8
        at == {k \in DOMAIN type.unmarshal : type.unmarshal[k].number = number}
        g == type.unmarshal[CHOOSE k \in at : TRUE]
    IN IF wireType = 4 \/ number = 0 THEN <<>>
       ELSE IF at = {} THEN OnSuccess(Skip(b, i), LAMBDA next :
              IF next[1] > Len(b) + 1 THEN <<>> ELSE Unmarshal(type, b, next[1], m))
       ELSE OnSuccess(GetField(g, wireType, b, key[2], m[g.field]), LAMBDA r :
              Unmarshal(type, b, r[2], [m EXCEPT ![g.field] = r[1]]))

(* The loop of Unmarshal from position i, the fields read so far in m. *)
Unmarshal(type, b, i, m) ==
    IF i > Len(b) THEN <<m>>
    ELSE OnSuccess(ReadVarint(b, i), LAMBDA key : UnmarshalField(type, b, i, m, key))

(* Unmarshal into a new message. *)
Decoded(type, b) == UnmarshalOver(type, b, <<>>)

=============================================================================

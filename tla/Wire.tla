-------------------------------- MODULE Wire --------------------------------
(***************************************************************************)
(* The wire format under boxd's generated message code (the *.pb.go        *)
(* files): variable-length integers, the skipping of fields a message does *)
(* not know, and the vocabulary in which the message modules write down    *)
(* what each generated Marshal, Size and Unmarshal does.                   *)
(*                                                                         *)
(* A number is the sequence of its base-128 digits, lowest first and       *)
(* without leading zeros, so that 64-bit values keep their width and zero  *)
(* is <<>>.  A 32-bit (64-bit) signed number is its two's complement.      *)
(* Bytes and strings are sequences of 0..255, a Boolean is <<>> or <<1>>,  *)
(* an optional message is <<>> or <<m>>, a repeated field is the sequence  *)
(* of its elements: the zero value of every field is <<>>.                 *)
(*                                                                         *)
(* The module is evaluated by TLC only; it declares RECURSIVE operators.   *)
(***************************************************************************)
EXTENDS Naturals, Sequences, SequencesExt

(***************************************************************************)
(* The types of fields.  A message type is what its three generated        *)
(* functions do, one entry for each block of their code:                   *)
(*   MarshalTo: the key it writes, the field and the field's type;         *)
(*   Size: the number of key bytes it counts, the field and its type;      *)
(*   Unmarshal: the field number of the case, the wire type it demands,    *)
(*     the field it sets and the field's type.                             *)
(* "Each" is a repeated field, "Packed" one whose numbers share one        *)
(* length, "Oneof" a field that holds one of several wrapped messages.  A  *)
(* field that holds a message names the message's type.                    *)
(***************************************************************************)
Int32 == [type |-> "int32"]
Uint32 == [type |-> "uint32"]
Int64 == [type |-> "int64"]
Uint64 == [type |-> "uint64"]
Bool == [type |-> "bool"]
Bytes == [type |-> "bytes"]
Message(t) == [type |-> "message", name |-> t]

Put(key, field, kind) == [form |-> "one", key |-> key, field |-> field, kind |-> kind]
PutEach(key, field, kind) == [form |-> "each", key |-> key, field |-> field, kind |-> kind]
PutPacked(key, field, kind) == [form |-> "packed", key |-> key, field |-> field, kind |-> kind]
PutOneof(field, wrappers) == [form |-> "oneof", field |-> field, wrappers |-> wrappers]

Add(tag, field, kind) == [form |-> "one", tag |-> tag, field |-> field, kind |-> kind]
AddEach(tag, field, kind) == [form |-> "each", tag |-> tag, field |-> field, kind |-> kind]
AddPacked(tag, field, kind) == [form |-> "packed", tag |-> tag, field |-> field, kind |-> kind]
AddOneof(field, wrappers) == [form |-> "oneof", field |-> field, wrappers |-> wrappers]

Get(number, wire, field, kind) ==
    [form |-> "one", number |-> number, wire |-> wire, field |-> field, kind |-> kind]
GetEach(number, wire, field, kind) ==
    [form |-> "each", number |-> number, wire |-> wire, field |-> field, kind |-> kind]
GetPacked(number, wire, field, kind) ==
    [form |-> "packed", number |-> number, wire |-> wire, field |-> field, kind |-> kind]
GetOneof(number, wire, field, wrapper, kind) ==
    [form |-> "oneof", number |-> number, wire |-> wire, field |-> field,
     wrapper |-> wrapper, kind |-> kind]

(* MarshalTo fills its buffer from the end (newer generator) or the start. *)
MessageType(m, s, u, backward) ==
    LET named(table) == {table[i].field : i \in DOMAIN table}
    IN [marshal |-> m, size |-> s, unmarshal |-> u, backward |-> backward,
        fields |-> named(m) \cup named(s) \cup named(u)]
Backward(m, s, u) == MessageType(m, s, u, TRUE)
Forward(m, s, u) == MessageType(m, s, u, FALSE)

IsMessage(kind) == kind.type = "message"
IsNumber(kind) == kind.type \in {"int32", "uint32", "int64", "uint64"}
ZeroMessage(type) == [f \in type.fields |-> <<>>]

(***************************************************************************)
(* A function that can fail returns <<>> for an error.  OnSuccess is the   *)
(* caller's  if err != nil { return err }  and what follows it.            *)
(***************************************************************************)
OnSuccess(result, Op(_)) == IF result = <<>> THEN <<>> ELSE Op(result)

-----------------------------------------------------------------------------
(* Numbers. *)

RECURSIVE Digits(_)
Digits(k) == IF k = 0 THEN <<>> ELSE <<k % 128>> \o Digits(k \div 128)

RECURSIVE Normal(_)
Normal(d) == IF d # <<>> /\ Last(d) = 0 THEN Normal(Front(d)) ELSE d

(* The value of a number of at most four digits, enough for keys and lengths. *)
ToNat(d) == FoldRight(LAMBDA x, acc : x + 128 * acc, d, 0)

(* Go's conversion uint64(x) of a field: an int32 is sign-extended. *)
AsUint64(kind, d) ==
    IF kind.type = "int32" /\ Len(d) = 5 /\ d[5] >= 8
      THEN [i \in 1..10 |-> IF i < 5 THEN d[i] ELSE
                            IF i = 5 THEN d[5] + 112 ELSE
                            IF i < 10 THEN 127 ELSE 1]
      ELSE d

(* The bits a loop  x |= T(b & 0x7F) << shift  keeps in a T. *)
Narrow(kind, d) ==
    CASE kind.type \in {"int32", "uint32"} ->
            Normal([i \in 1..(IF Len(d) > 5 THEN 5 ELSE Len(d)) |->
                        IF i = 5 THEN d[5] % 16 ELSE d[i]])
      [] kind.type = "bool" -> IF d = <<>> THEN <<>> ELSE <<1>>
      [] OTHER -> d

EncodeVarint(d) ==
    IF d = <<>> THEN <<0>>
    ELSE [i \in 1..Len(d) |-> IF i < Len(d) THEN d[i] + 128 ELSE d[i]]

Sov(d) == IF d = <<>> THEN 1 ELSE Len(d)

(***************************************************************************)
(* The loop that reads a variable-length integer of b from position i:     *)
(* <<>> when the input ends first or the tenth byte is not the last,       *)
(* otherwise <<the number, the position after it>>.                        *)
(***************************************************************************)
ReadVarint(b, i) ==
    LET ends == {j \in i..Len(b) : j < i + 10 /\ b[j] < 128}
        upTo(e) == <<Normal([k \in 1..(e - i + 1) |->
                                IF k = 10 THEN b[i + 9] % 2 ELSE b[i + k - 1] % 128]),
                     e + 1>>
    IN IF ends = {} THEN <<>> ELSE upTo(CHOOSE j \in ends : \A k \in ends : j <= k)

(* A plausible error: the announced bytes are cut at the end of the input. *)
ReadLengthClipped(b, i) ==
    LET n == ReadVarint(b, i)
        end == n[2] + ToNat(n[1])
    IN IF n = <<>> THEN <<>>
       ELSE <<n[2], IF end > Len(b) + 1 THEN Len(b) + 1 ELSE end>>

(* A length and the position after the bytes it announces, which the input   *)
(* must contain.  A length of more than four digits is longer than any input.*)
ReadLength(b, i) ==
    OnSuccess(ReadVarint(b, i), LAMBDA n :
        IF Len(n[1]) > 4 THEN <<>>
        ELSE IF n[2] + ToNat(n[1]) > Len(b) + 1 THEN <<>>
        ELSE <<n[2], n[2] + ToNat(n[1])>>)

(***************************************************************************)
(* skipBlock: the position after the field whose key is at position i,     *)
(* <<>> for an error.  The result may lie behind the end of the input; the *)
(* caller checks.                                                          *)
(***************************************************************************)
WireType(key) == ToNat(SubSeq(key[1], 1, 1)) % 8

RECURSIVE Skip(_, _), SkipGroup(_, _)
Skip(b, i) ==
    OnSuccess(ReadVarint(b, i), LAMBDA key :
        LET wireType == WireType(key)
            j == key[2]
        IN CASE wireType = 0 -> OnSuccess(ReadVarint(b, j), LAMBDA n : <<n[2]>>)
             [] wireType = 1 -> <<j + 8>>
             [] wireType = 2 -> OnSuccess(ReadVarint(b, j), LAMBDA n :
                                    IF Len(n[1]) > 4 THEN <<>> ELSE <<n[2] + ToNat(n[1])>>)
             [] wireType = 3 -> SkipGroup(b, j)
             [] wireType = 4 -> <<j>>
             [] wireType = 5 -> <<j + 4>>
             [] OTHER -> <<>>)

(* A plausible error: a group is taken to hold one field. *)
SkipGroupOfOne(b, i) == Skip(b, i)

(* The fields of a group, up to and with the key that closes it. *)
SkipGroup(b, i) ==
    OnSuccess(ReadVarint(b, i), LAMBDA inner :
        IF WireType(inner) = 4 THEN <<inner[2]>>
        ELSE OnSuccess(Skip(b, i), LAMBDA next : SkipGroup(b, next[1])))

=============================================================================

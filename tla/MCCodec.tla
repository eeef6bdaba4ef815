------------------------------ MODULE MCCodec ------------------------------
(* Sample values for Codec: every message of every package, each field on   *)
(* its own with the values at the edges of its type, and all fields at once. *)
EXTENDS Codec

Ones(k) == [i \in 1..k |-> 127]

(* Small, one byte, two bytes, the largest (or -1), the smallest signed. *)
ScalarSamples(kind) ==
    CASE kind \in {Int32, Uint32} ->
            {<<1>>, <<127>>, <<0, 1>>, Append(Ones(4), 15), <<0, 0, 0, 0, 8>>}
      [] kind \in {Int64, Uint64} ->
            {<<1>>, <<0, 1>>, Append(Ones(4), 16), Append(Ones(9), 1)}
      [] kind = Bool -> {<<1>>}
      [] kind = Bytes -> {<<0>>, <<200, 3>>, [i \in 1..130 |-> i]}

Typical(kind) ==
    CASE kind = Int32 -> <<0, 0, 0, 0, 8>>
      [] kind = Uint32 -> <<44, 2>>
      [] kind = Int64 -> Append(Ones(9), 1)
      [] kind = Uint64 -> <<0, 0, 1>>
      [] kind = Bool -> <<1>>
      [] kind = Bytes -> <<7, 255>>

(* A message with its plain fields set and its nested messages nil. *)
Flat(type) ==
    [f \in type.fields |->
       LET p == type.marshal[CHOOSE k \in DOMAIN type.marshal : type.marshal[k].field = f]
       IN IF p.form = "oneof" THEN <<>>
          ELSE IF IsMessage(p.kind) THEN <<>>
          ELSE IF p.form = "one" THEN Typical(p.kind) ELSE <<Typical(p.kind)>>]

Element(kind) == IF IsMessage(kind) THEN Flat(TypeOf(kind)) ELSE Typical(kind)
Empty(kind) == IF IsMessage(kind) THEN ZeroMessage(TypeOf(kind)) ELSE <<>>
Alternatives(p) == {<<w, Flat(TypeOf(p.wrappers[w][1].kind))>> : w \in DOMAIN p.wrappers}

Occurrences(form, zero, some) ==
    IF form = "one" THEN {<<zero>>, <<some>>} ELSE {<<zero>>, <<some, zero, some>>}
FieldSamples(p) ==
    IF p.form = "oneof" THEN Alternatives(p)
    ELSE IF p.form = "one" /\ ~IsMessage(p.kind) THEN ScalarSamples(p.kind)
    ELSE Occurrences(p.form, Empty(p.kind), Element(p.kind))

Occurring(p, some) ==
    IF p.form # "one" THEN <<some, some>> ELSE IF IsMessage(p.kind) THEN <<some>> ELSE some
TypicalField(p) ==
    IF p.form = "oneof" THEN CHOOSE a \in Alternatives(p) : TRUE
    ELSE Occurring(p, Element(p.kind))

(* All fields at once; of a oneof, some alternative. *)
Full(type) ==
    [f \in type.fields |->
       TypicalField(type.marshal[CHOOSE k \in DOMAIN type.marshal : type.marshal[k].field = f])]

OneField(type) ==
    UNION {{[ZeroMessage(type) EXCEPT ![type.marshal[k].field] = x]
               : x \in FieldSamples(type.marshal[k])} : k \in DOMAIN type.marshal}

Samples(type) == OneField(type) \cup {ZeroMessage(type)}
MCCuttable == {<<n, Full(Schema[n])>> : n \in DOMAIN Schema}
MCValues == MCCuttable \cup UNION {{n} \X Samples(Schema[n]) : n \in DOMAIN Schema}

(* Field 1000 with each wire type: a number, eight bytes, bytes, a group   *)
(* holding a number, bytes and an empty group, four bytes.                 *)
Key1000(wireType) == EncodeVarint(Digits(8000 + wireType))
MCUnknown ==
    {Key1000(0) \o <<172, 2>>,
     Key1000(1) \o <<8, 1, 4, 12, 255, 0, 0, 9>>,
     Key1000(2) \o <<3, 255, 8, 12>>,
     Key1000(3) \o <<8, 150, 1, 18, 2, 12, 4, 27, 28>> \o Key1000(4),
     Key1000(5) \o <<8, 4, 12, 255>>}

(* Objects.  Hashes have three bytes, addresses two. *)
MCFilter == [hashFuncs |-> <<0, 0, 0, 3>>, tweak |-> <<0, 0, 0, 0>>, filter |-> <<0, 0>>]
SomeFilter == [MCFilter EXCEPT !.filter = <<128, 1>>]
H(i) == <<i, 0, 200>>
A(i) == <<i, 130>>

AnOutPoint == [Hash |-> H(1), Index |-> <<3>>]
ATxIn == [PrevOutPoint |-> AnOutPoint, ScriptSig |-> <<9, 8>>, Sequence |-> <<0, 1>>]
ATxOut == [Value |-> <<0, 0, 1>>, ScriptPubKey |-> <<5>>]
ATx == [Version |-> <<1>>, Vin |-> <<ATxIn, [ATxIn EXCEPT !.ScriptSig = <<>>]>>,
        Vout |-> <<ATxOut>>, Data |-> <<[Type |-> <<1>>, Content |-> <<4>>]>>,
        Magic |-> <<1>>, LockTime |-> <<>>]
Coinbase == [ATx EXCEPT !.Vin = <<[ATxIn EXCEPT !.PrevOutPoint.Hash = <<0, 0, 0>>]>>, !.Data = <<>>]
AHeader ==
    [Version |-> <<1>>, PrevBlockHash |-> H(2), TxsRoot |-> H(3), InternalTxsRoot |-> H(0),
     UtxoRoot |-> H(4), ReceiptHash |-> H(5), TimeStamp |-> <<7, 1>>, Magic |-> <<1>>,
     DynastyHash |-> H(6), RootHash |-> H(7), Height |-> <<2>>, GasUsed |-> <<>>,
     BookKeeper |-> A(1), Bloom |-> <<SomeFilter>>]
ABlock == [Header |-> AHeader, Txs |-> <<Coinbase, ATx>>, InternalTxs |-> <<>>,
           Signature |-> <<1, 2>>,
           IrreversibleInfo |-> <<[Hash |-> H(8), Signatures |-> <<<<3>>, <<4>>>>]>>]
BareBlock == [ABlock EXCEPT !.Header.Bloom = <<>>, !.IrreversibleInfo = <<>>, !.Txs = <<>>]
ALog == [Address |-> A(2), Topics |-> <<H(9), H(10)>>, Data |-> <<6>>, BlockNumber |-> <<2>>,
         TxHash |-> H(11), TxIndex |-> <<1>>, Index |-> <<>>, Removed |-> <<1>>,
         BlockHash |-> H(12)]
AReceipt ==
    [TxHash |-> H(13), TxIndex |-> <<1>>, ContractAddress |-> A(3), Deployed |-> <<1>>,
     Failed |-> <<>>, GasUsed |-> <<0, 2>>, BlockHash |-> H(12), BlockHeight |-> <<2>>,
     InternalTxs |-> <<H(14)>>, ErrMsg |-> <<101>>, Logs |-> <<ALog>>, Bloom |-> <<SomeFilter>>]
BareReceipt == [AReceipt EXCEPT !.Bloom = <<>>, !.Logs = <<>>]
ADelegate ==
    [ZeroMessage(Consensus!Delegate) EXCEPT !.Addr = A(4), !.PeerID = <<8>>, !.Votes = <<5>>]
AFrame == [Magic |-> <<1>>, Code |-> <<5>>, Reserved |-> <<0>>, Body |-> <<1, 0, 7>>]

MCThings ==
    {<<"OutPoint", AnOutPoint>>, <<"TxIn", ATxIn>>, <<"Transaction", ATx>>,
     <<"Transaction", Coinbase>>, <<"BlockHeader", AHeader>>, <<"Block", ABlock>>,
     <<"Block", BareBlock>>, <<"IrreversibleInfo", ABlock.IrreversibleInfo[1]>>,
     <<"Log", ALog>>, <<"Receipt", AReceipt>>, <<"Receipts", <<>>>>,
     <<"Receipts", <<BareReceipt, AReceipt>>>>,
     <<"LocateHeaders", [Hashes |-> <<H(1), H(2), H(3)>>]>>, <<"SyncHeaders", [Hashes |-> <<>>]>>,
     <<"CheckHash", [BeginHash |-> H(1), Length |-> <<3>>]>>,
     <<"SyncCheckHash", [RootHash |-> H(1)]>>,
     <<"FetchBlockHeaders", [Idx |-> <<2>>, BeginHash |-> H(1), Length |-> <<3>>]>>,
     <<"SyncBlocks", [Idx |-> <<1>>, Blocks |-> <<ABlock, BareBlock>>]>>,
     <<"EternalBlockMsg", [Hash |-> H(1), Timestamp |-> <<1>>, Signature |-> <<2>>]>>,
     <<"Frame", AFrame>>, <<"Frame", [AFrame EXCEPT !.Body = <<>>, !.Reserved = <<>>]>>}

(* Objects for UnmarshalReadsMarshal and for ConsensusFieldsHashed. *)
MCConsensusThings ==
    {<<"Delegate", ADelegate>>,
     <<"Dynasty", [ZeroMessage(Consensus!Dynasty) EXCEPT !.Delegates = <<ADelegate>>]>>}
MCReceipts == {<<"Receipts", <<AReceipt>>>>}
NoValues == {}

=============================================================================

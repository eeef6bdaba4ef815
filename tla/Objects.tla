------------------------------ MODULE Objects ------------------------------
(***************************************************************************)
(* The hand-written half of serialisation: ToProtoMessage and              *)
(* FromProtoMessage of the block, transaction, receipt, log, consensus and *)
(* synchronisation types, the receipts' hash, and the framing of network   *)
(* messages.  An object is a record with the fields of its struct, named   *)
(* as in its protobuf message; a pointer is <<>> (nil) or <<object>>.      *)
(* FromProtoMessage returns <<object>>, or <<>> for an error.              *)
(***************************************************************************)
EXTENDS Proto

CONSTANTS HashSize,     \* crypto.HashSize
          AddressSize,  \* ripemd160.Size, the length of a types.AddressHash
          EmptyFilter   \* CreateReceiptsBloom(nil): [hashFuncs, tweak, filter]

(* copy(array[:], bytes) into a zeroed array. *)
Copied(size, bytes) == [i \in 1..size |-> IF i <= Len(bytes) THEN bytes[i] ELSE 0]

(* HashType.SetBytes: right-aligned, the last bytes of a longer slice. *)
SetBytes(bytes) ==
    [i \in 1..HashSize |->
        LET j == i + Len(bytes) - HashSize IN IF j >= 1 THEN bytes[j] ELSE 0]

(* Convert every element, or fail with the first that fails. *)
Converted(r) == IF <<>> \in Range(r) THEN <<>> ELSE <<Map(Head, r)>>
ConvertEach(Op(_), s) == Converted(Map(Op, s))

(* A nested message: nil is core.ErrEmptyProtoMessage. *)
Required(Op(_), m) == OnSuccess(m, LAMBDA some : Op(some[1]))

-----------------------------------------------------------------------------
(* The bloom filter: two 32-bit words and the bits with their length. *)

FilterMarshal(f) == f.hashFuncs \o f.tweak \o Prefixed(f.filter)
FilterUnmarshal(b) ==
    IF Len(b) < 8 THEN <<>>
    ELSE OnSuccess(ReadLength(b, 9), LAMBDA range :
            <<[hashFuncs |-> SubSeq(b, 1, 4), tweak |-> SubSeq(b, 5, 8),
               filter |-> SubSeq(b, range[1], range[2] - 1)]>>)

(* ToProtoMessage replaces a nil filter by an empty one. *)
BloomBytes(bloom) == FilterMarshal(IF bloom = <<>> THEN EmptyFilter ELSE bloom[1])

-----------------------------------------------------------------------------
(* Transactions. *)

OutPointFromProto(m) == <<[m EXCEPT !.Hash = Copied(HashSize, @)]>>

TxInToProto(txin) == [txin EXCEPT !.PrevOutPoint = <<@>>]
TxInFromProto(m) ==
    OnSuccess(Required(OutPointFromProto, m.PrevOutPoint),
              LAMBDA op : <<[m EXCEPT !.PrevOutPoint = op[1]]>>)

TransactionToProto(tx) == [tx EXCEPT !.Vin = Map(TxInToProto, @)]
TransactionFromProto(m) ==
    OnSuccess(ConvertEach(TxInFromProto, m.Vin), LAMBDA vin : <<[m EXCEPT !.Vin = vin[1]]>>)

(* TxHash: the bytes that are hashed. *)
TxHashed(tx) == MarshalTo(Core!MarshalTransaction, TransactionToProto(tx))

-----------------------------------------------------------------------------
(* Blocks. *)

HeaderHashes ==
    {"PrevBlockHash", "TxsRoot", "InternalTxsRoot", "UtxoRoot", "ReceiptHash",
     "DynastyHash", "RootHash"}

HeaderToProto(header) == [header EXCEPT !.Bloom = BloomBytes(@)]
(* A plausible error: the root hash is not copied. *)
HeaderFromProtoRootless(m) ==
    OnSuccess(FilterUnmarshal(m.Bloom), LAMBDA bloom :
        <<[f \in DOMAIN m |-> CASE f = "RootHash" -> Copied(HashSize, <<>>)
                           [] f \in HeaderHashes -> Copied(HashSize, m[f])
                             [] f = "BookKeeper" -> Copied(AddressSize, m[f])
                             [] f = "Bloom" -> bloom
                             [] OTHER -> m[f]]>>)
HeaderFromProto(m) ==
    OnSuccess(FilterUnmarshal(m.Bloom), LAMBDA bloom :
        <<[f \in DOMAIN m |-> CASE f \in HeaderHashes -> Copied(HashSize, m[f])
                             [] f = "BookKeeper" -> Copied(AddressSize, m[f])
                             [] f = "Bloom" -> bloom
                             [] OTHER -> m[f]]>>)

IrreversibleInfoFromProto(m) == <<[m EXCEPT !.Hash = Copied(HashSize, @)]>>

BlockToProto(block) ==
    [block EXCEPT !.Header = <<HeaderToProto(@)>>,
                  !.Txs = Map(TransactionToProto, @),
                  !.InternalTxs = Map(TransactionToProto, @)]
BlockFromProto(m) ==
    OnSuccess(Required(HeaderFromProto, m.Header), LAMBDA header :
    OnSuccess(ConvertEach(TransactionFromProto, m.Txs), LAMBDA txs :
    OnSuccess(ConvertEach(TransactionFromProto, m.InternalTxs), LAMBDA internalTxs :
        <<[m EXCEPT !.Header = header[1], !.Txs = txs[1], !.InternalTxs = internalTxs[1],
                    !.IrreversibleInfo = Required(IrreversibleInfoFromProto, @)]>>)))

(* calcBlockHash: the bytes that are hashed. *)
BlockHashed(block) == MarshalTo(Core!MarshalBlockHeader, HeaderToProto(block.Header))

-----------------------------------------------------------------------------
(* Logs and receipts.  A receipt's contract address, block hash and height *)
(* and a log's block hash are not part of the message: the node fills them *)
(* in when it loads a receipt.                                             *)

LogToProto(log) == [f \in DOMAIN log \ {"BlockHash"} |-> log[f]]
LogFromProto(m) ==
    LET stored == [f \in DOMAIN m |->
                     CASE f = "Address" -> Copied(AddressSize, m[f])
                       [] f = "TxHash" -> Copied(HashSize, m[f])
                       [] f = "Topics" -> Map(LAMBDA t : Copied(HashSize, t), m[f])
                       [] OTHER -> m[f]]
    IN <<stored @@ ("BlockHash" :> Copied(HashSize, <<>>))>>

ReceiptToProto(rc) ==
    [f \in DOMAIN rc \ {"ContractAddress", "BlockHash", "BlockHeight"} |->
       CASE f = "Logs" -> Map(LogToProto, rc.Logs)
         [] f = "Bloom" -> BloomBytes(rc.Bloom)
         [] OTHER -> rc[f]]
ReceiptFromProto(m) ==
    OnSuccess(ConvertEach(LogFromProto, m.Logs), LAMBDA logs :
    OnSuccess(FilterUnmarshal(m.Bloom), LAMBDA bloom :
        <<[m EXCEPT !.Logs = logs[1], !.Bloom = bloom,
                    !.TxHash = SetBytes(@), !.InternalTxs = Map(SetBytes, @)]
            @@ [ContractAddress |-> Copied(AddressSize, <<>>),
                BlockHash |-> Copied(HashSize, <<>>), BlockHeight |-> <<>>]>>))

ReceiptsToProto(rcs) == [Receipts |-> Map(ReceiptToProto, rcs)]
ReceiptsFromProto(m) == ConvertEach(ReceiptFromProto, m.Receipts)

(***************************************************************************)
(* What Receipts.Hash hashes.  toHashLog copies the data of a log into a   *)
(* nil slice, which copies nothing; toHashReceipts leaves the filter of    *)
(* the copy nil, so that an empty one is written.                          *)
(***************************************************************************)
toHashLog(log) == [Address |-> log.Address, Topics |-> log.Topics, Data |-> <<>>]
toHashReceipt(rc) ==
    [TxHash |-> rc.TxHash, TxIndex |-> rc.TxIndex, Deployed |-> rc.Deployed,
     Failed |-> rc.Failed, GasUsed |-> rc.GasUsed, InternalTxs |-> rc.InternalTxs,
     ErrMsg |-> rc.ErrMsg, Logs |-> Map(toHashLog, rc.Logs), Bloom |-> <<>>]
HashReceiptToProto(rc) == [rc EXCEPT !.Bloom = BloomBytes(@)]
ReceiptsHashed(rcs) ==
    MarshalTo(Core!MarshalHashReceipts,
              [Receipts |-> Map(LAMBDA rc : HashReceiptToProto(toHashReceipt(rc)), rcs)])

-----------------------------------------------------------------------------
(* Block synchronisation. *)

(* ConvBytesArrayToHashes checks the length of every hash. *)
HashesFromBytes(array) ==
    IF \A i \in DOMAIN array : Len(array[i]) = HashSize THEN <<array>> ELSE <<>>
HashListFromProto(m) ==
    OnSuccess(HashesFromBytes(m.Hashes), LAMBDA hashes : <<[m EXCEPT !.Hashes = hashes[1]]>>)

CheckHashFromProto(m) == <<[m EXCEPT !.BeginHash = Copied(HashSize, @)]>>
SyncCheckHashFromProto(m) == <<[m EXCEPT !.RootHash = Copied(HashSize, @)]>>
FetchBlockHeadersFromProto(m) == <<[m EXCEPT !.BeginHash = Copied(HashSize, @)]>>

SyncBlocksToProto(sb) == [sb EXCEPT !.Blocks = Map(BlockToProto, @)]
SyncBlocksFromProto(m) ==
    OnSuccess(ConvertEach(BlockFromProto, m.Blocks),
              LAMBDA blocks : <<[m EXCEPT !.Blocks = blocks[1]]>>)

-----------------------------------------------------------------------------
(* Consensus.  Of a delegate only the address and the peer are written. *)

DelegateToProto(d) ==
    [ZeroMessage(Consensus!Delegate) EXCEPT !.Addr = d.Addr, !.PeerID = d.PeerID]
DelegateFromProto(m) == <<[m EXCEPT !.Addr = Copied(AddressSize, @)]>>
DynastyToProto(d) ==
    [ZeroMessage(Consensus!Dynasty) EXCEPT !.Delegates = Map(DelegateToProto, d.Delegates)]
DynastyFromProto(m) ==
    <<[m EXCEPT !.Delegates = Map(LAMBDA d : DelegateFromProto(d)[1], @)]>>
EternalBlockMsgFromProto(m) == <<[m EXCEPT !.Hash = Copied(HashSize, @)]>>

-----------------------------------------------------------------------------
(* The frame of a network message: the length of the header in four bytes, *)
(* the header, the body.  The header holds the body's length and checksum. *)

(* hash/crc32, which the frame only compares for equality. *)
Checksum(body) == Digits(FoldLeft(LAMBDA acc, x : (31 * acc + x + 1) % 65521, 7, body))
FourBytes(n) == <<0, 0, n \div 256, n % 256>>

newMessageHeader(o) ==
    [Magic |-> o.Magic, Code |-> o.Code, DataLength |-> Digits(Len(o.Body)),
     DataChecksum |-> Checksum(o.Body), Reserved |-> o.Reserved]
FrameMarshal(o) ==
    OnSuccess(MarshalBuffer(P2p!MessageHeader, newMessageHeader(o)),
              LAMBDA header : <<FourBytes(Len(header[1])) \o header[1] \o o.Body>>)

(* check, of a header that was read and the body that it announces. *)
FrameCheck(b, headerEnd, header) ==
    LET bodyEnd == headerEnd + ToNat(header.DataLength)
        body == SubSeq(b, headerEnd + 1, bodyEnd)
    IN IF Len(b) < bodyEnd THEN <<>>
       ELSE IF Checksum(body) # header.DataChecksum THEN <<>>
       ELSE <<[Magic |-> header.Magic, Code |-> header.Code, Reserved |-> header.Reserved,
               Body |-> body]>>

(* readMessageData, then check. *)
FrameUnmarshal(b) ==
    LET headerEnd == 4 + 256 * b[3] + b[4]
    IN IF Len(b) < 4 THEN <<>>
       ELSE IF Len(b) < headerEnd THEN <<>>
       ELSE OnSuccess(Decoded(P2p!MessageHeader, SubSeq(b, 5, headerEnd)),
                      LAMBDA header : FrameCheck(b, headerEnd, header[1]))

-----------------------------------------------------------------------------
(***************************************************************************)
(* Marshal and Unmarshal of an object of type t: the conversion, and the   *)
(* message the type's Unmarshal method decodes into.                       *)
(***************************************************************************)
ToProtoMessage(t, o) ==
    CASE t = "TxIn" -> TxInToProto(o)
      [] t = "Transaction" -> TransactionToProto(o)
      [] t = "BlockHeader" -> HeaderToProto(o)
      [] t = "Block" -> BlockToProto(o)
      [] t = "Log" -> LogToProto(o)
      [] t = "Receipt" -> ReceiptToProto(o)
      [] t = "Receipts" -> ReceiptsToProto(o)
      [] t = "hashReceipt" -> HashReceiptToProto(o)
      [] t = "SyncBlocks" -> SyncBlocksToProto(o)
      [] t = "Delegate" -> DelegateToProto(o)
      [] t = "Dynasty" -> DynastyToProto(o)
      [] OTHER -> o

(* The message type that ToProtoMessage returns and FromProtoMessage demands. *)
Produces ==
    [OutPoint |-> "corepb.OutPoint", TxIn |-> "corepb.TxIn",
     Transaction |-> "corepb.Transaction", BlockHeader |-> "corepb.BlockHeader",
     IrreversibleInfo |-> "corepb.IrreversibleInfo", Block |-> "corepb.Block",
     Log |-> "corepb.Log", Receipt |-> "corepb.Receipt", Receipts |-> "corepb.Receipts",
     hashReceipt |-> "corepb.HashReceipt", LocateHeaders |-> "pb.LocateHeaders",
     SyncHeaders |-> "pb.SyncHeaders", CheckHash |-> "pb.CheckHash",
     SyncCheckHash |-> "pb.SyncCheckHash", FetchBlockHeaders |-> "pb.FetchBlockHeaders",
     SyncBlocks |-> "pb.SyncBlocks", Delegate |-> "bpospb.Delegate",
     Dynasty |-> "bpospb.Dynasty", EternalBlockMsg |-> "bpospb.EternalBlockMsg"]
Demands == [Produces EXCEPT !.hashReceipt = "corepb.Receipt"]

(* The message the type's Unmarshal method decodes the bytes into. *)
DecodesInto ==
    [Produces EXCEPT !.Delegate = "bpospb.EternalBlockMsg", !.Dynasty = "bpospb.EternalBlockMsg"]

FromProtoMessage(t, m) ==
    CASE t = "OutPoint" -> OutPointFromProto(m)
      [] t = "TxIn" -> TxInFromProto(m)
      [] t = "Transaction" -> TransactionFromProto(m)
      [] t = "BlockHeader" -> HeaderFromProto(m)
      [] t = "IrreversibleInfo" -> IrreversibleInfoFromProto(m)
      [] t = "Block" -> BlockFromProto(m)
      [] t = "Log" -> LogFromProto(m)
      [] t = "Receipt" -> ReceiptFromProto(m)
      [] t = "Receipts" -> ReceiptsFromProto(m)
      [] t \in {"LocateHeaders", "SyncHeaders"} -> HashListFromProto(m)
      [] t = "CheckHash" -> CheckHashFromProto(m)
      [] t = "SyncCheckHash" -> SyncCheckHashFromProto(m)
      [] t = "FetchBlockHeaders" -> FetchBlockHeadersFromProto(m)
      [] t = "SyncBlocks" -> SyncBlocksFromProto(m)
      [] t = "Delegate" -> DelegateFromProto(m)
      [] t = "Dynasty" -> DynastyFromProto(m)
      [] t = "EternalBlockMsg" -> EternalBlockMsgFromProto(m)

ObjectMarshal(t, o) ==
    IF t = "Frame" THEN FrameMarshal(o)
    ELSE MarshalBuffer(Schema[Produces[t]], ToProtoMessage(t, o))

ObjectUnmarshal(t, b) ==
    IF t = "Frame" THEN FrameUnmarshal(b)
    ELSE OnSuccess(Decoded(Schema[DecodesInto[t]], b), LAMBDA m :
            IF DecodesInto[t] # Demands[t] THEN <<>> ELSE FromProtoMessage(t, m[1]))

=============================================================================

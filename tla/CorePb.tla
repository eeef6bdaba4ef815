------------------------------- MODULE CorePb -------------------------------
(*****************************************************************************)
(* The generated code of blocks, transactions, receipts, logs and trie       *)
(* nodes (core/pb), as they are stored and sent.  For each message: the      *)
(* fields its MarshalTo writes, in order and with the key of the source;     *)
(* the fields its Size counts, with the length of the key; and the cases     *)
(* of its Unmarshal, with the wire type each demands.                        *)
(*****************************************************************************)
EXTENDS Wire

MarshalBlockHeader ==
    <<Put(\h08, "Version", Int32), Put(\h12, "PrevBlockHash", Bytes),
      Put(\h1A, "TxsRoot", Bytes), Put(\h22, "InternalTxsRoot", Bytes),
      Put(\h2A, "UtxoRoot", Bytes), Put(\h32, "ReceiptHash", Bytes),
      Put(\h38, "TimeStamp", Int64), Put(\h40, "Magic", Uint32),
      Put(\h4A, "DynastyHash", Bytes), Put(\h52, "RootHash", Bytes),
      Put(\h58, "Height", Uint32), Put(\h60, "GasUsed", Uint64),
      Put(\h6A, "BookKeeper", Bytes), Put(\h72, "Bloom", Bytes)>>
SizeBlockHeader ==
    <<Add(1, "Version", Int32), Add(1, "PrevBlockHash", Bytes), Add(1, "TxsRoot", Bytes),
      Add(1, "InternalTxsRoot", Bytes), Add(1, "UtxoRoot", Bytes),
      Add(1, "ReceiptHash", Bytes), Add(1, "TimeStamp", Int64), Add(1, "Magic", Uint32),
      Add(1, "DynastyHash", Bytes), Add(1, "RootHash", Bytes), Add(1, "Height", Uint32),
      Add(1, "GasUsed", Uint64), Add(1, "BookKeeper", Bytes), Add(1, "Bloom", Bytes)>>
UnmarshalBlockHeader ==
    <<Get(1, 0, "Version", Int32), Get(2, 2, "PrevBlockHash", Bytes),
      Get(3, 2, "TxsRoot", Bytes), Get(4, 2, "InternalTxsRoot", Bytes),
      Get(5, 2, "UtxoRoot", Bytes), Get(6, 2, "ReceiptHash", Bytes),
      Get(7, 0, "TimeStamp", Int64), Get(8, 0, "Magic", Uint32),
      Get(9, 2, "DynastyHash", Bytes), Get(10, 2, "RootHash", Bytes),
      Get(11, 0, "Height", Uint32), Get(12, 0, "GasUsed", Uint64),
      Get(13, 2, "BookKeeper", Bytes), Get(14, 2, "Bloom", Bytes)>>
BlockHeader == Backward(MarshalBlockHeader, SizeBlockHeader, UnmarshalBlockHeader)

MarshalIrreversibleInfo == <<Put(\h0A, "Hash", Bytes), PutEach(\h12, "Signatures", Bytes)>>
SizeIrreversibleInfo == <<Add(1, "Hash", Bytes), AddEach(1, "Signatures", Bytes)>>
UnmarshalIrreversibleInfo ==
    <<Get(1, 2, "Hash", Bytes), GetEach(2, 2, "Signatures", Bytes)>>
IrreversibleInfo ==
    Backward(MarshalIrreversibleInfo, SizeIrreversibleInfo, UnmarshalIrreversibleInfo)

MarshalOutPoint == <<Put(\h0A, "Hash", Bytes), Put(\h10, "Index", Uint32)>>
SizeOutPoint == <<Add(1, "Hash", Bytes), Add(1, "Index", Uint32)>>
UnmarshalOutPoint == <<Get(1, 2, "Hash", Bytes), Get(2, 0, "Index", Uint32)>>
OutPoint == Backward(MarshalOutPoint, SizeOutPoint, UnmarshalOutPoint)

MarshalTxIn ==
    <<Put(\h0A, "PrevOutPoint", Message("corepb.OutPoint")), Put(\h12, "ScriptSig", Bytes),
      Put(\h18, "Sequence", Uint32)>>
SizeTxIn ==
    <<Add(1, "PrevOutPoint", Message("corepb.OutPoint")), Add(1, "ScriptSig", Bytes),
      Add(1, "Sequence", Uint32)>>
UnmarshalTxIn ==
    <<Get(1, 2, "PrevOutPoint", Message("corepb.OutPoint")), Get(2, 2, "ScriptSig", Bytes),
      Get(3, 0, "Sequence", Uint32)>>
TxIn == Backward(MarshalTxIn, SizeTxIn, UnmarshalTxIn)

MarshalTxOut == <<Put(\h08, "Value", Uint64), Put(\h12, "ScriptPubKey", Bytes)>>
SizeTxOut == <<Add(1, "Value", Uint64), Add(1, "ScriptPubKey", Bytes)>>
UnmarshalTxOut == <<Get(1, 0, "Value", Uint64), Get(2, 2, "ScriptPubKey", Bytes)>>
TxOut == Backward(MarshalTxOut, SizeTxOut, UnmarshalTxOut)

MarshalData == <<Put(\h08, "Type", Int32), Put(\h12, "Content", Bytes)>>
SizeData == <<Add(1, "Type", Int32), Add(1, "Content", Bytes)>>
UnmarshalData == <<Get(1, 0, "Type", Int32), Get(2, 2, "Content", Bytes)>>
Data == Backward(MarshalData, SizeData, UnmarshalData)

MarshalTransaction ==
    <<Put(\h08, "Version", Int32), PutEach(\h12, "Vin", Message("corepb.TxIn")),
      PutEach(\h1A, "Vout", Message("corepb.TxOut")),
      Put(\h22, "Data", Message("corepb.Data")), Put(\h28, "Magic", Uint32),
      Put(\h30, "LockTime", Int64)>>
SizeTransaction ==
    <<Add(1, "Version", Int32), AddEach(1, "Vin", Message("corepb.TxIn")),
      AddEach(1, "Vout", Message("corepb.TxOut")), Add(1, "Data", Message("corepb.Data")),
      Add(1, "Magic", Uint32), Add(1, "LockTime", Int64)>>
UnmarshalTransaction ==
    <<Get(1, 0, "Version", Int32), GetEach(2, 2, "Vin", Message("corepb.TxIn")),
      GetEach(3, 2, "Vout", Message("corepb.TxOut")),
      Get(4, 2, "Data", Message("corepb.Data")), Get(5, 0, "Magic", Uint32),
      Get(6, 0, "LockTime", Int64)>>
Transaction == Backward(MarshalTransaction, SizeTransaction, UnmarshalTransaction)

MarshalBlock ==
    <<Put(\h0A, "Header", Message("corepb.BlockHeader")),
      PutEach(\h12, "Txs", Message("corepb.Transaction")),
      PutEach(\h1A, "InternalTxs", Message("corepb.Transaction")),
      Put(\h22, "Signature", Bytes),
      Put(\h2A, "IrreversibleInfo", Message("corepb.IrreversibleInfo"))>>
SizeBlock ==
    <<Add(1, "Header", Message("corepb.BlockHeader")),
      AddEach(1, "Txs", Message("corepb.Transaction")),
      AddEach(1, "InternalTxs", Message("corepb.Transaction")), Add(1, "Signature", Bytes),
      Add(1, "IrreversibleInfo", Message("corepb.IrreversibleInfo"))>>
UnmarshalBlock ==
    <<Get(1, 2, "Header", Message("corepb.BlockHeader")),
      GetEach(2, 2, "Txs", Message("corepb.Transaction")),
      GetEach(3, 2, "InternalTxs", Message("corepb.Transaction")),
      Get(4, 2, "Signature", Bytes),
      Get(5, 2, "IrreversibleInfo", Message("corepb.IrreversibleInfo"))>>
Block == Backward(MarshalBlock, SizeBlock, UnmarshalBlock)

MarshalLog ==
    <<Put(\h0A, "Address", Bytes), PutEach(\h12, "Topics", Bytes), Put(\h1A, "Data", Bytes),
      Put(\h20, "BlockNumber", Uint64), Put(\h2A, "TxHash", Bytes),
      Put(\h30, "TxIndex", Uint32), Put(\h40, "Index", Uint32), Put(\h48, "Removed", Bool)>>
SizeLog ==
    <<Add(1, "Address", Bytes), AddEach(1, "Topics", Bytes), Add(1, "Data", Bytes),
      Add(1, "BlockNumber", Uint64), Add(1, "TxHash", Bytes), Add(1, "TxIndex", Uint32),
      Add(1, "Index", Uint32), Add(1, "Removed", Bool)>>
UnmarshalLog ==
    <<Get(1, 2, "Address", Bytes), GetEach(2, 2, "Topics", Bytes), Get(3, 2, "Data", Bytes),
      Get(4, 0, "BlockNumber", Uint64), Get(5, 2, "TxHash", Bytes),
      Get(6, 0, "TxIndex", Uint32), Get(8, 0, "Index", Uint32), Get(9, 0, "Removed", Bool)>>
Log == Backward(MarshalLog, SizeLog, UnmarshalLog)

MarshalReceipt ==
    <<Put(\h0A, "TxHash", Bytes), Put(\h10, "TxIndex", Uint32), Put(\h18, "Deployed", Bool),
      Put(\h20, "Failed", Bool), Put(\h28, "GasUsed", Uint64),
      PutEach(\h32, "InternalTxs", Bytes), PutEach(\h3A, "Logs", Message("corepb.Log")),
      Put(\h42, "Bloom", Bytes), Put(\h4A, "ErrMsg", Bytes)>>
SizeReceipt ==
    <<Add(1, "TxHash", Bytes), Add(1, "TxIndex", Uint32), Add(1, "Deployed", Bool),
      Add(1, "Failed", Bool), Add(1, "GasUsed", Uint64), AddEach(1, "InternalTxs", Bytes),
      AddEach(1, "Logs", Message("corepb.Log")), Add(1, "Bloom", Bytes),
      Add(1, "ErrMsg", Bytes)>>
UnmarshalReceipt ==
    <<Get(1, 2, "TxHash", Bytes), Get(2, 0, "TxIndex", Uint32), Get(3, 0, "Deployed", Bool),
      Get(4, 0, "Failed", Bool), Get(5, 0, "GasUsed", Uint64),
      GetEach(6, 2, "InternalTxs", Bytes), GetEach(7, 2, "Logs", Message("corepb.Log")),
      Get(8, 2, "Bloom", Bytes), Get(9, 2, "ErrMsg", Bytes)>>
Receipt == Backward(MarshalReceipt, SizeReceipt, UnmarshalReceipt)

MarshalReceipts == <<PutEach(\h0A, "Receipts", Message("corepb.Receipt"))>>
SizeReceipts == <<AddEach(1, "Receipts", Message("corepb.Receipt"))>>
UnmarshalReceipts == <<GetEach(1, 2, "Receipts", Message("corepb.Receipt"))>>
Receipts == Backward(MarshalReceipts, SizeReceipts, UnmarshalReceipts)

MarshalHashLog ==
    <<Put(\h0A, "Address", Bytes), PutEach(\h12, "Topics", Bytes), Put(\h1A, "Data", Bytes)>>
SizeHashLog ==
    <<Add(1, "Address", Bytes), AddEach(1, "Topics", Bytes), Add(1, "Data", Bytes)>>
UnmarshalHashLog ==
    <<Get(1, 2, "Address", Bytes), GetEach(2, 2, "Topics", Bytes), Get(3, 2, "Data", Bytes)>>
HashLog == Backward(MarshalHashLog, SizeHashLog, UnmarshalHashLog)

MarshalHashReceipt ==
    <<Put(\h0A, "TxHash", Bytes), Put(\h10, "TxIndex", Uint32), Put(\h18, "Deployed", Bool),
      Put(\h20, "Failed", Bool), Put(\h28, "GasUsed", Uint64),
      PutEach(\h32, "InternalTxs", Bytes), PutEach(\h3A, "Logs", Message("corepb.HashLog")),
      Put(\h42, "Bloom", Bytes), Put(\h4A, "ErrMsg", Bytes)>>
SizeHashReceipt ==
    <<Add(1, "TxHash", Bytes), Add(1, "TxIndex", Uint32), Add(1, "Deployed", Bool),
      Add(1, "Failed", Bool), Add(1, "GasUsed", Uint64), AddEach(1, "InternalTxs", Bytes),
      AddEach(1, "Logs", Message("corepb.HashLog")), Add(1, "Bloom", Bytes),
      Add(1, "ErrMsg", Bytes)>>
UnmarshalHashReceipt ==
    <<Get(1, 2, "TxHash", Bytes), Get(2, 0, "TxIndex", Uint32), Get(3, 0, "Deployed", Bool),
      Get(4, 0, "Failed", Bool), Get(5, 0, "GasUsed", Uint64),
      GetEach(6, 2, "InternalTxs", Bytes), GetEach(7, 2, "Logs", Message("corepb.HashLog")),
      Get(8, 2, "Bloom", Bytes), Get(9, 2, "ErrMsg", Bytes)>>
HashReceipt == Backward(MarshalHashReceipt, SizeHashReceipt, UnmarshalHashReceipt)

MarshalHashReceipts == <<PutEach(\h0A, "Receipts", Message("corepb.HashReceipt"))>>
SizeHashReceipts == <<AddEach(1, "Receipts", Message("corepb.HashReceipt"))>>
UnmarshalHashReceipts == <<GetEach(1, 2, "Receipts", Message("corepb.HashReceipt"))>>
HashReceipts == Backward(MarshalHashReceipts, SizeHashReceipts, UnmarshalHashReceipts)

MarshalNode == <<PutEach(\h0A, "Value", Bytes)>>
SizeNode == <<AddEach(1, "Value", Bytes)>>
UnmarshalNode == <<GetEach(1, 2, "Value", Bytes)>>
Node == Backward(MarshalNode, SizeNode, UnmarshalNode)

Messages ==
    ("corepb.BlockHeader" :> BlockHeader)
      @@ ("corepb.IrreversibleInfo" :> IrreversibleInfo) @@ ("corepb.Block" :> Block)
      @@ ("corepb.Transaction" :> Transaction) @@ ("corepb.TxIn" :> TxIn)
      @@ ("corepb.TxOut" :> TxOut) @@ ("corepb.OutPoint" :> OutPoint)
      @@ ("corepb.Data" :> Data) @@ ("corepb.Receipt" :> Receipt)
      @@ ("corepb.Receipts" :> Receipts) @@ ("corepb.HashReceipt" :> HashReceipt)
      @@ ("corepb.HashReceipts" :> HashReceipts) @@ ("corepb.Log" :> Log)
      @@ ("corepb.HashLog" :> HashLog) @@ ("corepb.Node" :> Node)

=============================================================================

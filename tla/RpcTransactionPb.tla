-------------------------- MODULE RpcTransactionPb --------------------------
(*****************************************************************************)
(* The generated code of the transaction service of the RPC server           *)
(* (rpc/pb/transaction.pb.go, common.pb.go).  For each message: the fields   *)
(* its MarshalTo writes, in order and with the key of the source; the        *)
(* fields its Size counts, with the length of the key; and the cases of      *)
(* its Unmarshal, with the wire type each demands.                           *)
(*****************************************************************************)
EXTENDS Wire

MarshalSendRawTransactionReq == <<Put(\h0A, "Tx", Bytes)>>
SizeSendRawTransactionReq == <<Add(1, "Tx", Bytes)>>
UnmarshalSendRawTransactionReq == <<Get(1, 2, "Tx", Bytes)>>
SendRawTransactionReq ==
    Forward(MarshalSendRawTransactionReq, SizeSendRawTransactionReq, UnmarshalSendRawTransactionReq)

MarshalGetBalanceReq == <<PutEach(\h0A, "Addrs", Bytes)>>
SizeGetBalanceReq == <<AddEach(1, "Addrs", Bytes)>>
UnmarshalGetBalanceReq == <<GetEach(1, 2, "Addrs", Bytes)>>
GetBalanceReq == Forward(MarshalGetBalanceReq, SizeGetBalanceReq, UnmarshalGetBalanceReq)

MarshalGetBalanceResp ==
    <<Put(\h08, "Code", Int32), Put(\h12, "Message", Bytes),
      PutPacked(\h1A, "Balances", Uint64)>>
SizeGetBalanceResp ==
    <<Add(1, "Code", Int32), Add(1, "Message", Bytes), AddPacked(1, "Balances", Uint64)>>
UnmarshalGetBalanceResp ==
    <<Get(1, 0, "Code", Int32), Get(2, 2, "Message", Bytes),
      GetPacked(3, 0, "Balances", Uint64)>>
GetBalanceResp ==
    Forward(MarshalGetBalanceResp, SizeGetBalanceResp, UnmarshalGetBalanceResp)

MarshalGetTokenBalanceReq ==
    <<PutEach(\h0A, "Addrs", Bytes), Put(\h12, "TokenHash", Bytes),
      Put(\h18, "TokenIndex", Uint32)>>
SizeGetTokenBalanceReq ==
    <<AddEach(1, "Addrs", Bytes), Add(1, "TokenHash", Bytes), Add(1, "TokenIndex", Uint32)>>
UnmarshalGetTokenBalanceReq ==
    <<GetEach(1, 2, "Addrs", Bytes), Get(2, 2, "TokenHash", Bytes),
      Get(3, 0, "TokenIndex", Uint32)>>
GetTokenBalanceReq ==
    Forward(MarshalGetTokenBalanceReq, SizeGetTokenBalanceReq, UnmarshalGetTokenBalanceReq)

MarshalFetchUtxosReq ==
    <<Put(\h0A, "Addr", Bytes), Put(\h10, "Amount", Uint64), Put(\h1A, "TokenHash", Bytes),
      Put(\h20, "TokenIndex", Uint32)>>
SizeFetchUtxosReq ==
    <<Add(1, "Addr", Bytes), Add(1, "Amount", Uint64), Add(1, "TokenHash", Bytes),
      Add(1, "TokenIndex", Uint32)>>
UnmarshalFetchUtxosReq ==
    <<Get(1, 2, "Addr", Bytes), Get(2, 0, "Amount", Uint64), Get(3, 2, "TokenHash", Bytes),
      Get(4, 0, "TokenIndex", Uint32)>>
FetchUtxosReq == Forward(MarshalFetchUtxosReq, SizeFetchUtxosReq, UnmarshalFetchUtxosReq)

MarshalUtxo ==
    <<Put(\h0A, "OutPoint", Message("corepb.OutPoint")),
      Put(\h12, "TxOut", Message("corepb.TxOut")), Put(\h18, "BlockHeight", Uint32),
      Put(\h20, "IsSpent", Bool)>>
SizeUtxo ==
    <<Add(1, "OutPoint", Message("corepb.OutPoint")),
      Add(1, "TxOut", Message("corepb.TxOut")), Add(1, "BlockHeight", Uint32),
      Add(1, "IsSpent", Bool)>>
UnmarshalUtxo ==
    <<Get(1, 2, "OutPoint", Message("corepb.OutPoint")),
      Get(2, 2, "TxOut", Message("corepb.TxOut")), Get(3, 0, "BlockHeight", Uint32),
      Get(4, 0, "IsSpent", Bool)>>
Utxo == Forward(MarshalUtxo, SizeUtxo, UnmarshalUtxo)

MarshalFetchUtxosResp ==
    <<Put(\h08, "Code", Int32), Put(\h12, "Message", Bytes),
      PutEach(\h1A, "Utxos", Message("rpcpb.Utxo"))>>
SizeFetchUtxosResp ==
    <<Add(1, "Code", Int32), Add(1, "Message", Bytes),
      AddEach(1, "Utxos", Message("rpcpb.Utxo"))>>
UnmarshalFetchUtxosResp ==
    <<Get(1, 0, "Code", Int32), Get(2, 2, "Message", Bytes),
      GetEach(3, 2, "Utxos", Message("rpcpb.Utxo"))>>
FetchUtxosResp ==
    Forward(MarshalFetchUtxosResp, SizeFetchUtxosResp, UnmarshalFetchUtxosResp)

MarshalGetRawTransactionRequest == <<Put(\h0A, "Hash", Bytes)>>
SizeGetRawTransactionRequest == <<Add(1, "Hash", Bytes)>>
UnmarshalGetRawTransactionRequest == <<Get(1, 2, "Hash", Bytes)>>
GetRawTransactionRequest ==
    Forward(MarshalGetRawTransactionRequest,
            SizeGetRawTransactionRequest, UnmarshalGetRawTransactionRequest)

MarshalGetRawTransactionResponse ==
    <<Put(\h08, "Code", Int32), Put(\h12, "Message", Bytes),
      Put(\h1A, "Tx", Message("corepb.Transaction"))>>
SizeGetRawTransactionResponse ==
    <<Add(1, "Code", Int32), Add(1, "Message", Bytes),
      Add(1, "Tx", Message("corepb.Transaction"))>>
UnmarshalGetRawTransactionResponse ==
    <<Get(1, 0, "Code", Int32), Get(2, 2, "Message", Bytes),
      Get(3, 2, "Tx", Message("corepb.Transaction"))>>
GetRawTransactionResponse ==
    Forward(MarshalGetRawTransactionResponse,
            SizeGetRawTransactionResponse, UnmarshalGetRawTransactionResponse)

MarshalSendTransactionReq == <<Put(\h0A, "Tx", Message("corepb.Transaction"))>>
SizeSendTransactionReq == <<Add(1, "Tx", Message("corepb.Transaction"))>>
UnmarshalSendTransactionReq == <<Get(1, 2, "Tx", Message("corepb.Transaction"))>>
SendTransactionReq ==
    Forward(MarshalSendTransactionReq, SizeSendTransactionReq, UnmarshalSendTransactionReq)

MarshalSendTransactionResp ==
    <<Put(\h08, "Code", Int32), Put(\h12, "Message", Bytes), Put(\h1A, "Hash", Bytes)>>
SizeSendTransactionResp ==
    <<Add(1, "Code", Int32), Add(1, "Message", Bytes), Add(1, "Hash", Bytes)>>
UnmarshalSendTransactionResp ==
    <<Get(1, 0, "Code", Int32), Get(2, 2, "Message", Bytes), Get(3, 2, "Hash", Bytes)>>
SendTransactionResp ==
    Forward(MarshalSendTransactionResp, SizeSendTransactionResp, UnmarshalSendTransactionResp)

MarshalMakeTxReq ==
    <<Put(\h0A, "From", Bytes), PutEach(\h12, "To", Bytes),
      PutPacked(\h1A, "Amounts", Uint64)>>
SizeMakeTxReq ==
    <<Add(1, "From", Bytes), AddEach(1, "To", Bytes), AddPacked(1, "Amounts", Uint64)>>
UnmarshalMakeTxReq ==
    <<Get(1, 2, "From", Bytes), GetEach(2, 2, "To", Bytes),
      GetPacked(3, 0, "Amounts", Uint64)>>
MakeTxReq == Forward(MarshalMakeTxReq, SizeMakeTxReq, UnmarshalMakeTxReq)

MarshalMakeTxResp ==
    <<Put(\h08, "Code", Int32), Put(\h12, "Message", Bytes),
      Put(\h1A, "Tx", Message("corepb.Transaction")), PutEach(\h22, "RawMsgs", Bytes)>>
SizeMakeTxResp ==
    <<Add(1, "Code", Int32), Add(1, "Message", Bytes),
      Add(1, "Tx", Message("corepb.Transaction")), AddEach(1, "RawMsgs", Bytes)>>
UnmarshalMakeTxResp ==
    <<Get(1, 0, "Code", Int32), Get(2, 2, "Message", Bytes),
      Get(3, 2, "Tx", Message("corepb.Transaction")), GetEach(4, 2, "RawMsgs", Bytes)>>
MakeTxResp == Forward(MarshalMakeTxResp, SizeMakeTxResp, UnmarshalMakeTxResp)

MarshalMakeSplitAddrTxReq ==
    <<Put(\h0A, "From", Bytes), PutEach(\h12, "Addrs", Bytes),
      PutPacked(\h1A, "Weights", Uint32)>>
SizeMakeSplitAddrTxReq ==
    <<Add(1, "From", Bytes), AddEach(1, "Addrs", Bytes), AddPacked(1, "Weights", Uint32)>>
UnmarshalMakeSplitAddrTxReq ==
    <<Get(1, 2, "From", Bytes), GetEach(2, 2, "Addrs", Bytes),
      GetPacked(3, 0, "Weights", Uint32)>>
MakeSplitAddrTxReq ==
    Forward(MarshalMakeSplitAddrTxReq, SizeMakeSplitAddrTxReq, UnmarshalMakeSplitAddrTxReq)

MarshalTokenTag ==
    <<Put(\h0A, "Name", Bytes), Put(\h12, "Symbol", Bytes), Put(\h18, "Supply", Uint64),
      Put(\h20, "Decimal", Uint32)>>
SizeTokenTag ==
    <<Add(1, "Name", Bytes), Add(1, "Symbol", Bytes), Add(1, "Supply", Uint64),
      Add(1, "Decimal", Uint32)>>
UnmarshalTokenTag ==
    <<Get(1, 2, "Name", Bytes), Get(2, 2, "Symbol", Bytes), Get(3, 0, "Supply", Uint64),
      Get(4, 0, "Decimal", Uint32)>>
TokenTag == Forward(MarshalTokenTag, SizeTokenTag, UnmarshalTokenTag)

MarshalMakeTokenIssueTxReq ==
    <<Put(\h0A, "Issuer", Bytes), Put(\h12, "Owner", Bytes),
      Put(\h1A, "Tag", Message("rpcpb.TokenTag"))>>
SizeMakeTokenIssueTxReq ==
    <<Add(1, "Issuer", Bytes), Add(1, "Owner", Bytes),
      Add(1, "Tag", Message("rpcpb.TokenTag"))>>
UnmarshalMakeTokenIssueTxReq ==
    <<Get(1, 2, "Issuer", Bytes), Get(2, 2, "Owner", Bytes),
      Get(3, 2, "Tag", Message("rpcpb.TokenTag"))>>
MakeTokenIssueTxReq ==
    Forward(MarshalMakeTokenIssueTxReq, SizeMakeTokenIssueTxReq, UnmarshalMakeTokenIssueTxReq)

MarshalMakeTokenIssueTxResp ==
    <<Put(\h08, "Code", Int32), Put(\h12, "Message", Bytes),
      Put(\h18, "IssueOutIndex", Uint32), Put(\h22, "Tx", Message("corepb.Transaction")),
      PutEach(\h2A, "RawMsgs", Bytes)>>
SizeMakeTokenIssueTxResp ==
    <<Add(1, "Code", Int32), Add(1, "Message", Bytes), Add(1, "IssueOutIndex", Uint32),
      Add(1, "Tx", Message("corepb.Transaction")), AddEach(1, "RawMsgs", Bytes)>>
UnmarshalMakeTokenIssueTxResp ==
    <<Get(1, 0, "Code", Int32), Get(2, 2, "Message", Bytes),
      Get(3, 0, "IssueOutIndex", Uint32), Get(4, 2, "Tx", Message("corepb.Transaction")),
      GetEach(5, 2, "RawMsgs", Bytes)>>
MakeTokenIssueTxResp ==
    Forward(MarshalMakeTokenIssueTxResp, SizeMakeTokenIssueTxResp, UnmarshalMakeTokenIssueTxResp)

MarshalMakeTokenTransferTxReq ==
    <<Put(\h0A, "From", Bytes), PutEach(\h12, "To", Bytes),
      PutPacked(\h1A, "Amounts", Uint64), Put(\h22, "TokenHash", Bytes),
      Put(\h28, "TokenIndex", Uint32)>>
SizeMakeTokenTransferTxReq ==
    <<Add(1, "From", Bytes), AddEach(1, "To", Bytes), AddPacked(1, "Amounts", Uint64),
      Add(1, "TokenHash", Bytes), Add(1, "TokenIndex", Uint32)>>
UnmarshalMakeTokenTransferTxReq ==
    <<Get(1, 2, "From", Bytes), GetEach(2, 2, "To", Bytes),
      GetPacked(3, 0, "Amounts", Uint64), Get(4, 2, "TokenHash", Bytes),
      Get(5, 0, "TokenIndex", Uint32)>>
MakeTokenTransferTxReq ==
    Forward(MarshalMakeTokenTransferTxReq, SizeMakeTokenTransferTxReq, UnmarshalMakeTokenTransferTxReq)

MarshalMakeContractTxReq ==
    <<Put(\h0A, "From", Bytes), Put(\h12, "To", Bytes), Put(\h18, "Amount", Uint64),
      Put(\h20, "GasLimit", Uint64), Put(\h28, "Nonce", Uint64),
      Put(\h30, "IsDeploy", Bool), Put(\h3A, "Data", Bytes)>>
SizeMakeContractTxReq ==
    <<Add(1, "From", Bytes), Add(1, "To", Bytes), Add(1, "Amount", Uint64),
      Add(1, "GasLimit", Uint64), Add(1, "Nonce", Uint64), Add(1, "IsDeploy", Bool),
      Add(1, "Data", Bytes)>>
UnmarshalMakeContractTxReq ==
    <<Get(1, 2, "From", Bytes), Get(2, 2, "To", Bytes), Get(3, 0, "Amount", Uint64),
      Get(4, 0, "GasLimit", Uint64), Get(5, 0, "Nonce", Uint64),
      Get(6, 0, "IsDeploy", Bool), Get(7, 2, "Data", Bytes)>>
MakeContractTxReq ==
    Forward(MarshalMakeContractTxReq, SizeMakeContractTxReq, UnmarshalMakeContractTxReq)

MarshalMakeContractTxResp ==
    <<Put(\h08, "Code", Int32), Put(\h12, "Message", Bytes),
      Put(\h1A, "Tx", Message("corepb.Transaction")), PutEach(\h22, "RawMsgs", Bytes),
      Put(\h2A, "ContractAddr", Bytes)>>
SizeMakeContractTxResp ==
    <<Add(1, "Code", Int32), Add(1, "Message", Bytes),
      Add(1, "Tx", Message("corepb.Transaction")), AddEach(1, "RawMsgs", Bytes),
      Add(1, "ContractAddr", Bytes)>>
UnmarshalMakeContractTxResp ==
    <<Get(1, 0, "Code", Int32), Get(2, 2, "Message", Bytes),
      Get(3, 2, "Tx", Message("corepb.Transaction")), GetEach(4, 2, "RawMsgs", Bytes),
      Get(5, 2, "ContractAddr", Bytes)>>
MakeContractTxResp ==
    Forward(MarshalMakeContractTxResp, SizeMakeContractTxResp, UnmarshalMakeContractTxResp)

MarshalMakeCombineTx ==
    <<Put(\h0A, "Addr", Bytes), Put(\h12, "TokenHash", Bytes),
      Put(\h18, "TokenIndex", Uint32)>>
SizeMakeCombineTx ==
    <<Add(1, "Addr", Bytes), Add(1, "TokenHash", Bytes), Add(1, "TokenIndex", Uint32)>>
UnmarshalMakeCombineTx ==
    <<Get(1, 2, "Addr", Bytes), Get(2, 2, "TokenHash", Bytes),
      Get(3, 0, "TokenIndex", Uint32)>>
MakeCombineTx == Forward(MarshalMakeCombineTx, SizeMakeCombineTx, UnmarshalMakeCombineTx)

MarshalBaseResponse == <<Put(\h08, "Code", Int32), Put(\h12, "Message", Bytes)>>
SizeBaseResponse == <<Add(1, "Code", Int32), Add(1, "Message", Bytes)>>
UnmarshalBaseResponse == <<Get(1, 0, "Code", Int32), Get(2, 2, "Message", Bytes)>>
BaseResponse == Forward(MarshalBaseResponse, SizeBaseResponse, UnmarshalBaseResponse)

Messages ==
    ("rpcpb.SendRawTransactionReq" :> SendRawTransactionReq)
      @@ ("rpcpb.GetBalanceReq" :> GetBalanceReq)
      @@ ("rpcpb.GetBalanceResp" :> GetBalanceResp)
      @@ ("rpcpb.GetTokenBalanceReq" :> GetTokenBalanceReq)
      @@ ("rpcpb.FetchUtxosReq" :> FetchUtxosReq)
      @@ ("rpcpb.FetchUtxosResp" :> FetchUtxosResp)
      @@ ("rpcpb.GetRawTransactionRequest" :> GetRawTransactionRequest)
      @@ ("rpcpb.GetRawTransactionResponse" :> GetRawTransactionResponse)
      @@ ("rpcpb.SendTransactionReq" :> SendTransactionReq)
      @@ ("rpcpb.SendTransactionResp" :> SendTransactionResp)
      @@ ("rpcpb.MakeTxReq" :> MakeTxReq) @@ ("rpcpb.MakeTxResp" :> MakeTxResp)
      @@ ("rpcpb.MakeSplitAddrTxReq" :> MakeSplitAddrTxReq)
      @@ ("rpcpb.MakeTokenIssueTxReq" :> MakeTokenIssueTxReq)
      @@ ("rpcpb.MakeTokenIssueTxResp" :> MakeTokenIssueTxResp)
      @@ ("rpcpb.MakeTokenTransferTxReq" :> MakeTokenTransferTxReq)
      @@ ("rpcpb.TokenTag" :> TokenTag) @@ ("rpcpb.MakeContractTxReq" :> MakeContractTxReq)
      @@ ("rpcpb.MakeContractTxResp" :> MakeContractTxResp)
      @@ ("rpcpb.MakeCombineTx" :> MakeCombineTx) @@ ("rpcpb.Utxo" :> Utxo)
      @@ ("rpcpb.BaseResponse" :> BaseResponse)

=============================================================================

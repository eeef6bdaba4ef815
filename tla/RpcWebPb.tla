------------------------------ MODULE RpcWebPb ------------------------------
(*****************************************************************************)
(* The generated code of the web service of the RPC server                   *)
(* (rpc/pb/web.pb.go).  For each message: the fields its MarshalTo writes,   *)
(* in order and with the key of the source; the fields its Size counts,      *)
(* with the length of the key; and the cases of its Unmarshal, with the      *)
(* wire type each demands.                                                   *)
(*****************************************************************************)
EXTENDS Wire

MarshalLogsReqTopiclist == <<PutEach(\h0A, "Topics", Bytes)>>
SizeLogsReqTopiclist == <<AddEach(1, "Topics", Bytes)>>
UnmarshalLogsReqTopiclist == <<GetEach(1, 2, "Topics", Bytes)>>
LogsReqTopiclist ==
    Forward(MarshalLogsReqTopiclist, SizeLogsReqTopiclist, UnmarshalLogsReqTopiclist)

MarshalLogsReq ==
    <<Put(\h0A, "Uid", Bytes), Put(\h12, "Hash", Bytes), Put(\h18, "From", Uint32),
      Put(\h20, "To", Uint32), PutEach(\h2A, "Addresses", Bytes),
      PutEach(\h32, "Topics", Message("rpcpb.LogsReqTopiclist"))>>
SizeLogsReq ==
    <<Add(1, "Uid", Bytes), Add(1, "Hash", Bytes), Add(1, "From", Uint32),
      Add(1, "To", Uint32), AddEach(1, "Addresses", Bytes),
      AddEach(1, "Topics", Message("rpcpb.LogsReqTopiclist"))>>
UnmarshalLogsReq ==
    <<Get(1, 2, "Uid", Bytes), Get(2, 2, "Hash", Bytes), Get(3, 0, "From", Uint32),
      Get(4, 0, "To", Uint32), GetEach(5, 2, "Addresses", Bytes),
      GetEach(6, 2, "Topics", Message("rpcpb.LogsReqTopiclist"))>>
LogsReq == Forward(MarshalLogsReq, SizeLogsReq, UnmarshalLogsReq)

MarshalRegisterReq_LogsReq == <<Put(\h1A, "LogsReq", Message("rpcpb.LogsReq"))>>
SizeRegisterReq_LogsReq == <<Add(1, "LogsReq", Message("rpcpb.LogsReq"))>>

MarshalRegisterReq ==
    <<Put(\h08, "Type", Uint32), Put(\h10, "Cancel", Bool),
      PutOneof("Info", [LogsReq |-> MarshalRegisterReq_LogsReq])>>
SizeRegisterReq ==
    <<Add(1, "Type", Uint32), Add(1, "Cancel", Bool),
      AddOneof("Info", [LogsReq |-> SizeRegisterReq_LogsReq])>>
UnmarshalRegisterReq ==
    <<Get(1, 0, "Type", Uint32), Get(2, 0, "Cancel", Bool),
      GetOneof(3, 2, "Info", "LogsReq", Message("rpcpb.LogsReq"))>>
RegisterReq == Forward(MarshalRegisterReq, SizeRegisterReq, UnmarshalRegisterReq)

MarshalTokenIssueInfo == <<Put(\h0A, "TokenTag", Message("rpcpb.TokenTag"))>>
SizeTokenIssueInfo == <<Add(1, "TokenTag", Message("rpcpb.TokenTag"))>>
UnmarshalTokenIssueInfo == <<Get(1, 2, "TokenTag", Message("rpcpb.TokenTag"))>>
TokenIssueInfo ==
    Forward(MarshalTokenIssueInfo, SizeTokenIssueInfo, UnmarshalTokenIssueInfo)

MarshalTxOutDetail_TokenIssueInfo ==
    <<Put(\h2A, "TokenIssueInfo", Message("rpcpb.TokenIssueInfo"))>>
SizeTxOutDetail_TokenIssueInfo ==
    <<Add(1, "TokenIssueInfo", Message("rpcpb.TokenIssueInfo"))>>

MarshalTokenTransferInfo == <<Put(\h0A, "TokenId", Bytes)>>
SizeTokenTransferInfo == <<Add(1, "TokenId", Bytes)>>
UnmarshalTokenTransferInfo == <<Get(1, 2, "TokenId", Bytes)>>
TokenTransferInfo ==
    Forward(MarshalTokenTransferInfo, SizeTokenTransferInfo, UnmarshalTokenTransferInfo)

MarshalTxOutDetail_TokenTransferInfo ==
    <<Put(\h32, "TokenTransferInfo", Message("rpcpb.TokenTransferInfo"))>>
SizeTxOutDetail_TokenTransferInfo ==
    <<Add(1, "TokenTransferInfo", Message("rpcpb.TokenTransferInfo"))>>

MarshalSplitContractInfo ==
    <<PutEach(\h0A, "Addrs", Bytes), PutPacked(\h12, "Weights", Uint32)>>
SizeSplitContractInfo == <<AddEach(1, "Addrs", Bytes), AddPacked(1, "Weights", Uint32)>>
UnmarshalSplitContractInfo ==
    <<GetEach(1, 2, "Addrs", Bytes), GetPacked(2, 0, "Weights", Uint32)>>
SplitContractInfo ==
    Forward(MarshalSplitContractInfo, SizeSplitContractInfo, UnmarshalSplitContractInfo)

MarshalTxOutDetail_SplitContractInfo ==
    <<Put(\h3A, "SplitContractInfo", Message("rpcpb.SplitContractInfo"))>>
SizeTxOutDetail_SplitContractInfo ==
    <<Add(1, "SplitContractInfo", Message("rpcpb.SplitContractInfo"))>>

MarshalLogDetail ==
    <<Put(\h0A, "Address", Bytes), PutEach(\h12, "Topics", Bytes), Put(\h1A, "Data", Bytes),
      Put(\h20, "BlockNumber", Uint64), Put(\h2A, "TxHash", Bytes),
      Put(\h30, "TxIndex", Uint32), Put(\h3A, "BlockHash", Bytes),
      Put(\h40, "Index", Uint32), Put(\h48, "Removed", Bool)>>
SizeLogDetail ==
    <<Add(1, "Address", Bytes), AddEach(1, "Topics", Bytes), Add(1, "Data", Bytes),
      Add(1, "BlockNumber", Uint64), Add(1, "TxHash", Bytes), Add(1, "TxIndex", Uint32),
      Add(1, "BlockHash", Bytes), Add(1, "Index", Uint32), Add(1, "Removed", Bool)>>
UnmarshalLogDetail ==
    <<Get(1, 2, "Address", Bytes), GetEach(2, 2, "Topics", Bytes), Get(3, 2, "Data", Bytes),
      Get(4, 0, "BlockNumber", Uint64), Get(5, 2, "TxHash", Bytes),
      Get(6, 0, "TxIndex", Uint32), Get(7, 2, "BlockHash", Bytes),
      Get(8, 0, "Index", Uint32), Get(9, 0, "Removed", Bool)>>
LogDetail == Forward(MarshalLogDetail, SizeLogDetail, UnmarshalLogDetail)

MarshalContractInfo ==
    <<Put(\h10, "Failed", Bool), Put(\h18, "GasLimit", Uint64),
      Put(\h20, "GasUsed", Uint64), Put(\h28, "Nonce", Uint64), Put(\h32, "Data", Bytes),
      PutEach(\h3A, "InternalTxs", Bytes),
      PutEach(\h42, "Logs", Message("rpcpb.LogDetail")), Put(\h4A, "ErrMsg", Bytes)>>
SizeContractInfo ==
    <<Add(1, "Failed", Bool), Add(1, "GasLimit", Uint64), Add(1, "GasUsed", Uint64),
      Add(1, "Nonce", Uint64), Add(1, "Data", Bytes), AddEach(1, "InternalTxs", Bytes),
      AddEach(1, "Logs", Message("rpcpb.LogDetail")), Add(1, "ErrMsg", Bytes)>>
UnmarshalContractInfo ==
    <<Get(2, 0, "Failed", Bool), Get(3, 0, "GasLimit", Uint64),
      Get(4, 0, "GasUsed", Uint64), Get(5, 0, "Nonce", Uint64), Get(6, 2, "Data", Bytes),
      GetEach(7, 2, "InternalTxs", Bytes),
      GetEach(8, 2, "Logs", Message("rpcpb.LogDetail")), Get(9, 2, "ErrMsg", Bytes)>>
ContractInfo == Forward(MarshalContractInfo, SizeContractInfo, UnmarshalContractInfo)

MarshalTxOutDetail_ContractInfo ==
    <<Put(\h42, "ContractInfo", Message("rpcpb.ContractInfo"))>>
SizeTxOutDetail_ContractInfo == <<Add(1, "ContractInfo", Message("rpcpb.ContractInfo"))>>

MarshalTxOutDetail ==
    <<Put(\h0A, "Addr", Bytes), Put(\h10, "Value", Uint64),
      Put(\h1A, "ScriptDisasm", Bytes), Put(\h20, "Type", Int32),
      PutOneof("Appendix", [TokenIssueInfo |-> MarshalTxOutDetail_TokenIssueInfo,
            TokenTransferInfo |-> MarshalTxOutDetail_TokenTransferInfo,
            SplitContractInfo |-> MarshalTxOutDetail_SplitContractInfo,
            ContractInfo |-> MarshalTxOutDetail_ContractInfo])>>
SizeTxOutDetail ==
    <<Add(1, "Addr", Bytes), Add(1, "Value", Uint64), Add(1, "ScriptDisasm", Bytes),
      Add(1, "Type", Int32),
      AddOneof("Appendix", [TokenIssueInfo |-> SizeTxOutDetail_TokenIssueInfo,
            TokenTransferInfo |-> SizeTxOutDetail_TokenTransferInfo,
            SplitContractInfo |-> SizeTxOutDetail_SplitContractInfo,
            ContractInfo |-> SizeTxOutDetail_ContractInfo])>>
UnmarshalTxOutDetail ==
    <<Get(1, 2, "Addr", Bytes), Get(2, 0, "Value", Uint64),
      Get(3, 2, "ScriptDisasm", Bytes), Get(4, 0, "Type", Int32),
      GetOneof(5, 2, "Appendix", "TokenIssueInfo", Message("rpcpb.TokenIssueInfo")),
      GetOneof(6, 2, "Appendix", "TokenTransferInfo", Message("rpcpb.TokenTransferInfo")),
      GetOneof(7, 2, "Appendix", "SplitContractInfo", Message("rpcpb.SplitContractInfo")),
      GetOneof(8, 2, "Appendix", "ContractInfo", Message("rpcpb.ContractInfo"))>>
TxOutDetail == Forward(MarshalTxOutDetail, SizeTxOutDetail, UnmarshalTxOutDetail)

MarshalTxInDetail ==
    <<Put(\h0A, "PrevOutDetail", Message("rpcpb.TxOutDetail")),
      Put(\h12, "ScriptSig", Bytes), Put(\h18, "Sequence", Uint32),
      Put(\h22, "PrevOutPoint", Bytes)>>
SizeTxInDetail ==
    <<Add(1, "PrevOutDetail", Message("rpcpb.TxOutDetail")), Add(1, "ScriptSig", Bytes),
      Add(1, "Sequence", Uint32), Add(1, "PrevOutPoint", Bytes)>>
UnmarshalTxInDetail ==
    <<Get(1, 2, "PrevOutDetail", Message("rpcpb.TxOutDetail")),
      Get(2, 2, "ScriptSig", Bytes), Get(3, 0, "Sequence", Uint32),
      Get(4, 2, "PrevOutPoint", Bytes)>>
TxInDetail == Forward(MarshalTxInDetail, SizeTxInDetail, UnmarshalTxInDetail)

MarshalTxDetail ==
    <<Put(\h0A, "Hash", Bytes), Put(\h10, "Fee", Uint64), Put(\h18, "Type", Int32),
      PutEach(\h22, "Vin", Message("rpcpb.TxInDetail")),
      PutEach(\h2A, "Vout", Message("rpcpb.TxOutDetail"))>>
SizeTxDetail ==
    <<Add(1, "Hash", Bytes), Add(1, "Fee", Uint64), Add(1, "Type", Int32),
      AddEach(1, "Vin", Message("rpcpb.TxInDetail")),
      AddEach(1, "Vout", Message("rpcpb.TxOutDetail"))>>
UnmarshalTxDetail ==
    <<Get(1, 2, "Hash", Bytes), Get(2, 0, "Fee", Uint64), Get(3, 0, "Type", Int32),
      GetEach(4, 2, "Vin", Message("rpcpb.TxInDetail")),
      GetEach(5, 2, "Vout", Message("rpcpb.TxOutDetail"))>>
TxDetail == Forward(MarshalTxDetail, SizeTxDetail, UnmarshalTxDetail)

MarshalBlockDetail ==
    <<Put(\h08, "Version", Int32), Put(\h10, "Height", Uint32),
      Put(\h18, "TimeStamp", Int64), Put(\h20, "Size_", Uint32), Put(\h2A, "Hash", Bytes),
      Put(\h32, "PrevBlockHash", Bytes), Put(\h3A, "CoinBase", Bytes),
      Put(\h40, "Confirmed", Bool), Put(\h52, "Signature", Bytes),
      PutEach(\h5A, "Txs", Message("rpcpb.TxDetail")),
      PutEach(\h62, "InternalTxs", Message("rpcpb.TxDetail"))>>
SizeBlockDetail ==
    <<Add(1, "Version", Int32), Add(1, "Height", Uint32), Add(1, "TimeStamp", Int64),
      Add(1, "Size_", Uint32), Add(1, "Hash", Bytes), Add(1, "PrevBlockHash", Bytes),
      Add(1, "CoinBase", Bytes), Add(1, "Confirmed", Bool), Add(1, "Signature", Bytes),
      AddEach(1, "Txs", Message("rpcpb.TxDetail")),
      AddEach(1, "InternalTxs", Message("rpcpb.TxDetail"))>>
UnmarshalBlockDetail ==
    <<Get(1, 0, "Version", Int32), Get(2, 0, "Height", Uint32),
      Get(3, 0, "TimeStamp", Int64), Get(4, 0, "Size_", Uint32), Get(5, 2, "Hash", Bytes),
      Get(6, 2, "PrevBlockHash", Bytes), Get(7, 2, "CoinBase", Bytes),
      Get(8, 0, "Confirmed", Bool), Get(10, 2, "Signature", Bytes),
      GetEach(11, 2, "Txs", Message("rpcpb.TxDetail")),
      GetEach(12, 2, "InternalTxs", Message("rpcpb.TxDetail"))>>
BlockDetail == Forward(MarshalBlockDetail, SizeBlockDetail, UnmarshalBlockDetail)

MarshalListenedData_Block == <<Put(\h12, "Block", Message("rpcpb.BlockDetail"))>>
SizeListenedData_Block == <<Add(1, "Block", Message("rpcpb.BlockDetail"))>>

MarshalLogDetails == <<PutEach(\h0A, "Logs", Message("rpcpb.LogDetail"))>>
SizeLogDetails == <<AddEach(1, "Logs", Message("rpcpb.LogDetail"))>>
UnmarshalLogDetails == <<GetEach(1, 2, "Logs", Message("rpcpb.LogDetail"))>>
LogDetails == Forward(MarshalLogDetails, SizeLogDetails, UnmarshalLogDetails)

MarshalListenedData_Logs == <<Put(\h1A, "Logs", Message("rpcpb.LogDetails"))>>
SizeListenedData_Logs == <<Add(1, "Logs", Message("rpcpb.LogDetails"))>>

MarshalRegisterDetails == <<Put(\h0A, "Uid", Bytes)>>
SizeRegisterDetails == <<Add(1, "Uid", Bytes)>>
UnmarshalRegisterDetails == <<Get(1, 2, "Uid", Bytes)>>
RegisterDetails ==
    Forward(MarshalRegisterDetails, SizeRegisterDetails, UnmarshalRegisterDetails)

MarshalListenedData_Info == <<Put(\h22, "Info", Message("rpcpb.RegisterDetails"))>>
SizeListenedData_Info == <<Add(1, "Info", Message("rpcpb.RegisterDetails"))>>

MarshalListenedData ==
    <<Put(\h08, "Type", Uint32), PutOneof("Data", [Block |-> MarshalListenedData_Block,
            Logs |-> MarshalListenedData_Logs,
            Info |-> MarshalListenedData_Info])>>
SizeListenedData ==
    <<Add(1, "Type", Uint32), AddOneof("Data", [Block |-> SizeListenedData_Block,
            Logs |-> SizeListenedData_Logs,
            Info |-> SizeListenedData_Info])>>
UnmarshalListenedData ==
    <<Get(1, 0, "Type", Uint32),
      GetOneof(2, 2, "Data", "Block", Message("rpcpb.BlockDetail")),
      GetOneof(3, 2, "Data", "Logs", Message("rpcpb.LogDetails")),
      GetOneof(4, 2, "Data", "Info", Message("rpcpb.RegisterDetails"))>>
ListenedData == Forward(MarshalListenedData, SizeListenedData, UnmarshalListenedData)

MarshalViewTxDetailReq == <<Put(\h0A, "Hash", Bytes), Put(\h10, "SpreadSplit", Bool)>>
SizeViewTxDetailReq == <<Add(1, "Hash", Bytes), Add(1, "SpreadSplit", Bool)>>
UnmarshalViewTxDetailReq == <<Get(1, 2, "Hash", Bytes), Get(2, 0, "SpreadSplit", Bool)>>
ViewTxDetailReq ==
    Forward(MarshalViewTxDetailReq, SizeViewTxDetailReq, UnmarshalViewTxDetailReq)

MarshalViewTxDetailResp ==
    <<Put(\h08, "Code", Int32), Put(\h12, "Message", Bytes), Put(\h18, "Version", Int32),
      Put(\h20, "BlockTime", Int64), Put(\h28, "BlockHeight", Uint32),
      Put(\h30, "Status", Int32), Put(\h3A, "Detail", Message("rpcpb.TxDetail"))>>
SizeViewTxDetailResp ==
    <<Add(1, "Code", Int32), Add(1, "Message", Bytes), Add(1, "Version", Int32),
      Add(1, "BlockTime", Int64), Add(1, "BlockHeight", Uint32), Add(1, "Status", Int32),
      Add(1, "Detail", Message("rpcpb.TxDetail"))>>
UnmarshalViewTxDetailResp ==
    <<Get(1, 0, "Code", Int32), Get(2, 2, "Message", Bytes), Get(3, 0, "Version", Int32),
      Get(4, 0, "BlockTime", Int64), Get(5, 0, "BlockHeight", Uint32),
      Get(6, 0, "Status", Int32), Get(7, 2, "Detail", Message("rpcpb.TxDetail"))>>
ViewTxDetailResp ==
    Forward(MarshalViewTxDetailResp, SizeViewTxDetailResp, UnmarshalViewTxDetailResp)

MarshalViewBlockDetailReq == <<Put(\h0A, "Hash", Bytes), Put(\h10, "Height", Uint32)>>
SizeViewBlockDetailReq == <<Add(1, "Hash", Bytes), Add(1, "Height", Uint32)>>
UnmarshalViewBlockDetailReq == <<Get(1, 2, "Hash", Bytes), Get(2, 0, "Height", Uint32)>>
ViewBlockDetailReq ==
    Forward(MarshalViewBlockDetailReq, SizeViewBlockDetailReq, UnmarshalViewBlockDetailReq)

MarshalViewBlockDetailResp ==
    <<Put(\h08, "Code", Int32), Put(\h12, "Message", Bytes),
      Put(\h1A, "Detail", Message("rpcpb.BlockDetail"))>>
SizeViewBlockDetailResp ==
    <<Add(1, "Code", Int32), Add(1, "Message", Bytes),
      Add(1, "Detail", Message("rpcpb.BlockDetail"))>>
UnmarshalViewBlockDetailResp ==
    <<Get(1, 0, "Code", Int32), Get(2, 2, "Message", Bytes),
      Get(3, 2, "Detail", Message("rpcpb.BlockDetail"))>>
ViewBlockDetailResp ==
    Forward(MarshalViewBlockDetailResp, SizeViewBlockDetailResp, UnmarshalViewBlockDetailResp)

MarshalListenBlocksReq == <<>>
SizeListenBlocksReq == <<>>
UnmarshalListenBlocksReq == <<>>
ListenBlocksReq ==
    Forward(MarshalListenBlocksReq, SizeListenBlocksReq, UnmarshalListenBlocksReq)

MarshalLogs ==
    <<Put(\h08, "Code", Int32), Put(\h12, "Message", Bytes),
      PutEach(\h1A, "Logs", Message("rpcpb.LogDetail"))>>
SizeLogs ==
    <<Add(1, "Code", Int32), Add(1, "Message", Bytes),
      AddEach(1, "Logs", Message("rpcpb.LogDetail"))>>
UnmarshalLogs ==
    <<Get(1, 0, "Code", Int32), Get(2, 2, "Message", Bytes),
      GetEach(3, 2, "Logs", Message("rpcpb.LogDetail"))>>
Logs == Forward(MarshalLogs, SizeLogs, UnmarshalLogs)

MarshalCallReq ==
    <<Put(\h0A, "From", Bytes), Put(\h12, "To", Bytes), Put(\h1A, "Data", Bytes),
      Put(\h20, "Height", Uint32), Put(\h28, "Timeout", Uint32)>>
SizeCallReq ==
    <<Add(1, "From", Bytes), Add(1, "To", Bytes), Add(1, "Data", Bytes),
      Add(1, "Height", Uint32), Add(1, "Timeout", Uint32)>>
UnmarshalCallReq ==
    <<Get(1, 2, "From", Bytes), Get(2, 2, "To", Bytes), Get(3, 2, "Data", Bytes),
      Get(4, 0, "Height", Uint32), Get(5, 0, "Timeout", Uint32)>>
CallReq == Forward(MarshalCallReq, SizeCallReq, UnmarshalCallReq)

MarshalCallResp ==
    <<Put(\h08, "Code", Int32), Put(\h12, "Message", Bytes), Put(\h1A, "Output", Bytes),
      Put(\h20, "Height", Int32)>>
SizeCallResp ==
    <<Add(1, "Code", Int32), Add(1, "Message", Bytes), Add(1, "Output", Bytes),
      Add(1, "Height", Int32)>>
UnmarshalCallResp ==
    <<Get(1, 0, "Code", Int32), Get(2, 2, "Message", Bytes), Get(3, 2, "Output", Bytes),
      Get(4, 0, "Height", Int32)>>
CallResp == Forward(MarshalCallResp, SizeCallResp, UnmarshalCallResp)

MarshalEstimateGasResp ==
    <<Put(\h08, "Code", Int32), Put(\h12, "Message", Bytes), Put(\h18, "Gas", Int32)>>
SizeEstimateGasResp ==
    <<Add(1, "Code", Int32), Add(1, "Message", Bytes), Add(1, "Gas", Int32)>>
UnmarshalEstimateGasResp ==
    <<Get(1, 0, "Code", Int32), Get(2, 2, "Message", Bytes), Get(3, 0, "Gas", Int32)>>
EstimateGasResp ==
    Forward(MarshalEstimateGasResp, SizeEstimateGasResp, UnmarshalEstimateGasResp)

MarshalNonceReq == <<Put(\h0A, "Addr", Bytes)>>
SizeNonceReq == <<Add(1, "Addr", Bytes)>>
UnmarshalNonceReq == <<Get(1, 2, "Addr", Bytes)>>
NonceReq == Forward(MarshalNonceReq, SizeNonceReq, UnmarshalNonceReq)

MarshalNonceResp ==
    <<Put(\h08, "Code", Int32), Put(\h12, "Message", Bytes), Put(\h18, "Nonce", Uint64)>>
SizeNonceResp ==
    <<Add(1, "Code", Int32), Add(1, "Message", Bytes), Add(1, "Nonce", Uint64)>>
UnmarshalNonceResp ==
    <<Get(1, 0, "Code", Int32), Get(2, 2, "Message", Bytes), Get(3, 0, "Nonce", Uint64)>>
NonceResp == Forward(MarshalNonceResp, SizeNonceResp, UnmarshalNonceResp)

MarshalTableReq == <<>>
SizeTableReq == <<>>
UnmarshalTableReq == <<>>
TableReq == Forward(MarshalTableReq, SizeTableReq, UnmarshalTableReq)

MarshalTableResp ==
    <<Put(\h08, "Code", Int32), Put(\h12, "Message", Bytes), PutEach(\h1A, "Table", Bytes)>>
SizeTableResp ==
    <<Add(1, "Code", Int32), Add(1, "Message", Bytes), AddEach(1, "Table", Bytes)>>
UnmarshalTableResp ==
    <<Get(1, 0, "Code", Int32), Get(2, 2, "Message", Bytes), GetEach(3, 2, "Table", Bytes)>>
TableResp == Forward(MarshalTableResp, SizeTableResp, UnmarshalTableResp)

MarshalGetCodeReq == <<Put(\h0A, "Address", Bytes)>>
SizeGetCodeReq == <<Add(1, "Address", Bytes)>>
UnmarshalGetCodeReq == <<Get(1, 2, "Address", Bytes)>>
GetCodeReq == Forward(MarshalGetCodeReq, SizeGetCodeReq, UnmarshalGetCodeReq)

MarshalGetCodeResp ==
    <<Put(\h08, "Code", Int32), Put(\h12, "Message", Bytes), Put(\h1A, "Data", Bytes)>>
SizeGetCodeResp ==
    <<Add(1, "Code", Int32), Add(1, "Message", Bytes), Add(1, "Data", Bytes)>>
UnmarshalGetCodeResp ==
    <<Get(1, 0, "Code", Int32), Get(2, 2, "Message", Bytes), Get(3, 2, "Data", Bytes)>>
GetCodeResp == Forward(MarshalGetCodeResp, SizeGetCodeResp, UnmarshalGetCodeResp)

MarshalStorageReq ==
    <<Put(\h0A, "Address", Bytes), Put(\h12, "Position", Bytes), Put(\h18, "Height", Uint32)>>
SizeStorageReq ==
    <<Add(1, "Address", Bytes), Add(1, "Position", Bytes), Add(1, "Height", Uint32)>>
UnmarshalStorageReq ==
    <<Get(1, 2, "Address", Bytes), Get(2, 2, "Position", Bytes), Get(3, 0, "Height", Uint32)>>
StorageReq == Forward(MarshalStorageReq, SizeStorageReq, UnmarshalStorageReq)

MarshalStorageResp ==
    <<Put(\h08, "Code", Int32), Put(\h12, "Message", Bytes), Put(\h1A, "Data", Bytes)>>
SizeStorageResp ==
    <<Add(1, "Code", Int32), Add(1, "Message", Bytes), Add(1, "Data", Bytes)>>
UnmarshalStorageResp ==
    <<Get(1, 0, "Code", Int32), Get(2, 2, "Message", Bytes), Get(3, 2, "Data", Bytes)>>
StorageResp == Forward(MarshalStorageResp, SizeStorageResp, UnmarshalStorageResp)

Messages ==
    ("rpcpb.RegisterReq" :> RegisterReq) @@ ("rpcpb.ListenedData" :> ListenedData)
      @@ ("rpcpb.RegisterDetails" :> RegisterDetails)
      @@ ("rpcpb.ViewTxDetailReq" :> ViewTxDetailReq)
      @@ ("rpcpb.ViewTxDetailResp" :> ViewTxDetailResp)
      @@ ("rpcpb.ViewBlockDetailReq" :> ViewBlockDetailReq)
      @@ ("rpcpb.ViewBlockDetailResp" :> ViewBlockDetailResp)
      @@ ("rpcpb.ContractInfo" :> ContractInfo)
      @@ ("rpcpb.ListenBlocksReq" :> ListenBlocksReq) @@ ("rpcpb.LogsReq" :> LogsReq)
      @@ ("rpcpb.LogsReqTopiclist" :> LogsReqTopiclist) @@ ("rpcpb.Logs" :> Logs)
      @@ ("rpcpb.LogDetails" :> LogDetails) @@ ("rpcpb.LogDetail" :> LogDetail)
      @@ ("rpcpb.TxDetail" :> TxDetail) @@ ("rpcpb.TxInDetail" :> TxInDetail)
      @@ ("rpcpb.TxOutDetail" :> TxOutDetail) @@ ("rpcpb.BlockDetail" :> BlockDetail)
      @@ ("rpcpb.TokenIssueInfo" :> TokenIssueInfo)
      @@ ("rpcpb.SplitContractInfo" :> SplitContractInfo)
      @@ ("rpcpb.TokenTransferInfo" :> TokenTransferInfo) @@ ("rpcpb.CallReq" :> CallReq)
      @@ ("rpcpb.CallResp" :> CallResp) @@ ("rpcpb.EstimateGasResp" :> EstimateGasResp)
      @@ ("rpcpb.NonceReq" :> NonceReq) @@ ("rpcpb.NonceResp" :> NonceResp)
      @@ ("rpcpb.TableReq" :> TableReq) @@ ("rpcpb.TableResp" :> TableResp)
      @@ ("rpcpb.GetCodeReq" :> GetCodeReq) @@ ("rpcpb.GetCodeResp" :> GetCodeResp)
      @@ ("rpcpb.StorageReq" :> StorageReq) @@ ("rpcpb.StorageResp" :> StorageResp)

=============================================================================

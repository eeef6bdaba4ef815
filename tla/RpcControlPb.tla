---------------------------- MODULE RpcControlPb ----------------------------
(*****************************************************************************)
(* The generated code of the control, database and faucet services of the    *)
(* RPC server (rpc/pb).  For each message: the fields its MarshalTo          *)
(* writes, in order and with the key of the source; the fields its Size      *)
(* counts, with the length of the key; and the cases of its Unmarshal,       *)
(* with the wire type each demands.                                          *)
(*****************************************************************************)
EXTENDS Wire

MarshalDebugLevelRequest == <<Put(\h0A, "Level", Bytes)>>
SizeDebugLevelRequest == <<Add(1, "Level", Bytes)>>
UnmarshalDebugLevelRequest == <<Get(1, 2, "Level", Bytes)>>
DebugLevelRequest ==
    Forward(MarshalDebugLevelRequest, SizeDebugLevelRequest, UnmarshalDebugLevelRequest)

MarshalUpdateNetworkIDRequest == <<Put(\h08, "Id", Uint32)>>
SizeUpdateNetworkIDRequest == <<Add(1, "Id", Uint32)>>
UnmarshalUpdateNetworkIDRequest == <<Get(1, 0, "Id", Uint32)>>
UpdateNetworkIDRequest ==
    Forward(MarshalUpdateNetworkIDRequest, SizeUpdateNetworkIDRequest, UnmarshalUpdateNetworkIDRequest)

MarshalGetNetworkIDRequest == <<>>
SizeGetNetworkIDRequest == <<>>
UnmarshalGetNetworkIDRequest == <<>>
GetNetworkIDRequest ==
    Forward(MarshalGetNetworkIDRequest, SizeGetNetworkIDRequest, UnmarshalGetNetworkIDRequest)

MarshalGetNetworkIDResponse ==
    <<Put(\h08, "Code", Int32), Put(\h12, "Message", Bytes), Put(\h18, "Id", Uint32),
      Put(\h22, "Literal", Bytes)>>
SizeGetNetworkIDResponse ==
    <<Add(1, "Code", Int32), Add(1, "Message", Bytes), Add(1, "Id", Uint32),
      Add(1, "Literal", Bytes)>>
UnmarshalGetNetworkIDResponse ==
    <<Get(1, 0, "Code", Int32), Get(2, 2, "Message", Bytes), Get(3, 0, "Id", Uint32),
      Get(4, 2, "Literal", Bytes)>>
GetNetworkIDResponse ==
    Forward(MarshalGetNetworkIDResponse, SizeGetNetworkIDResponse, UnmarshalGetNetworkIDResponse)

MarshalAddNodeRequest == <<Put(\h0A, "Node", Bytes)>>
SizeAddNodeRequest == <<Add(1, "Node", Bytes)>>
UnmarshalAddNodeRequest == <<Get(1, 2, "Node", Bytes)>>
AddNodeRequest ==
    Forward(MarshalAddNodeRequest, SizeAddNodeRequest, UnmarshalAddNodeRequest)

MarshalGetCurrentBlockHeightRequest == <<>>
SizeGetCurrentBlockHeightRequest == <<>>
UnmarshalGetCurrentBlockHeightRequest == <<>>
GetCurrentBlockHeightRequest ==
    Forward(MarshalGetCurrentBlockHeightRequest,
            SizeGetCurrentBlockHeightRequest, UnmarshalGetCurrentBlockHeightRequest)

MarshalGetCurrentBlockHeightResponse ==
    <<Put(\h08, "Code", Int32), Put(\h12, "Message", Bytes), Put(\h18, "Height", Uint32)>>
SizeGetCurrentBlockHeightResponse ==
    <<Add(1, "Code", Int32), Add(1, "Message", Bytes), Add(1, "Height", Uint32)>>
UnmarshalGetCurrentBlockHeightResponse ==
    <<Get(1, 0, "Code", Int32), Get(2, 2, "Message", Bytes), Get(3, 0, "Height", Uint32)>>
GetCurrentBlockHeightResponse ==
    Forward(MarshalGetCurrentBlockHeightResponse,
            SizeGetCurrentBlockHeightResponse, UnmarshalGetCurrentBlockHeightResponse)

MarshalGetCurrentBlockHashRequest == <<>>
SizeGetCurrentBlockHashRequest == <<>>
UnmarshalGetCurrentBlockHashRequest == <<>>
GetCurrentBlockHashRequest ==
    Forward(MarshalGetCurrentBlockHashRequest,
            SizeGetCurrentBlockHashRequest, UnmarshalGetCurrentBlockHashRequest)

MarshalGetCurrentBlockHashResponse ==
    <<Put(\h08, "Code", Int32), Put(\h12, "Message", Bytes), Put(\h1A, "Hash", Bytes)>>
SizeGetCurrentBlockHashResponse ==
    <<Add(1, "Code", Int32), Add(1, "Message", Bytes), Add(1, "Hash", Bytes)>>
UnmarshalGetCurrentBlockHashResponse ==
    <<Get(1, 0, "Code", Int32), Get(2, 2, "Message", Bytes), Get(3, 2, "Hash", Bytes)>>
GetCurrentBlockHashResponse ==
    Forward(MarshalGetCurrentBlockHashResponse,
            SizeGetCurrentBlockHashResponse, UnmarshalGetCurrentBlockHashResponse)

MarshalGetBlockHashRequest == <<Put(\h08, "Height", Uint32)>>
SizeGetBlockHashRequest == <<Add(1, "Height", Uint32)>>
UnmarshalGetBlockHashRequest == <<Get(1, 0, "Height", Uint32)>>
GetBlockHashRequest ==
    Forward(MarshalGetBlockHashRequest, SizeGetBlockHashRequest, UnmarshalGetBlockHashRequest)

MarshalGetBlockHashResponse ==
    <<Put(\h08, "Code", Int32), Put(\h12, "Message", Bytes), Put(\h1A, "Hash", Bytes)>>
SizeGetBlockHashResponse ==
    <<Add(1, "Code", Int32), Add(1, "Message", Bytes), Add(1, "Hash", Bytes)>>
UnmarshalGetBlockHashResponse ==
    <<Get(1, 0, "Code", Int32), Get(2, 2, "Message", Bytes), Get(3, 2, "Hash", Bytes)>>
GetBlockHashResponse ==
    Forward(MarshalGetBlockHashResponse, SizeGetBlockHashResponse, UnmarshalGetBlockHashResponse)

MarshalGetBlockRequest == <<Put(\h0A, "BlockHash", Bytes)>>
SizeGetBlockRequest == <<Add(1, "BlockHash", Bytes)>>
UnmarshalGetBlockRequest == <<Get(1, 2, "BlockHash", Bytes)>>
GetBlockRequest ==
    Forward(MarshalGetBlockRequest, SizeGetBlockRequest, UnmarshalGetBlockRequest)

MarshalGetBlockHeaderResponse ==
    <<Put(\h08, "Code", Int32), Put(\h12, "Message", Bytes),
      Put(\h1A, "Header", Message("corepb.BlockHeader"))>>
SizeGetBlockHeaderResponse ==
    <<Add(1, "Code", Int32), Add(1, "Message", Bytes),
      Add(1, "Header", Message("corepb.BlockHeader"))>>
UnmarshalGetBlockHeaderResponse ==
    <<Get(1, 0, "Code", Int32), Get(2, 2, "Message", Bytes),
      Get(3, 2, "Header", Message("corepb.BlockHeader"))>>
GetBlockHeaderResponse ==
    Forward(MarshalGetBlockHeaderResponse, SizeGetBlockHeaderResponse, UnmarshalGetBlockHeaderResponse)

MarshalNode ==
    <<Put(\h0A, "Id", Bytes), PutEach(\h12, "Addrs", Bytes), Put(\h1A, "Ttl", Bytes)>>
SizeNode == <<Add(1, "Id", Bytes), AddEach(1, "Addrs", Bytes), Add(1, "Ttl", Bytes)>>
UnmarshalNode ==
    <<Get(1, 2, "Id", Bytes), GetEach(2, 2, "Addrs", Bytes), Get(3, 2, "Ttl", Bytes)>>
Node == Forward(MarshalNode, SizeNode, UnmarshalNode)

MarshalGetNodeInfoRequest == <<>>
SizeGetNodeInfoRequest == <<>>
UnmarshalGetNodeInfoRequest == <<>>
GetNodeInfoRequest ==
    Forward(MarshalGetNodeInfoRequest, SizeGetNodeInfoRequest, UnmarshalGetNodeInfoRequest)

MarshalGetNodeInfoResponse ==
    <<Put(\h08, "Code", Int32), Put(\h12, "Message", Bytes),
      PutEach(\h1A, "Nodes", Message("rpcpb.Node"))>>
SizeGetNodeInfoResponse ==
    <<Add(1, "Code", Int32), Add(1, "Message", Bytes),
      AddEach(1, "Nodes", Message("rpcpb.Node"))>>
UnmarshalGetNodeInfoResponse ==
    <<Get(1, 0, "Code", Int32), Get(2, 2, "Message", Bytes),
      GetEach(3, 2, "Nodes", Message("rpcpb.Node"))>>
GetNodeInfoResponse ==
    Forward(MarshalGetNodeInfoResponse, SizeGetNodeInfoResponse, UnmarshalGetNodeInfoResponse)

MarshalGetTxCountReq == <<Put(\h08, "BlockHeight", Uint32), Put(\h12, "BlockHash", Bytes)>>
SizeGetTxCountReq == <<Add(1, "BlockHeight", Uint32), Add(1, "BlockHash", Bytes)>>
UnmarshalGetTxCountReq ==
    <<Get(1, 0, "BlockHeight", Uint32), Get(2, 2, "BlockHash", Bytes)>>
GetTxCountReq == Forward(MarshalGetTxCountReq, SizeGetTxCountReq, UnmarshalGetTxCountReq)

MarshalGetTxCountResp ==
    <<Put(\h08, "Code", Int32), Put(\h12, "Message", Bytes), Put(\h18, "Count", Uint32)>>
SizeGetTxCountResp ==
    <<Add(1, "Code", Int32), Add(1, "Message", Bytes), Add(1, "Count", Uint32)>>
UnmarshalGetTxCountResp ==
    <<Get(1, 0, "Code", Int32), Get(2, 2, "Message", Bytes), Get(3, 0, "Count", Uint32)>>
GetTxCountResp ==
    Forward(MarshalGetTxCountResp, SizeGetTxCountResp, UnmarshalGetTxCountResp)

MarshalDelegate ==
    <<Put(\h0A, "Addr", Bytes), Put(\h10, "Votes", Uint64),
      Put(\h18, "PledgeAmount", Uint64), Put(\h20, "Score", Uint64),
      Put(\h28, "ContinualPeriods", Uint32), Put(\h30, "BlocksThisDynasty", Uint32),
      Put(\h38, "BlocksTotal", Uint32)>>
SizeDelegate ==
    <<Add(1, "Addr", Bytes), Add(1, "Votes", Uint64), Add(1, "PledgeAmount", Uint64),
      Add(1, "Score", Uint64), Add(1, "ContinualPeriods", Uint32),
      Add(1, "BlocksThisDynasty", Uint32), Add(1, "BlocksTotal", Uint32)>>
UnmarshalDelegate ==
    <<Get(1, 2, "Addr", Bytes), Get(2, 0, "Votes", Uint64),
      Get(3, 0, "PledgeAmount", Uint64), Get(4, 0, "Score", Uint64),
      Get(5, 0, "ContinualPeriods", Uint32), Get(6, 0, "BlocksThisDynasty", Uint32),
      Get(7, 0, "BlocksTotal", Uint32)>>
Delegate == Forward(MarshalDelegate, SizeDelegate, UnmarshalDelegate)

MarshalPeerIDReq == <<>>
SizePeerIDReq == <<>>
UnmarshalPeerIDReq == <<>>
PeerIDReq == Forward(MarshalPeerIDReq, SizePeerIDReq, UnmarshalPeerIDReq)

MarshalPeerIDResp ==
    <<Put(\h08, "Code", Int32), Put(\h12, "Message", Bytes), Put(\h1A, "Peerid", Bytes)>>
SizePeerIDResp ==
    <<Add(1, "Code", Int32), Add(1, "Message", Bytes), Add(1, "Peerid", Bytes)>>
UnmarshalPeerIDResp ==
    <<Get(1, 0, "Code", Int32), Get(2, 2, "Message", Bytes), Get(3, 2, "Peerid", Bytes)>>
PeerIDResp == Forward(MarshalPeerIDResp, SizePeerIDResp, UnmarshalPeerIDResp)

MarshalMinersReq == <<>>
SizeMinersReq == <<>>
UnmarshalMinersReq == <<>>
MinersReq == Forward(MarshalMinersReq, SizeMinersReq, UnmarshalMinersReq)

MarshalMinerDetail ==
    <<Put(\h0A, "Id", Bytes), Put(\h12, "Address", Bytes), PutEach(\h1A, "Iplist", Bytes)>>
SizeMinerDetail ==
    <<Add(1, "Id", Bytes), Add(1, "Address", Bytes), AddEach(1, "Iplist", Bytes)>>
UnmarshalMinerDetail ==
    <<Get(1, 2, "Id", Bytes), Get(2, 2, "Address", Bytes), GetEach(3, 2, "Iplist", Bytes)>>
MinerDetail == Forward(MarshalMinerDetail, SizeMinerDetail, UnmarshalMinerDetail)

MarshalMinersResp ==
    <<Put(\h08, "Code", Int32), Put(\h12, "Message", Bytes),
      PutEach(\h1A, "Miners", Message("rpcpb.MinerDetail"))>>
SizeMinersResp ==
    <<Add(1, "Code", Int32), Add(1, "Message", Bytes),
      AddEach(1, "Miners", Message("rpcpb.MinerDetail"))>>
UnmarshalMinersResp ==
    <<Get(1, 0, "Code", Int32), Get(2, 2, "Message", Bytes),
      GetEach(3, 2, "Miners", Message("rpcpb.MinerDetail"))>>
MinersResp == Forward(MarshalMinersResp, SizeMinersResp, UnmarshalMinersResp)

MarshalDelegatesReq == <<Put(\h08, "Type", Int32)>>
SizeDelegatesReq == <<Add(1, "Type", Int32)>>
UnmarshalDelegatesReq == <<Get(1, 0, "Type", Int32)>>
DelegatesReq == Forward(MarshalDelegatesReq, SizeDelegatesReq, UnmarshalDelegatesReq)

MarshalDelegatesResp ==
    <<Put(\h08, "Code", Int32), Put(\h12, "Message", Bytes),
      PutEach(\h1A, "Delegates", Message("rpcpb.Delegate"))>>
SizeDelegatesResp ==
    <<Add(1, "Code", Int32), Add(1, "Message", Bytes),
      AddEach(1, "Delegates", Message("rpcpb.Delegate"))>>
UnmarshalDelegatesResp ==
    <<Get(1, 0, "Code", Int32), Get(2, 2, "Message", Bytes),
      GetEach(3, 2, "Delegates", Message("rpcpb.Delegate"))>>
DelegatesResp == Forward(MarshalDelegatesResp, SizeDelegatesResp, UnmarshalDelegatesResp)

MarshalLatestConfirmedBlockReq == <<>>
SizeLatestConfirmedBlockReq == <<>>
UnmarshalLatestConfirmedBlockReq == <<>>
LatestConfirmedBlockReq ==
    Forward(MarshalLatestConfirmedBlockReq,
            SizeLatestConfirmedBlockReq, UnmarshalLatestConfirmedBlockReq)

MarshalLatestConfirmedBlockResp ==
    <<Put(\h08, "Code", Int32), Put(\h12, "Message", Bytes), Put(\h18, "Height", Uint32),
      Put(\h22, "Hash", Bytes)>>
SizeLatestConfirmedBlockResp ==
    <<Add(1, "Code", Int32), Add(1, "Message", Bytes), Add(1, "Height", Uint32),
      Add(1, "Hash", Bytes)>>
UnmarshalLatestConfirmedBlockResp ==
    <<Get(1, 0, "Code", Int32), Get(2, 2, "Message", Bytes), Get(3, 0, "Height", Uint32),
      Get(4, 2, "Hash", Bytes)>>
LatestConfirmedBlockResp ==
    Forward(MarshalLatestConfirmedBlockResp,
            SizeLatestConfirmedBlockResp, UnmarshalLatestConfirmedBlockResp)

MarshalGetDatabaseKeysRequest ==
    <<Put(\h0A, "Table", Bytes), Put(\h12, "Prefix", Bytes), Put(\h18, "Skip", Int32),
      Put(\h20, "Limit", Int32)>>
SizeGetDatabaseKeysRequest ==
    <<Add(1, "Table", Bytes), Add(1, "Prefix", Bytes), Add(1, "Skip", Int32),
      Add(1, "Limit", Int32)>>
UnmarshalGetDatabaseKeysRequest ==
    <<Get(1, 2, "Table", Bytes), Get(2, 2, "Prefix", Bytes), Get(3, 0, "Skip", Int32),
      Get(4, 0, "Limit", Int32)>>
GetDatabaseKeysRequest ==
    Forward(MarshalGetDatabaseKeysRequest, SizeGetDatabaseKeysRequest, UnmarshalGetDatabaseKeysRequest)

MarshalGetDatabaseKeysResponse ==
    <<Put(\h08, "Code", Int32), Put(\h12, "Message", Bytes), Put(\h18, "Skip", Int32),
      PutEach(\h22, "Keys", Bytes)>>
SizeGetDatabaseKeysResponse ==
    <<Add(1, "Code", Int32), Add(1, "Message", Bytes), Add(1, "Skip", Int32),
      AddEach(1, "Keys", Bytes)>>
UnmarshalGetDatabaseKeysResponse ==
    <<Get(1, 0, "Code", Int32), Get(2, 2, "Message", Bytes), Get(3, 0, "Skip", Int32),
      GetEach(4, 2, "Keys", Bytes)>>
GetDatabaseKeysResponse ==
    Forward(MarshalGetDatabaseKeysResponse,
            SizeGetDatabaseKeysResponse, UnmarshalGetDatabaseKeysResponse)

MarshalGetDatabaseValueRequest == <<Put(\h0A, "Table", Bytes), Put(\h12, "Key", Bytes)>>
SizeGetDatabaseValueRequest == <<Add(1, "Table", Bytes), Add(1, "Key", Bytes)>>
UnmarshalGetDatabaseValueRequest == <<Get(1, 2, "Table", Bytes), Get(2, 2, "Key", Bytes)>>
GetDatabaseValueRequest ==
    Forward(MarshalGetDatabaseValueRequest,
            SizeGetDatabaseValueRequest, UnmarshalGetDatabaseValueRequest)

MarshalGetDatabaseValueResponse ==
    <<Put(\h08, "Code", Int32), Put(\h12, "Message", Bytes), Put(\h1A, "Value", Bytes)>>
SizeGetDatabaseValueResponse ==
    <<Add(1, "Code", Int32), Add(1, "Message", Bytes), Add(1, "Value", Bytes)>>
UnmarshalGetDatabaseValueResponse ==
    <<Get(1, 0, "Code", Int32), Get(2, 2, "Message", Bytes), Get(3, 2, "Value", Bytes)>>
GetDatabaseValueResponse ==
    Forward(MarshalGetDatabaseValueResponse,
            SizeGetDatabaseValueResponse, UnmarshalGetDatabaseValueResponse)

MarshalClaimReq == <<Put(\h0A, "Addr", Bytes), Put(\h10, "Amount", Uint64)>>
SizeClaimReq == <<Add(1, "Addr", Bytes), Add(1, "Amount", Uint64)>>
UnmarshalClaimReq == <<Get(1, 2, "Addr", Bytes), Get(2, 0, "Amount", Uint64)>>
ClaimReq == Forward(MarshalClaimReq, SizeClaimReq, UnmarshalClaimReq)

MarshalClaimResp ==
    <<Put(\h08, "Code", Int32), Put(\h12, "Message", Bytes), Put(\h1A, "Hash", Bytes)>>
SizeClaimResp == <<Add(1, "Code", Int32), Add(1, "Message", Bytes), Add(1, "Hash", Bytes)>>
UnmarshalClaimResp ==
    <<Get(1, 0, "Code", Int32), Get(2, 2, "Message", Bytes), Get(3, 2, "Hash", Bytes)>>
ClaimResp == Forward(MarshalClaimResp, SizeClaimResp, UnmarshalClaimResp)

Messages ==
    ("rpcpb.DebugLevelRequest" :> DebugLevelRequest)
      @@ ("rpcpb.UpdateNetworkIDRequest" :> UpdateNetworkIDRequest)
      @@ ("rpcpb.GetNetworkIDRequest" :> GetNetworkIDRequest)
      @@ ("rpcpb.GetNetworkIDResponse" :> GetNetworkIDResponse)
      @@ ("rpcpb.AddNodeRequest" :> AddNodeRequest)
      @@ ("rpcpb.GetCurrentBlockHeightRequest" :> GetCurrentBlockHeightRequest)
      @@ ("rpcpb.GetCurrentBlockHeightResponse" :> GetCurrentBlockHeightResponse)
      @@ ("rpcpb.GetCurrentBlockHashRequest" :> GetCurrentBlockHashRequest)
      @@ ("rpcpb.GetCurrentBlockHashResponse" :> GetCurrentBlockHashResponse)
      @@ ("rpcpb.GetBlockHashRequest" :> GetBlockHashRequest)
      @@ ("rpcpb.GetBlockHashResponse" :> GetBlockHashResponse)
      @@ ("rpcpb.GetBlockRequest" :> GetBlockRequest)
      @@ ("rpcpb.GetBlockHeaderResponse" :> GetBlockHeaderResponse)
      @@ ("rpcpb.Node" :> Node) @@ ("rpcpb.GetNodeInfoRequest" :> GetNodeInfoRequest)
      @@ ("rpcpb.GetNodeInfoResponse" :> GetNodeInfoResponse)
      @@ ("rpcpb.GetTxCountReq" :> GetTxCountReq)
      @@ ("rpcpb.GetTxCountResp" :> GetTxCountResp) @@ ("rpcpb.Delegate" :> Delegate)
      @@ ("rpcpb.PeerIDReq" :> PeerIDReq) @@ ("rpcpb.PeerIDResp" :> PeerIDResp)
      @@ ("rpcpb.MinersReq" :> MinersReq) @@ ("rpcpb.MinersResp" :> MinersResp)
      @@ ("rpcpb.MinerDetail" :> MinerDetail) @@ ("rpcpb.DelegatesReq" :> DelegatesReq)
      @@ ("rpcpb.DelegatesResp" :> DelegatesResp)
      @@ ("rpcpb.LatestConfirmedBlockReq" :> LatestConfirmedBlockReq)
      @@ ("rpcpb.LatestConfirmedBlockResp" :> LatestConfirmedBlockResp)
      @@ ("rpcpb.GetDatabaseKeysRequest" :> GetDatabaseKeysRequest)
      @@ ("rpcpb.GetDatabaseKeysResponse" :> GetDatabaseKeysResponse)
      @@ ("rpcpb.GetDatabaseValueRequest" :> GetDatabaseValueRequest)
      @@ ("rpcpb.GetDatabaseValueResponse" :> GetDatabaseValueResponse)
      @@ ("rpcpb.ClaimReq" :> ClaimReq) @@ ("rpcpb.ClaimResp" :> ClaimResp)

=============================================================================

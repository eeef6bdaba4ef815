-------------------------------- MODULE P2pPb --------------------------------
(*****************************************************************************)
(* The generated code of the message header and the peer records of the      *)
(* network layer (p2p/pb).  For each message: the fields its MarshalTo       *)
(* writes, in order and with the key of the source; the fields its Size      *)
(* counts, with the length of the key; and the cases of its Unmarshal,       *)
(* with the wire type each demands.                                          *)
(*****************************************************************************)
EXTENDS Wire

MarshalMessageHeader ==
    <<Put(\h08, "Magic", Uint32), Put(\h10, "Code", Uint32),
      Put(\h18, "DataLength", Uint32), Put(\h20, "DataChecksum", Uint32),
      Put(\h2A, "Reserved", Bytes)>>
SizeMessageHeader ==
    <<Add(1, "Magic", Uint32), Add(1, "Code", Uint32), Add(1, "DataLength", Uint32),
      Add(1, "DataChecksum", Uint32), Add(1, "Reserved", Bytes)>>
UnmarshalMessageHeader ==
    <<Get(1, 0, "Magic", Uint32), Get(2, 0, "Code", Uint32),
      Get(3, 0, "DataLength", Uint32), Get(4, 0, "DataChecksum", Uint32),
      Get(5, 2, "Reserved", Bytes)>>
MessageHeader == Backward(MarshalMessageHeader, SizeMessageHeader, UnmarshalMessageHeader)

MarshalPeerInfo == <<Put(\h0A, "Id", Bytes), PutEach(\h12, "Addrs", Bytes)>>
SizePeerInfo == <<Add(1, "Id", Bytes), AddEach(1, "Addrs", Bytes)>>
UnmarshalPeerInfo == <<Get(1, 2, "Id", Bytes), GetEach(2, 2, "Addrs", Bytes)>>
PeerInfo == Backward(MarshalPeerInfo, SizePeerInfo, UnmarshalPeerInfo)

MarshalPeers ==
    <<PutEach(\h0A, "Peers", Message("p2ppb.PeerInfo")), Put(\h10, "IsSynced", Bool)>>
SizePeers == <<AddEach(1, "Peers", Message("p2ppb.PeerInfo")), Add(1, "IsSynced", Bool)>>
UnmarshalPeers ==
    <<GetEach(1, 2, "Peers", Message("p2ppb.PeerInfo")), Get(2, 0, "IsSynced", Bool)>>
Peers == Backward(MarshalPeers, SizePeers, UnmarshalPeers)

Messages ==
    ("p2ppb.MessageHeader" :> MessageHeader) @@ ("p2ppb.Peers" :> Peers)
      @@ ("p2ppb.PeerInfo" :> PeerInfo)

==============================================================================

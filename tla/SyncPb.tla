------------------------------- MODULE SyncPb -------------------------------
(*****************************************************************************)
(* The generated code of the block synchronisation messages                  *)
(* (blocksync/pb).  For each message: the fields its MarshalTo writes, in    *)
(* order and with the key of the source; the fields its Size counts, with    *)
(* the length of the key; and the cases of its Unmarshal, with the wire      *)
(* type each demands.                                                        *)
(*****************************************************************************)
EXTENDS Wire

MarshalLocateHeaders == <<PutEach(\h0A, "Hashes", Bytes)>>
SizeLocateHeaders == <<AddEach(1, "Hashes", Bytes)>>
UnmarshalLocateHeaders == <<GetEach(1, 2, "Hashes", Bytes)>>
LocateHeaders == Forward(MarshalLocateHeaders, SizeLocateHeaders, UnmarshalLocateHeaders)

MarshalSyncHeaders == <<PutEach(\h0A, "Hashes", Bytes)>>
SizeSyncHeaders == <<AddEach(1, "Hashes", Bytes)>>
UnmarshalSyncHeaders == <<GetEach(1, 2, "Hashes", Bytes)>>
SyncHeaders == Forward(MarshalSyncHeaders, SizeSyncHeaders, UnmarshalSyncHeaders)

MarshalCheckHash == <<Put(\h0A, "BeginHash", Bytes), Put(\h10, "Length", Uint32)>>
SizeCheckHash == <<Add(1, "BeginHash", Bytes), Add(1, "Length", Uint32)>>
UnmarshalCheckHash == <<Get(1, 2, "BeginHash", Bytes), Get(2, 0, "Length", Uint32)>>
CheckHash == Forward(MarshalCheckHash, SizeCheckHash, UnmarshalCheckHash)

MarshalSyncCheckHash == <<Put(\h0A, "RootHash", Bytes)>>
SizeSyncCheckHash == <<Add(1, "RootHash", Bytes)>>
UnmarshalSyncCheckHash == <<Get(1, 2, "RootHash", Bytes)>>
SyncCheckHash == Forward(MarshalSyncCheckHash, SizeSyncCheckHash, UnmarshalSyncCheckHash)

MarshalFetchBlockHeaders ==
    <<Put(\h08, "Idx", Uint32), Put(\h12, "BeginHash", Bytes), Put(\h18, "Length", Uint32)>>
SizeFetchBlockHeaders ==
    <<Add(1, "Idx", Uint32), Add(1, "BeginHash", Bytes), Add(1, "Length", Uint32)>>
UnmarshalFetchBlockHeaders ==
    <<Get(1, 0, "Idx", Uint32), Get(2, 2, "BeginHash", Bytes), Get(3, 0, "Length", Uint32)>>
FetchBlockHeaders ==
    Forward(MarshalFetchBlockHeaders, SizeFetchBlockHeaders, UnmarshalFetchBlockHeaders)

MarshalSyncBlocks ==
    <<Put(\h08, "Idx", Uint32), PutEach(\h12, "Blocks", Message("corepb.Block"))>>
SizeSyncBlocks == <<Add(1, "Idx", Uint32), AddEach(1, "Blocks", Message("corepb.Block"))>>
UnmarshalSyncBlocks ==
    <<Get(1, 0, "Idx", Uint32), GetEach(2, 2, "Blocks", Message("corepb.Block"))>>
SyncBlocks == Forward(MarshalSyncBlocks, SizeSyncBlocks, UnmarshalSyncBlocks)

Messages ==
    ("pb.LocateHeaders" :> LocateHeaders) @@ ("pb.SyncHeaders" :> SyncHeaders)
      @@ ("pb.CheckHash" :> CheckHash) @@ ("pb.SyncCheckHash" :> SyncCheckHash)
      @@ ("pb.FetchBlockHeaders" :> FetchBlockHeaders) @@ ("pb.SyncBlocks" :> SyncBlocks)

=============================================================================

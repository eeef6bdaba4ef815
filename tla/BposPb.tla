------------------------------- MODULE BposPb -------------------------------
(*****************************************************************************)
(* The generated code of the consensus messages and dynasty records          *)
(* (consensus/bpos/pb).  For each message: the fields its MarshalTo          *)
(* writes, in order and with the key of the source; the fields its Size      *)
(* counts, with the length of the key; and the cases of its Unmarshal,       *)
(* with the wire type each demands.                                          *)
(*****************************************************************************)
EXTENDS Wire

MarshalDelegate ==
    <<Put(\h0A, "Addr", Bytes), Put(\h12, "PeerID", Bytes), Put(\h18, "Votes", Int64),
      Put(\h20, "PledgeAmount", Int64), Put(\h28, "Score", Int64),
      Put(\h30, "CurDynastyOutputNumber", Int64), Put(\h38, "TotalOutputNumber", Int64)>>
SizeDelegate ==
    <<Add(1, "Addr", Bytes), Add(1, "PeerID", Bytes), Add(1, "Votes", Int64),
      Add(1, "PledgeAmount", Int64), Add(1, "Score", Int64),
      Add(1, "CurDynastyOutputNumber", Int64), Add(1, "TotalOutputNumber", Int64)>>
UnmarshalDelegate ==
    <<Get(1, 2, "Addr", Bytes), Get(2, 2, "PeerID", Bytes), Get(3, 0, "Votes", Int64),
      Get(4, 0, "PledgeAmount", Int64), Get(5, 0, "Score", Int64),
      Get(6, 0, "CurDynastyOutputNumber", Int64), Get(7, 0, "TotalOutputNumber", Int64)>>
Delegate == Backward(MarshalDelegate, SizeDelegate, UnmarshalDelegate)

MarshalDynasty ==
    <<PutEach(\h0A, "Delegates", Message("bpospb.Delegate")), PutEach(\h12, "Addrs", Bytes),
      PutEach(\h1A, "Peers", Bytes)>>
SizeDynasty ==
    <<AddEach(1, "Delegates", Message("bpospb.Delegate")), AddEach(1, "Addrs", Bytes),
      AddEach(1, "Peers", Bytes)>>
UnmarshalDynasty ==
    <<GetEach(1, 2, "Delegates", Message("bpospb.Delegate")), GetEach(2, 2, "Addrs", Bytes),
      GetEach(3, 2, "Peers", Bytes)>>
Dynasty == Backward(MarshalDynasty, SizeDynasty, UnmarshalDynasty)

MarshalEternalBlockMsg ==
    <<Put(\h0A, "Hash", Bytes), Put(\h10, "Timestamp", Int64), Put(\h1A, "Signature", Bytes)>>
SizeEternalBlockMsg ==
    <<Add(1, "Hash", Bytes), Add(1, "Timestamp", Int64), Add(1, "Signature", Bytes)>>
UnmarshalEternalBlockMsg ==
    <<Get(1, 2, "Hash", Bytes), Get(2, 0, "Timestamp", Int64), Get(3, 2, "Signature", Bytes)>>
EternalBlockMsg ==
    Backward(MarshalEternalBlockMsg, SizeEternalBlockMsg, UnmarshalEternalBlockMsg)

Messages ==
    ("bpospb.Dynasty" :> Dynasty) @@ ("bpospb.Delegate" :> Delegate)
      @@ ("bpospb.EternalBlockMsg" :> EternalBlockMsg)

=============================================================================

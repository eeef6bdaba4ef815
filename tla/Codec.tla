------------------------------- MODULE Codec -------------------------------
(***************************************************************************)
(* A message or an object of boxd on its way from one node to another, or  *)
(* through the database: Marshal on one side, Unmarshal on the other.      *)
(* Between the two the bytes arrive whole, or cut short (a stream that     *)
(* ends early, a record that was not written to its end), or carrying a    *)
(* field the receiver does not know (a peer running a later version), or,  *)
(* for a network frame, with a byte of the body changed.                   *)
(***************************************************************************)
EXTENDS Objects

CONSTANTS
    Values,     \* <<message, value>>: protobuf messages that are sent
    Things,     \* <<type, object>>: objects that are sent
    Cuttable,   \* the part of Values that may also arrive cut or extended
    Unknown     \* encodings of fields no message of boxd has

VARIABLES
    name,       \* the type of the message or object
    value,      \* what is sent
    sent,       \* what Marshal returned: <<>> or <<bytes>> (<<>>: it panicked)
    arrived,    \* the bytes that arrive: <<>> or <<bytes>>
    got,        \* what Unmarshal returned: <<>> or <<value>> (<<>>: an error)
    stage,      \* "marshal", "deliver", "unmarshal", "done"
    how         \* "whole", "cut", "extended" or "altered": how the bytes arrive
vars == <<name, value, sent, arrived, got, stage, how>>

ObjectTypes == DOMAIN Produces \cup {"Frame"}
IsObject == name \in ObjectTypes

TypeOK ==
    /\ name \in DOMAIN Schema \cup ObjectTypes
    /\ \A b \in {sent, arrived} : Len(b) <= 1 /\ \A i \in DOMAIN b : b[i] \in Seq(0..255)
    /\ Len(got) <= 1
    /\ stage \in {"marshal", "deliver", "unmarshal", "done"}
    /\ how \in {"whole", "cut", "extended", "altered"}

Init ==
    /\ \E v \in Values \cup Things : name = v[1] /\ value = v[2]
    /\ sent = <<>> /\ arrived = <<>> /\ got = <<>>
    /\ stage = "marshal"
    /\ how = "whole"

Sent(bytes) ==
    /\ stage = "marshal"
    /\ sent' = bytes
    /\ stage' = IF bytes = <<>> THEN "done" ELSE "deliver"
    /\ UNCHANGED <<name, value, arrived, got, how>>

MarshalMessage == ~IsObject /\ Sent(MarshalBuffer(Schema[name], value))
MarshalObject == IsObject /\ Sent(ObjectMarshal(name, value))

Arrive(bytes, way) ==
    /\ arrived' = <<bytes>>
    /\ how' = way
    /\ stage' = "unmarshal"
    /\ UNCHANGED <<name, value, sent, got>>

ArriveWhole == stage = "deliver" /\ Arrive(sent[1], "whole")

ArriveCut ==
    /\ stage = "deliver" /\ (IsObject \/ <<name, value>> \in Cuttable)
    /\ \E k \in 0..(Len(sent[1]) - 1) : Arrive(SubSeq(sent[1], 1, k), "cut")

(* A later version of the message has one more field, before or after the others. *)
ArriveExtended ==
    /\ stage = "deliver" /\ name # "Frame" /\ (IsObject \/ <<name, value>> \in Cuttable)
    /\ \E u \in Unknown : \/ Arrive(u \o sent[1], "extended")
                          \/ Arrive(sent[1] \o u, "extended")

(* One byte of the body of a frame is not the one that was sent. *)
ArriveAltered ==
    /\ stage = "deliver" /\ name = "Frame"
    /\ \E k \in (Len(sent[1]) - Len(value.Body) + 1)..Len(sent[1]), x \in {0, 255} :
          /\ x # sent[1][k]
          /\ Arrive([sent[1] EXCEPT ![k] = x], "altered")

Received(v) ==
    /\ stage = "unmarshal"
    /\ got' = v
    /\ stage' = "done"
    /\ UNCHANGED <<name, value, sent, arrived, how>>

UnmarshalMessage == ~IsObject /\ Received(Decoded(Schema[name], arrived[1]))
UnmarshalObject == IsObject /\ Received(ObjectUnmarshal(name, arrived[1]))

Next ==
    \/ MarshalMessage \/ MarshalObject
    \/ ArriveWhole \/ ArriveCut \/ ArriveExtended \/ ArriveAltered
    \/ UnmarshalMessage \/ UnmarshalObject

Spec == Init /\ [][Next]_vars

-----------------------------------------------------------------------------
(* What comes back of an object: the fields that are filled in by the node  *)
(* when it loads a receipt are zero, a nil filter is an empty one, and a    *)
(* delegate keeps its address and its peer only.                            *)
Refilled(bloom) == IF bloom = <<>> THEN <<EmptyFilter>> ELSE bloom
StoredHeader(h) == [h EXCEPT !.Bloom = Refilled(@)]
StoredBlock(b) == [b EXCEPT !.Header = StoredHeader(@)]
StoredLog(l) == [l EXCEPT !.BlockHash = Copied(HashSize, <<>>)]
StoredReceipt(r) ==
    [r EXCEPT !.Bloom = Refilled(@), !.Logs = Map(StoredLog, @), !.BlockHeight = <<>>,
              !.ContractAddress = Copied(AddressSize, <<>>),
              !.BlockHash = Copied(HashSize, <<>>)]
StoredDelegate(d) == DelegateToProto(d)
Stored ==
    CASE name = "BlockHeader" -> StoredHeader(value)
      [] name = "Block" -> StoredBlock(value)
      [] name = "Log" -> StoredLog(value)
      [] name = "Receipt" -> StoredReceipt(value)
      [] name = "Receipts" -> Map(StoredReceipt, value)
      [] name = "SyncBlocks" -> [value EXCEPT !.Blocks = Map(StoredBlock, @)]
      [] name = "Delegate" -> StoredDelegate(value)
      [] name = "Dynasty" -> [value EXCEPT !.Delegates = Map(StoredDelegate, @)]
      [] OTHER -> value

(* The types whose own Unmarshal decodes into another type's message (see   *)
(* UnmarshalReadsMarshal); nothing in boxd calls it.                        *)
Unreadable == {"Delegate", "Dynasty", "hashReceipt"}

(* What is unmarshalled from the bytes Marshal returned is what was         *)
(* marshalled.  For a message: every field survives, of every message of    *)
(* every package, with numbers at the edges of their width, negative 32-bit *)
(* numbers, lengths of more than one byte, empty elements of repeated       *)
(* fields and each alternative of a oneof.  For an object: the hand-written *)
(* conversions on both sides lose nothing but the derived fields.  A field  *)
(* the receiver does not know, of any wire type, nested groups included, is *)
(* skipped as a whole: the fields it knows are unharmed.                    *)
RoundTrip ==
    stage = "done" /\ how \in {"whole", "extended"} /\ name \notin Unreadable
        => got = <<Stored>>

(* A message that was cut short is refused, or the cut fell between two     *)
(* fields and what was decoded is just what stands before the cut: it       *)
(* marshals to those bytes again.  A cut never changes a field.             *)
CutShortNotMisread ==
    stage = "done" /\ how = "cut" /\ ~IsObject /\ got # <<>>
        => MarshalTo(Schema[name].marshal, got[1]) = arrived[1]

(* An object that was cut short is refused where the node relies on its     *)
(* parts: a block that is accepted has its header and hash, an input its    *)
(* out point, a list of hashes is a prefix of the one sent and holds no     *)
(* half hash, a receipt and a header have their filter; a frame is never    *)
(* accepted.                                                                *)
CutObjectNotMisread ==
    stage = "done" /\ how = "cut" /\ got # <<>> =>
        CASE name = "Block" -> BlockHashed(got[1]) = BlockHashed(value)
          [] name = "TxIn" -> got[1].PrevOutPoint = value.PrevOutPoint
          [] name \in {"LocateHeaders", "SyncHeaders"} -> IsPrefix(got[1].Hashes, value.Hashes)
          [] name = "SyncBlocks" ->
                \A i \in DOMAIN got[1].Blocks :
                    BlockHashed(got[1].Blocks[i]) = BlockHashed(value.Blocks[i])
          [] name \in {"BlockHeader", "Receipt"} -> got[1].Bloom = Refilled(value.Bloom)
          [] name = "Frame" -> FALSE
          [] OTHER -> TRUE

(* Bytes that are not the ones sent are refused or not misread: cut short   *)
(* anywhere, or, in a frame, with a body that its header's checksum does    *)
(* not fit.                                                                 *)
DamageNotMisread ==
    /\ CutShortNotMisread
    /\ CutObjectNotMisread
    /\ stage = "done" /\ how = "altered" => got = <<>>

(* Two nodes agree on the name of a block and of a transaction: the hash    *)
(* that the receiver computes over what it decoded is taken over the same   *)
(* bytes as the sender's, also when it was sent with a nil filter or with   *)
(* an unknown field.                                                        *)
HashAgreed ==
    stage = "done" /\ how \in {"whole", "extended"} /\ got # <<>> =>
        /\ name = "Block" => BlockHashed(got[1]) = BlockHashed(value)
        /\ name = "Transaction" => TxHashed(got[1]) = TxHashed(value)

(* "Unmarshal method unmarshal binary data to Delegate object": what Marshal *)
(* wrote, Unmarshal of the same type reads.                                  *)
UnmarshalReadsMarshal == stage = "done" /\ how = "whole" => got # <<>>

(* The address, the topics and the data of a log are its "Consensus         *)
(* fields": the hash of the receipts in the block header covers them.       *)
ConsensusFieldsHashed ==
    stage = "done" /\ name = "Receipts" =>
        \A i \in DOMAIN value : \A j \in DOMAIN value[i].Logs :
            \A f \in {"Address", "Topics", "Data"} :
                LET other == [value EXCEPT ![i].Logs[j][f] =
                                IF f = "Topics" THEN Append(@, Copied(HashSize, <<>>))
                                ELSE IF f = "Data" THEN Append(@, 1)
                                ELSE [@ EXCEPT ![1] = (@ + 1) % 256]]
                IN ReceiptsHashed(other) # ReceiptsHashed(value)

=============================================================================

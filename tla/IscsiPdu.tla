------------------------------ MODULE IscsiPdu ------------------------------
(***************************************************************************)
(* The PDUs of iscsi-pdu.cpp: what an initiator sends, and the PDU that    *)
(* get_response() makes of it.  A request has an opcode, an initiator task *)
(* tag, the fields its handler looks at and, in bhs, what of it may be     *)
(* troublesome to receive:                                                 *)
(*   ahs            additional header segment: none, one, one of length 0, *)
(*   hgood, dgood   whether its digests will be right,                     *)
(*   data           data segment: none, some, or an oversized one.         *)
(* Sequence numbers of commands and status, LUN, ISID and the like are     *)
(* copied around and left out.                                             *)
(***************************************************************************)
EXTENDS Integers, Sequences, ScsiCommand

CONSTANTS
    Tags,    \* initiator task tags, 0 among them
    Uint32   \* modulus of uint32_t

ASSUME TagsAssumption == 0 \in Tags /\ Tags \subseteq Nat

ASSUME Uint32Assumption == Uint32 \in Nat \ {0}

-----------------------------------------------------------------------------
(* Requests. *)

Bhs ==
    [ahs : {"none", "some", "zero_length"}, hgood : BOOLEAN, dgood : BOOLEAN,
     data : {"none", "some", "oversized"}]

\* A key of which the value is a number and that the initiator does not send.
NoKey == -1

LoginRequests ==
    [bhs : Bhs, op : {"login"}, tag : Tags, CSG : 0 .. 3, NSG : 0 .. 3,
     MaxRecvDataSegmentLength : Nat \cup {NoKey},
     HeaderDigest : {"CRC32C", "None", "absent"}, DataDigest : {"CRC32C", "None", "absent"}]

\* pairs: every text in the data has a "=".
TextRequests == [bhs : Bhs, op : {"text"}, tag : Tags, pairs : BOOLEAN, SendTargets : BOOLEAN]
NopOuts == [bhs : Bhs, op : {"nop_out"}, tag : Tags]
LogoutRequests == [bhs : Bhs, op : {"logout"}, tag : Tags]
TaskmanRequests == [bhs : Bhs, op : {"taskman"}, tag : Tags, function : Nat]
R2TRequests == [bhs : Bhs, op : {"r2t"}, tag : Tags]
UnknownPdus == [bhs : Bhs, op : {"unknown"}, tag : Tags]

\* whole: offset and length are whole blocks; completes: no data is missing after it.
DataOuts ==
    [bhs : Bhs, op : {"data_out"}, tag : Tags, whole : BOOLEAN, F : BOOLEAN, completes : BOOLEAN]

\* A SCSI command: its CDB (see ScsiCommand) and ExpectedDataTransferLength.
IsScsiCmd(p) ==
    /\ p.bhs \in Bhs /\ p.tag \in Tags /\ p.op = "scsi_cmd"
    /\ IsCdb(p.cdb) /\ p.ExpDatLen \in Nat

IsRequest(p) ==
    \/ IsScsiCmd(p)
    \/ p \in LoginRequests \cup TextRequests \cup NopOuts \cup LogoutRequests
             \cup TaskmanRequests \cup R2TRequests \cup UnknownPdus \cup DataOuts

-----------------------------------------------------------------------------
(* Replies. *)

DigestName(on) == IF on THEN "CRC32C" ELSE "None"

\* Mutant: the keys are sent back as they came.
LoginReplyEchoes(p, hd, dd) ==
    [type |-> "login_resp", tag |-> p.tag, CSG |-> p.CSG, NSG |-> p.NSG, TSIH |-> p.NSG = 3,
     HeaderDigest |-> p.HeaderDigest, DataDigest |-> p.DataDigest]

\* hd, dd: whether the header and data digests are on.
LoginReply(p, hd, dd) ==
    [type |-> "login_resp", tag |-> p.tag, CSG |-> p.CSG, NSG |-> p.NSG,
     TSIH |-> p.NSG = 3,  \* not 0
     HeaderDigest |-> IF p.NSG = 1 THEN "absent" ELSE DigestName(hd),
     DataDigest |-> IF p.NSG = 1 THEN "absent" ELSE DigestName(dd)]

NopIn(p) == [type |-> "nop_in", tag |-> p.tag, data |-> p.bhs.data]
TextReply(p) == [type |-> "text_resp", tag |-> p.tag, targets |-> p.SendTargets]
LogoutReply(p) == [type |-> "logout_resp", tag |-> p.tag]
TaskmanReply(p) == [type |-> "taskman_resp", tag |-> p.tag]
R2T(p) == [type |-> "r2t", tag |-> p.tag]

\* Residuals: what the target has, and what the initiator wants.
Residual(has, wants) ==
    CASE has > wants -> [flag |-> "O", count |-> has - wants]
      [] has < wants -> [flag |-> "U", count |-> wants - has]
      [] has = wants -> [flag |-> "-", count |-> 0]

NoResidual == [flag |-> "-", count |-> 0]

\* iscsi_pdu_scsi_response: status, and a residual that R2T or READ gave.
ScsiResponse(tag, status, residual) ==
    [type |-> "scsi_resp", tag |-> tag, status |-> status, residual |-> residual]

\* The status of a response with this sense data.
StatusOf(sense) ==
    CASE sense = "none" -> "good"
      [] sense = "conflict" -> "reservation_conflict"
      [] sense \notin {"none", "conflict"} -> "check_condition"

\* The n-th PDU of inline data; all of it fits in a block in practice.
\* ResidualCt is always what is left of the data, even beside U and O.
InlineDataIn(p, len, sn, n) ==
    LET use == Least(len, p.ExpDatLen)
        off == (n - 1) * BlockSize
        last == n = (use + BlockSize - 1) \div BlockSize
    IN [type |-> "data_in", tag |-> p.tag, DataSN |-> (sn + n - 1) % Uint32,
        off |-> off, len |-> Least(use - off, BlockSize), F |-> last, S |-> last,
        residual |-> [flag |-> IF last THEN Residual(len, p.ExpDatLen).flag ELSE "-",
                      count |-> use - off]]

\* iscsi_pdu_scsi_data_in::get(): none at all when there is nothing to send.
InlineDataIns(p, len, sn) ==
    [n \in 1 .. (Least(len, p.ExpDatLen) + BlockSize - 1) \div BlockSize |->
        InlineDataIn(p, len, sn, n)]

\* gen_data_in_pdu(): a piece of a READ.  from: where on the device its data
\* comes from; valid: how much of it was read, the rest being zeros.
DataIn(p, sn, off, len, last, residual, from, valid) ==
    [type |-> "data_in", tag |-> p.tag, DataSN |-> sn, off |-> off, len |-> len,
     F |-> last, S |-> last, residual |-> residual, from |-> from, valid |-> valid]

\* generate_reject_pdu(): not from a DATA-OUT, whose get() gives nothing.
CanReject(p) == p.op # "data_out"
Reject(p, reason) == [type |-> "reject", tag |-> p.tag, reason |-> reason]

\* A PDU that ends the command it is for.
Final(q) == q.type \notin {"r2t", "data_in"} \/ (q.type = "data_in" /\ q.S)
=============================================================================

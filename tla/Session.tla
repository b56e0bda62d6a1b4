------------------------------- MODULE Session -------------------------------
(***************************************************************************)
(* The thread of a session: the loop of server::handler() around           *)
(* receive_pdu() and push_response(), with the answers to every PDU, the   *)
(* streaming of READ data and the errors.  An initiator sends the PDUs of  *)
(* Requests in any order and hangs up at any time.  How writes reach the   *)
(* disk is in WriteTask, who has the reservation in Reservation.           *)
(***************************************************************************)
EXTENDS IscsiPdu

CONSTANTS
    Requests,               \* PDUs that the initiator sends
    MAX_DATA_SEGMENT_SIZE,
    MaxErrors,              \* 16: consecutive errors that end the session
    MaxDataSN               \* bound: DataSN up to which a tag is used again at once,
                            \* and up to which empty DATA-INs are sent

ASSUME RequestsAssumption == \A p \in Requests : IsRequest(p)

ASSUME LimitsAssumption ==
    MAX_DATA_SEGMENT_SIZE \in Nat \ {0} /\ MaxErrors \in Nat \ {0} /\ MaxDataSN \in Nat

VARIABLES
    up,      \* the connection works
    pc,      \* where the thread is
    pdu,     \* the PDU in hand; NoPdu before the first
    exists,  \* receive_pdu() returns it, not nullptr
    ifr,     \* iscsi_fail_reason
    out,     \* what has been sent for it
    ses,     \* the session object
    stream,  \* the READ that is being streamed
    fails,   \* fail_counter
    told,    \* history: the digests that the last login reply announced
    fresh,   \* history: the tag is not that of the DATA-IN before this PDU
    errors   \* history: consecutive PDUs that the initiator saw rejected

vars == <<up, pc, pdu, exists, ifr, out, ses, stream, fails, told, fresh, errors>>
history == <<told, fresh, errors>>

NoPdu == [op |-> "none"]
NoStream == [lba |-> 0, off |-> 0, has |-> 0, wants |-> 0]

\* allow_digest is digest_chk of the server, an option.
Sessions ==
    [allow_digest : BOOLEAN, header_digest : BOOLEAN, data_digest : BOOLEAN, max_seg_len : Nat,
     data_sn_itt : Tags, data_sn : Nat, r2t_sessions : SUBSET Tags]

header_digest == ses.header_digest /\ ses.allow_digest
data_digest == ses.data_digest /\ ses.allow_digest

Init ==
    /\ up = TRUE /\ pc = "recv"
    /\ pdu = NoPdu /\ exists = FALSE /\ ifr = "ok" /\ out = <<>>
    /\ ses \in {[allow_digest |-> a, header_digest |-> FALSE, data_digest |-> FALSE,
                 max_seg_len |-> MAX_DATA_SEGMENT_SIZE, data_sn_itt |-> 0, data_sn |-> 0,
                 r2t_sessions |-> {}] : a \in BOOLEAN}
    /\ stream = NoStream
    /\ fails = 0
    /\ told = <<"None", "None">> /\ fresh = TRUE /\ errors = 0

\* The initiator, or the network, ends the connection.
Hangup ==
    /\ up
    /\ up' = FALSE
    /\ UNCHANGED <<pc, pdu, exists, ifr, out, ses, stream, fails, history>>

-----------------------------------------------------------------------------
(* receive_pdu(), one recv() at a time. *)

\* Mutant: no object is made for an opcode that is not known.
RecvHeaderNoObject(p) ==
    /\ pc = "recv" /\ up
    /\ p.tag = ses.data_sn_itt => ses.data_sn <= MaxDataSN
    /\ pdu' = p
    /\ exists' = (p.op # "unknown")
    /\ ifr' = IF p.op = "unknown" THEN "invalid_command" ELSE "ok"
    /\ out' = <<>> /\ pc' = "ahs"
    /\ fresh' = (p.tag # ses.data_sn_itt \/ ses.data_sn = 0)
    /\ UNCHANGED <<up, ses, stream, fails, told, errors>>

\* The 48 bytes of the header.
RecvHeader(p) ==
    /\ pc = "recv" /\ up
    /\ p.tag = ses.data_sn_itt => ses.data_sn <= MaxDataSN
    /\ pdu' = p
    /\ exists' = TRUE
    /\ ifr' = IF p.op = "unknown" THEN "invalid_command" ELSE "ok"
    /\ out' = <<>> /\ pc' = "ahs"
    /\ fresh' = (p.tag # ses.data_sn_itt \/ ses.data_sn = 0)
    /\ UNCHANGED <<up, ses, stream, fails, told, errors>>

RecvNothing ==
    /\ pc = "recv" /\ ~up
    /\ exists' = FALSE /\ ifr' = "connection" /\ pc' = "count"
    /\ UNCHANGED <<up, pdu, out, ses, stream, fails, history>>

\* Mutant: it is tried again.
RecvFailsRetries(next) ==
    /\ ~up
    /\ UNCHANGED <<exists, ifr, pc, ses>>

\* A recv() that fails; what follows is tried nevertheless.
RecvFails(next) ==
    /\ ~up
    /\ exists' = FALSE /\ ifr' = "connection" /\ pc' = next
    /\ UNCHANGED ses

Mismatch(next) ==
    /\ exists' = FALSE /\ ifr' = "digest" /\ pc' = next
    /\ UNCHANGED ses

Received(next) == pc' = next /\ UNCHANGED <<exists, ifr, ses>>

\* set_ahs_segment() never gets past the first: it stops there, or, when that
\* has length 0, never does.
RecvAhs ==
    /\ pc = "ahs"
    /\ \/ pdu.bhs.ahs = "none" /\ Received("header_digest")
       \/ pdu.bhs.ahs = "some" /\ up /\ Received("header_digest")
       \/ pdu.bhs.ahs = "zero_length" /\ up /\ Received("ahs_loop")
       \/ pdu.bhs.ahs # "none" /\ RecvFails("header_digest")
    /\ UNCHANGED <<up, pdu, out, stream, fails, history>>

\* has_digest
HasDigest == pdu.op # "login"

RecvHeaderDigest ==
    /\ pc = "header_digest"
    /\ LET expected == header_digest /\ HasDigest IN
       \/ ~expected /\ Received("data")
       \/ expected /\ up /\ pdu.bhs.hgood /\ Received("data")
       \/ expected /\ up /\ ~pdu.bhs.hgood /\ Mismatch("data")
       \/ expected /\ RecvFails("data")
    /\ UNCHANGED <<up, pdu, out, stream, fails, history>>

\* A digest key in a login: CRC32C among the values, or another value.
Chosen(key, old) == IF key = "absent" THEN old ELSE key = "CRC32C"

\* set_data(), which for a login takes over what the initiator declares; a
\* length of segments of 0 too.
SetData(p) ==
    IF p.op # "login" THEN ses
    ELSE [ses EXCEPT
            !.max_seg_len = IF p.MaxRecvDataSegmentLength = NoKey THEN @
                            ELSE Least(@, p.MaxRecvDataSegmentLength),
            !.header_digest = Chosen(p.HeaderDigest, @),
            !.data_digest = Chosen(p.DataDigest, @)]

\* The padded data segment.  An oversized one is thrown away.
RecvData ==
    /\ pc = "data"
    /\ \/ pdu.bhs.data = "none" /\ Received("received")
       \/ /\ pdu.bhs.data = "oversized"
          /\ exists' = FALSE /\ ifr' = "invalid_field" /\ pc' = "drain"
          /\ UNCHANGED ses
       \/ /\ pdu.bhs.data = "some" /\ up
          /\ ses' = SetData(pdu)
          /\ pc' = "data_digest" /\ UNCHANGED <<exists, ifr>>
       \/ pdu.bhs.data = "some" /\ RecvFails("data_digest")
    /\ UNCHANGED <<up, pdu, out, stream, fails, history>>

\* while(temp_len), which nothing decreases.
Drain ==
    /\ pc = "drain"
    /\ RecvFails("received")
    /\ UNCHANGED <<up, pdu, out, stream, fails, history>>

RecvDataDigest ==
    /\ pc = "data_digest"
    /\ LET expected == data_digest /\ HasDigest IN
       \/ ~expected /\ Received("received")
       \/ expected /\ up /\ pdu.bhs.dgood /\ Received("received")
       \/ expected /\ up /\ ~pdu.bhs.dgood /\ Mismatch("received")
       \/ expected /\ RecvFails("received")
    /\ UNCHANGED <<up, pdu, out, stream, fails, history>>

Dispatch ==
    /\ pc = "received"
    /\ pc' = CASE ifr = "ok" -> "push"
               [] ifr = "connection" -> "count"
               [] ifr \notin {"ok", "connection"} -> "error"
    /\ UNCHANGED <<up, pdu, exists, ifr, out, ses, stream, fails, history>>

-----------------------------------------------------------------------------
(* push_response(). *)

\* PDUs are sent one after the other as long as that works.
Emit(pdus) ==
    /\ out' = IF up THEN out \o pdus ELSE out
    /\ ifr' = IF up \/ pdus = <<>> THEN "ok" ELSE "connection"
    /\ pc' = "count"

Fail(reason) == ifr' = reason /\ pc' = "error" /\ UNCHANGED out

\* The digests that a reply q to p announces.  A reply for stage 1 has none,
\* and then the initiator only knows them if it did not offer any.
Announced(p, q) ==
    IF p.NSG # 1 THEN <<q.HeaderDigest, q.DataDigest>>
    ELSE IF p.bhs.data = "none" \/ (p.HeaderDigest = "absent" /\ p.DataDigest = "absent") THEN told
    ELSE <<"absent", "absent">>

\* No answer when my_getrandom() fails for the TSIH.
PushLogin ==
    /\ pc = "push" /\ pdu.op = "login"
    /\ \/ LET reply == LoginReply(pdu, header_digest, data_digest) IN
          /\ Emit(<<reply>>)
          /\ told' = Announced(pdu, reply)
       \/ /\ pdu.NSG = 3
          /\ Emit(<<>>)
          /\ told' = <<"absent", "absent">>
    /\ UNCHANGED <<up, pdu, exists, ses, stream, fails, fresh, errors>>

\* Text without data, or with a text that is no pair, is not answered.
TextAnswer(p) == IF p.bhs.data = "some" /\ p.pairs THEN <<TextReply(p)>> ELSE <<>>

\* Requests that are answered by copying fields.  Resets also unlock the
\* device (Reservation); an R2T from an initiator is ignored.
PushOther ==
    /\ pc = "push" /\ pdu.op \in {"nop_out", "text", "logout", "taskman", "r2t"}
    /\ Emit(CASE pdu.op = "nop_out" -> <<NopIn(pdu)>>
              [] pdu.op = "text" -> TextAnswer(pdu)
              [] pdu.op = "logout" -> <<LogoutReply(pdu)>>
              [] pdu.op = "taskman" -> <<TaskmanReply(pdu)>>
              [] pdu.op = "r2t" -> <<>>)
    /\ UNCHANGED <<up, pdu, exists, ses, stream, fails, history>>

\* Mutant: the numbering goes on whatever the tag.
NextDataSNGoesOn(tag) == ses.data_sn

\* get_inc_datasn(): the number it gives, and the session after n calls.
NextDataSN(tag) == IF tag = ses.data_sn_itt THEN ses.data_sn ELSE 0

TakeDataSN(tag, n) ==
    IF n = 0 THEN ses
    ELSE [ses EXCEPT !.data_sn_itt = tag, !.data_sn = (NextDataSN(tag) + n) % Uint32]

\* Mutant: data and a status.
InlineAnsweredTwice(r) ==
    LET pdus == InlineDataIns(pdu, r.len, NextDataSN(pdu.tag)) IN
    /\ r.inline
    /\ ses' = TakeDataSN(pdu.tag, Len(pdus))
    /\ Emit(Append(pdus, ScsiResponse(pdu.tag, "good", NoResidual)))
    /\ UNCHANGED stream

\* Data that the command made itself; the last DATA-IN has the status.
AnswerInline(r) ==
    LET pdus == InlineDataIns(pdu, r.len, NextDataSN(pdu.tag)) IN
    /\ r.inline
    /\ ses' = TakeDataSN(pdu.tag, Len(pdus))
    /\ Emit(pdus)
    /\ UNCHANGED stream

\* Without data: a response if there is sense data or is to be none of it.
AnswerStatus(r) ==
    /\ ~r.inline /\ r.type # "r2t" /\ r.n_sectors = 0
    /\ Emit(IF r.sense # "none" \/ r.type = "empty_sense"
            THEN <<ScsiResponse(pdu.tag, StatusOf(r.sense), NoResidual)>> ELSE <<>>)
    /\ UNCHANGED <<ses, stream>>

\* ir_r2t: refused when the lengths differ, otherwise the transfer is noted.
AnswerR2T(r) ==
    LET expected == pdu.cdb.n * BlockSize IN
    /\ r.type = "r2t"
    /\ IF expected # pdu.ExpDatLen
       THEN /\ Emit(<<ScsiResponse(pdu.tag, "good", Residual(expected, pdu.ExpDatLen))>>)
            /\ UNCHANGED ses
       ELSE /\ Emit(<<R2T(pdu)>>)
            /\ ses' = [ses EXCEPT !.r2t_sessions = @ \cup {pdu.tag}]
    /\ UNCHANGED stream

\* to_stream: scsi_has is a uint32_t.
AnswerStream(r) ==
    /\ ~r.inline /\ r.n_sectors > 0
    /\ stream' = [lba |-> r.lba, off |-> 0, has |-> (r.n_sectors * BlockSize) % Uint32,
                  wants |-> pdu.ExpDatLen]
    /\ pc' = "stream"
    /\ UNCHANGED <<ifr, out, ses>>

\* other: another session has the reservation.
PushScsi ==
    /\ pc = "push" /\ pdu.op = "scsi_cmd"
    /\ \E other \in BOOLEAN : \E r \in Send(pdu.cdb, other) :
         AnswerInline(r) \/ AnswerStatus(r) \/ AnswerR2T(r) \/ AnswerStream(r)
    /\ UNCHANGED <<up, pdu, exists, fails, history>>

\* DATA-OUT, as far as answers go: for no transfer, not in whole blocks or
\* empty; not written; the last of a burst, of the transfer too or not.
PushDataOut ==
    /\ pc = "push" /\ pdu.op = "data_out"
    /\ LET known == pdu.tag \in ses.r2t_sessions
           data == pdu.bhs.data = "some"
           good == ScsiResponse(pdu.tag, "good", NoResidual)
       IN \/ /\ ~known \/ (data /\ ~pdu.whole) \/ (~data /\ ~pdu.F)
             /\ Fail("invalid_field")
             /\ UNCHANGED ses
          \/ /\ known /\ data /\ pdu.whole
             /\ Fail("io_error")
             /\ UNCHANGED ses
          \/ /\ known /\ (data => pdu.whole) /\ pdu.F
             /\ Emit(IF pdu.completes THEN <<good>> ELSE <<good, R2T(pdu)>>)
             /\ ses' = IF pdu.completes THEN [ses EXCEPT !.r2t_sessions = @ \ {pdu.tag}] ELSE ses
          \/ /\ known /\ data /\ pdu.whole /\ ~pdu.F
             /\ Emit(<<>>)
             /\ UNCHANGED ses
    /\ UNCHANGED <<up, pdu, exists, stream, fails, history>>

-----------------------------------------------------------------------------
(* The streaming of a READ. *)

offset_end == Least(stream.has, stream.wants)

EndStream == stream' = NoStream

\* Nothing to send: a response instead of DATA-IN.
StreamNothing ==
    /\ pc = "stream" /\ offset_end = 0
    /\ Emit(<<ScsiResponse(pdu.tag, "good", Residual(stream.has, stream.wants))>>)
    /\ EndStream
    /\ UNCHANGED <<up, pdu, exists, ses, fails, history>>

\* The next piece.
current_n == Least(ses.max_seg_len, Least(offset_end - stream.off, MAX_DATA_SEGMENT_SIZE))
is_n_blocks == current_n \div BlockSize

\* Mutant: looks at the target's limit only, not at the initiator's.
LastBlockEarly == offset_end - stream.off <= MAX_DATA_SEGMENT_SIZE

last_block == stream.off + current_n = offset_end

\* Mutant: counts DATA-INs instead of blocks.
NextLbaByOne == stream.lba + 1

next_lba == stream.lba + is_n_blocks

\* Part of a block is copied from a whole one.
Piece ==
    DataIn(pdu, NextDataSN(pdu.tag), stream.off, current_n, last_block,
           IF last_block THEN Residual(stream.has, stream.wants) ELSE NoResidual,
           stream.lba * BlockSize, IF current_n < BlockSize THEN current_n ELSE is_n_blocks * BlockSize)

\* For part of a block a whole one is read.
blocks_read == IF current_n < BlockSize THEN 1 ELSE is_n_blocks

\* The read works (it cannot beyond the end of the device) and the piece is sent.
\* An empty piece, of an initiator that takes segments of length 0, gets the READ
\* no further: such pieces are sent until a read or a send() fails.
StreamPiece ==
    /\ pc = "stream" /\ stream.off < offset_end
    /\ stream.lba + blocks_read <= NBlocks
    /\ ses' = TakeDataSN(pdu.tag, 1)
    /\ \/ /\ up /\ (current_n = 0 => NextDataSN(pdu.tag) <= MaxDataSN)
          /\ out' = Append(out, Piece)
          /\ stream' = [stream EXCEPT !.off = @ + current_n, !.lba = next_lba]
          /\ UNCHANGED <<pc, ifr>>
       \/ /\ ~up
          /\ ifr' = "connection" /\ pc' = "count"
          /\ EndStream
          /\ UNCHANGED out
    /\ UNCHANGED <<up, pdu, exists, fails, history>>

\* It does not: a number has been taken, the piece is not sent.
StreamFails ==
    /\ pc = "stream" /\ stream.off < offset_end
    /\ ses' = TakeDataSN(pdu.tag, 1)
    /\ Fail("io_error")
    /\ EndStream
    /\ UNCHANGED <<up, pdu, exists, fails, history>>

StreamDone ==
    /\ pc = "stream" /\ offset_end > 0 /\ stream.off >= offset_end
    /\ pc' = "count"
    /\ EndStream
    /\ UNCHANGED <<up, pdu, exists, ifr, out, ses, fails, history>>

-----------------------------------------------------------------------------
(* The rest of the loop: errors are answered and counted. *)

DeletePdu == pdu' = NoPdu /\ exists' = FALSE /\ ifr' = "ok" /\ out' = <<>> /\ fresh' = TRUE

\* Mutant: until it is sent.
SendErrorRetries(q) ==
    /\ out' = IF up THEN Append(out, q) ELSE out
    /\ pc' = IF up THEN "count" ELSE "error"

SendError(q) ==
    /\ out' = IF up THEN Append(out, q) ELSE out
    /\ pc' = IF up THEN "count" ELSE "count_last"

\* A failed read or write is answered with an error status, ...
AnswerError ==
    /\ pc = "error" /\ ifr = "io_error"
    /\ SendError(ScsiResponse(pdu.tag, "io_error", NoResidual))
    /\ UNCHANGED <<up, pdu, exists, ifr, ses, stream, fails, history>>

\* ... another PDU that could not be handled is rejected.
RejectPdu ==
    /\ pc = "error" /\ ifr # "io_error" /\ exists /\ CanReject(pdu)
    /\ SendError(Reject(pdu, CASE ifr = "invalid_field" -> 9
                               [] ifr = "digest" -> 2
                               [] ifr = "invalid_command" -> 5))
    /\ UNCHANGED <<up, pdu, exists, ifr, ses, stream, fails, history>>

\* continue: neither an answer nor a count.
SkipPdu ==
    /\ pc = "error" /\ ifr # "io_error" /\ exists /\ ~CanReject(pdu)
    /\ pc' = "recv"
    /\ DeletePdu
    /\ UNCHANGED <<up, ses, stream, fails, told, errors>>

\* Without a PDU there is nothing to reject; reject.value() throws and no
\* thread catches it.
Abort ==
    /\ pc = "error" /\ ~exists
    /\ pc' = "aborted"
    /\ UNCHANGED <<up, pdu, exists, ifr, out, ses, stream, fails, history>>

Rejected == \E i \in 1 .. Len(out) :
    out[i].type = "reject" \/ (out[i].type = "scsi_resp" /\ out[i].status = "io_error")

\* Mutant: the counter is never reset.
FailCounterKept == IF ifr = "ok" THEN fails ELSE fails + 1

FailCounter == IF ifr = "ok" THEN 0 ELSE fails + 1

\* Too many errors, or the connection failed.
Over(n) == n >= MaxErrors \/ ifr = "connection" \/ pc = "count_last"

\* The end of the loop's body.
Count ==
    /\ pc \in {"count", "count_last"}
    /\ fails' = FailCounter
    /\ pc' = IF Over(fails') THEN "ended" ELSE "recv"
    /\ errors' = IF Rejected THEN errors + 1 ELSE 0
    /\ DeletePdu
    /\ UNCHANGED <<up, ses, stream, told>>

-----------------------------------------------------------------------------

Receive ==
    \/ RecvNothing \/ RecvAhs \/ RecvHeaderDigest \/ RecvData \/ Drain \/ RecvDataDigest \/ Dispatch

Push ==
    \/ PushLogin \/ PushOther \/ PushScsi \/ PushDataOut
    \/ StreamNothing \/ StreamPiece \/ StreamFails \/ StreamDone

Finish == AnswerError \/ RejectPdu \/ SkipPdu \/ Abort \/ Count

\* What the thread does without a new PDU.
Thread == Receive \/ Push \/ Finish

Next == Hangup \/ Thread \/ \E p \in Requests : RecvHeader(p)

\* The thread is scheduled, and backend calls and send() return.
Spec == Init /\ [][Next]_vars /\ WF_vars(Thread)

-----------------------------------------------------------------------------

\* Every variable has its type.
TypeOK ==
    /\ up \in BOOLEAN /\ exists \in BOOLEAN /\ fresh \in BOOLEAN
    /\ pc \in {"recv", "ahs", "ahs_loop", "header_digest", "data", "drain", "data_digest", "received",
               "push", "stream", "error", "count", "count_last", "ended", "aborted"}
    /\ pdu \in Requests \cup {NoPdu}
    /\ ifr \in {"ok", "connection", "invalid_field", "invalid_command", "digest", "io_error"}
    /\ ses \in Sessions
    /\ stream \in [lba : Nat, off : Nat, has : Nat, wants : Nat]
    /\ fails \in 0 .. MaxErrors /\ errors \in Nat

Finals == {i \in 1 .. Len(out) : Final(out[i])}

\* PDUs that may get no answer although nothing is wrong with the connection.
MayBeSilent(p) ==
    \/ p.op = "login" /\ p.NSG = 3                        \* no random number
    \/ p.op = "text" /\ (p.bhs.data = "none" \/ ~p.pairs)
    \/ p.op = "r2t"
    \/ p.op = "data_out" /\ ~p.F
    \/ p.op = "scsi_cmd" /\ p.cdb.cmd = "write"           \* failed, or continued by R2T
    \/ p.op = "scsi_cmd" /\ p.ExpDatLen = 0               \* inline data that is not wanted
    \/ p.op = "scsi_cmd" /\ p.cdb.cmd = "inquiry" /\ p.cdb.alloc = 0

\* A PDU gets one final answer, never two; the ones that may get none are the
\* exceptions listed.  A failed READ ends with its error status, after the
\* DATA-INs that were sent, and not with the S bit as well.
AnsweredOnce ==
    pc = "count" /\ up /\ ifr # "connection" =>
        /\ Cardinality(Finals) <= 1
        /\ Finals = {} => MayBeSilent(pdu)
        /\ \A i \in Finals : i = Len(out) \/ (pdu.op = "data_out" /\ out[i + 1].type = "r2t")

IsRead == pdu # NoPdu /\ pdu.op = "scsi_cmd" /\ pdu.cdb.cmd = "read"

Pieces == {i \in 1 .. Len(out) : out[i].type = "data_in"}

\* The DATA-INs of a command are one sequence: every offset follows from the
\* piece before it, no piece is longer than the initiator said it can take nor
\* empty if it can take any, and F and S are on the last one only, which has the
\* residual.
DataInSequence ==
    \A i \in Pieces :
        /\ out[i].off = IF i = 1 THEN 0 ELSE out[i - 1].off + out[i - 1].len
        /\ IsRead => out[i].len \in Least(1, ses.max_seg_len) .. ses.max_seg_len
        /\ out[i].F = out[i].S
        /\ out[i].S => i = Len(out)
        /\ IsRead /\ out[i].S =>
             LET has == pdu.cdb.n * BlockSize IN
             /\ out[i].off + out[i].len = Least(has % Uint32, pdu.ExpDatLen)
             /\ has < Uint32 => out[i].residual = Residual(has, pdu.ExpDatLen)

\* DataSN counts up from 0, unless the tag is that of the DATA-IN before.
DataSNInOrder ==
    \A i \in Pieces :
        /\ i > 1 => out[i].DataSN = (out[i - 1].DataSN + 1) % Uint32
        /\ i = 1 /\ fresh => out[i].DataSN = 0

RightPlace(q) == q.from = pdu.cdb.lba * BlockSize + q.off /\ q.valid = q.len

\* What a READ sends is what is on the device at that place.
ReadsRight == IsRead => \A i \in Pieces : RightPlace(out[i])

\* The same, for segments and transfer lengths of whole blocks.
WholeBlocksReadRight ==
    ses.max_seg_len % BlockSize = 0 /\ IsRead /\ pdu.ExpDatLen % BlockSize = 0 => ReadsRight

\* A READ that is carried out does not wrap around the 64-bit block numbers,
\* and lies on the device, unless it is longer than the device
\* (validate_request() subtracts without a sign: such a READ gets as far as
\* the backend).
AcceptedFits ==
    pc = "stream" =>
        LET end == pdu.cdb.lba + pdu.cdb.n IN
        end < Uint64 /\ (pdu.cdb.n <= NBlocks => end <= NBlocks)

\* An UNMAP of which a descriptor was refused is not answered GOOD, whatever
\* becomes of the descriptors after it.
UnmapGood ==
    pdu # NoPdu /\ pdu.op = "scsi_cmd" /\ pdu.cdb.cmd = "unmap" =>
        \A i \in 1 .. Len(out) : out[i].type = "scsi_resp" /\ out[i].status = "good" =>
            \A d \in ToSet(pdu.cdb.list) : d.lba + d.n <= NBlocks /\ d.n <= MAX_UNMAP_BLOCKS

\* Only a digest that is wrong, of a session that agreed to have digests, ends
\* the program.
SurvivesPdus ==
    pc = "aborted" =>
        \/ header_digest /\ ~pdu.bhs.hgood
        \/ data_digest /\ pdu.bhs.data = "some" /\ ~pdu.bhs.dgood

\* The digests that the target adds and expects are the ones that its last
\* login reply announced.
DigestsAgreed ==
    told # <<"absent", "absent">> /\ pc = "recv" =>
        told = <<DigestName(header_digest), DigestName(data_digest)>>

\* The target ends a session whose connection works only after as many
\* rejected PDUs in a row.
EndsAfterErrors == pc = "ended" /\ up => errors = MaxErrors

\* A READ that is sent in empty pieces.
Endless == pc = "stream" /\ ses.max_seg_len = 0

\* Every PDU is dealt with, unless it has an oversized segment or an empty AHS, or
\* is a READ of an initiator that declared segments of length 0.
EveryPduHandled ==
    pc # "recv" ~> pc \in {"recv", "ended", "aborted", "drain", "ahs_loop"} \/ Endless

\* A session whose connection is gone ends, wherever it was; except in an
\* AHS of length 0.
HangupEnds == ~up ~> pc \in {"ended", "aborted", "ahs_loop"}
=============================================================================

---------------------------- MODULE SessionProofs ----------------------------
(***************************************************************************)
(* Proofs about the thread of a session, for any set of PDUs, any device   *)
(* and any limits: its control state, its digests, its error counter,      *)
(* which READs and UNMAPs it carries out, and what it sends: the DATA-INs  *)
(* of a READ and of inline data, their numbers, offsets and contents, and  *)
(* one final answer to a PDU.                                              *)
(***************************************************************************)
EXTENDS Session, InductionLemmas, SequenceTheorems, FiniteSetTheorems, TLAPS

-----------------------------------------------------------------------------
(* The PDUs. *)

LEMMA RequestFacts ==
    ASSUME NEW p \in Requests
    PROVE  /\ p.bhs \in Bhs /\ p.tag \in Tags
           /\ p.op = "scsi_cmd" => IsScsiCmd(p)
           /\ p.op = "login" => p \in LoginRequests
           /\ p.op = "text" => p \in TextRequests
           /\ p.op = "data_out" => p \in DataOuts
           /\ p # NoPdu
<1>1. IsRequest(p)
    BY RequestsAssumption
<1> USE DEF LoginRequests, TextRequests, NopOuts, LogoutRequests, TaskmanRequests, R2TRequests,
        UnknownPdus, DataOuts
<1>2. p.bhs \in Bhs /\ p.tag \in Tags
    BY <1>1 DEF IsRequest, IsScsiCmd
<1>3. p.op = "scsi_cmd" => IsScsiCmd(p)
    BY <1>1 DEF IsRequest
<1>4. p.op = "login" => p \in LoginRequests
    BY <1>1 DEF IsRequest, IsScsiCmd
<1>5. p.op = "text" => p \in TextRequests
    BY <1>1 DEF IsRequest, IsScsiCmd
<1>6. p.op = "data_out" => p \in DataOuts
    BY <1>1 DEF IsRequest, IsScsiCmd
<1>7. p.op # "none"
    BY <1>1 DEF IsRequest, IsScsiCmd
<1>8. QED
    BY <1>2, <1>3, <1>4, <1>5, <1>6, <1>7 DEF NoPdu

LEMMA NoPduOp == NoPdu.op = "none"
BY DEF NoPdu

-----------------------------------------------------------------------------
(* What scsi::send() answers. *)

LEMMA SendReads ==
    ASSUME NEW cdb, NEW other
    PROVE  cdb.cmd = "read" => Send(cdb, other) = {Read(cdb)}
BY DEF Send

LEMMA UnmapForm ==
    ASSUME NEW list, NEW rw
    PROVE  \/ \E s : Unmap(list, rw) = [EmptySense EXCEPT !.sense = s]
           \/ \E s : s # "none" /\ Unmap(list, rw) = Sense(s)
BY DEF Unmap

\* What the iSCSI layer may find in the response to a command other than READ:
\* no place to read from; inline data that is only empty if the allocation
\* length of an INQUIRY is 0; and no reason to stay silent but a WRITE's.
OtherResponse(cdb, r) ==
    /\ r.n_sectors = 0 /\ r.inline \in BOOLEAN
    /\ r.inline => r.len \in Nat /\ (r.len = 0 => cdb.cmd = "inquiry" /\ cdb.alloc = 0)
    /\ r.type = "r2t" => cdb.cmd = "write" /\ ~r.inline
    /\ ~r.inline /\ r.sense = "none" /\ r.type \notin {"empty_sense", "r2t"} => cdb.cmd = "write"

LEMMA SenseResponse ==
    ASSUME NEW cdb, NEW s, s # "none" PROVE OtherResponse(cdb, Sense(s))
BY DEF OtherResponse, Sense, AsIs

LEMMA EmptySenseResponse ==
    ASSUME NEW cdb PROVE OtherResponse(cdb, EmptySense)
BY DEF OtherResponse, EmptySense, AsIs

LEMMA InlineResponse ==
    ASSUME NEW cdb, NEW n \in Nat, n = 0 => cdb.cmd = "inquiry" /\ cdb.alloc = 0
    PROVE  OtherResponse(cdb, Inline(n))
BY DEF OtherResponse, Inline, AsIs

LEMMA SendOthers ==
    ASSUME NEW cdb, IsCdb(cdb), cdb.cmd # "read", NEW other \in BOOLEAN,
           NEW r \in Send(cdb, other)
    PROVE  OtherResponse(cdb, r)
<1> USE SenseResponse, EmptySenseResponse, InlineResponse
<1>0. CASE cdb.cmd \in {"test_unit_ready", "mode_sense_6", "read_capacity_10"}
    BY <1>0 DEF Send, TestUnitReady, ModeSense6, ReadCapacity10
<1>1. CASE cdb.cmd = "inquiry"
    <2>1. r = Inquiry(cdb) /\ cdb.alloc \in Nat
        BY <1>1 DEF Send, IsCdb
    <2>2. ASSUME NEW k \in Nat \ {0} PROVE OtherResponse(cdb, Inline(Least(k, cdb.alloc)))
        <3>1. Least(k, cdb.alloc) \in Nat /\ (Least(k, cdb.alloc) = 0 => cdb.alloc = 0)
            BY <2>1 DEF Least
        <3>2. QED
            BY <1>1, <3>1
    <2>3. cdb.page \in {0, 128, 131, 176, 177, 178} => PageLength(cdb.page) \in Nat \ {0}
        BY DeviceAssumption DEF PageLength
    <2>4. QED
        BY <2>1, <2>2, <2>3 DEF Inquiry
<1>2. CASE cdb.cmd = "get_lba_status"
    <2>1. r = GetLbaStatus(cdb) /\ cdb.alloc \in Nat
        BY <1>2 DEF Send, IsCdb
    <2>2. cdb.alloc # 0 => Least(32, cdb.alloc) \in Nat \ {0}
        BY <2>1 DEF Least
    <2>3. QED
        BY <2>1, <2>2 DEF GetLbaStatus
<1>3. CASE cdb.cmd = "rep_sup_oper"
    <2>1. r = ReportSupportedOperationCodes(cdb) /\ cdb.known \in Nat
        BY <1>3 DEF Send, IsCdb
    <2>2. 4 + 8 * 24 \in Nat \ {0} /\ 4 + cdb.known \in Nat \ {0}
        BY <2>1
    <2>3. QED
        BY <2>1, <2>2 DEF ReportSupportedOperationCodes
<1>4. CASE cdb.cmd \in {"report_luns", "prefetch", "reserve_6", "release_6", "sync_cache_10"}
    BY <1>4 DEF Send, ReportLuns, Prefetch, Reserve, Release, SyncCache
<1>5. CASE cdb.cmd = "write"
    <2>1. PICK rw \in RwOf(cdb.cmd, other) : r = Write(cdb, rw)
        BY <1>5 DEF Send
    <2>2. OtherResponse(cdb, AsIs) /\ OtherResponse(cdb, [AsIs EXCEPT !.type = "r2t"])
        BY <1>5 DEF OtherResponse, AsIs
    <2>3. rw \in {"ok", "general", "locked"}
        BY <1>5, <2>1 DEF RwOf
    <2>4. QED
        BY <2>1, <2>2, <2>3 DEF Write
<1>6. CASE cdb.cmd = "compare_and_write"
    <2>1. PICK rw \in RwOf(cdb.cmd, other) : r = CompareAndWrite(cdb, rw)
        BY <1>6 DEF Send
    <2>2. rw \in {"ok", "rw", "mismatch", "locked"}
        BY <1>6, <2>1 DEF RwOf
    <2>3. QED
        BY <2>1, <2>2 DEF CompareAndWrite
<1>7. CASE cdb.cmd = "unmap"
    <2>1. Send(cdb, other) =
            {Unmap(cdb.list, rw) : rw \in [1 .. Len(cdb.list) -> RwOf(cdb.cmd, other)]}
        BY <1>7 DEF Send
    <2>2. PICK rw : r = Unmap(cdb.list, rw)
        BY <2>1
    <2>3. ASSUME NEW s PROVE OtherResponse(cdb, [EmptySense EXCEPT !.sense = s])
        BY DEF OtherResponse, EmptySense, AsIs
    <2>4. QED
        BY <2>2, <2>3, UnmapForm
<1>8. CASE cdb.cmd \notin {"test_unit_ready", "mode_sense_6", "read_capacity_10", "inquiry",
             "get_lba_status", "rep_sup_oper", "report_luns", "prefetch", "reserve_6",
             "release_6", "sync_cache_10", "write", "compare_and_write", "unmap"}
    BY <1>8 DEF Send, NotImplemented
<1>9. QED
    BY <1>0, <1>1, <1>2, <1>3, <1>4, <1>5, <1>6, <1>7, <1>8

\* A READ, by what becomes of it: an answer without data, or a place on the
\* device to read from.
LEMMA SendRead ==
    ASSUME NEW cdb, IsCdb(cdb), cdb.cmd = "read", NEW other, NEW r \in Send(cdb, other)
    PROVE  /\ ~r.inline /\ r.type # "r2t"
           /\ r.n_sectors > 0 =>
                /\ r.lba = cdb.lba /\ r.n_sectors = cdb.n
                /\ ~OutOfRange(cdb.lba, cdb.n)
           /\ r.n_sectors = 0 => r.sense # "none" \/ r.type = "empty_sense"
<1>1. r = Read(cdb)
    BY SendReads
<1>2. QED
    BY <1>1 DEF Read, Sense, EmptySense, Stream, AsIs

-----------------------------------------------------------------------------
(* Types. *)

Receiving == {"ahs", "ahs_loop", "header_digest", "data", "drain", "data_digest", "received"}

\* The type invariant needs to know when there is a PDU in hand and that the
\* error counter has room for one more.
TypeInv ==
    /\ TypeOK
    /\ pc \in Receiving \cup {"push", "stream", "error", "aborted", "count_last"} => pdu \in Requests
    /\ pc # "ended" => fails < MaxErrors
    /\ ifr = "connection" => ~up
    /\ pc = "count_last" => ~up

\* The state of the thread, without what it sends and counts.
control == <<up, pc, pdu, exists, ifr, ses, stream, fails>>

LEMMA TypeInvInit == Init => TypeInv
<1> SUFFICES ASSUME Init PROVE TypeInv
    OBVIOUS
<1>1. ses \in Sessions
    <2>1. PICK a \in BOOLEAN :
            ses = [allow_digest |-> a, header_digest |-> FALSE, data_digest |-> FALSE,
                   max_seg_len |-> MAX_DATA_SEGMENT_SIZE, data_sn_itt |-> 0, data_sn |-> 0,
                   r2t_sessions |-> {}]
        BY DEF Init
    <2>2. QED
        BY <2>1, TagsAssumption, LimitsAssumption DEF Sessions
<1>2. up \in BOOLEAN /\ exists \in BOOLEAN /\ fresh \in BOOLEAN
    BY DEF Init
<1>3. fails \in 0 .. MaxErrors /\ errors \in Nat /\ fails < MaxErrors
    BY LimitsAssumption DEF Init
<1>4. stream \in [lba : Nat, off : Nat, has : Nat, wants : Nat]
    BY DEF Init, NoStream
<1>5. TypeOK
    BY <1>1, <1>2, <1>3, <1>4 DEF Init, TypeOK
<1>6. QED
    BY <1>3, <1>5 DEF Init, TypeInv, Receiving

LEMMA SetDataType ==
    ASSUME ses \in Sessions, NEW p \in Requests PROVE SetData(p) \in Sessions
<1>1. CASE p.op # "login"
    BY <1>1 DEF SetData
<1>2. CASE p.op = "login"
    <2>1. p.MaxRecvDataSegmentLength \in Nat \cup {NoKey}
        BY <1>2, RequestFacts DEF LoginRequests
    <2>2. \A key : \A old \in BOOLEAN : Chosen(key, old) \in BOOLEAN
        BY DEF Chosen
    <2>3. ses.max_seg_len \in Nat /\ ses.header_digest \in BOOLEAN /\ ses.data_digest \in BOOLEAN
        BY DEF Sessions
    <2>4. \A a, b \in Nat : Least(a, b) \in Nat
        BY DEF Least
    <2>5. \A m \in Nat : \A h, d \in BOOLEAN :
            [ses EXCEPT !.max_seg_len = m, !.header_digest = h, !.data_digest = d] \in Sessions
        BY DEF Sessions
    <2>6. (IF p.MaxRecvDataSegmentLength = NoKey THEN ses.max_seg_len
           ELSE Least(ses.max_seg_len, p.MaxRecvDataSegmentLength)) \in Nat
        BY <2>1, <2>3, <2>4
    <2>7. QED
        BY <1>2, <2>2, <2>3, <2>5, <2>6 DEF SetData
<1>3. QED
    BY <1>1, <1>2

LEMMA ModType == \A a \in Nat : a % Uint32 \in 0 .. Uint32 - 1
BY Uint32Assumption

LEMMA TakeDataSNType ==
    ASSUME ses \in Sessions, NEW t \in Tags, NEW n \in Nat
    PROVE  NextDataSN(t) \in Nat /\ TakeDataSN(t, n) \in Sessions
<1>1. NextDataSN(t) \in Nat
    BY DEF NextDataSN, Sessions
<1>2. (NextDataSN(t) + n) % Uint32 \in Nat
    <2>1. NextDataSN(t) + n \in Nat
        BY <1>1
    <2>2. QED
        BY <2>1, ModType, Uint32Assumption
<1>3. \A m \in Nat : [ses EXCEPT !.data_sn_itt = t, !.data_sn = m] \in Sessions
    BY DEF Sessions
<1>4. QED
    BY <1>1, <1>2, <1>3 DEF TakeDataSN

\* How many DATA-INs inline data makes.
LEMMA InlineCount ==
    ASSUME NEW p \in Requests, p.op = "scsi_cmd", NEW len \in Nat, NEW sn
    PROVE  /\ (Least(len, p.ExpDatLen) + BlockSize - 1) \div BlockSize \in Nat
           /\ Len(InlineDataIns(p, len, sn)) =
                (Least(len, p.ExpDatLen) + BlockSize - 1) \div BlockSize
           /\ \E S : InlineDataIns(p, len, sn) \in Seq(S)
<1> DEFINE use == Least(len, p.ExpDatLen)
           k == (use + BlockSize - 1) \div BlockSize
<1>1. use \in Nat
    BY RequestFacts DEF IsScsiCmd, Least
<1>2. k \in Nat
    <2>1. use + BlockSize - 1 \in Nat /\ BlockSize \in Nat \ {0}
        BY <1>1, DeviceAssumption
    <2> HIDE DEF use
    <2>2. \A a \in Nat : \A b \in Nat \ {0} : a \div b \in Nat
        OBVIOUS
    <2>3. QED
        BY <2>1, <2>2
<1> HIDE DEF k
<1>3. InlineDataIns(p, len, sn) = [n \in 1 .. k |-> InlineDataIn(p, len, sn, n)]
    BY DEF InlineDataIns, k
<1> DEFINE S == {InlineDataIn(p, len, sn, n) : n \in 1 .. k}
<1>4. InlineDataIns(p, len, sn) \in [1 .. k -> S]
    BY <1>3
<1> HIDE DEF S
<1>5. InlineDataIns(p, len, sn) \in Seq(S) /\ Len(InlineDataIns(p, len, sn)) = k
    BY <1>2, <1>4
<1>6. QED
    BY <1>2, <1>5 DEF k

LEMMA TypeInvStep == TypeInv /\ [Next]_vars => TypeInv'
<1> SUFFICES ASSUME TypeInv, [Next]_vars PROVE TypeInv'
    OBVIOUS
<1>0. TypeOK
    BY DEF TypeInv
<1> USE DEF TypeInv, TypeOK, Receiving
<1>1. CASE Hangup
    BY <1>0, <1>1 DEF Hangup, history
<1>2. ASSUME NEW p \in Requests, RecvHeader(p) PROVE TypeInv'
    BY <1>0, <1>2 DEF RecvHeader
<1>3. CASE RecvNothing
    BY <1>0, <1>3 DEF RecvNothing, history
<1>4. CASE RecvAhs
    BY <1>0, <1>4 DEF RecvAhs, Received, RecvFails, history
<1>5. CASE RecvHeaderDigest
    BY <1>0, <1>5 DEF RecvHeaderDigest, Received, RecvFails, Mismatch, history
<1>6. CASE RecvData
    <2>1. ses' \in Sessions
        <3>1. SetData(pdu) \in Sessions
            BY <1>0, <1>6, SetDataType DEF RecvData
        <3>2. QED
            BY <1>0, <1>6, <3>1 DEF RecvData, Received, RecvFails
    <2>2. QED
        BY <1>0, <1>6, <2>1 DEF RecvData, Received, RecvFails, history
<1>7. CASE Drain
    BY <1>0, <1>7 DEF Drain, RecvFails, history
<1>8. CASE RecvDataDigest
    BY <1>0, <1>8 DEF RecvDataDigest, Received, RecvFails, Mismatch, history
<1>9. CASE Dispatch
    BY <1>0, <1>9 DEF Dispatch, history
<1>10. CASE PushLogin
    BY <1>0, <1>10 DEF PushLogin, Emit
<1>11. CASE PushOther
    BY <1>0, <1>11 DEF PushOther, Emit, history
<1>12. CASE PushScsi
    <2>1. /\ pdu \in Requests /\ pdu.op = "scsi_cmd" /\ IsCdb(pdu.cdb) /\ pdu.tag \in Tags
          /\ pdu.ExpDatLen \in Nat /\ UNCHANGED <<up, pdu, exists, fails, history>>
          /\ pc = "push"
        BY <1>0, <1>12, RequestFacts DEF PushScsi, IsScsiCmd
    <2>o. PICK other \in BOOLEAN : \E r \in Send(pdu.cdb, other) :
            AnswerInline(r) \/ AnswerStatus(r) \/ AnswerR2T(r) \/ AnswerStream(r)
        BY <1>12 DEF PushScsi
    <2>2. PICK r \in Send(pdu.cdb, other) :
            AnswerInline(r) \/ AnswerStatus(r) \/ AnswerR2T(r) \/ AnswerStream(r)
        BY <2>o
    <2>3. CASE AnswerInline(r)
        <3>1. r.len \in Nat
            BY <2>1, <2>2, <2>3, SendOthers, SendRead DEF AnswerInline, OtherResponse
        <3>2. Len(InlineDataIns(pdu, r.len, NextDataSN(pdu.tag))) \in Nat
            BY <2>1, <3>1, InlineCount
        <3>3. ses' \in Sessions
            BY <1>0, <2>1, <2>3, <3>2, TakeDataSNType DEF AnswerInline
        <3>4. QED
            BY <1>0, <2>1, <2>3, <3>3 DEF AnswerInline, Emit, history
    <2>4. CASE AnswerStatus(r)
        BY <1>0, <2>1, <2>4 DEF AnswerStatus, Emit, history
    <2>5. CASE AnswerR2T(r)
        <3>1. ses' \in Sessions
            BY <1>0, <2>1, <2>5 DEF AnswerR2T, Sessions
        <3>2. QED
            BY <1>0, <2>1, <2>5, <3>1 DEF AnswerR2T, Emit, history
    <2>6. CASE AnswerStream(r)
        <3>1. pdu.cdb.cmd = "read"
            BY <2>1, <2>2, <2>6, SendOthers DEF AnswerStream, OtherResponse
        <3>2. r.lba \in Nat /\ r.n_sectors \in Nat
            BY <2>1, <2>2, <2>6, <3>1, SendRead DEF AnswerStream, IsCdb
        <3>3. r.n_sectors * BlockSize \in Nat
            BY <3>2, DeviceAssumption
        <3>4. (r.n_sectors * BlockSize) % Uint32 \in Nat
            BY <3>3, ModType, Uint32Assumption
        <3>5. stream' \in [lba : Nat, off : Nat, has : Nat, wants : Nat]
            BY <2>1, <2>6, <3>2, <3>4 DEF AnswerStream
        <3>6. QED
            BY <1>0, <2>1, <2>6, <3>5 DEF AnswerStream, history
    <2>7. QED
        BY <2>2, <2>3, <2>4, <2>5, <2>6
<1>13. CASE PushDataOut
    <2>1. pdu \in Requests /\ pdu.tag \in Tags
        BY <1>0, <1>13, RequestFacts DEF PushDataOut
    <2>2. ses' \in Sessions
        BY <1>0, <1>13, <2>1 DEF PushDataOut, Sessions
    <2>3. QED
        BY <1>0, <1>13, <2>1, <2>2 DEF PushDataOut, Emit, Fail, history
<1>14. CASE StreamNothing
    BY <1>0, <1>14 DEF StreamNothing, Emit, EndStream, NoStream, history
<1>15. CASE StreamPiece \/ StreamFails
    <2>1. pdu \in Requests /\ pdu.tag \in Tags
        BY <1>0, <1>15, RequestFacts DEF StreamPiece, StreamFails
    <2>2. ses' \in Sessions
        BY <1>0, <1>15, <2>1, TakeDataSNType DEF StreamPiece, StreamFails
    <2>3. CASE StreamFails
        BY <1>0, <2>1, <2>2, <2>3 DEF StreamFails, Fail, EndStream, NoStream, history
    <2>4. CASE StreamPiece
        <3>1. stream' \in [lba : Nat, off : Nat, has : Nat, wants : Nat]
            <4>1. offset_end \in Nat /\ stream.off \in Nat /\ stream.lba \in Nat
                BY <1>0 DEF offset_end, Least
            <4>2. current_n \in Nat
                BY <1>0, <2>4, <4>1, LimitsAssumption DEF StreamPiece, current_n, Least, Sessions
            <4>3. is_n_blocks \in Nat
                BY <4>2, DeviceAssumption DEF is_n_blocks
            <4>4. stream.off + current_n \in Nat /\ next_lba \in Nat
                BY <4>1, <4>2, <4>3 DEF next_lba
            <4>5. \A a, b \in Nat : [stream EXCEPT !.off = a, !.lba = b]
                                      \in [lba : Nat, off : Nat, has : Nat, wants : Nat]
                BY <1>0
            <4>6. stream' \in {NoStream, [stream EXCEPT !.off = stream.off + current_n,
                                                        !.lba = next_lba]}
                BY <2>4 DEF StreamPiece, EndStream
            <4>7. NoStream \in [lba : Nat, off : Nat, has : Nat, wants : Nat]
                BY DEF NoStream
            <4>8. [stream EXCEPT !.off = stream.off + current_n, !.lba = next_lba]
                    \in [lba : Nat, off : Nat, has : Nat, wants : Nat]
                BY <4>4, <4>5
            <4>9. QED
                BY <4>6, <4>7, <4>8
        <3>2. QED
            BY <1>0, <2>1, <2>2, <2>4, <3>1 DEF StreamPiece, history
    <2>5. QED
        BY <1>15, <2>3, <2>4
<1>16. CASE StreamDone
    BY <1>0, <1>16 DEF StreamDone, EndStream, NoStream, history
<1>17. CASE AnswerError \/ RejectPdu
    BY <1>0, <1>17 DEF AnswerError, RejectPdu, SendError, history
<1>18. CASE SkipPdu
    BY <1>0, <1>18 DEF SkipPdu, DeletePdu
<1>19. CASE Abort
    BY <1>0, <1>19 DEF Abort, history
<1>20. CASE Count
    <2>1. fails' \in 0 .. MaxErrors /\ (pc' # "ended" => fails' < MaxErrors)
        BY <1>0, <1>20, LimitsAssumption DEF Count, FailCounter, Over
    <2>2. errors' \in Nat
        BY <1>0, <1>20 DEF Count
    <2>3. QED
        BY <1>0, <1>20, <2>1, <2>2 DEF Count, DeletePdu
<1>21. CASE UNCHANGED vars
    BY <1>0, <1>21 DEF vars, history
<1>22. QED
    BY <1>1, <1>2, <1>3, <1>4, <1>5, <1>6, <1>7, <1>8, <1>9, <1>10, <1>11, <1>12, <1>13, <1>14,
       <1>15, <1>16, <1>17, <1>18, <1>19, <1>20, <1>21 DEF Next, Thread, Receive, Push, Finish

LEMMA TypeInvariant == Spec => []TypeInv
BY TypeInvInit, TypeInvStep, PTL DEF Spec

\* Every variable of the session thread keeps its type: its error counter
\* stays within the limit and its numbers stay natural.
THEOREM TypeCorrect == Spec => []TypeOK
<1>1. TypeInv => TypeOK
    BY DEF TypeInv
<1>2. QED
    BY <1>1, TypeInvariant, PTL

-----------------------------------------------------------------------------
(* Which PDUs end the program. *)

BadDigest ==
    \/ header_digest /\ ~pdu.bhs.hgood
    \/ data_digest /\ pdu.bhs.data = "some" /\ ~pdu.bhs.dgood

\* Why receive_pdu() has no PDU, or has one that is not to be handled.
ReceiveInv ==
    /\ ifr = "digest" => pdu \in Requests /\ pdu.op # "login" /\ BadDigest
    /\ pc \in {"push", "stream"} => exists /\ ifr = "ok"
    /\ pc = "error" => ifr \notin {"ok", "connection"}
    /\ pc = "data_digest" => pdu.bhs.data = "some"
    /\ pc \in Receiving =>
          /\ ifr # "io_error"
          /\ ifr = "invalid_field" => pc = "drain"
          /\ ifr = "invalid_command" => pdu.op = "unknown"
    /\ pc \in Receiving \cup {"error"} /\ ~exists =>
          ifr \in {"connection", "digest"} \/ pc = "drain"
    /\ pc = "aborted" => BadDigest

LEMMA ReceiveInvInit == Init => ReceiveInv
BY DEF Init, ReceiveInv, Receiving

LEMMA ReceiveInvStep == TypeInv /\ ReceiveInv /\ [Next]_vars => ReceiveInv'
<1> SUFFICES ASSUME TypeInv, ReceiveInv, [Next]_vars PROVE ReceiveInv'
    OBVIOUS
<1>0. TypeOK
    BY DEF TypeInv
<1>k. ASSUME UNCHANGED <<pdu, ses>> PROVE BadDigest' = BadDigest
    BY <1>k DEF BadDigest, header_digest, data_digest
<1> USE DEF ReceiveInv, Receiving
<1>1. CASE Hangup
    BY <1>1, <1>k DEF Hangup, history
<1>2. ASSUME NEW p \in Requests, RecvHeader(p) PROVE ReceiveInv'
    BY <1>2, <1>k DEF RecvHeader
<1>3. CASE RecvNothing
    BY <1>3, <1>k DEF RecvNothing, history
<1>4. CASE RecvAhs
    BY <1>4, <1>k DEF RecvAhs, Received, RecvFails, history
<1>5. CASE RecvHeaderDigest
    <2>1. pdu \in Requests
        BY <1>5 DEF TypeInv, RecvHeaderDigest
    <2>2. UNCHANGED <<pdu, ses>>
        BY <1>5 DEF RecvHeaderDigest, Received, RecvFails, Mismatch
    <2>3. ASSUME Mismatch("data") PROVE BadDigest /\ pdu.op # "login"
        BY <1>5, <2>3 DEF RecvHeaderDigest, Received, RecvFails, Mismatch, BadDigest, HasDigest, TypeInv
    <2>4. QED
        BY <1>5, <2>1, <2>2, <2>3, <1>k DEF RecvHeaderDigest, Received, RecvFails, Mismatch, history
<1>6. CASE RecvData
    <2>1. pdu.op # "login" => UNCHANGED <<pdu, ses>>
        BY <1>6 DEF RecvData, Received, RecvFails, SetData
    <2>2. QED
        BY <1>6, <2>1, <1>k DEF RecvData, Received, RecvFails, history
<1>7. CASE Drain
    BY <1>7, <1>k DEF Drain, RecvFails, history
<1>8. CASE RecvDataDigest
    <2>1. pdu \in Requests
        BY <1>8 DEF TypeInv, RecvDataDigest
    <2>2. UNCHANGED <<pdu, ses>>
        BY <1>8 DEF RecvDataDigest, Received, RecvFails, Mismatch
    <2>3. ASSUME Mismatch("received") PROVE BadDigest /\ pdu.op # "login"
        BY <1>8, <2>3 DEF RecvDataDigest, Received, RecvFails, Mismatch, BadDigest, HasDigest, TypeInv
    <2>4. QED
        BY <1>8, <2>1, <2>2, <2>3, <1>k DEF RecvDataDigest, Received, RecvFails, Mismatch, history
<1>9. CASE Dispatch
    BY <1>0, <1>9, <1>k DEF Dispatch, history, TypeOK
<1>10. CASE PushLogin
    BY <1>10 DEF PushLogin, Emit
<1>11. CASE PushOther
    BY <1>11 DEF PushOther, Emit, history
<1>12. CASE PushScsi
    BY <1>12 DEF PushScsi, AnswerInline, AnswerStatus, AnswerR2T, AnswerStream, Emit, history
<1>13. CASE PushDataOut
    BY <1>13 DEF PushDataOut, Emit, Fail, history
<1>14. CASE StreamNothing \/ StreamPiece \/ StreamFails \/ StreamDone
    BY <1>14 DEF StreamNothing, StreamPiece, StreamFails, StreamDone, Emit, Fail, history
<1>15. CASE AnswerError \/ RejectPdu
    BY <1>15, <1>k DEF AnswerError, RejectPdu, SendError, history
<1>16. CASE SkipPdu
    BY <1>16 DEF SkipPdu, DeletePdu
<1>17. CASE Abort
    BY <1>17, <1>k DEF Abort, history
<1>18. CASE Count
    BY <1>18 DEF Count, DeletePdu
<1>19. CASE UNCHANGED vars
    BY <1>19, <1>k DEF vars, history
<1>20. QED
    BY <1>1, <1>2, <1>3, <1>4, <1>5, <1>6, <1>7, <1>8, <1>9, <1>10, <1>11, <1>12, <1>13, <1>14,
       <1>15, <1>16, <1>17, <1>18, <1>19 DEF Next, Thread, Receive, Push, Finish

LEMMA ReceiveInvariant == Spec => []ReceiveInv
BY TypeInvariant, ReceiveInvInit, ReceiveInvStep, PTL DEF Spec

\* The uncaught exception of server::handler() is only reached through a wrong
\* digest in a session that agreed to have digests: no other PDU, in no
\* order and with a connection that breaks anywhere, ends the program.
THEOREM SessionSurvives == Spec => []SurvivesPdus
<1>1. ReceiveInv => SurvivesPdus
    BY DEF ReceiveInv, SurvivesPdus, BadDigest
<1>2. QED
    BY <1>1, ReceiveInvariant, PTL

-----------------------------------------------------------------------------
(* Digests. *)

Names == <<DigestName(header_digest), DigestName(data_digest)>>

\* A login that changes the digests of the session, between the change and the
\* reply that announces it.
LoginUnderWay ==
    /\ pc \in {"data_digest", "received", "push"} /\ pdu.op = "login" /\ pdu.bhs.data = "some"
    /\ ~(pdu.HeaderDigest = "absent" /\ pdu.DataDigest = "absent")

DigestInv ==
    /\ pc = "recv" => ifr = "ok"
    /\ \/ told = <<"absent", "absent">>
       \/ told = Names
       \/ LoginUnderWay
       \/ pc \in {"data_digest", "received", "count"} /\ ifr = "connection"
       \/ pc = "ended"

LEMMA DigestInvInit == Init => DigestInv
<1> SUFFICES ASSUME Init PROVE DigestInv
    OBVIOUS
<1>1. ses.header_digest = FALSE /\ ses.data_digest = FALSE
    BY DEF Init
<1>2. QED
    BY <1>1 DEF Init, DigestInv, Names, DigestName, header_digest, data_digest

\* Numbering DATA-INs and noting transfers leave the digests alone.
LEMMA NamesKept ==
    ASSUME ses \in Sessions, NEW t, NEW n, NEW T,
           ses' \in {ses, TakeDataSN(t, n), [ses EXCEPT !.r2t_sessions = T]}
    PROVE  Names' = Names
<1>1. /\ ses'.header_digest = ses.header_digest /\ ses'.data_digest = ses.data_digest
      /\ ses'.allow_digest = ses.allow_digest
    BY DEF Sessions, TakeDataSN
<1>2. QED
    BY <1>1 DEF Names, DigestName, header_digest, data_digest

LEMMA DigestInvStep == TypeInv /\ ReceiveInv /\ DigestInv /\ [Next]_vars => DigestInv'
<1> SUFFICES ASSUME TypeInv, ReceiveInv, DigestInv, [Next]_vars PROVE DigestInv'
    OBVIOUS
<1>0. TypeOK /\ ses \in Sessions /\ (ifr = "connection" => ~up)
    BY DEF TypeInv, TypeOK
<1>k. ses' = ses => Names' = Names
    BY DEF Names, DigestName, header_digest, data_digest
<1> USE DEF DigestInv, LoginUnderWay
<1>1. CASE Hangup
    BY <1>1, <1>k DEF Hangup, history
<1>2. ASSUME NEW p \in Requests, RecvHeader(p) PROVE DigestInv'
    BY <1>2, <1>k DEF RecvHeader
<1>3. CASE RecvNothing
    BY <1>3, <1>k DEF RecvNothing, history
<1>4. CASE RecvAhs
    BY <1>4, <1>k DEF RecvAhs, Received, RecvFails, history
<1>5. CASE RecvHeaderDigest
    BY <1>0, <1>5, <1>k DEF RecvHeaderDigest, Received, RecvFails, Mismatch, history
<1>6. CASE RecvData
    <2>1. CASE pdu.bhs.data = "some" /\ up /\ ses' = SetData(pdu) /\ pc' = "data_digest"
        <3>1. CASE pdu.op = "login" /\ pdu.HeaderDigest = "absent" /\ pdu.DataDigest = "absent"
            <4>1. /\ ses'.header_digest = ses.header_digest /\ ses'.data_digest = ses.data_digest
                  /\ ses'.allow_digest = ses.allow_digest
                BY <1>0, <2>1, <3>1 DEF SetData, Chosen, Sessions
            <4>2. Names' = Names
                BY <4>1 DEF Names, DigestName, header_digest, data_digest
            <4>3. QED
                BY <1>0, <1>6, <2>1, <4>2 DEF RecvData, history
        <3>2. CASE pdu.op # "login"
            BY <1>0, <1>6, <2>1, <3>2, <1>k DEF RecvData, SetData, history
        <3>3. CASE pdu.op = "login" /\ ~(pdu.HeaderDigest = "absent" /\ pdu.DataDigest = "absent")
            BY <1>6, <2>1, <3>3 DEF RecvData, history
        <3>4. QED
            BY <3>1, <3>2, <3>3
    <2>2. CASE ses' = ses /\ pdu.bhs.data # "some"
        BY <1>6, <2>2, <1>k DEF RecvData, Received, history
    <2>3. CASE pdu.bhs.data = "some" /\ RecvFails("data_digest")
        BY <1>6, <2>3, <1>k DEF RecvData, RecvFails, history
    <2>4. QED
        BY <1>6, <2>1, <2>2, <2>3 DEF RecvData, Received
<1>7. CASE Drain
    BY <1>7, <1>k DEF Drain, RecvFails, history
<1>8. CASE RecvDataDigest
    BY <1>0, <1>8, <1>k DEF RecvDataDigest, Received, RecvFails, Mismatch, HasDigest, history
<1>9. CASE Dispatch
    BY <1>0, <1>9, <1>k DEF Dispatch, ReceiveInv, Receiving, history, TypeOK
<1>10. CASE PushLogin
    <2>1. /\ pc = "push" /\ pdu.op = "login" /\ pc' = "count" /\ Names' = Names
          /\ ifr = "ok"
        BY <1>10, <1>k DEF PushLogin, Emit, ReceiveInv
    <2>2. CASE told' = Announced(pdu, LoginReply(pdu, header_digest, data_digest))
        <3>1. CASE pdu.NSG # 1
            BY <2>1, <2>2, <3>1 DEF Announced, LoginReply, Names
        <3>2. CASE pdu.NSG = 1
            BY <2>1, <2>2, <3>2 DEF Announced
        <3>3. QED
            BY <3>1, <3>2
    <2>3. QED
        BY <1>10, <2>1, <2>2 DEF PushLogin
<1>11. CASE PushOther
    BY <1>11, <1>k DEF PushOther, Emit, ReceiveInv, history
<1>12. CASE PushScsi
    <2>1. /\ pc = "push" /\ pdu.op = "scsi_cmd" /\ ifr = "ok" /\ told' = told
        BY <1>12 DEF PushScsi, ReceiveInv, history
    <2>2. PICK n, T : ses' \in {ses, TakeDataSN(pdu.tag, n), [ses EXCEPT !.r2t_sessions = T]}
        BY <1>12 DEF PushScsi, AnswerInline, AnswerStatus, AnswerR2T, AnswerStream
    <2>3. Names' = Names
        BY <1>0, <2>2, NamesKept
    <2>4. pc' \in {"count", "stream"}
        BY <1>12 DEF PushScsi, AnswerInline, AnswerStatus, AnswerR2T, AnswerStream, Emit
    <2>5. QED
        BY <2>1, <2>3, <2>4
<1>13. CASE PushDataOut
    <2>1. /\ pc = "push" /\ pdu.op = "data_out" /\ ifr = "ok" /\ told' = told
          /\ pc' \in {"count", "error"}
        BY <1>13 DEF PushDataOut, ReceiveInv, Emit, Fail, history
    <2>2. PICK T : ses' \in {ses, [ses EXCEPT !.r2t_sessions = T]}
        BY <1>13 DEF PushDataOut
    <2>3. Names' = Names
        BY <1>0, <2>2, NamesKept
    <2>4. QED
        BY <2>1, <2>3
<1>14. CASE StreamNothing \/ StreamPiece \/ StreamFails \/ StreamDone
    <2>1. /\ pc = "stream" /\ ifr = "ok" /\ told' = told /\ pc' \in {"stream", "count", "error"}
        BY <1>14 DEF StreamNothing, StreamPiece, StreamFails, StreamDone, Emit, Fail, history,
            ReceiveInv
    <2>2. ses' \in {ses, TakeDataSN(pdu.tag, 1)}
        BY <1>14 DEF StreamNothing, StreamPiece, StreamFails, StreamDone
    <2>3. Names' = Names
        BY <1>0, <2>2, NamesKept
    <2>4. QED
        BY <2>1, <2>3
<1>15. CASE AnswerError \/ RejectPdu
    BY <1>15, <1>k DEF AnswerError, RejectPdu, SendError, history
<1>16. CASE SkipPdu
    BY <1>16, <1>k DEF SkipPdu, DeletePdu, ReceiveInv
<1>17. CASE Abort
    BY <1>17, <1>k DEF Abort, history
<1>18. CASE Count
    BY <1>18, <1>k DEF Count, DeletePdu, Over
<1>19. CASE UNCHANGED vars
    BY <1>19, <1>k DEF vars, history
<1>20. QED
    BY <1>1, <1>2, <1>3, <1>4, <1>5, <1>6, <1>7, <1>8, <1>9, <1>10, <1>11, <1>12, <1>13, <1>14,
       <1>15, <1>16, <1>17, <1>18, <1>19 DEF Next, Thread, Receive, Push, Finish

\* The digests that a session adds and checks are those of its last login
\* reply, whatever logins come in whatever order, also in the middle of a
\* session; unless that reply could not tell (see Announced).
THEOREM SessionDigests == Spec => []DigestsAgreed
<1>1. DigestInv => DigestsAgreed
    BY DEF DigestInv, DigestsAgreed, LoginUnderWay, Names
<1>2. QED
    BY <1>1, TypeInvariant, ReceiveInvariant, DigestInvInit, DigestInvStep, PTL DEF Spec

-----------------------------------------------------------------------------
(* What is sent, and the error counter. *)

\* The DATA-INs of a READ.
DataIns ==
    [type : {"data_in"}, tag : Tags, DataSN : Nat, off : Nat, len : Nat, F : BOOLEAN, S : BOOLEAN,
     residual : [flag : {"O", "U", "-"}, count : Nat], from : Nat, valid : Nat]

\* Nothing is sent while a PDU is received; errors follow nothing but DATA-INs.
OutInv ==
    /\ pc \in {"recv", "push", "ended"} \cup Receiving => out = <<>>
    /\ pc \in {"stream", "error"} => out \in Seq(DataIns)

LEMMA ResidualType ==
    ASSUME NEW has \in Nat, NEW wants \in Nat
    PROVE  Residual(has, wants) \in [flag : {"O", "U", "-"}, count : Nat]
BY DEF Residual

\* The numbers of the next piece of a READ.
LEMMA PieceNumbers ==
    ASSUME TypeOK, pc = "stream", stream.off < offset_end
    PROVE  /\ offset_end \in Nat /\ stream.off \in Nat /\ stream.lba \in Nat
           /\ stream.has \in Nat /\ stream.wants \in Nat
           /\ current_n \in Nat /\ is_n_blocks \in Nat
           /\ stream.off + current_n <= offset_end /\ current_n <= ses.max_seg_len
<1>1. /\ offset_end \in Nat /\ stream.off \in Nat /\ stream.lba \in Nat
      /\ stream.has \in Nat /\ stream.wants \in Nat
    BY DEF offset_end, Least, TypeOK
<1>2. /\ current_n \in Nat
      /\ stream.off + current_n <= offset_end /\ current_n <= ses.max_seg_len
    BY <1>1, LimitsAssumption DEF current_n, Least, Sessions, TypeOK
<1>3. is_n_blocks \in Nat
    BY <1>2, DeviceAssumption DEF is_n_blocks
<1>4. QED
    BY <1>1, <1>2, <1>3

LEMMA PieceType ==
    ASSUME TypeOK, pc = "stream", pdu \in Requests, stream.off < offset_end
    PROVE  Piece \in DataIns
<1>1. pdu.tag \in Tags /\ NextDataSN(pdu.tag) \in Nat
    BY RequestFacts, TakeDataSNType, 1 \in Nat DEF TypeOK
<1>2. /\ stream.off \in Nat /\ current_n \in Nat /\ is_n_blocks \in Nat /\ stream.lba \in Nat
      /\ stream.has \in Nat /\ stream.wants \in Nat
    BY PieceNumbers
<1>3. last_block \in BOOLEAN
    BY DEF last_block
<1>4. (IF last_block THEN Residual(stream.has, stream.wants) ELSE NoResidual)
        \in [flag : {"O", "U", "-"}, count : Nat]
    BY <1>2, ResidualType DEF NoResidual
<1>5. stream.lba * BlockSize \in Nat /\ is_n_blocks * BlockSize \in Nat
    BY <1>2, DeviceAssumption
<1>6. (IF current_n < BlockSize THEN current_n ELSE is_n_blocks * BlockSize) \in Nat
    BY <1>2, <1>5
<1>7. QED
    BY <1>1, <1>2, <1>3, <1>4, <1>5, <1>6 DEF Piece, DataIn, DataIns

\* The first PDUs that are sent for a PDU.
LEMMA EmitFirst ==
    ASSUME out = <<>>, NEW S, NEW pdus \in Seq(S), Emit(pdus)
    PROVE  /\ out' = IF up THEN pdus ELSE <<>>
           /\ pc' = "count" /\ (up => ifr' = "ok")
BY ConcatEmptySeq DEF Emit

\* A PDU that tells the initiator that its PDU was not handled.
IsError(q) == q.type = "reject" \/ (q.type = "scsi_resp" /\ q.status = "io_error")

\* Sequences of PDUs without one.
Answers(q) == (\E S : q \in Seq(S)) /\ \A i \in 1 .. Len(q) : ~IsError(q[i])

LEMMA NoAnswer == Answers(<<>>)
<1>1. <<>> \in Seq({})
    OBVIOUS
<1>2. QED
    BY <1>1 DEF Answers

LEMMA OneAnswer == ASSUME NEW a, ~IsError(a) PROVE Answers(<<a>>)
<1>1. \E S : <<a>> \in Seq(S)
    <2>1. <<a>> \in Seq({a})
        OBVIOUS
    <2>2. QED
        BY <2>1
<1>2. \A i \in 1 .. Len(<<a>>) : <<a>>[i] = a
    OBVIOUS
<1>3. QED
    BY <1>1, <1>2, Zenon DEF Answers

LEMMA TwoAnswers == ASSUME NEW a, NEW b, ~IsError(a), ~IsError(b) PROVE Answers(<<a, b>>)
<1>1. \E S : <<a, b>> \in Seq(S)
    <2>1. <<a, b>> \in Seq({a, b})
        OBVIOUS
    <2>2. QED
        BY <2>1
<1>2. \A i \in 1 .. Len(<<a, b>>) : <<a, b>>[i] \in {a, b}
    OBVIOUS
<1>3. QED
    BY <1>1, <1>2, Zenon DEF Answers

LEMMA InlineAnswers ==
    ASSUME NEW p \in Requests, p.op = "scsi_cmd", NEW len \in Nat, NEW sn
    PROVE  Answers(InlineDataIns(p, len, sn))
<1>1. /\ \E S : InlineDataIns(p, len, sn) \in Seq(S)
      /\ Len(InlineDataIns(p, len, sn)) = (Least(len, p.ExpDatLen) + BlockSize - 1) \div BlockSize
    BY InlineCount
<1>2. \A i \in 1 .. Len(InlineDataIns(p, len, sn)) :
        InlineDataIns(p, len, sn)[i] = InlineDataIn(p, len, sn, i)
    BY <1>1 DEF InlineDataIns
<1>3. \A i : ~IsError(InlineDataIn(p, len, sn, i))
    BY DEF IsError, InlineDataIn
<1>4. QED
    BY <1>1, <1>2, <1>3 DEF Answers

\* What a handler that does not stream does with its PDU: it answers, or it
\* fails.
LEMMA PushAnswers ==
    ASSUME TypeInv, pc = "push", PushLogin \/ PushOther \/ PushScsi \/ PushDataOut
    PROVE  \/ \E q : Answers(q) /\ Emit(q)
           \/ pc' = "error" /\ out' = out
           \/ pc' = "stream" /\ UNCHANGED <<ifr, out>>
<1>0. pdu \in Requests
    BY DEF TypeInv
<1>1. \A tag, res, s : s # "io_error" => ~IsError(ScsiResponse(tag, s, res))
    BY DEF IsError, ScsiResponse
<1>2. CASE PushLogin
    <2>1. ~IsError(LoginReply(pdu, header_digest, data_digest))
        BY DEF IsError, LoginReply
    <2>2. QED
        BY <1>2, <2>1, NoAnswer, OneAnswer DEF PushLogin
<1>3. CASE PushOther
    <2>1. /\ ~IsError(NopIn(pdu)) /\ ~IsError(TextReply(pdu)) /\ ~IsError(LogoutReply(pdu))
          /\ ~IsError(TaskmanReply(pdu))
        BY DEF IsError, NopIn, TextReply, LogoutReply, TaskmanReply
    <2>2. Answers(TextAnswer(pdu)) /\ Answers(<<NopIn(pdu)>>) /\ Answers(<<LogoutReply(pdu)>>)
          /\ Answers(<<TaskmanReply(pdu)>>) /\ Answers(<<>>)
        BY <2>1, NoAnswer, OneAnswer DEF TextAnswer
    <2>3. QED
        BY <1>3, <2>2 DEF PushOther
<1>4. CASE PushScsi
    <2>0. pdu.op = "scsi_cmd" /\ IsCdb(pdu.cdb)
        BY <1>0, <1>4, RequestFacts DEF PushScsi, IsScsiCmd
    <2>1. PICK other \in BOOLEAN : \E r \in Send(pdu.cdb, other) :
            AnswerInline(r) \/ AnswerStatus(r) \/ AnswerR2T(r) \/ AnswerStream(r)
        BY <1>4 DEF PushScsi
    <2>2. PICK r \in Send(pdu.cdb, other) :
            AnswerInline(r) \/ AnswerStatus(r) \/ AnswerR2T(r) \/ AnswerStream(r)
        BY <2>1
    <2>3. CASE AnswerInline(r)
        <3>1. r.len \in Nat
            BY <2>0, <2>2, <2>3, SendOthers, SendRead DEF AnswerInline, OtherResponse
        <3>2. QED
            BY <1>0, <2>0, <2>3, <3>1, InlineAnswers DEF AnswerInline
    <2>4. CASE AnswerStatus(r)
        <3>1. StatusOf(r.sense) # "io_error"
            BY DEF StatusOf
        <3>2. Answers(<<ScsiResponse(pdu.tag, StatusOf(r.sense), NoResidual)>>)
            BY <3>1, <1>1, OneAnswer
        <3>3. QED
            BY <2>4, <3>2, NoAnswer DEF AnswerStatus
    <2>5. CASE AnswerR2T(r)
        <3>1. ~IsError(R2T(pdu))
            BY DEF IsError, R2T
        <3>2. \A res : Answers(<<ScsiResponse(pdu.tag, "good", res)>>)
            BY <1>1, OneAnswer
        <3>3. QED
            BY <2>5, <3>1, <3>2, OneAnswer DEF AnswerR2T
    <2>6. CASE AnswerStream(r)
        BY <2>6 DEF AnswerStream
    <2>7. QED
        BY <2>2, <2>3, <2>4, <2>5, <2>6
<1>5. CASE PushDataOut
    <2>1. ~IsError(R2T(pdu)) /\ ~IsError(ScsiResponse(pdu.tag, "good", NoResidual))
        BY <1>1 DEF IsError, R2T
    <2>2. /\ Answers(<<>>) /\ Answers(<<ScsiResponse(pdu.tag, "good", NoResidual)>>)
          /\ Answers(<<ScsiResponse(pdu.tag, "good", NoResidual), R2T(pdu)>>)
        BY <2>1, NoAnswer, OneAnswer, TwoAnswers
    <2>3. QED
        BY <1>5, <2>2 DEF PushDataOut, Fail
<1>6. QED
    BY <1>2, <1>3, <1>4, <1>5

LEMMA OutInvInit == Init => OutInv
BY DEF Init, OutInv

LEMMA OutInvStep == TypeInv /\ OutInv /\ [Next]_vars => OutInv'
<1> SUFFICES ASSUME TypeInv, OutInv, [Next]_vars PROVE OutInv'
    OBVIOUS
<1>0. TypeOK
    BY DEF TypeInv
<1>e. <<>> \in Seq(DataIns)
    OBVIOUS
<1> USE DEF OutInv, Receiving
<1>1. CASE Hangup
    BY <1>1 DEF Hangup
<1>2. ASSUME NEW p \in Requests, RecvHeader(p) PROVE OutInv'
    BY <1>2 DEF RecvHeader
<1>3. CASE Receive
    BY <1>3, <1>e DEF Receive, RecvNothing, RecvAhs, RecvHeaderDigest, RecvData, Drain, RecvDataDigest,
        Dispatch, Received, RecvFails, Mismatch
<1>4. CASE PushLogin \/ PushOther \/ PushScsi \/ PushDataOut
    <2>1. pc = "push" /\ out = <<>>
        BY <1>4 DEF PushLogin, PushOther, PushScsi, PushDataOut
    <2>2. QED
        BY <1>4, <1>e, <2>1, PushAnswers DEF Emit
<1>5. CASE StreamNothing \/ StreamFails \/ StreamDone
    BY <1>5 DEF StreamNothing, StreamFails, StreamDone, Emit, Fail
<1>6. CASE StreamPiece
    <2>1. Piece \in DataIns
        BY <1>0, <1>6, PieceType DEF StreamPiece, TypeInv
    <2>2. out \in Seq(DataIns) => Append(out, Piece) \in Seq(DataIns)
        BY <2>1
    <2>3. QED
        BY <1>6, <2>2 DEF StreamPiece
<1>7. CASE AnswerError \/ RejectPdu
    BY <1>7 DEF AnswerError, RejectPdu, SendError
<1>8. CASE SkipPdu \/ Abort \/ Count
    BY <1>8 DEF SkipPdu, Abort, Count, DeletePdu
<1>9. CASE UNCHANGED vars
    BY <1>9 DEF vars
<1>10. QED
    BY <1>1, <1>2, <1>3, <1>4, <1>5, <1>6, <1>7, <1>8, <1>9 DEF Next, Thread, Push, Finish

LEMMA OutInvariant == Spec => []OutInv
BY TypeInvariant, OutInvInit, OutInvStep, PTL DEF Spec

\* While the connection works, fail_counter is the number of consecutive PDUs
\* that the initiator saw rejected.
CountInv ==
    up =>
        /\ fails = errors
        /\ pc = "count" => (ifr = "ok" <=> ~Rejected)
        /\ pc = "ended" => errors = MaxErrors

LEMMA CountInvInit == Init => CountInv
BY DEF Init, CountInv

LEMMA RejectedIs == Rejected <=> \E i \in 1 .. Len(out) : IsError(out[i])
BY DEF Rejected, IsError

\* After DATA-INs only, nothing is rejected; after an error on top of them it is.
LEMMA PiecesNotRejected ==
    ASSUME out \in Seq(DataIns) PROVE ~Rejected
<1>1. \A i \in 1 .. Len(out) : out[i] \in DataIns
    OBVIOUS
<1>2. \A q \in DataIns : ~IsError(q)
    BY DEF IsError, DataIns
<1>3. QED
    BY <1>1, <1>2, RejectedIs

LEMMA ErrorRejected ==
    ASSUME out \in Seq(DataIns), NEW q, IsError(q), out' = Append(out, q)
    PROVE  Rejected'
<1>1. out \in Seq(DataIns \cup {q})
    OBVIOUS
<1>2. Len(out') = Len(out) + 1 /\ out'[Len(out) + 1] = q
    BY <1>1
<1>3. Len(out) + 1 \in 1 .. Len(out')
    BY <1>2
<1>4. QED
    BY <1>2, <1>3 DEF Rejected, IsError

LEMMA CountInvStep ==
    TypeInv /\ ReceiveInv /\ OutInv /\ CountInv /\ [Next]_vars => CountInv'
<1> SUFFICES ASSUME TypeInv, ReceiveInv, OutInv, CountInv, [Next]_vars, up' PROVE CountInv'
    BY DEF CountInv
<1>0. TypeOK /\ (ifr = "connection" => ~up) /\ (pc = "count_last" => ~up)
    BY DEF TypeInv
<1>u. up
    BY DEF Next, Hangup, Thread, Receive, Push, Finish, RecvHeader, RecvNothing, RecvAhs,
        RecvHeaderDigest, RecvData, Drain, RecvDataDigest, Dispatch, PushLogin, PushOther,
        PushScsi, PushDataOut, StreamNothing, StreamPiece, StreamFails, StreamDone, AnswerError,
        RejectPdu, SkipPdu, Abort, Count, vars
<1>1. CASE Hangup
    BY <1>1 DEF Hangup
<1>2. ASSUME UNCHANGED <<fails, errors>>, pc' \notin {"count", "ended"} PROVE CountInv'
    BY <1>u, <1>2 DEF CountInv
<1>3. ASSUME UNCHANGED <<fails, errors>>, pc' = "count", ifr' = "ok", ~Rejected' PROVE CountInv'
    BY <1>u, <1>3 DEF CountInv
<1>4. ASSUME NEW p \in Requests, RecvHeader(p) PROVE CountInv'
    BY <1>2, <1>4 DEF RecvHeader
<1>5. CASE RecvNothing
    BY <1>u, <1>5 DEF RecvNothing
<1>6. CASE RecvAhs \/ RecvHeaderDigest \/ RecvData \/ Drain \/ RecvDataDigest
    BY <1>2, <1>6 DEF RecvAhs, RecvHeaderDigest, RecvData, Drain, RecvDataDigest,
        Received, RecvFails, Mismatch, history
<1>7. CASE Dispatch
    <2>1. pc' \in {"push", "error"}
        BY <1>0, <1>u, <1>7 DEF Dispatch
    <2>2. QED
        BY <1>2, <1>7, <2>1 DEF Dispatch, history
<1>8. CASE PushLogin \/ PushOther \/ PushScsi \/ PushDataOut
    <2>1. pc = "push" /\ out = <<>> /\ UNCHANGED <<fails, errors>>
        BY <1>8 DEF PushLogin, PushOther, PushScsi, PushDataOut, history, OutInv
    <2>2. ASSUME NEW q, Answers(q), Emit(q) PROVE CountInv'
        <3>1. out' = q /\ pc' = "count" /\ ifr' = "ok"
            BY <1>u, <2>1, <2>2, EmitFirst DEF Answers
        <3>2. ~Rejected'
            BY <2>2, <3>1 DEF Rejected, Answers, IsError
        <3>3. QED
            BY <1>3, <2>1, <3>1, <3>2
    <2>3. CASE pc' \in {"error", "stream"}
        BY <1>2, <2>1, <2>3
    <2>4. QED
        BY <1>8, <2>1, <2>2, <2>3, PushAnswers
<1>9. CASE StreamNothing
    <2>1. /\ pc = "stream" /\ out \in Seq(DataIns) /\ pc' = "count" /\ ifr' = "ok"
          /\ UNCHANGED <<fails, errors>>
        BY <1>u, <1>9 DEF StreamNothing, OutInv, Emit, history
    <2> DEFINE q == ScsiResponse(pdu.tag, "good", Residual(stream.has, stream.wants))
    <2>2. out' = out \o <<q>>
        BY <1>u, <1>9 DEF StreamNothing, Emit
    <2>3. ~IsError(q)
        BY DEF IsError, ScsiResponse
    <2> HIDE DEF q
    <2>4. out \in Seq(DataIns \cup {q}) /\ <<q>> \in Seq(DataIns \cup {q})
        BY <2>1
    <2>5. \A i \in 1 .. Len(out') : out'[i] \in DataIns \cup {q}
        BY <2>2, <2>4, ConcatProperties
    <2>6. \A d \in DataIns : ~IsError(d)
        BY DEF IsError, DataIns
    <2>7. ~Rejected'
        BY <2>3, <2>5, <2>6 DEF Rejected, IsError
    <2>8. QED
        BY <1>3, <2>1, <2>7
<1>10. CASE StreamPiece \/ StreamFails
    BY <1>2, <1>u, <1>10 DEF StreamPiece, StreamFails, Fail, history
<1>11. CASE StreamDone
    <2>1. /\ pc = "stream" /\ out' = out /\ ifr' = "ok" /\ pc' = "count"
          /\ out \in Seq(DataIns) /\ UNCHANGED <<fails, errors>>
        BY <1>11 DEF StreamDone, OutInv, ReceiveInv, history
    <2>2. ~Rejected
        BY <2>1, PiecesNotRejected
    <2>3. ~Rejected'
        BY <2>1, <2>2 DEF Rejected
    <2>4. QED
        BY <1>3, <2>1, <2>3
<1>12. CASE AnswerError \/ RejectPdu
    <2>1. /\ pc = "error" /\ out \in Seq(DataIns) /\ ifr \notin {"ok", "connection"} /\ ifr' = ifr
          /\ pc' = "count" /\ UNCHANGED <<fails, errors>>
        BY <1>u, <1>12 DEF AnswerError, RejectPdu, SendError, OutInv, ReceiveInv, history
    <2>2. PICK q : IsError(q) /\ out' = Append(out, q)
        <3>1. CASE AnswerError
            BY <1>u, <3>1 DEF AnswerError, SendError, IsError, ScsiResponse
        <3>2. CASE RejectPdu
            BY <1>u, <3>2 DEF RejectPdu, SendError, IsError, Reject
        <3>3. QED
            BY <1>12, <3>1, <3>2
    <2>3. Rejected'
        BY <2>1, <2>2, ErrorRejected
    <2>4. QED
        BY <1>u, <2>1, <2>3 DEF CountInv
<1>13. CASE SkipPdu \/ Abort
    BY <1>2, <1>13 DEF SkipPdu, Abort, history
<1>14. CASE Count
    <2>1. pc = "count" /\ ifr # "connection" /\ fails < MaxErrors /\ fails \in Nat /\ errors \in Nat
        BY <1>0, <1>u, <1>14 DEF Count, TypeInv, TypeOK
    <2>2. fails = errors /\ (ifr = "ok" <=> ~Rejected)
        BY <1>u, <2>1 DEF CountInv
    <2>3. fails' = errors' /\ pc' # "count" /\ fails' <= MaxErrors
        BY <1>14, <2>1, <2>2, LimitsAssumption DEF Count, FailCounter
    <2>4. pc' = "ended" => fails' >= MaxErrors
        BY <1>14, <2>1 DEF Count, Over
    <2>5. fails' \in Nat
        BY <1>14, <2>1 DEF Count, FailCounter
    <2>6. QED
        BY <2>3, <2>4, <2>5, LimitsAssumption DEF CountInv
<1>15. CASE UNCHANGED vars
    BY <1>u, <1>15 DEF vars, history, CountInv, Rejected
<1>16. QED
    BY <1>1, <1>4, <1>5, <1>6, <1>7, <1>8, <1>9, <1>10, <1>11, <1>12, <1>13, <1>14, <1>15
        DEF Next, Thread, Receive, Push, Finish

\* server::handler() gives up on a working connection after exactly the
\* allowed number of rejected PDUs in a row, and after nothing else.
THEOREM SessionEndsAfterErrors == Spec => []EndsAfterErrors
<1>1. CountInv => EndsAfterErrors
    BY DEF CountInv, EndsAfterErrors
<1>2. QED
    BY <1>1, TypeInvariant, ReceiveInvariant, OutInvariant, CountInvInit, CountInvStep, PTL DEF Spec

-----------------------------------------------------------------------------
(* Which READs are carried out. *)

LEMMA ModUnique ==
    ASSUME NEW m \in Nat \ {0}, NEW q \in Int, NEW r \in 0 .. m - 1
    PROVE  (m * q + r) % m = r
OBVIOUS

LEMMA ModSmall ==
    ASSUME NEW m \in Nat \ {0}, NEW a \in 0 .. m - 1 PROVE a % m = a
OBVIOUS

LEMMA ModWrapped ==
    ASSUME NEW m \in Nat \ {0}, NEW a \in m .. (2 * m - 1) PROVE a % m = a - m
OBVIOUS

\* validate_request() for numbers of 64 bits.
LEMMA InRangeFits ==
    ASSUME NEW lba \in 0 .. Uint64 - 1, NEW n \in 0 .. Uint64 - 1, ~OutOfRange(lba, n)
    PROVE  lba + n < Uint64 /\ (n <= NBlocks => lba + n <= NBlocks)
<1>1. Uint64 \in Nat \ {0} /\ NBlocks \in Nat /\ NBlocks < Uint64
    BY DeviceAssumption
<1>2. ~(lba > (NBlocks - n) % Uint64) /\ ~((lba + n) % Uint64 < lba)
    BY DEF OutOfRange
<1>3. lba + n < Uint64
    <2> DEFINE a == lba + n
    <2>1. SUFFICES ASSUME a >= Uint64 PROVE FALSE
        BY <1>1
    <2>2. a \in Uint64 .. (2 * Uint64 - 1)
        BY <1>1, <2>1
    <2>3. a - Uint64 < lba
        BY <1>1
    <2> HIDE DEF a
    <2>4. a % Uint64 = a - Uint64
        BY <1>1, <2>2, ModWrapped
    <2>5. ~(a % Uint64 < lba)
        BY <1>2 DEF a
    <2>6. QED
        BY <2>3, <2>4, <2>5
<1>4. ASSUME n <= NBlocks PROVE lba + n <= NBlocks
    <2> DEFINE a == NBlocks - n
    <2>1. a \in 0 .. Uint64 - 1
        BY <1>1, <1>4
    <2> HIDE DEF a
    <2>2. a % Uint64 = a
        BY <1>1, <2>1, ModSmall
    <2>3. ~(lba > a)
        BY <1>2, <2>2 DEF a
    <2>4. QED
        BY <1>1, <2>1, <2>3 DEF a
<1>5. QED
    BY <1>3, <1>4

\* What is streamed is a READ that validate_request() let through.
StreamInv ==
    pc = "stream" =>
        /\ pdu \in Requests /\ pdu.op = "scsi_cmd" /\ pdu.cdb.cmd = "read"
        /\ ~OutOfRange(pdu.cdb.lba, pdu.cdb.n)
        /\ stream.has = (pdu.cdb.n * BlockSize) % Uint32 /\ stream.wants = pdu.ExpDatLen

LEMMA StreamInvInit == Init => StreamInv
BY DEF Init, StreamInv

\* Streaming begins with AnswerStream and goes on with StreamPiece.
LEMMA StreamInvStep == TypeInv /\ StreamInv /\ [Next]_vars => StreamInv'
<1> SUFFICES ASSUME TypeInv, StreamInv, [Next]_vars, pc' = "stream" PROVE StreamInv'
    BY DEF StreamInv
<1>0. TypeOK
    BY DEF TypeInv
<1>1. CASE PushScsi
    <2>1. pdu \in Requests /\ pdu.op = "scsi_cmd" /\ IsCdb(pdu.cdb) /\ pdu' = pdu
        BY <1>1, RequestFacts DEF PushScsi, IsScsiCmd, TypeInv
    <2>2. PICK other \in BOOLEAN : \E r \in Send(pdu.cdb, other) : AnswerStream(r)
        BY <1>1 DEF PushScsi, AnswerInline, AnswerStatus, AnswerR2T, Emit
    <2>3. PICK r \in Send(pdu.cdb, other) : AnswerStream(r)
        BY <2>2
    <2>4. r.n_sectors > 0
        BY <2>3 DEF AnswerStream
    <2>5. pdu.cdb.cmd = "read"
        BY <2>1, <2>3, <2>4, SendOthers DEF OtherResponse
    <2>6. r.n_sectors = pdu.cdb.n /\ ~OutOfRange(pdu.cdb.lba, pdu.cdb.n)
        BY <2>1, <2>3, <2>4, <2>5, SendRead
    <2>7. stream'.has = (r.n_sectors * BlockSize) % Uint32 /\ stream'.wants = pdu.ExpDatLen
        BY <2>3 DEF AnswerStream
    <2>8. QED
        BY <2>1, <2>5, <2>6, <2>7 DEF StreamInv
<1>2. CASE StreamPiece
    <2>1. pc = "stream" /\ pdu' = pdu /\ stream'.has = stream.has /\ stream'.wants = stream.wants
        BY <1>0, <1>2 DEF StreamPiece, TypeOK
    <2>2. QED
        BY <2>1 DEF StreamInv
<1>3. CASE Hangup \/ UNCHANGED vars
    BY <1>3 DEF Hangup, vars, StreamInv
<1>4. QED
    BY <1>1, <1>2, <1>3 DEF Next, Thread, Receive, Push, Finish, RecvHeader, RecvNothing, RecvAhs,
        RecvHeaderDigest, RecvData, Drain, RecvDataDigest, Dispatch, PushLogin, PushOther,
        PushDataOut, StreamNothing, StreamFails, StreamDone, AnswerError, RejectPdu, SkipPdu,
        Abort, Count, Received, RecvFails, Mismatch, Emit, Fail, SendError

LEMMA StreamInvariant == Spec => []StreamInv
BY TypeInvariant, StreamInvInit, StreamInvStep, PTL DEF Spec

\* A READ that gets past validate_request() does not wrap around the 64-bit
\* block numbers and, unless it is longer than the device, lies on it.
THEOREM AcceptedReadsFit == Spec => []AcceptedFits
<1>1. StreamInv => AcceptedFits
    <2>1. SUFFICES ASSUME StreamInv, pc = "stream"
                   PROVE  /\ pdu.cdb.lba + pdu.cdb.n < Uint64
                          /\ pdu.cdb.n <= NBlocks => pdu.cdb.lba + pdu.cdb.n <= NBlocks
        BY DEF AcceptedFits
    <2>2. pdu.cdb.lba \in 0 .. Uint64 - 1 /\ pdu.cdb.n \in 0 .. Uint64 - 1
        BY <2>1, RequestFacts DEF StreamInv, IsScsiCmd, IsCdb
    <2>3. QED
        BY <2>1, <2>2, InRangeFits DEF StreamInv
<1>2. QED
    BY <1>1, StreamInvariant, PTL

-----------------------------------------------------------------------------
(* The state of a READ between two of its DATA-INs. *)

\* The last DATA-IN that was sent, q, leads to where the stream is now.
LeadsHere(q) ==
    /\ q.off + q.len = stream.off
    /\ q.S = (stream.off = offset_end)
    /\ ses.data_sn_itt = pdu.tag
    /\ ses.data_sn = (q.DataSN + 1) % Uint32

\* max_seg_len is what login leaves of the target's own limit; a new tag starts
\* at 0; and what has been sent of a READ is a beginning of it.
ProgressInv ==
    /\ ses.max_seg_len \in 0 .. MAX_DATA_SEGMENT_SIZE
    /\ pc \in Receiving \cup {"push"} /\ fresh => NextDataSN(pdu.tag) = 0
    /\ pc \in {"received", "push"} /\ ifr = "ok" => pdu.bhs.data # "oversized"
    /\ pc = "stream" =>
         /\ stream.off <= offset_end
         /\ out = <<>> => stream.off = 0 /\ (fresh => NextDataSN(pdu.tag) = 0)
         /\ out # <<>> => offset_end > 0 /\ LeadsHere(out[Len(out)])
         /\ \A i \in 1 .. Len(out) : out[i].S => i = Len(out)
    /\ pc = "error" => \A i \in 1 .. Len(out) : ~out[i].S

LEMMA ProgressInvInit == Init => ProgressInv
<1> SUFFICES ASSUME Init PROVE ProgressInv
    OBVIOUS
<1>1. ses.max_seg_len = MAX_DATA_SEGMENT_SIZE
    BY DEF Init
<1>2. QED
    BY <1>1, LimitsAssumption DEF Init, ProgressInv, Receiving

\* What a login can do to the segment length.
LEMMA SetDataSegments ==
    ASSUME ses \in Sessions, ses.max_seg_len \in 0 .. MAX_DATA_SEGMENT_SIZE, NEW p \in Requests
    PROVE  /\ SetData(p).max_seg_len \in 0 .. MAX_DATA_SEGMENT_SIZE
           /\ \A t : p.tag = t => (IF t = SetData(p).data_sn_itt THEN SetData(p).data_sn ELSE 0)
                                    = NextDataSN(t)
<1>1. CASE p.op # "login"
    BY <1>1 DEF SetData, NextDataSN
<1>2. CASE p.op = "login"
    <2>1. p.MaxRecvDataSegmentLength \in Nat \cup {NoKey}
        BY <1>2, RequestFacts DEF LoginRequests
    <2>2. /\ SetData(p).max_seg_len = IF p.MaxRecvDataSegmentLength = NoKey THEN ses.max_seg_len
                                      ELSE Least(ses.max_seg_len, p.MaxRecvDataSegmentLength)
          /\ SetData(p).data_sn_itt = ses.data_sn_itt /\ SetData(p).data_sn = ses.data_sn
        BY <1>2 DEF SetData, Sessions
    <2>3. SetData(p).max_seg_len \in 0 .. MAX_DATA_SEGMENT_SIZE
        BY <2>1, <2>2, LimitsAssumption DEF Least
    <2>4. QED
        BY <2>2, <2>3 DEF NextDataSN
<1>3. QED
    BY <1>1, <1>2

\* Sending leaves the segment length alone.
LEMMA SegmentsKept ==
    ASSUME ses \in Sessions, NEW t, NEW n, NEW T,
           ses' \in {ses, TakeDataSN(t, n), [ses EXCEPT !.r2t_sessions = T]}
    PROVE  ses'.max_seg_len = ses.max_seg_len
BY DEF Sessions, TakeDataSN

\* The numbers of a piece that is sent: it is only empty if segments are.
LEMMA PieceLength ==
    ASSUME TypeOK, ProgressInv, pc = "stream", stream.off < offset_end
    PROVE  current_n \in Least(1, ses.max_seg_len) .. ses.max_seg_len
<1>1. offset_end \in Nat /\ stream.off \in Nat
    BY PieceNumbers
<1>2. QED
    BY <1>1, LimitsAssumption DEF ProgressInv, current_n, Least

\* What a piece that is sent does.
LEMMA PieceSent ==
    ASSUME TypeInv, OutInv, ProgressInv, StreamPiece, up
    PROVE  /\ pc = "stream" /\ pc' = "stream" /\ UNCHANGED <<pdu, fresh>>
           /\ out \in Seq(DataIns) /\ Piece \in DataIns /\ out' \in Seq(DataIns)
           /\ Len(out') = Len(out) + 1
           /\ \A i \in 1 .. Len(out) : out'[i] = out[i]
           /\ out'[Len(out) + 1] = Piece
           /\ ses'.max_seg_len = ses.max_seg_len
           /\ ses'.data_sn_itt = pdu.tag
           /\ ses'.data_sn = (NextDataSN(pdu.tag) + 1) % Uint32
           /\ stream'.off = stream.off + current_n /\ stream'.lba = next_lba
           /\ stream'.has = stream.has /\ stream'.wants = stream.wants
           /\ offset_end' = offset_end
<1>0. TypeOK /\ ses \in Sessions
    BY DEF TypeInv, TypeOK
<1>1. pc = "stream" /\ pc' = "stream" /\ UNCHANGED <<pdu, fresh>> /\ out' = Append(out, Piece)
    BY DEF StreamPiece, history, TypeInv
<1>2. out \in Seq(DataIns) /\ Piece \in DataIns
    BY <1>0, <1>1, PieceType DEF StreamPiece, OutInv, TypeInv
<1>3. /\ out' \in Seq(DataIns) /\ Len(out') = Len(out) + 1
      /\ \A i \in 1 .. Len(out) : out'[i] = out[i]
      /\ out'[Len(out) + 1] = Piece
    <2> HIDE DEF Piece
    <2>1. QED
        BY <1>1, <1>2
<1>4. /\ ses'.max_seg_len = ses.max_seg_len /\ ses'.data_sn_itt = pdu.tag
      /\ ses'.data_sn = (NextDataSN(pdu.tag) + 1) % Uint32
    BY <1>0 DEF StreamPiece, TakeDataSN, Sessions
<1>5. /\ stream'.off = stream.off + current_n /\ stream'.lba = next_lba
      /\ stream'.has = stream.has /\ stream'.wants = stream.wants
    BY <1>0 DEF StreamPiece, TypeOK
<1>6. offset_end' = offset_end
    BY <1>5 DEF offset_end
<1>7. QED
    BY <1>1, <1>2, <1>3, <1>4, <1>5, <1>6

\* How a piece looks.
LEMMA PieceFields ==
    /\ Piece.type = "data_in" /\ Piece.DataSN = NextDataSN(pdu.tag)
    /\ Piece.off = stream.off /\ Piece.len = current_n
    /\ Piece.F = last_block /\ Piece.S = last_block
    /\ last_block => Piece.residual = Residual(stream.has, stream.wants)
    /\ Piece.from = stream.lba * BlockSize
    /\ Piece.valid = IF current_n < BlockSize THEN current_n ELSE is_n_blocks * BlockSize
BY DEF Piece, DataIn

\* The S bit is not set before the end.
LEMMA NotLastYet ==
    ASSUME TypeOK, ProgressInv, pc = "stream", stream.off < offset_end
    PROVE  \A i \in 1 .. Len(out) : ~out[i].S
<1>1. CASE out = <<>>
    BY <1>1
<1>2. CASE out # <<>>
    <2>1. out[Len(out)].S = (stream.off = offset_end)
        BY <1>2 DEF ProgressInv, LeadsHere
    <2>2. stream.off # offset_end
        BY PieceNumbers
    <2>3. ~out[Len(out)].S
        BY <2>1, <2>2, Zenon
    <2>4. QED
        BY <2>3 DEF ProgressInv
<1>3. QED
    BY <1>1, <1>2

LEMMA ProgressInvStep ==
    TypeInv /\ ReceiveInv /\ OutInv /\ ProgressInv /\ [Next]_vars => ProgressInv'
<1> SUFFICES ASSUME TypeInv, ReceiveInv, OutInv, ProgressInv, [Next]_vars PROVE ProgressInv'
    OBVIOUS
<1>0. TypeOK /\ ses \in Sessions /\ ses.max_seg_len \in 0 .. MAX_DATA_SEGMENT_SIZE
    BY DEF TypeInv, TypeOK, ProgressInv
<1>k. ASSUME UNCHANGED ses PROVE \A t : NextDataSN(t)' = NextDataSN(t)
    BY <1>k DEF NextDataSN
<1>1. CASE Hangup \/ UNCHANGED vars
    <2>1. UNCHANGED <<pc, pdu, ifr, out, ses, stream, fresh>>
        BY <1>1 DEF Hangup, vars, history
    <2>2. QED
        BY <2>1 DEF ProgressInv, LeadsHere, offset_end, NextDataSN
<1>2. ASSUME NEW p \in Requests, RecvHeader(p) PROVE ProgressInv'
    <2>1. UNCHANGED ses /\ pc' = "ahs" /\ pdu' = p
          /\ fresh' = (p.tag # ses.data_sn_itt \/ ses.data_sn = 0)
        BY <1>2 DEF RecvHeader
    <2>2. fresh' => NextDataSN(pdu.tag)' = 0
        BY <2>1 DEF NextDataSN
    <2>3. QED
        BY <1>0, <2>1, <2>2 DEF ProgressInv
<1>3. CASE RecvNothing \/ RecvAhs \/ RecvHeaderDigest \/ Drain \/ RecvDataDigest
    <2>1. /\ UNCHANGED <<pdu, ses, fresh>> /\ pc' \in Receiving \cup {"count"}
          /\ pc \in Receiving \cup {"recv"} /\ (pc' # "count" => pc \in Receiving)
          /\ pc' = "received" /\ ifr' = "ok" => pdu.bhs.data # "oversized"
        BY <1>3 DEF RecvNothing, RecvAhs, RecvHeaderDigest, Drain, RecvDataDigest, Received,
            RecvFails, Mismatch, history, Receiving, ReceiveInv
    <2>2. \A t : NextDataSN(t)' = NextDataSN(t)
        BY <1>k, <2>1
    <2>3. fresh' /\ pc' # "count" => NextDataSN(pdu.tag)' = 0
        BY <2>1, <2>2 DEF ProgressInv
    <2>4. QED
        BY <1>0, <2>1, <2>3 DEF ProgressInv, Receiving
<1>4. CASE RecvData
    <2>1. /\ UNCHANGED <<pdu, fresh>> /\ pc = "data" /\ pdu \in Requests
          /\ ses' \in {ses, SetData(pdu)} /\ pc' \in {"received", "drain", "data_digest"}
          /\ pc' = "received" => pdu.bhs.data = "none"
        BY <1>4 DEF RecvData, Received, RecvFails, history, TypeInv, Receiving
    <2>2. /\ ses'.max_seg_len \in 0 .. MAX_DATA_SEGMENT_SIZE
          /\ NextDataSN(pdu.tag)' = NextDataSN(pdu.tag)
        BY <1>0, <2>1, SetDataSegments DEF NextDataSN
    <2>3. QED
        BY <2>1, <2>2 DEF ProgressInv, Receiving
<1>5. CASE Dispatch
    <2>1. /\ UNCHANGED <<pdu, ses, fresh, out, ifr>> /\ pc = "received"
          /\ pc' \in {"push", "count", "error"} /\ out = <<>>
        BY <1>0, <1>5 DEF Dispatch, history, OutInv, Receiving, TypeOK
    <2>2. \A t : NextDataSN(t)' = NextDataSN(t)
        BY <1>k, <2>1
    <2>3. pc' = "push" /\ fresh' => NextDataSN(pdu.tag)' = 0
        BY <2>1, <2>2 DEF ProgressInv, Receiving
    <2>4. QED
        BY <1>0, <2>1, <2>3 DEF ProgressInv, Receiving
<1>6. CASE PushLogin \/ PushOther \/ PushDataOut
    <2>1. PICK T : ses' \in {ses, [ses EXCEPT !.r2t_sessions = T]}
        BY <1>6 DEF PushLogin, PushOther, PushDataOut
    <2>2. /\ pc' \in {"count", "error"} /\ (pc' = "error" => out' = <<>>)
        BY <1>6 DEF PushLogin, PushOther, PushDataOut, Emit, Fail, OutInv
    <2>3. ses'.max_seg_len = ses.max_seg_len
        BY <1>0, <2>1, SegmentsKept
    <2>4. QED
        BY <1>0, <2>2, <2>3 DEF ProgressInv, Receiving
<1>7. CASE PushScsi
    <2>1. PICK n, T : ses' \in {ses, TakeDataSN(pdu.tag, n), [ses EXCEPT !.r2t_sessions = T]}
        BY <1>7 DEF PushScsi, AnswerInline, AnswerStatus, AnswerR2T, AnswerStream
    <2>2. ses'.max_seg_len = ses.max_seg_len
        BY <1>0, <2>1, SegmentsKept
    <2>3. CASE pc' = "count"
        BY <1>0, <2>2, <2>3 DEF ProgressInv, Receiving
    <2>4. CASE pc' # "count"
        <3>1. PICK other \in BOOLEAN : \E r \in Send(pdu.cdb, other) : AnswerStream(r)
            BY <1>7, <2>4 DEF PushScsi, AnswerInline, AnswerStatus, AnswerR2T, Emit
        <3>2. PICK r \in Send(pdu.cdb, other) : AnswerStream(r)
            BY <3>1
        <3>3. /\ pc = "push" /\ pc' = "stream" /\ UNCHANGED <<pdu, ses, out, fresh>>
              /\ out = <<>> /\ stream'.off = 0
            BY <1>7, <3>2 DEF PushScsi, AnswerStream, history, OutInv
        <3>4. stream' \in [lba : Nat, off : Nat, has : Nat, wants : Nat]
            <4>1. TypeInv'
                BY TypeInvStep
            <4>2. QED
                BY <4>1 DEF TypeInv, TypeOK
        <3>5. stream'.off <= offset_end'
            BY <3>3, <3>4 DEF offset_end, Least
        <3>6. fresh' => NextDataSN(pdu.tag)' = 0
            BY <3>3, <1>k DEF ProgressInv
        <3>7. QED
            BY <1>0, <3>3, <3>5, <3>6 DEF ProgressInv, Receiving
    <2>5. QED
        BY <2>3, <2>4
<1>8. CASE StreamNothing \/ StreamDone \/ (StreamPiece /\ ~up)
    <2>1. ses' \in {ses, TakeDataSN(pdu.tag, 1)} /\ pc' = "count"
        BY <1>8 DEF StreamNothing, StreamDone, StreamPiece, Emit
    <2>2. ses'.max_seg_len = ses.max_seg_len
        BY <1>0, <2>1, SegmentsKept
    <2>3. QED
        BY <1>0, <2>1, <2>2 DEF ProgressInv, Receiving
<1>9. CASE StreamPiece /\ up
    <2>0. stream.off < offset_end
        BY <1>9 DEF StreamPiece
    <2>1. /\ pc = "stream" /\ pc' = "stream" /\ UNCHANGED <<pdu, fresh>>
          /\ out \in Seq(DataIns) /\ out' \in Seq(DataIns) /\ Len(out') = Len(out) + 1
          /\ \A i \in 1 .. Len(out) : out'[i] = out[i]
          /\ out'[Len(out) + 1] = Piece
          /\ ses'.max_seg_len = ses.max_seg_len /\ ses'.data_sn_itt = pdu.tag
          /\ ses'.data_sn = (NextDataSN(pdu.tag) + 1) % Uint32
          /\ stream'.off = stream.off + current_n /\ offset_end' = offset_end
        BY <1>9, PieceSent
    <2>2. /\ offset_end \in Nat /\ stream.off \in Nat /\ current_n \in Nat
          /\ stream.off + current_n <= offset_end
        BY <1>0, <2>0, <2>1, PieceNumbers
    <2>3. out' # <<>>
        BY <2>1
    <2>4. LeadsHere(out[Len(out)])'
        BY <2>1, PieceFields DEF LeadsHere, last_block
    <2>5. \A i \in 1 .. Len(out) : ~out[i].S
        BY <1>0, <2>0, <2>1, NotLastYet
    <2>6. \A i \in 1 .. Len(out') : out'[i].S => i = Len(out')
        BY <2>1, <2>5
    <2>7. offset_end' > 0 /\ stream'.off <= offset_end'
        BY <2>0, <2>1, <2>2
    <2>8. QED
        BY <1>0, <2>1, <2>3, <2>4, <2>6, <2>7 DEF ProgressInv, Receiving
<1>10. CASE StreamFails
    <2>1. /\ ses' = TakeDataSN(pdu.tag, 1) /\ pc' = "error" /\ out' = out /\ pc = "stream"
          /\ stream.off < offset_end
        BY <1>10 DEF StreamFails, Fail
    <2>2. ses'.max_seg_len = ses.max_seg_len
        BY <1>0, <2>1, SegmentsKept
    <2>3. \A i \in 1 .. Len(out) : ~out[i].S
        BY <1>0, <2>1, NotLastYet
    <2>4. QED
        BY <1>0, <2>1, <2>2, <2>3 DEF ProgressInv, Receiving
<1>11. CASE Finish
    <2>1. ses' = ses /\ pc' \in {"count", "count_last", "recv", "aborted", "ended"}
        BY <1>11 DEF Finish, AnswerError, RejectPdu, SkipPdu, Abort, Count, SendError
    <2>2. QED
        BY <1>0, <2>1 DEF ProgressInv, Receiving
<1>12. QED
    BY <1>1, <1>2, <1>3, <1>4, <1>5, <1>6, <1>7, <1>8, <1>9, <1>10, <1>11
        DEF Next, Thread, Receive, Push, StreamPiece

LEMMA ProgressInvariant == Spec => []ProgressInv
BY TypeInvariant, ReceiveInvariant, OutInvariant, ProgressInvInit, ProgressInvStep, PTL DEF Spec

-----------------------------------------------------------------------------
(* What is sent for a PDU that is not a READ. *)

FinalsOf(q) == {i \in 1 .. Len(q) : Final(q[i])}

\* What AnsweredOnce says of the PDUs q that were sent for p.
Answered(p, q) ==
    /\ Cardinality(FinalsOf(q)) <= 1
    /\ FinalsOf(q) = {} => MayBeSilent(p)
    /\ \A i \in FinalsOf(q) : i = Len(q) \/ (p.op = "data_out" /\ q[i + 1].type = "r2t")

NoData(q) == \A i \in 1 .. Len(q) : q[i].type # "data_in"

\* An answer without data.
Reply(p, q) == (\E S : q \in Seq(S)) /\ NoData(q) /\ Answered(p, q)

LEMMA FewFinals ==
    ASSUME NEW q, NEW k, FinalsOf(q) \subseteq {k} PROVE Cardinality(FinalsOf(q)) <= 1
<1>1. FinalsOf(q) = {} \/ FinalsOf(q) = {k}
    OBVIOUS
<1>2. Cardinality({}) = 0 /\ Cardinality({k}) = 1
    BY FS_EmptySet, FS_Singleton, Zenon
<1>3. Cardinality(FinalsOf(q)) = 0 \/ Cardinality(FinalsOf(q)) = 1
    BY <1>1, <1>2, Zenon
<1>4. QED
    BY <1>3

LEMMA NoReply == ASSUME NEW p, MayBeSilent(p) PROVE Reply(p, <<>>)
<1>1. FinalsOf(<<>>) = {}
    BY DEF FinalsOf
<1>2. Cardinality(FinalsOf(<<>>)) <= 1
    BY <1>1, FewFinals
<1>3. Answered(p, <<>>)
    BY <1>1, <1>2 DEF Answered
<1>4. NoData(<<>>)
    BY DEF NoData
<1>5. <<>> \in Seq({})
    OBVIOUS
<1>6. QED
    BY <1>3, <1>4, <1>5, Zenon DEF Reply

LEMMA OneReply ==
    ASSUME NEW p, NEW a, a.type # "data_in", Final(a) \/ MayBeSilent(p) PROVE Reply(p, <<a>>)
<1>0. Len(<<a>>) = 1 /\ <<a>>[1] = a /\ <<a>> \in Seq({a})
    OBVIOUS
<1>1. /\ \A i \in FinalsOf(<<a>>) : i = 1
      /\ Final(a) => 1 \in FinalsOf(<<a>>)
    BY <1>0 DEF FinalsOf
<1>2. Cardinality(FinalsOf(<<a>>)) <= 1
    BY <1>1, FewFinals
<1>3. Answered(p, <<a>>)
    BY <1>0, <1>1, <1>2 DEF Answered
<1>4. NoData(<<a>>)
    BY <1>0 DEF NoData
<1>5. QED
    BY <1>0, <1>3, <1>4 DEF Reply

LEMMA ContinuedReply ==
    ASSUME NEW p, NEW a, NEW b, p.op = "data_out", a.type # "data_in", Final(a), b.type = "r2t"
    PROVE  Reply(p, <<a, b>>)
<1>0. Len(<<a, b>>) = 2 /\ <<a, b>>[1] = a /\ <<a, b>>[2] = b /\ <<a, b>> \in Seq({a, b})
    OBVIOUS
<1>1. ~Final(b)
    BY DEF Final
<1>2. FinalsOf(<<a, b>>) = {1}
    BY <1>0, <1>1 DEF FinalsOf
<1>3. Cardinality(FinalsOf(<<a, b>>)) <= 1
    BY <1>2, FewFinals
<1>4. Answered(p, <<a, b>>)
    BY <1>0, <1>2, <1>3 DEF Answered
<1>5. NoData(<<a, b>>)
    BY <1>0 DEF NoData
<1>6. QED
    BY <1>0, <1>4, <1>5 DEF Reply

\* Every DATA-IN of inline data.
LEMMA InlineFields ==
    ASSUME NEW p \in Requests, p.op = "scsi_cmd", NEW len \in Nat, NEW sn
    PROVE  LET q == InlineDataIns(p, len, sn) IN
           /\ Len(q) \in Nat /\ (Len(q) = 0 => len = 0 \/ p.ExpDatLen = 0)
           /\ \A i \in 1 .. Len(q) :
                /\ q[i].type = "data_in" /\ q[i].DataSN = (sn + i - 1) % Uint32
                /\ q[i].off = (i - 1) * BlockSize
                /\ i < Len(q) => q[i].len = BlockSize
                /\ q[i].F = (i = Len(q)) /\ q[i].S = (i = Len(q))
<1> DEFINE q == InlineDataIns(p, len, sn)
           use == Least(len, p.ExpDatLen)
           k == (use + BlockSize - 1) \div BlockSize
<1>1. k \in Nat /\ Len(q) = k
    BY InlineCount
<1>2. use \in Nat /\ BlockSize \in Nat \ {0} /\ (use = 0 => len = 0 \/ p.ExpDatLen = 0)
    BY RequestFacts, DeviceAssumption DEF IsScsiCmd, Least
<1>3. \A i \in 1 .. k : q[i] = InlineDataIn(p, len, sn, i)
    BY <1>1 DEF InlineDataIns
<1>4. ASSUME NEW i \in 1 .. k
      PROVE  /\ q[i].type = "data_in" /\ q[i].DataSN = (sn + i - 1) % Uint32
             /\ q[i].off = (i - 1) * BlockSize
             /\ q[i].len = Least(use - (i - 1) * BlockSize, BlockSize)
             /\ q[i].F = (i = k) /\ q[i].S = (i = k)
    <2>1. q[i] = InlineDataIn(p, len, sn, i)
        BY <1>3
    <2> HIDE DEF q
    <2>2. QED
        BY <2>1 DEF InlineDataIn
<1> HIDE DEF q, use
<1>5. k = 0 => use = 0
    <2>1. \A a \in Nat : \A b \in Nat \ {0} : (a + b - 1) \div b = 0 => a = 0
        <3>1. SUFFICES ASSUME NEW a \in Nat, NEW b \in Nat \ {0}, (a + b - 1) \div b = 0 PROVE a = 0
            OBVIOUS
        <3>2. a + b - 1 < b
            BY <3>1
        <3>3. QED
            BY <3>2
    <2>2. QED
        BY <1>2, <2>1
<1>6. ASSUME NEW i \in 1 .. k, i < k PROVE Least(use - (i - 1) * BlockSize, BlockSize) = BlockSize
    <2>1. k * BlockSize <= use + BlockSize - 1
        <3>1. \A a \in Nat : \A b \in Nat \ {0} : (a \div b) * b <= a
            OBVIOUS
        <3>2. use + BlockSize - 1 \in Nat
            BY <1>2
        <3>3. QED
            BY <1>2, <3>1, <3>2
    <2> HIDE DEF k
    <2>2. k \in Nat
        BY <1>1 DEF k
    <2>3. (i + 1) * BlockSize <= k * BlockSize
        BY <1>2, <1>6, <2>2
    <2>4. (i + 1) * BlockSize = (i - 1) * BlockSize + 2 * BlockSize
        BY <1>2
    <2>5. (i - 1) * BlockSize \in Int /\ k * BlockSize \in Int /\ (i + 1) * BlockSize \in Int
        BY <1>2, <2>2
    <2>6. use - (i - 1) * BlockSize >= BlockSize
        BY <1>2, <2>1, <2>3, <2>4, <2>5
    <2>7. QED
        BY <1>2, <2>5, <2>6 DEF Least
<1> HIDE DEF k
<1>7. QED
    BY <1>1, <1>2, <1>4, <1>5, <1>6 DEF q

\* Inline data ends with the one DATA-IN that has the status; there is none only
\* if there is nothing to send.
LEMMA InlineAnswered ==
    ASSUME NEW p \in Requests, p.op = "scsi_cmd", NEW len \in Nat, NEW sn,
           len = 0 => MayBeSilent(p)
    PROVE  Answered(p, InlineDataIns(p, len, sn))
<1> DEFINE q == InlineDataIns(p, len, sn)
<1>1. /\ Len(q) \in Nat /\ (Len(q) = 0 => len = 0 \/ p.ExpDatLen = 0)
      /\ \A i \in 1 .. Len(q) : q[i].type = "data_in" /\ q[i].S = (i = Len(q))
    BY InlineFields
<1> HIDE DEF q
<1>2. \A i \in 1 .. Len(q) : Final(q[i]) <=> i = Len(q)
    BY <1>1 DEF Final
<1>3. /\ \A i \in FinalsOf(q) : i = Len(q)
      /\ Len(q) # 0 => Len(q) \in FinalsOf(q)
    BY <1>1, <1>2 DEF FinalsOf
<1>4. Cardinality(FinalsOf(q)) <= 1
    BY <1>3, FewFinals
<1>5. FinalsOf(q) = {} => MayBeSilent(p)
    BY <1>1, <1>3 DEF MayBeSilent
<1>6. QED
    BY <1>3, <1>4, <1>5 DEF Answered, q

\* Inline data is sent for the PDU in hand, which is not a READ.
InlineMade(len) ==
    /\ pdu \in Requests /\ pdu.op = "scsi_cmd" /\ pdu.cdb.cmd # "read" /\ len \in Nat
    /\ len = 0 => MayBeSilent(pdu)
    /\ Emit(InlineDataIns(pdu, len, NextDataSN(pdu.tag)))

\* What a handler that does not stream does: a reply, inline data, a failure,
\* or the beginning of a stream.
LEMMA PushKinds ==
    ASSUME TypeInv, ReceiveInv, ProgressInv, PushLogin \/ PushOther \/ PushScsi \/ PushDataOut
    PROVE  \/ \E q : Reply(pdu, q) /\ Emit(q)
           \/ \E len : InlineMade(len)
           \/ pc' \in {"error", "stream"} /\ out' = out
<1>0. pc = "push" /\ pdu \in Requests /\ ifr = "ok" /\ pdu.bhs.data # "oversized"
    BY DEF TypeInv, ReceiveInv, ProgressInv, PushLogin, PushOther, PushScsi, PushDataOut
<1>1. \A tag, res, s : LET a == ScsiResponse(tag, s, res) IN a.type # "data_in" /\ Final(a)
    BY DEF Final, ScsiResponse
<1>2. R2T(pdu).type = "r2t"
    BY DEF R2T
<1>3. CASE PushLogin
    <2>1. LET a == LoginReply(pdu, header_digest, data_digest) IN a.type # "data_in" /\ Final(a)
        BY DEF Final, LoginReply
    <2>2. pdu.NSG = 3 => MayBeSilent(pdu)
        BY <1>3 DEF PushLogin, MayBeSilent
    <2>3. QED
        BY <1>3, <2>1, <2>2, NoReply, OneReply DEF PushLogin
<1>4. CASE PushOther
    <2>1. /\ NopIn(pdu).type # "data_in" /\ Final(NopIn(pdu))
          /\ TextReply(pdu).type # "data_in" /\ Final(TextReply(pdu))
          /\ LogoutReply(pdu).type # "data_in" /\ Final(LogoutReply(pdu))
          /\ TaskmanReply(pdu).type # "data_in" /\ Final(TaskmanReply(pdu))
        BY DEF Final, NopIn, TextReply, LogoutReply, TaskmanReply
    <2>2. pdu.op = "text" => Reply(pdu, TextAnswer(pdu))
        <3>1. SUFFICES ASSUME pdu.op = "text" PROVE Reply(pdu, TextAnswer(pdu))
            OBVIOUS
        <3>2. pdu.bhs.data \in {"none", "some"}
            BY <1>0, RequestFacts DEF Bhs
        <3>3. CASE pdu.bhs.data = "some" /\ pdu.pairs
            BY <2>1, <3>3, OneReply DEF TextAnswer
        <3>4. CASE ~(pdu.bhs.data = "some" /\ pdu.pairs)
            <4>1. MayBeSilent(pdu)
                BY <3>1, <3>2, <3>4 DEF MayBeSilent
            <4>2. QED
                BY <3>4, <4>1, NoReply DEF TextAnswer
        <3>5. QED
            BY <3>3, <3>4
    <2>3. pdu.op = "r2t" => Reply(pdu, <<>>)
        BY NoReply DEF MayBeSilent
    <2>4. /\ Reply(pdu, <<NopIn(pdu)>>) /\ Reply(pdu, <<LogoutReply(pdu)>>)
          /\ Reply(pdu, <<TaskmanReply(pdu)>>)
        BY <2>1, OneReply
    <2>5. QED
        BY <1>4, <2>2, <2>3, <2>4 DEF PushOther
<1>5. CASE PushScsi
    <2>0. pdu.op = "scsi_cmd" /\ IsCdb(pdu.cdb)
        BY <1>0, <1>5, RequestFacts DEF PushScsi, IsScsiCmd
    <2>1. PICK other \in BOOLEAN : \E r \in Send(pdu.cdb, other) :
            AnswerInline(r) \/ AnswerStatus(r) \/ AnswerR2T(r) \/ AnswerStream(r)
        BY <1>5 DEF PushScsi
    <2>2. PICK r \in Send(pdu.cdb, other) :
            AnswerInline(r) \/ AnswerStatus(r) \/ AnswerR2T(r) \/ AnswerStream(r)
        BY <2>1
    <2>r. pdu.cdb.cmd # "read" => OtherResponse(pdu.cdb, r)
        BY <2>0, <2>2, SendOthers
    <2>w. pdu.cdb.cmd = "write" => MayBeSilent(pdu)
        BY <2>0 DEF MayBeSilent
    <2>3. CASE AnswerInline(r)
        <3>1. pdu.cdb.cmd # "read"
            BY <2>0, <2>2, <2>3, SendRead DEF AnswerInline
        <3>2. r.len \in Nat /\ (r.len = 0 => MayBeSilent(pdu))
            BY <2>0, <2>3, <2>r, <3>1 DEF AnswerInline, OtherResponse, MayBeSilent
        <3>3. InlineMade(r.len)
            BY <1>0, <2>0, <2>3, <3>1, <3>2 DEF AnswerInline, InlineMade
        <3>4. QED
            BY <3>3
    <2>4. CASE AnswerStatus(r)
        <3>1. r.sense # "none" \/ r.type = "empty_sense" \/ MayBeSilent(pdu)
            BY <2>0, <2>2, <2>4, <2>r, <2>w, SendRead DEF AnswerStatus, OtherResponse
        <3>2. Reply(pdu, <<ScsiResponse(pdu.tag, StatusOf(r.sense), NoResidual)>>)
            BY <1>1, OneReply
        <3>3. QED
            BY <2>4, <3>1, <3>2, NoReply DEF AnswerStatus
    <2>5. CASE AnswerR2T(r)
        <3>1. pdu.cdb.cmd = "write"
            BY <2>0, <2>2, <2>5, <2>r, SendRead DEF AnswerR2T, OtherResponse
        <3>2. Reply(pdu, <<R2T(pdu)>>)
            BY <1>2, <2>w, <3>1, OneReply
        <3>3. \A res : Reply(pdu, <<ScsiResponse(pdu.tag, "good", res)>>)
            BY <1>1, OneReply
        <3>4. QED
            BY <2>5, <3>2, <3>3 DEF AnswerR2T
    <2>6. CASE AnswerStream(r)
        BY <2>6 DEF AnswerStream
    <2>7. QED
        BY <2>2, <2>3, <2>4, <2>5, <2>6
<1>6. CASE PushDataOut
    <2>1. pdu.op = "data_out"
        BY <1>6 DEF PushDataOut
    <2>2. /\ Reply(pdu, <<ScsiResponse(pdu.tag, "good", NoResidual)>>)
          /\ Reply(pdu, <<ScsiResponse(pdu.tag, "good", NoResidual), R2T(pdu)>>)
        BY <1>1, <1>2, <2>1, OneReply, ContinuedReply
    <2>3. ~pdu.F => Reply(pdu, <<>>)
        BY <2>1, NoReply DEF MayBeSilent
    <2>4. QED
        BY <1>6, <2>2, <2>3 DEF PushDataOut, Fail
<1>7. QED
    BY <1>3, <1>4, <1>5, <1>6

\* Inline data, and an error, as they show in out.
InlineSent ==
    /\ pc = "push" /\ UNCHANGED <<pdu, fresh>>
    /\ pdu \in Requests /\ pdu.op = "scsi_cmd" /\ pdu.cdb.cmd # "read"
    /\ \E len \in Nat : out' = InlineDataIns(pdu, len, NextDataSN(pdu.tag))

ErrorSent ==
    /\ pc = "error" /\ out \in Seq(DataIns) /\ UNCHANGED <<pdu, fresh, ses>>
    /\ \E q : q.type # "data_in" /\ out' = Append(out, q)

\* Whatever the thread does, this is what becomes of what it has sent.
LEMMA OutSteps ==
    ASSUME TypeInv, ReceiveInv, OutInv, ProgressInv, [Next]_vars
    PROVE  \/ NoData(out')
           \/ UNCHANGED <<out, pdu, fresh>> /\ ses'.max_seg_len = ses.max_seg_len
           \/ InlineSent
           \/ StreamPiece /\ up
           \/ ErrorSent
<1>0. TypeOK /\ ses \in Sessions
    BY DEF TypeInv, TypeOK
<1>e. NoData(<<>>)
    BY DEF NoData
<1>1. CASE Hangup \/ UNCHANGED vars
    BY <1>1 DEF Hangup, vars, history
<1>2. CASE \E p \in Requests : RecvHeader(p)
    BY <1>2, <1>e DEF RecvHeader
<1>3. CASE Receive
    <2>1. out' = out /\ out = <<>>
        BY <1>3 DEF Receive, RecvNothing, RecvAhs, RecvHeaderDigest, RecvData, Drain,
            RecvDataDigest, Dispatch, OutInv, Receiving
    <2>2. QED
        BY <1>e, <2>1
<1>4. CASE PushLogin \/ PushOther \/ PushScsi \/ PushDataOut
    <2>1. pc = "push" /\ out = <<>> /\ UNCHANGED <<pdu, fresh>>
        BY <1>4 DEF PushLogin, PushOther, PushScsi, PushDataOut, OutInv, history
    <2>2. ASSUME NEW q, Reply(pdu, q), Emit(q) PROVE NoData(out')
        BY <1>e, <2>1, <2>2, EmitFirst DEF Reply
    <2>3. ASSUME NEW len, InlineMade(len) PROVE NoData(out') \/ InlineSent
        <3>1. \E S : InlineDataIns(pdu, len, NextDataSN(pdu.tag)) \in Seq(S)
            BY <2>3, InlineCount DEF InlineMade
        <3>2. out' \in {<<>>, InlineDataIns(pdu, len, NextDataSN(pdu.tag))}
            BY <2>1, <2>3, <3>1, EmitFirst DEF InlineMade
        <3>3. QED
            BY <1>e, <2>1, <2>3, <3>2 DEF InlineMade, InlineSent
    <2>4. CASE out' = out
        BY <1>e, <2>1, <2>4
    <2>5. QED
        BY <1>4, <2>2, <2>3, <2>4, PushKinds
<1>5. CASE StreamNothing
    <2>1. out = <<>>
        <3>1. stream.off \in Nat /\ stream.off <= 0
            BY <1>0, <1>5 DEF StreamNothing, ProgressInv, TypeOK
        <3>2. QED
            BY <1>5, <3>1 DEF StreamNothing, ProgressInv
    <2> DEFINE a == ScsiResponse(pdu.tag, "good", Residual(stream.has, stream.wants))
    <2>2. a.type # "data_in" /\ Emit(<<a>>)
        BY <1>5 DEF StreamNothing, ScsiResponse
    <2> HIDE DEF a
    <2>3. <<a>> \in Seq({a}) /\ NoData(<<a>>)
        BY <2>2 DEF NoData
    <2>4. out' \in {<<>>, <<a>>}
        BY <2>1, <2>2, <2>3, EmitFirst
    <2>5. QED
        BY <1>e, <2>3, <2>4
<1>6. CASE (StreamPiece /\ ~up) \/ StreamFails \/ StreamDone
    <2>1. ses' \in {ses, TakeDataSN(pdu.tag, 1)} /\ UNCHANGED <<out, pdu, fresh>>
        BY <1>6 DEF StreamPiece, StreamFails, StreamDone, Fail, history
    <2>2. ses'.max_seg_len = ses.max_seg_len
        BY <1>0, <2>1, SegmentsKept
    <2>3. QED
        BY <2>1, <2>2
<1>7. CASE StreamPiece /\ up
    BY <1>7
<1>8. CASE AnswerError \/ RejectPdu
    <2>1. pc = "error" /\ out \in Seq(DataIns) /\ UNCHANGED <<pdu, fresh, ses>>
        BY <1>8 DEF AnswerError, RejectPdu, OutInv, history
    <2>2. PICK q : SendError(q) /\ q.type # "data_in"
        <3>1. CASE AnswerError
            BY <3>1 DEF AnswerError, ScsiResponse
        <3>2. CASE RejectPdu
            BY <3>2 DEF RejectPdu, Reject
        <3>3. QED
            BY <1>8, <3>1, <3>2
    <2>3. QED
        BY <2>1, <2>2 DEF SendError, ErrorSent
<1>9. CASE SkipPdu \/ Count
    BY <1>9, <1>e DEF SkipPdu, Count, DeletePdu
<1>10. CASE Abort
    BY <1>10 DEF Abort, history
<1>11. QED
    BY <1>1, <1>2, <1>3, <1>4, <1>5, <1>6, <1>7, <1>8, <1>9, <1>10
        DEF Next, Thread, Push, Finish, StreamPiece

\* An error adds to what was sent, and is no DATA-IN.
LEMMA ErrorAfter ==
    ASSUME ErrorSent
    PROVE  /\ Len(out') = Len(out) + 1 /\ Len(out) \in Nat
           /\ \A i \in 1 .. Len(out) : out'[i] = out[i]
           /\ \A i \in Pieces' : i \in Pieces
<1>1. PICK q : q.type # "data_in" /\ out' = Append(out, q)
    BY DEF ErrorSent
<1>2. out \in Seq(DataIns \cup {q})
    BY DEF ErrorSent
<1>3. /\ Len(out') = Len(out) + 1 /\ Len(out) \in Nat
      /\ \A i \in 1 .. Len(out) : out'[i] = out[i]
      /\ out'[Len(out) + 1] = q
    BY <1>1, <1>2
<1>4. QED
    BY <1>1, <1>3 DEF Pieces

-----------------------------------------------------------------------------
(* The numbers of DATA-INs. *)

LEMMA ModMultiple ==
    ASSUME NEW m \in Nat \ {0}, NEW q \in Int PROVE (m * q) % m = 0
OBVIOUS

LEMMA ModNext ==
    ASSUME NEW m \in Nat \ {0}, NEW a \in Nat PROVE ((a % m) + 1) % m = (a + 1) % m
<1> DEFINE r == a % m
           d == a \div m
<1>1. r \in 0 .. m - 1 /\ d \in Nat /\ a = m * d + r
    OBVIOUS
<1> HIDE DEF r, d
<1>2. CASE r + 1 < m
    <2>1. r + 1 \in 0 .. m - 1 /\ a + 1 = m * d + (r + 1)
        BY <1>1, <1>2
    <2>2. (m * d + (r + 1)) % m = r + 1 /\ (r + 1) % m = r + 1
        BY <1>1, <2>1, ModUnique, ModSmall
    <2>3. QED
        BY <2>1, <2>2 DEF r
<1>3. CASE r + 1 = m
    <2>1. a + 1 = m * (d + 1) /\ r + 1 = m * 1 /\ d + 1 \in Int
        BY <1>1, <1>3
    <2>2. (m * (d + 1)) % m = 0 /\ (m * 1) % m = 0
        BY <2>1, ModMultiple
    <2>3. QED
        BY <2>1, <2>2 DEF r
<1>4. QED
    BY <1>1, <1>2, <1>3

LEMMA DataSNInOrderStep ==
    TypeInv /\ ReceiveInv /\ OutInv /\ ProgressInv /\ DataSNInOrder /\ [Next]_vars
        => DataSNInOrder'
<1> SUFFICES ASSUME TypeInv, ReceiveInv, OutInv, ProgressInv, DataSNInOrder, [Next]_vars
             PROVE  DataSNInOrder'
    OBVIOUS
<1>0. TypeOK /\ ses \in Sessions
    BY DEF TypeInv, TypeOK
<1>1. CASE NoData(out')
    BY <1>1 DEF NoData, DataSNInOrder, Pieces
<1>2. CASE UNCHANGED <<out, pdu, fresh>>
    BY <1>2 DEF DataSNInOrder, Pieces
<1>3. CASE InlineSent
    <2> DEFINE sn == NextDataSN(pdu.tag)
    <2>1. PICK len \in Nat : out' = InlineDataIns(pdu, len, sn)
        BY <1>3 DEF InlineSent
    <2>2. pdu.tag \in Tags /\ sn \in Nat
        BY <1>0, <1>3, RequestFacts, TakeDataSNType, 1 \in Nat DEF InlineSent
    <2>3. Len(out') \in Nat /\ \A i \in 1 .. Len(out') : out'[i].DataSN = (sn + i - 1) % Uint32
        BY <1>3, <2>1, InlineFields DEF InlineSent
    <2>4. fresh' => sn = 0
        BY <1>3 DEF InlineSent, ProgressInv
    <2> HIDE DEF sn
    <2>5. 0 % Uint32 = 0
        <3>1. 0 \in 0 .. Uint32 - 1
            BY Uint32Assumption
        <3>2. QED
            BY <3>1, Uint32Assumption, ModSmall
    <2>6. ASSUME NEW i \in 1 .. Len(out'), i > 1
          PROVE  out'[i].DataSN = (out'[i - 1].DataSN + 1) % Uint32
        <3>1. i - 1 \in 1 .. Len(out') /\ sn + (i - 1) - 1 \in Nat
            BY <2>2, <2>3, <2>6
        <3> DEFINE a == sn + (i - 1) - 1
        <3>2. out'[i - 1].DataSN = a % Uint32 /\ out'[i].DataSN = (sn + i - 1) % Uint32
            BY <2>3, <3>1
        <3>3. sn + i - 1 = a + 1 /\ a \in Nat
            BY <2>2, <3>1
        <3> HIDE DEF a
        <3>4. ((a % Uint32) + 1) % Uint32 = (a + 1) % Uint32
            BY <3>3, Uint32Assumption, ModNext
        <3>5. QED
            BY <3>2, <3>3, <3>4
    <2>7. ASSUME 1 \in 1 .. Len(out'), fresh' PROVE out'[1].DataSN = 0
        <3>1. out'[1].DataSN = (sn + 1 - 1) % Uint32
            BY <2>3, <2>7
        <3>2. sn + 1 - 1 = 0
            BY <2>4, <2>7
        <3>3. QED
            BY <2>5, <3>1, <3>2
    <2>8. QED
        BY <2>6, <2>7 DEF DataSNInOrder, Pieces
<1>4. CASE StreamPiece /\ up
    <2>1. /\ pc = "stream" /\ UNCHANGED fresh /\ out \in Seq(DataIns) /\ Len(out') = Len(out) + 1
          /\ \A i \in 1 .. Len(out) : out'[i] = out[i]
          /\ out'[Len(out) + 1] = Piece
        BY <1>4, PieceSent
    <2>2. Piece.DataSN = NextDataSN(pdu.tag)
        BY PieceFields
    <2>3. ASSUME NEW i \in Pieces', i <= Len(out)
          PROVE  /\ i > 1 => out'[i].DataSN = (out'[i - 1].DataSN + 1) % Uint32
                 /\ i = 1 /\ fresh' => out'[i].DataSN = 0
        <3>1. i \in Pieces /\ out'[i] = out[i] /\ (i > 1 => out'[i - 1] = out[i - 1])
            BY <2>1, <2>3 DEF Pieces
        <3>2. QED
            BY <2>1, <3>1 DEF DataSNInOrder
    <2>4. ASSUME Len(out) > 0 PROVE Piece.DataSN = (out[Len(out)].DataSN + 1) % Uint32
        BY <2>1, <2>2, <2>4 DEF ProgressInv, LeadsHere, NextDataSN
    <2>5. ASSUME Len(out) = 0, fresh PROVE Piece.DataSN = 0
        BY <2>1, <2>2, <2>5 DEF ProgressInv
    <2>6. ASSUME NEW i \in Pieces', ~(i <= Len(out))
          PROVE  /\ i > 1 => out'[i].DataSN = (out'[i - 1].DataSN + 1) % Uint32
                 /\ i = 1 /\ fresh' => out'[i].DataSN = 0
        <3>1. i = Len(out) + 1 /\ Len(out) \in Nat
            BY <2>1, <2>6 DEF Pieces
        <3>2. CASE Len(out) = 0
            BY <2>1, <2>5, <3>1, <3>2
        <3>3. CASE Len(out) > 0
            <4>1. out'[i - 1] = out[Len(out)] /\ i # 1
                BY <2>1, <3>1, <3>3
            <4>2. QED
                BY <2>1, <2>4, <3>1, <3>3, <4>1
        <3>4. QED
            BY <3>1, <3>2, <3>3
    <2>7. QED
        BY <2>3, <2>6 DEF DataSNInOrder
<1>5. CASE ErrorSent
    <2>1. /\ Len(out') = Len(out) + 1 /\ Len(out) \in Nat
          /\ \A i \in 1 .. Len(out) : out'[i] = out[i]
          /\ \A i \in Pieces' : i \in Pieces
        BY <1>5, ErrorAfter
    <2>2. ASSUME NEW i \in Pieces'
          PROVE  out'[i] = out[i] /\ (i > 1 => out'[i - 1] = out[i - 1])
        BY <2>1, <2>2 DEF Pieces
    <2>3. fresh' = fresh
        BY <1>5 DEF ErrorSent
    <2>4. QED
        BY <2>1, <2>2, <2>3 DEF DataSNInOrder
<1>6. QED
    BY <1>1, <1>2, <1>3, <1>4, <1>5, OutSteps

\* The DATA-INs of a command, of a READ or of inline data, are numbered one
\* after the other by get_inc_datasn(), from 0 if the tag is a new one; also
\* if 32 bits are not enough for the numbers.
THEOREM DataSNsInOrder == Spec => []DataSNInOrder
<1>1. Init => DataSNInOrder
    BY DEF Init, DataSNInOrder, Pieces
<1>2. QED
    BY <1>1, DataSNInOrderStep, TypeInvariant, ReceiveInvariant, OutInvariant, ProgressInvariant,
       PTL DEF Spec

-----------------------------------------------------------------------------
(* The offsets, lengths and flags of DATA-INs. *)

\* What DataInSequence says of the i-th PDU in q, for a session with segments
\* of up to max bytes.
InPlace(q, i, max) ==
    /\ q[i].off = IF i = 1 THEN 0 ELSE q[i - 1].off + q[i - 1].len
    /\ IsRead => q[i].len \in Least(1, max) .. max
    /\ q[i].F = q[i].S
    /\ q[i].S => i = Len(q)
    /\ IsRead /\ q[i].S =>
         LET has == pdu.cdb.n * BlockSize IN
         /\ q[i].off + q[i].len = Least(has % Uint32, pdu.ExpDatLen)
         /\ has < Uint32 => q[i].residual = Residual(has, pdu.ExpDatLen)

LEMMA SequenceInPlace ==
    /\ DataInSequence <=> \A i \in Pieces : InPlace(out, i, ses.max_seg_len)
    /\ pdu' = pdu => (DataInSequence' <=> \A i \in Pieces' : InPlace(out', i, ses'.max_seg_len))
BY DEF DataInSequence, InPlace, IsRead

LEMMA DataInSequenceStep ==
    TypeInv /\ ReceiveInv /\ OutInv /\ ProgressInv /\ StreamInv /\ DataInSequence /\ [Next]_vars
        => DataInSequence'
<1> SUFFICES ASSUME TypeInv, ReceiveInv, OutInv, ProgressInv, StreamInv, DataInSequence,
                    [Next]_vars
             PROVE  DataInSequence'
    OBVIOUS
<1>0. TypeOK /\ ses \in Sessions
    BY DEF TypeInv, TypeOK
<1>1. CASE NoData(out')
    BY <1>1 DEF NoData, DataInSequence, Pieces
<1>2. CASE UNCHANGED <<out, pdu, fresh>> /\ ses'.max_seg_len = ses.max_seg_len
    BY <1>2, SequenceInPlace DEF Pieces
<1>3. CASE InlineSent
    <2>1. PICK len \in Nat : out' = InlineDataIns(pdu, len, NextDataSN(pdu.tag))
        BY <1>3 DEF InlineSent
    <2>2. /\ Len(out') \in Nat
          /\ \A i \in 1 .. Len(out') :
               /\ out'[i].off = (i - 1) * BlockSize /\ (i < Len(out') => out'[i].len = BlockSize)
               /\ out'[i].F = (i = Len(out')) /\ out'[i].S = (i = Len(out'))
        BY <1>3, <2>1, InlineFields DEF InlineSent
    <2>3. ~IsRead /\ pdu' = pdu
        BY <1>3 DEF InlineSent, IsRead
    <2>4. ASSUME NEW i \in 1 .. Len(out')
          PROVE  out'[i].off = IF i = 1 THEN 0 ELSE out'[i - 1].off + out'[i - 1].len
        <3>1. CASE i = 1
            BY <2>2, <3>1, DeviceAssumption
        <3>2. CASE i # 1
            <4>1. i - 1 \in 1 .. Len(out') /\ i - 1 < Len(out')
                BY <2>2, <3>2
            <4>2. out'[i - 1].off = (i - 1 - 1) * BlockSize /\ out'[i - 1].len = BlockSize
                BY <2>2, <4>1
            <4>3. (i - 1) * BlockSize = (i - 1 - 1) * BlockSize + BlockSize
                BY DeviceAssumption
            <4>4. QED
                BY <2>2, <3>2, <4>2, <4>3
        <3>3. QED
            BY <3>1, <3>2
    <2>5. ASSUME NEW i \in 1 .. Len(out')
          PROVE  out'[i].F = out'[i].S /\ (out'[i].S => i = Len(out'))
        BY <2>2
    <2>6. \A i \in Pieces' : InPlace(out', i, ses'.max_seg_len)
        BY <2>3, <2>4, <2>5 DEF InPlace, Pieces
    <2>7. QED
        BY <2>3, <2>6, SequenceInPlace
<1>4. CASE StreamPiece /\ up
    <2>0. stream.off < offset_end
        BY <1>4 DEF StreamPiece
    <2>1. /\ pc = "stream" /\ UNCHANGED pdu /\ out \in Seq(DataIns) /\ Len(out') = Len(out) + 1
          /\ \A i \in 1 .. Len(out) : out'[i] = out[i]
          /\ out'[Len(out) + 1] = Piece /\ ses'.max_seg_len = ses.max_seg_len
        BY <1>4, PieceSent
    <2>2. \A i \in 1 .. Len(out) : ~out[i].S
        BY <1>0, <2>0, <2>1, NotLastYet
    <2>3. ASSUME NEW i \in Pieces', i <= Len(out) PROVE InPlace(out', i, ses'.max_seg_len)
        <3>1. i \in Pieces /\ out'[i] = out[i] /\ (i # 1 => out'[i - 1] = out[i - 1]) /\ ~out[i].S
            BY <2>1, <2>2, <2>3 DEF Pieces
        <3>2. InPlace(out, i, ses.max_seg_len)
            BY <3>1, SequenceInPlace
        <3>3. QED
            BY <2>1, <3>1, <3>2 DEF InPlace
    <2>4. ASSUME NEW i \in Pieces', ~(i <= Len(out)) PROVE InPlace(out', i, ses'.max_seg_len)
        <3>1. i = Len(out) + 1 /\ Len(out) \in Nat /\ out'[i] = Piece /\ i = Len(out')
            BY <2>1, <2>4 DEF Pieces
        <3>2. Piece.off = IF i = 1 THEN 0 ELSE out'[i - 1].off + out'[i - 1].len
            <4>1. CASE i = 1
                <5>1. out = <<>>
                    BY <2>1, <3>1, <4>1
                <5>2. stream.off = 0
                    BY <2>1, <5>1 DEF ProgressInv
                <5>3. QED
                    BY <4>1, <5>2, PieceFields
            <4>2. CASE i # 1
                <5>1. out # <<>> /\ out'[i - 1] = out[Len(out)]
                    BY <2>1, <3>1, <4>2
                <5>2. out[Len(out)].off + out[Len(out)].len = stream.off
                    BY <2>1, <5>1 DEF ProgressInv, LeadsHere
                <5>3. QED
                    BY <4>2, <5>1, <5>2, PieceFields
            <4>3. QED
                BY <4>1, <4>2
        <3>3. Piece.len \in Least(1, ses'.max_seg_len) .. ses'.max_seg_len
            BY <1>0, <2>0, <2>1, PieceLength, PieceFields
        <3>4. Piece.F = Piece.S
            BY PieceFields
        <3>5. ASSUME Piece.S
              PROVE  LET has == pdu.cdb.n * BlockSize IN
                     /\ Piece.off + Piece.len = Least(has % Uint32, pdu.ExpDatLen)
                     /\ has < Uint32 => Piece.residual = Residual(has, pdu.ExpDatLen)
            <4> DEFINE has == pdu.cdb.n * BlockSize
            <4>1. stream.has = has % Uint32 /\ stream.wants = pdu.ExpDatLen
                BY <2>1 DEF StreamInv
            <4>2. last_block
                BY <3>5, PieceFields
            <4>3. Piece.off + Piece.len = Least(has % Uint32, pdu.ExpDatLen)
                BY <4>1, <4>2, PieceFields DEF last_block, offset_end
            <4>4. Piece.residual = Residual(has % Uint32, pdu.ExpDatLen)
                BY <4>1, <4>2, PieceFields
            <4>5. has \in Nat
                BY <2>1, RequestFacts, DeviceAssumption DEF StreamInv, IsScsiCmd, IsCdb
            <4> HIDE DEF has
            <4>6. has < Uint32 => has % Uint32 = has
                <5>1. has < Uint32 => has \in 0 .. Uint32 - 1
                    BY <4>5, Uint32Assumption
                <5>2. QED
                    BY <5>1, ModSmall, Uint32Assumption
            <4>7. has < Uint32 => Piece.residual = Residual(has, pdu.ExpDatLen)
                BY <4>4, <4>6
            <4>8. QED
                BY <4>3, <4>7 DEF has
        <3>6. QED
            BY <3>1, <3>2, <3>3, <3>4, <3>5 DEF InPlace
    <2>5. QED
        BY <2>1, <2>3, <2>4, SequenceInPlace
<1>5. CASE ErrorSent
    <2>1. /\ Len(out') = Len(out) + 1 /\ Len(out) \in Nat
          /\ \A i \in 1 .. Len(out) : out'[i] = out[i]
          /\ \A i \in Pieces' : i \in Pieces
        BY <1>5, ErrorAfter
    <2>2. UNCHANGED <<pdu, ses>> /\ \A i \in 1 .. Len(out) : ~out[i].S
        BY <1>5 DEF ErrorSent, ProgressInv
    <2>3. ASSUME NEW i \in Pieces' PROVE InPlace(out', i, ses'.max_seg_len)
        <3>1. i \in Pieces /\ out'[i] = out[i] /\ (i # 1 => out'[i - 1] = out[i - 1]) /\ ~out[i].S
            BY <2>1, <2>2, <2>3 DEF Pieces
        <3>2. InPlace(out, i, ses.max_seg_len)
            BY <3>1, SequenceInPlace
        <3>3. QED
            BY <2>2, <3>1, <3>2 DEF InPlace
    <2>4. QED
        BY <2>2, <2>3, SequenceInPlace
<1>6. QED
    BY <1>1, <1>2, <1>3, <1>4, <1>5, OutSteps

\* The DATA-INs that push_response() and get() make are one gapless sequence
\* in which no piece is longer than the initiator can take and only the last
\* one has F and S, with the right end and residual; whatever the lengths, and
\* wherever reading or sending fails.
THEOREM DataInsInSequence == Spec => []DataInSequence
<1>1. Init => DataInSequence
    BY DEF Init, DataInSequence, Pieces
<1>2. QED
    BY <1>1, DataInSequenceStep, TypeInvariant, ReceiveInvariant, OutInvariant, ProgressInvariant,
       StreamInvariant, PTL DEF Spec

-----------------------------------------------------------------------------
(* Final answers. *)

LEMMA AnsweredOnceIs ==
    /\ AnsweredOnce <=> (pc = "count" /\ up /\ ifr # "connection" => Answered(pdu, out))
    /\ Answered(pdu', out') => AnsweredOnce'
BY DEF AnsweredOnce, Answered, Finals, FinalsOf

\* A sequence of which the last PDU only is final.
LEMMA LastAnswers ==
    ASSUME NEW p, NEW q, Len(q) \in Nat \ {0}, Final(q[Len(q)]),
           \A i \in 1 .. Len(q) - 1 : ~Final(q[i])
    PROVE  Answered(p, q)
<1>1. FinalsOf(q) = {Len(q)}
    BY DEF FinalsOf
<1>2. Cardinality(FinalsOf(q)) <= 1
    BY <1>1, FewFinals
<1>3. QED
    BY <1>1, <1>2 DEF Answered

LEMMA AnsweredOnceStep ==
    TypeInv /\ ReceiveInv /\ OutInv /\ ProgressInv /\ AnsweredOnce /\ [Next]_vars => AnsweredOnce'
<1> SUFFICES ASSUME TypeInv, ReceiveInv, OutInv, ProgressInv, AnsweredOnce, [Next]_vars,
                    pc' = "count", up', ifr' # "connection"
             PROVE  AnsweredOnce'
    BY DEF AnsweredOnce
<1>0. TypeOK
    BY DEF TypeInv
<1>u. up
    BY DEF Next, Hangup, Thread, Receive, Push, Finish, RecvHeader, RecvNothing, RecvAhs,
        RecvHeaderDigest, RecvData, Drain, RecvDataDigest, Dispatch, PushLogin, PushOther,
        PushScsi, PushDataOut, StreamNothing, StreamPiece, StreamFails, StreamDone, AnswerError,
        RejectPdu, SkipPdu, Abort, Count, vars
<1>d. \A d \in DataIns : Final(d) <=> d.S
    BY DEF DataIns, Final
<1>1. CASE UNCHANGED vars
    BY <1>u, <1>1, AnsweredOnceIs DEF vars
<1>2. CASE PushLogin \/ PushOther \/ PushScsi \/ PushDataOut
    <2>1. pc = "push" /\ out = <<>> /\ UNCHANGED pdu
        BY <1>2 DEF PushLogin, PushOther, PushScsi, PushDataOut, OutInv
    <2>2. ASSUME NEW q, Reply(pdu, q), Emit(q) PROVE Answered(pdu, out')
        BY <1>u, <2>1, <2>2, EmitFirst DEF Reply
    <2>3. ASSUME NEW len, InlineMade(len) PROVE Answered(pdu, out')
        <3>1. \E S : InlineDataIns(pdu, len, NextDataSN(pdu.tag)) \in Seq(S)
            BY <2>3, InlineCount DEF InlineMade
        <3>2. out' = InlineDataIns(pdu, len, NextDataSN(pdu.tag))
            BY <1>u, <2>1, <2>3, <3>1, EmitFirst DEF InlineMade
        <3>3. QED
            BY <2>3, <3>2, InlineAnswered DEF InlineMade
    <2>4. Answered(pdu, out')
        BY <1>2, <2>2, <2>3, PushKinds
    <2>5. QED
        BY <2>1, <2>4, AnsweredOnceIs
<1>3. CASE StreamNothing
    <2>1. out = <<>>
        <3>1. stream.off \in Nat /\ stream.off <= 0
            BY <1>0, <1>3 DEF StreamNothing, ProgressInv, TypeOK
        <3>2. QED
            BY <1>3, <3>1 DEF StreamNothing, ProgressInv
    <2> DEFINE a == ScsiResponse(pdu.tag, "good", Residual(stream.has, stream.wants))
    <2>2. a.type # "data_in" /\ Final(a) /\ Emit(<<a>>) /\ pdu' = pdu
        BY <1>3 DEF StreamNothing, ScsiResponse, Final
    <2> HIDE DEF a
    <2>3. <<a>> \in Seq({a}) /\ Reply(pdu, <<a>>)
        BY <2>2, OneReply
    <2>4. out' = <<a>>
        BY <1>u, <2>1, <2>2, <2>3, EmitFirst
    <2>5. QED
        BY <2>2, <2>3, <2>4, AnsweredOnceIs DEF Reply
<1>4. CASE StreamDone
    <2>1. /\ pc = "stream" /\ UNCHANGED <<pdu, out>> /\ out \in Seq(DataIns)
          /\ stream.off = offset_end /\ offset_end # 0
        <3>1. stream.off \in Nat /\ offset_end \in Nat
            BY <1>0 DEF TypeOK, offset_end, Least
        <3>2. QED
            BY <1>4, <3>1 DEF StreamDone, ProgressInv, OutInv
    <2>2. out # <<>>
        BY <2>1 DEF ProgressInv
    <2>3. out[Len(out)].S = (stream.off = offset_end)
        BY <2>1, <2>2 DEF ProgressInv, LeadsHere
    <2>4. out[Len(out)].S
        BY <2>1, <2>3, Zenon
    <2>5. Len(out) \in Nat \ {0} /\ \A i \in 1 .. Len(out) : out[i] \in DataIns
        BY <2>1, <2>2
    <2>6. Final(out[Len(out)]) /\ \A i \in 1 .. Len(out) - 1 : ~Final(out[i])
        BY <1>d, <2>1, <2>4, <2>5 DEF ProgressInv
    <2>7. Answered(pdu, out)
        BY <2>5, <2>6, LastAnswers
    <2>8. QED
        BY <2>1, <2>7, AnsweredOnceIs
<1>5. CASE AnswerError \/ RejectPdu
    <2>1. pc = "error" /\ out \in Seq(DataIns) /\ UNCHANGED pdu
        BY <1>5 DEF AnswerError, RejectPdu, OutInv
    <2>e. PICK q : SendError(q) /\ Final(q)
        <3>1. CASE AnswerError
            BY <3>1 DEF AnswerError, Final, ScsiResponse
        <3>2. CASE RejectPdu
            BY <3>2 DEF RejectPdu, Final, Reject
        <3>3. QED
            BY <1>5, <3>1, <3>2
    <2>2. out' = Append(out, q) /\ Final(q)
        BY <1>u, <2>e DEF SendError
    <2>3. out \in Seq(DataIns \cup {q})
        BY <2>1
    <2>4. /\ Len(out') = Len(out) + 1 /\ Len(out) \in Nat /\ out'[Len(out) + 1] = q
          /\ \A i \in 1 .. Len(out) : out'[i] = out[i] /\ out[i] \in DataIns
        BY <2>1, <2>2, <2>3
    <2>5. \A i \in 1 .. Len(out) : ~Final(out'[i])
        BY <1>d, <2>1, <2>4 DEF ProgressInv
    <2>6. /\ Len(out') \in Nat \ {0} /\ Final(out'[Len(out')])
          /\ \A i \in 1 .. Len(out') - 1 : ~Final(out'[i])
        BY <2>2, <2>4, <2>5
    <2>a. Answered(pdu, out')
        BY <2>6, LastAnswers
    <2>7. QED
        BY <2>1, <2>a, AnsweredOnceIs
<1>6. QED
    <2>1. ~RecvNothing
        <3>1. RecvNothing => ifr' = "connection"
            BY DEF RecvNothing
        <3>2. QED
            BY <3>1
    <2>2. ~Dispatch
        <3>1. SUFFICES ASSUME Dispatch PROVE FALSE
            OBVIOUS
        <3>2. pc' \in {"push", "error"}
            BY <1>0, <1>u, <3>1 DEF Dispatch, TypeInv
        <3>3. QED
            BY <3>2
    <2>3. QED
        BY <1>u, <1>1, <1>2, <1>3, <1>4, <1>5, <2>1, <2>2
            DEF Next, Thread, Receive, Push, Finish, Hangup, RecvHeader, RecvAhs, RecvHeaderDigest,
            RecvData, Drain, RecvDataDigest, StreamPiece, StreamFails, SkipPdu, Abort, Count,
            Received, RecvFails, Mismatch, Fail

\* A PDU gets one final answer from server::handler(): the last PDU sent for
\* it, or the status before an R2T that goes on with the transfer.  Never a
\* status on top of the S bit, and none at all only for the PDUs that
\* MayBeSilent lists.
THEOREM PdusAnsweredOnce == Spec => []AnsweredOnce
<1>1. Init => AnsweredOnce
    BY DEF Init, AnsweredOnce
<1>2. QED
    BY <1>1, AnsweredOnceStep, TypeInvariant, ReceiveInvariant, OutInvariant, ProgressInvariant,
       PTL DEF Spec

-----------------------------------------------------------------------------
(* What READs send. *)

\* The lengths of 32 bits wrap at a whole block.
WrapsAtBlock == Uint32 % BlockSize = 0

LEMMA Multiple ==
    ASSUME NEW b \in Nat \ {0}, NEW a \in Nat, a % b = 0
    PROVE  a \div b \in Nat /\ a = b * (a \div b)
OBVIOUS

LEMMA MultipleSum ==
    ASSUME NEW b \in Nat \ {0}, NEW a \in Nat, NEW c \in Nat, a % b = 0, c % b = 0
    PROVE  (a + c) % b = 0 /\ (c <= a => (a - c) % b = 0)
<1> DEFINE x == a \div b
           y == c \div b
<1>1. x \in Nat /\ a = b * x
    BY Multiple
<1>2. y \in Nat /\ c = b * y
    BY Multiple
<1> HIDE DEF x, y
<1>3. x + y \in Int /\ x - y \in Int
    BY <1>1, <1>2
<1>4. a + c = b * (x + y) /\ a - c = b * (x - y)
    BY <1>1, <1>2
<1>5. (b * (x + y)) % b = 0 /\ (b * (x - y)) % b = 0
    BY <1>3, ModMultiple
<1>6. QED
    BY <1>4, <1>5

LEMMA MultipleWrapped ==
    ASSUME WrapsAtBlock, NEW a \in Nat, a % BlockSize = 0
    PROVE  (a % Uint32) % BlockSize = 0
<1> DEFINE b == BlockSize
           u == Uint32
           d == a \div u
           r == a % u
           x == a \div b
           y == u \div b
<1>1. b \in Nat \ {0} /\ u \in Nat \ {0}
    BY DeviceAssumption, Uint32Assumption
<1>2. a % b = 0 /\ u % b = 0
    BY DEF WrapsAtBlock
<1> HIDE DEF b, u
<1>3. d \in Nat /\ r \in Nat /\ a = u * d + r
    BY <1>1
<1>4. x \in Nat /\ a = b * x
    BY <1>1, <1>2, Multiple
<1>5. y \in Nat /\ u = b * y
    BY <1>1, <1>2, Multiple
<1> HIDE DEF d, r, x, y
<1>6. u * d = b * (y * d) /\ y * d \in Nat
    BY <1>1, <1>3, <1>5
<1> DEFINE z == y * d
<1> HIDE DEF z
<1>7. u * d = b * z /\ z \in Nat
    BY <1>6 DEF z
<1>8. z \in Nat /\ r = b * x - b * z
    <2> DEFINE bx == b * x
               bz == b * z
    <2>1. bx \in Nat /\ bz \in Nat /\ a = bx /\ a = bz + r
        BY <1>1, <1>3, <1>4, <1>7
    <2> HIDE DEF bx, bz
    <2>2. r = bx - bz
        BY <1>3, <2>1
    <2>3. QED
        BY <1>7, <2>2 DEF bx, bz
<1>9. b * x - b * z = b * (x - z) /\ x - z \in Int
    BY <1>1, <1>4, <1>8
<1>10. (b * (x - z)) % b = 0
    BY <1>1, <1>9, ModMultiple
<1>11. r % b = 0
    BY <1>8, <1>9, <1>10
<1>12. QED
    BY <1>11 DEF r, b, u

WholeSegments == ses.max_seg_len % BlockSize = 0 /\ pdu.ExpDatLen % BlockSize = 0

\* The stream is at the block of its offset.
PlaceInv ==
    pc = "stream" /\ WholeSegments =>
        /\ stream.off % BlockSize = 0
        /\ stream.lba * BlockSize = pdu.cdb.lba * BlockSize + stream.off

\* With segments and a transfer of whole blocks, so is a piece.
LEMMA WholePiece ==
    ASSUME WrapsAtBlock, TypeOK, ProgressInv, StreamInv, PlaceInv, pc = "stream",
           stream.off < offset_end, WholeSegments
    PROVE  /\ current_n % BlockSize = 0 /\ is_n_blocks * BlockSize = current_n
           /\ current_n < BlockSize => current_n = 0
<1>1. BlockSize \in Nat \ {0} /\ stream.off % BlockSize = 0
    BY DeviceAssumption DEF PlaceInv
<1>2. /\ offset_end \in Nat /\ stream.off \in Nat /\ current_n \in Nat
      /\ current_n <= ses.max_seg_len
    BY PieceNumbers
<1>3. offset_end % BlockSize = 0
    <2> DEFINE has == pdu.cdb.n * BlockSize
    <2>1. pdu.cdb.n \in Nat
        BY RequestFacts DEF StreamInv, IsScsiCmd, IsCdb
    <2>2. has \in Nat /\ has = BlockSize * pdu.cdb.n /\ pdu.cdb.n \in Int
        BY <1>1, <2>1
    <2>3. has % BlockSize = 0
        BY <1>1, <2>2, ModMultiple
    <2>4. stream.has = has % Uint32 /\ stream.wants = pdu.ExpDatLen
        BY DEF StreamInv
    <2> HIDE DEF has
    <2>5. (has % Uint32) % BlockSize = 0
        BY <2>2, <2>3, MultipleWrapped
    <2>6. QED
        BY <2>4, <2>5 DEF offset_end, Least, WholeSegments
<1>4. (offset_end - stream.off) % BlockSize = 0
    BY <1>1, <1>2, <1>3, MultipleSum
<1>5. current_n \in {ses.max_seg_len, offset_end - stream.off}
    BY <1>2, LimitsAssumption DEF current_n, Least, ProgressInv
<1>6. current_n % BlockSize = 0
    BY <1>4, <1>5 DEF WholeSegments
<1>7. is_n_blocks * BlockSize = current_n
    <2>1. is_n_blocks \in Nat /\ current_n = BlockSize * is_n_blocks
        BY <1>1, <1>2, <1>6, Multiple DEF is_n_blocks
    <2>2. QED
        BY <1>1, <2>1
<1>8. current_n < BlockSize => current_n = 0
    <2>1. SUFFICES ASSUME current_n < BlockSize PROVE current_n = 0
        OBVIOUS
    <2>2. current_n \in 0 .. BlockSize - 1
        BY <1>1, <1>2, <2>1
    <2>3. current_n % BlockSize = current_n
        BY <1>1, <2>2, ModSmall
    <2>4. QED
        BY <1>6, <2>3
<1>9. QED
    BY <1>6, <1>7, <1>8

LEMMA PlaceInvStep ==
    ASSUME WrapsAtBlock
    PROVE  TypeInv /\ OutInv /\ ProgressInv /\ StreamInv /\ PlaceInv /\ [Next]_vars => PlaceInv'
<1> SUFFICES ASSUME TypeInv, OutInv, ProgressInv, StreamInv, PlaceInv, [Next]_vars,
                    pc' = "stream", WholeSegments'
             PROVE  /\ stream'.off % BlockSize = 0
                    /\ stream'.lba * BlockSize = pdu'.cdb.lba * BlockSize + stream'.off
    BY DEF PlaceInv
<1>0. TypeOK
    BY DEF TypeInv
<1>1. CASE PushScsi
    <2>1. pdu \in Requests /\ pdu.op = "scsi_cmd" /\ IsCdb(pdu.cdb) /\ pdu' = pdu
        BY <1>1, RequestFacts DEF PushScsi, IsScsiCmd, TypeInv
    <2>2. PICK other \in BOOLEAN : \E r \in Send(pdu.cdb, other) : AnswerStream(r)
        BY <1>1 DEF PushScsi, AnswerInline, AnswerStatus, AnswerR2T, Emit
    <2>3. PICK r \in Send(pdu.cdb, other) : AnswerStream(r)
        BY <2>2
    <2>4. r.n_sectors > 0
        BY <2>3 DEF AnswerStream
    <2>5. pdu.cdb.cmd = "read"
        BY <2>1, <2>3, <2>4, SendOthers DEF OtherResponse
    <2>6. r.lba = pdu.cdb.lba /\ pdu.cdb.lba \in Nat
        BY <2>1, <2>3, <2>4, <2>5, SendRead DEF IsCdb
    <2>7. stream'.off = 0 /\ stream'.lba = pdu.cdb.lba
        BY <2>3, <2>6 DEF AnswerStream
    <2>8. 0 % BlockSize = 0
        <3>1. 0 \in 0 .. BlockSize - 1
            BY DeviceAssumption
        <3>2. QED
            BY <3>1, ModSmall, DeviceAssumption
    <2>9. pdu.cdb.lba * BlockSize + 0 = pdu.cdb.lba * BlockSize
        BY <2>6, DeviceAssumption
    <2>10. QED
        BY <2>1, <2>7, <2>8, <2>9
<1>2. CASE StreamPiece
    <2>0. up /\ stream.off < offset_end
        BY <1>2 DEF StreamPiece
    <2>1. /\ pc = "stream" /\ UNCHANGED pdu /\ ses'.max_seg_len = ses.max_seg_len
          /\ stream'.off = stream.off + current_n /\ stream'.lba = next_lba
        BY <1>2, <2>0, PieceSent
    <2>2. WholeSegments
        BY <2>1 DEF WholeSegments
    <2>3. /\ stream.off % BlockSize = 0
          /\ stream.lba * BlockSize = pdu.cdb.lba * BlockSize + stream.off
        BY <2>1, <2>2 DEF PlaceInv
    <2>4. current_n % BlockSize = 0 /\ is_n_blocks * BlockSize = current_n
        BY <1>0, <2>0, <2>1, <2>2, WholePiece
    <2>5. /\ stream.off \in Nat /\ stream.lba \in Nat /\ current_n \in Nat /\ is_n_blocks \in Nat
          /\ BlockSize \in Nat \ {0}
        BY <1>0, <2>0, <2>1, PieceNumbers, DeviceAssumption
    <2>6. (stream.off + current_n) % BlockSize = 0
        BY <2>3, <2>4, <2>5, MultipleSum
    <2>7. pdu.cdb.lba \in Nat
        BY <2>1, RequestFacts DEF StreamInv, IsScsiCmd, IsCdb
    <2>8. next_lba * BlockSize = stream.lba * BlockSize + is_n_blocks * BlockSize
        BY <2>5 DEF next_lba
    <2>9. stream.lba * BlockSize \in Nat /\ pdu.cdb.lba * BlockSize \in Nat
        BY <2>5, <2>7
    <2>10. next_lba * BlockSize = pdu.cdb.lba * BlockSize + (stream.off + current_n)
        BY <2>3, <2>4, <2>5, <2>8, <2>9
    <2>11. QED
        BY <2>1, <2>6, <2>10
<1>3. CASE Hangup \/ UNCHANGED vars
    BY <1>3 DEF Hangup, vars, PlaceInv, WholeSegments
<1>4. QED
    BY <1>1, <1>2, <1>3 DEF Next, Thread, Receive, Push, Finish, RecvHeader, RecvNothing, RecvAhs,
        RecvHeaderDigest, RecvData, Drain, RecvDataDigest, Dispatch, PushLogin, PushOther,
        PushDataOut, StreamNothing, StreamFails, StreamDone, AnswerError, RejectPdu, SkipPdu,
        Abort, Count, Received, RecvFails, Mismatch, Emit, Fail, SendError

LEMMA WholeBlocksStep ==
    ASSUME WrapsAtBlock
    PROVE  /\ TypeInv /\ ReceiveInv /\ OutInv /\ ProgressInv /\ StreamInv /\ PlaceInv
           /\ WholeBlocksReadRight /\ [Next]_vars
           => WholeBlocksReadRight'
<1> SUFFICES ASSUME TypeInv, ReceiveInv, OutInv, ProgressInv, StreamInv, PlaceInv,
                    WholeBlocksReadRight, [Next]_vars, WholeSegments', IsRead'
             PROVE  \A i \in Pieces' : RightPlace(out[i])'
    BY DEF WholeBlocksReadRight, ReadsRight, WholeSegments
<1>0. TypeOK
    BY DEF TypeInv
<1>h. ASSUME WholeSegments, IsRead, NEW i \in Pieces PROVE RightPlace(out[i])
    BY <1>h DEF WholeBlocksReadRight, ReadsRight, WholeSegments
<1>1. CASE NoData(out')
    BY <1>1 DEF NoData, Pieces
<1>2. CASE UNCHANGED <<out, pdu, fresh>> /\ ses'.max_seg_len = ses.max_seg_len
    BY <1>h, <1>2 DEF WholeSegments, IsRead, Pieces, RightPlace
<1>3. CASE InlineSent
    BY <1>3 DEF InlineSent, IsRead
<1>4. CASE StreamPiece /\ up
    <2>0. stream.off < offset_end
        BY <1>4 DEF StreamPiece
    <2>1. /\ pc = "stream" /\ UNCHANGED pdu /\ out \in Seq(DataIns) /\ Len(out') = Len(out) + 1
          /\ \A i \in 1 .. Len(out) : out'[i] = out[i]
          /\ out'[Len(out) + 1] = Piece /\ ses'.max_seg_len = ses.max_seg_len
        BY <1>4, PieceSent
    <2>2. WholeSegments /\ IsRead
        BY <2>1 DEF WholeSegments, IsRead
    <2>3. RightPlace(Piece)
        <3>1. is_n_blocks * BlockSize = current_n
            BY <1>0, <2>0, <2>1, <2>2, WholePiece
        <3>2. stream.lba * BlockSize = pdu.cdb.lba * BlockSize + stream.off
            BY <2>1, <2>2 DEF PlaceInv
        <3>3. QED
            BY <3>1, <3>2, PieceFields DEF RightPlace
    <2>4. ASSUME NEW i \in Pieces' PROVE RightPlace(out'[i])
        <3>1. CASE i <= Len(out)
            <4>1. i \in Pieces /\ out'[i] = out[i]
                BY <2>1, <3>1 DEF Pieces
            <4>2. QED
                BY <1>h, <2>2, <4>1
        <3>2. CASE ~(i <= Len(out))
            <4>1. out'[i] = Piece
                BY <2>1, <3>2 DEF Pieces
            <4>2. QED
                BY <2>3, <4>1
        <3>3. QED
            BY <3>1, <3>2
    <2>5. QED
        BY <2>1, <2>4 DEF RightPlace
<1>5. CASE ErrorSent
    <2>1. /\ \A i \in 1 .. Len(out) : out'[i] = out[i]
          /\ \A i \in Pieces' : i \in Pieces
        BY <1>5, ErrorAfter
    <2>2. UNCHANGED <<pdu, ses>>
        BY <1>5 DEF ErrorSent
    <2>3. WholeSegments /\ IsRead
        BY <2>2 DEF WholeSegments, IsRead
    <2>4. ASSUME NEW i \in Pieces' PROVE RightPlace(out'[i])
        <3>1. i \in Pieces /\ out'[i] = out[i]
            BY <2>1 DEF Pieces
        <3>2. QED
            BY <1>h, <2>3, <3>1
    <2>5. QED
        BY <2>2, <2>4 DEF RightPlace
<1>6. QED
    BY <1>1, <1>2, <1>3, <1>4, <1>5, OutSteps

\* A READ of any length, cut into DATA-INs of whole blocks, sends what is on
\* the device at the place that was asked for, and all of it; for block sizes
\* that divide 2^32, such as those of the backends.
THEOREM WholeBlocksRead ==
    ASSUME WrapsAtBlock
    PROVE  Spec => []WholeBlocksReadRight
<1>1. Init => PlaceInv /\ WholeBlocksReadRight
    BY DEF Init, PlaceInv, WholeBlocksReadRight, IsRead
<1>2. QED
    BY <1>1, PlaceInvStep, WholeBlocksStep, TypeInvariant, ReceiveInvariant, OutInvariant,
       ProgressInvariant, StreamInvariant, PTL DEF Spec
-----------------------------------------------------------------------------
(* UNMAP. *)

Descriptors == [lba : 0 .. Uint64 - 1, n : 0 .. Uint64 - 1]

DescriptorFits(d) == d.lba + d.n <= NBlocks /\ d.n <= MAX_UNMAP_BLOCKS

\* What the loop of scsi::unmap() knows after some of the descriptors.
UnmapStates ==
    [rc : RwResults, sense : {"none", "out_of_range"}, failed : BOOLEAN]

LEMMA UnmapDescriptorType ==
    ASSUME NEW s \in UnmapStates, NEW d, NEW rw \in RwResults
    PROVE  UnmapDescriptor(s, d, rw) \in UnmapStates
<1>1. "general" \in RwResults
    BY DEF RwResults
<1>2. QED
    BY <1>1 DEF UnmapDescriptor, UnmapStates

\* A descriptor that does not fit leaves sense data, a trim that fails ends
\* the loop with its result.
UnmapKnows(s, fit) ==
    /\ s.failed => s.rc # "ok"
    /\ ~s.failed /\ s.sense = "none" => fit

LEMMA UnmapDescriptorKnows ==
    ASSUME MAX_UNMAP_BLOCKS <= NBlocks, NEW s \in UnmapStates, NEW d \in Descriptors,
           NEW rw \in RwResults, NEW fit, UnmapKnows(s, fit)
    PROVE  UnmapKnows(UnmapDescriptor(s, d, rw), fit /\ DescriptorFits(d))
<1>1. CASE s.failed
    BY <1>1 DEF UnmapDescriptor, UnmapKnows
<1>2. CASE ~s.failed /\ (OutOfRange(d.lba, d.n) \/ d.n > MAX_UNMAP_BLOCKS)
    BY <1>2 DEF UnmapDescriptor, UnmapKnows, UnmapStates
<1>3. CASE ~s.failed /\ ~OutOfRange(d.lba, d.n) /\ ~(d.n > MAX_UNMAP_BLOCKS)
    <2>1. d.lba \in 0 .. Uint64 - 1 /\ d.n \in 0 .. Uint64 - 1
        BY DEF Descriptors
    <2>2. d.n <= MAX_UNMAP_BLOCKS /\ d.n <= NBlocks
        BY <1>3, <2>1, DeviceAssumption
    <2>3. DescriptorFits(d)
        BY <1>3, <2>1, <2>2, InRangeFits DEF DescriptorFits
    <2>4. UnmapDescriptor(s, d, rw) \in {[s EXCEPT !.rc = rw, !.failed = rw # "ok"], s}
        BY <1>3 DEF UnmapDescriptor
    <2>5. UnmapKnows([s EXCEPT !.rc = rw, !.failed = rw # "ok"], fit /\ DescriptorFits(d))
        BY <1>3, <2>3 DEF UnmapKnows, UnmapStates
    <2>6. UnmapKnows(s, fit /\ DescriptorFits(d))
        BY <1>3, <2>3 DEF UnmapKnows
    <2>7. QED
        BY <2>4, <2>5, <2>6
<1>4. QED
    BY <1>1, <1>2, <1>3

\* The loop of scsi::unmap(), whatever trim() returns.
LEMMA UnmapLoopKnows ==
    ASSUME MAX_UNMAP_BLOCKS <= NBlocks, NEW list \in Seq(Descriptors),
           NEW rw \in [1 .. Len(list) -> RwResults]
    PROVE  /\ UnmapLoop(list, rw) \in UnmapStates
           /\ UnmapKnows(UnmapLoop(list, rw), \A j \in 1 .. Len(list) : DescriptorFits(list[j]))
<1> DEFINE n == Len(list)
           base == [rc |-> "ok", sense |-> "none", failed |-> FALSE]
           step(x, i) == UnmapDescriptor(x, list[i], rw[i])
           F == [i \in 1 .. n |-> [x \in UnmapStates |-> step(x, i)]]
           Is(f) == f = [i \in 0 .. n |-> IF i = 0 THEN base ELSE step(f[i - 1], i)]
           s == CHOOSE f : Is(f)
<1>1. n \in Nat /\ base \in UnmapStates
    BY DEF UnmapStates, RwResults
<1>2. ASSUME NEW i \in 1 .. n, NEW x \in UnmapStates PROVE step(x, i) \in UnmapStates
    BY UnmapDescriptorType
<1>3. F \in [1 .. n -> [UnmapStates -> UnmapStates]]
    BY <1>2
<1>4. PICK f : Loop(f, UnmapStates, base, n, F)
    <2> HIDE DEF n, base, F
    <2>1. QED
        BY <1>1, <1>3, LoopValues
<1>5. ASSUME NEW i \in 1 .. n PROVE f[i] = step(f[i - 1], i)
    <2>1. f[i - 1] \in UnmapStates
        BY <1>1, <1>4 DEF Loop
    <2>2. QED
        BY <1>4, <2>1 DEF Loop
<1> HIDE DEF F
<1>6. Is(f)
    <2> HIDE DEF base, n, step
    <2>1. \A i \in 0 .. n : f[i] = IF i = 0 THEN base ELSE step(f[i - 1], i)
        BY <1>1, <1>4, <1>5 DEF Loop
    <2>2. QED
        BY <1>4, <2>1 DEF Loop
<1>7. Is(s)
    BY <1>6
<1>8. UnmapLoop(list, rw) = s[n]
    BY DEF UnmapLoop
<1> HIDE DEF s
<1>9. s[0] = base /\ \A i \in 1 .. n : s[i] = step(s[i - 1], i)
    <2> HIDE DEF base, n, step
    <2>1. QED
        BY <1>1, <1>7
<1> DEFINE Known(i) == /\ s[i] \in UnmapStates
                       /\ UnmapKnows(s[i], \A j \in 1 .. i : DescriptorFits(list[j]))
           T == {i \in Nat : i <= n => Known(i)}
<1> HIDE DEF Known, n, base
<1>10. 0 \in T
    <2>1. Known(0)
        BY <1>1, <1>9 DEF UnmapKnows, Known, base
    <2>2. QED
        BY <2>1
<1>11. ASSUME NEW i \in Nat, i \in T PROVE i + 1 \in T
    <2>1. SUFFICES ASSUME i + 1 <= n PROVE Known(i + 1)
        BY DEF T
    <2>2. Known(i)
        <3>1. i <= n
            BY <1>1, <2>1
        <3>2. QED
            BY <1>11, <3>1
    <2>3. s[i + 1] = step(s[i], i + 1)
        <3> HIDE DEF step
        <3>1. i + 1 \in 1 .. n /\ (i + 1) - 1 = i
            BY <1>1, <2>1
        <3>2. QED
            BY <1>9, <3>1
    <2>4. list[i + 1] \in Descriptors /\ rw[i + 1] \in RwResults
        BY <1>1, <2>1 DEF n
    <2>5. /\ s[i] \in UnmapStates
          /\ UnmapKnows(s[i], \A j \in 1 .. i : DescriptorFits(list[j]))
        BY <2>2 DEF Known
    <2>6. s[i + 1] \in UnmapStates
        BY <2>3, <2>4, <2>5, UnmapDescriptorType
    <2>7. UnmapKnows(s[i + 1], /\ \A j \in 1 .. i : DescriptorFits(list[j])
                               /\ DescriptorFits(list[i + 1]))
        BY <2>3, <2>4, <2>5, UnmapDescriptorKnows
    <2>8. (\A j \in 1 .. i : DescriptorFits(list[j])) /\ DescriptorFits(list[i + 1])
            => \A j \in 1 .. i + 1 : DescriptorFits(list[j])
        <3>1. \A j \in 1 .. i + 1 : j \in 1 .. i \/ j = i + 1
            OBVIOUS
        <3>2. QED
            BY <3>1
    <2>9. QED
        BY <2>6, <2>7, <2>8 DEF UnmapKnows, Known
<1> HIDE DEF T
<1>12. n \in T
    BY <1>1, <1>10, <1>11, Induct
<1>13. Known(n)
    <2>1. n <= n
        BY <1>1
    <2>2. QED
        BY <1>12, <2>1 DEF T
<1>14. QED
    BY <1>8, <1>13 DEF Known, n
\* An UNMAP that is answered without sense data had only descriptors that fit.
LEMMA UnmapAnswer ==
    ASSUME MAX_UNMAP_BLOCKS <= NBlocks, NEW cdb, IsCdb(cdb), cdb.cmd = "unmap",
           NEW other \in BOOLEAN, NEW r \in Send(cdb, other), r.sense = "none"
    PROVE  \A j \in 1 .. Len(cdb.list) : DescriptorFits(cdb.list[j])
<1>1. cdb.list \in Seq(Descriptors)
    BY DEF IsCdb, Descriptors
<1>2. PICK rw \in [1 .. Len(cdb.list) -> RwOf(cdb.cmd, other)] : r = Unmap(cdb.list, rw)
    BY DEF Send
<1>3. RwOf(cdb.cmd, other) \subseteq RwResults
    BY DEF RwOf, RwResults
<1>4. rw \in [1 .. Len(cdb.list) -> RwResults]
    BY <1>2, <1>3
<1> DEFINE end == UnmapLoop(cdb.list, rw)
<1>5. /\ end \in UnmapStates
      /\ UnmapKnows(end, \A j \in 1 .. Len(cdb.list) : DescriptorFits(cdb.list[j]))
    BY <1>1, <1>4, UnmapLoopKnows
<1>6. end.rc = "ok" /\ end.sense = "none"
    <2>1. /\ Sense(end.sense).sense = end.sense
          /\ Sense("conflict").sense = "conflict" /\ Sense("write_error").sense = "write_error"
          /\ [EmptySense EXCEPT !.sense = end.sense].sense = end.sense
        BY DEF Sense, EmptySense, AsIs
    <2>2. QED
        BY <1>2, <2>1 DEF Unmap
<1>7. QED
    BY <1>5, <1>6 DEF UnmapKnows, UnmapStates

\* A PDU that says that a command was carried out.
IsGood(q) == q.type = "scsi_resp" /\ q.status = "good"

\* An UNMAP in hand that asks for what it may not.
BadUnmap ==
    /\ pdu \in Requests /\ pdu.op = "scsi_cmd" /\ pdu.cdb.cmd = "unmap"
    /\ ~ \A j \in 1 .. Len(pdu.cdb.list) : DescriptorFits(pdu.cdb.list[j])

UnmapInv == BadUnmap => \A i \in 1 .. Len(out) : ~IsGood(out[i])

LEMMA UnmapInvStep ==
    ASSUME MAX_UNMAP_BLOCKS <= NBlocks
    PROVE  TypeInv /\ OutInv /\ StreamInv /\ UnmapInv /\ [Next]_vars => UnmapInv'
<1> SUFFICES ASSUME TypeInv, OutInv, StreamInv, UnmapInv, [Next]_vars, BadUnmap'
             PROVE  \A i \in 1 .. Len(out') : ~IsGood(out'[i])
    BY DEF UnmapInv, IsGood
<1>s. pc = "stream" => ~BadUnmap
    BY DEF StreamInv, BadUnmap
<1>e. ASSUME out' = <<>> PROVE \A i \in 1 .. Len(out') : ~IsGood(out'[i])
    BY <1>e
<1>k. ASSUME UNCHANGED <<pdu, out>> PROVE \A i \in 1 .. Len(out') : ~IsGood(out'[i])
    BY <1>k DEF UnmapInv, BadUnmap
<1>1. CASE Hangup \/ UNCHANGED vars
    BY <1>1, <1>k DEF Hangup, vars
<1>2. CASE \E p \in Requests : RecvHeader(p)
    BY <1>2, <1>e DEF RecvHeader
<1>3. CASE Receive
    BY <1>3, <1>k DEF Receive, RecvNothing, RecvAhs, RecvHeaderDigest, RecvData, Drain,
        RecvDataDigest, Dispatch
<1>4. CASE PushLogin \/ PushOther \/ PushDataOut
    BY <1>4 DEF BadUnmap, PushLogin, PushOther, PushDataOut
<1>5. CASE PushScsi
    <2>1. /\ pdu \in Requests /\ pdu.op = "scsi_cmd" /\ IsCdb(pdu.cdb) /\ BadUnmap
          /\ pdu.cdb.cmd = "unmap" /\ out = <<>>
        BY <1>5, RequestFacts DEF PushScsi, BadUnmap, IsScsiCmd, OutInv
    <2>2. PICK other \in BOOLEAN : \E r \in Send(pdu.cdb, other) :
            AnswerInline(r) \/ AnswerStatus(r) \/ AnswerR2T(r) \/ AnswerStream(r)
        BY <1>5 DEF PushScsi
    <2>3. PICK r \in Send(pdu.cdb, other) :
            AnswerInline(r) \/ AnswerStatus(r) \/ AnswerR2T(r) \/ AnswerStream(r)
        BY <2>2
    <2>4. r.sense # "none"
        BY <2>1, UnmapAnswer DEF BadUnmap
    <2>5. ~r.inline /\ r.type # "r2t" /\ r.n_sectors = 0
        <3>1. Send(pdu.cdb, other) =
                {Unmap(pdu.cdb.list, rw) : rw \in [1 .. Len(pdu.cdb.list) -> RwOf(pdu.cdb.cmd, other)]}
            BY <2>1 DEF Send
        <3>2. PICK rw : r = Unmap(pdu.cdb.list, rw)
            BY <3>1
        <3>3. PICK x : r = [EmptySense EXCEPT !.sense = x] \/ r = Sense(x)
            BY <3>2, UnmapForm
        <3>4. QED
            BY <3>3 DEF Sense, EmptySense, AsIs
    <2>6. AnswerStatus(r)
        BY <2>3, <2>5 DEF AnswerInline, AnswerR2T, AnswerStream
    <2> DEFINE a == ScsiResponse(pdu.tag, StatusOf(r.sense), NoResidual)
    <2>7. ~IsGood(a)
        BY <2>4 DEF IsGood, ScsiResponse, StatusOf
    <2>8. Emit(<<a>>)
        BY <2>4, <2>6 DEF AnswerStatus
    <2> HIDE DEF a
    <2>9. <<a>> \in Seq({a}) /\ Len(<<a>>) = 1 /\ <<a>>[1] = a
        OBVIOUS
    <2>10. out' \in {<<>>, <<a>>}
        BY <2>1, <2>8, <2>9, EmitFirst
    <2>11. QED
        BY <1>e, <2>7, <2>9, <2>10
<1>6. CASE StreamNothing \/ StreamPiece \/ StreamFails \/ StreamDone
    BY <1>s, <1>6 DEF BadUnmap, StreamNothing, StreamPiece, StreamFails, StreamDone
<1>7. CASE AnswerError \/ RejectPdu
    <2>1. PICK q : SendError(q) /\ ~IsGood(q)
        <3>1. CASE AnswerError
            BY <3>1 DEF AnswerError, ScsiResponse, IsGood
        <3>2. CASE RejectPdu
            BY <3>2 DEF RejectPdu, Reject, IsGood
        <3>3. QED
            BY <1>7, <3>1, <3>2
    <2>2. pdu' = pdu /\ out \in Seq(DataIns)
        BY <1>7 DEF AnswerError, RejectPdu, OutInv
    <2>3. out' \in {out, Append(out, q)}
        BY <2>1 DEF SendError
    <2>4. /\ Len(Append(out, q)) = Len(out) + 1 /\ Append(out, q)[Len(out) + 1] = q
          /\ \A i \in 1 .. Len(out) : Append(out, q)[i] = out[i]
        <3> DEFINE T == DataIns \cup {q}
        <3>1. out \in Seq(T) /\ q \in T
            BY <2>2
        <3> HIDE DEF T
        <3>2. QED
            BY <3>1
    <2>5. \A i \in 1 .. Len(out) : ~IsGood(out[i])
        BY <2>2 DEF UnmapInv, BadUnmap
    <2>6. Len(out) \in Nat
        BY <2>2
    <2>7. QED
        BY <2>1, <2>3, <2>4, <2>5, <2>6
<1>8. CASE SkipPdu \/ Count
    BY <1>8, <1>e DEF SkipPdu, Count, DeletePdu
<1>9. CASE Abort
    BY <1>9, <1>k DEF Abort
<1>10. QED
    BY <1>1, <1>2, <1>3, <1>4, <1>5, <1>6, <1>7, <1>8, <1>9 DEF Next, Thread, Push, Finish

\* An UNMAP of which a descriptor is out of range or too long is not answered
\* GOOD, whatever the number and the order of its descriptors and whatever
\* trim() returns for the others; on devices of at least MAX_UNMAP_BLOCKS
\* blocks (on a shorter one validate_request() lets descriptors through that
\* are longer than the device).
THEOREM BadUnmapsNotGood ==
    ASSUME MAX_UNMAP_BLOCKS <= NBlocks
    PROVE  Spec => []UnmapGood
<1>1. Init => UnmapInv
    BY DEF Init, UnmapInv, BadUnmap, NoPdu
<1>2. TypeInv /\ UnmapInv => UnmapGood
    <2>1. SUFFICES ASSUME TypeInv, UnmapInv, pdu # NoPdu, pdu.op = "scsi_cmd",
                          pdu.cdb.cmd = "unmap",
                          NEW i \in 1 .. Len(out), IsGood(out[i]),
                          NEW d \in ToSet(pdu.cdb.list)
                   PROVE  DescriptorFits(d)
        BY DEF UnmapGood, IsGood, DescriptorFits
    <2>2. pdu \in Requests /\ ~BadUnmap
        BY <2>1 DEF TypeInv, TypeOK, UnmapInv
    <2>3. \A j \in 1 .. Len(pdu.cdb.list) : DescriptorFits(pdu.cdb.list[j])
        BY <2>1, <2>2 DEF BadUnmap
    <2>4. pdu.cdb.list \in Seq(Descriptors)
        BY <2>1, <2>2, RequestFacts DEF IsScsiCmd, IsCdb, Descriptors
    <2>5. PICK j \in 1 .. Len(pdu.cdb.list) : d = pdu.cdb.list[j]
        BY <2>1, <2>4 DEF ToSet
    <2>6. QED
        BY <2>3, <2>5
<1>3. QED
    BY <1>1, <1>2, UnmapInvStep, TypeInvariant, OutInvariant, StreamInvariant, PTL DEF Spec
=============================================================================

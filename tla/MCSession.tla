------------------------------ MODULE MCSession ------------------------------
(* Instances of a session for TLC: blocks of 512 bytes. *)
EXTENDS Session

Fine == [ahs |-> "none", hgood |-> TRUE, dgood |-> TRUE, data |-> "none"]
WithData == [Fine EXCEPT !.data = "some"]

\* What can be odd about a PDU that is otherwise in order.
Oddities ==
    {[WithData EXCEPT !.ahs = "some"], [Fine EXCEPT !.ahs = "zero_length"], [Fine EXCEPT !.hgood = FALSE],
     [WithData EXCEPT !.dgood = FALSE], [Fine EXCEPT !.data = "oversized"]}

Cmd(t, cdb, edl) == [bhs |-> Fine, op |-> "scsi_cmd", tag |-> t, cdb |-> cdb, ExpDatLen |-> edl]

ReadCdb(lba, n) == [cmd |-> "read", lba |-> lba, n |-> n, protect |-> FALSE, size |-> 16]

\* Reads of which the initiator wants all, more, less, part of a block or
\* nothing; of the last block, beyond it, of more than there is, and of more
\* than there are numbers; and one of
\* so much that scsi_has wraps.
Reads ==
    {<<ReadCdb(1, 4), 2048>>, <<ReadCdb(1, 2), 1536>>, <<ReadCdb(2, 4), 1024>>, <<ReadCdb(0, 3), 700>>,
     <<ReadCdb(1, 2), 0>>, <<ReadCdb(15, 1), 512>>, <<ReadCdb(15, 2), 1024>>, <<ReadCdb(0, 0), 0>>,
     <<ReadCdb(0, 17), 1024>>, <<ReadCdb(1010, 17), 1024>>, <<ReadCdb(0, 16), 1024>>,
     <<[ReadCdb(1, 1) EXCEPT !.protect = TRUE], 512>>}

\* Commands with data of their own, or with none.
Others ==
    {<<[cmd |-> "inquiry", evpd |-> FALSE, page |-> 0, alloc |-> a], 255>> : a \in {0, 36}}
    \cup {<<[cmd |-> "inquiry", evpd |-> TRUE, page |-> 1, alloc |-> 255], 64>>}
    \cup {<<[cmd |-> "mode_sense_6"], d>> : d \in {0, 8}}
    \cup {<<[cmd |-> c], 0>> : c \in {"test_unit_ready", "sync_cache_10", "reserve_6", "release_6", "unknown"}}
    \cup {<<[cmd |-> c], 8>> : c \in {"read_capacity_10", "report_luns"}}
    \cup {<<[cmd |-> "rep_sup_oper", action |-> 12, options |-> 1, known |-> 10], 64>>,
          <<[cmd |-> "prefetch", lba |-> 16, n |-> 1], 0>>}
    \cup {<<[cmd |-> "get_lba_status", action |-> 18, lba |-> 16, alloc |-> 32], 32>>}
    \cup {<<[cmd |-> "compare_and_write", lba |-> 0, n |-> 1], 1024>>}
    \cup {<<[cmd |-> "unmap", list |-> << [lba |-> 16, n |-> 1], [lba |-> 2, n |-> 1] >>], 0>>}
    \cup {<<[cmd |-> "write", lba |-> 0, n |-> 2, imm |-> i], 1024>> : i \in {0, 1024}}
    \cup {<<[cmd |-> "write", lba |-> 0, n |-> 2, imm |-> 0], 2048>>}

Login(nsg, seg, hd, dd) ==
    [bhs |-> WithData, op |-> "login", tag |-> 0, CSG |-> 1, NSG |-> nsg,
     MaxRecvDataSegmentLength |-> seg, HeaderDigest |-> hd, DataDigest |-> dd]

Logins(segs) ==
    {Login(3, s, "absent", "absent") : s \in segs}
    \cup {Login(3, NoKey, "CRC32C", "CRC32C"), Login(3, NoKey, "None", "absent"),
          Login(1, NoKey, "CRC32C", "absent"), [Login(1, NoKey, "absent", "absent") EXCEPT !.bhs = Fine]}

Misc(t) ==
    {[bhs |-> Fine, op |-> o, tag |-> t] : o \in {"nop_out", "logout", "r2t", "unknown"}}
    \cup {[bhs |-> WithData, op |-> "text", tag |-> t, pairs |-> q, SendTargets |-> TRUE] : q \in BOOLEAN}
    \cup {[bhs |-> Fine, op |-> "taskman", tag |-> t, function |-> 5]}

DataOut(t) ==
    {[bhs |-> WithData, op |-> "data_out", tag |-> t, whole |-> w, F |-> f, completes |-> f] :
        w \in BOOLEAN, f \in BOOLEAN}
    \cup {[bhs |-> Fine, op |-> "data_out", tag |-> t, whole |-> TRUE, F |-> f, completes |-> FALSE] : f \in BOOLEAN}

Odd(t) ==
    {[bhs |-> b, op |-> "nop_out", tag |-> t] : b \in Oddities}
    \cup {[bhs |-> [Fine EXCEPT !.hgood = FALSE], op |-> "unknown", tag |-> t],
          [Login(3, NoKey, "absent", "absent") EXCEPT !.bhs.hgood = FALSE, !.bhs.dgood = FALSE]}

\* Segments of less than a block, but for empty ones, are left to session_segments.
SessionRequests ==
    {Cmd(1, c[1], c[2]) : c \in Reads} \cup {Cmd(0, ReadCdb(1, 2), 1024)} \cup {Cmd(0, c[1], c[2]) : c \in Others}
    \cup Logins({700, 0}) \cup Misc(0) \cup DataOut(0) \cup Odd(0)

SegmentRequests == {Cmd(1, ReadCdb(0, 3), 1536), Login(3, 256, "absent", "absent")}
=============================================================================

----------------------------- MODULE ScsiCommand -----------------------------
(***************************************************************************)
(* What scsi::send() answers to a CDB (scsi.cpp).  A response is the part  *)
(* of scsi_response that the iSCSI layer looks at: its type, which sense   *)
(* data it has, and inline data or a place to read from, by length.  The   *)
(* contents of INQUIRY pages and the like are left out, their lengths are  *)
(* not.  What the layers below return is a parameter.                      *)
(***************************************************************************)
EXTENDS Integers, SequencesExt

CONSTANTS
    NBlocks,           \* get_size_in_blocks()
    BlockSize,         \* get_block_size()
    SerialSize,        \* length of the serial number
    MAX_UNMAP_BLOCKS,  \* most blocks in a descriptor of UNMAP
    Uint64             \* modulus of uint64_t

ASSUME DeviceAssumption ==
    /\ NBlocks \in Nat /\ BlockSize \in Nat \ {0} /\ SerialSize \in Nat
    /\ MAX_UNMAP_BLOCKS \in Nat /\ Uint64 \in Nat /\ NBlocks < Uint64

\* What the fields of a CDB can hold: lba and n as get_lba_len() leaves them,
\* allocation lengths, the length of a CDB that scsi_a3_data knows, the
\* descriptors of an UNMAP.
IsCdb(cdb) ==
    /\ cdb.cmd \in STRING
    /\ cdb.cmd \in {"read", "write", "compare_and_write", "prefetch"} =>
          cdb.lba \in 0 .. Uint64 - 1 /\ cdb.n \in 0 .. Uint64 - 1
    /\ cdb.cmd \in {"inquiry", "get_lba_status"} => cdb.alloc \in Nat
    /\ cdb.cmd = "rep_sup_oper" => cdb.known \in Nat
    /\ cdb.cmd = "unmap" => cdb.list \in Seq([lba : 0 .. Uint64 - 1, n : 0 .. Uint64 - 1])

\* scsi_rw_result
RwResults == {"ok", "rw", "locked", "general", "mismatch"}

\* error_...()
SenseData ==
    {"conflict", "not_implemented", "write_error", "read_error", "count",
     "out_of_range", "miscompare", "invalid_field"}

Responses ==
    [type : {"as_is", "empty_sense", "r2t"}, sense : SenseData \cup {"none"},
     inline : BOOLEAN, len : Nat, lba : Nat, n_sectors : Nat]

AsIs == [type |-> "as_is", sense |-> "none", inline |-> FALSE, len |-> 0, lba |-> 0, n_sectors |-> 0]
EmptySense == [AsIs EXCEPT !.type = "empty_sense"]
Sense(s) == [AsIs EXCEPT !.sense = s]
Inline(n) == [AsIs EXCEPT !.inline = TRUE, !.len = n]
Stream(lba, n) == [AsIs EXCEPT !.lba = lba, !.n_sectors = n]

Least(a, b) == IF a <= b THEN a ELSE b

\* Mutant: the test that catches a sum that wraps is left out.
OutOfRangeUnwrapped(lba, n) == lba > (NBlocks - n) % Uint64

\* validate_request(lba, n_blocks, ...); both terms are uint64_t.
OutOfRange(lba, n) ==
    \/ lba > (NBlocks - n) % Uint64
    \/ (lba + n) % Uint64 < lba

\* The rest of validate_request() for a READ: RDPROTECT.  READ(6) and READ(12)
\* are not looked at.
Protected(cdb) == cdb.protect /\ cdb.size \in {10, 16}

TestUnitReady == EmptySense

ModeSense6(other) == IF other THEN Sense("conflict") ELSE Inline(4)

PageLength(page) ==
    CASE page = 0 -> 9
      [] page = 128 -> 4 + SerialSize
      [] page = 131 -> 8 + SerialSize
      [] page \in {176, 177, 178} -> 64

\* Data is cut off at the allocation length, to nothing if that is 0.
Inquiry(cdb) ==
    IF cdb.evpd
    THEN IF cdb.page \in {0, 128, 131, 176, 177, 178}
         THEN Inline(Least(PageLength(cdb.page), cdb.alloc))
         ELSE Sense("invalid_field")
    ELSE IF cdb.page = 0 THEN Inline(Least(68, cdb.alloc)) ELSE Sense("invalid_field")

ReadCapacity10 == Inline(8)

\* Service actions READ CAPACITY(16) and GET LBA STATUS.
GetLbaStatus(cdb) ==
    CASE cdb.action = 16 -> IF cdb.alloc = 0 THEN EmptySense ELSE Inline(Least(32, cdb.alloc))
      [] cdb.action = 18 -> IF cdb.lba >= NBlocks THEN Sense("out_of_range") ELSE Inline(24)
      [] cdb.action \notin {16, 18} -> Sense("not_implemented")

Read(cdb) ==
    IF OutOfRange(cdb.lba, cdb.n) THEN Sense("out_of_range")
    ELSE IF Protected(cdb) THEN Sense("invalid_field")
    ELSE IF cdb.n = 0 THEN EmptySense
    ELSE Stream(cdb.lba, cdb.n)

\* What sync() returns is not looked at.
SyncCache(rw) == EmptySense

ReportLuns == Inline(16)

\* scsi_a3_data: 24 commands, with CDBs of 6 to 16 bytes.
ReportSupportedOperationCodes(cdb) ==
    CASE cdb.action = 12 /\ cdb.options = 0 -> Inline(4 + 8 * 24)
      [] cdb.action = 12 /\ cdb.options = 1 /\ cdb.known > 0 -> Inline(4 + cdb.known)
      [] OTHER -> Sense("not_implemented")

CompareAndWrite(cdb, rw) ==
    IF OutOfRange(cdb.lba, cdb.n) THEN Sense("out_of_range")
    ELSE IF cdb.n > 1 THEN Sense("count")
    ELSE CASE rw = "ok" -> EmptySense
           [] rw = "locked" -> Sense("conflict")
           [] rw = "mismatch" -> Sense("miscompare")
           [] rw = "rw" -> Sense("write_error")
           [] rw = "general" -> AsIs

Prefetch(cdb) == IF OutOfRange(cdb.lba, cdb.n) THEN Sense("out_of_range") ELSE EmptySense

Reserve(other) == IF other THEN Sense("conflict") ELSE EmptySense

Release == EmptySense

\* Mutant: a descriptor that is refused only sets rc.
UnmapDescriptorForgets(s, d, rw) ==
    IF s.failed THEN s
    ELSE IF OutOfRange(d.lba, d.n) \/ d.n > MAX_UNMAP_BLOCKS THEN [s EXCEPT !.rc = "general"]
    ELSE IF d.n > 0 THEN [s EXCEPT !.rc = rw, !.failed = rw # "ok"]
    ELSE s

\* A descriptor that is refused does not stop the loop, a trim that fails does.
UnmapDescriptor(s, d, rw) ==
    IF s.failed THEN s
    ELSE IF OutOfRange(d.lba, d.n) \/ d.n > MAX_UNMAP_BLOCKS
         THEN [s EXCEPT !.rc = "general", !.sense = "out_of_range"]
    ELSE IF d.n > 0 THEN [s EXCEPT !.rc = rw, !.failed = rw # "ok"]
    ELSE s

\* rw[i] is what trim() returns for descriptor i, s[i] what is known after it.
UnmapLoop(list, rw) ==
    LET s[i \in 0 .. Len(list)] ==
            IF i = 0 THEN [rc |-> "ok", sense |-> "none", failed |-> FALSE]
            ELSE UnmapDescriptor(s[i - 1], list[i], rw[i])
    IN s[Len(list)]

Unmap(list, rw) ==
    LET end == UnmapLoop(list, rw)
    IN IF end.rc = "ok" THEN [EmptySense EXCEPT !.sense = end.sense]
       ELSE IF end.sense # "none" THEN Sense(end.sense)
       ELSE IF end.rc = "locked" THEN Sense("conflict")
       ELSE Sense("write_error")

\* WRITE and WRITE SAME, whose details are in WriteTask: carried out, refused,
\* to be continued with R2T, or (a backend failure) nothing at all.
Write(cdb, rw) ==
    IF OutOfRange(cdb.lba, cdb.n) THEN Sense("out_of_range")
    ELSE IF cdb.imm = 0 THEN IF cdb.n = 0 THEN EmptySense ELSE [AsIs EXCEPT !.type = "r2t"]
    ELSE CASE rw = "ok" -> IF cdb.imm = cdb.n * BlockSize THEN EmptySense ELSE [AsIs EXCEPT !.type = "r2t"]
           [] rw = "locked" -> Sense("conflict")
           [] rw = "rw" -> Sense("write_error")
           [] rw \in {"general", "mismatch"} -> AsIs

NotImplemented == Sense("not_implemented")

\* What scsi::write, trim, read and sync return, with and without a
\* reservation of another session; cmpwrite() also "rw" and "mismatch".
RwOf(cmd, other) ==
    IF other THEN {"locked"}
    ELSE IF cmd = "compare_and_write" THEN {"ok", "rw", "mismatch"}
    ELSE {"ok", "general"}

\* send(): the responses that are possible.
Send(cdb, other) ==
    LET rw == RwOf(cdb.cmd, other) IN
    CASE cdb.cmd = "test_unit_ready" -> {TestUnitReady}
      [] cdb.cmd = "mode_sense_6" -> {ModeSense6(other)}
      [] cdb.cmd = "inquiry" -> {Inquiry(cdb)}
      [] cdb.cmd = "read_capacity_10" -> {ReadCapacity10}
      [] cdb.cmd = "get_lba_status" -> {GetLbaStatus(cdb)}
      [] cdb.cmd = "write" -> {Write(cdb, r) : r \in rw}
      [] cdb.cmd = "read" -> {Read(cdb)}
      [] cdb.cmd = "sync_cache_10" -> {SyncCache(r) : r \in rw}
      [] cdb.cmd = "report_luns" -> {ReportLuns}
      [] cdb.cmd = "rep_sup_oper" -> {ReportSupportedOperationCodes(cdb)}
      [] cdb.cmd = "compare_and_write" -> {CompareAndWrite(cdb, r) : r \in rw}
      [] cdb.cmd = "prefetch" -> {Prefetch(cdb)}
      [] cdb.cmd = "reserve_6" -> {Reserve(other)}
      [] cdb.cmd = "release_6" -> {Release}
      [] cdb.cmd = "unmap" -> {Unmap(cdb.list, r) : r \in [1 .. Len(cdb.list) -> rw]}
      [] OTHER -> {NotImplemented}
=============================================================================

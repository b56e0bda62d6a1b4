------------------------------ MODULE WriteTask ------------------------------
(***************************************************************************)
(* A WRITE or WRITE SAME command from PDU to disk: scsi::write_verify and  *)
(* write_same, the R2T sessions of session.cpp, the DATA-OUT half of       *)
(* server::push_response and the error answers of server::handler.  One    *)
(* session: the target's thread handles a PDU at a time; the initiator     *)
(* keeps the protocol and may have a command outstanding per task tag.     *)
(* TCP gives a FIFO in each direction.  Data is counted in units, with     *)
(* BlockSize units in a block, so immediate data can end inside a block.   *)
(***************************************************************************)
EXTENDS Sums

CONSTANTS
    Tags,         \* initiator task tags; the TTT of an R2T is the ITT
    NBlocks,      \* get_size_in_blocks()
    BlockSize,    \* get_block_size()
    MAX_WS_LEN,   \* most blocks in a WRITE SAME
    Commands,     \* commands the initiator sends
    Pieces,       \* lengths of DATA-OUT PDUs
    MaxCommands,  \* bound: commands sent in a behaviour
    ReuseTags,    \* may a tag be used again after its task has ended?
    Outcomes,     \* how calls of the layers below may end
    Uint32,       \* modulus of uint32_t
    None

\* imm: length of the immediate data; edl: ExpectedDataTransferLength.
CommandRecords ==
    [op : {"write", "write_same"}, lba : Nat, tl : Nat, edl : Nat, imm : Nat,
     fua : BOOLEAN, unmap : BOOLEAN]

ASSUME GeometryAssumption ==
    /\ NBlocks \in Nat /\ BlockSize \in Nat \ {0, 1} /\ MAX_WS_LEN \in Nat
    /\ MaxCommands \in Nat /\ ReuseTags \in BOOLEAN /\ Pieces \subseteq Nat \ {0}

ASSUME OutcomesAssumption == Outcomes \subseteq {"ok", "fail", "locked"} /\ "ok" \in Outcomes

\* Immediate data is part of what the initiator announces, and the data of
\* WRITE SAME is one block.  Commands for more blocks than the device has, for
\* which validate_request() goes wrong, are left to ScsiCommand.
ASSUME CommandsAssumption ==
    /\ Commands \subseteq CommandRecords
    /\ \A c \in Commands :
        /\ c.imm <= c.edl /\ c.tl <= NBlocks
        /\ c.op = "write_same" => c.edl = BlockSize

ASSUME Uint32Assumption ==
    Uint32 \in Nat /\ \A c \in Commands : c.tl * BlockSize < Uint32

ASSUME NoneAssumption ==
    None \notin [cmd : Commands, done : Nat, left : Nat] \cup [cmd : Commands, val : Nat]

VARIABLES
    disk,       \* unit -> serial number of the command that wrote it, 0 if none
    r2t,        \* tag -> r2t_session, or None: session::r2t_sessions
    to_target,  \* PDUs on their way to the target
    to_init,    \* PDUs on their way to the initiator
    task,       \* tag -> the initiator's outstanding command, or None
    burst,      \* tag -> what the initiator still has to send for an R2T
    issued,     \* commands sent so far
    used,       \* tags used so far
    allowed,    \* unit -> serial numbers that a read may return
    lost        \* history: tags whose task lost data in a place that Loses() lists

target == <<disk, r2t>>
initiator == <<task, burst, issued, used, allowed>>
vars == <<disk, r2t, to_target, to_init, task, burst, issued, used, allowed, lost>>

Least(a, b) == IF a <= b THEN a ELSE b

Units == 0 .. NBlocks * BlockSize - 1

\* n units from an offset in a block range.
Span(lba, offset, n) == (lba * BlockSize + offset) .. (lba * BlockSize + offset + n - 1)

\* The blocks a command is for; TL=0 means "to the end" for WRITE SAME.
NBlocksOf(c) == IF c.op = "write_same" /\ c.tl = 0 THEN NBlocks - c.lba ELSE c.tl

UnitsOf(c) == Span(c.lba, 0, NBlocksOf(c) * BlockSize)

\* Mutant: all of the immediate data, however much that is.
ImmediateLenAll(c) == c.imm

\* What of the immediate data of a WRITE is written: whole blocks up to the
\* CDB's length, and a fragment of a block after those, even if that block is
\* after the range.
ImmediateLen(c) == IF c.imm < (c.tl + 1) * BlockSize THEN c.imm ELSE c.tl * BlockSize

\* The range with the fragment that may come after it.
Reach(c) == UnitsOf(c) \cup Span(c.lba, 0, IF c.op = "write" THEN ImmediateLen(c) ELSE 0)

\* A WRITE whose lengths differ, and with data that is yet to come: the rest is
\* never asked for and never written, and yet the answer is GOOD.
CutShort(c) ==
    c.op = "write" /\ c.tl * BlockSize # c.edl /\ c.imm < c.tl * BlockSize

Written(units, val) == [u \in Units |-> IF u \in units THEN val ELSE disk[u]]

NoBurst == [off |-> 0, len |-> 0]

Init ==
    /\ disk = [u \in Units |-> 0]
    /\ r2t = [t \in Tags |-> None]
    /\ to_target = <<>> /\ to_init = <<>>
    /\ task = [t \in Tags |-> None]
    /\ burst = [t \in Tags |-> NoBurst]
    /\ issued = <<>>
    /\ used = {}
    /\ allowed = [u \in Units |-> {0}]
    /\ lost = {}

-----------------------------------------------------------------------------
(* The initiator. *)

\* It has no two commands outstanding for the same block.
Issue(t, c) ==
    /\ Len(issued) < MaxCommands
    /\ task[t] = None /\ (ReuseTags \/ t \notin used)
    /\ \A s \in Tags : task[s] # None => Reach(task[s].cmd) \cap Reach(c) = {}
    /\ issued' = Append(issued, c)
    /\ used' = used \cup {t}
    /\ task' = [task EXCEPT ![t] = [cmd |-> c, val |-> IF c.unmap THEN 0 ELSE Len(issued')]]
    /\ allowed' = [u \in Units |->
                     IF u \in Reach(c) THEN allowed[u] \cup {task'[t].val} ELSE allowed[u]]
    /\ to_target' = Append(to_target, [type |-> "cmd", tag |-> t, cmd |-> c, val |-> task'[t].val])
    /\ lost' = lost \ {t}
    /\ UNCHANGED <<target, to_init, burst>>

\* DATA-OUT with n units of what was asked for; the last one has the F bit.
SendData(t, n) ==
    /\ n <= burst[t].len
    /\ to_target' = Append(to_target,
           [type |-> "data", tag |-> t, off |-> burst[t].off, len |-> n,
            F |-> burst[t].len = n, val |-> task[t].val])
    /\ burst' = [burst EXCEPT ![t] = [off |-> @.off + n, len |-> @.len - n]]
    /\ UNCHANGED <<target, to_init, task, issued, used, allowed, lost>>

\* An R2T is followed, a response ends the task.  What is for no task is dropped.
\* GOOD promises that the blocks can be read back, with two exceptions: lost data
\* and a WRITE that is cut short.
Receive ==
    /\ to_init # <<>>
    /\ to_init' = Tail(to_init)
    /\ LET m == Head(to_init) IN
       \/ /\ task[m.tag] = None
          /\ UNCHANGED <<task, burst, allowed>>
       \/ /\ task[m.tag] # None /\ m.type = "r2t"
          /\ burst' = [burst EXCEPT ![m.tag] = [off |-> m.off, len |-> m.len]]
          /\ UNCHANGED <<task, allowed>>
       \/ /\ task[m.tag] # None /\ m.type = "resp"
          /\ task' = [task EXCEPT ![m.tag] = None]
          /\ burst' = [burst EXCEPT ![m.tag] = NoBurst]
          /\ allowed' = [u \in Units |->
                IF /\ m.status = "good" /\ m.tag \notin lost /\ ~CutShort(task[m.tag].cmd)
                   /\ u \in UnitsOf(task[m.tag].cmd)
                THEN {task[m.tag].val} ELSE allowed[u]]
    /\ UNCHANGED <<target, to_target, issued, used, lost>>

-----------------------------------------------------------------------------
(* The target. *)

Resp(t, status) == [type |-> "resp", tag |-> t, status |-> status]
R2T(t, offset, length) == [type |-> "r2t", tag |-> t, off |-> offset, len |-> length]

Reply(pdus) == to_init' = to_init \o pdus

\* validate_request(); the flags of the CDB that it refuses are left out.
Invalid(c) ==
    \/ c.lba > NBlocks - c.tl
    \/ c.op = "write_same" /\ c.tl > MAX_WS_LEN

\* Mutant: nothing is answered when the lengths differ.
StartR2TSilent(t, c, done, left) ==
    \/ /\ c.tl * BlockSize # c.edl
       /\ UNCHANGED <<r2t, to_init>>
    \/ /\ c.tl * BlockSize = c.edl
       /\ r2t' = IF r2t[t] # None THEN r2t
                 ELSE [r2t EXCEPT ![t] = [cmd |-> c, done |-> done, left |-> left]]
       /\ Reply(<<R2T(t, done, left)>>)

\* ir_r2t: when the lengths differ nothing is asked for, and the answer, which
\* has a residual but no sense data, is GOOD.  Otherwise note the transfer under
\* its tag (a tag that is already there keeps its old entry) and ask for the rest.
StartR2T(t, c, done, left) ==
    \/ /\ c.tl * BlockSize # c.edl
       /\ Reply(<<Resp(t, "good")>>)
       /\ UNCHANGED r2t
    \/ /\ c.tl * BlockSize = c.edl
       /\ r2t' = IF r2t[t] # None THEN r2t
                 ELSE [r2t EXCEPT ![t] = [cmd |-> c, done |-> done, left |-> left]]
       /\ Reply(<<R2T(t, done, left)>>)

\* Mutant: the operands swapped.
BytesLeftSwapped(c, blocks) == IF blocks <= c.tl THEN (blocks - c.tl) * BlockSize ELSE 0

\* r2t.bytes_left after so many whole blocks of immediate data.
BytesLeft(c, blocks) == IF blocks <= c.tl THEN (c.tl - blocks) * BlockSize ELSE 0

\* write_verify() of what came with the command: whole blocks in one write,
\* then a trailing fragment by reading, patching and writing its block, which
\* fails when there is none.  A write that is refused or fails leaves a part
\* behind; a failure is answered only when it is a reservation conflict.
WriteImmediate(t, c, val, o) ==
    LET blocks == c.imm \div BlockSize
        len == ImmediateLen(c)
    IN \/ /\ o = "ok" /\ c.lba * BlockSize + len <= NBlocks * BlockSize
          /\ disk' = Written(Span(c.lba, 0, len), val)
          /\ \/ /\ c.imm = c.tl * BlockSize
                /\ Reply(<<Resp(t, "good")>>)  \* after sync() for FUA, its result unused
                /\ UNCHANGED r2t
             \/ /\ c.imm # c.tl * BlockSize
                /\ StartR2T(t, c, blocks * BlockSize, BytesLeft(c, blocks))
       \/ /\ o = "locked"
          /\ \E n \in {0, Least(c.tl, blocks) * BlockSize} :
               (n = 0 \/ n # len) /\ disk' = Written(Span(c.lba, 0, n), val)
          /\ Reply(<<Resp(t, "conflict")>>)
          /\ UNCHANGED r2t
       \/ /\ o = "fail"
          /\ \E n \in 0 .. len - 1 : disk' = Written(Span(c.lba, 0, n), val)
          /\ UNCHANGED <<r2t, to_init>>

WriteVerify(t, c, val, o) ==
    \/ /\ Invalid(c)
       /\ Reply(<<Resp(t, "check")>>)
       /\ UNCHANGED target
    \/ /\ ~Invalid(c) /\ c.imm > 0
       /\ WriteImmediate(t, c, val, o)
    \/ /\ ~Invalid(c) /\ c.imm = 0 /\ c.tl > 0
       /\ StartR2T(t, c, 0, c.tl * BlockSize)
       /\ UNCHANGED disk
    \/ /\ ~Invalid(c) /\ c.imm = 0 /\ c.tl = 0
       /\ Reply(<<Resp(t, "good")>>)
       /\ UNCHANGED target

\* write_same() with its block: written (or trimmed) block by block until one
\* fails.  Only a reservation conflict is noticed, other failures are GOOD.
SameImmediate(t, c, val, o) ==
    \/ /\ c.imm \div BlockSize # 1  \* not answered at all
       /\ UNCHANGED <<target, to_init>>
    \/ /\ c.imm \div BlockSize = 1 /\ NBlocksOf(c) > MAX_WS_LEN
       /\ Reply(<<Resp(t, "check")>>)
       /\ UNCHANGED target
    \/ /\ c.imm \div BlockSize = 1 /\ NBlocksOf(c) <= MAX_WS_LEN
       /\ UNCHANGED r2t
       /\ \E n \in 0 .. NBlocksOf(c) :
            /\ o = "ok" <=> n = NBlocksOf(c)
            /\ disk' = Written(Span(c.lba, 0, n * BlockSize), val)
       /\ Reply(<<Resp(t, IF o = "locked" THEN "conflict" ELSE "good")>>)

WriteSame(t, c, val, o) ==
    \/ /\ Invalid(c)
       /\ Reply(<<Resp(t, "check")>>)
       /\ UNCHANGED target
    \/ /\ ~Invalid(c) /\ c.imm > 0
       /\ SameImmediate(t, c, val, o)
    \/ /\ ~Invalid(c) /\ c.imm = 0 /\ c.tl = BlockSize
       /\ StartR2T(t, c, 0, 0)
       /\ UNCHANGED disk
    \/ /\ ~Invalid(c) /\ c.imm = 0 /\ c.tl # BlockSize
       /\ Reply(<<Resp(t, "good")>>)
       /\ UNCHANGED target

HandleCommand(m, o) ==
    /\ m.type = "cmd"
    /\ \/ m.cmd.op = "write" /\ WriteVerify(m.tag, m.cmd, m.val, o)
       \/ m.cmd.op = "write_same" /\ WriteSame(m.tag, m.cmd, m.val, o)

\* A DATA-OUT for no transfer, or not in whole blocks: no reject PDU can be
\* made of it, so it is only dropped.
Droppable(m) == r2t[m.tag] = None \/ m.off % BlockSize # 0 \/ m.len % BlockSize # 0

DropData(m) ==
    /\ m.type = "data" /\ Droppable(m)
    /\ UNCHANGED <<target, to_init>>

\* Mutant: BufferOffset is not taken into account.
DataSpanNoOffset(m, n) == Span(r2t[m.tag].cmd.lba, 0, n)

\* Where the first n units of a DATA-OUT go: buffer_lba + offset / block_size.
DataSpan(m, n) == Span(r2t[m.tag].cmd.lba, m.off, n)

\* IFR_IO_ERROR: the transfer stays registered.
DataFailed(m, o) ==
    /\ m.type = "data" /\ ~Droppable(m)
    /\ \/ \* the write is refused, or fails halfway
          \/ o = "locked" /\ UNCHANGED disk
          \/ /\ o = "fail"
             /\ \E n \in 0 .. m.len - 1 : disk' = Written(DataSpan(m, n), m.val)
       \/ \* FUA: s->sync() == false, and rw_ok is 0
          /\ o = "ok" /\ r2t[m.tag].cmd.fua
          /\ disk' = Written(DataSpan(m, m.len), m.val)
    /\ Reply(<<Resp(m.tag, "io_error")>>)
    /\ UNCHANGED r2t

\* Mutant: remove_r2t_session() left out.
EndOfTaskKept(t) ==
    /\ UNCHANGED r2t
    /\ Reply(<<Resp(t, "good")>>)

\* Mutant: asks for everything again instead of ending the task.
EndOfTaskAsksAgain(t) ==
    /\ r2t' = [r2t EXCEPT ![t].done = 0, ![t].left = r2t[t].cmd.tl * BlockSize]
    /\ Reply(<<R2T(t, 0, r2t[t].cmd.tl * BlockSize)>>)

EndOfTask(t) ==
    /\ r2t' = [r2t EXCEPT ![t] = None]
    /\ Reply(<<Resp(t, "good")>>)

\* With the F bit the task is answered; if data is missing an R2T follows.
DataWritten(m, o) ==
    LET s == r2t[m.tag]
        done == (s.done + m.len) % Uint32
        left == (s.left - m.len) % Uint32
    IN
    /\ m.type = "data" /\ ~Droppable(m)
    /\ o = IF s.cmd.fua THEN "fail" ELSE "ok"  \* for FUA it is the sync that must fail
    /\ disk' = Written(DataSpan(m, m.len), m.val)
    /\ \/ /\ m.F /\ left = 0
          /\ EndOfTask(m.tag)
       \/ /\ m.F /\ left # 0
          /\ r2t' = [r2t EXCEPT ![m.tag].done = done, ![m.tag].left = left]
          /\ Reply(<<Resp(m.tag, "good"), R2T(m.tag, done, left)>>)
       \/ /\ ~m.F
          /\ r2t' = [r2t EXCEPT ![m.tag].done = done, ![m.tag].left = left]
          /\ UNCHANGED to_init

\* Where data of a task is lost without the initiator being told: immediate
\* data that the backend fails to write, WRITE SAME without its block, and
\* DATA-OUT that is dropped.
Loses(m, o) ==
    \/ m.type = "cmd" /\ m.cmd.imm > 0 /\ o = "fail"
    \/ m.type = "cmd" /\ m.cmd.op = "write_same" /\ m.cmd.imm \div BlockSize # 1
    \/ m.type = "data" /\ Droppable(m)

\* o: how the calls of the layers below end.
Handle ==
    /\ to_target # <<>>
    /\ to_target' = Tail(to_target)
    /\ LET m == Head(to_target) IN
       \E o \in Outcomes :
         /\ HandleCommand(m, o) \/ DropData(m) \/ DataFailed(m, o) \/ DataWritten(m, o)
         /\ lost' = IF Loses(m, o) THEN lost \cup {m.tag} ELSE lost
    /\ UNCHANGED initiator

-----------------------------------------------------------------------------

Send(t) == \E n \in Pieces : SendData(t, n)

Next ==
    \/ Handle
    \/ Receive
    \/ \E t \in Tags : Send(t) \/ \E c \in Commands : Issue(t, c)

Spec == Init /\ [][Next]_vars

\* The connection stays up and delivers, the session thread is scheduled, and
\* the initiator reads and follows R2Ts.  Nothing makes it send commands.
FairSpec == Spec /\ WF_vars(Handle) /\ WF_vars(Receive) /\ \A t \in Tags : WF_vars(Send(t))

-----------------------------------------------------------------------------

ElementsOf(s) == {s[i] : i \in 1 .. Len(s)}

Messages ==
    [type : {"cmd"}, tag : Tags, cmd : Commands, val : Nat]
    \cup [type : {"data"}, tag : Tags, off : Nat, len : Nat, F : BOOLEAN, val : Nat]
    \cup [type : {"resp"}, tag : Tags, status : {"good", "conflict", "check", "io_error"}]
    \cup [type : {"r2t"}, tag : Tags, off : Nat, len : Nat]

\* Every variable has its type.
TypeOK ==
    /\ disk \in [Units -> Nat]
    /\ r2t \in [Tags -> [cmd : Commands, done : Nat, left : Nat] \cup {None}]
    /\ ElementsOf(to_target) \cup ElementsOf(to_init) \subseteq Messages
    /\ task \in [Tags -> [cmd : Commands, val : Nat] \cup {None}]
    /\ burst \in [Tags -> [off : Nat, len : Nat]]
    /\ issued \in Seq(Commands) /\ Len(issued) <= MaxCommands
    /\ used \subseteq Tags
    /\ allowed \in [Units -> SUBSET (0 .. MaxCommands)] /\ lost \subseteq Tags

\* "what is written, is readable later on": every unit holds what the last
\* command for it that was answered GOOD has written there, or what a command
\* that is outstanding, was cut short, has failed since then or lost data was to
\* write.
WrittenIsReadable == \A u \in Units : disk[u] \in allowed[u]

\* Nothing is ever written outside the blocks of its command, but for less than
\* a block of immediate data that is too long: not by a retried or a failing
\* transfer, nor by one whose DATA-OUTs are dropped.
StaysInRange ==
    \A u \in Units : disk[u] # 0 =>
        LET c == issued[disk[u]]
            end == (c.lba + NBlocksOf(c)) * BlockSize
        IN u >= c.lba * BlockSize /\ (u < end \/ (u < end + BlockSize - 1 /\ c.imm > c.tl * BlockSize))

\* Units of t's transfer that are on their way in a queue.
InFlight(t, q, type) ==
    Total([i \in 1 .. Len(q) |-> IF q[i].type = type /\ q[i].tag = t THEN q[i].len ELSE 0])

\* A transfer is registered only while its task is outstanding, so a tag that
\* is used again starts afresh; and bytes_left is exactly what the initiator
\* was asked for and the target has not seen yet.
SessionsMatchTasks ==
    \A t \in Tags : r2t[t] # None =>
        /\ task[t] # None /\ task[t].cmd = r2t[t].cmd
        /\ r2t[t].done + r2t[t].left = r2t[t].cmd.tl * BlockSize
        /\ r2t[t].left =
              burst[t].len + InFlight(t, to_target, "data") + InFlight(t, to_init, "r2t")

\* For every outstanding task something is still to come that can end it: the
\* command, the last DATA-OUT, or a PDU of the target; unless data was lost.
TaskNotForgotten ==
    \A t \in Tags : task[t] # None /\ t \notin lost =>
        \/ \E m \in ElementsOf(to_target) : m.tag = t /\ (m.type = "cmd" \/ m.F)
        \/ \E m \in ElementsOf(to_init) : m.tag = t
        \/ burst[t].len > 0

\* Every command is answered, however many others are under way.
EveryTaskAnswered == \A t \in Tags : task[t] # None ~> task[t] = None
=============================================================================

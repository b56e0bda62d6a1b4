--------------------------- MODULE WriteTaskProofs ---------------------------
(***************************************************************************)
(* Proofs about WRITE commands, for any commands, tags, lengths of         *)
(* DATA-OUTs and failures of the layers below.                             *)
(***************************************************************************)
EXTENDS WriteTask, InductionLemmas, SequenceTheorems, TLAPS

-----------------------------------------------------------------------------
(* Spans of units, and what is written. *)

LEMMA CommandFacts ==
    ASSUME NEW c \in Commands
    PROVE  /\ c.op \in {"write", "write_same"} /\ c.lba \in Nat /\ c.tl \in Nat /\ c.edl \in Nat
           /\ c.imm \in Nat /\ c.fua \in BOOLEAN /\ c.unmap \in BOOLEAN
           /\ c.imm <= c.edl /\ c.tl <= NBlocks
           /\ c.op = "write_same" => c.edl = BlockSize
BY CommandsAssumption DEF CommandRecords

LEMMA Geometry == NBlocks \in Nat /\ BlockSize \in Nat /\ BlockSize > 1 /\ NBlocks * BlockSize \in Nat
BY GeometryAssumption

LEMMA SpanPart ==
    ASSUME NEW lba \in Nat, NEW off \in Nat, NEW n \in Nat, NEW k \in Nat, off + n <= k
    PROVE  Span(lba, off, n) \subseteq Span(lba, 0, k)
<1>1. lba * BlockSize \in Nat
    BY Geometry
<1>2. QED
    BY <1>1 DEF Span

LEMMA SpanSplit ==
    ASSUME NEW lba \in Nat, NEW k \in Nat, NEW n \in Nat, NEW u \in Span(lba, 0, k + n),
           u \notin Span(lba, k, n)
    PROVE  u \in Span(lba, 0, k)
<1>1. lba * BlockSize \in Nat
    BY Geometry
<1>2. \A a \in Nat : u \in a + 0 .. a + 0 + (k + n) - 1 /\ u \notin a + k .. a + k + n - 1 =>
                      u \in a + 0 .. a + 0 + k - 1
    OBVIOUS
<1>3. QED
    BY <1>1, <1>2 DEF Span

LEMMA WrittenFacts ==
    ASSUME disk \in [Units -> Nat], NEW W, NEW v \in Nat
    PROVE  /\ Written(W, v) \in [Units -> Nat]
           /\ \A u \in Units : Written(W, v)[u] = IF u \in W THEN v ELSE disk[u]
BY DEF Written

LEMMA NothingWritten ==
    ASSUME disk \in [Units -> Nat], NEW v \in Nat PROVE Written({}, v) = disk
BY DEF Written

-----------------------------------------------------------------------------
(* Types. *)

Statuses == {"good", "conflict", "check", "io_error"}

\* What each side may find in its queue.  An R2T always asks for something.
ToTarget ==
    [type : {"cmd"}, tag : Tags, cmd : Commands, val : 0 .. MaxCommands]
    \cup [type : {"data"}, tag : Tags, off : Nat, len : Nat, F : BOOLEAN, val : 0 .. MaxCommands]

ToInit ==
    [type : {"resp"}, tag : Tags, status : Statuses]
    \cup [type : {"r2t"}, tag : Tags, off : Nat, len : Nat \ {0}]

TypeInv ==
    /\ disk \in [Units -> Nat]
    /\ r2t \in [Tags -> [cmd : Commands, done : Nat, left : Nat] \cup {None}]
    /\ to_target \in Seq(ToTarget)
    /\ to_init \in Seq(ToInit)
    /\ task \in [Tags -> [cmd : Commands, val : 0 .. MaxCommands] \cup {None}]
    /\ burst \in [Tags -> [off : Nat, len : Nat]]
    /\ issued \in Seq(Commands) /\ Len(issued) <= MaxCommands
    /\ used \subseteq Tags
    /\ allowed \in [Units -> SUBSET (0 .. MaxCommands)] /\ lost \subseteq Tags
    /\ \A t \in Tags : task[t] = None => burst[t].len = 0

LEMMA TypeInvInit == Init => TypeInv
<1> SUFFICES ASSUME Init PROVE TypeInv
    OBVIOUS
<1>1. /\ disk \in [Units -> Nat]
      /\ r2t \in [Tags -> [cmd : Commands, done : Nat, left : Nat] \cup {None}]
      /\ task \in [Tags -> [cmd : Commands, val : 0 .. MaxCommands] \cup {None}]
      /\ allowed \in [Units -> SUBSET (0 .. MaxCommands)]
    BY GeometryAssumption DEF Init
<1>2. burst \in [Tags -> [off : Nat, len : Nat]] /\ \A t \in Tags : burst[t].len = 0
    BY DEF Init, NoBurst
<1>3. to_target \in Seq(ToTarget) /\ to_init \in Seq(ToInit) /\ issued \in Seq(Commands)
      /\ Len(issued) <= MaxCommands
    BY GeometryAssumption DEF Init
<1>4. QED
    BY <1>1, <1>2, <1>3 DEF Init, TypeInv

-----------------------------------------------------------------------------
(* What the target does with a command, in terms of what it writes and sends. *)

\* It answers with a status, ...
Answers(m, o, W) ==
    /\ r2t' = r2t
    /\ \E status \in Statuses :
         /\ to_init' = to_init \o <<Resp(m.tag, status)>>
         /\ status = "good" /\ ~Loses(m, o) /\ ~CutShort(m.cmd) => UnitsOf(m.cmd) \subseteq W

\* ... or asks for the rest, ...
Continues(m, W) ==
    /\ m.cmd.op = "write" /\ ~Invalid(m.cmd)
    /\ \E done \in Nat : \E left \in Nat \ {0} :
         /\ done + left = m.cmd.tl * BlockSize
         /\ Span(m.cmd.lba, 0, done) \subseteq W
         /\ r2t' = IF r2t[m.tag] # None THEN r2t
                   ELSE [r2t EXCEPT ![m.tag] = [cmd |-> m.cmd, done |-> done, left |-> left]]
         /\ to_init' = to_init \o <<R2T(m.tag, done, left)>>

\* ... or forgets about it.
Forgets(m, o) == Loses(m, o) /\ UNCHANGED <<r2t, to_init>>

CommandEffect(m, o, W) ==
    /\ W \subseteq Reach(m.cmd)
    /\ disk' = Written(W, m.val)
    /\ Answers(m, o, W) \/ Continues(m, W) \/ Forgets(m, o)

LEMMA ImmediateFacts ==
    ASSUME NEW c \in Commands, c.op = "write"
    PROVE  /\ ImmediateLen(c) \in Nat
           /\ c.tl * BlockSize \in Nat
           /\ UnitsOf(c) = Span(c.lba, 0, c.tl * BlockSize)
           /\ Reach(c) = UnitsOf(c) \cup Span(c.lba, 0, ImmediateLen(c))
           /\ c.imm = c.tl * BlockSize => ImmediateLen(c) = c.tl * BlockSize
           /\ c.imm < c.tl * BlockSize => ImmediateLen(c) = c.imm
           /\ c.imm >= c.tl * BlockSize => ImmediateLen(c) >= c.tl * BlockSize
<1>1. c.tl \in Nat /\ c.imm \in Nat /\ BlockSize \in Nat /\ BlockSize > 1
    BY CommandFacts, Geometry
<1>2. c.tl * BlockSize \in Nat /\ (c.tl + 1) * BlockSize = c.tl * BlockSize + BlockSize
    BY <1>1
<1>3. ImmediateLen(c) \in Nat
    BY <1>1, <1>2 DEF ImmediateLen
<1>4. UnitsOf(c) = Span(c.lba, 0, c.tl * BlockSize)
    BY DEF UnitsOf, NBlocksOf
<1>5. Reach(c) = UnitsOf(c) \cup Span(c.lba, 0, ImmediateLen(c))
    BY DEF Reach
<1>6. c.imm <= c.tl * BlockSize => ImmediateLen(c) = c.imm
    BY <1>1, <1>2 DEF ImmediateLen
<1>7. c.imm >= c.tl * BlockSize => ImmediateLen(c) >= c.tl * BlockSize
    BY <1>1, <1>2 DEF ImmediateLen
<1>8. QED
    BY <1>1, <1>2, <1>3, <1>4, <1>5, <1>6, <1>7

LEMMA BlocksFacts ==
    ASSUME NEW a \in Nat, NEW b \in Nat \ {0}
    PROVE  a \div b \in Nat /\ (a \div b) * b <= a
OBVIOUS

\* write_verify() of immediate data.
LEMMA ImmediateEffect ==
    ASSUME TypeInv, NEW m \in ToTarget, m.type = "cmd", m.cmd.op = "write", NEW o \in Outcomes,
           ~Invalid(m.cmd), m.cmd.imm > 0, WriteImmediate(m.tag, m.cmd, m.val, o)
    PROVE  \E W : CommandEffect(m, o, W)
<1> DEFINE c == m.cmd
           blocks == c.imm \div BlockSize
           len == ImmediateLen(c)
<1>0. m.tag \in Tags /\ c \in Commands /\ m.val \in Nat
    BY GeometryAssumption DEF ToTarget
<1>1. /\ c.lba \in Nat /\ c.tl \in Nat /\ c.imm \in Nat /\ c.edl \in Nat /\ c.imm <= c.edl
      /\ BlockSize \in Nat /\ BlockSize > 1
    BY <1>0, CommandFacts, Geometry
<1>2. /\ len \in Nat /\ c.tl * BlockSize \in Nat
      /\ UnitsOf(c) = Span(c.lba, 0, c.tl * BlockSize)
      /\ Reach(c) = UnitsOf(c) \cup Span(c.lba, 0, len)
      /\ c.imm = c.tl * BlockSize => len = c.tl * BlockSize
      /\ c.imm < c.tl * BlockSize => len = c.imm
      /\ c.imm >= c.tl * BlockSize => len >= c.tl * BlockSize
    BY <1>0, ImmediateFacts
<1>3. blocks \in Nat /\ blocks * BlockSize <= c.imm /\ blocks * BlockSize \in Nat
    <2>1. BlockSize \in Nat \ {0}
        BY <1>1
    <2>2. blocks \in Nat /\ blocks * BlockSize <= c.imm
        BY <1>1, <2>1, BlocksFacts
    <2>3. QED
        BY <1>1, <2>2
<1> HIDE DEF c, blocks, len
<1>4. CASE o = "ok" /\ disk' = Written(Span(c.lba, 0, len), m.val)
           /\ c.imm = c.tl * BlockSize /\ Reply(<<Resp(m.tag, "good")>>) /\ UNCHANGED r2t
    <2>1. Answers(m, o, Span(c.lba, 0, len))
        BY <1>2, <1>4 DEF Answers, Statuses, Reply, c
    <2>2. QED
        BY <1>2, <1>4, <2>1 DEF CommandEffect, c
<1>5. CASE o = "ok" /\ disk' = Written(Span(c.lba, 0, len), m.val)
           /\ c.imm # c.tl * BlockSize
           /\ StartR2T(m.tag, c, blocks * BlockSize, BytesLeft(c, blocks))
    <2>1. CASE c.tl * BlockSize # c.edl
        <3>1. Reply(<<Resp(m.tag, "good")>>) /\ UNCHANGED r2t
            BY <1>5, <2>1 DEF StartR2T
        <3>2. ~CutShort(c) => UnitsOf(c) \subseteq Span(c.lba, 0, len)
            <4>1. SUFFICES ASSUME ~CutShort(c)
                           PROVE  Span(c.lba, 0, c.tl * BlockSize) \subseteq Span(c.lba, 0, len)
                BY <1>2
            <4>2. len >= c.tl * BlockSize
                BY <1>1, <1>2, <2>1, <4>1 DEF CutShort, c
            <4>3. QED
                BY <1>1, <1>2, <4>2, SpanPart, 0 \in Nat
        <3>3. Answers(m, o, Span(c.lba, 0, len))
            BY <3>1, <3>2 DEF Answers, Statuses, Reply, c
        <3>4. QED
            BY <1>2, <1>5, <3>3 DEF CommandEffect, c
    <2>2. CASE c.tl * BlockSize = c.edl
        <3>1. c.imm < c.tl * BlockSize
            BY <1>1, <1>2, <1>5, <2>2
        <3>2. blocks < c.tl
            <4>1. SUFFICES ASSUME blocks >= c.tl PROVE FALSE
                BY <1>1, <1>3
            <4>2. blocks * BlockSize >= c.tl * BlockSize
                BY <1>1, <1>3, <4>1
            <4>3. QED
                BY <1>1, <1>2, <1>3, <3>1, <4>2
        <3> DEFINE done == blocks * BlockSize
                   left == BytesLeft(c, blocks)
        <3>3. left = (c.tl - blocks) * BlockSize
            BY <1>1, <1>3, <3>2 DEF BytesLeft
        <3>4. left \in Nat \ {0} /\ done + left = c.tl * BlockSize /\ done \in Nat
            <4>1. c.tl - blocks \in Nat \ {0}
                BY <1>1, <1>3, <3>2
            <4>2. (c.tl - blocks) * BlockSize \in Nat \ {0}
                BY <1>1, <4>1
            <4>3. (c.tl - blocks) * BlockSize = c.tl * BlockSize - blocks * BlockSize
                BY <1>1, <1>3
            <4>4. QED
                BY <1>2, <1>3, <3>3, <4>2, <4>3
        <3>5. Span(c.lba, 0, done) \subseteq Span(c.lba, 0, len)
            BY <1>1, <1>2, <1>3, <3>1, SpanPart, 0 \in Nat
        <3>6. /\ r2t' = IF r2t[m.tag] # None THEN r2t
                        ELSE [r2t EXCEPT ![m.tag] = [cmd |-> c, done |-> done, left |-> left]]
              /\ to_init' = to_init \o <<R2T(m.tag, done, left)>>
            BY <1>5, <2>2 DEF StartR2T, Reply
        <3> HIDE DEF done, left
        <3>7. Continues(m, Span(c.lba, 0, len))
            BY <3>4, <3>5, <3>6 DEF Continues, c
        <3>8. QED
            BY <1>2, <1>5, <3>7 DEF CommandEffect, c
    <2>3. QED
        BY <2>1, <2>2
<1>6. CASE o = "locked"
    <2>1. Least(c.tl, blocks) * BlockSize \in Nat /\ Least(c.tl, blocks) * BlockSize <= c.tl * BlockSize
        <3>1. Least(c.tl, blocks) \in Nat /\ Least(c.tl, blocks) <= c.tl
            BY <1>1, <1>3 DEF Least
        <3>2. \A a, b \in Nat : a <= b => a * BlockSize <= b * BlockSize /\ a * BlockSize \in Nat
            BY <1>1
        <3>3. QED
            BY <1>1, <3>1, <3>2
    <2>2. PICK n \in {0, Least(c.tl, blocks) * BlockSize} : disk' = Written(Span(c.lba, 0, n), m.val)
        BY <1>6 DEF WriteImmediate, c, blocks
    <2>3. n \in Nat /\ n <= c.tl * BlockSize
        BY <1>2, <2>1, <2>2
    <2>4. Span(c.lba, 0, n) \subseteq UnitsOf(c)
        BY <1>1, <1>2, <2>3, SpanPart, 0 \in Nat
    <2>5. Answers(m, o, Span(c.lba, 0, n))
        BY <1>6 DEF Answers, Statuses, Reply, WriteImmediate
    <2>6. QED
        BY <1>2, <2>2, <2>4, <2>5 DEF CommandEffect, c
<1>7. CASE o = "fail"
    <2>1. PICK n \in 0 .. len - 1 : disk' = Written(Span(c.lba, 0, n), m.val)
        BY <1>7 DEF WriteImmediate, c, len
    <2>2. Span(c.lba, 0, n) \subseteq Span(c.lba, 0, len)
        BY <1>1, <1>2, <2>1, SpanPart, 0 \in Nat
    <2>3. Forgets(m, o)
        BY <1>7 DEF WriteImmediate, Forgets, Loses
    <2>4. QED
        BY <1>2, <2>1, <2>2, <2>3 DEF CommandEffect, c
<1>8. QED
    BY <1>4, <1>5, <1>6, <1>7 DEF WriteImmediate, c, blocks, len

\* An answer, or a loss, that leaves the disk alone.
LEMMA QuietEffect ==
    ASSUME TypeInv, NEW m \in ToTarget, NEW o, disk' = disk, m.val \in Nat,
           Answers(m, o, {}) \/ Continues(m, {}) \/ Forgets(m, o)
    PROVE  \E W : CommandEffect(m, o, W)
<1>1. disk' = Written({}, m.val)
    BY NothingWritten DEF TypeInv
<1>2. CommandEffect(m, o, {})
    BY <1>1 DEF CommandEffect
<1>3. QED
    BY <1>2

LEMMA VerifyEffect ==
    ASSUME TypeInv, NEW m \in ToTarget, m.type = "cmd", m.cmd.op = "write", NEW o \in Outcomes,
           WriteVerify(m.tag, m.cmd, m.val, o)
    PROVE  \E W : CommandEffect(m, o, W)
<1> DEFINE c == m.cmd
<1>0. m.tag \in Tags /\ c \in Commands /\ m.val \in Nat
    BY GeometryAssumption DEF ToTarget
<1>1. /\ c.lba \in Nat /\ c.tl \in Nat /\ BlockSize \in Nat /\ BlockSize > 1
      /\ c.tl * BlockSize \in Nat
      /\ c.lba * BlockSize \in Nat
      /\ UnitsOf(c) = Span(c.lba, 0, c.tl * BlockSize)
    BY <1>0, CommandFacts, Geometry, ImmediateFacts
<1>e. Span(c.lba, 0, 0) = {}
    BY <1>1 DEF Span
<1> HIDE DEF c
<1>2. CASE Invalid(c) /\ Reply(<<Resp(m.tag, "check")>>) /\ UNCHANGED target
    <2>1. Answers(m, o, {})
        BY <1>2 DEF Answers, Statuses, Reply, target
    <2>2. QED
        BY <1>0, <1>2, <2>1, QuietEffect DEF target
<1>3. CASE ~Invalid(c) /\ c.imm > 0 /\ WriteImmediate(m.tag, c, m.val, o)
    BY <1>3, ImmediateEffect DEF c
<1>4. CASE ~Invalid(c) /\ c.imm = 0 /\ c.tl > 0 /\ StartR2T(m.tag, c, 0, c.tl * BlockSize)
           /\ UNCHANGED disk
    <2>1. CASE c.tl * BlockSize # c.edl
        <3>1. Reply(<<Resp(m.tag, "good")>>) /\ UNCHANGED r2t
            BY <1>4, <2>1 DEF StartR2T
        <3>2. CutShort(c)
            <4>1. c.tl * BlockSize > 0
                BY <1>1, <1>4
            <4>2. QED
                BY <1>4, <2>1, <4>1 DEF CutShort, c
        <3>3. Answers(m, o, {})
            BY <3>1, <3>2 DEF Answers, Statuses, Reply, c
        <3>4. QED
            BY <1>0, <1>4, <3>3, QuietEffect
    <2>2. CASE c.tl * BlockSize = c.edl
        <3> DEFINE left == c.tl * BlockSize
        <3>1. left \in Nat \ {0} /\ 0 + left = c.tl * BlockSize /\ 0 \in Nat
            BY <1>1, <1>4
        <3>2. /\ r2t' = IF r2t[m.tag] # None THEN r2t
                        ELSE [r2t EXCEPT ![m.tag] = [cmd |-> c, done |-> 0, left |-> left]]
              /\ to_init' = to_init \o <<R2T(m.tag, 0, left)>>
            BY <1>4, <2>2 DEF StartR2T, Reply
        <3> HIDE DEF left
        <3>3. Continues(m, {})
            BY <1>4, <1>e, <3>1, <3>2 DEF Continues, c
        <3>4. QED
            BY <1>0, <1>4, <3>3, QuietEffect
    <2>3. QED
        BY <2>1, <2>2
<1>5. CASE c.tl = 0 /\ Reply(<<Resp(m.tag, "good")>>) /\ UNCHANGED target
    <2>1. UnitsOf(c) = {}
        BY <1>1, <1>e, <1>5
    <2>2. Answers(m, o, {})
        BY <1>5, <2>1 DEF Answers, Statuses, Reply, target, c
    <2>3. QED
        BY <1>0, <1>5, <2>2, QuietEffect DEF target
<1>6. QED
    BY <1>2, <1>3, <1>4, <1>5 DEF WriteVerify, c

LEMMA SameEffect ==
    ASSUME TypeInv, NEW m \in ToTarget, m.type = "cmd", m.cmd.op = "write_same",
           NEW o \in Outcomes, WriteSame(m.tag, m.cmd, m.val, o)
    PROVE  \E W : CommandEffect(m, o, W)
<1> DEFINE c == m.cmd
<1>0. m.tag \in Tags /\ c \in Commands /\ m.val \in Nat /\ o \in {"ok", "fail", "locked"}
    BY GeometryAssumption, OutcomesAssumption DEF ToTarget
<1>1. /\ c.lba \in Nat /\ c.tl \in Nat /\ c.imm \in Nat /\ c.edl = BlockSize
      /\ c.tl <= NBlocks /\ NBlocks \in Nat /\ BlockSize \in Nat /\ BlockSize > 1
    BY <1>0, CommandFacts, Geometry
<1>l. c.imm \div BlockSize # 1 => Loses(m, o)
    BY DEF Loses
<1> HIDE DEF c
<1>2. CASE Invalid(c) /\ Reply(<<Resp(m.tag, "check")>>) /\ UNCHANGED target
    <2>1. Answers(m, o, {})
        BY <1>2 DEF Answers, Statuses, Reply, target
    <2>2. QED
        BY <1>0, <1>2, <2>1, QuietEffect DEF target
<1>3. CASE ~Invalid(c) /\ c.imm > 0 /\ SameImmediate(m.tag, c, m.val, o)
    <2>1. CASE c.imm \div BlockSize # 1 /\ UNCHANGED <<target, to_init>>
        <3>1. Forgets(m, o)
            BY <1>l, <2>1 DEF Forgets, target
        <3>2. QED
            BY <1>0, <2>1, <3>1, QuietEffect DEF target
    <2>2. CASE Reply(<<Resp(m.tag, "check")>>) /\ UNCHANGED target
        <3>1. Answers(m, o, {})
            BY <2>2 DEF Answers, Statuses, Reply, target
        <3>2. QED
            BY <1>0, <2>2, <3>1, QuietEffect DEF target
    <2>3. ASSUME NEW n \in 0 .. NBlocksOf(c), o = "ok" <=> n = NBlocksOf(c), UNCHANGED r2t,
                 disk' = Written(Span(c.lba, 0, n * BlockSize), m.val),
                 Reply(<<Resp(m.tag, IF o = "locked" THEN "conflict" ELSE "good")>>)
          PROVE  \E W : CommandEffect(m, o, W)
        <3> DEFINE W == Span(c.lba, 0, n * BlockSize)
        <3>1. NBlocksOf(c) \in Nat
            BY <1>1, <1>3 DEF NBlocksOf, Invalid
        <3>2. n * BlockSize <= NBlocksOf(c) * BlockSize /\ n * BlockSize \in Nat
              /\ NBlocksOf(c) * BlockSize \in Nat
            <4>1. \A a, b \in Nat : a <= b => a * BlockSize <= b * BlockSize /\ a * BlockSize \in Nat
                BY <1>1
            <4>2. QED
                BY <2>3, <3>1, <4>1
        <3>3. W \subseteq UnitsOf(c)
            BY <1>1, <3>2, SpanPart, 0 \in Nat DEF UnitsOf
        <3>4. o = "ok" => W = UnitsOf(c)
            BY <2>3 DEF UnitsOf
        <3>5. o = "fail" => Loses(m, o)
            BY <1>3 DEF Loses, c
        <3>6. Reply(<<Resp(m.tag, "good")>>) \/ Reply(<<Resp(m.tag, "conflict")>>)
            BY <2>3
        <3>7. o # "ok" /\ ~Loses(m, o) => Reply(<<Resp(m.tag, "conflict")>>)
            BY <1>0, <2>3, <3>5
        <3> HIDE DEF W
        <3>8. Answers(m, o, W)
            BY <2>3, <3>4, <3>6, <3>7 DEF Answers, Statuses, Reply, c
        <3>9. CommandEffect(m, o, W)
            BY <2>3, <3>3, <3>8 DEF CommandEffect, W, Reach, c
        <3>10. QED
            BY <3>9
    <2>4. QED
        BY <1>3, <2>1, <2>2, <2>3 DEF SameImmediate
<1>4. CASE ~Invalid(c) /\ c.imm = 0 /\ c.tl = BlockSize /\ StartR2T(m.tag, c, 0, 0)
           /\ UNCHANGED disk
    <2>1. c.tl * BlockSize # c.edl /\ 0 \div BlockSize = 0
        BY <1>1, <1>4
    <2>2. Reply(<<Resp(m.tag, "good")>>) /\ UNCHANGED r2t
        BY <1>4, <2>1 DEF StartR2T
    <2>3. Loses(m, o)
        BY <1>4, <1>l, <2>1
    <2>4. Answers(m, o, {})
        BY <2>2, <2>3 DEF Answers, Statuses, Reply
    <2>5. QED
        BY <1>0, <1>4, <2>4, QuietEffect
<1>5. CASE ~Invalid(c) /\ c.imm = 0 /\ Reply(<<Resp(m.tag, "good")>>) /\ UNCHANGED target
    <2>1. 0 \div BlockSize = 0
        BY <1>1
    <2>2. Loses(m, o)
        BY <1>5, <1>l, <2>1
    <2>3. Answers(m, o, {})
        BY <1>5, <2>2 DEF Answers, Statuses, Reply, target
    <2>4. QED
        BY <1>0, <1>5, <2>3, QuietEffect DEF target
<1>6. QED
    BY <1>2, <1>3, <1>4, <1>5 DEF WriteSame, c

LEMMA CommandEffects ==
    ASSUME TypeInv, NEW m \in ToTarget, NEW o \in Outcomes, HandleCommand(m, o)
    PROVE  m.type = "cmd" /\ \E W : CommandEffect(m, o, W)
BY VerifyEffect, SameEffect DEF HandleCommand

-----------------------------------------------------------------------------
(* What the target does with a DATA-OUT. *)

Fails(m, W) == r2t' = r2t /\ to_init' = to_init \o <<Resp(m.tag, "io_error")>>

\* With the F bit the transfer ends, or an answer and an R2T are sent; without
\* it only its counters change.
Takes(m) ==
    LET done == (r2t[m.tag].done + m.len) % Uint32
        left == (r2t[m.tag].left - m.len) % Uint32
    IN \/ /\ m.F /\ left = 0
          /\ r2t' = [r2t EXCEPT ![m.tag] = None]
          /\ to_init' = to_init \o <<Resp(m.tag, "good")>>
       \/ /\ m.F /\ left # 0
          /\ r2t' = [r2t EXCEPT ![m.tag].done = done, ![m.tag].left = left]
          /\ to_init' = to_init \o <<Resp(m.tag, "good"), R2T(m.tag, done, left)>>
       \/ /\ ~m.F
          /\ r2t' = [r2t EXCEPT ![m.tag].done = done, ![m.tag].left = left]
          /\ UNCHANGED to_init

DataEffect(m, W) ==
    /\ r2t[m.tag] # None
    /\ W \subseteq DataSpan(m, m.len)
    /\ disk' = Written(W, m.val)
    /\ Fails(m, W) \/ (Takes(m) /\ W = DataSpan(m, m.len))

LEMMA DataEffects ==
    ASSUME TypeInv, NEW m \in ToTarget, NEW o \in Outcomes, DataFailed(m, o) \/ DataWritten(m, o)
    PROVE  m.type = "data" /\ r2t[m.tag] # None /\ \E W : DataEffect(m, W)
<1>0. m.type = "data" /\ r2t[m.tag] # None
    BY DEF DataFailed, DataWritten, Droppable
<1>1. /\ m.tag \in Tags /\ m.off \in Nat /\ m.len \in Nat /\ m.val \in Nat
      /\ r2t[m.tag].cmd \in Commands /\ r2t[m.tag].cmd.lba \in Nat
    <2>1. m.tag \in Tags
        BY DEF ToTarget
    <2>2. r2t[m.tag] \in [cmd : Commands, done : Nat, left : Nat]
        BY <1>0, <2>1 DEF TypeInv
    <2>3. m.off \in Nat /\ m.len \in Nat /\ m.val \in Nat
        BY <1>0, GeometryAssumption DEF ToTarget
    <2>4. QED
        BY <2>1, <2>2, <2>3, CommandFacts
<1>2. CASE DataWritten(m, o)
    <2>1. DataEffect(m, DataSpan(m, m.len))
        BY <1>0, <1>2 DEF DataWritten, DataEffect, Takes, EndOfTask, Reply
    <2>2. QED
        BY <1>0, <2>1, Zenon
<1>3. CASE DataFailed(m, o)
    <2>1. Fails(m, {})
        BY <1>3 DEF DataFailed, Fails, Reply
    <2>2. CASE disk' = disk
        <3>1. disk' = Written({}, m.val)
            BY <1>1, <2>2, NothingWritten DEF TypeInv
        <3>2. DataEffect(m, {})
            BY <1>0, <2>1, <3>1 DEF DataEffect
        <3>3. QED
            BY <1>0, <3>2
    <2>3. ASSUME NEW n \in 0 .. m.len, disk' = Written(DataSpan(m, n), m.val)
          PROVE  \E W : DataEffect(m, W)
        <3>1. DataSpan(m, n) \subseteq DataSpan(m, m.len)
            <4>1. r2t[m.tag].cmd.lba * BlockSize \in Nat
                BY <1>1, Geometry
            <4>2. QED
                BY <1>1, <4>1 DEF DataSpan, Span
        <3>2. DataEffect(m, DataSpan(m, n))
            BY <1>0, <2>1, <2>3, <3>1 DEF DataEffect, Fails
        <3>3. QED
            BY <3>2
    <2>4. QED
        BY <1>0, <1>1, <1>3, <2>2, <2>3 DEF DataFailed
<1>4. QED
    BY <1>2, <1>3

-----------------------------------------------------------------------------
(* Queues. *)

LEMMA Appended ==
    ASSUME NEW S, NEW q \in Seq(S), NEW x \in S
    PROVE  /\ q \o <<x>> = Append(q, x)
           /\ Append(q, x) \in Seq(S) /\ Len(Append(q, x)) = Len(q) + 1
           /\ \A i \in 1 .. Len(q) : Append(q, x)[i] = q[i]
           /\ Append(q, x)[Len(q) + 1] = x
OBVIOUS

LEMMA AppendedTwo ==
    ASSUME NEW S, NEW q \in Seq(S), NEW x \in S, NEW y \in S
    PROVE  q \o <<x, y>> = Append(Append(q, x), y)
OBVIOUS

LEMMA Taken ==
    ASSUME NEW S, NEW q \in Seq(S), q # <<>>
    PROVE  /\ Head(q) = q[1] /\ Head(q) \in S /\ Len(q) \in Nat \ {0}
           /\ Tail(q) \in Seq(S) /\ Len(Tail(q)) = Len(q) - 1
           /\ \A i \in 1 .. Len(q) - 1 : Tail(q)[i] = q[i + 1]
OBVIOUS

LEMMA RespType == ASSUME NEW t \in Tags, NEW s \in Statuses PROVE Resp(t, s) \in ToInit
BY DEF Resp, ToInit

LEMMA R2TType ==
    ASSUME NEW t \in Tags, NEW off \in Nat, NEW len \in Nat \ {0} PROVE R2T(t, off, len) \in ToInit
BY DEF R2T, ToInit

LEMMA ModNat == ASSUME NEW a \in Int, NEW b \in Nat \ {0} PROVE a % b \in Nat
OBVIOUS

-----------------------------------------------------------------------------
(* The type invariant. *)

LEMMA HandleType ==
    ASSUME TypeInv, Handle PROVE TypeInv'
<1> DEFINE m == Head(to_target)
<1>1. m \in ToTarget /\ to_target' \in Seq(ToTarget)
    <2>1. to_target \in Seq(ToTarget) /\ to_target # <<>> /\ to_target' = Tail(to_target)
        BY DEF TypeInv, Handle
    <2>2. QED
        BY <2>1, Taken
<1>2. m.tag \in Tags /\ m.val \in Nat
    BY <1>1, GeometryAssumption DEF ToTarget
<1>3. UNCHANGED initiator /\ lost' \in SUBSET Tags
    BY <1>2 DEF Handle, TypeInv
<1>4. SUFFICES /\ disk' \in [Units -> Nat]
               /\ r2t' \in [Tags -> [cmd : Commands, done : Nat, left : Nat] \cup {None}]
               /\ to_init' \in Seq(ToInit)
    BY <1>1, <1>3 DEF TypeInv, initiator
<1>5. PICK o \in Outcomes :
        HandleCommand(m, o) \/ DropData(m) \/ DataFailed(m, o) \/ DataWritten(m, o)
    BY DEF Handle
<1> HIDE DEF m
<1>6. CASE HandleCommand(m, o)
    <2>0. m.type = "cmd" /\ m.cmd \in Commands
        BY <1>1, <1>6 DEF HandleCommand, ToTarget
    <2>1. PICK W : CommandEffect(m, o, W)
        BY <1>1, <1>6, CommandEffects
    <2>2. disk' \in [Units -> Nat]
        BY <1>2, <2>1, WrittenFacts DEF CommandEffect, TypeInv
    <2>3. CASE Answers(m, o, W)
        <3>1. PICK status \in Statuses : to_init' = to_init \o <<Resp(m.tag, status)>>
            BY <2>3 DEF Answers
        <3>2. Resp(m.tag, status) \in ToInit
            BY <1>2, RespType
        <3>3. QED
            BY <2>2, <2>3, <3>1, <3>2, Appended DEF Answers, TypeInv
    <2>4. CASE Continues(m, W)
        <3>1. PICK done \in Nat : \E left \in Nat \ {0} :
                /\ r2t' = IF r2t[m.tag] # None THEN r2t
                          ELSE [r2t EXCEPT ![m.tag] = [cmd |-> m.cmd, done |-> done, left |-> left]]
                /\ to_init' = to_init \o <<R2T(m.tag, done, left)>>
            BY <2>4 DEF Continues
        <3>2. PICK left \in Nat \ {0} :
                /\ r2t' = IF r2t[m.tag] # None THEN r2t
                          ELSE [r2t EXCEPT ![m.tag] = [cmd |-> m.cmd, done |-> done, left |-> left]]
                /\ to_init' = to_init \o <<R2T(m.tag, done, left)>>
            BY <3>1
        <3>3. to_init' \in Seq(ToInit)
            <4>1. R2T(m.tag, done, left) \in ToInit
                BY <1>2, R2TType
            <4>2. to_init \in Seq(ToInit)
                BY DEF TypeInv
            <4>3. QED
                BY <3>2, <4>1, <4>2, Appended
        <3>4. r2t' \in [Tags -> [cmd : Commands, done : Nat, left : Nat] \cup {None}]
            BY <1>2, <2>0, <3>2 DEF TypeInv
        <3>5. QED
            BY <2>2, <3>3, <3>4
    <2>5. CASE Forgets(m, o)
        BY <2>2, <2>5 DEF Forgets, TypeInv
    <2>6. QED
        BY <2>1, <2>3, <2>4, <2>5 DEF CommandEffect
<1>7. CASE DropData(m)
    BY <1>7 DEF DropData, target, TypeInv
<1>8. CASE DataFailed(m, o) \/ DataWritten(m, o)
    <2>1. m.type = "data" /\ r2t[m.tag] # None /\ \E W : DataEffect(m, W)
        BY <1>1, <1>8, DataEffects
    <2>2. PICK W : DataEffect(m, W)
        BY <2>1
    <2>3. disk' \in [Units -> Nat]
        BY <1>2, <2>2, WrittenFacts DEF DataEffect, TypeInv
    <2>4. /\ r2t[m.tag] \in [cmd : Commands, done : Nat, left : Nat] /\ m.len \in Nat
          /\ Uint32 \in Nat \ {0}
        <3>1. r2t[m.tag] \in [cmd : Commands, done : Nat, left : Nat] /\ m.len \in Nat
            BY <1>1, <1>2, <2>1 DEF TypeInv, ToTarget
        <3>2. r2t[m.tag].cmd \in Commands
            BY <3>1
        <3>3. Uint32 \in Nat /\ r2t[m.tag].cmd.tl * BlockSize < Uint32
              /\ r2t[m.tag].cmd.tl * BlockSize \in Nat
            BY <3>2, Uint32Assumption, CommandFacts, Geometry
        <3>4. QED
            BY <3>1, <3>3
    <2>5. CASE Fails(m, W)
        <3>1. Resp(m.tag, "io_error") \in ToInit
            BY <1>2, RespType DEF Statuses
        <3>2. QED
            BY <2>3, <2>5, <3>1, Appended DEF Fails, TypeInv
    <2>6. CASE Takes(m)
        <3> DEFINE done == (r2t[m.tag].done + m.len) % Uint32
                   left == (r2t[m.tag].left - m.len) % Uint32
        <3>1. done \in Nat /\ left \in Nat
            <4>1. r2t[m.tag].done + m.len \in Int /\ r2t[m.tag].left - m.len \in Int
                BY <2>4
            <4>2. QED
                BY <2>4, <4>1, ModNat
        <3>2. \/ /\ r2t' = [r2t EXCEPT ![m.tag] = None]
                 /\ to_init' = to_init \o <<Resp(m.tag, "good")>>
              \/ /\ left # 0
                 /\ r2t' = [r2t EXCEPT ![m.tag].done = done, ![m.tag].left = left]
                 /\ to_init' = to_init \o <<Resp(m.tag, "good"), R2T(m.tag, done, left)>>
              \/ /\ r2t' = [r2t EXCEPT ![m.tag].done = done, ![m.tag].left = left]
                 /\ UNCHANGED to_init
            BY <2>6 DEF Takes
        <3> HIDE DEF done, left
        <3>3. \A d, l \in Nat : [r2t EXCEPT ![m.tag].done = d, ![m.tag].left = l]
                \in [Tags -> [cmd : Commands, done : Nat, left : Nat] \cup {None}]
            BY <1>2, <2>4 DEF TypeInv
        <3>4. [r2t EXCEPT ![m.tag].done = done, ![m.tag].left = left]
                \in [Tags -> [cmd : Commands, done : Nat, left : Nat] \cup {None}]
            BY <3>1, <3>3
        <3>5. [r2t EXCEPT ![m.tag] = None]
                \in [Tags -> [cmd : Commands, done : Nat, left : Nat] \cup {None}]
            BY DEF TypeInv
        <3>6. Resp(m.tag, "good") \in ToInit /\ (left # 0 => R2T(m.tag, done, left) \in ToInit)
            BY <1>2, <3>1, RespType, R2TType DEF Statuses
        <3>7. to_init \in Seq(ToInit)
            BY DEF TypeInv
        <3>8. to_init \o <<Resp(m.tag, "good")>> \in Seq(ToInit)
            BY <3>6, <3>7, Appended
        <3>9. left # 0 => to_init \o <<Resp(m.tag, "good"), R2T(m.tag, done, left)>> \in Seq(ToInit)
            BY <3>6, <3>7
        <3>10. QED
            BY <2>3, <3>2, <3>4, <3>5, <3>7, <3>8, <3>9
    <2>7. QED
        BY <2>2, <2>5, <2>6 DEF DataEffect
<1>9. QED
    BY <1>5, <1>6, <1>7, <1>8

LEMMA IssueType ==
    ASSUME TypeInv, NEW t \in Tags, NEW c \in Commands, Issue(t, c) PROVE TypeInv'
<1> DEFINE v == IF c.unmap THEN 0 ELSE Len(issued')
<1>1. issued' \in Seq(Commands) /\ Len(issued') = Len(issued) + 1 /\ Len(issued') <= MaxCommands
      /\ Len(issued) \in Nat
    BY GeometryAssumption DEF Issue, TypeInv
<1>2. v \in 0 .. MaxCommands
    BY <1>1, GeometryAssumption
<1>3. task' = [task EXCEPT ![t] = [cmd |-> c, val |-> v]] /\ task'[t].val = v
    BY DEF Issue, TypeInv
<1>4. to_target' = Append(to_target, [type |-> "cmd", tag |-> t, cmd |-> c, val |-> v])
    BY <1>3 DEF Issue
<1> HIDE DEF v
<1>5. to_target' \in Seq(ToTarget)
    <2>1. [type |-> "cmd", tag |-> t, cmd |-> c, val |-> v] \in ToTarget
        BY <1>2 DEF ToTarget
    <2>2. QED
        BY <1>4, <2>1, Appended DEF TypeInv
<1>6. task' \in [Tags -> [cmd : Commands, val : 0 .. MaxCommands] \cup {None}]
    BY <1>2, <1>3 DEF TypeInv
<1>7. allowed' \in [Units -> SUBSET (0 .. MaxCommands)]
    BY <1>2, <1>3 DEF TypeInv, Issue
<1>8. \A s \in Tags : task'[s] = None => burst'[s].len = 0
    <2>1. SUFFICES ASSUME NEW s \in Tags, task'[s] = None PROVE task[s] = None
        BY DEF Issue, TypeInv
    <2>2. CASE s = t
        <3>1. task[t] = None
            BY DEF Issue
        <3>2. QED
            BY <2>2, <3>1
    <2>3. CASE s # t
        BY <1>3, <2>1, <2>3 DEF TypeInv
    <2>4. QED
        BY <2>2, <2>3
<1>9. UNCHANGED <<disk, r2t, to_init, burst>> /\ used' \subseteq Tags /\ lost' \subseteq Tags
    BY DEF Issue, TypeInv, target
<1>10. QED
    BY <1>1, <1>5, <1>6, <1>7, <1>8, <1>9 DEF TypeInv

\* A burst is only of an outstanding task.
LEMMA BurstOfTask ==
    ASSUME TypeInv, NEW t \in Tags, NEW n \in Pieces, SendData(t, n)
    PROVE  /\ n \in Nat \ {0} /\ burst[t].len \in Nat /\ burst[t].off \in Nat
           /\ burst[t].len >= n
           /\ task[t] # None /\ task[t].val \in 0 .. MaxCommands
<1>1. n \in Nat \ {0} /\ burst[t].len \in Nat /\ burst[t].off \in Nat /\ burst[t].len >= n
    BY GeometryAssumption DEF SendData, TypeInv
<1>2. task[t] # None
    BY <1>1 DEF TypeInv
<1>3. QED
    BY <1>1, <1>2 DEF TypeInv

LEMMA SendType ==
    ASSUME TypeInv, NEW t \in Tags, NEW n \in Pieces, SendData(t, n) PROVE TypeInv'
<1>1. /\ n \in Nat \ {0} /\ burst[t].len \in Nat /\ burst[t].off \in Nat
      /\ burst[t].len >= n
      /\ task[t] # None /\ task[t].val \in 0 .. MaxCommands
    BY BurstOfTask
<1> DEFINE d == [type |-> "data", tag |-> t, off |-> burst[t].off, len |-> n,
                 F |-> burst[t].len = n, val |-> task[t].val]
<1>2. to_target' \in Seq(ToTarget)
    <2>1. d \in ToTarget
        <3>1. (burst[t].len = n) \in BOOLEAN
            OBVIOUS
        <3>2. QED
            BY <1>1, <3>1 DEF ToTarget
    <2>2. to_target' = Append(to_target, d)
        BY DEF SendData
    <2>3. QED
        BY <2>1, <2>2, Appended DEF TypeInv
<1>3. burst' = [burst EXCEPT ![t] = [off |-> burst[t].off + n, len |-> burst[t].len - n]]
    BY DEF SendData, TypeInv
<1>4. burst' \in [Tags -> [off : Nat, len : Nat]]
    BY <1>1, <1>3 DEF TypeInv
<1>5. \A s \in Tags : task'[s] = None => burst'[s].len = 0
    BY <1>1, <1>3 DEF SendData, TypeInv
<1>6. QED
    BY <1>2, <1>4, <1>5 DEF SendData, TypeInv, target

\* What the initiator finds in its queue, and what it does with it.
LEMMA Received ==
    ASSUME TypeInv, Receive
    PROVE  LET m == Head(to_init) IN
           /\ m \in ToInit /\ m.tag \in Tags
           /\ m.type = "r2t" => m.off \in Nat /\ m.len \in Nat \ {0}
           /\ m.type \in {"r2t", "resp"}
<1>1. Head(to_init) \in ToInit
    BY Taken DEF TypeInv, Receive
<1>2. QED
    BY <1>1 DEF ToInit

LEMMA ReceiveType ==
    ASSUME TypeInv, Receive PROVE TypeInv'
<1> DEFINE m == Head(to_init)
<1>1. /\ m \in ToInit /\ m.tag \in Tags
      /\ m.type = "r2t" => m.off \in Nat /\ m.len \in Nat \ {0}
      /\ m.type \in {"r2t", "resp"}
    BY Received
<1>2. to_init' \in Seq(ToInit)
    BY Taken DEF TypeInv, Receive
<1>3. UNCHANGED <<disk, r2t, to_target, issued, used, lost>>
    BY DEF Receive, target
<1> HIDE DEF m
<1>4. CASE UNCHANGED <<task, burst, allowed>>
    BY <1>2, <1>3, <1>4 DEF TypeInv
<1>5. CASE /\ task[m.tag] # None /\ m.type = "r2t"
           /\ burst' = [burst EXCEPT ![m.tag] = [off |-> m.off, len |-> m.len]]
           /\ UNCHANGED <<task, allowed>>
    <2>1. burst' \in [Tags -> [off : Nat, len : Nat]]
        BY <1>1, <1>5 DEF TypeInv
    <2>2. \A s \in Tags : task'[s] = None => burst'[s].len = 0
        BY <1>1, <1>5 DEF TypeInv
    <2>3. QED
        BY <1>2, <1>3, <1>5, <2>1, <2>2 DEF TypeInv
<1>6. CASE /\ task[m.tag] # None /\ m.type = "resp"
           /\ task' = [task EXCEPT ![m.tag] = None]
           /\ burst' = [burst EXCEPT ![m.tag] = NoBurst]
           /\ allowed' = [u \in Units |->
                IF /\ m.status = "good" /\ m.tag \notin lost /\ ~CutShort(task[m.tag].cmd)
                   /\ u \in UnitsOf(task[m.tag].cmd)
                THEN {task[m.tag].val} ELSE allowed[u]]
    <2>1. task[m.tag].val \in 0 .. MaxCommands
        BY <1>1, <1>6 DEF TypeInv
    <2>2. allowed' \in [Units -> SUBSET (0 .. MaxCommands)]
        BY <1>6, <2>1 DEF TypeInv
    <2>3. /\ task' \in [Tags -> [cmd : Commands, val : 0 .. MaxCommands] \cup {None}]
          /\ burst' \in [Tags -> [off : Nat, len : Nat]]
        BY <1>6 DEF TypeInv, NoBurst
    <2>4. \A s \in Tags : task'[s] = None => burst'[s].len = 0
        <3>1. SUFFICES ASSUME NEW s \in Tags, task'[s] = None PROVE burst'[s].len = 0
            OBVIOUS
        <3>2. CASE s = m.tag
            BY <1>6, <3>2 DEF TypeInv, NoBurst
        <3>3. CASE s # m.tag
            BY <1>6, <3>1, <3>3 DEF TypeInv
        <3>4. QED
            BY <3>2, <3>3
    <2>5. QED
        BY <1>2, <1>3, <2>2, <2>3, <2>4 DEF TypeInv
<1>7. QED
    BY <1>4, <1>5, <1>6 DEF Receive, m

LEMMA TypeStep == TypeInv /\ [Next]_vars => TypeInv'
<1>1. SUFFICES ASSUME TypeInv, [Next]_vars PROVE TypeInv'
    OBVIOUS
<1>2. CASE UNCHANGED vars
    BY <1>1, <1>2 DEF TypeInv, vars
<1>3. ASSUME NEW t \in Tags, NEW n \in Pieces, SendData(t, n) PROVE TypeInv'
    BY <1>1, <1>3, SendType
<1>4. ASSUME NEW t \in Tags, NEW c \in Commands, Issue(t, c) PROVE TypeInv'
    BY <1>1, <1>4, IssueType
<1>5. QED
    BY <1>1, <1>2, <1>3, <1>4, HandleType, ReceiveType DEF Next, Send

\* Every variable has its type, whatever is sent, answered and retried.
THEOREM TypeCorrect == Spec => []TypeOK
<1>1. TypeInv => TypeOK
    <2>1. SUFFICES ASSUME TypeInv PROVE TypeOK
        OBVIOUS
    <2>2. ElementsOf(to_target) \cup ElementsOf(to_init) \subseteq ToTarget \cup ToInit
        BY <2>1 DEF TypeInv, ElementsOf
    <2>3. ToTarget \cup ToInit \subseteq Messages
        BY GeometryAssumption DEF ToTarget, ToInit, Messages, Statuses
    <2>4. task \in [Tags -> [cmd : Commands, val : Nat] \cup {None}]
        BY <2>1, GeometryAssumption DEF TypeInv
    <2>5. QED
        BY <2>1, <2>2, <2>3, <2>4 DEF TypeInv, TypeOK
<1>2. QED
    BY <1>1, TypeInvInit, TypeStep, PTL DEF Spec

-----------------------------------------------------------------------------
(* No task is forgotten. *)

\* Something that is still to come for t can end its task.
Awaits(t) ==
    \/ \E i \in 1 .. Len(to_target) :
         to_target[i].tag = t /\ (to_target[i].type = "cmd" \/ to_target[i].F)
    \/ \E i \in 1 .. Len(to_init) : to_init[i].tag = t
    \/ burst[t].len > 0

Awaited == \A t \in Tags : task[t] # None /\ t \notin lost => Awaits(t)

LEMMA AwaitedIs == Awaited <=> TaskNotForgotten
BY DEF Awaited, Awaits, TaskNotForgotten, ElementsOf

\* What the target sends when it takes a PDU: nothing only for a DATA-OUT
\* that is not the last one, or with a loss.
LEMMA HandleReplies ==
    ASSUME TypeInv, Handle
    PROVE  LET m == Head(to_target) IN
           /\ m \in ToTarget /\ m.tag \in Tags
           /\ \A i \in 1 .. Len(to_init) : i \in 1 .. Len(to_init') /\ to_init'[i] = to_init[i]
           /\ \/ \E i \in 1 .. Len(to_init') : to_init'[i].tag = m.tag
              \/ m.type = "data" /\ ~m.F
              \/ m.tag \in lost'
           /\ lost \subseteq lost'
<1> DEFINE m == Head(to_target)
<1>1. m \in ToTarget
    BY Taken DEF TypeInv, Handle
<1>2. m.tag \in Tags
    BY <1>1 DEF ToTarget
<1>3. PICK o \in Outcomes :
        /\ HandleCommand(m, o) \/ DropData(m) \/ DataFailed(m, o) \/ DataWritten(m, o)
        /\ lost' = IF Loses(m, o) THEN lost \cup {m.tag} ELSE lost
    BY DEF Handle
<1> HIDE DEF m
<1>a. to_init \in Seq(ToInit)
    BY DEF TypeInv
<1>4. ASSUME NEW x \in ToInit, x.tag = m.tag, to_init' = to_init \o <<x>>
      PROVE  /\ \A i \in 1 .. Len(to_init) : i \in 1 .. Len(to_init') /\ to_init'[i] = to_init[i]
             /\ \E i \in 1 .. Len(to_init') : to_init'[i].tag = m.tag
    <2>1. /\ Len(to_init') = Len(to_init) + 1 /\ to_init'[Len(to_init) + 1] = x
          /\ \A i \in 1 .. Len(to_init) : to_init'[i] = to_init[i]
        BY <1>a, <1>4, Appended
    <2>2. Len(to_init) \in Nat
        BY <1>a
    <2>3. QED
        BY <1>4, <2>1, <2>2
<1>5. ASSUME NEW x \in ToInit, NEW y \in ToInit, x.tag = m.tag, to_init' = to_init \o <<x, y>>
      PROVE  /\ \A i \in 1 .. Len(to_init) : i \in 1 .. Len(to_init') /\ to_init'[i] = to_init[i]
             /\ \E i \in 1 .. Len(to_init') : to_init'[i].tag = m.tag
    <2>1. /\ Len(to_init') = Len(to_init) + 2 /\ to_init'[Len(to_init) + 1] = x
          /\ \A i \in 1 .. Len(to_init) : to_init'[i] = to_init[i]
        BY <1>a, <1>5
    <2>2. Len(to_init) \in Nat
        BY <1>a
    <2>3. QED
        BY <1>5, <2>1, <2>2
<1>6. \A s \in Statuses : Resp(m.tag, s) \in ToInit /\ Resp(m.tag, s).tag = m.tag
    BY <1>2, RespType DEF Resp
<1>7. \A d \in Nat : \A l \in Nat \ {0} : R2T(m.tag, d, l) \in ToInit /\ R2T(m.tag, d, l).tag = m.tag
    BY <1>2, R2TType DEF R2T
<1>8. SUFFICES /\ \A i \in 1 .. Len(to_init) : i \in 1 .. Len(to_init') /\ to_init'[i] = to_init[i]
               /\ \/ \E i \in 1 .. Len(to_init') : to_init'[i].tag = m.tag
                  \/ m.type = "data" /\ ~m.F
                  \/ m.tag \in lost'
    BY <1>1, <1>2, <1>3 DEF m
<1>9. CASE HandleCommand(m, o)
    <2>1. PICK W : CommandEffect(m, o, W)
        BY <1>1, <1>9, CommandEffects
    <2>2. CASE Answers(m, o, W)
        BY <1>4, <1>6, <2>2 DEF Answers
    <2>3. CASE Continues(m, W)
        BY <1>4, <1>7, <2>3 DEF Continues
    <2>4. CASE Forgets(m, o)
        BY <1>3, <2>4 DEF Forgets
    <2>5. QED
        BY <2>1, <2>2, <2>3, <2>4 DEF CommandEffect
<1>10. CASE DropData(m)
    BY <1>3, <1>10 DEF DropData, Loses
<1>11. CASE DataFailed(m, o) \/ DataWritten(m, o)
    <2>1. m.type = "data" /\ r2t[m.tag] # None /\ \E W : DataEffect(m, W)
        BY <1>1, <1>11, DataEffects
    <2>2. PICK W : DataEffect(m, W)
        BY <2>1
    <2>3. CASE Fails(m, W)
        BY <1>4, <1>6, <2>3 DEF Fails, Statuses
    <2>4. CASE Takes(m)
        <3> DEFINE done == (r2t[m.tag].done + m.len) % Uint32
                   left == (r2t[m.tag].left - m.len) % Uint32
        <3>1. done \in Nat /\ left \in Nat
            <4>1. /\ r2t[m.tag] \in [cmd : Commands, done : Nat, left : Nat] /\ m.len \in Nat
                <5>1. m.tag \in Tags
                    BY <1>1 DEF ToTarget
                <5>2. m.len \in Nat
                    BY <1>1, <2>1 DEF ToTarget
                <5>3. r2t[m.tag] \in [cmd : Commands, done : Nat, left : Nat]
                    BY <2>1, <5>1 DEF TypeInv
                <5>4. QED
                    BY <5>2, <5>3
            <4>2. r2t[m.tag].cmd \in Commands
                BY <4>1
            <4>3. Uint32 \in Nat /\ r2t[m.tag].cmd.tl * BlockSize < Uint32
                  /\ r2t[m.tag].cmd.tl * BlockSize \in Nat
                BY <4>2, Uint32Assumption, CommandFacts, Geometry
            <4>4. r2t[m.tag].done + m.len \in Int /\ r2t[m.tag].left - m.len \in Int
                  /\ Uint32 \in Nat \ {0}
                <5>1. r2t[m.tag].done \in Nat /\ r2t[m.tag].left \in Nat /\ m.len \in Nat
                    BY <4>1, Zenon
                <5>2. \A x, y \in Nat : x + y \in Int /\ x - y \in Int
                    OBVIOUS
                <5>3. QED
                    BY <4>3, <5>1, <5>2
            <4>5. QED
                BY <4>4, ModNat
        <3>2. \/ to_init' = to_init \o <<Resp(m.tag, "good")>>
              \/ left # 0 /\ to_init' = to_init \o <<Resp(m.tag, "good"), R2T(m.tag, done, left)>>
              \/ ~m.F /\ to_init' = to_init
            BY <2>4 DEF Takes
        <3> HIDE DEF done, left
        <3>3. CASE to_init' = to_init \o <<Resp(m.tag, "good")>>
            BY <1>4, <1>6, <3>3 DEF Statuses
        <3>4. CASE left # 0 /\ to_init' = to_init \o <<Resp(m.tag, "good"), R2T(m.tag, done, left)>>
            BY <1>5, <1>6, <1>7, <3>1, <3>4 DEF Statuses
        <3>5. QED
            BY <2>1, <3>2, <3>3, <3>4
    <2>5. QED
        BY <2>2, <2>3, <2>4 DEF DataEffect
<1>12. QED
    BY <1>3, <1>9, <1>10, <1>11

LEMMA AwaitedStep == TypeInv /\ Awaited /\ [Next]_vars => Awaited'
<1>1. SUFFICES ASSUME TypeInv, Awaited, [Next]_vars,
                      NEW t \in Tags, task'[t] # None, t \notin lost'
               PROVE  Awaits(t)'
    BY DEF Awaited
<1>a. to_init \in Seq(ToInit) /\ to_target \in Seq(ToTarget)
      /\ Len(to_init) \in Nat /\ Len(to_target) \in Nat
    BY <1>1 DEF TypeInv
<1>2. CASE UNCHANGED vars
    <2>1. Awaits(t)
        BY <1>1, <1>2 DEF Awaited, vars
    <2>2. QED
        BY <1>2, <2>1 DEF Awaits, vars
<1>3. CASE Handle
    <2> DEFINE m == Head(to_target)
    <2>1. /\ m \in ToTarget /\ m.tag \in Tags
          /\ \A i \in 1 .. Len(to_init) : i \in 1 .. Len(to_init') /\ to_init'[i] = to_init[i]
          /\ \/ \E i \in 1 .. Len(to_init') : to_init'[i].tag = m.tag
             \/ m.type = "data" /\ ~m.F
             \/ m.tag \in lost'
          /\ lost \subseteq lost'
        BY <1>1, <1>3, HandleReplies
    <2>2. /\ m = to_target[1] /\ Len(to_target') = Len(to_target) - 1
          /\ \A i \in 1 .. Len(to_target) - 1 : to_target'[i] = to_target[i + 1]
        BY <1>a, <1>3, Taken DEF Handle
    <2>3. task' = task /\ burst' = burst
        BY <1>3 DEF Handle, initiator
    <2> HIDE DEF m
    <2>4. Awaits(t)
        BY <1>1, <2>1, <2>3 DEF Awaited
    <2>5. ASSUME NEW i \in 1 .. Len(to_target),
                 to_target[i].tag = t, to_target[i].type = "cmd" \/ to_target[i].F
          PROVE  Awaits(t)'
        <3>1. CASE i = 1
            <4>1. m.type = "cmd" => m.type # "data"
                OBVIOUS
            <4>2. \E j \in 1 .. Len(to_init') : to_init'[j].tag = t
                BY <1>1, <2>1, <2>2, <2>5, <3>1, <4>1
            <4>3. QED
                BY <4>2 DEF Awaits
        <3>2. CASE i # 1
            <4>1. i - 1 \in 1 .. Len(to_target') /\ to_target'[i - 1] = to_target[i]
                BY <1>a, <2>2, <3>2
            <4>2. QED
                BY <2>5, <4>1 DEF Awaits
        <3>3. QED
            BY <3>1, <3>2
    <2>6. QED
        BY <2>1, <2>3, <2>4, <2>5 DEF Awaits
<1>4. CASE Receive
    <2> DEFINE m == Head(to_init)
    <2>1. /\ m.tag \in Tags /\ m.type \in {"r2t", "resp"}
          /\ m.type = "r2t" => m.off \in Nat /\ m.len \in Nat \ {0}
        BY <1>1, <1>4, Received
    <2>2. /\ m = to_init[1] /\ Len(to_init') = Len(to_init) - 1
          /\ \A i \in 1 .. Len(to_init) - 1 : to_init'[i] = to_init[i + 1]
        BY <1>a, <1>4, Taken DEF Receive
    <2>3. UNCHANGED <<to_target, lost>>
        BY <1>4 DEF Receive
    <2>4. \/ task[m.tag] = None /\ UNCHANGED <<task, burst>>
          \/ task[m.tag] # None /\ m.type = "r2t" /\ task' = task
             /\ burst' = [burst EXCEPT ![m.tag] = [off |-> m.off, len |-> m.len]]
          \/ /\ task' = [task EXCEPT ![m.tag] = None]
             /\ burst' = [burst EXCEPT ![m.tag] = NoBurst]
        BY <1>4 DEF Receive
    <2> HIDE DEF m
    <2>5. CASE t = m.tag
        <3>1. task[m.tag] # None /\ m.type = "r2t"
              /\ burst' = [burst EXCEPT ![m.tag] = [off |-> m.off, len |-> m.len]]
            BY <1>1, <2>1, <2>4, <2>5 DEF TypeInv
        <3>2. burst'[t].len > 0
            BY <1>1, <2>1, <2>5, <3>1 DEF TypeInv
        <3>3. QED
            BY <3>2 DEF Awaits
    <2>6. CASE t # m.tag
        <3>1. task'[t] = task[t] /\ burst'[t] = burst[t]
            BY <1>1, <2>4, <2>6 DEF TypeInv
        <3>2. Awaits(t)
            BY <1>1, <2>3, <3>1 DEF Awaited
        <3>3. ASSUME NEW i \in 1 .. Len(to_init), to_init[i].tag = t
              PROVE  \E j \in 1 .. Len(to_init') : to_init'[j].tag = t
            <4>1. i # 1
                BY <2>2, <2>6, <3>3
            <4>2. i - 1 \in 1 .. Len(to_init') /\ to_init'[i - 1] = to_init[i]
                BY <1>a, <2>2, <4>1
            <4>3. QED
                BY <3>3, <4>2
        <3>4. QED
            BY <2>3, <3>1, <3>2, <3>3 DEF Awaits
    <2>7. QED
        BY <2>5, <2>6
<1>5. ASSUME NEW s \in Tags, NEW n \in Pieces, SendData(s, n) PROVE Awaits(t)'
    <2> DEFINE d == [type |-> "data", tag |-> s, off |-> burst[s].off, len |-> n,
                     F |-> burst[s].len = n, val |-> task[s].val]
    <2>1. /\ n \in Nat \ {0} /\ burst[s].len \in Nat /\ burst[s].len >= n
          /\ burst[s].off \in Nat /\ task[s].val \in 0 .. MaxCommands
        BY <1>1, <1>5, BurstOfTask
    <2>2. d \in ToTarget
        <3>1. (burst[s].len = n) \in BOOLEAN
            OBVIOUS
        <3>2. QED
            BY <2>1, <3>1 DEF ToTarget
    <2>3. to_target' = Append(to_target, d) /\ UNCHANGED <<to_init, task, lost>>
        BY <1>5 DEF SendData
    <2>4. burst' = [burst EXCEPT ![s] = [off |-> burst[s].off + n, len |-> burst[s].len - n]]
        BY <1>1, <1>5 DEF SendData, TypeInv
    <2>5. d.tag = s /\ (burst[s].len = n => d.F)
        OBVIOUS
    <2> HIDE DEF d
    <2>6. /\ Len(to_target') = Len(to_target) + 1 /\ to_target'[Len(to_target) + 1] = d
          /\ \A i \in 1 .. Len(to_target) : to_target'[i] = to_target[i]
        BY <1>a, <2>2, <2>3, Appended
    <2>7. Awaits(t)
        BY <1>1, <2>3 DEF Awaited
    <2>8. CASE t = s
        <3>1. CASE burst[s].len = n
            <4>1. Len(to_target) + 1 \in 1 .. Len(to_target')
                BY <1>a, <2>6
            <4>2. QED
                BY <2>5, <2>6, <2>8, <3>1, <4>1 DEF Awaits
        <3>2. CASE burst[s].len # n
            <4>1. burst'[t].len > 0
                BY <1>1, <2>1, <2>4, <2>8, <3>2 DEF TypeInv
            <4>2. QED
                BY <4>1 DEF Awaits
        <3>3. QED
            BY <3>1, <3>2
    <2>9. CASE t # s
        <3>1. burst'[t] = burst[t]
            BY <1>1, <2>4, <2>9 DEF TypeInv
        <3>2. \A i \in 1 .. Len(to_target) : i \in 1 .. Len(to_target')
            BY <1>a, <2>6
        <3>3. QED
            BY <2>3, <2>6, <2>7, <3>1, <3>2 DEF Awaits
    <2>10. QED
        BY <2>8, <2>9
<1>6. ASSUME NEW s \in Tags, NEW c \in Commands, Issue(s, c) PROVE Awaits(t)'
    <2> DEFINE d == [type |-> "cmd", tag |-> s, cmd |-> c, val |-> task'[s].val]
    <2>1. to_target' = Append(to_target, d) /\ UNCHANGED <<to_init, burst>> /\ lost' = lost \ {s}
        BY <1>6 DEF Issue
    <2>2. d.tag = s /\ d.type = "cmd"
        OBVIOUS
    <2> HIDE DEF d
    <2>3. /\ Len(to_target') = Len(to_target) + 1 /\ to_target'[Len(to_target) + 1] = d
          /\ \A i \in 1 .. Len(to_target) : to_target'[i] = to_target[i]
        BY <1>a, <2>1
    <2>4. \A i \in 1 .. Len(to_target) + 1 : i \in 1 .. Len(to_target')
        BY <1>a, <2>3
    <2>5. CASE t = s
        BY <1>a, <2>2, <2>3, <2>4, <2>5 DEF Awaits
    <2>6. CASE t # s
        <3>1. task'[t] = task[t] /\ t \notin lost
            BY <1>1, <1>6, <2>1, <2>6 DEF Issue, TypeInv
        <3>2. Awaits(t)
            BY <1>1, <3>1 DEF Awaited
        <3>3. QED
            BY <1>a, <2>1, <2>3, <2>4, <3>2 DEF Awaits
    <2>7. QED
        BY <2>5, <2>6
<1>7. QED
    BY <1>1, <1>2, <1>3, <1>4, <1>5, <1>6 DEF Next, Send

\* As long as a task is outstanding and no data of it was lost, something is
\* under way that can still end it: write_verify(), write_same() and the
\* DATA-OUT half of push_response() answer every PDU that the initiator waits
\* for an answer to, also when the layers below fail or a tag is used again.
THEOREM TasksNotForgotten == Spec => []TaskNotForgotten
<1>1. Init => Awaited
    BY DEF Init, Awaited
<1>2. QED
    BY <1>1, TypeInvInit, TypeStep, AwaitedStep, AwaitedIs, PTL DEF Spec

-----------------------------------------------------------------------------
(* The life of a tag that is used for one command c with serial number v.   *)

\* Where the messages of a tag are in a queue.
Mine(q, t) == {i \in 1 .. Len(q) : q[i].tag = t}

\* Everything with the tag is of that command.
Identity(t, c, v) ==
    /\ v # 0 => issued[v] = c
    /\ task[t] \in {None, [cmd |-> c, val |-> v]}
    /\ \A i \in Mine(to_target, t) :
         to_target[i].val = v /\ (to_target[i].type = "cmd" => to_target[i].cmd = c)
    /\ r2t[t] # None => r2t[t].cmd = c

\* Before the command arrives there is nothing else.
CommandAlone(t) ==
    \A i \in Mine(to_target, t) : to_target[i].type = "cmd" =>
        /\ Mine(to_target, t) = {i} /\ Mine(to_init, t) = {}
        /\ burst[t].len = 0 /\ r2t[t] = None /\ task[t] # None

Registered(t, c) ==
    r2t[t] # None => c.op = "write" /\ r2t[t].done + r2t[t].left = c.tl * BlockSize

\* DATA-OUTs come in order, each once, and are all after what has been done.
Arriving(t, c) ==
    \A i \in Mine(to_target, t) : to_target[i].type = "data" =>
        /\ to_target[i].off + to_target[i].len <= c.tl * BlockSize
        /\ to_target[i].F <=> to_target[i].off + to_target[i].len = c.tl * BlockSize
        /\ r2t[t] # None => r2t[t].done <= to_target[i].off
        /\ \A j \in Mine(to_target, t) : j < i =>
             to_target[j].off + to_target[j].len <= to_target[i].off

\* What is still to be sent comes after that.
Sending(t, c) ==
    burst[t].len > 0 =>
        /\ burst[t].off + burst[t].len = c.tl * BlockSize
        /\ r2t[t] # None => r2t[t].done <= burst[t].off
        /\ \A i \in Mine(to_target, t) : to_target[i].off + to_target[i].len <= burst[t].off

\* Not preceded by the answer that ends the task.
Live(t, j) ==
    /\ task[t] # None /\ j \in Mine(to_init, t)
    /\ \A k \in Mine(to_init, t) : k < j => to_init[k].type # "resp"

\* An R2T that will be followed is for what is left, and all there is.
Asked(t) ==
    \A j \in Mine(to_init, t) : Live(t, j) /\ to_init[j].type = "r2t" =>
        /\ Mine(to_target, t) = {} /\ burst[t].len = 0 /\ r2t[t] # None
        /\ to_init[j].off = r2t[t].done /\ to_init[j].len = r2t[t].left
        /\ \A k \in Mine(to_init, t) : j <= k

Life(t, c, v) ==
    /\ Identity(t, c, v) /\ CommandAlone(t)
    /\ Registered(t, c) /\ Arriving(t, c) /\ Sending(t, c) /\ Asked(t)

\* Nothing has the tag yet.
Unused(t) ==
    /\ task[t] = None /\ r2t[t] = None /\ burst[t].len = 0
    /\ Mine(to_target, t) = {} /\ Mine(to_init, t) = {}

\* The messages of t are the same in p as in q, k places further on.
Kept(q, p, t, k) ==
    /\ \A i \in Mine(p, t) : i + k \in Mine(q, t) /\ p[i] = q[i + k]
    /\ \A i \in Mine(q, t) : i - k \in Mine(p, t)

LEMMA MineInt == ASSUME NEW S, NEW q \in Seq(S), NEW t PROVE Mine(q, t) \subseteq Nat \ {0}
BY DEF Mine

LEMMA KeptPop ==
    ASSUME NEW S, NEW q \in Seq(S), q # <<>>, NEW t, Head(q).tag # t PROVE Kept(q, Tail(q), t, 1)
<1>1. /\ Head(q) = q[1] /\ Len(q) \in Nat \ {0} /\ Len(Tail(q)) = Len(q) - 1
      /\ \A i \in 1 .. Len(q) - 1 : Tail(q)[i] = q[i + 1]
    BY Taken
<1>2. ASSUME NEW i \in Mine(Tail(q), t) PROVE i + 1 \in Mine(q, t) /\ Tail(q)[i] = q[i + 1]
    BY <1>1 DEF Mine
<1>3. ASSUME NEW i \in Mine(q, t) PROVE i - 1 \in Mine(Tail(q), t)
    <2>1. i \in 1 .. Len(q) /\ q[i].tag = t /\ i # 1
        BY <1>1 DEF Mine
    <2>2. i - 1 \in 1 .. Len(q) - 1 /\ Tail(q)[i - 1] = q[(i - 1) + 1] /\ (i - 1) + 1 = i
        BY <1>1, <2>1
    <2>3. QED
        BY <1>1, <2>1, <2>2 DEF Mine
<1>4. QED
    BY <1>2, <1>3 DEF Kept

LEMMA KeptSame == ASSUME NEW S, NEW q \in Seq(S), NEW t PROVE Kept(q, q, t, 0)
BY DEF Kept, Mine

LEMMA PushMine ==
    ASSUME NEW S, NEW q \in Seq(S), NEW x \in S, NEW t
    PROVE  LET p == Append(q, x) IN
           /\ Mine(p, t) = Mine(q, t) \cup (IF x.tag = t THEN {Len(q) + 1} ELSE {})
           /\ \A i \in Mine(q, t) : p[i] = q[i] /\ i \in Nat /\ i <= Len(q)
           /\ p[Len(q) + 1] = x /\ Len(q) \in Nat
<1>1. /\ Len(Append(q, x)) = Len(q) + 1 /\ Append(q, x)[Len(q) + 1] = x /\ Len(q) \in Nat
      /\ \A i \in 1 .. Len(q) : Append(q, x)[i] = q[i]
    BY Appended
<1>2. \A i : i \in Mine(Append(q, x), t) <=> i \in Mine(q, t) \/ (x.tag = t /\ i = Len(q) + 1)
    BY <1>1 DEF Mine
<1>3. QED
    BY <1>1, <1>2 DEF Mine

LEMMA PushOwn ==
    ASSUME NEW S, NEW q \in Seq(S), NEW x \in S, NEW t, x.tag = t
    PROVE  /\ Mine(Append(q, x), t) = Mine(q, t) \cup {Len(q) + 1}
           /\ \A i \in Mine(q, t) : Append(q, x)[i] = q[i] /\ i \in Nat
<1>1. /\ Len(Append(q, x)) = Len(q) + 1 /\ Append(q, x)[Len(q) + 1] = x /\ Len(q) \in Nat
      /\ \A i \in 1 .. Len(q) : Append(q, x)[i] = q[i]
    BY Appended
<1>2. \A i : i \in Mine(Append(q, x), t) <=> i \in Mine(q, t) \/ i = Len(q) + 1
    BY <1>1 DEF Mine
<1>3. QED
    BY <1>1, <1>2 DEF Mine

LEMMA OwnAnswer ==
    ASSUME NEW q \in Seq(ToInit), NEW x \in ToInit, NEW t, x.tag = t
    PROVE  /\ Mine(Append(q, x), t) = Mine(q, t) \cup {Len(q) + 1}
           /\ \A i \in Mine(q, t) : Append(q, x)[i] = q[i] /\ i \in Nat
BY PushOwn, ZenonT(60)

LEMMA OwnPdu ==
    ASSUME NEW q \in Seq(ToTarget), NEW x \in ToTarget, NEW t, x.tag = t
    PROVE  /\ Mine(Append(q, x), t) = Mine(q, t) \cup {Len(q) + 1}
           /\ \A i \in Mine(q, t) : Append(q, x)[i] = q[i] /\ i \in Nat
BY PushOwn, ZenonT(60)

LEMMA KeptPush ==
    ASSUME NEW S, NEW q \in Seq(S), NEW x \in S, NEW t, x.tag # t PROVE Kept(q, Append(q, x), t, 0)
BY PushMine, MineInt DEF Kept

LEMMA PopMine ==
    ASSUME NEW S, NEW q \in Seq(S), q # <<>>, NEW t
    PROVE  /\ \A i \in Mine(Tail(q), t) : i \in Nat /\ i + 1 \in Mine(q, t) /\ Tail(q)[i] = q[i + 1]
           /\ \A i \in Mine(q, t) : i # 1 => i - 1 \in Mine(Tail(q), t)
           /\ Head(q).tag = t => 1 \in Mine(q, t) /\ q[1] = Head(q)
           /\ Len(q) \in Nat
<1>1. /\ Head(q) = q[1] /\ Len(q) \in Nat \ {0} /\ Len(Tail(q)) = Len(q) - 1
      /\ \A i \in 1 .. Len(q) - 1 : Tail(q)[i] = q[i + 1]
    BY Taken
<1>2. ASSUME NEW i \in Mine(Tail(q), t) PROVE i \in Nat /\ i + 1 \in Mine(q, t) /\ Tail(q)[i] = q[i + 1]
    BY <1>1 DEF Mine
<1>3. ASSUME NEW i \in Mine(q, t), i # 1 PROVE i - 1 \in Mine(Tail(q), t)
    <2>1. i \in 1 .. Len(q) /\ q[i].tag = t
        BY DEF Mine
    <2>2. i - 1 \in 1 .. Len(q) - 1 /\ Tail(q)[i - 1] = q[(i - 1) + 1] /\ (i - 1) + 1 = i
        BY <1>1, <1>3, <2>1
    <2>3. QED
        BY <1>1, <2>1, <2>2 DEF Mine
<1>4. Head(q).tag = t => 1 \in Mine(q, t)
    BY <1>1 DEF Mine
<1>5. QED
    BY <1>1, <1>2, <1>3, <1>4

\* A step that is of another tag.
Frame(t) ==
    /\ task'[t] = task[t] /\ burst'[t] = burst[t] /\ r2t'[t] = r2t[t]
    /\ t \in lost' <=> t \in lost
    /\ \E k \in {0, 1} : Kept(to_target, to_target', t, k)
    /\ \E k \in {0, 1} : Kept(to_init, to_init', t, k)

\* Commands that were issued stay on record.
Recorded == \A v \in 1 .. Len(issued) : v \in 1 .. Len(issued') /\ issued'[v] = issued[v]

LEMMA FrameLife ==
    ASSUME TypeInv, TypeInv', NEW t \in Tags, NEW c \in Commands, NEW v \in 0 .. Len(issued),
           Frame(t), Recorded, Life(t, c, v)
    PROVE  Life(t, c, v)'
<1>1. PICK k \in {0, 1} : Kept(to_target, to_target', t, k)
    BY DEF Frame
<1>2. PICK l \in {0, 1} : Kept(to_init, to_init', t, l)
    BY DEF Frame
<1>3. task'[t] = task[t] /\ burst'[t] = burst[t] /\ r2t'[t] = r2t[t]
    BY DEF Frame
<1>4. /\ Mine(to_target, t) \subseteq Nat /\ Mine(to_target', t) \subseteq Nat
      /\ Mine(to_init, t) \subseteq Nat /\ Mine(to_init', t) \subseteq Nat
    BY MineInt DEF TypeInv
<1>5. /\ \A i \in Mine(to_target', t) : i + k \in Mine(to_target, t) /\ to_target'[i] = to_target[i + k]
      /\ \A i \in Mine(to_target, t) : i - k \in Mine(to_target', t)
    BY <1>1 DEF Kept
<1>6. /\ \A i \in Mine(to_init', t) : i + l \in Mine(to_init, t) /\ to_init'[i] = to_init[i + l]
      /\ \A i \in Mine(to_init, t) : i - l \in Mine(to_init', t)
    BY <1>2 DEF Kept
<1>7. Identity(t, c, v)'
    <2>1. v # 0 => issued'[v] = c
        BY DEF Life, Identity, Recorded, TypeInv
    <2>2. QED
        BY <1>3, <1>5, <2>1 DEF Life, Identity
<1>8. CommandAlone(t)'
    <2>1. SUFFICES ASSUME NEW i \in Mine(to_target', t), to_target'[i].type = "cmd"
                   PROVE  /\ Mine(to_target', t) = {i} /\ Mine(to_init', t) = {}
                          /\ burst'[t].len = 0 /\ r2t'[t] = None /\ task'[t] # None
        BY DEF CommandAlone
    <2>2. /\ Mine(to_target, t) = {i + k} /\ Mine(to_init, t) = {}
          /\ burst[t].len = 0 /\ r2t[t] = None /\ task[t] # None
        BY <1>5, <2>1 DEF Life, CommandAlone
    <2>3. \A j \in Mine(to_target', t) : j = i
        BY <1>4, <1>5, <2>2
    <2>4. QED
        BY <1>3, <1>6, <2>1, <2>2, <2>3
<1>9. Registered(t, c)'
    BY <1>3 DEF Life, Registered
<1>10. Arriving(t, c)'
    <2>1. SUFFICES ASSUME NEW i \in Mine(to_target', t), to_target'[i].type = "data"
                   PROVE  /\ to_target'[i].off + to_target'[i].len <= c.tl * BlockSize
                          /\ to_target'[i].F <=>
                                to_target'[i].off + to_target'[i].len = c.tl * BlockSize
                          /\ r2t'[t] # None => r2t'[t].done <= to_target'[i].off
                          /\ \A j \in Mine(to_target', t) : j < i =>
                               to_target'[j].off + to_target'[j].len <= to_target'[i].off
        BY DEF Arriving
    <2>2. i + k \in Mine(to_target, t) /\ to_target[i + k].type = "data" /\ to_target'[i] = to_target[i + k]
        BY <1>5, <2>1
    <2>3. /\ to_target[i + k].off + to_target[i + k].len <= c.tl * BlockSize
          /\ to_target[i + k].F <=>
                to_target[i + k].off + to_target[i + k].len = c.tl * BlockSize
          /\ r2t[t] # None => r2t[t].done <= to_target[i + k].off
          /\ \A j \in Mine(to_target, t) : j < i + k =>
               to_target[j].off + to_target[j].len <= to_target[i + k].off
        BY <2>2 DEF Life, Arriving
    <2>4. ASSUME NEW j \in Mine(to_target', t), j < i
          PROVE  to_target'[j].off + to_target'[j].len <= to_target'[i].off
        <3>1. j + k \in Mine(to_target, t) /\ j + k < i + k /\ to_target'[j] = to_target[j + k]
            BY <1>4, <1>5, <2>4
        <3>2. QED
            BY <2>2, <2>3, <3>1
    <2>5. QED
        BY <1>3, <2>2, <2>3, <2>4
<1>11. Sending(t, c)'
    BY <1>3, <1>5 DEF Life, Sending
<1>12. Asked(t)'
    <2>1. SUFFICES ASSUME NEW j \in Mine(to_init', t), Live(t, j)', to_init'[j].type = "r2t"
                   PROVE  /\ Mine(to_target', t) = {} /\ burst'[t].len = 0 /\ r2t'[t] # None
                          /\ to_init'[j].off = r2t'[t].done /\ to_init'[j].len = r2t'[t].left
                          /\ \A i \in Mine(to_init', t) : j <= i
        BY DEF Asked
    <2>2. j + l \in Mine(to_init, t) /\ to_init'[j] = to_init[j + l]
        BY <1>6, <2>1
    <2>3. Live(t, j + l)
        <3>1. task[t] # None
            BY <1>3, <2>1 DEF Live
        <3>2. ASSUME NEW i \in Mine(to_init, t), i < j + l PROVE to_init[i].type # "resp"
            <4>1. i - l \in Mine(to_init', t) /\ i - l < j
                BY <1>4, <1>6, <3>2
            <4>2. to_init'[i - l] = to_init[(i - l) + l] /\ (i - l) + l = i
                BY <1>4, <1>6, <4>1
            <4>3. QED
                BY <2>1, <4>1, <4>2 DEF Live
        <3>3. QED
            BY <2>2, <3>1, <3>2 DEF Live
    <2>4. /\ Mine(to_target, t) = {} /\ burst[t].len = 0 /\ r2t[t] # None
          /\ to_init[j + l].off = r2t[t].done /\ to_init[j + l].len = r2t[t].left
          /\ \A i \in Mine(to_init, t) : j + l <= i
        BY <2>1, <2>2, <2>3 DEF Life, Asked
    <2>5. ASSUME NEW i \in Mine(to_init', t) PROVE j <= i
        <3>1. j + l <= i + l
            BY <1>6, <2>4
        <3>2. QED
            BY <1>4, <3>1
    <2>6. QED
        BY <1>3, <1>5, <2>2, <2>4, <2>5
<1>13. QED
    BY <1>7, <1>8, <1>9, <1>10, <1>11, <1>12 DEF Life

-----------------------------------------------------------------------------
(* Steps of other tags. *)

\* A step of Handle: W is what it writes.
HandleEffect(m, o, W) ==
    \/ m.type = "cmd" /\ CommandEffect(m, o, W)
    \/ m.type = "data" /\ DataEffect(m, W)
    \/ m.type = "data" /\ Loses(m, o) /\ W = {} /\ UNCHANGED <<disk, r2t, to_init>>

LEMMA HandleCases ==
    ASSUME TypeInv, Handle
    PROVE  LET m == Head(to_target) IN
           /\ m \in ToTarget /\ m.tag \in Tags /\ m.val \in Nat
           /\ to_target # <<>> /\ to_target' = Tail(to_target)
           /\ UNCHANGED initiator
           /\ \E o \in Outcomes :
                /\ \E W : HandleEffect(m, o, W)
                /\ lost' = IF Loses(m, o) THEN lost \cup {m.tag} ELSE lost
<1> DEFINE m == Head(to_target)
<1>1. to_target # <<>> /\ to_target' = Tail(to_target) /\ UNCHANGED initiator
    BY DEF Handle
<1>2. m \in ToTarget
    BY <1>1, Taken DEF TypeInv
<1>3. m.tag \in Tags /\ m.val \in Nat
    BY <1>2, GeometryAssumption DEF ToTarget
<1>4. PICK o \in Outcomes :
        /\ HandleCommand(m, o) \/ DropData(m) \/ DataFailed(m, o) \/ DataWritten(m, o)
        /\ lost' = IF Loses(m, o) THEN lost \cup {m.tag} ELSE lost
    BY DEF Handle
<1> HIDE DEF m
<1>5. \E W : HandleEffect(m, o, W)
    <2>1. CASE HandleCommand(m, o)
        BY <1>2, <2>1, CommandEffects DEF HandleEffect
    <2>2. CASE DropData(m)
        <3>1. HandleEffect(m, o, {})
            BY <2>2 DEF DropData, HandleEffect, Loses, target
        <3>2. QED
            BY <3>1
    <2>3. CASE DataFailed(m, o) \/ DataWritten(m, o)
        BY <1>2, <2>3, DataEffects DEF HandleEffect
    <2>4. QED
        BY <1>4, <2>1, <2>2, <2>3
<1>6. QED
    BY <1>1, <1>2, <1>3, <1>4, <1>5 DEF m

\* The counters of a transfer do not wrap: what arrives is what is left.
CounterType == [cmd : Commands, done : Nat, left : Nat]

LEMMA CountersNat ==
    ASSUME TypeInv, NEW m \in ToTarget, m.type = "data", r2t[m.tag] # None
    PROVE  /\ m.tag \in Tags /\ m.len \in Nat /\ m.off \in Nat
           /\ r2t[m.tag] \in CounterType /\ Uint32 \in Nat \ {0}
           /\ (r2t[m.tag].done + m.len) % Uint32 \in Nat
           /\ (r2t[m.tag].left - m.len) % Uint32 \in Nat
<1>1. m.tag \in Tags /\ m.len \in Nat /\ m.off \in Nat
    BY DEF ToTarget
<1>2. r2t[m.tag] \in CounterType
    BY <1>1 DEF TypeInv, CounterType
<1>3. r2t[m.tag].cmd \in Commands /\ r2t[m.tag].done \in Nat /\ r2t[m.tag].left \in Nat
    BY <1>2 DEF CounterType
<1>4. Uint32 \in Nat /\ r2t[m.tag].cmd.tl * BlockSize < Uint32 /\ r2t[m.tag].cmd.tl * BlockSize \in Nat
    BY <1>3, Uint32Assumption, CommandFacts, Geometry
<1>5. Uint32 \in Nat \ {0} /\ r2t[m.tag].done + m.len \in Int /\ r2t[m.tag].left - m.len \in Int
    BY <1>1, <1>3, <1>4
<1>6. QED
    BY <1>1, <1>2, <1>5, ModNat

\* It sends at most two PDUs, with the tag of what it handles, and leaves the
\* other transfers alone.
LEMMA HandleOthers ==
    ASSUME TypeInv, NEW m \in ToTarget, NEW o, NEW W, HandleEffect(m, o, W),
           NEW t \in Tags, t # m.tag
    PROVE  r2t'[t] = r2t[t] /\ Kept(to_init, to_init', t, 0)
<1>0. m.tag \in Tags /\ to_init \in Seq(ToInit)
    BY DEF ToTarget, TypeInv
<1>1. ASSUME NEW s \in Statuses, to_init' = to_init \o <<Resp(m.tag, s)>>
      PROVE  Kept(to_init, to_init', t, 0)
    <2>1. Resp(m.tag, s) \in ToInit /\ Resp(m.tag, s).tag # t
        BY <1>0, RespType DEF Resp
    <2>2. to_init' = Append(to_init, Resp(m.tag, s))
        BY <1>0, <1>1, <2>1, Appended
    <2>3. QED
        BY <1>0, <2>1, <2>2, KeptPush
<1>2. ASSUME NEW d \in Nat, NEW l \in Nat \ {0}, to_init' = to_init \o <<R2T(m.tag, d, l)>>
      PROVE  Kept(to_init, to_init', t, 0)
    <2>1. R2T(m.tag, d, l) \in ToInit /\ R2T(m.tag, d, l).tag # t
        BY <1>0, R2TType DEF R2T
    <2>2. to_init' = Append(to_init, R2T(m.tag, d, l))
        BY <1>0, <1>2, <2>1, Appended
    <2>3. QED
        BY <1>0, <2>1, <2>2, KeptPush
<1>3. to_init' = to_init => Kept(to_init, to_init', t, 0)
    BY <1>0, KeptSame
<1>4. CASE m.type = "cmd" /\ CommandEffect(m, o, W)
    <2>1. CASE Answers(m, o, W)
        BY <1>1, <2>1 DEF Answers
    <2>2. CASE Continues(m, W)
        <3>1. r2t'[t] = r2t[t]
            BY <1>0, <2>2 DEF Continues, TypeInv
        <3>2. QED
            BY <1>2, <2>2, <3>1 DEF Continues
    <2>3. CASE Forgets(m, o)
        BY <1>3, <2>3 DEF Forgets
    <2>4. QED
        BY <1>4, <2>1, <2>2, <2>3 DEF CommandEffect
<1>5. CASE m.type = "data" /\ DataEffect(m, W)
    <2>1. CASE Fails(m, W)
        BY <1>1, <2>1 DEF Fails, Statuses
    <2>2. CASE Takes(m)
        <3> DEFINE done == (r2t[m.tag].done + m.len) % Uint32
                   left == (r2t[m.tag].left - m.len) % Uint32
        <3>1. done \in Nat /\ left \in Nat
            BY <1>5, CountersNat DEF DataEffect
        <3>2. \/ to_init' = to_init \o <<Resp(m.tag, "good")>>
              \/ left # 0 /\ to_init' = to_init \o <<Resp(m.tag, "good"), R2T(m.tag, done, left)>>
              \/ to_init' = to_init
            BY <2>2 DEF Takes
        <3>3. r2t'[t] = r2t[t]
            BY <1>0, <2>2 DEF Takes, TypeInv
        <3> HIDE DEF done, left
        <3>4. CASE to_init' = to_init \o <<Resp(m.tag, "good")>>
            BY <1>1, <3>3, <3>4 DEF Statuses
        <3>5. CASE left # 0 /\ to_init' = to_init \o <<Resp(m.tag, "good"), R2T(m.tag, done, left)>>
            <4>1. Resp(m.tag, "good") \in ToInit /\ Resp(m.tag, "good").tag # t
                BY <1>0, RespType DEF Resp, Statuses
            <4>2. R2T(m.tag, done, left) \in ToInit /\ R2T(m.tag, done, left).tag # t
                BY <1>0, <3>1, <3>5, R2TType DEF R2T
            <4> DEFINE p == Append(to_init, Resp(m.tag, "good"))
            <4>3. to_init' = Append(p, R2T(m.tag, done, left))
                BY <1>0, <3>5, <4>1, <4>2, AppendedTwo
            <4>4. p \in Seq(ToInit) /\ Kept(to_init, p, t, 0)
                BY <1>0, <4>1, Appended, KeptPush
            <4> HIDE DEF p
            <4>5. Kept(p, to_init', t, 0)
                BY <4>2, <4>3, <4>4, KeptPush
            <4>6. Mine(to_init, t) \subseteq Nat /\ Mine(p, t) \subseteq Nat
                BY <1>0, <4>4, MineInt
            <4>7. \A i \in Nat : i + 0 = i /\ i - 0 = i
                OBVIOUS
            <4>8. /\ \A i \in Mine(to_init', t) : i \in Mine(p, t) /\ to_init'[i] = p[i]
                  /\ \A i \in Mine(p, t) : i \in Mine(to_init', t)
                  /\ \A i \in Mine(p, t) : i \in Mine(to_init, t) /\ p[i] = to_init[i]
                  /\ \A i \in Mine(to_init, t) : i \in Mine(p, t)
                <5>1. Mine(to_init', t) \subseteq Nat
                    <6>1. to_init' \in Seq(ToInit)
                        BY <4>2, <4>3, <4>4, Appended
                    <6>2. QED
                        BY <6>1, MineInt
                <5>2. QED
                    BY <4>4, <4>5, <4>6, <4>7, <5>1 DEF Kept
            <4>9. Kept(to_init, to_init', t, 0)
                BY <4>6, <4>7, <4>8 DEF Kept
            <4>10. QED
                BY <3>3, <4>9
        <3>6. QED
            <4>1. CASE to_init' = to_init
                BY <1>3, <3>3, <4>1
            <4>2. QED
                BY <3>2, <3>4, <3>5, <4>1, Zenon
    <2>3. QED
        BY <1>5, <2>1, <2>2 DEF DataEffect, Fails
<1>6. CASE UNCHANGED <<disk, r2t, to_init>>
    BY <1>3, <1>6
<1>7. QED
    BY <1>4, <1>5, <1>6 DEF HandleEffect

LEMMA HandleFrame ==
    ASSUME TypeInv, Handle, NEW t \in Tags, t # Head(to_target).tag PROVE Frame(t)
<1> DEFINE m == Head(to_target)
<1>1. /\ m \in ToTarget /\ m.tag \in Tags
      /\ to_target # <<>> /\ to_target' = Tail(to_target)
      /\ UNCHANGED initiator
    BY HandleCases
<1>2. PICK o \in Outcomes : /\ \E W : HandleEffect(m, o, W)
                            /\ lost' = IF Loses(m, o) THEN lost \cup {m.tag} ELSE lost
    BY HandleCases
<1>3. PICK W : HandleEffect(m, o, W)
    BY <1>2
<1>4. Kept(to_target, to_target', t, 1)
    BY <1>1, KeptPop DEF TypeInv
<1> HIDE DEF m
<1>5. r2t'[t] = r2t[t] /\ Kept(to_init, to_init', t, 0)
    BY <1>1, <1>3, HandleOthers DEF m
<1>6. t \in lost' <=> t \in lost
    BY <1>2 DEF m
<1>7. QED
    BY <1>1, <1>4, <1>5, <1>6 DEF Frame, initiator

LEMMA ReceiveFrame ==
    ASSUME TypeInv, Receive, NEW t \in Tags, t # Head(to_init).tag PROVE Frame(t)
<1> DEFINE m == Head(to_init)
<1>1. m.tag \in Tags
    BY Received
<1>2. Kept(to_init, to_init', t, 1)
    BY KeptPop DEF TypeInv, Receive
<1>3. UNCHANGED <<to_target, lost, r2t>>
    BY DEF Receive, target
<1>4. Kept(to_target, to_target', t, 0)
    BY <1>3, KeptSame DEF TypeInv
<1>5. task'[t] = task[t] /\ burst'[t] = burst[t]
    BY <1>1 DEF Receive, TypeInv
<1>6. QED
    BY <1>2, <1>3, <1>4, <1>5 DEF Frame

LEMMA SendFrame ==
    ASSUME TypeInv, NEW s \in Tags, NEW n \in Pieces, SendData(s, n), NEW t \in Tags, t # s
    PROVE  Frame(t)
<1> DEFINE d == [type |-> "data", tag |-> s, off |-> burst[s].off, len |-> n,
                 F |-> burst[s].len = n, val |-> task[s].val]
<1>1. /\ n \in Nat \ {0} /\ burst[s].len \in Nat /\ burst[s].off \in Nat
      /\ task[s].val \in 0 .. MaxCommands
    BY BurstOfTask
<1>2. d \in ToTarget /\ d.tag # t
    <2>1. (burst[s].len = n) \in BOOLEAN
        OBVIOUS
    <2>2. QED
        BY <1>1, <2>1 DEF ToTarget
<1>3. to_target' = Append(to_target, d) /\ UNCHANGED <<r2t, to_init, task, lost>>
    BY DEF SendData, target
<1>4. burst'[t] = burst[t]
    BY DEF SendData, TypeInv
<1> HIDE DEF d
<1>5. Kept(to_target, to_target', t, 0) /\ Kept(to_init, to_init', t, 0)
    BY <1>2, <1>3, KeptPush, KeptSame DEF TypeInv
<1>6. QED
    BY <1>3, <1>4, <1>5 DEF Frame

\* What Issue does, with the new task written out.
LEMMA Issued ==
    ASSUME TypeInv, NEW s \in Tags, NEW c \in Commands, Issue(s, c)
    PROVE  \E v \in 0 .. Len(issued') :
             /\ task' = [task EXCEPT ![s] = [cmd |-> c, val |-> v]]
             /\ to_target' = Append(to_target, [type |-> "cmd", tag |-> s, cmd |-> c, val |-> v])
             /\ [type |-> "cmd", tag |-> s, cmd |-> c, val |-> v] \in ToTarget
             /\ v # 0 => issued'[v] = c
             /\ allowed' = [u \in Units |-> IF u \in Reach(c) THEN allowed[u] \cup {v} ELSE allowed[u]]
<1> DEFINE v == IF c.unmap THEN 0 ELSE Len(issued')
<1>1. issued' = Append(issued, c) /\ issued \in Seq(Commands) /\ Len(issued) < MaxCommands
    BY DEF Issue, TypeInv
<1>2. /\ Len(issued') = Len(issued) + 1 /\ Len(issued) \in Nat /\ issued'[Len(issued')] = c
      /\ Len(issued') <= MaxCommands
    BY <1>1, GeometryAssumption
<1>3. v \in 0 .. Len(issued') /\ v \in 0 .. MaxCommands /\ (v # 0 => issued'[v] = c)
    BY <1>2, GeometryAssumption
<1>4. task' = [task EXCEPT ![s] = [cmd |-> c, val |-> v]] /\ task'[s].val = v
    BY DEF Issue, TypeInv
<1>5. /\ to_target' = Append(to_target, [type |-> "cmd", tag |-> s, cmd |-> c, val |-> v])
      /\ allowed' = [u \in Units |-> IF u \in Reach(c) THEN allowed[u] \cup {v} ELSE allowed[u]]
    BY <1>4 DEF Issue
<1> HIDE DEF v
<1>6. [type |-> "cmd", tag |-> s, cmd |-> c, val |-> v] \in ToTarget
    BY <1>3 DEF ToTarget
<1>7. QED
    BY <1>3, <1>4, <1>5, <1>6

LEMMA IssueFrame ==
    ASSUME TypeInv, NEW s \in Tags, NEW c \in Commands, Issue(s, c), NEW t \in Tags, t # s
    PROVE  Frame(t)
<1>1. PICK v \in 0 .. Len(issued') :
        /\ task' = [task EXCEPT ![s] = [cmd |-> c, val |-> v]]
        /\ to_target' = Append(to_target, [type |-> "cmd", tag |-> s, cmd |-> c, val |-> v])
        /\ [type |-> "cmd", tag |-> s, cmd |-> c, val |-> v] \in ToTarget
    BY Issued
<1>2. UNCHANGED <<r2t, to_init, burst>> /\ lost' = lost \ {s}
    BY DEF Issue, target
<1>3. Kept(to_target, to_target', t, 0) /\ Kept(to_init, to_init', t, 0)
    BY <1>1, <1>2, KeptPush, KeptSame DEF TypeInv
<1>4. task'[t] = task[t]
    BY <1>1 DEF TypeInv
<1>5. QED
    BY <1>2, <1>3, <1>4 DEF Frame

-----------------------------------------------------------------------------
(* Steps of the tag itself. *)

\* While the initiator keeps to the protocol the counters do not wrap.
LEMMA Counters ==
    ASSUME TypeInv, NEW t \in Tags, NEW c \in Commands, NEW v, Life(t, c, v),
           1 \in Mine(to_target, t), to_target[1] \in ToTarget, to_target[1].type = "data",
           r2t[t] # None
    PROVE  LET m == to_target[1] IN
           /\ c.op = "write" /\ c.tl * BlockSize \in Nat
           /\ r2t[t] \in CounterType /\ r2t[t].cmd = c /\ m.off \in Nat /\ m.len \in Nat
           /\ r2t[t].done <= m.off /\ m.off + m.len <= c.tl * BlockSize
           /\ m.F <=> m.off + m.len = c.tl * BlockSize
           /\ r2t[t].done + r2t[t].left = c.tl * BlockSize
           /\ (r2t[t].done + m.len) % Uint32 = r2t[t].done + m.len
           /\ (r2t[t].left - m.len) % Uint32 = r2t[t].left - m.len
           /\ r2t[t].left - m.len \in Nat
<1> DEFINE m == to_target[1]
           T == c.tl * BlockSize
<1>1. r2t[t] \in CounterType /\ m.off \in Nat /\ m.len \in Nat
    BY DEF CounterType, TypeInv, ToTarget
<1>2. T \in Nat /\ T < Uint32 /\ Uint32 \in Nat
    BY Uint32Assumption, CommandFacts, Geometry
<1>3. /\ r2t[t].done <= m.off /\ m.off + m.len <= T
      /\ m.F <=> m.off + m.len = T
      /\ r2t[t].done + r2t[t].left = T /\ c.op = "write" /\ r2t[t].cmd = c
    BY DEF Life, Arriving, Registered, Identity
<1> HIDE DEF m, T
<1>4. /\ r2t[t].done \in Nat /\ r2t[t].left \in Nat
    BY <1>1 DEF CounterType
<1>5. /\ r2t[t].done + m.len \in 0 .. Uint32 - 1 /\ r2t[t].left - m.len \in 0 .. Uint32 - 1
    BY <1>1, <1>2, <1>3, <1>4
<1>6. \A x \in 0 .. Uint32 - 1 : x % Uint32 = x
    BY <1>2
<1>7. QED
    BY <1>1, <1>2, <1>3, <1>4, <1>5, <1>6 DEF m, T

\* The PDU is taken from the queue.
TakesPdu(t, type) ==
    /\ to_target # <<>> /\ to_target' = Tail(to_target)
    /\ Head(to_target).tag = t /\ Head(to_target).type = type

\* What may become of a transfer, ...
Counted(t, len) ==
    \/ r2t'[t] = None \/ r2t'[t] = r2t[t]
    \/ /\ r2t[t] # None /\ r2t'[t] # None /\ r2t'[t].cmd = r2t[t].cmd
       /\ r2t'[t].done = r2t[t].done + len /\ r2t'[t].left = r2t[t].left - len

\* ... and what is sent, when a DATA-OUT is taken.
Sent(x, y) ==
    \/ to_init' = to_init
    \/ to_init' = Append(to_init, x)
    \/ to_init' = Append(Append(to_init, x), y)

\* The target takes a DATA-OUT of the tag.
LEMMA DataLife ==
    ASSUME TypeInv, TypeInv', NEW t \in Tags, NEW c \in Commands, NEW v \in 0 .. Len(issued),
           Life(t, c, v), UNCHANGED <<task, burst, issued>>,
           TakesPdu(t, "data"), Counted(t, to_target[1].len),
           NEW x \in ToInit, NEW y \in ToInit, x.tag = t, y.tag = t, x.type = "resp", Sent(x, y)
    PROVE  Life(t, c, v)'
<1> DEFINE m == to_target[1]
           T == c.tl * BlockSize
<1>1. /\ \A i \in Mine(to_target', t) : /\ i \in Nat /\ i + 1 \in Mine(to_target, t)
                                        /\ to_target'[i] = to_target[i + 1]
      /\ \A i \in Mine(to_target, t) : i # 1 => i - 1 \in Mine(to_target', t)
      /\ 1 \in Mine(to_target, t) /\ m = Head(to_target)
    <2>1. to_target \in Seq(ToTarget)
        BY DEF TypeInv
    <2>2. /\ \A i \in Mine(Tail(to_target), t) : /\ i \in Nat /\ i + 1 \in Mine(to_target, t)
                                                 /\ Tail(to_target)[i] = to_target[i + 1]
          /\ \A i \in Mine(to_target, t) : i # 1 => i - 1 \in Mine(Tail(to_target), t)
          /\ Head(to_target).tag = t => 1 \in Mine(to_target, t) /\ to_target[1] = Head(to_target)
        BY <2>1, PopMine DEF TakesPdu
    <2>3. QED
        BY <2>2 DEF TakesPdu
<1>2. m \in ToTarget /\ m.type = "data" /\ m.off \in Nat /\ m.len \in Nat /\ m.tag = t
    <2>1. m \in ToTarget /\ m.type = "data"
        BY <1>1, Taken DEF TypeInv, TakesPdu
    <2>2. QED
        BY <1>1, <2>1 DEF ToTarget, TakesPdu
<1> HIDE DEF m, T
<1>3. \A i \in Mine(to_target', t) : i \in Nat /\ i > 0
    <2>1. to_target' \in Seq(ToTarget)
        BY DEF TypeInv
    <2>2. Mine(to_target', t) \subseteq Nat \ {0}
        BY <2>1, MineInt
    <2>3. QED
        BY <2>2
<1>4. /\ Mine(to_target, t) \subseteq Nat \ {0} /\ Mine(to_init, t) \subseteq Nat \ {0}
      /\ Len(to_init) \in Nat /\ to_init \in Seq(ToInit)
    BY MineInt DEF TypeInv
<1>5. \A i \in Mine(to_target, t) : to_target[i].type = "data" /\ to_target[i] \in ToTarget
    <2>1. \A i \in Mine(to_target, t) : to_target[i].type # "cmd"
        BY <1>1, <1>2 DEF Life, CommandAlone, m
    <2>2. \A i \in Mine(to_target, t) : to_target[i] \in ToTarget
        BY DEF TypeInv, Mine
    <2>3. QED
        BY <2>1, <2>2 DEF ToTarget
<1>6. \A i \in Mine(to_target, t) : to_target[i].off \in Nat /\ to_target[i].len \in Nat
    BY <1>5 DEF ToTarget
<1>7. Identity(t, c, v)'
    <2>1. r2t'[t] # None => r2t'[t].cmd = c
        BY DEF Counted, Life, Identity
    <2>2. QED
        BY <1>1, <2>1 DEF Life, Identity
<1>8. CommandAlone(t)'
    BY <1>1, <1>5 DEF CommandAlone
<1>9. Registered(t, c)'
    <2>1. CASE r2t'[t] = None \/ r2t'[t] = r2t[t]
        BY <2>1 DEF Life, Registered
    <2>2. CASE /\ r2t[t] # None /\ r2t'[t] # None
               /\ r2t'[t].done = r2t[t].done + m.len /\ r2t'[t].left = r2t[t].left - m.len
        <3>1. r2t[t].done \in Nat /\ r2t[t].left \in Nat
            BY <2>2 DEF TypeInv
        <3>2. c.op = "write" /\ r2t[t].done + r2t[t].left = T
            BY <2>2 DEF Life, Registered, T
        <3>3. r2t'[t].done + r2t'[t].left = T
            BY <1>2, <2>2, <3>1, <3>2
        <3>4. QED
            BY <3>2, <3>3 DEF Registered, T
    <2>3. QED
        BY <1>1, <2>1, <2>2 DEF Counted, m
<1>10. r2t'[t] # None => /\ r2t'[t].done \in Nat /\ r2t[t] # None
                         /\ r2t'[t].done <= m.off + m.len
    <2>1. SUFFICES ASSUME r2t'[t] # None PROVE r2t'[t].done \in Nat /\ r2t[t] # None
                                               /\ r2t'[t].done <= m.off + m.len
        OBVIOUS
    <2>2. r2t[t] # None /\ r2t[t].done <= m.off
        BY <1>1, <1>2, <2>1 DEF Life, Arriving, Counted, m
    <2>3. r2t[t].done \in Nat /\ r2t'[t].done \in Nat
        BY <2>1, <2>2 DEF TypeInv
    <2>4. QED
        BY <1>1, <1>2, <2>1, <2>2, <2>3 DEF Counted, m
<1>11. Arriving(t, c)'
    <2>1. SUFFICES ASSUME NEW i \in Mine(to_target', t), to_target'[i].type = "data"
                   PROVE  /\ to_target'[i].off + to_target'[i].len <= T
                          /\ to_target'[i].F <=> to_target'[i].off + to_target'[i].len = T
                          /\ r2t'[t] # None => r2t'[t].done <= to_target'[i].off
                          /\ \A j \in Mine(to_target', t) : j < i =>
                               to_target'[j].off + to_target'[j].len <= to_target'[i].off
        BY DEF Arriving, T
    <2>2. /\ i + 1 \in Mine(to_target, t) /\ to_target'[i] = to_target[i + 1]
          /\ to_target[i + 1].type = "data"
          /\ to_target[i + 1].off \in Nat
        BY <1>1, <1>6, <2>1
    <2>3. /\ to_target[i + 1].off + to_target[i + 1].len <= T
          /\ to_target[i + 1].F <=> to_target[i + 1].off + to_target[i + 1].len = T
          /\ \A j \in Mine(to_target, t) : j < i + 1 =>
               to_target[j].off + to_target[j].len <= to_target[i + 1].off
        BY <2>2 DEF Life, Arriving, T, m
    <2>4. m.off + m.len <= to_target[i + 1].off
        <3>1. 1 < i + 1
            BY <1>1, <1>3
        <3>2. QED
            BY <1>1, <2>3, <3>1 DEF m
    <2>5. ASSUME NEW j \in Mine(to_target', t), j < i
          PROVE  to_target'[j].off + to_target'[j].len <= to_target'[i].off
        <3>1. j + 1 \in Mine(to_target, t) /\ j + 1 < i + 1 /\ to_target'[j] = to_target[j + 1]
            BY <1>1, <1>3, <2>5
        <3>2. QED
            BY <2>2, <2>3, <3>1
    <2>6. r2t'[t] # None => r2t'[t].done <= to_target'[i].off
        BY <1>2, <1>10, <2>2, <2>4
    <2>7. QED
        BY <2>2, <2>3, <2>5, <2>6
<1>12. Sending(t, c)'
    <2>1. SUFFICES ASSUME burst[t].len > 0
                   PROVE  /\ burst[t].off + burst[t].len = T
                          /\ r2t'[t] # None => r2t'[t].done <= burst[t].off
                          /\ \A i \in Mine(to_target', t) :
                               to_target'[i].off + to_target'[i].len <= burst[t].off
        BY DEF Sending, T
    <2>2. /\ burst[t].off + burst[t].len = T /\ burst[t].off \in Nat
          /\ \A i \in Mine(to_target, t) : to_target[i].off + to_target[i].len <= burst[t].off
        BY <2>1 DEF Life, Sending, TypeInv, T
    <2>3. m.off + m.len <= burst[t].off
        BY <1>1, <2>2 DEF m
    <2>4. r2t'[t] # None => r2t'[t].done <= burst[t].off
        BY <1>2, <1>10, <2>2, <2>3
    <2>5. QED
        BY <1>1, <2>2, <2>4
<1>13. Asked(t)'
    <2>1. \A j \in Mine(to_init, t) : ~(Live(t, j) /\ to_init[j].type = "r2t")
        BY <1>1 DEF Life, Asked
    <2>2. CASE to_init' = to_init
        BY <2>1, <2>2 DEF Asked, Live
    <2> DEFINE p == Append(to_init, x)
               n == Len(to_init) + 1
    <2>3. /\ Mine(p, t) = Mine(to_init, t) \cup {n} /\ p[n] = x
          /\ \A i \in Mine(to_init, t) : p[i] = to_init[i] /\ i \in Nat /\ i <= Len(to_init)
          /\ p \in Seq(ToInit) /\ Len(p) = n
        BY <1>4, PushMine, Appended
    <2> HIDE DEF p
    <2>4. CASE to_init' = p
        <3>1. ASSUME NEW j \in Mine(to_init', t), Live(t, j)', to_init'[j].type = "r2t" PROVE FALSE
            <4>1. j \in Mine(to_init, t) /\ to_init[j].type = "r2t"
                BY <2>3, <2>4, <3>1
            <4>2. Live(t, j)
                BY <2>3, <2>4, <3>1, <4>1 DEF Live
            <4>3. QED
                BY <2>1, <4>1, <4>2
        <3>2. QED
            BY <3>1 DEF Asked
    <2>5. CASE to_init' = Append(p, y)
        <3>0. /\ Mine(to_init', t) = Mine(p, t) \cup {n + 1}
              /\ \A i \in Mine(p, t) : to_init'[i] = p[i] /\ i \in Nat
            <4>1. p \in Seq(ToInit) /\ y \in ToInit /\ y.tag = t
                BY <2>3
            <4>2. /\ Mine(Append(p, y), t) = Mine(p, t) \cup {Len(p) + 1}
                  /\ \A i \in Mine(p, t) : Append(p, y)[i] = p[i] /\ i \in Nat
                <5>1. \A q \in Seq(ToInit) :
                        /\ Mine(Append(q, y), t) = Mine(q, t) \cup {Len(q) + 1}
                        /\ \A i \in Mine(q, t) : Append(q, y)[i] = q[i] /\ i \in Nat
                    BY OwnAnswer
                <5>2. QED
                    BY <4>1, <5>1
            <4>3. QED
                BY <2>3, <2>5, <4>2
        <3>1. ASSUME NEW j \in Mine(to_init', t), Live(t, j)', to_init'[j].type = "r2t" PROVE FALSE
            <4>0. n \in Mine(to_init', t) /\ to_init'[n].type = "resp" /\ n < n + 1
                BY <1>4, <2>3, <3>0
            <4>1. j # n + 1
                BY <3>1, <4>0 DEF Live
            <4>2. j \in Mine(to_init, t) /\ to_init[j].type = "r2t"
                BY <2>3, <3>0, <3>1, <4>1
            <4>3. Live(t, j)
                BY <2>3, <3>0, <3>1, <4>2 DEF Live
            <4>4. QED
                BY <2>1, <4>2, <4>3
        <3>2. QED
            BY <3>1 DEF Asked
    <2>6. QED
        BY <2>2, <2>4, <2>5 DEF p, Sent
<1>14. QED
    BY <1>7, <1>8, <1>9, <1>11, <1>12, <1>13 DEF Life

\* The target takes the command.
LEMMA CommandLife ==
    ASSUME TypeInv, TypeInv', NEW t \in Tags, NEW c \in Commands, NEW v \in 0 .. Len(issued),
           Life(t, c, v), UNCHANGED <<task, burst, issued>>,
           TakesPdu(t, "cmd"), NEW x \in ToInit, x.tag = t,
           \/ r2t'[t] = r2t[t] /\ to_init' = to_init
           \/ r2t'[t] = r2t[t] /\ x.type = "resp" /\ to_init' = Append(to_init, x)
           \/ /\ c.op = "write" /\ x.type = "r2t" /\ to_init' = Append(to_init, x)
              /\ r2t'[t] = [cmd |-> c, done |-> x.off, left |-> x.len]
              /\ x.off + x.len = c.tl * BlockSize
    PROVE  /\ Life(t, c, v)' /\ r2t[t] = None /\ Mine(to_target', t) = {} /\ Mine(to_init, t) = {}
           /\ burst[t].len = 0
<1>1. /\ \A i \in Mine(to_target', t) : i \in Nat /\ i + 1 \in Mine(to_target, t)
      /\ 1 \in Mine(to_target, t) /\ to_target[1] = Head(to_target)
    <2>1. to_target \in Seq(ToTarget)
        BY DEF TypeInv
    <2>2. /\ \A i \in Mine(Tail(to_target), t) : i \in Nat /\ i + 1 \in Mine(to_target, t)
          /\ Head(to_target).tag = t => 1 \in Mine(to_target, t) /\ to_target[1] = Head(to_target)
        BY <2>1, PopMine DEF TakesPdu
    <2>3. QED
        BY <2>2 DEF TakesPdu
<1>2. /\ Mine(to_target, t) = {1} /\ Mine(to_init, t) = {}
      /\ burst[t].len = 0 /\ r2t[t] = None /\ task[t] # None
    BY <1>1 DEF Life, CommandAlone, TakesPdu
<1>3. Mine(to_target', t) = {}
    <2>1. \A i \in Mine(to_target', t) : i \in Nat /\ i + 1 = 1 /\ i \in Nat \ {0}
        BY <1>1, <1>2, MineInt DEF TypeInv
    <2>2. QED
        BY <2>1
<1>4. CASE r2t'[t] = r2t[t] /\ (to_init' = to_init \/ (x.type = "resp" /\ to_init' = Append(to_init, x)))
    <2>1. \A j \in Mine(to_init', t) : to_init'[j].type = "resp"
        <3>1. to_init \in Seq(ToInit)
            BY DEF TypeInv
        <3>2. /\ Mine(Append(to_init, x), t) = Mine(to_init, t) \cup {Len(to_init) + 1}
              /\ Append(to_init, x)[Len(to_init) + 1] = x
            BY <3>1, PushMine
        <3>3. QED
            BY <1>2, <1>4, <3>2
    <2>2. QED
        BY <1>2, <1>3, <1>4, <2>1
           DEF Life, Identity, CommandAlone, Registered, Arriving, Sending, Asked
<1>5. CASE /\ c.op = "write" /\ x.type = "r2t" /\ to_init' = Append(to_init, x)
           /\ r2t'[t] = [cmd |-> c, done |-> x.off, left |-> x.len]
           /\ x.off + x.len = c.tl * BlockSize
    <2>1. /\ r2t'[t] # None /\ r2t'[t].cmd = c /\ r2t'[t].done = x.off /\ r2t'[t].left = x.len
        <3>1. x.off \in Nat /\ x.len \in Nat
            BY <1>5 DEF ToInit
        <3>2. [cmd |-> c, done |-> x.off, left |-> x.len] \in [cmd : Commands, done : Nat, left : Nat]
            BY <3>1
        <3>3. QED
            BY <1>5, <3>2, NoneAssumption
    <2>2. Mine(to_init', t) = {Len(to_init) + 1} /\ to_init'[Len(to_init) + 1] = x
          /\ Len(to_init) \in Nat
        BY <1>2, <1>5, PushMine DEF TypeInv
    <2>3. Identity(t, c, v)' /\ CommandAlone(t)' /\ Arriving(t, c)' /\ Sending(t, c)'
        BY <1>2, <1>3, <2>1 DEF Life, Identity, CommandAlone, Arriving, Sending
    <2>4. Registered(t, c)'
        BY <1>5, <2>1 DEF Registered
    <2>5. Asked(t)'
        BY <1>2, <1>3, <2>1, <2>2 DEF Asked
    <2>6. QED
        BY <1>2, <1>3, <2>3, <2>4, <2>5 DEF Life
<1>6. QED
    BY <1>4, <1>5

LEMMA HandleLife ==
    ASSUME TypeInv, TypeInv', NEW t \in Tags, NEW c \in Commands, NEW v \in 0 .. Len(issued),
           Life(t, c, v), Handle, Head(to_target).tag = t
    PROVE  Life(t, c, v)'
<1> DEFINE m == Head(to_target)
<1>1. /\ m \in ToTarget /\ to_target # <<>> /\ to_target' = Tail(to_target) /\ UNCHANGED initiator
    BY HandleCases
<1>2. PICK o \in Outcomes : \E W : HandleEffect(m, o, W)
    BY HandleCases
<1>3. PICK W : HandleEffect(m, o, W)
    BY <1>2
<1>4. /\ m = to_target[1] /\ 1 \in Mine(to_target, t) /\ to_init \in Seq(ToInit)
    BY <1>1, Taken DEF Mine, TypeInv
<1>5. TakesPdu(t, m.type) /\ m.tag = t
    BY <1>1 DEF TakesPdu
<1>u. UNCHANGED <<task, burst, issued>>
    BY <1>1 DEF initiator
<1> HIDE DEF m
<1>6. \A s \in Statuses : /\ Resp(t, s) \in ToInit /\ Resp(t, s).tag = t /\ Resp(t, s).type = "resp"
                          /\ to_init \o <<Resp(t, s)>> = Append(to_init, Resp(t, s))
    BY <1>4, RespType, Appended DEF Resp
<1>7. \A d \in Nat : \A l \in Nat \ {0} :
        /\ R2T(t, d, l) \in ToInit /\ R2T(t, d, l).tag = t /\ R2T(t, d, l).type = "r2t"
        /\ R2T(t, d, l).off = d /\ R2T(t, d, l).len = l
        /\ to_init \o <<R2T(t, d, l)>> = Append(to_init, R2T(t, d, l))
    BY <1>4, R2TType, Appended DEF R2T
<1>g. "good" \in Statuses /\ "io_error" \in Statuses
    BY DEF Statuses
<1>8. CASE m.type = "cmd" /\ CommandEffect(m, o, W)
    <2>0. TakesPdu(t, "cmd") /\ m.cmd = c /\ r2t[t] = None
        BY <1>4, <1>5, <1>8 DEF Life, Identity, CommandAlone
    <2>1. CASE Answers(m, o, W)
        <3>1. PICK s \in Statuses : to_init' = Append(to_init, Resp(t, s))
            BY <1>5, <1>6, <2>1 DEF Answers
        <3>2. r2t'[t] = r2t[t]
            BY <2>1 DEF Answers
        <3>3. QED
            BY <1>6, <1>u, <2>0, <3>1, <3>2, CommandLife
    <2>2. CASE Continues(m, W)
        <3>1. c.op = "write"
            BY <2>0, <2>2 DEF Continues
        <3>2. PICK done \in Nat : \E left \in Nat \ {0} :
                /\ done + left = c.tl * BlockSize
                /\ r2t' = [r2t EXCEPT ![t] = [cmd |-> c, done |-> done, left |-> left]]
                /\ to_init' = to_init \o <<R2T(t, done, left)>>
            BY <1>5, <2>0, <2>2 DEF Continues
        <3>3. PICK left \in Nat \ {0} :
                /\ done + left = c.tl * BlockSize
                /\ r2t' = [r2t EXCEPT ![t] = [cmd |-> c, done |-> done, left |-> left]]
                /\ to_init' = to_init \o <<R2T(t, done, left)>>
            BY <3>2
        <3> DEFINE x == R2T(t, done, left)
        <3>4. /\ x \in ToInit /\ x.tag = t /\ x.type = "r2t" /\ x.off = done /\ x.len = left
              /\ to_init' = Append(to_init, x)
            BY <1>7, <3>3
        <3>5. r2t'[t] = [cmd |-> c, done |-> x.off, left |-> x.len] /\ x.off + x.len = c.tl * BlockSize
            BY <3>3, <3>4 DEF TypeInv
        <3> HIDE DEF x
        <3>6. QED
            BY <1>u, <2>0, <3>1, <3>4, <3>5, CommandLife
    <2>3. CASE Forgets(m, o)
        <3>1. r2t'[t] = r2t[t] /\ to_init' = to_init
            BY <2>3 DEF Forgets
        <3>2. QED
            BY <1>6, <1>g, <1>u, <2>0, <3>1, CommandLife
    <2>4. QED
        BY <1>8, <2>1, <2>2, <2>3 DEF CommandEffect
<1>9. CASE m.type = "data"
    <2>0. TakesPdu(t, "data") /\ m = to_target[1]
        BY <1>4, <1>5, <1>9
    <2>a. /\ Resp(t, "good") \in ToInit /\ Resp(t, "good").tag = t /\ Resp(t, "good").type = "resp"
          /\ Resp(t, "io_error") \in ToInit /\ Resp(t, "io_error").tag = t
          /\ Resp(t, "io_error").type = "resp"
          /\ to_init \o <<Resp(t, "io_error")>> = Append(to_init, Resp(t, "io_error"))
          /\ to_init \o <<Resp(t, "good")>> = Append(to_init, Resp(t, "good"))
        BY <1>6, <1>g
    <2>1. CASE UNCHANGED <<disk, r2t, to_init>>
        <3>1. Counted(t, to_target[1].len) /\ Sent(Resp(t, "good"), Resp(t, "good"))
            BY <2>1 DEF Counted, Sent
        <3>2. QED
            BY <1>u, <2>0, <2>a, <3>1, DataLife
    <2>2. CASE Fails(m, W)
        <3>1. Counted(t, to_target[1].len) /\ Sent(Resp(t, "io_error"), Resp(t, "io_error"))
            BY <1>5, <2>2, <2>a DEF Counted, Sent, Fails
        <3>2. QED
            BY <1>u, <2>0, <2>a, <3>1, DataLife
    <2>3. CASE DataEffect(m, W) /\ Takes(m)
        <3> DEFINE R == r2t[t]
        <3>1. R # None /\ to_target[1] \in ToTarget /\ to_target[1].type = "data"
            BY <1>1, <1>5, <1>9, <2>0, <2>3 DEF DataEffect, m
        <3>2. /\ r2t[t] \in CounterType /\ m.len \in Nat
              /\ (r2t[t].done + m.len) % Uint32 = r2t[t].done + m.len
              /\ (r2t[t].left - m.len) % Uint32 = r2t[t].left - m.len
              /\ r2t[t].left - m.len \in Nat
            BY <1>4, <2>0, <3>1, Counters
        <3>3. r2t[t].done + m.len \in Nat
            BY <3>2 DEF CounterType
        <3> DEFINE done == r2t[t].done + m.len
                   left == r2t[t].left - m.len
        <3>4. \/ /\ r2t' = [r2t EXCEPT ![t] = None]
                 /\ to_init' = to_init \o <<Resp(t, "good")>>
              \/ /\ left # 0
                 /\ r2t' = [r2t EXCEPT ![t].done = done, ![t].left = left]
                 /\ to_init' = to_init \o <<Resp(t, "good"), R2T(t, done, left)>>
              \/ /\ r2t' = [r2t EXCEPT ![t].done = done, ![t].left = left]
                 /\ to_init' = to_init
            BY <1>5, <2>3, <3>2 DEF Takes
        <3>5. left # 0 => R2T(t, done, left) \in ToInit /\ R2T(t, done, left).tag = t
            BY <1>7, <3>2, <3>3
        <3>d. done \in Nat /\ left \in Nat /\ done = r2t[t].done + to_target[1].len
              /\ left = r2t[t].left - to_target[1].len
            BY <2>0, <3>2, <3>3
        <3> HIDE DEF done, left
        <3>6. Counted(t, to_target[1].len)
            <4>1. CASE r2t' = [r2t EXCEPT ![t] = None]
                BY <4>1 DEF Counted, TypeInv
            <4>2. CASE r2t' = [r2t EXCEPT ![t].done = done, ![t].left = left]
                <5>1. r2t'[t].cmd = r2t[t].cmd /\ r2t'[t].done = done /\ r2t'[t].left = left
                      /\ r2t'[t] \in CounterType
                    BY <3>2, <3>d, <4>2 DEF TypeInv, CounterType
                <5>2. r2t'[t] # None
                    BY <5>1, NoneAssumption DEF CounterType
                <5>3. QED
                    BY <3>1, <3>d, <5>1, <5>2 DEF Counted
            <4>3. QED
                BY <3>4, <4>1, <4>2
        <3>7. CASE left # 0 /\ to_init' = to_init \o <<Resp(t, "good"), R2T(t, done, left)>>
            <4>1. to_init' = Append(Append(to_init, Resp(t, "good")), R2T(t, done, left))
                BY <1>4, <2>a, <3>5, <3>7, AppendedTwo
            <4>2. Sent(Resp(t, "good"), R2T(t, done, left))
                BY <4>1 DEF Sent
            <4>3. QED
                BY <1>u, <2>0, <2>a, <3>5, <3>6, <3>7, <4>2, DataLife
        <3>8. CASE to_init' = to_init \/ to_init' = to_init \o <<Resp(t, "good")>>
            <4>1. Sent(Resp(t, "good"), Resp(t, "good"))
                BY <2>a, <3>8 DEF Sent
            <4>2. QED
                BY <1>u, <2>0, <2>a, <3>6, <4>1, DataLife
        <3>9. QED
            BY <3>4, <3>7, <3>8
    <2>4. QED
        BY <1>3, <1>9, <2>1, <2>2, <2>3 DEF HandleEffect, DataEffect
<1>10. QED
    BY <1>3, <1>8, <1>9 DEF HandleEffect

\* The initiator follows an R2T or takes the answer.
LEMMA ReceiveLife ==
    ASSUME TypeInv, TypeInv', NEW t \in Tags, NEW c \in Commands, NEW v \in 0 .. Len(issued),
           Life(t, c, v), Receive, Head(to_init).tag = t
    PROVE  Life(t, c, v)'
<1> DEFINE m == Head(to_init)
<1>1. /\ m.type = "r2t" => m.off \in Nat /\ m.len \in Nat \ {0}
      /\ m.type \in {"r2t", "resp"}
    BY Received
<1>2. /\ \A i \in Mine(to_init', t) : /\ i \in Nat /\ i + 1 \in Mine(to_init, t)
                                      /\ to_init'[i] = to_init[i + 1]
      /\ \A i \in Mine(to_init, t) : i # 1 => i - 1 \in Mine(to_init', t)
      /\ 1 \in Mine(to_init, t) /\ to_init[1] = m
    <2>1. to_init \in Seq(ToInit) /\ to_init # <<>> /\ to_init' = Tail(to_init)
        BY DEF TypeInv, Receive
    <2>2. /\ \A i \in Mine(Tail(to_init), t) : /\ i \in Nat /\ i + 1 \in Mine(to_init, t)
                                               /\ Tail(to_init)[i] = to_init[i + 1]
          /\ \A i \in Mine(to_init, t) : i # 1 => i - 1 \in Mine(Tail(to_init), t)
          /\ Head(to_init).tag = t => 1 \in Mine(to_init, t) /\ to_init[1] = Head(to_init)
        BY <2>1, PopMine
    <2>3. QED
        BY <2>1, <2>2
<1>3. UNCHANGED <<r2t, to_target, issued>>
    BY DEF Receive, target
<1>4. \/ task[t] = None /\ UNCHANGED <<task, burst>>
      \/ task[t] # None /\ m.type = "r2t" /\ task' = task
         /\ burst' = [burst EXCEPT ![t] = [off |-> m.off, len |-> m.len]]
      \/ /\ task' = [task EXCEPT ![t] = None]
         /\ burst' = [burst EXCEPT ![t] = NoBurst]
    BY DEF Receive
<1>5. \A i \in Mine(to_target, t) : to_target[i].type # "cmd"
    BY <1>2 DEF Life, CommandAlone
<1>6. Identity(t, c, v)' /\ CommandAlone(t)' /\ Registered(t, c)' /\ Arriving(t, c)'
    <2>1. task'[t] = task[t] \/ task'[t] = None
        BY <1>4 DEF TypeInv
    <2>2. QED
        BY <1>3, <1>5, <2>1 DEF Life, Identity, CommandAlone, Registered, Arriving
<1> HIDE DEF m
<1>7. CASE task[t] = None /\ UNCHANGED <<task, burst>>
    BY <1>3, <1>6, <1>7 DEF Life, Sending, Asked, Live
<1>8. CASE task[t] # None /\ m.type = "r2t" /\ task' = task
           /\ burst' = [burst EXCEPT ![t] = [off |-> m.off, len |-> m.len]]
    <2>0. Mine(to_init, t) \subseteq Nat \ {0} /\ Mine(to_init', t) \subseteq Nat \ {0}
        BY MineInt DEF TypeInv
    <2>1. Live(t, 1)
        BY <1>2, <1>8, <2>0 DEF Live
    <2>2. /\ Mine(to_target, t) = {} /\ r2t[t] # None
          /\ m.off = r2t[t].done /\ m.len = r2t[t].left
        BY <1>2, <1>8, <2>1 DEF Life, Asked
    <2>3. burst'[t].off = r2t[t].done /\ burst'[t].len = r2t[t].left
          /\ r2t[t].done \in Nat /\ r2t[t].left \in Nat
        BY <1>8, <2>2 DEF TypeInv
    <2>4. Sending(t, c)'
        BY <1>3, <2>2, <2>3 DEF Life, Registered, Sending
    <2>5. Asked(t)'
        <3>1. SUFFICES ASSUME NEW j \in Mine(to_init', t), Live(t, j)', to_init'[j].type = "r2t"
                       PROVE  FALSE
            BY DEF Asked
        <3>2. j + 1 \in Mine(to_init, t) /\ to_init[j + 1].type = "r2t" /\ j \in Nat \ {0}
            BY <1>2, <2>0, <3>1
        <3>3. ASSUME NEW i \in Mine(to_init, t), i < j + 1 PROVE to_init[i].type # "resp"
            <4>1. CASE i = 1
                BY <1>2, <1>8, <4>1
            <4>2. CASE i # 1
                <5>1. i - 1 \in Mine(to_init', t) /\ i - 1 < j /\ (i - 1) + 1 = i
                    BY <1>2, <2>0, <3>2, <3>3, <4>2
                <5>2. to_init'[i - 1] = to_init[i]
                    BY <1>2, <5>1
                <5>3. QED
                    BY <3>1, <5>1, <5>2 DEF Live
            <4>3. QED
                BY <4>1, <4>2
        <3>4. Live(t, j + 1)
            BY <1>8, <3>2, <3>3 DEF Live
        <3>5. j + 1 <= 1
            BY <1>2, <3>2, <3>4 DEF Life, Asked
        <3>6. QED
            BY <3>2, <3>5
    <2>6. QED
        BY <1>6, <2>4, <2>5 DEF Life
<1>9. CASE /\ task' = [task EXCEPT ![t] = None]
           /\ burst' = [burst EXCEPT ![t] = NoBurst]
    <2>1. task'[t] = None /\ burst'[t].len = 0
        BY <1>9 DEF TypeInv, NoBurst
    <2>2. QED
        BY <1>6, <2>1 DEF Life, Sending, Asked, Live
<1>10. QED
    BY <1>4, <1>7, <1>8, <1>9

\* The initiator sends the next piece.
LEMMA SendLife ==
    ASSUME TypeInv, TypeInv', NEW t \in Tags, NEW c \in Commands, NEW v \in 0 .. Len(issued),
           Life(t, c, v), NEW n \in Pieces, SendData(t, n)
    PROVE  Life(t, c, v)'
<1> DEFINE d == [type |-> "data", tag |-> t, off |-> burst[t].off, len |-> n,
                 F |-> burst[t].len = n, val |-> task[t].val]
           T == c.tl * BlockSize
           last == Len(to_target) + 1
<1>1. /\ n \in Nat \ {0} /\ burst[t].len \in Nat /\ burst[t].off \in Nat /\ burst[t].len >= n
      /\ task[t] # None /\ task[t].val \in 0 .. MaxCommands
    BY BurstOfTask
<1>2. d \in ToTarget
    <2>1. (burst[t].len = n) \in BOOLEAN
        OBVIOUS
    <2>2. QED
        BY <1>1, <2>1 DEF ToTarget
<1>3. /\ d.tag = t /\ d.type = "data" /\ d.off = burst[t].off /\ d.len = n /\ d.val = task[t].val
    OBVIOUS
<1>f. d.F <=> burst[t].len = n
    OBVIOUS
<1>4. to_target' = Append(to_target, d) /\ UNCHANGED <<r2t, to_init, task, issued>>
    BY DEF SendData, target
<1>5. burst'[t].off = burst[t].off + n /\ burst'[t].len = burst[t].len - n
    BY DEF SendData, TypeInv
<1> HIDE DEF d
<1>6. /\ Mine(to_target', t) = Mine(to_target, t) \cup {last}
      /\ \A i \in Mine(to_target, t) : to_target'[i] = to_target[i] /\ i \in Nat /\ i < last
      /\ to_target'[last] = d /\ last \in Nat
    <2>1. to_target \in Seq(ToTarget) /\ Len(to_target) \in Nat
        BY DEF TypeInv
    <2>2. /\ Mine(Append(to_target, d), t) = Mine(to_target, t) \cup {last}
          /\ \A i \in Mine(to_target, t) : Append(to_target, d)[i] = to_target[i] /\ i \in Nat
        <3>1. \A x \in ToTarget : x.tag = t =>
                /\ Mine(Append(to_target, x), t) = Mine(to_target, t) \cup {Len(to_target) + 1}
                /\ \A i \in Mine(to_target, t) : Append(to_target, x)[i] = to_target[i] /\ i \in Nat
            BY <2>1, OwnPdu
        <3>2. QED
            BY <1>2, <1>3, <3>1
    <2>3. Append(to_target, d)[last] = d
        <3>1. \A x \in ToTarget : Append(to_target, x)[Len(to_target) + 1] = x
            BY <2>1, Appended
        <3>2. QED
            BY <1>2, <3>1
    <2>4. \A i \in Mine(to_target, t) : i <= Len(to_target)
        BY <2>1 DEF Mine
    <2>5. last \in Nat /\ \A i \in Mine(to_target, t) : i \in Nat /\ i < last
        <3>1. \A i \in Mine(to_target, t) : i \in Nat
            BY <2>1 DEF Mine
        <3>2. QED
            BY <2>1, <2>4, <3>1
    <2> HIDE DEF last
    <2>6. QED
        BY <1>4, <2>2, <2>3, <2>5
<1> HIDE DEF last, T
<1>7. /\ burst[t].off + burst[t].len = T
      /\ r2t[t] # None => r2t[t].done <= burst[t].off
      /\ \A i \in Mine(to_target, t) : to_target[i].off + to_target[i].len <= burst[t].off
      /\ T \in Nat
    BY <1>1, CommandFacts, Geometry DEF Life, Sending, T
<1>8. \A i \in Mine(to_target, t) : to_target[i].type = "data"
    <2>1. \A i \in Mine(to_target, t) : to_target[i].type # "cmd"
        BY <1>1 DEF Life, CommandAlone
    <2>2. \A i \in Mine(to_target, t) : to_target[i] \in ToTarget
        BY DEF TypeInv, Mine
    <2>3. QED
        BY <2>1, <2>2 DEF ToTarget
<1>9. Identity(t, c, v)'
    <2>1. d.val = v
        BY <1>1, <1>3 DEF Life, Identity
    <2>2. QED
        <3>1. Identity(t, c, v)
            BY <1>1 DEF Life
        <3>2. ASSUME NEW i \in Mine(to_target', t)
              PROVE  to_target'[i].val = v /\ (to_target'[i].type = "cmd" => to_target'[i].cmd = c)
            <4>1. CASE i = last
                BY <1>3, <1>6, <2>1, <4>1
            <4>2. CASE i \in Mine(to_target, t)
                BY <1>6, <3>1, <4>2 DEF Identity
            <4>3. QED
                BY <1>6, <3>2, <4>1, <4>2
        <3>3. QED
            BY <1>4, <3>1, <3>2 DEF Identity, Mine
<1>10. CommandAlone(t)'
    BY <1>3, <1>6, <1>8 DEF CommandAlone
<1>11. Registered(t, c)'
    BY <1>4 DEF Life, Registered
<1>12. Arriving(t, c)'
    <2>1. SUFFICES ASSUME NEW i \in Mine(to_target', t), to_target'[i].type = "data"
                   PROVE  /\ to_target'[i].off + to_target'[i].len <= T
                          /\ to_target'[i].F <=> to_target'[i].off + to_target'[i].len = T
                          /\ r2t'[t] # None => r2t'[t].done <= to_target'[i].off
                          /\ \A j \in Mine(to_target', t) : j < i =>
                               to_target'[j].off + to_target'[j].len <= to_target'[i].off
        BY DEF Arriving, T
    <2>2. CASE i = last
        <3>1. to_target'[i].off = burst[t].off /\ to_target'[i].len = n
              /\ (to_target'[i].F <=> burst[t].len = n)
            BY <1>3, <1>6, <1>f, <2>2
        <3>2. \A j \in Mine(to_target', t) : j < i => j \in Mine(to_target, t)
            BY <1>6, <2>2
        <3>3. burst[t].off + n <= T /\ (burst[t].len = n <=> burst[t].off + n = T)
            BY <1>1, <1>7
        <3>4. QED
            BY <1>4, <1>6, <1>7, <3>1, <3>2, <3>3
    <2>3. CASE i \in Mine(to_target, t)
        <3>1. /\ to_target[i].off + to_target[i].len <= T
              /\ to_target[i].F <=> to_target[i].off + to_target[i].len = T
              /\ r2t[t] # None => r2t[t].done <= to_target[i].off
              /\ \A j \in Mine(to_target, t) : j < i =>
                   to_target[j].off + to_target[j].len <= to_target[i].off
            BY <1>8, <2>3 DEF Life, Arriving, T
        <3>2. \A j \in Mine(to_target', t) : j < i => j \in Mine(to_target, t)
            BY <1>6, <2>3
        <3>3. QED
            BY <1>4, <1>6, <2>3, <3>1, <3>2
    <2>4. QED
        BY <1>6, <2>2, <2>3
<1>13. Sending(t, c)'
    <2>1. burst'[t].off + burst'[t].len = T
        BY <1>1, <1>5, <1>7
    <2>2. r2t'[t] # None => r2t'[t].done <= burst'[t].off
        <3>1. SUFFICES ASSUME r2t[t] # None PROVE r2t[t].done <= burst[t].off + n
            BY <1>4, <1>5
        <3>2. r2t[t].done \in Nat
            BY <3>1 DEF TypeInv
        <3>3. QED
            BY <1>1, <1>7, <3>1, <3>2
    <2>3. ASSUME NEW i \in Mine(to_target', t)
          PROVE  to_target'[i].off + to_target'[i].len <= burst'[t].off
        <3>1. CASE i = last
            BY <1>1, <1>3, <1>5, <1>6, <3>1
        <3>2. CASE i \in Mine(to_target, t)
            <4>1. to_target[i] \in ToTarget
                BY <3>2 DEF TypeInv, Mine
            <4>2. to_target[i].off \in Nat /\ to_target[i].len \in Nat
                BY <1>8, <3>2, <4>1 DEF ToTarget
            <4>3. to_target[i].off + to_target[i].len <= burst[t].off /\ to_target'[i] = to_target[i]
                BY <1>6, <1>7, <3>2
            <4>4. to_target[i].off + to_target[i].len <= burst[t].off + n
                BY <1>1, <4>2, <4>3
            <4>5. QED
                BY <1>5, <4>3, <4>4
        <3>3. QED
            BY <1>6, <3>1, <3>2
    <2>4. QED
        BY <2>1, <2>2, <2>3 DEF Sending, T
<1>14. Asked(t)'
    <2>1. \A j \in Mine(to_init, t) : ~(Live(t, j) /\ to_init[j].type = "r2t")
        BY <1>1 DEF Life, Asked
    <2>2. QED
        BY <1>4, <2>1 DEF Asked, Live
<1>15. QED
    BY <1>9, <1>10, <1>11, <1>12, <1>13, <1>14 DEF Life

\* A tag is used for the first time.
LEMMA IssueLife ==
    ASSUME TypeInv, NEW t \in Tags, NEW c \in Commands, Issue(t, c), Unused(t), NEW v \in Nat,
           task' = [task EXCEPT ![t] = [cmd |-> c, val |-> v]],
           to_target' = Append(to_target, [type |-> "cmd", tag |-> t, cmd |-> c, val |-> v]),
           [type |-> "cmd", tag |-> t, cmd |-> c, val |-> v] \in ToTarget,
           v # 0 => issued'[v] = c
    PROVE  Life(t, c, v)' /\ Mine(to_target', t) = {Len(to_target) + 1} /\ Mine(to_init', t) = {}
           /\ to_target'[Len(to_target) + 1].type = "cmd" /\ task'[t] = [cmd |-> c, val |-> v]
           /\ task'[t] # None /\ r2t'[t] = None
<1> DEFINE x == [type |-> "cmd", tag |-> t, cmd |-> c, val |-> v]
<1>1. /\ task[t] = None /\ r2t[t] = None /\ burst[t].len = 0
      /\ Mine(to_target, t) = {} /\ Mine(to_init, t) = {}
    BY DEF Unused
<1>2. UNCHANGED <<r2t, to_init, burst>>
    BY DEF Issue, target
<1>3. x.type = "cmd" /\ x.tag = t /\ x.cmd = c /\ x.val = v
    OBVIOUS
<1> HIDE DEF x
<1>4. Mine(to_target', t) = {Len(to_target) + 1} /\ to_target'[Len(to_target) + 1] = x
    <2>1. to_target \in Seq(ToTarget) /\ x \in ToTarget /\ to_target' = Append(to_target, x)
        BY DEF TypeInv, x
    <2>2. \A y \in ToTarget : y.tag = t =>
            Mine(Append(to_target, y), t) = Mine(to_target, t) \cup {Len(to_target) + 1}
        BY <2>1, PushOwn
    <2>3. \A y \in ToTarget : Append(to_target, y)[Len(to_target) + 1] = y
        BY <2>1, Appended
    <2>4. Mine(to_target', t) = Mine(to_target, t) \cup {Len(to_target) + 1}
        BY <1>3, <2>1, <2>2
    <2>5. QED
        BY <1>1, <2>1, <2>3, <2>4
<1>5. task'[t] = [cmd |-> c, val |-> v] /\ task'[t] # None
    <2>1. task'[t] = [cmd |-> c, val |-> v]
        BY DEF TypeInv
    <2>2. [cmd |-> c, val |-> v] \in [cmd : Commands, val : Nat]
        OBVIOUS
    <2>3. QED
        BY <2>1, <2>2, NoneAssumption
<1>6. Identity(t, c, v)'
    BY <1>1, <1>2, <1>3, <1>4, <1>5 DEF Identity
<1>7. CommandAlone(t)'
    BY <1>1, <1>2, <1>4, <1>5 DEF CommandAlone
<1>8. Registered(t, c)' /\ Sending(t, c)' /\ Asked(t)'
    BY <1>1, <1>2 DEF Registered, Sending, Asked
<1>9. Arriving(t, c)'
    BY <1>3, <1>4 DEF Arriving
<1>10. QED
    BY <1>1, <1>2, <1>3, <1>4, <1>5, <1>6, <1>7, <1>8, <1>9 DEF Life

LEMMA UnusedFrame ==
    ASSUME NEW t \in Tags, Unused(t), Frame(t) PROVE Unused(t)'
<1>1. task'[t] = None /\ r2t'[t] = None /\ burst'[t].len = 0
    BY DEF Unused, Frame
<1>2. Mine(to_target', t) = {} /\ Mine(to_init', t) = {}
    BY DEF Unused, Frame, Kept
<1>3. QED
    BY <1>1, <1>2 DEF Unused

LEMMA RecordedStep == ASSUME TypeInv, Next PROVE Recorded /\ Len(issued) <= Len(issued')
<1>1. issued \in Seq(Commands) /\ Len(issued) \in Nat
    BY DEF TypeInv
<1>2. CASE issued' = issued
    BY <1>1, <1>2 DEF Recorded
<1>3. ASSUME NEW t \in Tags, NEW c \in Commands, Issue(t, c)
      PROVE  Recorded /\ Len(issued) <= Len(issued')
    <2>1. issued' = Append(issued, c)
        BY <1>3 DEF Issue
    <2>2. Len(issued') = Len(issued) + 1 /\ \A v \in 1 .. Len(issued) : issued'[v] = issued[v]
        BY <1>1, <2>1
    <2>3. QED
        BY <1>1, <2>2 DEF Recorded
<1>4. QED
    BY <1>2, <1>3 DEF Next, Handle, Receive, Send, SendData, initiator

\* A step is of another tag, or of the tag itself.
LEMMA StepCases ==
    ASSUME TypeInv, Next, NEW t \in Tags
    PROVE  \/ Frame(t)
           \/ Handle /\ Head(to_target).tag = t
           \/ Receive /\ Head(to_init).tag = t
           \/ \E n \in Pieces : SendData(t, n)
           \/ \E c \in Commands : Issue(t, c)
<1>1. CASE Handle
    BY <1>1, HandleFrame
<1>2. CASE Receive
    BY <1>2, ReceiveFrame
<1>3. ASSUME NEW s \in Tags, NEW n \in Pieces, SendData(s, n)
      PROVE  Frame(t) \/ \E k \in Pieces : SendData(t, k)
    BY <1>3, SendFrame
<1>4. ASSUME NEW s \in Tags, NEW c \in Commands, Issue(s, c)
      PROVE  Frame(t) \/ \E d \in Commands : Issue(t, d)
    BY <1>4, IssueFrame
<1>5. QED
    BY <1>1, <1>2, <1>3, <1>4 DEF Next, Send

LEMMA LifeStep ==
    ASSUME TypeInv, TypeInv', Next, NEW t \in Tags, NEW c \in Commands, NEW v \in 0 .. Len(issued),
           Life(t, c, v), ~ReuseTags, t \in used
    PROVE  Life(t, c, v)'
<1>1. Recorded
    BY RecordedStep
<1>2. ~ \E d \in Commands : Issue(t, d)
    BY DEF Issue
<1>3. QED
    BY <1>1, <1>2, StepCases, FrameLife, HandleLife, ReceiveLife, SendLife

\* Nothing happens to a tag before its command is issued.
LEMMA UnusedStep ==
    ASSUME TypeInv, Next, NEW t \in Tags, Unused(t), ~ \E c \in Commands : Issue(t, c)
    PROVE  Unused(t)'
<1>1. CASE Frame(t)
    BY <1>1, UnusedFrame
<1>2. CASE Handle /\ Head(to_target).tag = t
    <2>1. to_target \in Seq(ToTarget) /\ to_target # <<>>
        BY <1>2 DEF TypeInv, Handle
    <2>2. 1 \in Mine(to_target, t)
        BY <1>2, <2>1, Taken DEF Mine
    <2>3. QED
        BY <2>2 DEF Unused
<1>3. CASE Receive /\ Head(to_init).tag = t
    <2>1. to_init \in Seq(ToInit) /\ to_init # <<>>
        BY <1>3 DEF TypeInv, Receive
    <2>2. 1 \in Mine(to_init, t)
        BY <1>3, <2>1, Taken DEF Mine
    <2>3. QED
        BY <2>2 DEF Unused
<1>4. ASSUME NEW n \in Pieces, SendData(t, n) PROVE FALSE
    BY <1>4, BurstOfTask DEF Unused
<1>5. QED
    BY <1>1, <1>2, <1>3, <1>4, StepCases

LEMMA UsedStep ==
    ASSUME TypeInv, Next, NEW t \in Tags
    PROVE  IF \E c \in Commands : Issue(t, c) THEN t \in used' ELSE t \in used' <=> t \in used
<1>1. CASE used' = used
    BY <1>1 DEF Issue
<1>2. ASSUME NEW s \in Tags, NEW c \in Commands, Issue(s, c), used' # used
      PROVE  IF \E d \in Commands : Issue(t, d) THEN t \in used' ELSE t \in used' <=> t \in used
    BY <1>2 DEF Issue
<1>3. QED
    BY <1>1, <1>2 DEF Next, Handle, Receive, Send, SendData, initiator

-----------------------------------------------------------------------------
(* Nothing is written out of range. *)

Lives ==
    \A t \in Tags :
        IF t \in used THEN \E c \in Commands : \E v \in 0 .. Len(issued) : Life(t, c, v)
        ELSE Unused(t)

LEMMA LivesStep ==
    ASSUME TypeInv, TypeInv', Lives, [Next]_vars, ~ReuseTags PROVE Lives'
<1>0. CASE UNCHANGED vars
    BY <1>0 DEF vars, Lives, Life, Unused, Identity, CommandAlone, Registered, Arriving, Sending,
                Asked, Live
<1>1. SUFFICES ASSUME Next, NEW t \in Tags
               PROVE  IF t \in used'
                      THEN \E c \in Commands : \E v \in 0 .. Len(issued') : Life(t, c, v)'
                      ELSE Unused(t)'
    BY <1>0 DEF Lives
<1>2. Len(issued) \in Nat /\ Len(issued') \in Nat /\ Len(issued) <= Len(issued')
    <2>1. Len(issued) \in Nat /\ Len(issued') \in Nat
        BY DEF TypeInv
    <2>2. Len(issued) <= Len(issued')
        BY <1>1, RecordedStep
    <2>3. QED
        BY <2>1, <2>2
<1>3. CASE t \in used
    <2>1. PICK c \in Commands : \E v \in 0 .. Len(issued) : Life(t, c, v)
        BY <1>3 DEF Lives
    <2>2. PICK v \in 0 .. Len(issued) : Life(t, c, v)
        BY <2>1
    <2>3. Life(t, c, v)'
        BY <1>1, <1>3, <2>2, LifeStep
    <2>4. t \in used' /\ v \in 0 .. Len(issued')
        BY <1>1, <1>2, <1>3, UsedStep
    <2>5. QED
        BY <2>3, <2>4
<1>4. CASE t \notin used /\ ~ \E c \in Commands : Issue(t, c)
    <2>1. Unused(t)' /\ t \notin used'
        BY <1>1, <1>4, UsedStep, UnusedStep DEF Lives
    <2>2. QED
        BY <2>1
<1>5. ASSUME t \notin used, NEW c \in Commands, Issue(t, c)
      PROVE  t \in used' /\ \E d \in Commands : \E v \in 0 .. Len(issued') : Life(t, d, v)'
    <2>1. PICK v \in 0 .. Len(issued') :
            /\ task' = [task EXCEPT ![t] = [cmd |-> c, val |-> v]]
            /\ to_target' = Append(to_target, [type |-> "cmd", tag |-> t, cmd |-> c, val |-> v])
            /\ [type |-> "cmd", tag |-> t, cmd |-> c, val |-> v] \in ToTarget
            /\ v # 0 => issued'[v] = c
        BY <1>5, Issued
    <2>2. v \in Nat /\ Unused(t)
        BY <1>2, <1>5, <2>1 DEF Lives
    <2>3. Life(t, c, v)'
        BY <1>5, <2>1, <2>2, IssueLife
    <2>4. t \in used'
        BY <1>5 DEF Issue
    <2>5. QED
        BY <2>1, <2>3, <2>4
<1>6. QED
    BY <1>3, <1>4, <1>5

LEMMA LivesInit == Init => Lives
BY DEF Init, Lives, Unused, Mine, NoBurst

\* What the target writes is in the reach of the command.
LEMMA HandleWrites ==
    ASSUME TypeInv, NEW t \in Tags, NEW c \in Commands, NEW v \in 0 .. Len(issued), Life(t, c, v),
           to_target # <<>>, Head(to_target).tag = t, NEW o, NEW W, HandleEffect(Head(to_target), o, W)
    PROVE  v \in Nat /\ W \subseteq Reach(c) /\ disk' = Written(W, v)
<1> DEFINE m == Head(to_target)
<1>1. m \in ToTarget /\ m = to_target[1] /\ 1 \in Mine(to_target, t)
    BY Taken DEF TypeInv, Mine
<1>2. m.val = v /\ (m.type = "cmd" => m.cmd = c)
    BY <1>1 DEF Life, Identity
<1>3. v \in Nat
    BY DEF TypeInv
<1> HIDE DEF m
<1>4. CASE m.type = "cmd" /\ CommandEffect(m, o, W)
    BY <1>2, <1>3, <1>4 DEF CommandEffect
<1>5. CASE m.type = "data" /\ DataEffect(m, W)
    <2>1. r2t[t] # None
        BY <1>5 DEF DataEffect, m
    <2>2. /\ c.op = "write" /\ c.tl * BlockSize \in Nat /\ r2t[t].cmd = c
          /\ m.off \in Nat /\ m.len \in Nat /\ m.off + m.len <= c.tl * BlockSize
        BY <1>1, <1>5, <2>1, Counters
    <2>3. c.lba \in Nat
        BY CommandFacts
    <2>4. DataSpan(m, m.len) \subseteq Span(c.lba, 0, c.tl * BlockSize)
        <3>1. DataSpan(m, m.len) = Span(c.lba, m.off, m.len)
            BY <2>2 DEF DataSpan, m
        <3>2. QED
            BY <2>2, <2>3, <3>1, SpanPart
    <2>5. Span(c.lba, 0, c.tl * BlockSize) \subseteq Reach(c)
        BY <2>2, ImmediateFacts
    <2>6. QED
        BY <1>2, <1>3, <1>5, <2>4, <2>5 DEF DataEffect
<1>6. CASE W = {} /\ disk' = disk
    <2>1. disk' = Written({}, v)
        BY <1>3, <1>6, NothingWritten DEF TypeInv
    <2>2. QED
        BY <1>3, <1>6, <2>1
<1>7. QED
    BY <1>4, <1>5, <1>6 DEF HandleEffect, m

\* The range that StaysInRange allows a command.
Within(u, c) ==
    LET end == (c.lba + NBlocksOf(c)) * BlockSize
    IN u >= c.lba * BlockSize /\ (u < end \/ (u < end + BlockSize - 1 /\ c.imm > c.tl * BlockSize))

LEMMA ReachWithin ==
    ASSUME NEW c \in Commands, NEW u \in Reach(c) PROVE Within(u, c)
<1>1. /\ c.op \in {"write", "write_same"} /\ c.lba \in Nat /\ c.tl \in Nat /\ c.imm \in Nat
      /\ NBlocks \in Nat /\ BlockSize \in Nat /\ BlockSize > 1
    BY CommandFacts, Geometry
<1> DEFINE n == NBlocksOf(c)
           from == c.lba * BlockSize
           k == n * BlockSize
<1>2. n \in Int /\ (c.op = "write" => n = c.tl)
    BY <1>1 DEF NBlocksOf
<1>3. from \in Nat /\ k \in Int /\ (c.lba + n) * BlockSize = from + k
    <2>1. (c.lba + n) * BlockSize = c.lba * BlockSize + n * BlockSize
        BY <1>1, <1>2
    <2>2. QED
        BY <1>1, <1>2, <2>1
<1>4. CASE u \in UnitsOf(c)
    <2>1. u \in from + 0 .. from + 0 + k - 1
        BY <1>4 DEF UnitsOf, Span
    <2> HIDE DEF from, k
    <2>2. u >= from /\ u < from + k
        BY <1>3, <2>1
    <2>3. QED
        BY <1>3, <2>2 DEF Within, from, n
<1>5. CASE c.op = "write" /\ u \in Span(c.lba, 0, ImmediateLen(c))
    <2> DEFINE T == c.tl * BlockSize
    <2>1. T \in Nat /\ (c.tl + 1) * BlockSize = T + BlockSize /\ k = T
        BY <1>1, <1>2, <1>5
    <2>2. ImmediateLen(c) = IF c.imm < T + BlockSize THEN c.imm ELSE T
        BY <2>1 DEF ImmediateLen
    <2>3. u \in from + 0 .. from + 0 + ImmediateLen(c) - 1
        BY <1>5 DEF Span
    <2> HIDE DEF from, k, T
    <2>4. u >= from /\ (u < from + k \/ (u < from + k + BlockSize - 1 /\ c.imm > T))
        BY <1>1, <1>3, <2>1, <2>2, <2>3
    <2>5. QED
        BY <1>3, <2>4 DEF Within, from, n, T
<1>6. Span(c.lba, 0, 0) = {}
    <2>1. from + 0 .. from + 0 + 0 - 1 = {}
        BY <1>3
    <2>2. QED
        BY <2>1 DEF Span
<1>7. u \in UnitsOf(c) \/ u \in Span(c.lba, 0, IF c.op = "write" THEN ImmediateLen(c) ELSE 0)
    BY DEF Reach
<1>8. QED
    BY <1>4, <1>5, <1>6, <1>7

\* Serial numbers on the disk are of commands that were issued.
InRange ==
    \A u \in Units : /\ disk[u] \in 0 .. Len(issued)
                     /\ disk[u] # 0 => Within(u, issued[disk[u]])

LEMMA InRangeStep ==
    ASSUME TypeInv, TypeInv', Lives, InRange, [Next]_vars, ~ReuseTags, Lives' PROVE InRange'
<1>0. CASE UNCHANGED vars
    BY <1>0 DEF vars, InRange, Within
<1>1. CASE Next /\ disk' = disk
    <2>1. Recorded /\ Len(issued) <= Len(issued') /\ Len(issued) \in Nat /\ Len(issued') \in Nat
        BY <1>1, RecordedStep DEF TypeInv
    <2>2. SUFFICES ASSUME NEW u \in Units
                   PROVE  disk[u] \in 0 .. Len(issued')
                          /\ (disk[u] # 0 => Within(u, issued'[disk[u]]))
        BY <1>1 DEF InRange, Within
    <2>3. disk[u] \in 0 .. Len(issued) /\ (disk[u] # 0 => Within(u, issued[disk[u]]))
        BY DEF InRange
    <2>4. disk[u] # 0 => issued'[disk[u]] = issued[disk[u]]
        BY <2>1, <2>3 DEF Recorded
    <2>5. QED
        BY <2>1, <2>3, <2>4
<1>2. CASE Handle
    <2> DEFINE m == Head(to_target)
               t == m.tag
    <2>1. /\ t \in Tags /\ to_target # <<>> /\ UNCHANGED initiator /\ m \in ToTarget
        BY <1>2, HandleCases
    <2>2. PICK o \in Outcomes : \E W : HandleEffect(m, o, W)
        BY <1>2, HandleCases
    <2>3. PICK W : HandleEffect(m, o, W)
        BY <2>2
    <2>4. t \in used
        <3>1. 1 \in Mine(to_target, t)
            BY <2>1, Taken DEF Mine, TypeInv
        <3>2. QED
            BY <2>1, <3>1 DEF Lives, Unused
    <2> HIDE DEF t
    <2>5. PICK c \in Commands : \E v \in 0 .. Len(issued) : Life(t, c, v)
        BY <2>1, <2>4 DEF Lives
    <2>6. PICK v \in 0 .. Len(issued) : Life(t, c, v)
        BY <2>5
    <2>7. v \in Nat /\ W \subseteq Reach(c) /\ disk' = Written(W, v)
        BY <2>1, <2>3, <2>6, HandleWrites DEF t
    <2>8. v # 0 => issued[v] = c
        BY <2>6 DEF Life, Identity
    <2>9. issued' = issued
        BY <2>1 DEF initiator
    <2>10. SUFFICES ASSUME NEW u \in Units
                    PROVE  disk'[u] \in 0 .. Len(issued)
                           /\ (disk'[u] # 0 => Within(u, issued[disk'[u]]))
        BY <2>9 DEF InRange, Within
    <2>11. disk'[u] = IF u \in W THEN v ELSE disk[u]
        BY <2>7, WrittenFacts DEF TypeInv
    <2>12. CASE u \in W
        <3>1. Within(u, c)
            BY <2>7, <2>12, ReachWithin
        <3>2. QED
            BY <2>6, <2>8, <2>11, <2>12, <3>1
    <2>13. CASE u \notin W
        BY <2>11, <2>13 DEF InRange
    <2>14. QED
        BY <2>12, <2>13
<1>3. QED
    BY <1>0, <1>1, <1>2 DEF Next, Receive, Send, SendData, Issue, target

\* No step writes outside the blocks of the command it is for, but for a
\* fragment of immediate data: not a DATA-OUT of a transfer that failed or was
\* answered before, and not one for another task.  write_verify() and the
\* DATA-OUT half of push_response() check no range of their own, so this rests
\* on tags that are not used again; the run write_tag_reuse shows what happens
\* when they are.
THEOREM WritesStayInRange == ASSUME ~ReuseTags PROVE Spec => []StaysInRange
<1>1. Init => InRange
    <2>1. SUFFICES ASSUME Init PROVE InRange
        OBVIOUS
    <2>2. \A u \in Units : disk[u] = 0
        BY <2>1 DEF Init
    <2>3. Len(issued) \in Nat
        BY <2>1 DEF Init
    <2>4. QED
        BY <2>2, <2>3 DEF InRange
<1>2. InRange => StaysInRange
    BY DEF InRange, StaysInRange, Within
<1>3. TypeInv /\ TypeInv' /\ Lives /\ [Next]_vars => Lives'
    BY LivesStep
<1>4. TypeInv /\ TypeInv' /\ Lives /\ Lives' /\ InRange /\ [Next]_vars => InRange'
    BY InRangeStep
<1>5. QED
    BY <1>1, <1>2, <1>3, <1>4, LivesInit, TypeInvInit, TypeStep, PTL DEF Spec

-----------------------------------------------------------------------------
(* What is answered GOOD has been written. *)

\* The task may still be answered GOOD.
Clean(t) ==
    /\ task[t] # None /\ t \notin lost
    /\ \A k \in Mine(to_init, t) : to_init[k].type # "resp"

\* x is in a DATA-OUT of the tag that comes before place i.
Pending(t, x, i) ==
    \E j \in Mine(to_target, t) :
        j < i /\ to_target[j].off <= x /\ x < to_target[j].off + to_target[j].len

Filled(units, v) == \A u \in units \cap Units : disk[u] = v

\* What is done is on the disk.
DoneWritten(t, c, v) ==
    Clean(t) /\ r2t[t] # None => Filled(Span(c.lba, 0, r2t[t].done), v)

\* Between what is done and a DATA-OUT, or what is still to be sent, there is
\* nothing but other DATA-OUTs.
NoGaps(t) ==
    Clean(t) /\ r2t[t] # None =>
        /\ \A i \in Mine(to_target, t) :
             \A x \in r2t[t].done .. to_target[i].off - 1 : Pending(t, x, i)
        /\ burst[t].len > 0 =>
             \A x \in r2t[t].done .. burst[t].off - 1 : Pending(t, x, Len(to_target) + 1)

\* An answer GOOD that will be believed is true.
GoodIsTrue(t, c, v) ==
    \A j \in Mine(to_init, t) :
        /\ Live(t, j) /\ t \notin lost /\ ~CutShort(c)
        /\ to_init[j].type = "resp" /\ to_init[j].status = "good"
        => Filled(UnitsOf(c), v)

Complete(t, c, v) == DoneWritten(t, c, v) /\ NoGaps(t) /\ GoodIsTrue(t, c, v)

LEMMA FilledOnce ==
    ASSUME disk \in [Units -> Nat], NEW W, NEW v \in Nat, disk' = Written(W, v), NEW X, Filled(X, v)
    PROVE  Filled(X, v)'
<1>1. \A u \in Units : disk'[u] = IF u \in W THEN v ELSE disk[u]
    BY WrittenFacts
<1>2. QED
    BY <1>1 DEF Filled, Units

LEMMA FilledAll ==
    ASSUME disk \in [Units -> Nat], NEW W, NEW v \in Nat, disk' = Written(W, v), NEW X,
           \A u \in X \cap Units : u \in W \/ disk[u] = v
    PROVE  Filled(X, v)'
<1>1. \A u \in Units : disk'[u] = IF u \in W THEN v ELSE disk[u]
    BY WrittenFacts
<1>2. QED
    BY <1>1 DEF Filled, Units

\* Steps that take the PDUs of other tags away, or leave the queue alone.
LEMMA LiveFrame ==
    ASSUME TypeInv, TypeInv', NEW t \in Tags, NEW l \in {0, 1}, Kept(to_init, to_init', t, l),
           task'[t] = task[t]
    PROVE  /\ \A j \in Mine(to_init', t) :
                /\ j + l \in Mine(to_init, t) /\ to_init'[j] = to_init[j + l]
                /\ Live(t, j)' => Live(t, j + l)
           /\ t \notin lost /\ Clean(t)' => Clean(t)
<1>1. /\ \A i \in Mine(to_init', t) : i + l \in Mine(to_init, t) /\ to_init'[i] = to_init[i + l]
      /\ \A i \in Mine(to_init, t) : i - l \in Mine(to_init', t)
    BY DEF Kept
<1>2. Mine(to_init, t) \subseteq Nat /\ Mine(to_init', t) \subseteq Nat
    BY MineInt DEF TypeInv
<1>3. \A i \in Mine(to_init, t) : i - l \in Mine(to_init', t) /\ to_init'[i - l] = to_init[i]
    <2>1. SUFFICES ASSUME NEW i \in Mine(to_init, t)
                   PROVE  i - l \in Mine(to_init', t) /\ to_init'[i - l] = to_init[i]
        OBVIOUS
    <2>2. i - l \in Mine(to_init', t) /\ (i - l) + l = i
        BY <1>1, <1>2
    <2>3. QED
        BY <1>1, <2>2
<1>4. ASSUME NEW j \in Mine(to_init', t), Live(t, j)' PROVE Live(t, j + l)
    <2>1. task[t] # None
        BY <1>4 DEF Live
    <2>2. ASSUME NEW i \in Mine(to_init, t), i < j + l PROVE to_init[i].type # "resp"
        <3>1. i - l \in Mine(to_init', t) /\ i - l < j
            BY <1>2, <1>3, <2>2
        <3>2. QED
            BY <1>3, <1>4, <3>1 DEF Live
    <2>3. QED
        BY <1>1, <2>1, <2>2 DEF Live
<1>5. t \notin lost /\ Clean(t)' => Clean(t)
    BY <1>3 DEF Clean
<1>6. QED
    BY <1>1, <1>4, <1>5

LEMMA PendingFrame ==
    ASSUME TypeInv, TypeInv', NEW t \in Tags, NEW k \in {0, 1}, Kept(to_target, to_target', t, k),
           NEW x, NEW i \in Int, Pending(t, x, i + k)
    PROVE  Pending(t, x, i)'
<1>1. PICK j \in Mine(to_target, t) :
        j < i + k /\ to_target[j].off <= x /\ x < to_target[j].off + to_target[j].len
    BY DEF Pending
<1>2. j \in Nat
    BY MineInt DEF TypeInv
<1>3. j - k \in Mine(to_target', t) /\ j - k < i /\ (j - k) + k = j
    BY <1>1, <1>2 DEF Kept
<1>4. to_target'[j - k] = to_target[j]
    BY <1>3 DEF Kept
<1>5. QED
    BY <1>1, <1>3, <1>4 DEF Pending

\* All of the PDUs of a tag come before the end.
LEMMA PendingEnd ==
    ASSUME TypeInv, NEW t, NEW x, NEW i, Pending(t, x, i) PROVE Pending(t, x, Len(to_target) + 1)
<1>1. \A j \in Mine(to_target, t) : j < Len(to_target) + 1
    BY DEF Mine, TypeInv
<1>2. QED
    BY <1>1 DEF Pending

LEMMA DoneInReach ==
    ASSUME TypeInv, NEW t \in Tags, NEW c \in Commands, NEW v, Life(t, c, v), r2t[t] # None
    PROVE  /\ Span(c.lba, 0, r2t[t].done) \subseteq UnitsOf(c) /\ UnitsOf(c) \subseteq Reach(c)
           /\ r2t[t].done \in Nat
<1>1. r2t[t].done \in Nat /\ r2t[t].left \in Nat
    BY DEF TypeInv
<1>2. c.op = "write" /\ r2t[t].done + r2t[t].left = c.tl * BlockSize
    BY DEF Life, Registered
<1>3. c.tl * BlockSize \in Nat /\ UnitsOf(c) = Span(c.lba, 0, c.tl * BlockSize) /\ c.lba \in Nat
    BY <1>2, ImmediateFacts, CommandFacts
<1>4. r2t[t].done <= c.tl * BlockSize
    BY <1>1, <1>2
<1>5. QED
    BY <1>1, <1>3, <1>4, SpanPart, 0 \in Nat DEF Reach

\* A step of another tag that leaves the blocks of this one alone.
LEMMA FrameComplete ==
    ASSUME TypeInv, TypeInv', NEW t \in Tags, NEW c \in Commands, NEW v, Life(t, c, v),
           Frame(t), Complete(t, c, v),
           \/ \A u \in Reach(c) \cap Units : disk'[u] = disk[u]
           \/ r2t[t] = None /\ Mine(to_init, t) = {}
    PROVE  Complete(t, c, v)'
<1>1. PICK k \in {0, 1} : Kept(to_target, to_target', t, k)
    BY DEF Frame
<1>2. PICK l \in {0, 1} : Kept(to_init, to_init', t, l)
    BY DEF Frame
<1>3. /\ task'[t] = task[t] /\ burst'[t] = burst[t] /\ r2t'[t] = r2t[t]
      /\ t \in lost' <=> t \in lost
    BY DEF Frame
<1>4. /\ \A j \in Mine(to_init', t) :
           /\ j + l \in Mine(to_init, t) /\ to_init'[j] = to_init[j + l]
           /\ Live(t, j)' => Live(t, j + l)
      /\ t \notin lost /\ Clean(t)' => Clean(t)
    BY <1>2, <1>3, LiveFrame
<1>5. Clean(t)' => Clean(t)
    BY <1>3, <1>4 DEF Clean
<1>6. UnitsOf(c) \subseteq Reach(c)
    BY DEF Reach
<1>7. ASSUME NEW X, X \subseteq Reach(c), Filled(X, v), \A u \in Reach(c) \cap Units : disk'[u] = disk[u]
      PROVE  Filled(X, v)'
    BY <1>7 DEF Filled, Units
<1>8. DoneWritten(t, c, v)'
    <2>1. SUFFICES ASSUME Clean(t)', r2t[t] # None PROVE Filled(Span(c.lba, 0, r2t[t].done), v)'
        BY <1>3 DEF DoneWritten, Filled
    <2>2. Filled(Span(c.lba, 0, r2t[t].done), v)
        BY <1>5, <2>1 DEF Complete, DoneWritten
    <2>3. Span(c.lba, 0, r2t[t].done) \subseteq Reach(c)
        BY <1>6, <2>1, DoneInReach
    <2>4. \A u \in Reach(c) \cap Units : disk'[u] = disk[u]
        BY <2>1
    <2>5. QED
        BY <1>3, <2>2, <2>3, <2>4 DEF Filled, Units
<1>9. NoGaps(t)'
    <2>1. SUFFICES ASSUME Clean(t)', r2t[t] # None
                   PROVE  /\ \A i \in Mine(to_target', t) :
                               \A x \in r2t[t].done .. to_target'[i].off - 1 : Pending(t, x, i)'
                          /\ burst[t].len > 0 =>
                               \A x \in r2t[t].done .. burst[t].off - 1 :
                                  Pending(t, x, Len(to_target) + 1)'
        BY <1>3 DEF NoGaps
    <2>2. /\ \A i \in Mine(to_target, t) :
               \A x \in r2t[t].done .. to_target[i].off - 1 : Pending(t, x, i)
          /\ burst[t].len > 0 =>
               \A x \in r2t[t].done .. burst[t].off - 1 : Pending(t, x, Len(to_target) + 1)
        BY <1>5, <2>1 DEF Complete, NoGaps
    <2>3. ASSUME NEW i \in Mine(to_target', t), NEW x \in r2t[t].done .. to_target'[i].off - 1
          PROVE  Pending(t, x, i)'
        <3>1. i + k \in Mine(to_target, t) /\ to_target'[i] = to_target[i + k]
            BY <1>1 DEF Kept
        <3>2. Pending(t, x, i + k)
            BY <2>2, <2>3, <3>1
        <3>3. i \in Int
            BY MineInt DEF TypeInv
        <3>4. QED
            BY <1>1, <3>2, <3>3, PendingFrame
    <2>4. ASSUME burst[t].len > 0, NEW x \in r2t[t].done .. burst[t].off - 1
          PROVE  Pending(t, x, Len(to_target) + 1)'
        <3>1. Pending(t, x, Len(to_target) + 1)
            BY <2>2, <2>4
        <3>2. Len(to_target) + 1 - k \in Int /\ (Len(to_target) + 1 - k) + k = Len(to_target) + 1
            BY DEF TypeInv
        <3> DEFINE e == Len(to_target) + 1 - k
        <3>3. Pending(t, x, e + k)
            BY <3>1, <3>2
        <3> HIDE DEF e
        <3>4. \A y \in Int : Pending(t, x, y + k) =>
                \E j \in Mine(to_target', t) :
                   to_target'[j].off <= x /\ x < to_target'[j].off + to_target'[j].len
            <4>1. SUFFICES ASSUME NEW y \in Int, Pending(t, x, y + k)
                           PROVE  \E j \in Mine(to_target', t) : to_target'[j].off <= x
                                       /\ x < to_target'[j].off + to_target'[j].len
                OBVIOUS
            <4>2. Pending(t, x, y)'
                BY <1>1, <4>1, PendingFrame
            <4>3. QED
                BY <4>2 DEF Pending
        <3>5. \E j \in Mine(to_target', t) :
                to_target'[j].off <= x /\ x < to_target'[j].off + to_target'[j].len
            BY <3>2, <3>3, <3>4 DEF e
        <3>6. \A j \in Mine(to_target', t) : j < Len(to_target') + 1
            BY DEF Mine, TypeInv
        <3>7. QED
            BY <3>5, <3>6 DEF Pending
    <2>5. QED
        BY <2>3, <2>4
<1>10. GoodIsTrue(t, c, v)'
    <2>1. SUFFICES ASSUME NEW j \in Mine(to_init', t), Live(t, j)', t \notin lost', ~CutShort(c),
                          to_init'[j].type = "resp", to_init'[j].status = "good"
                   PROVE  Filled(UnitsOf(c), v)'
        BY DEF GoodIsTrue, Filled
    <2>2. Filled(UnitsOf(c), v) /\ Mine(to_init, t) # {}
        BY <1>3, <1>4, <2>1 DEF Complete, GoodIsTrue
    <2>3. QED
        BY <1>6, <1>7, <2>2
<1>11. QED
    BY <1>8, <1>9, <1>10 DEF Complete

\* What is in the queue to the initiator after the target has sent something.
LEMMA SentMine ==
    ASSUME TypeInv, NEW t \in Tags, NEW x \in ToInit, NEW y \in ToInit, x.tag = t, y.tag = t,
           Sent(x, y)
    PROVE  /\ \A i \in Mine(to_init, t) : i \in Mine(to_init', t) /\ to_init'[i] = to_init[i]
           /\ \A i \in Mine(to_init', t) :
                \/ i \in Mine(to_init, t)
                \/ i = Len(to_init) + 1 /\ to_init'[i] = x
                \/ /\ i = Len(to_init) + 2 /\ to_init'[i] = y
                   /\ Len(to_init) + 1 \in Mine(to_init', t) /\ to_init'[Len(to_init) + 1] = x
           /\ \A i \in Mine(to_init, t) : i \in Nat /\ i <= Len(to_init)
           /\ Len(to_init) \in Nat
<1>1. to_init \in Seq(ToInit) /\ Len(to_init) \in Nat
    BY DEF TypeInv
<1>2. \A i \in Mine(to_init, t) : i \in Nat /\ i <= Len(to_init)
    BY <1>1 DEF Mine
<1>3. CASE to_init' = to_init
    BY <1>1, <1>2, <1>3
<1>4. /\ Append(to_init, x) \in Seq(ToInit) /\ Len(Append(to_init, x)) = Len(to_init) + 1
      /\ Mine(Append(to_init, x), t) = Mine(to_init, t) \cup {Len(to_init) + 1}
      /\ \A i \in Mine(to_init, t) : Append(to_init, x)[i] = to_init[i]
      /\ Append(to_init, x)[Len(to_init) + 1] = x
    <2>1. /\ Mine(Append(to_init, x), t) = Mine(to_init, t) \cup {Len(to_init) + 1}
          /\ \A i \in Mine(to_init, t) : Append(to_init, x)[i] = to_init[i]
        BY <1>1, OwnAnswer
    <2>2. /\ Append(to_init, x) \in Seq(ToInit) /\ Len(Append(to_init, x)) = Len(to_init) + 1
          /\ Append(to_init, x)[Len(to_init) + 1] = x
        BY <1>1, Appended
    <2>3. QED
        BY <2>1, <2>2
<1>5. CASE to_init' = Append(to_init, x)
    BY <1>1, <1>2, <1>4, <1>5
<1>6. CASE to_init' = Append(Append(to_init, x), y)
    <2> DEFINE p == Append(to_init, x)
    <2>1. \A q \in Seq(ToInit) : /\ Mine(Append(q, y), t) = Mine(q, t) \cup {Len(q) + 1}
                                 /\ \A i \in Mine(q, t) : Append(q, y)[i] = q[i]
                                 /\ Append(q, y)[Len(q) + 1] = y
        <3>1. \A q \in Seq(ToInit) : /\ Mine(Append(q, y), t) = Mine(q, t) \cup {Len(q) + 1}
                                     /\ \A i \in Mine(q, t) : Append(q, y)[i] = q[i]
            BY OwnAnswer
        <3>2. \A q \in Seq(ToInit) : Append(q, y)[Len(q) + 1] = y
            BY Appended
        <3>3. QED
            BY <3>1, <3>2
    <2> HIDE DEF p
    <2>2. p \in Seq(ToInit) /\ to_init' = Append(p, y) /\ Len(p) = Len(to_init) + 1
        BY <1>4, <1>6 DEF p
    <2>3. /\ Mine(to_init', t) = Mine(p, t) \cup {Len(p) + 1}
          /\ \A i \in Mine(p, t) : to_init'[i] = p[i]
          /\ to_init'[Len(p) + 1] = y
        BY <2>1, <2>2
    <2>4. /\ Mine(p, t) = Mine(to_init, t) \cup {Len(to_init) + 1}
          /\ \A i \in Mine(to_init, t) : p[i] = to_init[i]
          /\ p[Len(to_init) + 1] = x
        BY <1>4 DEF p
    <2>5. Len(p) + 1 = Len(to_init) + 2
        BY <1>1, <2>2
    <2>6. QED
        BY <1>1, <1>2, <2>3, <2>4, <2>5
<1>7. QED
    BY <1>3, <1>5, <1>6 DEF Sent

\* An answer that was believable before still is, and what may still be
\* answered GOOD could be before.
LEMMA SentLive ==
    ASSUME TypeInv, NEW t \in Tags, NEW x \in ToInit, NEW y \in ToInit, x.tag = t, y.tag = t,
           Sent(x, y), task' = task, lost \subseteq lost'
    PROVE  /\ \A i \in Mine(to_init, t) : Live(t, i)' => Live(t, i)
           /\ Clean(t)' => Clean(t)
           /\ \A n : n = Len(to_init) + 1 /\ Live(t, n)' /\ t \notin lost' => Clean(t)
           /\ \A n : n = Len(to_init) + 2 /\ x.type = "resp" => ~Live(t, n)'
<1>1. /\ \A i \in Mine(to_init, t) : i \in Mine(to_init', t) /\ to_init'[i] = to_init[i]
      /\ \A i \in Mine(to_init, t) : i \in Nat /\ i <= Len(to_init)
      /\ Len(to_init) \in Nat
    BY SentMine
<1>2. \A i \in Mine(to_init, t) : Live(t, i)' => Live(t, i)
    BY <1>1 DEF Live
<1>3. Clean(t)' => Clean(t)
    BY <1>1 DEF Clean
<1>4. ASSUME NEW n, n = Len(to_init) + 1, Live(t, n)', t \notin lost' PROVE Clean(t)
    <2>1. Live(t, n)' /\ t \notin lost'
        BY <1>4
    <2>2. \A i \in Mine(to_init, t) : i < n
        BY <1>1, <1>4
    <2>3. /\ task[t] # None
          /\ \A k \in Mine(to_init', t) : k < n => to_init'[k].type # "resp"
        BY <2>1 DEF Live
    <2>4. QED
        BY <1>1, <2>1, <2>2, <2>3 DEF Clean
<1>5. ASSUME NEW n, n = Len(to_init) + 2, x.type = "resp", Live(t, n)' PROVE FALSE
    <2>1. Live(t, n)' /\ x.type = "resp"
        BY <1>5
    <2>2. /\ n \in Mine(to_init', t)
          /\ \A k \in Mine(to_init', t) : k < n => to_init'[k].type # "resp"
        BY <2>1 DEF Live
    <2>3. Len(to_init) + 1 \in Mine(to_init', t) /\ to_init'[Len(to_init) + 1] = x
        <3>1. n \notin Mine(to_init, t) /\ n # Len(to_init) + 1
            BY <1>1, <1>5
        <3>2. QED
            BY <2>2, <3>1, SentMine
    <2>4. QED
        BY <1>1, <1>5, <2>1, <2>2, <2>3
<1>6. QED
    BY <1>2, <1>3, <1>4, <1>5

\* The target takes the command.
LEMMA CommandComplete ==
    ASSUME TypeInv, TypeInv', NEW t \in Tags, NEW c \in Commands, NEW v \in Nat, Life(t, c, v),
           TakesPdu(t, "cmd"), UNCHANGED <<task, burst, issued>>, NEW o, NEW W,
           CommandEffect(to_target[1], o, W), to_target[1] = Head(to_target),
           lost' = IF Loses(to_target[1], o) THEN lost \cup {t} ELSE lost
    PROVE  Complete(t, c, v)'
<1> DEFINE m == to_target[1]
<1>1. to_target \in Seq(ToTarget) /\ to_init \in Seq(ToInit) /\ m.tag = t /\ m.type = "cmd"
    BY DEF TypeInv, TakesPdu
<1>2. 1 \in Mine(to_target, t)
    <2>1. to_target # <<>>
        BY DEF TakesPdu
    <2>2. Len(to_target) \in Nat \ {0}
        BY <1>1, <2>1, Taken
    <2>3. QED
        BY <1>1, <2>2 DEF Mine
<1>3. /\ Mine(to_target, t) = {1} /\ Mine(to_init, t) = {} /\ burst[t].len = 0 /\ r2t[t] = None
      /\ m.cmd = c /\ m.val = v
    BY <1>1, <1>2 DEF Life, CommandAlone, Identity
<1>4. Mine(to_target', t) = {}
    <2>1. \A i \in Mine(Tail(to_target), t) : i \in Nat /\ i + 1 \in Mine(to_target, t)
        BY <1>1, PopMine DEF TakesPdu
    <2>2. Mine(Tail(to_target), t) \subseteq Nat \ {0}
        <3>1. Tail(to_target) \in Seq(ToTarget)
            BY <1>1, Taken DEF TakesPdu
        <3>2. QED
            BY <3>1, MineInt
    <2>3. \A i \in Mine(Tail(to_target), t) : FALSE
        BY <1>3, <2>1, <2>2
    <2>4. QED
        BY <2>3 DEF TakesPdu
<1>5. disk' = Written(W, v) /\ disk \in [Units -> Nat]
    BY <1>3 DEF CommandEffect, TypeInv
<1>6. NoGaps(t)'
    BY <1>3, <1>4 DEF NoGaps
<1> HIDE DEF m
<1>7. CASE Answers(m, o, W)
    <2>1. PICK s \in Statuses : /\ to_init' = to_init \o <<Resp(t, s)>>
                                /\ s = "good" /\ ~Loses(m, o) /\ ~CutShort(c) =>
                                     UnitsOf(c) \subseteq W
        BY <1>1, <1>3, <1>7 DEF Answers
    <2>2. r2t'[t] = None
        BY <1>3, <1>7 DEF Answers
    <2>3. Resp(t, s) \in ToInit /\ Resp(t, s).tag = t /\ Resp(t, s).status = s
        BY RespType DEF Resp
    <2>4. to_init' = Append(to_init, Resp(t, s))
        BY <1>1, <2>1, <2>3, Appended
    <2>5. Sent(Resp(t, s), Resp(t, s))
        BY <2>4 DEF Sent
    <2>6. \A i \in Mine(to_init', t) : to_init'[i] = Resp(t, s)
        BY <1>3, <2>3, <2>5, SentMine
    <2>7. GoodIsTrue(t, c, v)'
        <3>1. SUFFICES ASSUME s = "good", t \notin lost', ~CutShort(c) PROVE Filled(UnitsOf(c), v)'
            BY <2>3, <2>6 DEF GoodIsTrue, Filled
        <3>2. UnitsOf(c) \subseteq W
            BY <2>1, <3>1 DEF m
        <3>3. QED
            BY <1>5, <3>2, FilledAll
    <2>8. QED
        BY <1>6, <2>2, <2>7 DEF Complete, DoneWritten
<1>8. CASE Continues(m, W)
    <2>1. PICK done \in Nat : \E left \in Nat \ {0} :
            /\ Span(c.lba, 0, done) \subseteq W
            /\ r2t' = [r2t EXCEPT ![t] = [cmd |-> c, done |-> done, left |-> left]]
            /\ to_init' = to_init \o <<R2T(t, done, left)>>
        BY <1>1, <1>3, <1>8 DEF Continues
    <2>2. PICK left \in Nat \ {0} :
            /\ Span(c.lba, 0, done) \subseteq W
            /\ r2t' = [r2t EXCEPT ![t] = [cmd |-> c, done |-> done, left |-> left]]
            /\ to_init' = to_init \o <<R2T(t, done, left)>>
        BY <2>1
    <2>3. R2T(t, done, left) \in ToInit /\ R2T(t, done, left).tag = t /\ R2T(t, done, left).type = "r2t"
        BY R2TType DEF R2T
    <2>4. to_init' = Append(to_init, R2T(t, done, left))
        BY <1>1, <2>2, <2>3, Appended
    <2>5. Sent(R2T(t, done, left), R2T(t, done, left))
        BY <2>4 DEF Sent
    <2>6. \A i \in Mine(to_init', t) : to_init'[i] = R2T(t, done, left)
        BY <1>3, <2>3, <2>5, SentMine
    <2>7. GoodIsTrue(t, c, v)'
        BY <2>3, <2>6 DEF GoodIsTrue
    <2>8. r2t'[t].done = done
        BY <2>2 DEF TypeInv
    <2>9. Filled(Span(c.lba, 0, done), v)'
        BY <1>5, <2>2, FilledAll
    <2>10. DoneWritten(t, c, v)'
        BY <2>8, <2>9 DEF DoneWritten, Filled
    <2>11. QED
        BY <1>6, <2>7, <2>10 DEF Complete
<1>9. CASE Forgets(m, o)
    <2>1. t \in lost' /\ to_init' = to_init
        BY <1>9 DEF Forgets, m
    <2>2. QED
        BY <2>1 DEF Complete, DoneWritten, NoGaps, GoodIsTrue, Clean
<1>10. QED
    BY <1>7, <1>8, <1>9 DEF CommandEffect, m

\* While a task may still be answered GOOD its DATA-OUTs are written one after
\* the other.
LEMMA NextIsNext ==
    ASSUME TypeInv, NEW t \in Tags, NEW c \in Commands, NEW v, Life(t, c, v), NoGaps(t), Clean(t),
           r2t[t] # None, 1 \in Mine(to_target, t), to_target[1] \in ToTarget,
           to_target[1].type = "data"
    PROVE  r2t[t].done = to_target[1].off
<1>1. /\ r2t[t].done \in Nat /\ to_target[1].off \in Nat /\ r2t[t].done <= to_target[1].off
    BY Counters DEF CounterType
<1>2. SUFFICES ASSUME r2t[t].done < to_target[1].off PROVE FALSE
    BY <1>1
<1>3. r2t[t].done \in r2t[t].done .. to_target[1].off - 1
    BY <1>1, <1>2
<1>4. Pending(t, r2t[t].done, 1)
    BY <1>3 DEF NoGaps
<1>5. Mine(to_target, t) \subseteq Nat \ {0}
    BY MineInt DEF TypeInv
<1>6. QED
    BY <1>4, <1>5 DEF Pending

\* The target takes a DATA-OUT.
LEMMA DataComplete ==
    ASSUME TypeInv, TypeInv', NEW t \in Tags, NEW c \in Commands, NEW v \in Nat, Life(t, c, v),
           Complete(t, c, v), TakesPdu(t, "data"), UNCHANGED <<task, burst, issued>>,
           NEW W, DataEffect(to_target[1], W), disk' = Written(W, v), lost \subseteq lost',
           to_target[1] = Head(to_target)
    PROVE  Complete(t, c, v)'
<1> DEFINE m == to_target[1]
           T == c.tl * BlockSize
<1>1. /\ to_target \in Seq(ToTarget) /\ to_init \in Seq(ToInit) /\ disk \in [Units -> Nat]
      /\ m.tag = t /\ m.type = "data" /\ to_target # <<>> /\ to_target' = Tail(to_target)
    BY DEF TypeInv, TakesPdu
<1>s. to_init \in Seq(ToInit)
    BY DEF TypeInv
<1>2. m \in ToTarget /\ 1 \in Mine(to_target, t)
    <2>1. Len(to_target) \in Nat \ {0} /\ m \in ToTarget
        BY <1>1, Taken
    <2>2. QED
        BY <1>1, <2>1 DEF Mine
<1>3. r2t[t] # None
    BY <1>1 DEF DataEffect
<1>4. /\ c.op = "write" /\ T \in Nat
      /\ r2t[t] \in CounterType /\ r2t[t].cmd = c /\ m.off \in Nat /\ m.len \in Nat
      /\ r2t[t].done <= m.off /\ m.off + m.len <= T
      /\ m.F <=> m.off + m.len = T
      /\ r2t[t].done + r2t[t].left = T
      /\ (r2t[t].done + m.len) % Uint32 = r2t[t].done + m.len
      /\ (r2t[t].left - m.len) % Uint32 = r2t[t].left - m.len
      /\ r2t[t].left - m.len \in Nat
    BY <1>1, <1>2, <1>3, Counters
<1>5. /\ UnitsOf(c) = Span(c.lba, 0, T) /\ c.lba \in Nat /\ c.lba * BlockSize \in Nat
      /\ r2t[t].done \in Nat /\ r2t[t].left \in Nat
      /\ DataSpan(m, m.len) = Span(c.lba, m.off, m.len)
    <2>1. UnitsOf(c) = Span(c.lba, 0, T) /\ c.lba \in Nat
        BY <1>4, ImmediateFacts, CommandFacts
    <2>2. c.lba * BlockSize \in Nat
        BY <2>1, Geometry
    <2>3. r2t[t].done \in Nat /\ r2t[t].left \in Nat
        BY <1>4 DEF CounterType
    <2>4. DataSpan(m, m.len) = Span(c.lba, m.off, m.len)
        BY <1>1, <1>4 DEF DataSpan
    <2>5. QED
        BY <2>1, <2>2, <2>3, <2>4
<1>6. Clean(t) => r2t[t].done = m.off
    BY <1>1, <1>2, <1>3, NextIsNext DEF Complete
<1> DEFINE done == r2t[t].done + m.len
           left == r2t[t].left - m.len
\* What comes after what is done makes more of it done.
<1>7. Clean(t) /\ W = DataSpan(m, m.len) =>
        \A u \in Span(c.lba, 0, done) \cap Units : disk'[u] = v
    <2>1. SUFFICES ASSUME Clean(t), W = DataSpan(m, m.len), NEW u \in Span(c.lba, 0, done) \cap Units,
                          u \notin W
                   PROVE  disk[u] = v
        <3>1. \A u \in Units : disk'[u] = IF u \in W THEN v ELSE disk[u]
            BY <1>1, WrittenFacts
        <3>2. QED
            BY <3>1
    <2>2. Filled(Span(c.lba, 0, r2t[t].done), v)
        BY <1>3, <2>1 DEF Complete, DoneWritten
    <2>3. r2t[t].done = m.off
        BY <1>6, <2>1
    <2>4. u \in Span(c.lba, 0, r2t[t].done)
        BY <1>4, <1>5, <2>1, <2>3, SpanSplit
    <2>5. QED
        BY <2>1, <2>2, <2>4 DEF Filled
<1>8. Filled(UnitsOf(c), v) => Filled(UnitsOf(c), v)'
    BY <1>1, FilledOnce
\* An answer that was sent before.
<1>9. ASSUME NEW x \in ToInit, NEW y \in ToInit, x.tag = t, y.tag = t, Sent(x, y),
             NEW j \in Mine(to_init, t), Live(t, j)', t \notin lost', ~CutShort(c),
             to_init'[j].type = "resp", to_init'[j].status = "good"
      PROVE  Filled(UnitsOf(c), v)'
    <2>1. Live(t, j) /\ to_init'[j] = to_init[j]
        BY <1>9, SentLive, SentMine
    <2>2. Filled(UnitsOf(c), v)
        BY <1>9, <2>1 DEF Complete, GoodIsTrue
    <2>3. QED
        BY <1>8, <2>2
<1>10. CASE Fails(m, W)
    <2> DEFINE x == Resp(t, "io_error")
    <2>1. x \in ToInit /\ x.tag = t /\ x.type = "resp" /\ x.status = "io_error"
        BY RespType DEF Resp, Statuses
    <2>2. to_init' = Append(to_init, x)
        BY <1>1, <1>10, <2>1, Appended DEF Fails
    <2> HIDE DEF x
    <2>3. Sent(x, x)
        BY <2>2 DEF Sent
    <2>4. \A i \in Mine(to_init', t) : i \in Mine(to_init, t) \/ to_init'[i] = x
        BY <2>1, <2>3, SentMine
    <2>5. ~Clean(t)'
        <3>1. Len(to_init) + 1 \in Mine(to_init', t) /\ to_init'[Len(to_init) + 1] = x
            <4>1. \A z \in ToInit : z.tag = t =>
                    Mine(Append(to_init, z), t) = Mine(to_init, t) \cup {Len(to_init) + 1}
                BY <1>s, OwnAnswer
            <4>2. \A z \in ToInit : Append(to_init, z)[Len(to_init) + 1] = z
                BY <1>s, Appended
            <4>3. Mine(to_init', t) = Mine(to_init, t) \cup {Len(to_init) + 1}
                BY <2>1, <2>2, <4>1
            <4>4. to_init'[Len(to_init) + 1] = x
                BY <2>1, <2>2, <4>2
            <4>5. QED
                BY <4>3, <4>4
        <3>2. QED
            BY <2>1, <3>1 DEF Clean
    <2>6. GoodIsTrue(t, c, v)'
        <3>1. SUFFICES ASSUME NEW j \in Mine(to_init', t), Live(t, j)', t \notin lost', ~CutShort(c),
                              to_init'[j].type = "resp", to_init'[j].status = "good"
                       PROVE  Filled(UnitsOf(c), v)'
            BY DEF GoodIsTrue, Filled
        <3>2. j \in Mine(to_init, t)
            BY <2>1, <2>4, <3>1
        <3>3. QED
            BY <1>9, <2>1, <2>3, <3>1, <3>2
    <2>7. QED
        BY <2>5, <2>6 DEF Complete, DoneWritten, NoGaps
<1>11. CASE Takes(m) /\ W = DataSpan(m, m.len)
    <2> DEFINE x == Resp(t, "good")
    <2>1. x \in ToInit /\ x.tag = t /\ x.type = "resp"
        BY RespType DEF Resp, Statuses
    <2>2. \/ /\ m.F /\ left = 0
             /\ r2t' = [r2t EXCEPT ![t] = None]
             /\ to_init' = to_init \o <<x>>
          \/ /\ m.F /\ left # 0
             /\ to_init' = to_init \o <<x, R2T(t, done, left)>>
          \/ /\ ~m.F
             /\ r2t' = [r2t EXCEPT ![t].done = done, ![t].left = left]
             /\ to_init' = to_init
        BY <1>1, <1>4, <1>11 DEF Takes
    <2>d. done \in Nat /\ left \in Nat
        BY <1>4, <1>5
    <2>e. Clean(t) /\ m.F => left = 0 /\ done = T
        BY <1>4, <1>5, <1>6
    <2> HIDE DEF x
    <2>3. CASE m.F /\ left = 0 /\ r2t' = [r2t EXCEPT ![t] = None] /\ to_init' = to_init \o <<x>>
        <3>1. to_init' = Append(to_init, x)
            BY <1>1, <2>1, <2>3, Appended
        <3>2. Sent(x, x)
            BY <3>1 DEF Sent
        <3>3. r2t'[t] = None
            BY <2>3 DEF TypeInv
        <3>4. GoodIsTrue(t, c, v)'
            <4>1. SUFFICES ASSUME NEW j \in Mine(to_init', t), Live(t, j)', t \notin lost', ~CutShort(c),
                                  to_init'[j].type = "resp", to_init'[j].status = "good"
                           PROVE  Filled(UnitsOf(c), v)'
                BY DEF GoodIsTrue, Filled
            <4>2. CASE j \in Mine(to_init, t)
                BY <1>9, <2>1, <3>2, <4>1, <4>2
            <4>3. CASE j = Len(to_init) + 1
                <5>1. Clean(t)
                    BY <2>1, <3>2, <4>1, <4>3, SentLive
                <5>2. done = T
                    BY <2>3, <2>e, <5>1
                <5>3. \A u \in UnitsOf(c) \cap Units : disk'[u] = v
                    BY <1>5, <1>7, <1>11, <5>1, <5>2
                <5>4. QED
                    BY <5>3 DEF Filled, Units, UnitsOf, Span, NBlocksOf
            <4>4. CASE j = Len(to_init) + 2
                <5>1. ~Live(t, j)'
                    BY <2>1, <3>2, <4>4, SentLive
                <5>2. QED
                    BY <4>1, <5>1
            <4>5. QED
                BY <2>1, <3>2, <4>2, <4>3, <4>4, SentMine
        <3>5. QED
            BY <3>3, <3>4 DEF Complete, DoneWritten, NoGaps
    <2>4. CASE m.F /\ left # 0 /\ to_init' = to_init \o <<x, R2T(t, done, left)>>
        <3> DEFINE y == R2T(t, done, left)
        <3>1. y \in ToInit /\ y.tag = t
            BY <2>4, <2>d, R2TType DEF R2T
        <3>2. to_init' = Append(Append(to_init, x), y)
            BY <1>1, <2>1, <2>4, <3>1, AppendedTwo
        <3> HIDE DEF y
        <3>3. Sent(x, y)
            BY <3>2 DEF Sent
        <3>4. ~Clean(t)
            BY <2>4, <2>e
        <3>5. ~Clean(t)'
            BY <2>1, <3>1, <3>3, <3>4, SentLive
        <3>6. GoodIsTrue(t, c, v)'
            <4>1. SUFFICES ASSUME NEW j \in Mine(to_init', t), Live(t, j)', t \notin lost', ~CutShort(c),
                                  to_init'[j].type = "resp", to_init'[j].status = "good"
                           PROVE  Filled(UnitsOf(c), v)'
                BY DEF GoodIsTrue, Filled
            <4>2. CASE j \in Mine(to_init, t)
                BY <1>9, <2>1, <3>1, <3>3, <4>1, <4>2
            <4>3. CASE j = Len(to_init) + 1
                BY <2>1, <3>1, <3>3, <3>4, <4>1, <4>3, SentLive
            <4>4. CASE j = Len(to_init) + 2
                <5>1. ~Live(t, j)'
                    BY <2>1, <3>1, <3>3, <4>4, SentLive
                <5>2. QED
                    BY <4>1, <5>1
            <4>5. QED
                BY <2>1, <3>1, <3>3, <4>2, <4>3, <4>4, SentMine
        <3>7. QED
            BY <3>5, <3>6 DEF Complete, DoneWritten, NoGaps
    <2>5. CASE ~m.F /\ r2t' = [r2t EXCEPT ![t].done = done, ![t].left = left] /\ to_init' = to_init
        <3>1. Sent(x, x)
            BY <2>5 DEF Sent
        <3>2. Clean(t)' => Clean(t)
            BY <2>1, <3>1, SentLive
        <3>3. r2t'[t].done = done
            <4>1. \A d, l \in Nat : [r2t EXCEPT ![t].done = d, ![t].left = l][t].done = d
                BY <1>4 DEF TypeInv, CounterType
            <4>2. QED
                BY <2>5, <2>d, <4>1
        <3>4. GoodIsTrue(t, c, v)'
            <4>1. SUFFICES ASSUME NEW j \in Mine(to_init', t), Live(t, j)', t \notin lost', ~CutShort(c),
                                  to_init'[j].type = "resp", to_init'[j].status = "good"
                           PROVE  Filled(UnitsOf(c), v)'
                BY DEF GoodIsTrue, Filled
            <4>2. QED
                BY <1>9, <2>1, <2>5, <3>1, <4>1
        <3>5. DoneWritten(t, c, v)'
            <4>1. SUFFICES ASSUME Clean(t)'
                           PROVE  \A u \in Span(c.lba, 0, r2t'[t].done) \cap Units : disk'[u] = v
                BY DEF DoneWritten, Filled, Units, Span
            <4>2. QED
                BY <1>7, <1>11, <3>2, <3>3, <4>1
        <3>6. NoGaps(t)'
            <4> HIDE DEF done, left
            <4>1. SUFFICES ASSUME Clean(t)'
                           PROVE  /\ \A i \in Mine(to_target', t) :
                                       \A z \in done .. to_target'[i].off - 1 : Pending(t, z, i)'
                                  /\ burst[t].len > 0 =>
                                       \A z \in done .. burst[t].off - 1 :
                                          Pending(t, z, Len(to_target) + 1)'
                BY <3>3 DEF NoGaps
            <4>2. /\ \A i \in Mine(to_target, t) :
                       \A z \in r2t[t].done .. to_target[i].off - 1 : Pending(t, z, i)
                  /\ burst[t].len > 0 =>
                       \A z \in r2t[t].done .. burst[t].off - 1 : Pending(t, z, Len(to_target) + 1)
                BY <1>3, <3>2, <4>1 DEF Complete, NoGaps
            <4>3. done = m.off + m.len /\ r2t[t].done = m.off
                BY <1>6, <3>2, <4>1 DEF done
            <4>4. /\ \A i \in Mine(to_target', t) : /\ i \in Nat /\ i + 1 \in Mine(to_target, t)
                                                    /\ to_target'[i] = to_target[i + 1]
                  /\ \A i \in Mine(to_target, t) : i # 1 => i - 1 \in Mine(to_target', t)
                <5>1. /\ \A i \in Mine(Tail(to_target), t) : /\ i \in Nat /\ i + 1 \in Mine(to_target, t)
                                                             /\ Tail(to_target)[i] = to_target[i + 1]
                      /\ \A i \in Mine(to_target, t) : i # 1 => i - 1 \in Mine(Tail(to_target), t)
                    BY <1>1, PopMine
                <5>2. QED
                    BY <1>1, <5>1
            <4>5. Mine(to_target, t) \subseteq Nat \ {0}
                BY <1>1, MineInt
            \* m itself covers nothing from done on.
            <4>6. ASSUME NEW z \in Int, z >= done, NEW i, Pending(t, z, i)
                  PROVE  \E j \in Mine(to_target', t) :
                           j + 1 < i /\ to_target'[j].off <= z
                           /\ z < to_target'[j].off + to_target'[j].len
                <5>1. PICK j \in Mine(to_target, t) :
                        j < i /\ to_target[j].off <= z /\ z < to_target[j].off + to_target[j].len
                    BY <4>6 DEF Pending
                <5>2. j # 1
                    BY <1>4, <4>3, <4>6, <5>1
                <5>3. j - 1 \in Mine(to_target', t) /\ (j - 1) + 1 = j
                    BY <4>4, <4>5, <5>2
                <5>4. to_target'[j - 1] = to_target[j] /\ (j - 1) + 1 < i
                    BY <4>4, <5>1, <5>3
                <5>5. QED
                    BY <5>1, <5>3, <5>4
            <4>7. ASSUME NEW i \in Mine(to_target', t), NEW z \in done .. to_target'[i].off - 1
                  PROVE  Pending(t, z, i)'
                <5>1. Pending(t, z, i + 1) /\ z \in Int /\ z >= done
                    BY <1>4, <2>d, <4>2, <4>3, <4>4, <4>7
                <5>2. PICK j \in Mine(to_target', t) :
                        j + 1 < i + 1 /\ to_target'[j].off <= z
                        /\ z < to_target'[j].off + to_target'[j].len
                    BY <4>6, <5>1
                <5>3. j < i
                    BY <4>4, <5>2
                <5>4. QED
                    BY <5>2, <5>3 DEF Pending
            <4>8. ASSUME burst[t].len > 0, NEW z \in done .. burst[t].off - 1
                  PROVE  Pending(t, z, Len(to_target) + 1)'
                <5>1. Pending(t, z, Len(to_target) + 1) /\ z \in Int /\ z >= done
                    BY <1>4, <2>d, <4>2, <4>3, <4>8
                <5>2. PICK j \in Mine(to_target', t) :
                        to_target'[j].off <= z /\ z < to_target'[j].off + to_target'[j].len
                    BY <4>6, <5>1
                <5>3. \A i \in Mine(to_target', t) : i < Len(to_target') + 1
                    BY DEF Mine, TypeInv
                <5>4. QED
                    BY <5>2, <5>3 DEF Pending
            <4>9. QED
                BY <4>7, <4>8
        <3>7. QED
            BY <3>4, <3>5, <3>6 DEF Complete
    <2>6. QED
        BY <2>2, <2>3, <2>4, <2>5
<1>12. QED
    BY <1>10, <1>11 DEF DataEffect

LEMMA HandleComplete ==
    ASSUME TypeInv, TypeInv', NEW t \in Tags, NEW c \in Commands, NEW v \in 0 .. Len(issued),
           Life(t, c, v), Complete(t, c, v), Handle, Head(to_target).tag = t
    PROVE  Complete(t, c, v)'
<1> DEFINE m == Head(to_target)
<1>1. /\ m \in ToTarget /\ to_target # <<>> /\ to_target' = Tail(to_target) /\ UNCHANGED initiator
    BY HandleCases
<1>2. PICK o \in Outcomes : /\ \E W : HandleEffect(m, o, W)
                            /\ lost' = IF Loses(m, o) THEN lost \cup {m.tag} ELSE lost
    BY HandleCases
<1>3. PICK W : HandleEffect(m, o, W)
    BY <1>2
<1>4. m = to_target[1]
    BY <1>1, Taken DEF TypeInv
<1>5. TakesPdu(t, m.type) /\ UNCHANGED <<task, burst, issued>>
    BY <1>1 DEF TakesPdu, initiator
<1>6. v \in Nat /\ disk' = Written(W, v)
    BY <1>1, <1>3, HandleWrites
<1> HIDE DEF m
<1>7. m.tag = t
    BY DEF m
<1>8. CASE m.type = "cmd" /\ CommandEffect(m, o, W)
    <2>1. /\ TakesPdu(t, "cmd") /\ CommandEffect(to_target[1], o, W)
          /\ to_target[1] = Head(to_target)
          /\ lost' = IF Loses(to_target[1], o) THEN lost \cup {t} ELSE lost
        BY <1>2, <1>4, <1>5, <1>7, <1>8 DEF m
    <2>2. QED
        BY <1>5, <1>6, <2>1, CommandComplete
<1>9. CASE m.type = "data" /\ DataEffect(m, W)
    <2>1. TakesPdu(t, "data") /\ DataEffect(to_target[1], W) /\ to_target[1] = Head(to_target)
        BY <1>4, <1>5, <1>9 DEF m
    <2>2. lost \subseteq lost'
        BY <1>2
    <2>3. QED
        BY <1>5, <1>6, <2>1, <2>2, DataComplete
<1>10. CASE Loses(m, o)
    <2>1. t \in lost'
        BY <1>2, <1>7, <1>10
    <2>2. QED
        BY <2>1 DEF Complete, DoneWritten, NoGaps, GoodIsTrue, Clean
<1>11. QED
    BY <1>3, <1>8, <1>9, <1>10 DEF HandleEffect

LEMMA ReceiveComplete ==
    ASSUME TypeInv, TypeInv', NEW t \in Tags, NEW c \in Commands, NEW v \in 0 .. Len(issued),
           Life(t, c, v), Complete(t, c, v), Receive, Head(to_init).tag = t
    PROVE  Complete(t, c, v)'
<1> DEFINE m == Head(to_init)
<1>1. /\ \A i \in Mine(to_init', t) : /\ i \in Nat /\ i + 1 \in Mine(to_init, t)
                                      /\ to_init'[i] = to_init[i + 1]
      /\ \A i \in Mine(to_init, t) : i # 1 => i - 1 \in Mine(to_init', t)
      /\ 1 \in Mine(to_init, t) /\ to_init[1] = m
    <2>1. to_init \in Seq(ToInit) /\ to_init # <<>> /\ to_init' = Tail(to_init)
        BY DEF TypeInv, Receive
    <2>2. /\ \A i \in Mine(Tail(to_init), t) : /\ i \in Nat /\ i + 1 \in Mine(to_init, t)
                                               /\ Tail(to_init)[i] = to_init[i + 1]
          /\ \A i \in Mine(to_init, t) : i # 1 => i - 1 \in Mine(Tail(to_init), t)
          /\ Head(to_init).tag = t => 1 \in Mine(to_init, t) /\ to_init[1] = Head(to_init)
        BY <2>1, PopMine
    <2>3. QED
        BY <2>1, <2>2
<1>2. UNCHANGED <<disk, r2t, to_target, issued, lost>>
    BY DEF Receive, target
<1>3. \/ task[t] = None /\ UNCHANGED <<task, burst>>
      \/ task[t] # None /\ m.type = "r2t" /\ task' = task
         /\ burst' = [burst EXCEPT ![t] = [off |-> m.off, len |-> m.len]]
      \/ /\ task' = [task EXCEPT ![t] = None]
         /\ burst' = [burst EXCEPT ![t] = NoBurst]
    BY DEF Receive
<1>4. Mine(to_init, t) \subseteq Nat \ {0} /\ Mine(to_init', t) \subseteq Nat \ {0}
    BY MineInt DEF TypeInv
<1> HIDE DEF m
<1>5. CASE task[t] # None /\ m.type = "r2t" /\ task' = task
           /\ burst' = [burst EXCEPT ![t] = [off |-> m.off, len |-> m.len]]
    <2>1. Live(t, 1)
        BY <1>1, <1>4, <1>5 DEF Live
    <2>2. /\ Mine(to_target, t) = {} /\ r2t[t] # None /\ m.off = r2t[t].done
        BY <1>1, <1>5, <2>1 DEF Life, Asked
    <2>3. burst'[t].off = r2t[t].done /\ r2t[t].done \in Nat
        BY <1>5, <2>2 DEF TypeInv
    <2>4. \A i \in Mine(to_init, t) : \/ to_init[i].type = "r2t" /\ i = 1
                                      \/ i - 1 \in Mine(to_init', t) /\ to_init'[i - 1] = to_init[i]
        <3>1. SUFFICES ASSUME NEW i \in Mine(to_init, t), i # 1
                       PROVE  i - 1 \in Mine(to_init', t) /\ to_init'[i - 1] = to_init[i]
            BY <1>1, <1>5
        <3>2. i - 1 \in Mine(to_init', t) /\ (i - 1) + 1 = i
            BY <1>1, <1>4, <3>1
        <3>3. QED
            BY <1>1, <3>2
    <2>5. Clean(t)' => Clean(t)
        BY <1>2, <1>5, <2>4 DEF Clean
    <2>6. NoGaps(t)'
        <3>1. \A z \in burst'[t].off .. burst'[t].off - 1 : FALSE
            BY <2>3
        <3>2. QED
            BY <1>2, <2>2, <2>3, <3>1 DEF NoGaps
    <2>7. DoneWritten(t, c, v)'
        BY <1>2, <2>5 DEF Complete, DoneWritten, Filled
    <2>8. GoodIsTrue(t, c, v)'
        <3>1. SUFFICES ASSUME NEW j \in Mine(to_init', t), Live(t, j)', t \notin lost', ~CutShort(c),
                              to_init'[j].type = "resp", to_init'[j].status = "good"
                       PROVE  Filled(UnitsOf(c), v)
            BY <1>2 DEF GoodIsTrue, Filled
        <3>2. j + 1 \in Mine(to_init, t) /\ to_init'[j] = to_init[j + 1] /\ j \in Nat
            BY <1>1
        <3>3. ASSUME NEW i \in Mine(to_init, t), i < j + 1 PROVE to_init[i].type # "resp"
            <4>1. i - 1 < j
                BY <1>4, <3>2, <3>3
            <4>2. QED
                BY <2>4, <3>1, <4>1 DEF Live
        <3>4. Live(t, j + 1)
            BY <1>5, <3>2, <3>3 DEF Live
        <3>5. QED
            BY <1>2, <3>1, <3>2, <3>4 DEF Complete, GoodIsTrue
    <2>9. QED
        BY <2>6, <2>7, <2>8 DEF Complete
<1>6. CASE task'[t] = None
    BY <1>6 DEF Complete, DoneWritten, NoGaps, GoodIsTrue, Clean, Live
<1>7. QED
    BY <1>3, <1>5, <1>6 DEF TypeInv

LEMMA SendComplete ==
    ASSUME TypeInv, TypeInv', NEW t \in Tags, NEW c \in Commands, NEW v \in 0 .. Len(issued),
           Life(t, c, v), Complete(t, c, v), NEW n \in Pieces, SendData(t, n)
    PROVE  Complete(t, c, v)'
<1> DEFINE d == [type |-> "data", tag |-> t, off |-> burst[t].off, len |-> n,
                 F |-> burst[t].len = n, val |-> task[t].val]
           last == Len(to_target) + 1
<1>1. /\ n \in Nat \ {0} /\ burst[t].len \in Nat /\ burst[t].off \in Nat /\ burst[t].len >= n
      /\ task[t].val \in 0 .. MaxCommands
    BY BurstOfTask
<1>2. d \in ToTarget /\ d.tag = t /\ d.off = burst[t].off /\ d.len = n
    <2>1. (burst[t].len = n) \in BOOLEAN
        OBVIOUS
    <2>2. QED
        BY <1>1, <2>1 DEF ToTarget
<1>3. to_target' = Append(to_target, d) /\ UNCHANGED <<disk, r2t, to_init, task, lost>>
    BY DEF SendData, target
<1>4. burst'[t].off = burst[t].off + n
    BY DEF SendData, TypeInv
<1> HIDE DEF d
<1>5. /\ Mine(to_target', t) = Mine(to_target, t) \cup {last}
      /\ \A i \in Mine(to_target, t) : to_target'[i] = to_target[i] /\ i \in Nat /\ i < last
      /\ to_target'[last] = d /\ last \in Nat /\ Len(to_target') = last
    <2>1. to_target \in Seq(ToTarget) /\ Len(to_target) \in Nat
        BY DEF TypeInv
    <2>2. \A x \in ToTarget : x.tag = t =>
            /\ Mine(Append(to_target, x), t) = Mine(to_target, t) \cup {Len(to_target) + 1}
            /\ \A i \in Mine(to_target, t) : Append(to_target, x)[i] = to_target[i] /\ i \in Nat
        BY <2>1, OwnPdu
    <2>3. \A x \in ToTarget : Append(to_target, x)[Len(to_target) + 1] = x
                              /\ Len(Append(to_target, x)) = Len(to_target) + 1
        BY <2>1, Appended
    <2>4. \A i \in Mine(to_target, t) : i <= Len(to_target) /\ i \in Nat
        BY <2>1 DEF Mine
    <2>5. last \in Nat /\ \A i \in Mine(to_target, t) : i < last
        BY <2>1, <2>4
    <2>6. Mine(to_target', t) = Mine(to_target, t) \cup {last}
          /\ \A i \in Mine(to_target, t) : to_target'[i] = to_target[i]
        BY <1>2, <1>3, <2>2
    <2>7. to_target'[last] = d /\ Len(to_target') = last
        BY <1>2, <1>3, <2>3
    <2>8. QED
        BY <2>4, <2>5, <2>6, <2>7
<1> HIDE DEF last
<1>6. DoneWritten(t, c, v)' /\ GoodIsTrue(t, c, v)'
    BY <1>3 DEF Complete, DoneWritten, GoodIsTrue, Filled, Clean, Live
<1>7. NoGaps(t)'
    <2>1. SUFFICES ASSUME Clean(t), r2t[t] # None
                   PROVE  /\ \A i \in Mine(to_target', t) :
                               \A x \in r2t[t].done .. to_target'[i].off - 1 : Pending(t, x, i)'
                          /\ \A x \in r2t[t].done .. burst'[t].off - 1 :
                                  Pending(t, x, Len(to_target) + 1)'
        BY <1>3 DEF NoGaps, Clean
    <2>2. /\ \A i \in Mine(to_target, t) :
               \A x \in r2t[t].done .. to_target[i].off - 1 : Pending(t, x, i)
          /\ \A x \in r2t[t].done .. burst[t].off - 1 : Pending(t, x, last)
        BY <1>1, <2>1 DEF Complete, NoGaps, last
    <2>3. ASSUME NEW x, NEW i, Pending(t, x, i) PROVE Pending(t, x, i)'
        BY <1>5, <2>3 DEF Pending
    <2>4. ASSUME NEW i \in Mine(to_target', t), NEW x \in r2t[t].done .. to_target'[i].off - 1
          PROVE  Pending(t, x, i)'
        <3>1. Pending(t, x, i)
            <4>1. CASE i \in Mine(to_target, t)
                BY <1>5, <2>2, <2>4, <4>1
            <4>2. CASE i = last
                BY <1>2, <1>5, <2>2, <2>4, <4>2
            <4>3. QED
                BY <1>5, <4>1, <4>2
        <3>2. QED
            BY <2>3, <3>1
    <2>5. ASSUME NEW x \in r2t[t].done .. burst'[t].off - 1
          PROVE  \E j \in Mine(to_target', t) :
                    to_target'[j].off <= x /\ x < to_target'[j].off + to_target'[j].len
        <3>1. r2t[t].done \in Nat
            BY <2>1 DEF TypeInv
        <3>2. x \in Int /\ x < burst[t].off + n /\ r2t[t].done <= x
            BY <1>1, <1>4, <2>5, <3>1
        <3>3. CASE x < burst[t].off
            <4>1. x \in r2t[t].done .. burst[t].off - 1
                BY <1>1, <3>1, <3>2, <3>3
            <4>2. Pending(t, x, last)
                BY <2>2, <4>1
            <4>3. QED
                BY <1>5, <4>2 DEF Pending
        <3>4. CASE x >= burst[t].off
            BY <1>2, <1>5, <3>2, <3>4
        <3>5. QED
            BY <1>1, <3>2, <3>3, <3>4
    <2>6. \A j \in Mine(to_target', t) : j < Len(to_target') + 1
        BY <1>5
    <2>7. QED
        BY <2>4, <2>5, <2>6 DEF Pending
<1>8. QED
    BY <1>6, <1>7 DEF Complete

-----------------------------------------------------------------------------
(* What is written, is readable later on. *)

\* A read may find what the task is to write, for as long as there is anything
\* of it that the target has not seen.
MayRead(t, c, v) ==
    task[t] # None \/ Mine(to_target, t) # {} => \A u \in Reach(c) \cap Units : v \in allowed[u]

\* DATA-OUTs that a task left behind come before the command of any later task
\* for the same blocks.
Before(t, c) ==
    \A i \in Mine(to_target, t) : \A s \in Tags \ {t} :
        task[s] # None /\ Reach(task[s].cmd) \cap Reach(c) # {} =>
            \E j \in Mine(to_target, s) : i < j /\ to_target[j].type = "cmd"

Own(t, c, v) == Life(t, c, v) /\ Complete(t, c, v) /\ MayRead(t, c, v) /\ Before(t, c)

Owned ==
    \A t \in Tags :
        IF t \in used THEN \E c \in Commands : \E v \in 0 .. Len(issued) : Own(t, c, v)
        ELSE Unused(t)

\* Outstanding tasks are for different blocks.
Apart ==
    \A s, t \in Tags : s # t /\ task[s] # None /\ task[t] # None =>
        Reach(task[s].cmd) \cap Reach(task[t].cmd) = {}

\* Only Issue starts a task.
LEMMA TasksStep ==
    ASSUME TypeInv, Next, NEW t \in Tags, task'[t] # None, ~ \E c \in Commands : Issue(t, c)
    PROVE  task'[t] = task[t]
<1>1. CASE Handle
    BY <1>1 DEF Handle, initiator
<1>2. CASE Receive
    BY <1>2 DEF Receive, TypeInv
<1>3. ASSUME NEW s \in Tags, NEW n \in Pieces, SendData(s, n) PROVE task'[t] = task[t]
    BY <1>3 DEF SendData
<1>4. ASSUME NEW s \in Tags, NEW c \in Commands, Issue(s, c) PROVE task'[t] = task[t]
    BY <1>4 DEF Issue, TypeInv
<1>5. QED
    BY <1>1, <1>2, <1>3, <1>4 DEF Next, Send

LEMMA ApartStep ==
    ASSUME TypeInv, Apart, [Next]_vars PROVE Apart'
<1>0. CASE UNCHANGED vars
    BY <1>0 DEF vars, Apart
<1>1. SUFFICES ASSUME Next, NEW s \in Tags, NEW t \in Tags, s # t, task'[s] # None, task'[t] # None
               PROVE  Reach(task'[s].cmd) \cap Reach(task'[t].cmd) = {}
    BY <1>0 DEF Apart, Reach, UnitsOf, Span, NBlocksOf, ImmediateLen
<1>2. ASSUME NEW r \in Tags, NEW q \in Tags, r # q, task'[r] # None, task'[q] # None,
             NEW c \in Commands, Issue(q, c)
      PROVE  Reach(task'[r].cmd) \cap Reach(task'[q].cmd) = {}
    <2>1. task'[r] = task[r] /\ task'[q].cmd = c
        BY <1>2 DEF Issue, TypeInv
    <2>2. QED
        BY <1>2, <2>1 DEF Issue
<1>3. CASE \E c \in Commands : Issue(t, c)
    BY <1>1, <1>2, <1>3
<1>4. CASE \E c \in Commands : Issue(s, c)
    BY <1>1, <1>2, <1>4
<1>5. CASE /\ ~ \E c \in Commands : Issue(s, c)
           /\ ~ \E c \in Commands : Issue(t, c)
    <2>1. task'[s] = task[s] /\ task'[t] = task[t]
        BY <1>1, <1>5, TasksStep
    <2>2. QED
        BY <1>1, <2>1 DEF Apart
<1>6. QED
    BY <1>3, <1>4, <1>5

\* Whoever has something in a queue has issued a command.
LEMMA OwnerOf ==
    ASSUME TypeInv, Owned, NEW t \in Tags,
           Mine(to_target, t) # {} \/ Mine(to_init, t) # {} \/ task[t] # None
    PROVE  t \in used /\ \E c \in Commands : \E v \in 0 .. Len(issued) : Own(t, c, v)
BY DEF Owned, Unused

LEMMA HeadIsMine ==
    ASSUME TypeInv
    PROVE  /\ to_target # <<>> => 1 \in Mine(to_target, Head(to_target).tag)
           /\ to_init # <<>> => 1 \in Mine(to_init, Head(to_init).tag)
<1>1. to_target \in Seq(ToTarget) /\ to_init \in Seq(ToInit)
    BY DEF TypeInv
<1>2. ASSUME NEW S, NEW q \in Seq(S), q # <<>> PROVE 1 \in Mine(q, Head(q).tag)
    BY <1>2, Taken DEF Mine
<1>3. QED
    BY <1>1, <1>2

\* Nothing is written to the blocks of a task by another one, once the target
\* has seen its command.
LEMMA OthersAway ==
    ASSUME TypeInv, Owned, Handle, NEW t \in Tags, t # Head(to_target).tag, task[t] # None,
           NEW c \in Commands, NEW v, Life(t, c, v)
    PROVE  \/ \A u \in Reach(c) \cap Units : disk'[u] = disk[u]
           \/ r2t[t] = None /\ Mine(to_init, t) = {}
<1> DEFINE s == Head(to_target).tag
<1>1. s \in Tags /\ to_target # <<>> /\ 1 \in Mine(to_target, s)
    BY HandleCases, HeadIsMine
<1>2. PICK o \in Outcomes : \E W : HandleEffect(Head(to_target), o, W)
    BY HandleCases
<1>3. PICK W : HandleEffect(Head(to_target), o, W)
    BY <1>2
<1>4. PICK d \in Commands : \E w \in 0 .. Len(issued) : Own(s, d, w)
    BY <1>1, OwnerOf
<1>5. PICK w \in 0 .. Len(issued) : Own(s, d, w)
    BY <1>4
<1>6. w \in Nat /\ W \subseteq Reach(d) /\ disk' = Written(W, w)
    BY <1>1, <1>3, <1>5, HandleWrites DEF Own
<1>7. task[t].cmd = c
    BY DEF Life, Identity
<1>8. CASE Reach(c) \cap Reach(d) = {}
    <2>1. \A u \in Units : disk'[u] = IF u \in W THEN w ELSE disk[u]
        BY <1>6, WrittenFacts DEF TypeInv
    <2>2. QED
        BY <1>6, <1>8, <2>1
<1>9. CASE Reach(c) \cap Reach(d) # {}
    <2>1. \E j \in Mine(to_target, t) : to_target[j].type = "cmd"
        <3>1. Reach(task[t].cmd) \cap Reach(d) # {} /\ t \in Tags \ {s}
            BY <1>7, <1>9
        <3>2. QED
            BY <1>1, <1>5, <3>1 DEF Own, Before
    <2>2. QED
        BY <2>1 DEF Life, CommandAlone
<1>10. QED
    BY <1>8, <1>9

LEMMA CompleteStep ==
    ASSUME TypeInv, TypeInv', Owned, Next, NEW t \in Tags, NEW c \in Commands,
           NEW v \in 0 .. Len(issued), Own(t, c, v), ~ReuseTags, t \in used
    PROVE  Complete(t, c, v)'
<1>1. ~ \E d \in Commands : Issue(t, d)
    BY DEF Issue
<1>2. CASE Frame(t)
    <2>1. CASE task[t] = None
        <3>1. task'[t] = None
            BY <1>2, <2>1 DEF Frame
        <3>2. QED
            BY <3>1 DEF Complete, DoneWritten, NoGaps, GoodIsTrue, Clean, Live
    <2>2. CASE task[t] # None /\ Handle /\ t # Head(to_target).tag
        BY <1>2, <2>2, OthersAway, FrameComplete DEF Own
    <2>3. CASE disk' = disk
        BY <1>2, <2>3, FrameComplete DEF Own
    <2>4. CASE Handle /\ t = Head(to_target).tag
        BY <2>4, HandleComplete DEF Own
    <2>5. QED
        BY <2>1, <2>2, <2>3, <2>4 DEF Next, Receive, Send, SendData, Issue, target
<1>3. QED
    BY <1>1, <1>2, StepCases, HandleComplete, ReceiveComplete, SendComplete DEF Own

\* A task that has come to rest stays so.
LEMMA StaysAtRest ==
    ASSUME TypeInv, Next, NEW t \in Tags, ~ \E d \in Commands : Issue(t, d),
           task'[t] # None \/ Mine(to_target', t) # {}
    PROVE  task[t] # None \/ Mine(to_target, t) # {}
<1>1. CASE task'[t] # None
    BY <1>1, TasksStep
<1>2. CASE Mine(to_target', t) # {}
    <2>1. CASE Frame(t)
        BY <1>2, <2>1 DEF Frame, Kept
    <2>2. CASE Handle /\ Head(to_target).tag = t
        BY <2>2, HeadIsMine DEF Handle
    <2>3. CASE Receive
        BY <1>2, <2>3 DEF Receive
    <2>4. ASSUME NEW n \in Pieces, SendData(t, n) PROVE task[t] # None
        BY <2>4, BurstOfTask
    <2>5. QED
        BY <2>1, <2>2, <2>3, <2>4, StepCases
<1>3. QED
    BY <1>1, <1>2

\* An answer for one task does not forbid what another one may write.
LEMMA AnswerAllows ==
    ASSUME TypeInv, Owned, Apart, Receive, NEW t \in Tags, NEW c \in Commands,
           NEW v \in 0 .. Len(issued), Own(t, c, v),
           task[t] # None \/ Mine(to_target, t) # {}, NEW u \in Reach(c) \cap Units
    PROVE  v \in allowed'[u]
<1> DEFINE m == Head(to_init)
           s == m.tag
<1>1. s \in Tags /\ to_init # <<>> /\ 1 \in Mine(to_init, s)
    BY Received, HeadIsMine DEF Receive
<1>2. v \in allowed[u]
    BY DEF Own, MayRead
<1> HIDE DEF s
<1>3. CASE allowed' = allowed
    BY <1>2, <1>3
<1>4. CASE /\ task[s] # None
           /\ allowed' = [x \in Units |->
                IF /\ m.status = "good" /\ s \notin lost /\ ~CutShort(task[s].cmd)
                   /\ x \in UnitsOf(task[s].cmd)
                THEN {task[s].val} ELSE allowed[x]]
    <2>1. CASE u \notin UnitsOf(task[s].cmd)
        BY <1>2, <1>4, <2>1
    <2>2. CASE s = t
        <3>1. task[s].val = v
            BY <1>4, <2>2 DEF Own, Life, Identity
        <3>2. QED
            BY <1>2, <1>4, <3>1
    <2>3. CASE s # t /\ u \in UnitsOf(task[s].cmd)
        <3>1. u \in Reach(task[s].cmd) \cap Reach(c)
            BY <2>3 DEF Reach
        <3>2. CASE task[t] # None
            <4>1. task[t].cmd = c
                BY <3>2 DEF Own, Life, Identity
            <4>2. QED
                BY <1>1, <1>4, <2>3, <3>1, <3>2, <4>1 DEF Apart
        <3>3. CASE Mine(to_target, t) # {}
            <4>1. \E j \in Mine(to_target, s) : to_target[j].type = "cmd"
                BY <1>1, <1>4, <2>3, <3>1, <3>3 DEF Own, Before
            <4>2. PICK d \in Commands : \E w \in 0 .. Len(issued) : Own(s, d, w)
                BY <1>1, OwnerOf
            <4>3. CommandAlone(s)
                BY <4>2 DEF Own, Life
            <4>4. QED
                BY <1>1, <4>1, <4>3 DEF CommandAlone
        <3>4. QED
            BY <3>2, <3>3
    <2>4. QED
        BY <2>1, <2>2, <2>3
<1>5. QED
    BY <1>3, <1>4 DEF Receive, s

LEMMA MayReadStep ==
    ASSUME TypeInv, Owned, Apart, Next, NEW t \in Tags, NEW c \in Commands,
           NEW v \in 0 .. Len(issued), Own(t, c, v), ~ReuseTags, t \in used
    PROVE  MayRead(t, c, v)'
<1>1. ~ \E d \in Commands : Issue(t, d)
    BY DEF Issue
<1>2. SUFFICES ASSUME task'[t] # None \/ Mine(to_target', t) # {}, NEW u \in Reach(c) \cap Units
               PROVE  v \in allowed'[u]
    BY DEF MayRead, Reach, UnitsOf, Span, NBlocksOf, ImmediateLen, Units
<1>3. task[t] # None \/ Mine(to_target, t) # {}
    BY <1>1, <1>2, StaysAtRest
<1>4. v \in allowed[u]
    BY <1>3 DEF Own, MayRead
<1>5. CASE Receive
    BY <1>3, <1>5, AnswerAllows
<1>6. ASSUME NEW s \in Tags, NEW d \in Commands, Issue(s, d) PROVE v \in allowed'[u]
    BY <1>4, <1>6 DEF Issue
<1>7. CASE allowed' = allowed
    BY <1>4, <1>7
<1>8. QED
    BY <1>5, <1>6, <1>7 DEF Next, Handle, Send, SendData, initiator

\* What was left behind stays before the commands of later tasks.
LEMMA BeforeHandle ==
    ASSUME TypeInv, Handle, NEW t \in Tags, NEW c \in Commands, Before(t, c) PROVE Before(t, c)'
<1>1. to_target \in Seq(ToTarget) /\ to_target # <<>> /\ to_target' = Tail(to_target) /\ task' = task
    BY HandleCases DEF TypeInv, initiator
<1>2. SUFFICES ASSUME NEW i \in Mine(to_target', t), NEW s \in Tags \ {t}, task[s] # None,
                      Reach(task[s].cmd) \cap Reach(c) # {}
               PROVE  \E j \in Mine(to_target', s) : i < j /\ to_target'[j].type = "cmd"
    <2>1. task' = task
        BY <1>1
    <2>2. QED
        BY <2>1 DEF Before, Reach, UnitsOf, Span, NBlocksOf, ImmediateLen
<1>3. i \in Nat /\ i + 1 \in Mine(to_target, t)
    BY <1>1, PopMine
<1>4. PICK j \in Mine(to_target, s) : i + 1 < j /\ to_target[j].type = "cmd"
    BY <1>2, <1>3 DEF Before
<1>5. j \in Nat /\ j # 1
    BY <1>1, <1>3, <1>4, MineInt
<1>6. /\ \A k \in Mine(to_target, s) : k # 1 => k - 1 \in Mine(to_target', s)
      /\ \A k \in Mine(to_target', s) : to_target'[k] = to_target[k + 1]
    BY <1>1, PopMine
<1>7. j - 1 \in Mine(to_target', s) /\ (j - 1) + 1 = j /\ i < j - 1
    BY <1>3, <1>4, <1>5, <1>6
<1>8. to_target'[j - 1].type = "cmd"
    BY <1>4, <1>6, <1>7
<1>9. QED
    BY <1>7, <1>8

LEMMA BeforeReceive ==
    ASSUME TypeInv, Receive, NEW t \in Tags, NEW c \in Commands, Before(t, c) PROVE Before(t, c)'
<1>1. to_target' = to_target
    BY DEF Receive
<1>2. \A s \in Tags : task'[s] # None => task'[s] = task[s]
    BY DEF Receive, TypeInv
<1>3. QED
    BY <1>1, <1>2 DEF Before, Reach, UnitsOf, Span, NBlocksOf, ImmediateLen

\* A PDU x is put into the queue.
LEMMA PushKeeps ==
    ASSUME TypeInv, NEW x \in ToTarget, to_target' = Append(to_target, x), NEW s \in Tags
    PROVE  \A j \in Mine(to_target, s) : j \in Mine(to_target', s) /\ to_target'[j] = to_target[j]
<1>1. SUFFICES ASSUME NEW j \in Mine(to_target, s)
               PROVE  j \in Mine(to_target', s) /\ to_target'[j] = to_target[j]
    OBVIOUS
<1>2. to_target \in Seq(ToTarget)
    BY DEF TypeInv
<1>3. j \in 1 .. Len(to_target) /\ to_target[j].tag = s /\ Len(to_target) \in Nat
    BY <1>2 DEF Mine
<1>4. to_target'[j] = to_target[j] /\ Len(to_target') = Len(to_target) + 1
    BY <1>2, <1>3, Appended
<1>5. j \in Mine(to_target', s)
    BY <1>3, <1>4 DEF Mine
<1>6. QED
    BY <1>4, <1>5

LEMMA BeforeSend ==
    ASSUME TypeInv, Apart, NEW t \in Tags, NEW c \in Commands, NEW v, Life(t, c, v), Before(t, c),
           NEW r \in Tags, NEW n \in Pieces, SendData(r, n)
    PROVE  Before(t, c)'
<1> DEFINE d == [type |-> "data", tag |-> r, off |-> burst[r].off, len |-> n,
                 F |-> burst[r].len = n, val |-> task[r].val]
<1>1. /\ n \in Nat \ {0} /\ burst[r].len \in Nat /\ burst[r].off \in Nat
      /\ task[r].val \in 0 .. MaxCommands /\ task[r] # None
    BY BurstOfTask
<1>2. d \in ToTarget /\ d.tag = r
    <2>1. (burst[r].len = n) \in BOOLEAN
        OBVIOUS
    <2>2. QED
        BY <1>1, <2>1 DEF ToTarget
<1>3. to_target' = Append(to_target, d)
    BY DEF SendData
<1>4. task' = task
    BY DEF SendData
<1> HIDE DEF d
<1>5. SUFFICES ASSUME NEW i \in Mine(to_target', t), NEW s \in Tags \ {t}, task[s] # None,
                      Reach(task[s].cmd) \cap Reach(c) # {}
               PROVE  \E j \in Mine(to_target', s) : i < j /\ to_target'[j].type = "cmd"
    BY <1>4 DEF Before, Reach, UnitsOf, Span, NBlocksOf, ImmediateLen
<1>6. to_target \in Seq(ToTarget)
    BY DEF TypeInv
<1>7. CASE i \in Mine(to_target, t)
    <2>1. \A j \in Mine(to_target, s) : j \in Mine(to_target', s) /\ to_target'[j] = to_target[j]
        BY <1>2, <1>3, PushKeeps
    <2>2. PICK j \in Mine(to_target, s) : i < j /\ to_target[j].type = "cmd"
        BY <1>5, <1>7 DEF Before
    <2>3. QED
        BY <2>1, <2>2
<1>8. CASE i \notin Mine(to_target, t)
    <2>1. \A x \in ToTarget : Mine(Append(to_target, x), t)
            = Mine(to_target, t) \cup (IF x.tag = t THEN {Len(to_target) + 1} ELSE {})
        BY <1>6, PushMine
    <2>2. r = t
        BY <1>2, <1>3, <1>8, <2>1
    <2>3. task[t].cmd = c
        BY <1>1, <2>2 DEF Life, Identity
    <2>4. QED
        BY <1>1, <1>5, <2>2, <2>3 DEF Apart
<1>9. QED
    BY <1>7, <1>8

LEMMA BeforeIssue ==
    ASSUME TypeInv, NEW t \in Tags, NEW c \in Commands, Before(t, c),
           NEW r \in Tags, NEW d \in Commands, Issue(r, d), r # t
    PROVE  Before(t, c)'
<1>1. PICK v \in 0 .. Len(issued') :
        /\ task' = [task EXCEPT ![r] = [cmd |-> d, val |-> v]]
        /\ to_target' = Append(to_target, [type |-> "cmd", tag |-> r, cmd |-> d, val |-> v])
        /\ [type |-> "cmd", tag |-> r, cmd |-> d, val |-> v] \in ToTarget
    BY Issued
<1> DEFINE x == [type |-> "cmd", tag |-> r, cmd |-> d, val |-> v]
<1>2. x \in ToTarget /\ x.tag = r /\ x.type = "cmd" /\ to_target' = Append(to_target, x)
    BY <1>1
<1> HIDE DEF x
<1>3. SUFFICES ASSUME NEW i \in Mine(to_target', t), NEW s \in Tags \ {t}, task'[s] # None,
                      Reach(task'[s].cmd) \cap Reach(c) # {}
               PROVE  \E j \in Mine(to_target', s) : i < j /\ to_target'[j].type = "cmd"
    BY DEF Before, Reach, UnitsOf, Span, NBlocksOf, ImmediateLen
<1>4. to_target \in Seq(ToTarget) /\ Len(to_target) \in Nat
    BY DEF TypeInv
<1>5. \A y \in ToTarget : \A q \in Tags : Mine(Append(to_target, y), q)
        = Mine(to_target, q) \cup (IF y.tag = q THEN {Len(to_target) + 1} ELSE {})
    BY <1>4, PushMine
<1>6. i \in Mine(to_target, t) /\ i \in 1 .. Len(to_target)
    BY <1>2, <1>5 DEF Mine
<1>7. CASE s = r
    <2>1. Len(to_target) + 1 \in Mine(to_target', s)
        BY <1>2, <1>5, <1>7
    <2>2. to_target'[Len(to_target) + 1] = x
        BY <1>2, <1>4, Appended
    <2>3. QED
        BY <1>2, <1>4, <1>6, <2>1, <2>2
<1>8. CASE s # r
    <2>1. task'[s] = task[s]
        BY <1>1, <1>8 DEF TypeInv
    <2>2. \A j \in Mine(to_target, s) : j \in Mine(to_target', s) /\ to_target'[j] = to_target[j]
        BY <1>2, PushKeeps
    <2>3. PICK j \in Mine(to_target, s) : i < j /\ to_target[j].type = "cmd"
        BY <1>3, <1>6, <2>1 DEF Before
    <2>4. QED
        BY <2>2, <2>3
<1>9. QED
    BY <1>7, <1>8

LEMMA BeforeStep ==
    ASSUME TypeInv, Apart, Next, NEW t \in Tags, NEW c \in Commands, NEW v \in 0 .. Len(issued),
           Own(t, c, v), ~ReuseTags, t \in used
    PROVE  Before(t, c)'
<1>1. ~ \E d \in Commands : Issue(t, d)
    BY DEF Issue
<1>2. Life(t, c, v) /\ Before(t, c)
    BY DEF Own
<1>3. CASE Handle
    BY <1>2, <1>3, BeforeHandle
<1>4. CASE Receive
    BY <1>2, <1>4, BeforeReceive
<1>5. ASSUME NEW r \in Tags, NEW n \in Pieces, SendData(r, n) PROVE Before(t, c)'
    BY <1>2, <1>5, BeforeSend
<1>6. ASSUME NEW r \in Tags, NEW d \in Commands, Issue(r, d) PROVE Before(t, c)'
    BY <1>1, <1>2, <1>6, BeforeIssue
<1>7. QED
    BY <1>3, <1>4, <1>5, <1>6 DEF Next, Send

\* A tag is used for the first time.
LEMMA OwnIssue ==
    ASSUME TypeInv, NEW t \in Tags, NEW c \in Commands, Issue(t, c), Unused(t)
    PROVE  \E v \in 0 .. Len(issued') : Own(t, c, v)'
<1>1. PICK v \in 0 .. Len(issued') :
        /\ task' = [task EXCEPT ![t] = [cmd |-> c, val |-> v]]
        /\ to_target' = Append(to_target, [type |-> "cmd", tag |-> t, cmd |-> c, val |-> v])
        /\ [type |-> "cmd", tag |-> t, cmd |-> c, val |-> v] \in ToTarget
        /\ v # 0 => issued'[v] = c
        /\ allowed' = [u \in Units |-> IF u \in Reach(c) THEN allowed[u] \cup {v} ELSE allowed[u]]
    BY Issued
<1>2. v \in Nat
    OBVIOUS
<1>3. Life(t, c, v)' /\ Mine(to_init', t) = {} /\ r2t'[t] = None
    BY <1>1, <1>2, IssueLife
<1>4. Complete(t, c, v)'
    BY <1>3 DEF Complete, DoneWritten, NoGaps, GoodIsTrue
<1>5. \A u \in Reach(c) \cap Units : v \in allowed'[u]
    BY <1>1 DEF TypeInv
<1>6. MayRead(t, c, v)'
    BY <1>5 DEF MayRead, Reach, UnitsOf, Span, NBlocksOf, ImmediateLen, Units
<1>7. \A s \in Tags \ {t} : task'[s] # None => Reach(task'[s].cmd) \cap Reach(c) = {}
    <2>1. \A s \in Tags \ {t} : task'[s] = task[s]
        BY <1>1 DEF TypeInv
    <2>2. QED
        BY <2>1 DEF Issue
<1>8. Before(t, c)'
    BY <1>7 DEF Before, Reach, UnitsOf, Span, NBlocksOf, ImmediateLen
<1>9. QED
    BY <1>3, <1>4, <1>6, <1>8 DEF Own

LEMMA OwnedStep ==
    ASSUME TypeInv, TypeInv', Owned, Apart, [Next]_vars, ~ReuseTags PROVE Owned'
<1>0. CASE UNCHANGED vars
    <2>1. SUFFICES ASSUME NEW t \in Tags, NEW c \in Commands, NEW v, Own(t, c, v)
                   PROVE  Own(t, c, v)'
        BY <1>0 DEF vars, Owned, Unused
    <2>2. Life(t, c, v)'
        BY <1>0, <2>1 DEF vars, Own, Life, Identity, CommandAlone, Registered, Arriving, Sending, Asked, Live
    <2>3. DoneWritten(t, c, v)' /\ NoGaps(t)'
        BY <1>0, <2>1 DEF vars, Own, Complete, DoneWritten, NoGaps, Clean, Pending, Filled, Span
    <2>4. GoodIsTrue(t, c, v)'
        BY <1>0, <2>1 DEF vars, Own, Complete, GoodIsTrue, Live, Filled, UnitsOf, Span, NBlocksOf
    <2>5. MayRead(t, c, v)' /\ Before(t, c)'
        BY <1>0, <2>1 DEF vars, Own, MayRead, Before, Reach, UnitsOf, Span, NBlocksOf, ImmediateLen
    <2>6. QED
        BY <2>2, <2>3, <2>4, <2>5 DEF Own, Complete
<1>1. SUFFICES ASSUME Next, NEW t \in Tags
               PROVE  IF t \in used'
                      THEN \E c \in Commands : \E v \in 0 .. Len(issued') : Own(t, c, v)'
                      ELSE Unused(t)'
    BY <1>0 DEF Owned
<1>2. Len(issued) \in Nat /\ Len(issued') \in Nat /\ Len(issued) <= Len(issued')
    <2>1. Len(issued) \in Nat /\ Len(issued') \in Nat
        BY DEF TypeInv
    <2>2. Len(issued) <= Len(issued')
        BY <1>1, RecordedStep
    <2>3. QED
        BY <2>1, <2>2
<1>3. CASE t \in used
    <2>1. PICK c \in Commands : \E v \in 0 .. Len(issued) : Own(t, c, v)
        BY <1>3 DEF Owned
    <2>2. PICK v \in 0 .. Len(issued) : Own(t, c, v)
        BY <2>1
    <2>3. Life(t, c, v)'
        BY <1>1, <1>3, <2>2, LifeStep DEF Own
    <2>4. Complete(t, c, v)'
        BY <1>1, <1>3, <2>2, CompleteStep
    <2>5. MayRead(t, c, v)'
        BY <1>1, <1>3, <2>2, MayReadStep
    <2>6. Before(t, c)'
        BY <1>1, <1>3, <2>2, BeforeStep
    <2>7. t \in used' /\ v \in 0 .. Len(issued')
        BY <1>1, <1>2, <1>3, UsedStep
    <2>8. QED
        BY <2>3, <2>4, <2>5, <2>6, <2>7 DEF Own
<1>4. CASE t \notin used /\ ~ \E c \in Commands : Issue(t, c)
    <2>1. Unused(t)' /\ t \notin used'
        BY <1>1, <1>4, UsedStep, UnusedStep DEF Owned
    <2>2. QED
        BY <2>1
<1>5. ASSUME t \notin used, NEW c \in Commands, Issue(t, c)
      PROVE  t \in used' /\ \E d \in Commands : \E v \in 0 .. Len(issued') : Own(t, d, v)'
    <2>1. Unused(t) /\ t \in used'
        BY <1>5 DEF Owned, Issue
    <2>2. QED
        BY <1>5, <2>1, OwnIssue
<1>6. QED
    BY <1>3, <1>4, <1>5

\* What the target writes may be read, and what is answered GOOD has been
\* written.
LEMMA ReadableStep ==
    ASSUME TypeInv, Owned, WrittenIsReadable, [Next]_vars PROVE WrittenIsReadable'
<1>0. CASE UNCHANGED vars
    BY <1>0 DEF vars, WrittenIsReadable, Units
<1>1. SUFFICES ASSUME Next, NEW u \in Units PROVE disk'[u] \in allowed'[u]
    BY <1>0 DEF WrittenIsReadable, Units
<1>2. disk[u] \in allowed[u]
    BY DEF WrittenIsReadable
<1>3. CASE Handle
    <2> DEFINE t == Head(to_target).tag
    <2>1. t \in Tags /\ to_target # <<>> /\ allowed' = allowed /\ 1 \in Mine(to_target, t)
        BY <1>3, HandleCases, HeadIsMine DEF initiator
    <2>2. PICK o \in Outcomes : \E W : HandleEffect(Head(to_target), o, W)
        BY <1>3, HandleCases
    <2>3. PICK W : HandleEffect(Head(to_target), o, W)
        BY <2>2
    <2>4. PICK c \in Commands : \E v \in 0 .. Len(issued) : Own(t, c, v)
        BY <2>1, OwnerOf
    <2>5. PICK v \in 0 .. Len(issued) : Own(t, c, v)
        BY <2>4
    <2>6. v \in Nat /\ W \subseteq Reach(c) /\ disk' = Written(W, v)
        BY <2>1, <2>3, <2>5, HandleWrites DEF Own
    <2>7. disk'[u] = IF u \in W THEN v ELSE disk[u]
        BY <2>6, WrittenFacts DEF TypeInv
    <2>8. u \in Reach(c) => v \in allowed[u]
        BY <2>1, <2>5 DEF Own, MayRead
    <2>9. QED
        BY <1>2, <2>1, <2>6, <2>7, <2>8
<1>4. CASE Receive
    <2> DEFINE m == Head(to_init)
               t == m.tag
    <2>1. t \in Tags /\ to_init # <<>> /\ disk' = disk /\ 1 \in Mine(to_init, t)
        BY <1>4, Received, HeadIsMine DEF Receive, target
    <2>2. m = to_init[1] /\ Mine(to_init, t) \subseteq Nat \ {0}
        BY <2>1, Taken, MineInt DEF TypeInv
    <2> HIDE DEF t
    <2>3. CASE allowed' = allowed
        BY <1>2, <2>1, <2>3
    <2>4. CASE /\ task[t] # None /\ m.type = "resp"
               /\ allowed' = [x \in Units |->
                    IF /\ m.status = "good" /\ t \notin lost /\ ~CutShort(task[t].cmd)
                       /\ x \in UnitsOf(task[t].cmd)
                    THEN {task[t].val} ELSE allowed[x]]
        <3>1. PICK c \in Commands : \E v \in 0 .. Len(issued) : Own(t, c, v)
            BY <2>1, OwnerOf
        <3>2. PICK v \in 0 .. Len(issued) : Own(t, c, v)
            BY <3>1
        <3>3. task[t].cmd = c /\ task[t].val = v
            BY <2>4, <3>2 DEF Own, Life, Identity
        <3>4. Live(t, 1)
            BY <2>1, <2>2, <2>4 DEF Live
        <3>5. m.status = "good" /\ t \notin lost /\ ~CutShort(c) => Filled(UnitsOf(c), v)
            BY <2>1, <2>2, <2>4, <3>2, <3>4 DEF Own, Complete, GoodIsTrue
        <3>6. QED
            BY <1>2, <2>1, <2>4, <3>3, <3>5 DEF Filled
    <2>5. QED
        BY <1>4, <2>3, <2>4 DEF Receive, t
<1>5. ASSUME NEW s \in Tags, NEW n \in Pieces, SendData(s, n) PROVE disk'[u] \in allowed'[u]
    BY <1>2, <1>5 DEF SendData, target
<1>6. ASSUME NEW s \in Tags, NEW d \in Commands, Issue(s, d) PROVE disk'[u] \in allowed'[u]
    BY <1>2, <1>6 DEF Issue, target
<1>7. QED
    BY <1>1, <1>3, <1>4, <1>5, <1>6 DEF Next, Send

\* A block holds what the last command for it that was answered GOOD has
\* written there, or what was sent for it since: whatever the pieces of its
\* data, however many transfers are under way, and whichever calls of the
\* backend fail in write_verify(), write_same() and the DATA-OUT half of
\* push_response(), but for the places that Loses() lists and for a WRITE that is
\* cut short, CutShort().  As with
\* WritesStayInRange a tag is not used again, for the DATA-OUTs of an older
\* task are taken for those of the new one.
THEOREM WrittenReadable == ASSUME ~ReuseTags PROVE Spec => []WrittenIsReadable
<1>1. Init => Owned
    BY DEF Init, Owned, Unused, Mine, NoBurst
<1>2. Init => Apart
    BY DEF Init, Apart
<1>3. Init => WrittenIsReadable
    BY DEF Init, WrittenIsReadable
<1>4. TypeInv /\ TypeInv' /\ Owned /\ Apart /\ [Next]_vars => Owned'
    BY OwnedStep
<1>5. TypeInv /\ Apart /\ [Next]_vars => Apart'
    BY ApartStep
<1>6. TypeInv /\ Owned /\ WrittenIsReadable /\ [Next]_vars => WrittenIsReadable'
    BY ReadableStep
<1>7. QED
    BY <1>1, <1>2, <1>3, <1>4, <1>5, <1>6, TypeInvInit, TypeStep, PTL DEF Spec


-----------------------------------------------------------------------------
(* What is left of a transfer.                                              *)

\* The layers below do as they are told, DATA-OUTs are of whole blocks, and
\* FUA is only asked for when no DATA-OUT has to follow.
Faultless ==
    /\ Outcomes = {"ok"}
    /\ \A n \in Pieces : n % BlockSize = 0
    /\ \A c \in Commands : c.fua => c.op = "write_same" \/ c.imm = c.tl * BlockSize

WholeBlocks(x) == x.off % BlockSize = 0 /\ x.len % BlockSize = 0

\* What the target was not sent yet, or has not seen yet.
Remaining(t) ==
    burst[t].len + InFlight(t, to_target, "data") + InFlight(t, to_init, "r2t")

\* DATA-OUTs find their transfer; a response is the last that is heard of the
\* task; and the transfer has counted what is still to come.
Balanced(t) ==
    /\ task[t] # None
    /\ \A i \in Mine(to_target, t) : to_target[i].type = "data" =>
         WholeBlocks(to_target[i]) /\ to_target[i].len > 0 /\ r2t[t] # None
    /\ burst[t].len > 0 => WholeBlocks(burst[t]) /\ r2t[t] # None
    /\ \A j \in Mine(to_init, t) : to_init[j].type = "resp" =>
         /\ Mine(to_target, t) = {} /\ Mine(to_init, t) = {j}
         /\ burst[t].len = 0 /\ r2t[t] = None
    /\ r2t[t] # None =>
         /\ r2t[t].done % BlockSize = 0 /\ r2t[t].left % BlockSize = 0
         /\ ~r2t[t].cmd.fua
         /\ r2t[t].left = Remaining(t)

\* However often a tag is used: it is for one command at a time.
AtWork(t) ==
    \E c \in Commands : \E v \in 0 .. Len(issued) : Life(t, c, v) /\ Balanced(t)

Even == \A t \in Tags : Unused(t) \/ AtWork(t)

LEMMA DivMod ==
    ASSUME NEW a \in Int, NEW d \in Nat \ {0}
    PROVE  a = ((a \div d) * d) + (a % d) /\ (a \div d) \in Int
OBVIOUS

LEMMA MultipleMod ==
    ASSUME NEW a \in Int, NEW k \in Int, NEW d \in Nat \ {0}, a = k * d PROVE a % d = 0
OBVIOUS

\* Sums and differences of whole blocks are whole blocks.
LEMMA ModSum ==
    ASSUME NEW a \in Int, NEW b \in Int, a % BlockSize = 0, b % BlockSize = 0
    PROVE  (a + b) % BlockSize = 0 /\ (a - b) % BlockSize = 0
<1> DEFINE d == BlockSize
           k == a \div d
           l == b \div d
<1>0. d \in Nat \ {0}
    BY Geometry
<1> HIDE DEF d
<1>1. a = k * d /\ b = l * d /\ k \in Int /\ l \in Int
    BY <1>0, DivMod DEF d
<1> HIDE DEF k, l
<1>2. a + b = (k + l) * d /\ a - b = (k - l) * d /\ k + l \in Int /\ k - l \in Int
    BY <1>0, <1>1
<1>3. a + b \in Int /\ a - b \in Int
    OBVIOUS
<1>4. QED
    BY <1>0, <1>2, <1>3, MultipleMod DEF d

LEMMA Blocks == ASSUME NEW k \in Nat PROVE (k * BlockSize) % BlockSize = 0
<1>1. BlockSize \in Nat \ {0} /\ k * BlockSize \in Int
    BY Geometry
<1>2. QED
    BY <1>1, MultipleMod

\* What each message counts for.
Sizes(t, q, type) ==
    [i \in 1 .. Len(q) |-> IF q[i].type = type /\ q[i].tag = t THEN q[i].len ELSE 0]

Size(t, x, type) == IF x.type = type /\ x.tag = t THEN x.len ELSE 0

\* The messages of a type have a length.
Counts(S, type) == \A x \in S : x.type = type => x.len \in Nat

\* w lists what the messages of t count for.
Measures(w, t, q, type) ==
    /\ w \in Seq(Nat) /\ Len(w) = Len(q)
    /\ \A i \in 1 .. Len(q) : w[i] = Size(t, q[i], type)
    /\ InFlight(t, q, type) = Total(w)

LEMMA SizesFacts ==
    ASSUME NEW S, NEW q \in Seq(S), NEW t, NEW type, Counts(S, type)
    PROVE  Measures(Sizes(t, q, type), t, q, type)
<1>1. Len(q) \in Nat /\ \A i \in 1 .. Len(q) : q[i] \in S
    OBVIOUS
<1>2. \A x \in S : Size(t, x, type) \in Nat
    BY DEF Size, Counts
<1>3. Sizes(t, q, type) = [i \in 1 .. Len(q) |-> Size(t, q[i], type)]
    BY DEF Sizes, Size
<1>4. [i \in 1 .. Len(q) |-> Size(t, q[i], type)] \in Seq(Nat)
      /\ Len([i \in 1 .. Len(q) |-> Size(t, q[i], type)]) = Len(q)
    BY <1>1, <1>2
<1>5. InFlight(t, q, type) = Total(Sizes(t, q, type))
    BY DEF InFlight, Sizes
<1>6. \A i \in 1 .. Len(q) : Sizes(t, q, type)[i] = Size(t, q[i], type)
    BY <1>3
<1>7. QED
    BY <1>3, <1>4, <1>5, <1>6 DEF Measures

LEMMA InFlightPush ==
    ASSUME NEW S, NEW q \in Seq(S), NEW t, NEW type, Counts(S, type),
           NEW x \in S
    PROVE  InFlight(t, Append(q, x), type) = InFlight(t, q, type) + Size(t, x, type)
<1> DEFINE w == Sizes(t, q, type)
           p == Append(q, x)
           e == Size(t, x, type)
           u == Sizes(t, p, type)
<1>1. /\ w \in Seq(Nat) /\ Len(w) = Len(q) /\ InFlight(t, q, type) = Total(w) /\ e \in Nat
      /\ \A i \in 1 .. Len(q) : w[i] = Size(t, q[i], type)
    <2>1. Measures(w, t, q, type)
        BY SizesFacts
    <2>2. e \in Nat
        BY DEF Size, Counts
    <2> HIDE DEF w, e
    <2>3. QED
        BY <2>1, <2>2 DEF Measures
<1>2. /\ p \in Seq(S) /\ Len(p) = Len(q) + 1 /\ p[Len(q) + 1] = x /\ Len(q) \in Nat
      /\ \A i \in 1 .. Len(q) : p[i] = q[i]
    BY Appended
<1> HIDE DEF p
<1>3. /\ u \in Seq(Nat) /\ Len(u) = Len(p) /\ InFlight(t, p, type) = Total(u)
      /\ \A i \in 1 .. Len(p) : u[i] = Size(t, p[i], type)
    <2>1. Measures(u, t, p, type)
        BY <1>2, SizesFacts
    <2> HIDE DEF w, u
    <2>2. QED
        BY <2>1 DEF Measures
<1> HIDE DEF w, u
<1>4. u = Append(w, e)
    <2> HIDE DEF e
    <2>1. /\ Append(w, e) \in Seq(Nat) /\ Len(Append(w, e)) = Len(q) + 1
          /\ Append(w, e)[Len(q) + 1] = e
          /\ \A i \in 1 .. Len(q) : Append(w, e)[i] = w[i]
        BY <1>1, Appended
    <2>2. ASSUME NEW i \in 1 .. Len(p) PROVE u[i] = Append(w, e)[i]
        <3>1. CASE i = Len(q) + 1
            BY <1>2, <1>3, <2>1, <3>1 DEF e
        <3>2. CASE i \in 1 .. Len(q)
            BY <1>1, <1>2, <1>3, <2>1, <3>2
        <3>3. i = Len(q) + 1 \/ i \in 1 .. Len(q)
            <4>1. Len(q) \in Nat /\ Len(p) = Len(q) + 1
                BY <1>2
            <4>2. QED
                BY <4>1
        <3>4. QED
            BY <3>1, <3>2, <3>3
    <2> DEFINE a == Append(w, e)
    <2>3. u \in Seq(Nat) /\ a \in Seq(Nat) /\ Len(u) = Len(a) /\ \A i \in 1 .. Len(u) : u[i] = a[i]
        BY <1>2, <1>3, <2>1, <2>2
    <2> HIDE DEF a
    <2>4. u = a
        BY <2>3, SeqEqual
    <2>5. QED
        BY <2>4 DEF a
<1> HIDE DEF e
<1>5. Total(Append(w, e)) = Total(w) + e
    BY <1>1, TotalAppend
<1>6. QED
    BY <1>1, <1>3, <1>4, <1>5 DEF p, e

LEMMA InFlightPop ==
    ASSUME NEW S, NEW q \in Seq(S), NEW t, NEW type, Counts(S, type),
           q # <<>>
    PROVE  InFlight(t, q, type) = Size(t, Head(q), type) + InFlight(t, Tail(q), type)
<1> DEFINE w == Sizes(t, q, type)
           p == Tail(q)
           u == Sizes(t, p, type)
<1>1. /\ w \in Seq(Nat) /\ Len(w) = Len(q) /\ InFlight(t, q, type) = Total(w)
      /\ \A i \in 1 .. Len(q) : w[i] = Size(t, q[i], type)
    <2>1. Measures(w, t, q, type)
        BY SizesFacts
    <2> HIDE DEF w
    <2>2. QED
        BY <2>1 DEF Measures
<1>2. /\ p \in Seq(S) /\ Len(p) = Len(q) - 1 /\ Head(q) = q[1] /\ Len(q) \in Nat \ {0}
      /\ \A i \in 1 .. Len(q) - 1 : p[i] = q[i + 1]
    BY Taken
<1> HIDE DEF p
<1>3. /\ u \in Seq(Nat) /\ Len(u) = Len(p) /\ InFlight(t, p, type) = Total(u)
      /\ \A i \in 1 .. Len(p) : u[i] = Size(t, p[i], type)
    <2>1. Measures(u, t, p, type)
        BY <1>2, SizesFacts
    <2> HIDE DEF w, u
    <2>2. QED
        BY <2>1 DEF Measures
<1> HIDE DEF w, u
<1>4. w # <<>> /\ w[1] = Size(t, Head(q), type)
    BY <1>1, <1>2
<1>5. u = Tail(w)
    <2>1. /\ Tail(w) \in Seq(Nat) /\ Len(Tail(w)) = Len(q) - 1
          /\ \A i \in 1 .. Len(q) - 1 : Tail(w)[i] = w[i + 1]
        BY <1>1, <1>4, Taken
    <2>2. ASSUME NEW i \in 1 .. Len(q) - 1 PROVE u[i] = Tail(w)[i]
        <3>1. i + 1 \in 1 .. Len(q) /\ i \in 1 .. Len(p)
            BY <1>2
        <3>2. QED
            BY <1>1, <1>2, <1>3, <2>1, <3>1
    <2> DEFINE a == Tail(w)
    <2>3. u \in Seq(Nat) /\ a \in Seq(Nat) /\ Len(u) = Len(a) /\ \A i \in 1 .. Len(u) : u[i] = a[i]
        BY <1>2, <1>3, <2>1, <2>2
    <2> HIDE DEF a
    <2>4. u = a
        BY <2>3, SeqEqual
    <2>5. QED
        BY <2>4 DEF a
<1>6. Total(w) = w[1] + Total(Tail(w))
    BY <1>1, <1>4, TotalTail
<1>7. QED
    BY <1>1, <1>3, <1>4, <1>5, <1>6 DEF p

LEMMA InFlightNone ==
    ASSUME NEW S, NEW q \in Seq(S), NEW t, NEW type, Counts(S, type),
           \A i \in Mine(q, t) : q[i].type # type
    PROVE  InFlight(t, q, type) = 0
<1> DEFINE w == Sizes(t, q, type)
<1>1. /\ w \in Seq(Nat) /\ Len(w) = Len(q) /\ InFlight(t, q, type) = Total(w)
      /\ \A i \in 1 .. Len(q) : w[i] = Size(t, q[i], type)
    <2>1. Measures(w, t, q, type)
        BY SizesFacts
    <2> HIDE DEF w
    <2>2. QED
        BY <2>1 DEF Measures
<1>2. \A i \in 1 .. Len(q) : Size(t, q[i], type) = 0
    BY DEF Size, Mine
<1> HIDE DEF w
<1>3. \A i \in 1 .. Len(w) : w[i] = 0
    BY <1>1, <1>2
<1>4. Total(w) = 0
    BY <1>1, <1>3, TotalZero
<1>5. QED
    BY <1>1, <1>4

LEMMA SizesOf == Counts(ToTarget, "data") /\ Counts(ToInit, "r2t")
BY DEF Counts, ToTarget, ToInit

\* The same for the two queues.
LEMMA DataInFlight ==
    ASSUME NEW q \in Seq(ToTarget), NEW t
    PROVE  /\ InFlight(t, q, "data") \in Nat
           /\ \A x \in ToTarget :
                InFlight(t, Append(q, x), "data") = InFlight(t, q, "data") + Size(t, x, "data")
           /\ q # <<>> =>
                InFlight(t, q, "data") = Size(t, Head(q), "data") + InFlight(t, Tail(q), "data")
           /\ (\A i \in Mine(q, t) : q[i].type # "data") => InFlight(t, q, "data") = 0
<1>1. Counts(ToTarget, "data")
    BY SizesOf
<1>2. InFlight(t, q, "data") \in Nat
    <2>1. Sizes(t, q, "data") \in Seq(Nat) /\ InFlight(t, q, "data") = Total(Sizes(t, q, "data"))
        BY <1>1, SizesFacts DEF Measures
    <2>2. QED
        BY <2>1, TotalNat
<1>3. ASSUME NEW x \in ToTarget
      PROVE  InFlight(t, Append(q, x), "data") = InFlight(t, q, "data") + Size(t, x, "data")
    BY <1>1, InFlightPush
<1>4. ASSUME q # <<>>
      PROVE  InFlight(t, q, "data") = Size(t, Head(q), "data") + InFlight(t, Tail(q), "data")
    BY <1>1, <1>4, InFlightPop
<1>5. ASSUME \A i \in Mine(q, t) : q[i].type # "data" PROVE InFlight(t, q, "data") = 0
    BY <1>1, <1>5, InFlightNone
<1>6. QED
    BY <1>2, <1>3, <1>4, <1>5

LEMMA R2TsInFlight ==
    ASSUME NEW q \in Seq(ToInit), NEW t
    PROVE  /\ InFlight(t, q, "r2t") \in Nat
           /\ \A x \in ToInit :
                InFlight(t, Append(q, x), "r2t") = InFlight(t, q, "r2t") + Size(t, x, "r2t")
           /\ q # <<>> =>
                InFlight(t, q, "r2t") = Size(t, Head(q), "r2t") + InFlight(t, Tail(q), "r2t")
           /\ (\A i \in Mine(q, t) : q[i].type # "r2t") => InFlight(t, q, "r2t") = 0
<1>1. Counts(ToInit, "r2t")
    BY SizesOf
<1>2. InFlight(t, q, "r2t") \in Nat
    <2>1. Sizes(t, q, "r2t") \in Seq(Nat) /\ InFlight(t, q, "r2t") = Total(Sizes(t, q, "r2t"))
        BY <1>1, SizesFacts DEF Measures
    <2>2. QED
        BY <2>1, TotalNat
<1>3. ASSUME NEW x \in ToInit
      PROVE  InFlight(t, Append(q, x), "r2t") = InFlight(t, q, "r2t") + Size(t, x, "r2t")
    BY <1>1, InFlightPush
<1>4. ASSUME q # <<>>
      PROVE  InFlight(t, q, "r2t") = Size(t, Head(q), "r2t") + InFlight(t, Tail(q), "r2t")
    BY <1>1, <1>4, InFlightPop
<1>5. ASSUME \A i \in Mine(q, t) : q[i].type # "r2t" PROVE InFlight(t, q, "r2t") = 0
    BY <1>1, <1>5, InFlightNone
<1>6. QED
    BY <1>2, <1>3, <1>4, <1>5


\* A transfer that begins is of whole blocks, and is not for FUA.
LEMMA StartsEven ==
    ASSUME TypeInv, Faultless, NEW t \in Tags, NEW c \in Commands, c.op = "write",
           NEW k \in Nat, NEW left, left \in {0, c.tl * BlockSize, (c.tl - k) * BlockSize},
           k <= c.tl \/ left = 0, c.imm # c.tl * BlockSize, r2t[t] = None,
           StartR2T(t, c, k * BlockSize, left), r2t'[t] # None
    PROVE  r2t'[t].done % BlockSize = 0 /\ r2t'[t].left % BlockSize = 0 /\ ~r2t'[t].cmd.fua
<1>1. r2t' = [r2t EXCEPT ![t] = [cmd |-> c, done |-> k * BlockSize, left |-> left]]
    BY DEF StartR2T
<1>2. r2t'[t] = [cmd |-> c, done |-> k * BlockSize, left |-> left]
    BY <1>1 DEF TypeInv
<1>3. ~c.fua
    BY DEF Faultless
<1>4. (k * BlockSize) % BlockSize = 0
    BY Blocks
<1>5. left % BlockSize = 0
    <2>1. c.tl \in Nat
        BY CommandFacts
    <2>2. (0 * BlockSize) % BlockSize = 0 /\ (c.tl * BlockSize) % BlockSize = 0
        BY <2>1, Blocks, 0 \in Nat
    <2>3. 0 * BlockSize = 0
        BY Geometry
    <2>4. CASE left \in {0, c.tl * BlockSize}
        BY <2>2, <2>3, <2>4
    <2>5. CASE left = (c.tl - k) * BlockSize /\ k <= c.tl
        <3>1. c.tl - k \in Nat
            BY <2>1, <2>5
        <3>2. ((c.tl - k) * BlockSize) % BlockSize = 0
            BY <3>1, Blocks
        <3>3. QED
            BY <2>5, <3>2
    <2>6. QED
        BY <2>4, <2>5
<1>6. QED
    BY <1>2, <1>3, <1>4, <1>5

LEMMA NewTransfer ==
    ASSUME TypeInv, Faultless, NEW m \in ToTarget, m.type = "cmd", NEW o, HandleCommand(m, o),
           r2t[m.tag] = None, r2t'[m.tag] # None
    PROVE  LET s == r2t'[m.tag] IN s.done % BlockSize = 0 /\ s.left % BlockSize = 0 /\ ~s.cmd.fua
<1> DEFINE c == m.cmd
           t == m.tag
           blocks == c.imm \div BlockSize
<1>1. t \in Tags /\ c \in Commands
    BY DEF ToTarget
<1>2. /\ c.tl \in Nat /\ c.imm \in Nat /\ BlockSize \in Nat \ {0} /\ BlockSize > 1
      /\ c.tl * BlockSize \in Nat /\ (c.op = "write_same" => c.edl = BlockSize)
    BY <1>1, CommandFacts, Geometry
<1>3. blocks \in Nat
    BY <1>2, BlocksFacts
<1>4. 0 * BlockSize = 0
    BY <1>2
<1> HIDE DEF c, t, blocks
<1>5. CASE c.op = "write" /\ WriteVerify(t, c, m.val, o)
    <2>1. CASE c.imm > 0 /\ WriteImmediate(t, c, m.val, o)
        <3>1. c.imm # c.tl * BlockSize /\ StartR2T(t, c, blocks * BlockSize, BytesLeft(c, blocks))
            BY <2>1 DEF WriteImmediate, blocks, t
        <3>2. BytesLeft(c, blocks) \in {0, c.tl * BlockSize, (c.tl - blocks) * BlockSize}
              /\ (blocks <= c.tl \/ BytesLeft(c, blocks) = 0)
            BY DEF BytesLeft
        <3>3. QED
            BY <1>1, <1>3, <1>5, <3>1, <3>2, StartsEven DEF t
    <2>2. CASE c.imm = 0 /\ c.tl > 0 /\ StartR2T(t, c, 0, c.tl * BlockSize)
        <3>1. c.imm # c.tl * BlockSize
            <4>1. \A a, b \in Nat : a > 0 /\ b > 1 => a * b # 0
                OBVIOUS
            <4>2. QED
                BY <1>2, <2>2, <4>1
        <3>2. StartR2T(t, c, 0 * BlockSize, c.tl * BlockSize)
            BY <1>4, <2>2
        <3>3. 0 \in Nat /\ 0 <= c.tl
            BY <1>2
        <3>4. QED
            BY <1>1, <1>5, <3>1, <3>2, <3>3, StartsEven DEF t
    <2>3. CASE UNCHANGED target
        BY <2>3 DEF target
    <2>4. QED
        BY <1>5, <2>1, <2>2, <2>3 DEF WriteVerify
<1>6. CASE c.op = "write_same" /\ WriteSame(t, c, m.val, o)
    <2>1. CASE c.tl = BlockSize /\ StartR2T(t, c, 0, 0)
        <3>1. c.tl * BlockSize # c.edl
            <4>1. \A b \in Nat : b > 1 => b * b # b
                OBVIOUS
            <4>2. QED
                BY <1>2, <1>6, <2>1, <4>1
        <3>2. r2t' = r2t
            BY <2>1, <3>1 DEF StartR2T
        <3>3. QED
            BY <3>2
    <2>2. CASE UNCHANGED r2t
        BY <2>2
    <2>3. QED
        BY <1>6, <2>1, <2>2 DEF WriteSame, SameImmediate, target
<1>7. QED
    BY <1>5, <1>6 DEF HandleCommand, c, t

-----------------------------------------------------------------------------
(* Steps of other tags leave Remaining alone. *)

LEMMA RemainingNat == ASSUME TypeInv, NEW t \in Tags
                      PROVE  /\ burst[t].len \in Nat
                             /\ InFlight(t, to_target, "data") \in Nat
                             /\ InFlight(t, to_init, "r2t") \in Nat
BY DataInFlight, R2TsInFlight DEF TypeInv

\* What Handle sends is for the tag of what it takes.
Sends(t) ==
    \/ to_init' = to_init
    \/ \E x \in ToInit : x.tag = t /\ to_init' = Append(to_init, x)
    \/ \E x, y \in ToInit : x.tag = t /\ y.tag = t /\ to_init' = Append(Append(to_init, x), y)

LEMMA HandleSends ==
    ASSUME TypeInv, NEW m \in ToTarget, NEW o, NEW W, HandleEffect(m, o, W)
    PROVE  Sends(m.tag)
<1>0. m.tag \in Tags /\ to_init \in Seq(ToInit)
    BY DEF ToTarget, TypeInv
<1>1. ASSUME NEW s \in Statuses, to_init' = to_init \o <<Resp(m.tag, s)>> PROVE Sends(m.tag)
    <2>1. Resp(m.tag, s) \in ToInit /\ Resp(m.tag, s).tag = m.tag
        BY <1>0, RespType DEF Resp
    <2>2. to_init' = Append(to_init, Resp(m.tag, s))
        BY <1>0, <1>1, <2>1, Appended
    <2>3. QED
        BY <2>1, <2>2 DEF Sends
<1>2. ASSUME NEW d \in Nat, NEW l \in Nat \ {0}, to_init' = to_init \o <<R2T(m.tag, d, l)>>
      PROVE  Sends(m.tag)
    <2>1. R2T(m.tag, d, l) \in ToInit /\ R2T(m.tag, d, l).tag = m.tag
        BY <1>0, R2TType DEF R2T
    <2>2. to_init' = Append(to_init, R2T(m.tag, d, l))
        BY <1>0, <1>2, <2>1, Appended
    <2>3. QED
        BY <2>1, <2>2 DEF Sends
<1>3. ASSUME to_init' = to_init PROVE Sends(m.tag)
    BY <1>3 DEF Sends
<1>4. CASE m.type = "cmd" /\ CommandEffect(m, o, W)
    <2>1. CASE Answers(m, o, W)
        BY <1>1, <2>1 DEF Answers
    <2>2. CASE Continues(m, W)
        BY <1>2, <2>2 DEF Continues
    <2>3. CASE Forgets(m, o)
        BY <1>3, <2>3 DEF Forgets
    <2>4. QED
        BY <1>4, <2>1, <2>2, <2>3 DEF CommandEffect
<1>5. CASE m.type = "data" /\ DataEffect(m, W)
    <2>1. CASE Fails(m, W)
        BY <1>1, <2>1 DEF Fails, Statuses
    <2>2. CASE Takes(m)
        <3> DEFINE done == (r2t[m.tag].done + m.len) % Uint32
                   left == (r2t[m.tag].left - m.len) % Uint32
                   x == Resp(m.tag, "good")
                   y == R2T(m.tag, done, left)
        <3>1. done \in Nat /\ left \in Nat
            BY <1>5, CountersNat DEF DataEffect
        <3>2. \/ to_init' = to_init \o <<x>>
              \/ left # 0 /\ to_init' = to_init \o <<x, y>>
              \/ to_init' = to_init
            BY <2>2 DEF Takes
        <3> HIDE DEF done, left
        <3>3. CASE left # 0 /\ to_init' = to_init \o <<x, y>>
            <4>1. x \in ToInit /\ x.tag = m.tag
                BY <1>0, RespType DEF Resp, Statuses
            <4>2. y \in ToInit /\ y.tag = m.tag
                BY <1>0, <3>1, <3>3, R2TType DEF R2T
            <4> HIDE DEF x, y
            <4>3. to_init' = Append(Append(to_init, x), y)
                BY <1>0, <3>3, <4>1, <4>2, AppendedTwo
            <4>4. QED
                BY <4>1, <4>2, <4>3 DEF Sends
        <3>4. CASE to_init' = to_init \o <<x>>
            BY <1>1, <3>4 DEF Statuses
        <3>5. QED
            BY <1>3, <3>2, <3>3, <3>4, Zenon
    <2>3. QED
        BY <1>5, <2>1, <2>2 DEF DataEffect
<1>6. CASE UNCHANGED <<disk, r2t, to_init>>
    BY <1>3, <1>6
<1>7. QED
    BY <1>4, <1>5, <1>6 DEF HandleEffect

LEMMA SendsToOthers ==
    ASSUME TypeInv, NEW r, NEW t, r # t, Sends(r)
    PROVE  InFlight(t, to_init', "r2t") = InFlight(t, to_init, "r2t")
<1>0. to_init \in Seq(ToInit)
    BY DEF TypeInv
<1>1. ASSUME NEW q \in Seq(ToInit), NEW x \in ToInit, x.tag = r
      PROVE  /\ Append(q, x) \in Seq(ToInit)
             /\ InFlight(t, Append(q, x), "r2t") = InFlight(t, q, "r2t")
    <2>1. Size(t, x, "r2t") = 0
        BY <1>1 DEF Size
    <2>2. InFlight(t, q, "r2t") \in Nat
        BY R2TsInFlight
    <2>3. InFlight(t, Append(q, x), "r2t") = InFlight(t, q, "r2t") + Size(t, x, "r2t")
        BY R2TsInFlight
    <2>4. Append(q, x) \in Seq(ToInit)
        BY Appended
    <2>5. QED
        BY <2>1, <2>2, <2>3, <2>4
<1>2. ASSUME NEW x \in ToInit, x.tag = r, to_init' = Append(to_init, x)
      PROVE  InFlight(t, to_init', "r2t") = InFlight(t, to_init, "r2t")
    BY <1>0, <1>1, <1>2
<1>3. ASSUME NEW x \in ToInit, NEW y \in ToInit, x.tag = r, y.tag = r,
             to_init' = Append(Append(to_init, x), y)
      PROVE  InFlight(t, to_init', "r2t") = InFlight(t, to_init, "r2t")
    <2> DEFINE p == Append(to_init, x)
    <2>1. p \in Seq(ToInit) /\ InFlight(t, p, "r2t") = InFlight(t, to_init, "r2t")
        BY <1>0, <1>1, <1>3
    <2>2. to_init' = Append(p, y)
        BY <1>3
    <2> HIDE DEF p
    <2>3. QED
        BY <1>1, <1>3, <2>1, <2>2
<1>4. QED
    BY <1>2, <1>3 DEF Sends

\* A step of another tag.
Aside(t) ==
    \/ Handle /\ Head(to_target).tag # t
    \/ Receive /\ Head(to_init).tag # t
    \/ \E s \in Tags \ {t} : Send(s) \/ \E c \in Commands : Issue(s, c)

LEMMA RemainingAside ==
    ASSUME TypeInv, NEW t \in Tags, Aside(t) PROVE Frame(t) /\ Remaining(t)' = Remaining(t)
<1> DEFINE D == InFlight(t, to_target, "data")
           R == InFlight(t, to_init, "r2t")
<1>q. to_target \in Seq(ToTarget) /\ to_init \in Seq(ToInit)
    BY DEF TypeInv
<1>n. burst[t].len \in Nat /\ D \in Nat /\ R \in Nat
    BY RemainingNat
<1>1. SUFFICES Frame(t) /\ D' = D /\ R' = R
    BY DEF Frame, Remaining
<1>2. CASE Handle /\ Head(to_target).tag # t
    <2>1. Frame(t)
        BY <1>2, HandleFrame
    <2>2. to_target # <<>> /\ to_target' = Tail(to_target) /\ Head(to_target) \in ToTarget
        BY <1>2, HandleCases
    <2>3. D' = D
        <3>1. Size(t, Head(to_target), "data") = 0
            BY <1>2 DEF Size
        <3>2. D = Size(t, Head(to_target), "data") + InFlight(t, Tail(to_target), "data")
            BY <1>q, <2>2, DataInFlight
        <3>3. Tail(to_target) \in Seq(ToTarget)
            BY <1>q, <2>2, Taken
        <3>4. InFlight(t, Tail(to_target), "data") \in Nat
            BY <3>3, DataInFlight
        <3>5. QED
            BY <2>2, <3>1, <3>2, <3>4
    <2>4. PICK o \in Outcomes : \E W : HandleEffect(Head(to_target), o, W)
        BY <1>2, HandleCases
    <2>5. Sends(Head(to_target).tag)
        BY <2>2, <2>4, HandleSends
    <2>6. R' = R
        BY <1>2, <2>5, SendsToOthers
    <2>7. QED
        BY <2>1, <2>3, <2>6
<1>3. CASE Receive /\ Head(to_init).tag # t
    <2>1. Frame(t)
        BY <1>3, ReceiveFrame
    <2>2. to_init # <<>> /\ to_init' = Tail(to_init) /\ to_target' = to_target
        BY <1>3 DEF Receive
    <2>3. Size(t, Head(to_init), "r2t") = 0
        BY <1>3 DEF Size
    <2>4. R = Size(t, Head(to_init), "r2t") + InFlight(t, Tail(to_init), "r2t")
        BY <1>q, <2>2, R2TsInFlight
    <2>5. Tail(to_init) \in Seq(ToInit)
        BY <1>q, <2>2, Taken
    <2>6. InFlight(t, Tail(to_init), "r2t") \in Nat
        BY <2>5, R2TsInFlight
    <2>7. QED
        BY <2>1, <2>2, <2>3, <2>4, <2>6
<1>4. ASSUME NEW s \in Tags \ {t}, NEW x \in ToTarget, x.tag = s, to_target' = Append(to_target, x)
      PROVE  D' = D
    <2>1. Size(t, x, "data") = 0
        BY <1>4 DEF Size
    <2>2. InFlight(t, Append(to_target, x), "data") = D + Size(t, x, "data")
        BY <1>q, DataInFlight
    <2>3. QED
        BY <1>4, <1>n, <2>1, <2>2
<1>5. ASSUME NEW s \in Tags \ {t}, NEW n \in Pieces, SendData(s, n) PROVE Frame(t) /\ D' = D /\ R' = R
    <2> DEFINE d == [type |-> "data", tag |-> s, off |-> burst[s].off, len |-> n,
                     F |-> burst[s].len = n, val |-> task[s].val]
    <2>1. /\ n \in Nat \ {0} /\ burst[s].len \in Nat /\ burst[s].off \in Nat
          /\ task[s].val \in 0 .. MaxCommands
        BY <1>5, BurstOfTask
    <2>2. d \in ToTarget /\ d.tag = s
        <3>1. (burst[s].len = n) \in BOOLEAN
            OBVIOUS
        <3>2. QED
            BY <2>1, <3>1 DEF ToTarget
    <2>3. to_target' = Append(to_target, d) /\ to_init' = to_init
        BY <1>5 DEF SendData
    <2> HIDE DEF d
    <2>4. Frame(t)
        BY <1>5, SendFrame
    <2>5. QED
        BY <1>4, <2>2, <2>3, <2>4
<1>6. ASSUME NEW s \in Tags \ {t}, NEW c \in Commands, Issue(s, c) PROVE Frame(t) /\ D' = D /\ R' = R
    <2>1. PICK v \in 0 .. Len(issued') :
            /\ to_target' = Append(to_target, [type |-> "cmd", tag |-> s, cmd |-> c, val |-> v])
            /\ [type |-> "cmd", tag |-> s, cmd |-> c, val |-> v] \in ToTarget
        BY <1>6, Issued
    <2>2. D' = D
        BY <1>4, <2>1
    <2>3. to_init' = to_init
        BY <1>6 DEF Issue
    <2>4. Frame(t)
        BY <1>6, IssueFrame
    <2>5. QED
        BY <2>2, <2>3, <2>4
<1>7. QED
    BY <1>2, <1>3, <1>5, <1>6 DEF Aside, Send

LEMMA BalancedFrame ==
    ASSUME TypeInv, TypeInv', NEW t \in Tags, Frame(t), Remaining(t)' = Remaining(t), Balanced(t)
    PROVE  Balanced(t)'
<1>1. PICK k \in {0, 1} : Kept(to_target, to_target', t, k)
    BY DEF Frame
<1>2. PICK l \in {0, 1} : Kept(to_init, to_init', t, l)
    BY DEF Frame
<1>3. task'[t] = task[t] /\ burst'[t] = burst[t] /\ r2t'[t] = r2t[t]
    BY DEF Frame
<1>4. Mine(to_init, t) \subseteq Nat /\ Mine(to_init', t) \subseteq Nat
    BY MineInt DEF TypeInv
<1>5. \A i \in Mine(to_target', t) : i + k \in Mine(to_target, t) /\ to_target'[i] = to_target[i + k]
    BY <1>1 DEF Kept
<1>6. \A i \in Mine(to_init', t) : i + l \in Mine(to_init, t) /\ to_init'[i] = to_init[i + l]
    BY <1>2 DEF Kept
<1>7. ASSUME NEW j \in Mine(to_init', t), to_init'[j].type = "resp"
      PROVE  /\ Mine(to_target', t) = {} /\ Mine(to_init', t) = {j}
             /\ burst'[t].len = 0 /\ r2t'[t] = None
    <2>1. /\ Mine(to_target, t) = {} /\ Mine(to_init, t) = {j + l}
          /\ burst[t].len = 0 /\ r2t[t] = None
        BY <1>6, <1>7 DEF Balanced
    <2>2. ASSUME NEW i \in Mine(to_init', t) PROVE i = j
        <3>1. i + l = j + l /\ i \in Nat /\ j \in Nat
            BY <1>4, <1>6, <1>7, <2>1
        <3>2. QED
            BY <3>1
    <2>3. QED
        BY <1>3, <1>5, <1>7, <2>1, <2>2
<1>8. ASSUME NEW i \in Mine(to_target', t), to_target'[i].type = "data"
      PROVE  WholeBlocks(to_target'[i]) /\ to_target'[i].len > 0 /\ r2t'[t] # None
    BY <1>3, <1>5, <1>8 DEF Balanced, WholeBlocks
<1>9. burst'[t].len > 0 => WholeBlocks(burst'[t]) /\ r2t'[t] # None
    BY <1>3 DEF Balanced, WholeBlocks
<1>10. task'[t] # None
    BY <1>3 DEF Balanced
<1>11. r2t'[t] # None =>
         /\ r2t'[t].done % BlockSize = 0 /\ r2t'[t].left % BlockSize = 0
         /\ ~r2t'[t].cmd.fua /\ r2t'[t].left = Remaining(t)'
    BY <1>3 DEF Balanced
<1>12. QED
    BY <1>7, <1>8, <1>9, <1>10, <1>11 DEF Balanced, WholeBlocks


-----------------------------------------------------------------------------
(* Steps of the tag itself. *)

\* With a DATA-OUT at the head of the queue nothing is under way to the
\* initiator.
LEMMA NoneAnswered ==
    ASSUME TypeInv, NEW t \in Tags, NEW c, NEW v, Life(t, c, v), Balanced(t),
           Mine(to_target, t) # {}
    PROVE  Mine(to_init, t) = {}
<1>1. SUFFICES ASSUME NEW j \in Mine(to_init, t) PROVE FALSE
    OBVIOUS
<1>2. \A k \in Mine(to_init, t) : to_init[k].type # "resp"
    BY DEF Balanced
<1>3. Live(t, j)
    BY <1>1, <1>2 DEF Live, Balanced
<1>4. to_init[j] \in ToInit
    BY <1>1 DEF TypeInv, Mine
<1>5. to_init[j].type = "r2t"
    BY <1>1, <1>2, <1>4 DEF ToInit
<1>6. QED
    BY <1>1, <1>3, <1>5 DEF Life, Asked

\* The head of the queue is taken.
LEMMA TakenPdu ==
    ASSUME TypeInv, NEW t \in Tags, to_target # <<>>, to_target' = Tail(to_target),
           Head(to_target).tag = t
    PROVE  /\ 1 \in Mine(to_target, t) /\ to_target[1] = Head(to_target) /\ to_target[1] \in ToTarget
           /\ \A i \in Mine(to_target', t) : /\ i \in Nat \ {0} /\ i + 1 \in Mine(to_target, t)
                                             /\ to_target'[i] = to_target[i + 1]
           /\ Tail(to_target) \in Seq(ToTarget)
<1>1. to_target \in Seq(ToTarget)
    BY DEF TypeInv
<1>2. Head(to_target) \in ToTarget /\ Tail(to_target) \in Seq(ToTarget)
    BY <1>1, Taken
<1>3. /\ \A i \in Mine(Tail(to_target), t) : /\ i \in Nat /\ i + 1 \in Mine(to_target, t)
                                             /\ Tail(to_target)[i] = to_target[i + 1]
      /\ Head(to_target).tag = t => 1 \in Mine(to_target, t) /\ to_target[1] = Head(to_target)
    BY <1>1, PopMine
<1>4. Mine(Tail(to_target), t) \subseteq Nat \ {0}
    BY <1>2, MineInt
<1>5. QED
    BY <1>2, <1>3, <1>4

LEMMA CommandBalanced ==
    ASSUME TypeInv, TypeInv', Faultless, NEW t \in Tags, NEW c \in Commands, NEW v,
           Life(t, c, v), Balanced(t), NEW m, m = Head(to_target), m.tag = t, m.type = "cmd",
           to_target # <<>>, to_target' = Tail(to_target), UNCHANGED <<task, burst>>,
           NEW o \in Outcomes, HandleCommand(m, o)
    PROVE  Balanced(t)'
<1>1. /\ 1 \in Mine(to_target, t) /\ to_target[1] = m /\ m \in ToTarget
      /\ \A i \in Mine(to_target', t) : i \in Nat \ {0} /\ i + 1 \in Mine(to_target, t)
    BY TakenPdu
<1>2. /\ Mine(to_target, t) = {1} /\ Mine(to_init, t) = {}
      /\ burst[t].len = 0 /\ r2t[t] = None /\ task[t] # None /\ m.cmd = c
    BY <1>1 DEF Life, CommandAlone, Identity
<1>3. Mine(to_target', t) = {}
    <2>1. \A i \in Mine(to_target', t) : i \in Nat \ {0} /\ i + 1 = 1
        BY <1>1, <1>2
    <2>2. QED
        BY <2>1
<1>4. PICK W : CommandEffect(m, o, W)
    BY <1>1, CommandEffects
<1>q. to_init \in Seq(ToInit) /\ Len(to_init) \in Nat
    BY DEF TypeInv
<1>5. CASE Answers(m, o, W)
    <2>1. PICK s \in Statuses : to_init' = to_init \o <<Resp(t, s)>>
        BY <1>5 DEF Answers
    <2>2. Resp(t, s) \in ToInit /\ Resp(t, s).tag = t
        BY RespType DEF Resp
    <2>3. to_init' = Append(to_init, Resp(t, s))
        BY <1>q, <2>1, <2>2, Appended
    <2>4. Mine(to_init', t) = {Len(to_init) + 1}
        <3>1. Mine(Append(to_init, Resp(t, s)), t) = Mine(to_init, t) \cup {Len(to_init) + 1}
            BY <1>q, <2>2, OwnAnswer
        <3>2. QED
            BY <1>2, <2>3, <3>1
    <2>5. r2t'[t] = None
        BY <1>2, <1>5 DEF Answers
    <2>6. QED
        BY <1>2, <1>3, <2>4, <2>5 DEF Balanced
<1>6. CASE Continues(m, W)
    <2>1. PICK done \in Nat : \E left \in Nat \ {0} :
            /\ r2t' = [r2t EXCEPT ![t] = [cmd |-> c, done |-> done, left |-> left]]
            /\ to_init' = to_init \o <<R2T(t, done, left)>>
        BY <1>2, <1>6 DEF Continues
    <2>2. PICK left \in Nat \ {0} :
            /\ r2t' = [r2t EXCEPT ![t] = [cmd |-> c, done |-> done, left |-> left]]
            /\ to_init' = to_init \o <<R2T(t, done, left)>>
        BY <2>1
    <2> DEFINE x == R2T(t, done, left)
    <2>3. x \in ToInit /\ x.tag = t /\ x.type = "r2t" /\ x.len = left
        BY R2TType DEF R2T
    <2>4. to_init' = to_init \o <<x>>
        BY <2>2
    <2> HIDE DEF x
    <2>5. to_init' = Append(to_init, x)
        BY <1>q, <2>3, <2>4, Appended
    <2>6. Mine(to_init', t) = {Len(to_init) + 1} /\ to_init'[Len(to_init) + 1] = x
        <3>1. Mine(Append(to_init, x), t) = Mine(to_init, t) \cup {Len(to_init) + 1}
            BY <1>q, <2>3, OwnAnswer
        <3>2. Append(to_init, x)[Len(to_init) + 1] = x
            BY <1>q, <2>3, Appended
        <3>3. QED
            BY <1>2, <2>5, <3>1, <3>2
    <2>7. r2t'[t] # None /\ r2t'[t].left = left
        <3>1. r2t'[t] = [cmd |-> c, done |-> done, left |-> left]
            BY <2>2 DEF TypeInv
        <3>2. [cmd |-> c, done |-> done, left |-> left] \in [cmd : Commands, done : Nat, left : Nat]
            OBVIOUS
        <3>3. QED
            BY <3>1, <3>2, NoneAssumption
    <2>8. r2t'[t].done % BlockSize = 0 /\ r2t'[t].left % BlockSize = 0 /\ ~r2t'[t].cmd.fua
        BY <1>1, <1>2, <2>7, NewTransfer
    <2>9. Remaining(t)' = left
        <3>1. InFlight(t, to_target', "data") = 0
            BY <1>3, DataInFlight DEF TypeInv
        <3>2. InFlight(t, to_init, "r2t") = 0
            BY <1>2, <1>q, R2TsInFlight
        <3>3. InFlight(t, Append(to_init, x), "r2t") = InFlight(t, to_init, "r2t") + Size(t, x, "r2t")
            BY <1>q, <2>3, R2TsInFlight
        <3>4. Size(t, x, "r2t") = left
            BY <2>3 DEF Size
        <3>5. InFlight(t, to_init', "r2t") = left
            BY <2>5, <3>2, <3>3, <3>4
        <3>6. burst'[t].len = 0
            BY <1>2
        <3>7. QED
            BY <3>1, <3>5, <3>6 DEF Remaining
    <2>10. QED
        BY <1>2, <1>3, <2>3, <2>6, <2>7, <2>8, <2>9 DEF Balanced
<1>7. CASE Forgets(m, o)
    <2>1. r2t'[t] = None /\ to_init' = to_init
        BY <1>2, <1>7 DEF Forgets
    <2>2. Mine(to_init', t) = {}
        BY <1>2, <2>1
    <2>3. QED
        BY <1>2, <1>3, <2>1, <2>2 DEF Balanced
<1>8. QED
    BY <1>4, <1>5, <1>6, <1>7 DEF CommandEffect

\* The last DATA-OUT is all that is left.
LEMMA LastIsLeft ==
    ASSUME TypeInv, NEW t \in Tags, NEW c \in Commands, NEW v, Life(t, c, v), Balanced(t),
           1 \in Mine(to_target, t), to_target[1].type = "data",
           to_target[1].off + to_target[1].len = c.tl * BlockSize
    PROVE  Mine(to_target, t) = {1} /\ burst[t].len = 0
<1> DEFINE m == to_target[1]
           T == c.tl * BlockSize
<1>1. /\ Mine(to_target, t) \subseteq Nat \ {0} /\ T \in Nat
      /\ \A i \in Mine(to_target, t) : to_target[i] \in ToTarget /\ to_target[i].type # "cmd"
    <2>1. Mine(to_target, t) \subseteq Nat \ {0}
        BY MineInt DEF TypeInv
    <2>2. \A i \in Mine(to_target, t) : to_target[i] \in ToTarget
        BY DEF TypeInv, Mine
    <2>3. \A i \in Mine(to_target, t) : to_target[i].type # "cmd"
        BY DEF Life, CommandAlone
    <2>4. QED
        BY <2>1, <2>2, <2>3, CommandFacts, Geometry
<1>2. \A i \in Mine(to_target, t) : /\ to_target[i].type = "data"
                                    /\ to_target[i].off \in Nat /\ to_target[i].len \in Nat
    BY <1>1 DEF ToTarget
<1> HIDE DEF T
<1>3. ASSUME NEW i \in Mine(to_target, t), i # 1 PROVE FALSE
    <2>1. to_target[i].len > 0
        BY <1>2 DEF Balanced
    <2>2. to_target[i].off + to_target[i].len <= T
        BY <1>2 DEF Life, Arriving, T
    <2>3. 1 < i
        BY <1>1, <1>3
    <2>4. m.off + m.len <= to_target[i].off
        BY <1>2, <2>3 DEF Life, Arriving
    <2>5. T <= to_target[i].off
        BY <2>4 DEF T
    <2>6. QED
        BY <1>1, <1>2, <2>1, <2>2, <2>5
<1>4. ASSUME burst[t].len > 0 PROVE FALSE
    <2>1. burst[t].off + burst[t].len = T /\ m.off + m.len <= burst[t].off
        BY <1>4 DEF Life, Sending, T
    <2>2. burst[t].off \in Nat /\ burst[t].len \in Nat
        BY DEF TypeInv
    <2>3. T <= burst[t].off
        BY <2>1 DEF T
    <2>4. QED
        BY <1>1, <1>4, <2>1, <2>2, <2>3
<1>5. burst[t].len \in Nat
    BY DEF TypeInv
<1>6. QED
    BY <1>3, <1>4, <1>5

LEMMA DataBalanced ==
    ASSUME TypeInv, TypeInv', Faultless, NEW t \in Tags, NEW c \in Commands, NEW v,
           Life(t, c, v), Balanced(t), NEW m, m = Head(to_target), m.tag = t, m.type = "data",
           to_target # <<>>, to_target' = Tail(to_target), UNCHANGED <<task, burst>>,
           NEW o \in Outcomes, DropData(m) \/ DataFailed(m, o) \/ DataWritten(m, o)
    PROVE  Balanced(t)'
<1>1. /\ 1 \in Mine(to_target, t) /\ to_target[1] = m /\ m \in ToTarget
      /\ \A i \in Mine(to_target', t) : /\ i \in Nat \ {0} /\ i + 1 \in Mine(to_target, t)
                                        /\ to_target'[i] = to_target[i + 1]
      /\ Tail(to_target) \in Seq(ToTarget) /\ to_target \in Seq(ToTarget)
    BY TakenPdu DEF TypeInv
<1>2. WholeBlocks(m) /\ m.len > 0 /\ r2t[t] # None
    BY <1>1 DEF Balanced
<1>3. /\ r2t[t].done % BlockSize = 0 /\ r2t[t].left % BlockSize = 0 /\ ~r2t[t].cmd.fua
      /\ r2t[t].left = Remaining(t) /\ task[t] # None
    BY <1>2 DEF Balanced
<1>4. DataWritten(m, o)
    <2>1. o = "ok"
        BY DEF Faultless
    <2>2. ~DropData(m)
        BY <1>2 DEF DropData, Droppable, WholeBlocks
    <2>3. ~DataFailed(m, o)
        BY <1>3, <2>1 DEF DataFailed
    <2>4. QED
        BY <2>2, <2>3
<1>5. /\ r2t[t] \in CounterType /\ m.off \in Nat /\ m.len \in Nat
      /\ m.F <=> m.off + m.len = c.tl * BlockSize
      /\ (r2t[t].done + m.len) % Uint32 = r2t[t].done + m.len
      /\ (r2t[t].left - m.len) % Uint32 = r2t[t].left - m.len
      /\ r2t[t].left - m.len \in Nat
    BY <1>1, <1>2, Counters
<1>6. Mine(to_init, t) = {}
    BY <1>1, NoneAnswered
<1> DEFINE done == r2t[t].done + m.len
           left == r2t[t].left - m.len
           D == InFlight(t, to_target, "data")
<1>7. \/ m.F /\ left = 0 /\ EndOfTask(t)
      \/ m.F /\ left # 0
      \/ ~m.F /\ r2t' = [r2t EXCEPT ![t].done = done, ![t].left = left] /\ to_init' = to_init
    <2> DEFINE dn == (r2t[t].done + m.len) % Uint32
               lf == (r2t[t].left - m.len) % Uint32
    <2>1. dn = done /\ lf = left
        BY <1>5
    <2>2. LET s == r2t[m.tag]
              d == (s.done + m.len) % Uint32
              l == (s.left - m.len) % Uint32
          IN \/ m.F /\ l = 0 /\ EndOfTask(m.tag)
             \/ m.F /\ l # 0
             \/ ~m.F /\ r2t' = [r2t EXCEPT ![m.tag].done = d, ![m.tag].left = l] /\ to_init' = to_init
        BY <1>4, Zenon DEF DataWritten
    <2>3. \/ m.F /\ lf = 0 /\ EndOfTask(t)
          \/ m.F /\ lf # 0
          \/ ~m.F /\ r2t' = [r2t EXCEPT ![t].done = dn, ![t].left = lf] /\ to_init' = to_init
        BY <2>2, Zenon
    <2> HIDE DEF dn, lf, done, left
    <2>4. QED
        BY <2>1, <2>3
<1>8. D = m.len + D' /\ D' \in Nat
    <2>1. Size(t, m, "data") = m.len
        BY DEF Size
    <2>2. D = Size(t, Head(to_target), "data") + InFlight(t, Tail(to_target), "data")
        BY <1>1, DataInFlight
    <2>3. InFlight(t, Tail(to_target), "data") \in Nat
        BY <1>1, DataInFlight
    <2>4. QED
        BY <2>1, <2>2, <2>3
<1>9. r2t[t].left = burst[t].len + D /\ burst[t].len \in Nat
    <2>1. InFlight(t, to_init, "r2t") = 0
        BY <1>6, R2TsInFlight DEF TypeInv
    <2>2. burst[t].len \in Nat /\ D \in Nat
        BY RemainingNat
    <2>3. QED
        BY <1>3, <2>1, <2>2 DEF Remaining
<1>10. m.F => Mine(to_target, t) = {1} /\ burst[t].len = 0 /\ Mine(to_target', t) = {} /\ D' = 0
    <2>1. SUFFICES ASSUME m.F PROVE Mine(to_target, t) = {1} /\ burst[t].len = 0
                                    /\ Mine(to_target', t) = {} /\ D' = 0
        OBVIOUS
    <2>2. Mine(to_target, t) = {1} /\ burst[t].len = 0
        BY <1>1, <1>5, <2>1, LastIsLeft
    <2>3. \A i \in Mine(to_target', t) : i \in Nat \ {0} /\ i + 1 = 1
        BY <1>1, <2>2
    <2>4. Mine(to_target', t) = {}
        BY <2>3
    <2>5. D' = 0
        BY <2>4, DataInFlight DEF TypeInv
    <2>6. QED
        BY <2>2, <2>4, <2>5
<1>q. to_init \in Seq(ToInit) /\ Len(to_init) \in Nat
    BY DEF TypeInv
<1>11. CASE m.F /\ left = 0 /\ EndOfTask(t)
    <2> DEFINE x == Resp(t, "good")
    <2>1. x \in ToInit /\ x.tag = t
        BY RespType DEF Resp, Statuses
    <2>2. to_init' = to_init \o <<x>> /\ r2t' = [r2t EXCEPT ![t] = None]
        BY <1>11 DEF EndOfTask, Reply
    <2> HIDE DEF x
    <2>3. to_init' = Append(to_init, x)
        BY <1>q, <2>1, <2>2, Appended
    <2>4. Mine(to_init', t) = {Len(to_init) + 1}
        <3>1. Mine(Append(to_init, x), t) = Mine(to_init, t) \cup {Len(to_init) + 1}
            BY <1>q, <2>1, OwnAnswer
        <3>2. QED
            BY <1>6, <2>3, <3>1
    <2>5. r2t'[t] = None
        BY <2>2 DEF TypeInv
    <2>6. burst'[t].len = 0 /\ task'[t] # None
        BY <1>3, <1>10, <1>11
    <2>7. QED
        BY <1>10, <1>11, <2>4, <2>5, <2>6 DEF Balanced
<1>12. CASE m.F /\ left # 0
    <2>1. left = 0
        BY <1>5, <1>8, <1>9, <1>10, <1>12
    <2>2. QED
        BY <1>12, <2>1
<1>13. CASE ~m.F /\ r2t' = [r2t EXCEPT ![t].done = done, ![t].left = left] /\ to_init' = to_init
    <2>1. /\ r2t'[t].cmd = r2t[t].cmd /\ r2t'[t].done = done /\ r2t'[t].left = left
          /\ r2t'[t] # None
        <3>1. r2t[t].done \in Nat /\ r2t[t].cmd \in Commands
            BY <1>5 DEF CounterType
        <3>2. done \in Nat /\ left \in Nat
            <4>1. m.len \in Nat
                BY <1>5
            <4>2. left \in Nat
                BY <1>5
            <4> HIDE DEF left
            <4>3. \A a, b \in Nat : a + b \in Nat
                OBVIOUS
            <4>4. done \in Nat
                BY <3>1, <4>1, <4>3, Zenon
            <4>5. QED
                BY <4>2, <4>4
        <3> HIDE DEF done, left
        <3>3. r2t'[t].cmd = r2t[t].cmd /\ r2t'[t].done = done /\ r2t'[t].left = left
              /\ r2t'[t] \in CounterType
            BY <1>5, <1>13, <3>2 DEF TypeInv, CounterType
        <3>4. QED
            BY <3>3, NoneAssumption DEF CounterType
    <2>2. done % BlockSize = 0 /\ left % BlockSize = 0
        <3>1. r2t[t].done \in Int /\ r2t[t].left \in Int /\ m.len \in Int /\ m.len % BlockSize = 0
            BY <1>2, <1>5 DEF CounterType, WholeBlocks
        <3>2. QED
            BY <1>3, <3>1, ModSum
    <2>3. Mine(to_init', t) = {}
        BY <1>6, <1>13
    <2>4. InFlight(t, to_init', "r2t") = 0
        BY <2>3, R2TsInFlight DEF TypeInv
    <2>5. left = Remaining(t)'
        <3>1. burst'[t] = burst[t]
            OBVIOUS
        <3>2. left = burst[t].len + D' + 0
            BY <1>5, <1>8, <1>9
        <3> HIDE DEF left
        <3>3. QED
            BY <2>4, <3>1, <3>2 DEF Remaining
    <2>6. ASSUME NEW i \in Mine(to_target', t), to_target'[i].type = "data"
          PROVE  WholeBlocks(to_target'[i]) /\ to_target'[i].len > 0
        BY <1>1, <2>6 DEF Balanced, WholeBlocks
    <2>7. burst'[t].len > 0 => WholeBlocks(burst'[t])
        BY DEF Balanced
    <2> HIDE DEF done, left
    <2>8. QED
        BY <1>3, <2>1, <2>2, <2>3, <2>5, <2>6, <2>7 DEF Balanced, WholeBlocks
<1>14. QED
    BY <1>7, <1>11, <1>12, <1>13

LEMMA HandleBalanced ==
    ASSUME TypeInv, TypeInv', Faultless, NEW t \in Tags, NEW c \in Commands, NEW v,
           Life(t, c, v), Balanced(t), Handle, Head(to_target).tag = t
    PROVE  Balanced(t)'
<1> DEFINE m == Head(to_target)
<1>1. /\ to_target # <<>> /\ to_target' = Tail(to_target) /\ UNCHANGED <<task, burst>>
      /\ m \in ToTarget
    BY HandleCases DEF initiator
<1>2. PICK o \in Outcomes :
        HandleCommand(m, o) \/ DropData(m) \/ DataFailed(m, o) \/ DataWritten(m, o)
    BY DEF Handle
<1>3. m.tag = t
    OBVIOUS
<1> HIDE DEF m
<1>4. CASE HandleCommand(m, o)
    <2>1. m.type = "cmd"
        BY <1>4 DEF HandleCommand
    <2>2. QED
        BY <1>1, <1>3, <1>4, <2>1, CommandBalanced DEF m
<1>5. CASE DropData(m) \/ DataFailed(m, o) \/ DataWritten(m, o)
    <2>1. m.type = "data"
        BY <1>5 DEF DropData, DataFailed, DataWritten
    <2>2. QED
        BY <1>1, <1>3, <1>5, <2>1, DataBalanced DEF m
<1>6. QED
    BY <1>2, <1>4, <1>5


\* The initiator takes what is for the tag: an R2T, or the answer.
LEMMA ReceiveBalanced ==
    ASSUME TypeInv, TypeInv', NEW t \in Tags, NEW c \in Commands, NEW v,
           Life(t, c, v), Balanced(t), Receive, Head(to_init).tag = t
    PROVE  Unused(t)' \/ Balanced(t)'
<1> DEFINE m == Head(to_init)
<1>q. to_init \in Seq(ToInit) /\ to_init # <<>> /\ to_init' = Tail(to_init)
    BY DEF TypeInv, Receive
<1>1. /\ m.type = "r2t" => m.off \in Nat /\ m.len \in Nat \ {0}
      /\ m.type \in {"r2t", "resp"}
    BY Received
<1>2. /\ \A i \in Mine(to_init', t) : /\ i \in Nat \ {0} /\ i + 1 \in Mine(to_init, t)
                                      /\ to_init'[i] = to_init[i + 1]
      /\ 1 \in Mine(to_init, t) /\ to_init[1] = m /\ Mine(to_init, t) \subseteq Nat \ {0}
    <2>1. /\ \A i \in Mine(Tail(to_init), t) : /\ i \in Nat /\ i + 1 \in Mine(to_init, t)
                                               /\ Tail(to_init)[i] = to_init[i + 1]
          /\ Head(to_init).tag = t => 1 \in Mine(to_init, t) /\ to_init[1] = Head(to_init)
        BY <1>q, PopMine
    <2>2. Mine(to_init, t) \subseteq Nat \ {0} /\ Mine(to_init', t) \subseteq Nat \ {0}
        BY MineInt DEF TypeInv
    <2>3. QED
        BY <1>q, <2>1, <2>2
<1>3. task[t] # None /\ UNCHANGED <<r2t, to_target>>
    BY DEF Balanced, Receive, target
<1>4. CASE m.type = "resp"
    <2>1. /\ Mine(to_target, t) = {} /\ Mine(to_init, t) = {1}
          /\ burst[t].len = 0 /\ r2t[t] = None
        BY <1>2, <1>4 DEF Balanced
    <2>2. \A i \in Mine(to_init', t) : i \in Nat \ {0} /\ i + 1 = 1
        BY <1>2, <2>1
    <2>3. Mine(to_init', t) = {}
        BY <2>2
    <2>4. task' = [task EXCEPT ![t] = None] /\ burst' = [burst EXCEPT ![t] = NoBurst]
        BY <1>3, <1>4 DEF Receive
    <2>5. task'[t] = None /\ burst'[t].len = 0
        BY <2>4 DEF TypeInv, NoBurst
    <2>6. QED
        BY <1>3, <2>1, <2>3, <2>5 DEF Unused
<1>5. CASE m.type = "r2t"
    <2>1. \A k \in Mine(to_init, t) : to_init[k].type # "resp"
        <3>1. SUFFICES ASSUME NEW k \in Mine(to_init, t), to_init[k].type = "resp" PROVE FALSE
            OBVIOUS
        <3>2. k = 1
            BY <1>2, <3>1 DEF Balanced
        <3>3. QED
            BY <1>2, <1>5, <3>1, <3>2
    <2>2. \A j \in Mine(to_init, t) : Live(t, j) /\ to_init[j].type = "r2t"
        <3>1. \A j \in Mine(to_init, t) : to_init[j] \in ToInit
            BY <1>q DEF Mine
        <3>2. \A j \in Mine(to_init, t) : to_init[j].type = "r2t"
            BY <2>1, <3>1 DEF ToInit
        <3>3. QED
            BY <1>3, <2>1, <3>2 DEF Live
    <2>3. /\ Mine(to_target, t) = {} /\ burst[t].len = 0 /\ r2t[t] # None
          /\ m.off = r2t[t].done /\ m.len = r2t[t].left
          /\ \A j \in Mine(to_init, t) : j <= 1
        <3>1. \A j \in Mine(to_init, t) :
                /\ Mine(to_target, t) = {} /\ burst[t].len = 0 /\ r2t[t] # None
                /\ to_init[j].off = r2t[t].done /\ to_init[j].len = r2t[t].left
                /\ \A k \in Mine(to_init, t) : j <= k
            BY <2>2 DEF Life, Asked
        <3>2. QED
            BY <1>2, <3>1
    <2>4. Mine(to_init', t) = {}
        <3>1. \A i \in Mine(to_init', t) : i \in Nat \ {0} /\ i + 1 <= 1
            BY <1>2, <2>3
        <3>2. QED
            BY <3>1
    <2>5. burst' = [burst EXCEPT ![t] = [off |-> m.off, len |-> m.len]] /\ task' = task
        BY <1>3, <1>5 DEF Receive
    <2> HIDE DEF m
    <2>6. burst'[t].off = r2t[t].done /\ burst'[t].len = r2t[t].left
        BY <2>3, <2>5 DEF TypeInv
    <2>7. /\ r2t[t].done % BlockSize = 0 /\ r2t[t].left % BlockSize = 0 /\ ~r2t[t].cmd.fua
        BY <2>3 DEF Balanced
    <2>8. Remaining(t)' = r2t[t].left
        <3>1. InFlight(t, to_target', "data") = 0
            BY <1>3, <2>3, DataInFlight DEF TypeInv
        <3>2. InFlight(t, to_init', "r2t") = 0
            BY <2>4, R2TsInFlight DEF TypeInv
        <3>3. r2t[t].left \in Nat
            BY <2>3 DEF TypeInv
        <3>4. QED
            BY <2>6, <3>1, <3>2, <3>3 DEF Remaining
    <2>9. QED
        BY <1>3, <2>3, <2>4, <2>5, <2>6, <2>7, <2>8 DEF Balanced, WholeBlocks
<1>6. QED
    BY <1>1, <1>4, <1>5

\* The initiator sends a piece of what was asked for.
LEMMA SendBalanced ==
    ASSUME TypeInv, TypeInv', Faultless, NEW t \in Tags, NEW c \in Commands, NEW v,
           Life(t, c, v), Balanced(t), NEW n \in Pieces, SendData(t, n)
    PROVE  Balanced(t)'
<1> DEFINE d == [type |-> "data", tag |-> t, off |-> burst[t].off, len |-> n,
                 F |-> burst[t].len = n, val |-> task[t].val]
<1>1. /\ n \in Nat \ {0} /\ burst[t].len \in Nat /\ burst[t].off \in Nat /\ burst[t].len >= n
      /\ task[t] # None /\ task[t].val \in 0 .. MaxCommands
    BY BurstOfTask
<1>2. d \in ToTarget
    <2>1. (burst[t].len = n) \in BOOLEAN
        OBVIOUS
    <2>2. QED
        BY <1>1, <2>1 DEF ToTarget
<1>3. d.tag = t /\ d.type = "data" /\ d.off = burst[t].off /\ d.len = n
    OBVIOUS
<1>4. to_target' = Append(to_target, d) /\ UNCHANGED <<r2t, to_init, task>>
    BY DEF SendData, target
<1>5. burst'[t].off = burst[t].off + n /\ burst'[t].len = burst[t].len - n
    BY DEF SendData, TypeInv
<1> HIDE DEF d
<1>q. to_target \in Seq(ToTarget) /\ Len(to_target) \in Nat
    BY DEF TypeInv
<1>6. /\ Mine(to_target', t) = Mine(to_target, t) \cup {Len(to_target) + 1}
      /\ \A i \in Mine(to_target, t) : to_target'[i] = to_target[i]
      /\ to_target'[Len(to_target) + 1] = d
    <2>1. /\ Mine(Append(to_target, d), t) = Mine(to_target, t) \cup {Len(to_target) + 1}
          /\ \A i \in Mine(to_target, t) : Append(to_target, d)[i] = to_target[i] /\ i \in Nat
        BY <1>q, <1>2, <1>3, OwnPdu
    <2>2. Append(to_target, d)[Len(to_target) + 1] = d
        BY <1>q, <1>2, Appended
    <2>3. QED
        BY <1>4, <2>1, <2>2
<1>7. WholeBlocks(burst[t]) /\ r2t[t] # None /\ burst[t].len > 0
    BY <1>1 DEF Balanced
<1>8. n % BlockSize = 0
    BY DEF Faultless
<1>9. WholeBlocks(d) /\ WholeBlocks(burst'[t])
    <2>1. d.off % BlockSize = 0 /\ d.len % BlockSize = 0
        BY <1>3, <1>7, <1>8 DEF WholeBlocks
    <2>2. (burst[t].off + n) % BlockSize = 0 /\ (burst[t].len - n) % BlockSize = 0
        <3>1. burst[t].off % BlockSize = 0 /\ burst[t].len % BlockSize = 0
            BY <1>7 DEF WholeBlocks
        <3>2. burst[t].off \in Int /\ burst[t].len \in Int /\ n \in Int
            BY <1>1
        <3>3. \A a, b \in Int : a % BlockSize = 0 /\ b % BlockSize = 0 =>
                (a + b) % BlockSize = 0 /\ (a - b) % BlockSize = 0
            BY ModSum
        <3>4. QED
            BY <1>8, <3>1, <3>2, <3>3, Zenon
    <2>3. QED
        BY <1>5, <2>1, <2>2 DEF WholeBlocks
<1>10. \A j \in Mine(to_init', t) : to_init'[j].type # "resp"
    BY <1>4, <1>7 DEF Balanced
<1>11. ASSUME NEW i \in Mine(to_target', t), to_target'[i].type = "data"
       PROVE  WholeBlocks(to_target'[i]) /\ to_target'[i].len > 0
    <2>1. CASE i \in Mine(to_target, t)
        BY <1>6, <1>11, <2>1 DEF Balanced
    <2>2. CASE i = Len(to_target) + 1
        BY <1>1, <1>3, <1>6, <1>9, <2>2
    <2>3. QED
        BY <1>6, <2>1, <2>2
<1>12. Remaining(t)' = Remaining(t)
    <2> DEFINE D == InFlight(t, to_target, "data")
               R == InFlight(t, to_init, "r2t")
    <2>1. D \in Nat /\ R \in Nat
        BY RemainingNat
    <2>2. InFlight(t, Append(to_target, d), "data") = D + Size(t, d, "data")
        BY <1>q, <1>2, DataInFlight
    <2>3. Size(t, d, "data") = n
        BY <1>3 DEF Size
    <2>4. D' = D + n /\ R' = R
        BY <1>4, <2>2, <2>3
    <2> HIDE DEF D, R
    <2>5. burst'[t].len + D' + R' = burst[t].len + D + R
        BY <1>1, <1>5, <2>1, <2>4
    <2>6. QED
        BY <2>5 DEF Remaining, D, R
<1>13. r2t'[t] # None /\ r2t'[t].done % BlockSize = 0 /\ r2t'[t].left % BlockSize = 0
       /\ ~r2t'[t].cmd.fua /\ r2t'[t].left = Remaining(t)'
    BY <1>4, <1>7, <1>12 DEF Balanced
<1>14. QED
    BY <1>1, <1>4, <1>9, <1>10, <1>11, <1>13 DEF Balanced, WholeBlocks

\* A tag is used, perhaps again.
LEMMA IssueBalanced ==
    ASSUME TypeInv, TypeInv', NEW t \in Tags, NEW c \in Commands, Issue(t, c), Unused(t)
    PROVE  AtWork(t)'
<1>1. PICK v \in 0 .. Len(issued') :
        /\ task' = [task EXCEPT ![t] = [cmd |-> c, val |-> v]]
        /\ to_target' = Append(to_target, [type |-> "cmd", tag |-> t, cmd |-> c, val |-> v])
        /\ [type |-> "cmd", tag |-> t, cmd |-> c, val |-> v] \in ToTarget
        /\ v # 0 => issued'[v] = c
    BY Issued
<1>2. v \in Nat
    OBVIOUS
<1>3. /\ Life(t, c, v)' /\ Mine(to_target', t) = {Len(to_target) + 1} /\ Mine(to_init', t) = {}
      /\ to_target'[Len(to_target) + 1].type = "cmd" /\ task'[t] # None /\ r2t'[t] = None
    BY <1>1, <1>2, IssueLife
<1>4. burst'[t].len = 0
    BY DEF Issue, Unused
<1>5. Balanced(t)'
    BY <1>3, <1>4 DEF Balanced
<1>6. QED
    BY <1>3, <1>5 DEF AtWork

LEMMA EvenStep ==
    ASSUME TypeInv, TypeInv', Faultless, Even, [Next]_vars PROVE Even'
<1>0. CASE UNCHANGED vars
    <2>1. SUFFICES ASSUME NEW t \in Tags, NEW c \in Commands, NEW v \in 0 .. Len(issued),
                          Life(t, c, v), Balanced(t)
                   PROVE  Life(t, c, v)' /\ Balanced(t)'
        BY <1>0 DEF vars, Even, AtWork, Unused
    <2>2. Life(t, c, v)'
        BY <1>0, <2>1 DEF vars, Life, Identity, CommandAlone, Registered, Arriving, Sending, Asked, Live
    <2>3. Remaining(t)' = Remaining(t)
        BY <1>0 DEF vars, Remaining
    <2>4. Balanced(t)'
        BY <1>0, <2>1, <2>3 DEF vars, Balanced, WholeBlocks
    <2>5. QED
        BY <2>2, <2>4
<1>1. SUFFICES ASSUME Next, NEW t \in Tags PROVE Unused(t)' \/ AtWork(t)'
    BY <1>0 DEF Even
<1>2. CASE Unused(t)
    <2>1. CASE Frame(t)
        BY <1>2, <2>1, UnusedFrame
    <2>2. ASSUME NEW c \in Commands, Issue(t, c) PROVE AtWork(t)'
        BY <1>2, <2>2, IssueBalanced
    <2>3. ~(Handle /\ Head(to_target).tag = t) /\ ~(Receive /\ Head(to_init).tag = t)
        <3>1. ASSUME Handle, Head(to_target).tag = t PROVE FALSE
            <4>1. to_target # <<>> /\ to_target' = Tail(to_target)
                BY <3>1, HandleCases
            <4>2. QED
                BY <1>2, <3>1, <4>1, TakenPdu DEF Unused
        <3>2. ASSUME Receive, Head(to_init).tag = t PROVE FALSE
            <4>1. to_init \in Seq(ToInit) /\ to_init # <<>>
                BY <3>2 DEF TypeInv, Receive
            <4>2. 1 \in Mine(to_init, t)
                BY <3>2, <4>1, PopMine
            <4>3. QED
                BY <1>2, <4>2 DEF Unused
        <3>3. QED
            BY <3>1, <3>2
    <2>4. ASSUME NEW n \in Pieces, SendData(t, n) PROVE FALSE
        BY <1>2, <2>4, BurstOfTask DEF Unused
    <2>5. QED
        BY <1>1, <2>1, <2>2, <2>3, <2>4, StepCases DEF Send
<1>3. ASSUME NEW c \in Commands, NEW v \in 0 .. Len(issued), Life(t, c, v), Balanced(t)
      PROVE  Unused(t)' \/ AtWork(t)'
    <2>1. v \in 0 .. Len(issued') /\ Recorded
        <3>1. Recorded /\ Len(issued) <= Len(issued')
            BY <1>1, RecordedStep
        <3>2. Len(issued) \in Nat /\ Len(issued') \in Nat
            BY DEF TypeInv
        <3>3. QED
            BY <3>1, <3>2
    <2>2. ASSUME Life(t, c, v)', Balanced(t)' PROVE AtWork(t)'
        BY <2>1, <2>2 DEF AtWork
    <2>3. CASE Aside(t)
        <3>1. Frame(t) /\ Remaining(t)' = Remaining(t)
            BY <2>3, RemainingAside
        <3>2. Life(t, c, v)'
            BY <1>3, <2>1, <3>1, FrameLife
        <3>3. Balanced(t)'
            BY <1>3, <3>1, BalancedFrame
        <3>4. QED
            BY <2>2, <3>2, <3>3
    <2>4. CASE Handle /\ Head(to_target).tag = t
        <3>1. Life(t, c, v)' /\ Balanced(t)'
            BY <1>3, <2>4, HandleLife, HandleBalanced
        <3>2. QED
            BY <2>2, <3>1
    <2>5. CASE Receive /\ Head(to_init).tag = t
        <3>1. Life(t, c, v)' /\ (Unused(t)' \/ Balanced(t)')
            BY <1>3, <2>5, ReceiveLife, ReceiveBalanced
        <3>2. QED
            BY <2>2, <3>1
    <2>6. ASSUME NEW n \in Pieces, SendData(t, n) PROVE AtWork(t)'
        <3>1. Life(t, c, v)' /\ Balanced(t)'
            BY <1>3, <2>6, SendLife, SendBalanced
        <3>2. QED
            BY <2>2, <3>1
    <2>7. ASSUME NEW d \in Commands, Issue(t, d) PROVE FALSE
        BY <1>3, <2>7 DEF Issue, Balanced
    <2>8. \/ Aside(t)
          \/ Handle /\ Head(to_target).tag = t
          \/ Receive /\ Head(to_init).tag = t
          \/ \E n \in Pieces : SendData(t, n)
          \/ \E d \in Commands : Issue(t, d)
        BY <1>1 DEF Next, Aside, Send
    <2>9. QED
        BY <2>3, <2>4, <2>5, <2>6, <2>7, <2>8
<1>4. QED
    BY <1>2, <1>3 DEF Even, AtWork

\* However often a tag is used again, an r2t_session is only there for the
\* command that is outstanding under that tag, and its bytes_left is to the
\* unit what the initiator was asked for and push_response() has not seen yet:
\* no DATA-OUT is counted twice, missed, or counted for another task.  This is
\* when the layers below do not fail, DATA-OUTs are of whole blocks and FUA is
\* only asked for when none has to follow: otherwise DataFailed and DropData
\* leave the transfer registered after its task.
THEOREM TransfersMatchTasks == ASSUME Faultless PROVE Spec => []SessionsMatchTasks
<1>1. Init => Even
    BY DEF Init, Even, Unused, Mine, NoBurst
<1>2. TypeInv /\ TypeInv' /\ Even /\ [Next]_vars => Even'
    BY EvenStep
<1>3. TypeInv /\ Even => SessionsMatchTasks
    <2>1. SUFFICES ASSUME TypeInv, Even, NEW t \in Tags, r2t[t] # None
                   PROVE  /\ task[t] # None /\ task[t].cmd = r2t[t].cmd
                          /\ r2t[t].done + r2t[t].left = r2t[t].cmd.tl * BlockSize
                          /\ r2t[t].left = burst[t].len + InFlight(t, to_target, "data")
                                           + InFlight(t, to_init, "r2t")
        BY DEF SessionsMatchTasks
    <2>2. PICK c \in Commands : \E v \in 0 .. Len(issued) : Life(t, c, v) /\ Balanced(t)
        BY <2>1 DEF Even, Unused, AtWork
    <2>3. PICK v \in 0 .. Len(issued) : Life(t, c, v) /\ Balanced(t)
        BY <2>2
    <2>4. task[t] # None /\ task[t].cmd = c /\ r2t[t].cmd = c
        BY <2>1, <2>3 DEF Life, Identity, Balanced
    <2>5. r2t[t].done + r2t[t].left = c.tl * BlockSize
        BY <2>1, <2>3 DEF Life, Registered
    <2>6. r2t[t].left = Remaining(t)
        BY <2>1, <2>3 DEF Balanced
    <2>7. QED
        BY <2>4, <2>5, <2>6 DEF Remaining
<1>4. QED
    BY <1>1, <1>2, <1>3, TypeInvInit, TypeStep, PTL DEF Spec
=============================================================================

# iESP: models, checks and proofs

iESP is an iSCSI target: it offers a file, an NBD export or an SD card as a SCSI
disk. This directory has TLA+ modules for the program, TLC configurations that
check them on small instances, and TLAPS proofs of what can be proved for
every instance. The models follow the Linux build with its default options
(RelWithDebInfo: assertions are off). Source references are to the repository's
files; `map` in PROJECT.json has the lines behind every definition.

## The system

| part | state | operations | interacts with |
|---|---|---|---|
| `main.cpp` | stop flag, backend, threads | start, signal handler, orderly end | owns everything |
| `server.cpp` accept loop | list of threads with a "done" flag | accept, join finished threads, stop | starts a thread per session |
| `server.cpp` session thread | error counter, the READ being streamed | `receive_pdu`, `push_response`, reject, end of session | sockets, session, scsi |
| `session.cpp` | R2T sessions by tag, DataSN, digests, segment length | init, get, remove R2T session; next DataSN | one session thread |
| `iscsi-pdu.cpp` | - | a PDU into SCSI calls and answers | session, scsi |
| `scsi.cpp` | `locked_by` with its mutex | SCSI commands; RESERVE/RELEASE | shared by all sessions; calls the backend |
| `backend.cpp` | array of mutexes | `lock_range`, `unlock_range` | used by the backends |
| `backend-file.cpp` | the file | read, write, trim, cmpwrite, sync | called by all session threads |
| `backend-nbd.cpp` | one socket, `dev_size` | the same, with reconnect and retry | an NBD server |
| `com-sockets.cpp` | sockets | accept, recv, send, each with a look at stop | server |
| `snmp*` | tree of objects | register, answer datagrams | a thread of its own |

What is hard: all session threads share one backend and one `scsi` object; the
range locks are taken one by one; the reservation is checked and the backend
called later; a write is spread over a command, R2Ts and DATA-OUTs, with several
tasks under way and failures in the middle; a READ is cut into pieces whose
limits come from three sides; the connection, or the NBD server's, may go at
any moment; five kinds of threads have to end in the right order. `hazards` in
PROJECT.json lists the lines and the properties about them.

## Modules

| module | code | proofs |
|---|---|---|
| BackendFile, AtomicDisk, BackendFileAtomic | `backend.cpp`, `backend-file.cpp` | BackendFileProofs |
| BackendNbd (also implements AtomicDisk) | `backend-nbd.cpp`, `utils.cpp` READ/WRITE | BackendNbdProofs |
| Reservation | `scsi.cpp`, task management, end of session | ReservationProofs |
| WriteTask, Sums | `scsi.cpp` writes, `session.cpp`, DATA-OUT in `server.cpp` | WriteTaskProofs, InductionLemmas |
| ScsiCommand, IscsiPdu, Session (each extends the one before) | `scsi.cpp`, `iscsi-pdu.cpp`, `session.cpp`, `server.cpp` | SessionProofs |
| ServerThreads | `main.cpp`, `server.cpp` handler, `com-sockets.cpp` | ServerThreadsProofs |
| SnmpData, Snmp, Sums | `snmp/*.cpp`, `snmp.cpp` | SnmpProofs, InductionLemmas |
| MC... | requests of the instances | |

A definition whose comment begins with "Mutant" is a faulty variant of a
definition near it; no specification uses it. It shows that a property would
notice that fault.

**BackendFile.** `disk` is the file, `owner` the mutexes; a thread goes through
`Call`, `Lock` (once per mutex, in the order of the `std::set`), the system call
a block at a time, `Unlock`, `Return`. `IoFailed` and `CmpWriteDone` are the failing
and the short system calls. `write()` locks one block and `trim()` none, as in
the code. For a block, a system call is atomic; nothing is assumed across
blocks.

**AtomicDisk** is what callers rely on: reads, writes and compare-and-writes
that take effect at one instant or fail. **BackendFileAtomic** has the refinement
mapping: `cmpwrite` takes effect when its pwrite is complete, until then
overwritten blocks count as what they were compared with.

**BackendNbd.** The socket is `fd`, `up` and two FIFOs; a call goes through
`Connect`, `Dial`, `ReadHello`, and for every `invoke_nbd` through `SendRequest`,
`SendPayload`, `ReadReply`, `ReadData`, `While` and `Done`. Every step on the
socket can find it dead. `Lose` drops what the server has not read and any part
of what it answered: a request may have been carried out although its answer is
gone. That a server drops the unread requests of a lost connection is assumed.
The refinement mapping keeps in `saved` what the blocks were when the call
began. A retry does not look at stop, so a server that never comes back keeps a
session busy.

**Reservation.** `locked_by` is the code's. A step holds `locked_by_lock` once:
`Reserve`, `UnlockDevice` (in `Release`, `Reset`, `EndUnlock`) and `CheckStatus`
are steps of their own, and `BackendCall` comes after `CheckStatus`. A refused
RESERVE changes nothing and is not an action. `granted`, `was_reset` and `late`
are history variables.

**WriteTask.** A target step handles one PDU: a session has one thread. The
initiator is external and keeps the protocol: it follows R2Ts, ends a task with
its response and has no two commands outstanding for a block. A block is
`BlockSize` units, so that immediate data can end inside one. `Outcomes` are the
results of calls below: `ok`, `fail` (any part may have been written), `locked`.
`allowed` records what a read of a unit may return. A WRITE whose expected length is
not its number of blocks, with data yet to come, gets GOOD with a residual where
its R2T would be (`CutShort`). The branch of DATA-OUT for
WRITE SAME is left out: R2T is only sent for a WRITE SAME when the expected
length is the number of blocks times the block size, while its data is one
block.

**ScsiCommand** has what `scsi::send()` gives for every command: the kind of
answer, sense data, length of inline data or sectors to stream, with
`validate_request()` in unsigned arithmetic. **IscsiPdu** has the requests and the
PDU that is made for each. **Session** is the loop around them: one action per
`recv()` of `receive_pdu()`, one per kind of PDU in `push_response()`, the streaming
of a READ a piece at a time, the errors and the error counter. Logins may declare
any segment length, 0 too, or none (`NoKey`). The connection can end between any
two of them. Data on the device is represented by where it came from. How writes reach the disk is in WriteTask; who holds the reservation
in Reservation: here another session may hold it at any time.

**ServerThreads.** `main` is where `main()` is, from opening the backend to its
return; `conn` and `ses` are the connections and their threads. `threads`, `scan` and
`current` are the list of `server::handler()`, the index of the loop that joins
finished threads and the connection it has just accepted. The signal may come
at any moment, once. A session that is busy may `Hang` and be stuck for ever: in
the loop over an AHS of length 0 (iscsi-pdu.cpp:129), in a READ with empty
segments (server.cpp:469) or with an NBD server that does not come back
(backend-nbd.cpp:145-245), none of which looks at stop.

**SnmpData** has the tree of objects (registration, search, successor) and the
encoding of OIDs and lengths in `uint8_t`; **Snmp** the request loop, a manager
that walks and repeats requests, others that ask for anything, and a network
that loses, repeats and reorders. A value is its size. A datagram that the BER
parser refuses is junk. The model assumes of the agent that no object it registers
is the beginning of another, and of the others that their ids tell their requests
apart and need at most 32 bits (an integer of the reply then takes six bytes, with a
longer id ten), and that the numbers in their OIDs fit in an int: `get_OID()` would
take more modulo 2^32 and write them with `%d`.

## Runs that pass

| run | instance | shows |
|---|---|---|
| backend_locks | 3 threads, 3 blocks on 3 mutexes with spreader 2, so mutex order is not block order | exclusion, no leaked mutex, no circle, somebody always gets through |
| backend_atomic | 2 threads, 3 blocks on 2 mutexes, the calls that lock what they touch | nothing comes between comparison and write; implements AtomicDisk |
| nbd | 1 session, 2 blocks, every call and range, 3 faults | a retry cannot be told from a call that worked at once: implements AtomicDisk, stream in step, size known, every call returns |
| reservation | 3 sessions, up to 2 backend calls per command | holder alive and aware, at most one late call, given back |
| write_ok | 2 tags used again, 3 commands, no failures | data, accounting of R2Ts, answers, liveness |
| write_faults | 3 tags and commands, all failures, DATA-OUTs of any length, WRITE SAME, FUA, overlong immediate data | writes stay in range; data and answers but for the places `Loses` lists |
| session | 16 blocks of 512, 2 tags, all PDUs, segment length 0 among those declared, 2 errors end the session | one final answer, one DATA-IN sequence, DataSN, right data, arithmetic of ranges, UNMAP, digests, error counting, end of the session |
| server_threads | 3 connections, with and without SNMP, any of which may hang | joins, shutdown order, the stop signal ends the program unless a session hangs |
| snmp | 11 objects in two orders of registration, 2 datagrams under way | walk in order and complete, Get answered in full |

Types (`TypeOK`) are proved for BackendFile, Reservation, ServerThreads, Session
and WriteTask, and checked in write_ok for WriteTask. In BackendNbd and Snmp the
type invariant says what the variables are; it holds on the instances, and the
runs are spent on the other properties.

Bounds. Two threads are enough for interference on a block, three for a circle
that is not a pair and for a bystander. Two calls per command are the least for
"checked again". Three commands allow a failure, its retry and a concurrent
task. For the session, `Uint64` is 1024 blocks and `Uint32` 8192 bytes, so that
block numbers wrap and the length of a READ of the whole device does;
`MAX_DATA_SEGMENT_SIZE` is two blocks, so that READs have one to several pieces;
`MaxErrors` is 2 (16 in the code), enough to be reset and reached; `MaxDataSN`
stops a tag from being used again and again for READs, after the numbering has
gone on once. It also bounds the empty DATA-INs of a READ with segment length 0: from
there on the model only lets that READ fail, and no property says anything of it
but that a session without a connection ends. Three faults are a lost connection, a failed reconnect and
another loss. Three connections are a thread before, at and after an erased
one. Eleven objects have siblings at every depth, and lists of them make replies
of 255, 256 and more bytes. `MaxCommands`, `MaxCalls`, `MaxFaults`, `MaxDataSN` and
`MaxInFlight` are the only bounds on behaviours. Tags are symmetric in the run that uses
symmetry, which has no liveness property. Deadlock is not checked for WriteTask,
Session, ServerThreads and Snmp: an initiator or a manager may stop asking, and
the program and its sessions end.

## Runs that fail

They show a disagreement with what the repository says; `findings` quotes it.

| run | what happens |
|---|---|
| write_tag_reuse | after an I/O error the R2T session stays; the next write with that tag goes to the old LBA, GOOD |
| nbd_shared | two sessions: one reconnects, the other takes that for the success of its own lost request |
| session_segments | an initiator whose segments are half a block gets the start of the same block in every piece |

## Properties that name exceptions

Some properties hold only with an exception for what the code does. These are
the exceptions. The repository's documents speak only of one: "tests if what is
written, is readable later on" (README.md:89) is not so for the commands that
`CutShort` and `Loses` except.

* `AtMostOneLateCall`: a reservation is checked and used later (scsi.cpp:1067), so
  one backend call may come after another session's RESERVE. A reset by a session
  that does not hold the reservation does not end it (iscsi-pdu.cpp:1097).
* `WrittenIsReadable` (`CutShort`): a WRITE with data yet to come whose expected
  length is not its number of blocks is answered GOOD with a residual in place of
  an R2T (iscsi-pdu.cpp:490): immediate data is written, the rest is not.
* `WrittenIsReadable`, `TaskNotForgotten` (`Loses`): DATA-OUTs that are not whole
  blocks are dropped while the rest of the burst makes the task GOOD; a WRITE SAME
  without immediate data is GOOD and not carried out (scsi.cpp:914); a failed write
  of immediate data is not answered (scsi.cpp:469). The test of the sync for FUA
  is the wrong way round (server.cpp:330): a successful one is answered as an
  I/O error.
* `StaysInRange`: immediate data longer than the CDB says is patched into the
  block after the range, by less than a block (scsi.cpp:453).
* `AcceptedFits`: a request for more blocks than the device has is accepted
  (scsi.cpp:988) and fails in the backend.
* `WholeBlocksReadRight`: a READ whose expected length is not whole blocks ends in
  zeros.
* `AnsweredOnce` (`MayBeSilent`): inline data of which nothing is wanted is not
  answered; nor is a text request that is no pair.
* `SurvivesPdus`: a wrong digest leaves no PDU, and `reject.value()` of nothing
  ends the program (server.cpp:651).
* `EveryPduHandled`, `HangupEnds`: an oversized data segment is drained until the
  connection ends (server.cpp:203; only reachable where a segment can be longer
  than the limit, in the microcontroller builds); an AHS of length 0 is an
  endless loop (iscsi-pdu.cpp:129).
* `EveryPduHandled` (`Endless`): a READ of an initiator that declared segments of length
  0 is an endless loop of empty DATA-INs (server.cpp:469-524), until a read or a
  send fails.
* `StopEndsProgram`: `main()` waits for ever for a session that hangs.
* `DigestsAgreed`: a login reply for stage 1 does not say which digests are
  already on, so nothing is claimed after such a reply to an offer.
* `StopForgotten`: a stop signal before `snmp::begin()` is cleared by it
  (snmp/snmp.cpp:66).
* `GetsAnswered`: no reply when a sequence is exactly 256 bytes; what does not fit
  is left out. A Set is treated as a Get; a GetNext from an OID that is not there
  may give an earlier one, and walks start at nodes that are.

Also seen while modelling, with no property: the ResidualCt of inline data is
overwritten (iscsi-pdu.cpp:704); commands are accepted before login; UNMAP without
immediate data is GOOD and does nothing; rejects have no digests; the data digest
of a streamed piece whose length is not a multiple of 4 is misplaced; BER lengths
of 128 and more are sent in the short form; when the PID file cannot be written
`main()` returns while its threads run (main.cpp:249).

## Fairness

* BackendFile: a thread inside a call is scheduled (`WF(Step)`). Mutexes are not
  assumed to be fair, so only "some call returns" is claimed.
* BackendNbd: the thread is scheduled and the server answers what it has read.
  Faults are bounded: with endless ones no call need return.
* Reservation: a thread with work is scheduled and the backend returns. Nothing
  makes initiators send anything.
* WriteTask: the connection delivers, the thread is scheduled, the initiator
  reads and follows R2Ts.
* Session: the thread is scheduled, backend calls and `send()` return. Nothing
  makes the initiator send, or hang up.
* ServerThreads: every thread is scheduled, and an initiator reads the answer to
  what it sent or goes away, so that a call that does not hang returns. Nothing is
  assumed of `Hang`, which competes with that return. A session that waits for a
  PDU needs nobody, as it looks at stop itself.
* Snmp: none. That walks end follows from order and answers.

## Proofs

For all constants that satisfy the modules' assumptions:

* **BackendFileProofs.** The inductive invariant says that mutexes belong to
  calls, are collected in ascending order, and all are held during I/O; none of
  the three is inductive without the types. `TypeCorrect` and `LocksOfCalls` are
  parts of it. `RangeLocksAcyclic` follows from "collected in ascending order".
  `RangeLocksExclude`: two calls in I/O hold their lock sets, a common block gives
  a common mutex, and a mutex has one owner. `CmpWriteSafe`: a step that changes
  a compared block is another call's, and that call holds the block's mutex
  unless it is in a part it does not lock; this needs in addition that progress
  stays within the request.
* **ReservationProofs.** `ReservationTyped`, `HolderAlive`, `GrantsAreHeld`,
  `LateCallsBounded`. The last one needs that a session with a late call is no
  longer past its check.
* **ServerThreadsProofs**, for any number of connections. `ThreadsInv` adds to the
  types: what is past when `main()` is at a place (`JoinedInOrder`); a connection
  is in the list once and not joined while it is there (`ListedOnce`), without
  which erasing one could lose another; `Listed`, which is NoThreadForgotten by
  index; and `Scanned`: what the joining loop has passed was not finished when it
  began, which erasing at the index preserves and going on after an erase would
  not. From it `ThreadsTyped` (the index stays within the list it shortens),
  `ThreadsListed`, `BackendOutlives`, `FinishedJoined` and `StopKept`.

* **BackendFileProofs**, second part: `FileBackendAtomic`, the refinement of AtomicDisk, for
  the calls that lock every block they touch (`WholeRangesLocked`: no `trim()`, no
  `write()` of more than a block: these leave blocks of their range unlocked).
  `AtomicInv` adds to the invariant of the locks what a call in its I/O knows: what
  `read()` has in its buffer and `cmpwrite()` has compared is still on the disk, what
  `cmpwrite()` has written is there. That is inductive because calls with a common
  block are not in I/O together. A step is then a step of AtomicDisk where the call
  takes effect (a read when it has its result, a write with its one block, cmpwrite
  at the end of its pwrite, a failed call when it fails) and a stutter elsewhere.
* **SessionProofs**, for any set of PDUs, device and limits. `TypeCorrect` needs to know
  where there is a PDU in hand. `ReceiveInv`, why `receive_pdu()` has no PDU or one it
  will not handle, gives `SessionSurvives`. `DigestInv` adds the time between a login's
  change of the digests and its reply, and gives `SessionDigests`. `CountInv` ties
  the error counter to the rejects that the initiator saw and gives
  `SessionEndsAfterErrors`; it rests on what `out` can hold before an error
  (`OutInv`). `StreamInv`, that what is streamed got past `validate_request()`, gives
  `AcceptedReadsFit`.
* **SessionProofs**, second part. `ProgressInv`: the last DATA-IN sent leads to where the stream
  is, the S bit is not set before the end, pieces are empty only if segments are, and the segment length stays within the
  target's own limit. `OutSteps` reduces every step to five things that can become
  of what was sent (no DATA-IN in it, kept, inline data, one more piece, an error on
  top), and each of `DataSNsInOrder`, `DataInsInSequence` and `PdusAnsweredOnce` is then shown for
  those. `WholeBlocksRead` needs in addition that block number and offset of the
  stream agree (`PlaceInv`), which a piece keeps only if it is whole blocks; it
  assumes that the 32-bit lengths wrap at a block (`WrapsAtBlock`: block sizes are
  512 or 4096, backend-file.cpp:46, backend-nbd.cpp:136). `BadUnmapsNotGood` is about
  the loop over the descriptors of an UNMAP, however many there are: once one was
  refused there is sense data, which nothing takes away (`UnmapDescriptor` keeps it
  even when the next descriptor sets `rc` back to `rw_ok`). It assumes a device of at
  least `MAX_UNMAP_BLOCKS` blocks, as `validate_request()` lets requests through that are
  longer than the device.
* **WriteTaskProofs**, for any commands, tags, pieces and failures. `TypeCorrect`.
  `TasksNotForgotten`, also when tags are used again: for every outstanding task
  something that can end it is in a queue or still to be sent by the initiator
  (`Awaited`). `WritesStayInRange` and `WrittenReadable` (but for `CutShort` and `Loses`)
  assume that a tag is not used again (`~ReuseTags`; write_tag_reuse shows that
  this is needed). For each tag, `Life`
  says that everything with the tag is of one command, DATA-OUTs arrive in order
  and after what is done, done and left add up to the length, and an R2T that will
  be followed is for just what is left; without it the unsigned counters could wrap
  and a late DATA-OUT end up anywhere. `InRange` follows with what the disk holds.
  `Complete` adds that, as long as a task can still be answered GOOD, what is done
  is on the disk and there are no gaps between that and what is under way;
  `MayRead` that a read may find what is still to come; `Before` that DATA-OUTs a failed
  task left behind are handled before the command of a later task for the
  same blocks; `Apart` that outstanding tasks are for different blocks, which is the
  initiator's part. The assumption that a block is more than one unit only keeps
  fragments of blocks in the model. `TransfersMatchTasks` is the accounting of R2Ts, also
  with tags that are used again, and assumes `Faultless`: calls succeed, DATA-OUTs are
  of whole blocks, and FUA is only asked for where no DATA-OUT follows (after a
  failure the R2T session stays: write_tag_reuse). Its invariant is `Even`: for every
  tag what the R2T session has left is the sum over what the initiator has still to
  send, the DATA-OUTs and the R2Ts under way (`Balanced`), an outstanding task without
  R2T session has its command or its answer under way and nothing else, and a tag that
  is free has nothing under way. The sums are over queues, so how `Total` changes when
  something is appended or taken away is proved first.
* **SnmpProofs**, for any objects, in any order of registration, and any requests of
  others. First what the code computes. `Registers`, `InitGrown`: after any
  registrations the tree is `Grown`: its nodes are the beginnings of the objects, each
  vector has every child once and in the order of its number, and the nodes with a
  value are the objects. `FindNext`: in such a tree `find_next_oid()` gives the
  least object after an OID of the tree (`NextAfter`), or nothing after the last
  one; going down gives the least object below a node (`FirstBelow`), and all that
  is below a later sibling is greater. `RoundTrip`: `get_OID()` gives back the OID
  that `snmp_oid` wrote, for any number of groups of seven bits. `SequenceFits`: as
  long as the sum of its elements stays below 256, no `snmp_sequence` leaves one out.
  The behaviours then need `WalkInv`: the tree is what `init_snmp()` made; what the
  walk has seen are the objects after its start, each the next after the one before
  (`OrderInv`); a request under way is of others or one the walk has sent at some
  step (`RequestInv`); and a reply to any step of the walk, also an old one, tells
  what comes after the OID of that step (`Tells` in `ReplyInv`). The invariant needs
  old requests and replies because the network keeps and repeats them; that the
  id of a request is its step makes them harmless. From it `WalksInOrder`.
  `GetsAreAnswered` follows from `GetReply` for the one request that has the id of the
  reply. `StepsAreAnswered` assumes that a message with any one object is smaller
  than the buffer (`EveryObjectFits`: a string of more than some 200 bytes would
  make its object unanswerable), and leaves GetNexts of others aside (`OthersGet`),
  which may have a list without any well-formed OID. Both hold in the run.
* **InductionLemmas.** What the other modules need about recursive functions: `Loop` is a
  function on `0 .. n` that is defined by recursion, `LoopValues` that there is one, from
  which `TotalAppend` and `TotalTail` follow; SnmpProofs uses them for its loops. As the provers cannot instantiate the
  library's induction theorems, `Induct` takes a set in place of a predicate and is
  proved from the least element of its complement.
* **BackendNbdProofs.** `SizeAlwaysKnown`, for any number of threads. `AnswersInStep` and
  `NbdBackendAtomic`, for one (`OneThread`; nbd_shared shows that two break it), with any
  device and any number of faults. `NbdInv` says for the thread: which call it is in
  and that what `cmpwrite()` compared was right when it began (`CallOf`); what its
  requests, sent once or more often, carried out whole or in part, can have made of the
  disk (`DiskOf`): for a write a prefix of the range, which a second write
  only extends; what is in the two queues at every place (`StreamOf`); what the
  buffer holds (`BufOf`). The four depend on each other: an answer in the stream is
  what says that a request was carried out. Callers see the disk as it was saved when the call
  began until `invoke_nbd()` is done with it, and then all of it at once.

Every invariant and every action property of the passing runs, and both refinements,
are thus stated by a theorem. Only model-checked:

* Everything under fairness, as liveness is out of the prover's reach:
  `SomeCallReturns`, `EveryCallReturns`, `ReservationGivenBack`, `EveryTaskAnswered`,
  `EveryPduHandled`, `HangupEnds`, `StopEndsProgram`.
* The three runs that fail are counterexamples and need no proof.

## Not modelled

* Microcontroller ports: hardware glue around the same server.
* Logging, random numbers, utilities, options: no state of the protocols. Random
  numbers can fail (`PushLogin`).
* Statistics, and with them the values the SNMP agent gives: only their sizes.
* The contents of INQUIRY pages and the like: their lengths only. Numbers in login
  keys are taken to be numbers (`std::stoi` throws otherwise). CmdSN, StatSN, LUN and
  ISID are copied.
* Bytes and addresses in `com-sockets.cpp`; the BER parser beyond accept or refuse.
* Test and benchmark tools: clients of the target.

## Plan

1. Shorter proofs in WriteTaskProofs, with the queue lemmas stated once for both
   directions.
2. Session with WriteTask in one composition, for DATA-OUTs whose digest is wrong.

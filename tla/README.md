# Verification of the donder controller

The controller receives E1.31 (sACN) over Ethernet on the processor (PS) of a
Zynq board and drives WS281x strands from its programmable logic (PL). These
TLA+ modules model the parts of it where order, time and failure matter, and the
host programs that feed it, measure it, generate its registers and build its
software. TLC checks them on small instances, and TLAPS proves the main
properties for every value of the constants. Paths below are relative to `src/`.

## The system

```
 network -> receive_udp -> rx_packet_ring -> ethernet_receiver_poll
                                                   |
                                            e131_receiver  (parser, sweep, lock, blackout)
                                                   |
                                            frame_pipeline (two staging buffers)
                                                   |
                                               pl_ingest   (words, FRAME_COMMIT)
 ------------------------------------------------- AXI -----------------------
        axil_frame_ram (two banks)      pl_frame_control (registers)
                     \                      /
                      ws281x_frame_consumer -> strands
```

| Component | State | Operations | What is hard | What makes it correct |
|---|---|---|---|---|
| Receive ring, `ps/app/rx_packet_ring.c` | slots, head, tail, depth, counters | reserve, commit_reserved, enqueue, dequeue | three indices kept in step by hand, a slot written before it is queued | it is a bounded FIFO that counts its losses |
| Poll loop, `ps/app/ethernet_receiver.c` | poll time, counters | receive_udp, poll | drain budget, one time stamp per poll | every packet is handled once, in order; the blackout check ends every poll |
| Parser, `ps/app/e131_parser.c` | none | parse data, parse sync | field offsets, lengths | accepts exactly the expected packets |
| Assembler, `ps/app/e131_receiver.c` | source lock, priority, sync mode, bitmap, count, display time | handle_packet, poll | packets of several sources in any order, take-over, sync, refused commits, clock wrap | whole frames of one source, shown when they should be, black after silence |
| Frame pipeline, `ps/app/frame_pipeline.c` | two staging buffers, strand lengths | write, clear, commit, configure | buffers must follow the PL's banks | what is committed is what was written |
| PL ingest, `ps/app/pl_ingest.c` | statistics | write_frame_strands, configure_strands, enable_consumer | registers read before they are used, a consumer that runs on meanwhile | never writes what is being read |
| Frame control, `hw/rtl/pl_frame_control.sv` | active bank, sequence, words, error bits | commit, clear, reset | commit decision against the consumer's bank | commits are atomic and only of a free bank |
| Consumer, `hw/rtl/ws281x_frame_consumer.sv` | transmit and read state machines, captured frame | capture, scan, validate, send, recover | captures before it says so, prefetches while it sends | sends each committed frame once and whole |
| Frame memory, `hw/rtl/axil_frame_ram.v` | words, handshakes | write, read on two ports | address and data in either order | a write is one word, a read the last write |
| Boot, `ps/app/main.c` | none | init, two frames, enable, poll for ever | order | no frame is sent before the first commit |
| Sender, `ps/tools/e131_send.py` | frame, offset, sequence, clock | send a sweep, sync, pace | rounding, drift, interrupts | what it sends the board accepts, on schedule |
| Benchmark, `ps/tools/e131_benchmark.py` | rows, UART lines and queue | program, wait for a line, send, snapshot, classify | three threads of control and a board that prints late or dies | a row is of its own cell |
| Profile, `ps/tools/e131_ingress_profile.py`, `e131_profile_report.py` | rows, environment | build, measure each candidate, restore the defaults, report | what is on the board is whatever was built last | each row is measured on the build it names |
| JTAG wrapper, `ps/scripts/run_xsdb_checked.py` | two child processes | start, probe, run, read, stop | children die and listen when they like | success means success, nothing is left running |
| Serial port search, `make_helpers.py`, `e131_benchmark.py` | one open port | list, score, open, read, close | ports come and go | the board's port, or the one named |
| Register generator, `hw/regs/generate_regs.py`, `ssot_check.py` | derived files | make regs, regs-check, ssot-check | several readings of one file, interruption half way | everything derived is of one accepted description |
| Software build, `Makefile`, `ps/scripts/*.py` | time stamps, workspaces | hw, ps, boot, run | staleness judged by time, failed builds left behind | what is booted is one current build |

The host programs talk to the board over Ethernet (the sender), the UART (status
lines) and JTAG (programming and snapshots), and to each other through files,
exit codes and the environment.

Calls are synchronous within the PS, which is single threaded: `main` polls for
ever, and the lwIP callback runs inside the poll. The PL runs concurrently, on
its own clock, and shares registers and memory with the PS without a lock.

## Modules

| Module | Models | Checked by | Proved in |
|---|---|---|---|
| `BoundedFifo` | what the ring promises (abstract specification) | | |
| `RxPacketRing` | `rx_packet_ring.c` and the receive callback's use of it | `rx_ring` | `RxPacketRingProofs` |
| `EthernetPoll` | `ethernet_receiver_poll` and `receive_udp` on the ring, with the time stamps of a backlog | `rx_ring` | `RxPacketRingProofs` |
| `E131Receiver` | `e131_receiver.c`, with the order of `ethernet_receiver_poll` and the results of `frame_pipeline_commit` | `e131_receiver` | `E131ReceiverProofs` |
| `FrameHandoff` | `pl_ingest_write_frame_strands` and `frame_pipeline_configure`, `pl_frame_control.sv`, the transmit states of `ws281x_frame_consumer.sv` | `handoff`, `handoff_faults` | `FrameHandoffProofs` |
| `FramePipeline` | `frame_pipeline.c` word by word, with the universe arithmetic of `e131_parser.c` and `e131_receiver.c` and the read-back of `pl_ingest.c` | `pipeline`, `pipeline_config`, `pipeline_blackout` | `FramePipelineProofs` |
| `StrandFrame` | what the consumer promises the strands (abstract specification) | | |
| `Ws281xConsumer` | both state machines of `ws281x_frame_consumer.sv`, cycle by cycle, with the read port of `axil_frame_ram.v` | `consumer`, `consumer_errors` | `Ws281xConsumerProofs` |
| `E131Sender` | `e131_send.py` | `sender_to_board` | `SenderToBoardProofs` |
| `SenderToBoard` | the sender, the network and the assembler of `e131_receiver.c` composed | `sender_to_board` | `SenderToBoardProofs` |
| `BenchCell` | the cells of `e131_benchmark.py` with the UART, `SerialCapture`'s thread and the board; `run_cell` of `e131_ingress_profile.py` follows the same protocol | `bench_tools` | `BenchToolsProofs` |
| `CellVerdict` | `classify`, `infer_bottleneck`, `strict_classify` | `bench_tools` | `BenchToolsProofs` |
| `SerialPorts` | `candidate_ports`, `logs`, `SerialCapture.start` and `stop` | `bench_tools` | `BenchToolsProofs` |
| `XsdbRun` | `run_xsdb_checked.py` | `bench_tools` | `BenchToolsProofs` |
| `BenchTools` | the four above composed: the tools of a benchmark | `bench_tools` | `BenchToolsProofs` |
| `RegArtifacts` | `generate_regs.py` and the comparison of `ssot_check.py` | `build_tools` | `BuildToolsProofs` |
| `PlContract` | `read_config_and_regs`: derived sizes and requirements | `build_tools` | `BuildToolsProofs` |
| `SsotScan` | the scan of `ssot_check.py` | `build_tools` | `BuildToolsProofs` |
| `VitisBuild` | the rules of the `Makefile` for `ps`, `boot` and `run`, `create_app_vitis.py`, the choice of the newest build | `build_tools` | `BuildToolsProofs` |
| `ProfileCampaign` | the candidates, the ceiling sweep and the report of the profile | `build_tools` | `BuildToolsProofs` |
| `BuildTools` | the five above composed: the tools that generate, check, build and measure | `build_tools` | `BuildToolsProofs` |

The `MC...` modules give the constants their values for TLC. `BenchTools` and
`BuildTools` each hold several tools that share no state: a variable `tool`
says whose behaviour it is, and the variables of the others rest. Their properties
are conjunctions of the tools' properties, and their constants carry the assumptions
of all of them.

### RxPacketRing

Variables are the file's statics, plus the slot pointer the callback holds
(`reserved`, `filled`) and the caller's buffer (`out`). `Reserve`, `Fill` and
`CommitReserved` are three steps, and `Dequeue` may come between them. In the
program the callback cannot be interrupted by the poll loop; the model allows
more, and the ring is correct all the same. `FifoSpec` is the refinement: the
waiting packets, oldest first, are `BoundedFifo`'s queue. A packet is one value
for payload, length, source address and time stamp. The early returns for null
pointers change nothing and are left out.

### EthernetPoll

`pc` goes round: `PollStart` reads the clock (`now`, the stamp of everything that
comes in during the poll), in `input` lwIP calls `receive_udp` any number of times
up to a bound (`ReceiveUdp`, `CopyPayload` and `CommitPacket`, or `Oversized`), in
`drain` at most `DrainPerRound` packets are handled, and `RoundEnds` goes on to the
next of `Rounds` rounds or, with the ring empty and nothing new, ends the poll.
`PollEnd` is `e131_receiver_poll`. The ring's variables change only by the ring's
own actions, which is why `PollUsesRing` holds.

A packet is its time stamp, and of the assembler only what concerns time is kept:
handling a packet shows a frame or takes the lock (`lastDisplay` is its stamp), ends
the stream, or neither. What the stamp means is the point: it is older than the
packet's handling when the drain budget left the packet in the ring. `Backlog` is the
number of polls whose budgets take out a full ring, 2 for 1024 slots, 8 rounds and
64 packets a round. `silence` is the true time since a frame was shown.
`BacklogIsTimely` says that no packet is handled later than `Backlog` polls after its
arrival, that after a poll no source is locked that was silent for the timeout, and
that a blackout is early by no more than the age of a stamp. It is tight: in the
instance TLC refutes it with one poll less.

### E131Receiver

One action per kind of packet: `IgnoredSource`, `StreamTerminated`,
`SlotCountRejected`, `UniverseData`, `SyncPacket`; `PollStart` reads the clock
and `PollEnd` is `e131_receiver_poll`. Between the two any packets are handled.
`frame_pipeline_commit` is a choice among its three results (taken, no free
bank, error): `CommitCurrent` and `CommitBlack` have a disjunct for each.

The pixels of a universe are one value: who sent it with which synchronization
address, `Black` or `Old`. That is what "whole frame" needs to tell apart.
After an accepted commit the staging buffer is the other one, with words of an
earlier frame (`Old`); after a dropped one the words stay but no longer count as
received, and are called `Old` too. Two variables are history. `silence` is the true
time since a frame was shown or the lock taken, which no wrap can hide. `refused`
says that the lock was last released by a black frame the PL did not take: the code
does not try it again (`e131_receiver.c:166`), the check of the timeout stops with the
lock, and the strands stay lit until the next frame. `BlackedOut` therefore is: no
lock, and black strands or `refused`. `BlackoutInTime` says that it holds between
polls as soon as `silence` reaches the timeout, `LockExpires` that silence leads to it
unless a frame is shown or a source takes the lock first, `NoEarlyBlackout` that no
poll blacks out sooner.

Left out: counters, gap times and sequence anomalies (nothing reads them back;
the anomalies are in `SenderToBoard`),
packets that fail the parser and preview packets (they only count). Every packet
is handled in the poll that received it; what a backlog with the stamp of an earlier
poll does to the timing is `EthernetPoll`'s subject.

### FrameHandoff

`pc` follows one call of the PS: `StartFrame`, `ReadStatus` (first snapshot),
`ReadWriteBank` (with the wait loop), one `WriteWord` per lit pixel,
`CommitFrame` (the register write and the decision of `pl_frame_control.sv`),
`Verify` (second snapshot). `StartConfigure` and `ConfigureStrand` are
`frame_pipeline_configure`, with the black frame first when pixels are given up.
The consumer makes one `Tick` per clock cycle: `Capture` (TX_IDLE),
`ScanOutput` (TX_COMPUTE_CONFIG, one output a cycle), `Validate`, `Recover`
(TX_ERROR). TX_LOAD_FIRST, TX_SEND and TX_RESET are one state, left by `SendDone`
or, with `ReadFaults`, by `ReadFault`.

A word of memory holds the sequence number of the frame it was written for.

The interesting part is time. The consumer captures a bank OUTPUT_COUNT cycles
before BUSY_BANK shows it, and nothing but the duration of the register reads of
`pl_ingest_snapshot` keeps the processor from finding that bank free. `since`
counts the cycles from the last commit or look, and `PsGap` is the least number
of cycles the reads of one snapshot take. `TimingAssumption` (`PsGap >
OutputCount`) is met by the code: a snapshot is 20 registers and one per output,
a configuration status and mask words, each an AXI read of several cycles. The
mutant that drops the assumption violates `NoOverlap`.

Simplifications: a register write takes effect at once (in the PL it takes two
cycles more, on the safe side of the assumption); the self-test frame is
written like any other; the overflow bit cannot be reached because the PS never
commits more words than a bank has; the read-back before the commit succeeds,
which needs word 0 to be written and therefore a lit first strand
(`FirstStrandAssumption`; `FramePipeline` looks at what happens without it); the reset pulse finds the consumer idle, as it does at
boot, its only use. `frame_pipeline_configure` is not called by `main`; it is
modelled because it is part of the interface and its tests call it. The write of
ACTIVE_OUTPUT_COUNT before the first length (`pl_ingest.c:477`) is not a step of its
own; an output that is not active has length 0.

### FramePipeline

`E131Receiver` takes two things for granted: that a complete sweep overwrites the
whole staging buffer, and that a commit fails only for reasons of the PL. This
module looks at both, word by word. `Lit` is the set of words with a pixel, and
`LinearIndex` the place of a word in the linear map, so that `Covered` is the set
of words one packet overwrites. Universes, first pixels and expected slots are
computed as the parser and the receiver compute them, each on its own.

`Commit` is `frame_pipeline_commit` with all of `pl_ingest_write_frame_strands`
in one step: `Written` is the bank after the words of the lit pixels, `ReadBackGood`
the comparison of the first and the last word, and its disjuncts are no free
bank, an error found at the start, a failed read-back, and a frame taken; in the
last the consumer may raise an error before the second snapshot, and the frame is
then reported as failed although it was taken. One step is enough because the
processor is single threaded and the consumer changes neither banks nor words;
when the PL gives which answer is `FrameHandoff`'s subject.

`DataPacket`, `SyncPacket`, `BlackOut` and `RejectedTakeOver` are the receiver's
handlers as far as they touch the sweep and the buffers; sources, priorities and
time are `E131Receiver`'s. `Configure` is `frame_pipeline_configure`: the black
frame of the old shape first when pixels are given up, and no change without it.
`Reconfigures` tells whether it is called; `main` does not. `shown` and `fresh` are
history: the shape of the active bank's frame, and the words staged in this sweep.

A word holds where its slots came from (sender, universe, place in the universe),
`Black`, or `Junk` left from the self test or an earlier run. The color bytes are not
modelled, nor the early returns for null pointers.

### Ws281xConsumer

Every step is one clock cycle. `tx` and `rd` are the two state registers; an
action is one state of the transmit machine, conjoined with `Read`, the cycle of
the read machine, wherever both run (TX_LOAD_FIRST, TX_SEND, TX_RESET). `ReadPort`
is the memory's side of the same cycle: an address is accepted and answered in
the next cycle, so address and data are taken together and RD_DATA is never
entered. In the cycle in which a pixel ends, the transmit machine copies `next`
to `current` and restarts the scan.

A word of memory is named by its address, a pixel register together with its bit
of the active mask is one value (`Quiet` when the bit is clear), and the bit and
cycle counters are one counter of the cycles of a pixel: the shape of a bit
(WS_T0H, WS_T1H) and the inversion mask change nothing in the control. Outputs
from the active count on have length 0. The captured bank and lengths and the
number of committed words are inputs: where they come from is `FrameHandoff`'s
subject, which in turn sees TX_LOAD_FIRST, TX_SEND and TX_RESET as one state.

`InTime` is the condition on the durations: four cycles per output and two more
within a pixel. In this hardware a pixel lasts 24 bits of 125 cycles, 3000, and 30
outputs need 122. Nor can a read fail here: `axil_frame_ram.v` ties `rd_rresp` to 0.
`ReadErrors`, and `FrameHandoff`'s `ReadFault`, are the branches the consumer has for a
memory that answers with an error (`ws281x_frame_consumer.sv:287`) or too late; runs
with them show what the RTL does then, not a hazard of this design.

`StrandSpec` is the refinement of `StrandFrame`, whose `Finish` demands that no
strand has another pixel. It needs the memory not to fail; with errors the frame
is given up in the middle, and `LineRight` and `FrameEnds` say what remains.

### E131Sender and SenderToBoard

One action per statement of `main` that somebody else can see: `StartSweep` and
`Finish` (the while condition), `SendData` and `CountData` (`sendto`, and the
counters after it), `EndSweep`, `SendSync` and `CountSync`, `Pace`, `Wake`;
`Interrupt` is Ctrl+C, `Tick` the clock, which may advance between any two of
them. A packet is kept with the fields the board looks at; `ParsesAsData`,
`ParsesAsSync` and `SlotsExpected` are the board's tests of them, written from
`e131_parser.c` and `e131_receiver.c` with their own arithmetic, so that
`PacketsAccepted` compares two derivations of the same numbers. Colors are
functions of the pattern, the pixel and the frame (`RgbForPixel`).

`SenderToBoard` adds a network that loses, doubles and delays a bounded number
of packets (`faults`), and the assembler of a board that hears only this sender:
sequence numbers per universe, bitmap, waiting for sync, refused commits,
blackouts. A universe's words are known by the number of their frame. `hurt`
is history: the frames that lost a packet.

### BenchCell

`pc` is the main thread's place in the protocol of a cell: start the capture,
program the board, wait for its configuration line (`WaitConfig`), wait for a
status without packets (`WaitBaseline`), empty the queue, send, wait for a status
that counts everything (`WaitAfter`), read a snapshot, write the row. `ReadLine`
and `PutLine` are the two statements of the reader thread with the main thread in
between: a line is first in `lines`, then in `queue`. The board prints,
receives, loses packets and may stop for good; the UART (`wire`) is a queue in
which lines of the previous run may still wait. `cell_status_start` is
`statusStart`, and `fresh` says which status lines were printed after everything
was counted. Every command may fail (`CommandFails`), which ends the run, or never
end (`WaitsForCommand`). The port being pulled out during a cell is not modelled. `RowCountsCell` asks nothing of
the application that printed the baseline: see the limits below.

`CellVerdict` judges every combination of rates, lengths and counters around the
thresholds of both tools. `SerialPorts` lets ports be plugged, unplugged, taken
and released between the listing and the opening, and two tools look for one at
the same time.

### XsdbRun

`pc` is where the wrapper is: waiting for the port of its server, about to start
xsdb, reading its output, cleaning up. Servers and xsdb of all runs are processes
that start to listen, print, exit and die at their own time; `windows` says
whether stopping a process is immediate and stale ones are killed first. An
error line is on its way (`pipe`) until the wrapper reads it. xsdb may also never
end. The run's own server may still be starting when another run's answers the probe.

### RegArtifacts, PlContract, SsotScan

A derived file is known by the values and the register map it was derived from
and by whether it is whole. `Start`, `Read`, `Header`, `Regblock`, `Emit`, `Html`
are the generator's steps into its temporary directory, each reading the
description anew as the code does; `Copy`, `ClearRtl`, `CopyRtl`, `DropDocs`,
`CopyDocs` replace the files one by one, `Compare` is the freshness check, `Ssot`
the comparison of the configurations. `ClearRtl` unlinks the old files in one step,
the code one by one (`generate_regs.py:377`). `Edit` and `Meddle` change the description
and derived files at any time, `Interrupt` stops the generator and may leave the
file it was writing cut off. `quiet` says that nobody edited since the start.

`PlContract` computes the derived sizes and widths from the parameters and keeps
the order of the requirements. `SsotScan` knows a line by what the scan's
expressions see in it.

### VitisBuild and ProfileCampaign

Times are values of a logical clock. `Make` asks for a goal; the freshness check,
`HwStale`, `StampStale`, `BootStale` decide as make's rules do; `NewWorkspace`,
`Patch`, `Build`, `ImportFiles`, `Touch` are the steps of `create_app_vitis.py`
and the touch of the stamp after it; each tool may fail, and what it built stays. `Newest`
is the choice by time of `package_boot.py` and `run_controller.tcl`. A build is
known by the versions of what was read for it, and `fooled` collects the inputs
edited after a tool had read them. Edits change files; a source that is deleted or
added, which the `$(wildcard)` of `Makefile:116` sees or does not see on its own terms, is not
among them, nor is an output that a failing tool leaves half written.

`ProfileCampaign` takes from it that a build without a stamp follows the
environment. `NextCandidate` deletes the stamp, `BuildCandidate` or `BuildFails`,
`RunCell`, `BuildDefaults`, `SweepCell`, `WriteReport`; any command may raise.

## Runs

| Run | Instance | What it shows |
|---|---|---|
| `rx_ring` | 3 slots, counters modulo 4; in a poll loop of 2 rounds of 1 packet, at most 2 datagrams a round, polls 0 or 1 apart, timeout 2, clock modulo 4; and alone, its calls in any order | the reservation never touches a waiting packet, refinement of the FIFO, stamps no older than the budget allows and blackouts near the timeout; head, tail, counters and clock all wrap, and the ring stays full over polls |
| `e131_receiver` | 2 sources, priorities 1 and 2, 2 sync addresses and none, 2 universes, timeout 2, gaps of 1 or 2, clock modulo 5 | whole frames, sync only on sync, black strands and a free lock in time (but for a refused black frame) and not early; take-over, address change, wrap of the clock and every commit result occur |
| `handoff` | 2 outputs of up to 2 pixels, fixed lengths 1 and 1, one wait try, `PsGap` 3, sequence numbers modulo 4 | whole frames, no skipped frame, every frame sent |
| `handoff_faults` | as above, three configurations and read faults | no overlap and no rejected commit in spite of both; errors stop later frames |
| `pipeline` | 3 outputs of up to 2 pixels, 2 pixels in a universe, six fixed shapes: oversized lengths and count, an empty strand first, in the middle and last, none lit | sweeps without gaps, every pixel in its place |
| `pipeline_config` | 2 outputs of 1 pixel, one pixel in a universe, three shapes, changed at any time | buffers follow the banks, no failure without an error, pixels given up are dark |
| `pipeline_blackout` | 2 outputs of up to 2 pixels, a shape with an empty first strand | violation: see findings |
| `consumer` | 3 outputs of up to 3 pixels, every combination of lengths, both banks, a pixel of 14 cycles (the least `InTime` allows), no read errors | no late pixel, refinement of the strands' view |
| `consumer_errors` | 2 outputs of up to 3 pixels, a pixel of 7 cycles (too short when both strands are lit), read errors | strands show only their own words, reads only of lit pixels, every frame ends |
| `sender_to_board` | 72 command lines alone (4 or 5 pixels of 2 in a universe; a universe count derived, too small, too large; by count, by time, without end; with and without sync, paced or not) with the clock to tick 4; 5 command lines with network and board, 3 frames, one loss, one duplicate, one overtaking, one blackout, one refused commit; sequence numbers modulo 4 | packets the board accepts, whole sweeps, the schedule; what faults do to the frames; sync stops a loss from spreading |
| `bench_tools` | two cells of one length, one packet and one status before and after; two runs of the wrapper; three ports of which two look right, the third there at first, two tools, one change; verdicts at 4 rates, 2 lengths and counters around every threshold | rows of their own cell, a clean success, the right port, agreeing verdicts, nothing but a child of its own holds a tool up |
| `build_tools` | two descriptions, 2 edits, 1 interruption; contracts at and around the powers of two; repositories of up to 2 files of up to 1 line; 2 makes with 1 edit; 2 candidates in either order, one alone, one that does not exist | what is written, accepted, built and reported is of the sources it is said to be of |

Most properties of the last three runs are conjunctions of the parts named in the
modules, one conjunction per question; each part was also broken on its own, by a
defect of the code it is about.

The bounds: two sources and two addresses give every pair that can be mixed up;
a third would repeat one of the two roles (holder, other). Two universes are the
least for an incomplete sweep. With `PsGap = OutputCount + 1` the timing is as
tight as the assumption allows; a larger gap has fewer interleavings. The
numbers wrap several times in each run. Three pixels are the least with a
prefetch that follows a prefetch; three outputs the least with a skipped strand
between two lit ones. In `pipeline` the shapes give up to three universes with a
last one that is full or short, and universes that end inside a strand or at its end. The
three shapes of `pipeline_config` are the least with an output given up, a strand
shortened and a growth. One fault of each kind shows how faults combine, and
`TornByFewSweeps` counts them; two cells of one length are those whose lines can
be mistaken for each other; two runs of the wrapper are a run and what another
has left behind; three slots and a budget of two leave packets over for the next poll; one interruption is enough because the next run starts from any
files it can leave. The theorems remove the bounds.

### Fairness

`E131Receiver`: the main loop polls for ever and the drain budget (8 rounds of
at most 64 packets) ends each poll, hence weak fairness of `PollStart` and
`PollEnd`; nothing is asked of the senders. `FrameHandoff`: the clock does not
stop (`Tick`) and a transmission has a fixed length (`SendDone`); nothing is
asked of the processor, which may never start another frame. `Ws281xConsumer`:
the clock does not stop while a frame is on its way (`Busy`); frames need not come.
`E131Sender`: the interpreter runs `main` and time passes. `BenchCell`: the host's
two threads run, their deadlines pass, packets arrive or are lost and the board
prints until it stops for good. The commands of a cell (programming over JTAG, the sender,
the snapshot) need not end: `subprocess.run` has no timeout there
(`e131_benchmark.py:268`), so the main thread is fair only while it does not wait for
one. `XsdbRun`: the wrapper runs, its deadline for the port among its steps; xsdb need
not end, and `run_xsdb_checked.py:107` has no limit for it. `SerialPorts`: a tool runs
on, and ends when its port is pulled out. Hence `ToolsEnd` says: a tool that never
ends waits for ever for a command it has started.

### Findings

* `pipeline_blackout`: `README.md:10` promises runtime strand sizing. The read-back
  of word 0 (`pl_ingest.c:443`) compares a word that is not written when the first
  strand is empty and another is lit, and gives up good frames, for good. It needs
  `frame_pipeline_configure`, which the shipped `main` does not call, or such
  lengths set before boot.

### Disagreements and limits the models show

Statements of the documents that the code does not keep, and cases in which a
property holds only under the condition it states. The first three are found by TLC
as described and have no run of their own.

* `frame_pipeline_configure` writes the length registers without a new frame when
  strands only grow, and TX_VALIDATE (`ws281x_frame_consumer.sv:226`) compares only
  totals. If a strand other than the last grows while a committed frame waits to be
  captured, words are sent that were never written for it, although
  `docs/developer-notes.md:80` says the consumer reads only committed frames
  (`WholeFrames` with the constants of `MCFrameHandoffFaults.cfg` and `ReadFaults` FALSE).
* The receiver keeps its sweep across `frame_pipeline_configure`
  (`frame_pipeline.c:197`): a synchronized frame complete for the old strands is
  committed with the new ones, whose added pixels were never received
  (`PixelsInPlace` with the constants of `MCFramePipelineConfig.cfg`).
* CONSUMER_SEQUENCE is called the last sequence fully consumed
  (`hw/regs/pl_control.rdl:225`); a frame refused in TX_VALIDATE sets it too
  (`ws281x_frame_consumer.sv:239`).
* Without sync packets, the loss of one universe (not the last) tears this and all
  later frames into halves of two sweeps, and no counter shows it: the bitmap is full
  when the next sweep's first universe arrives. `SyncShowsWholeSweep` says that sync
  packets stop that. `--sync-address` without `--send-sync` leaves the board waiting
  for ever (`SyncsItself`).
* Lines of the previous application that wait in the UART count for the new cell; if
  the board then dies, a cell may be built on them. Hence `board = "run"` in
  `AfterIsThisCells` and `alive` in `RowCountsCell`. Even while the board runs the
  baseline may be a line of the previous application, still in the queue, if that one
  had received nothing either: `wait_for` takes what is queued from before
  `cell_status_start` too (`e131_benchmark.py:236`), and TLC refutes
  `cell.before.app = app`. The differences are right all the same, because a line
  without packets counts nothing. `--skip-sanity-cell` also drops a
  (50, 30) cell that was asked for (`e131_benchmark.py:366`).
* The two judgements of a cell differ: oversized packets break a cell of the
  benchmark only; dropped frames and incomplete sweeps fail a cell of the profile,
  which `docs/performance.md:72-79` does not list. The difference of the maximum
  `ps_write_max_us` hides a slow write when an earlier one was slower
  (`e131_benchmark.py:152`).
* `run_xsdb_checked.py:93` returns before its `try`: the server stays. Elsewhere than
  on Windows the next run's probe may be answered by it, which is why
  `TalksToOwnServer` says `windows`. A hanging xsdb is never stopped, and holds the
  benchmark that waits for the wrapper.
* A blackout that the PL refuses is not tried again: the strands stay lit with nobody
  holding the lock, until a frame comes (`refused`).
* An edit of the description while `make regs` runs mixes two descriptions in the
  output: the conditions `quiet`. `ssot_check` never compares the RTL package, which
  only `regs-check` does. An interrupted copy of `pl_config.py` breaks every
  command of `make_helpers.py`, which imports it.
* `pl_config.h` is no prerequisite of the software's stamp; an edit during a build is
  masked by the touch at its end (`fooled`). A candidate's build leaves a fresh stamp
  that `make boot` then packages, and settings in the caller's environment leak into
  the "default" build (`leaked`).
* `ssot_check` ignores values up to 16 (`ssot_check.py:244`) and lines that name any
  generated constant; `CopiesElsewhereFail` states exactly what it does find.
* The generator accepts one or three banks, but the consumer uses bit 0 of the bank
  (`BanksAddressable` speaks of two or more); it requires neither the default strand
  length nor the default count to be within the synthesized sizes, and does not
  compare the apertures with each other.
* On systems where a second opening of a serial port succeeds, `make logs` and the
  benchmark share the lines between them.

## Proofs

* `RxPacketRingProofs`: the invariant is `TypeOK`, `RingShape` and
  `ReservationSafe` together (a dequeue must not disturb the reserved slot, a
  commit must not disturb the queued ones). Each operation is then shown to
  change the sequence of waiting packets as the FIFO's action does, which gives
  `Spec => FifoSpec`. `PollUsesRing` carries all of it over to the poll loop. For
  `BacklogIsTimely` the invariant bounds the place of every waiting packet by its age
  (`AgesBounded`): one that is older than a polls had the budgets of a polls, and what
  this poll has spent so far (`Done`), taken out in front of it, or it would be gone.
  `ShowInTime` then compares the time the code measures with the true one.
* `E131ReceiverProofs`: `WholeFrames` is not inductive, because it says nothing
  of the staging buffer; with `SweepOwned` it is. The two timing properties
  follow from an invariant that equates the wrapping clock difference with the
  true time as long as the latter is below the timeout plus one gap, and
  `BlackoutInTime` also from `FreeIsDark`: whoever releases the lock has shown black or
  was refused.
* `FrameHandoffProofs`: `Handing` is the strengthening of `NoOverlap`.
  `ScanTime` is its heart: if the captured bank is not the active one any more
  but is not shown yet, the commit that made it so is at most as old as the
  scan, so no snapshot fits in between. `BusyShown` relates BUSY_BANK to the
  state, `Captured` the sequence numbers, `Writing` the processor's locals.
  `NoFrameSkipped` needs `Following` (when the consumer is idle and the processor
  is past its look, the consumer is up to date after one cycle) and no read
  faults. `WholeFrames` and `NeverFails` are proved for a single
  configuration (`OneConfig`), which is necessary (see the disagreements).
  That a frame's words fit into a bank needs a greatest lit strand; its
  existence is derived from the well-foundedness of strict inclusion.
* `FramePipelineProofs`: `SweepCovers` follows from `SweptBy` (the universes received
  are those of the frame, are counted once, and all words of each are fresh) and
  `CoveredByUniverse`: with k pixels in a universe, the word with linear index i is
  covered by universe i div k, whose expected slots reach it. It holds while the
  configuration stays (see the disagreements for what happens otherwise).
  `FailsOnlyOnError` needs that no shape has an empty first strand
  (`pipeline_blackout`). `BuffersFollowBanks` and `GivenUpDark` hold for all shapes and
  changes; the first is inductive with `TypeOK`, commit by commit. `PixelsInPlace`
  holds while the configuration stays, by `PlaceInv`: the words staged in this sweep
  are in their place, a sweep that waits for its sync packet is whole, and so is the
  frame on the strands. The place of a word in the stream is a sum over the outputs
  before its own, a recursive function; `PixelsBeforeIs` shows that it counts the lit
  words before it: the count satisfies the equation of the sum, and a least output at
  which two solutions differ leads to a contradiction.
* `Ws281xConsumerProofs`: the invariant follows the prefetch. `Reading` says what
  the read machine has collected (the pixel of all outputs below the scan),
  `Loading` and `Sending` in which buffer and for which pixel, `Scanned` what
  TX_COMPUTE_CONFIG knows. `LineRight` alone is not inductive: the pixel that is
  right now was collected in `next` during the pixel before. `Deadline` bounds
  the cycle of the pixel by the position of the scan and gives `NeverGivenUp`
  from `InTime`; with it each step is a step of `StrandFrame` or a stutter, which
  gives `Spec => StrandSpec`.

* `SenderToBoardProofs`: the sender alone first. Its invariant has four parts beside
  the types. `WireOK`: what
  is on the wire passes the board's tests; it rests on `SlotsOfPixels`, that the slots
  of a universe are three times its pixels, and on `Ceiling`, that rounding up gives
  the number of universes the board counts. `Swept`: the pixels sent so far are the
  first `Progress(offset)` pixels in order; a universe continues them where the last
  ended. `Counted`: the count is one behind between two statements. `Scheduled`: the
  next due time is frame times delay until the run is over; `NeverEarly` alone is not
  inductive, because what main compares is the end of its sleep. Then the whole
  system, for any number of universes and faults; `SystemInv` is made of these.
  `InStep`: on a healthy network board, wire and sender follow one another without a
  gap; the board has exactly the universes before the first packet on the wire, each
  packet is the successor of the one before it, and the sender's place that of the
  last. This is what gives `CleanNetwork` and `LastFrameShown`. `Silent`: a preview or
  terminated stream never shows anything. `SyncInv`: until the sync packet of an unhurt
  sweep is handled, each of its universes is still on the wire before it or marked by
  it (`Settled`), for the sweeps already sent and the one under way alike.
  `Torn`: let a place be a frame and a position in it. Everything before a place is
  handled or missed, and for a word of frame s that is there and a universe that is
  missing, `Debt` counts the packets of these two universes between s and the place:
  all of them were missed, so the debt is at most the number of faults. Handling a
  packet raises the place and cancels a debt, a fault raises the bound; when the frame
  is complete the debt of its last universe is the spread of its words.
* `BenchToolsProofs`, the wrapper: `Noticed` says that while the output is read nothing
  the current xsdb did is missed, and `Servers` whose servers may be left; with
  `RunsWhileRead`, `Later`, `Unfinished` and `Bad` (what has not begun has left no
  trace) they are inductive, for any number of runs. The search: `PortInv` has one
  part for each place of a tool in it, and none mentions the other tool except through
  the ports taken. The verdicts: `VerdictIsSound` is inductive; the work is in the
  arithmetic of the thresholds. The cells: `LinesAreTrue` (every line, on the wire, in
  the thread's hands, in the queue or kept, says what some board counted),
  `LinesInOrder` and `OldLines` (the lines of the previous board come first),
  `FoundConfig` and `OwnBoard` (the configuration line found is the programmed board's
  as long as it lives), `Counts` and `FreshLines` (counters only grow; a line that
  counts everything was printed after it), `AfterStatus`, `RowsSoFar`. None of it is
  inductive alone: a row is right because of a line that was still on the wire several
  steps before. `StableMeansClean` allows one missing
  packet in a hundred, as the code does; in the instance, with one packet, that
  means none, so that the thresholds of 99 and 95 % are the theorem's and, for the
  verdict alone, `CellVerdict`'s.
* `BuildToolsProofs`, the generator: `TmpCurrent` and `DiskCurrent` say of each step
  which files are derived and copied by then, and that they are of the
  description on disk as long as nobody edits it; `SoundCurrent` that nothing disturbs
  the files of a finished regeneration. The properties of the three commands follow
  at their last steps, for any set of configurations, edits and interruptions. The
  contract: the requirements accepted bound the sizes; that `ceil_log2` is the least
  sufficient width comes from a least-number argument (`LeastWidth`, `WidthFits`). The
  scan: what of the current file is found by then (`InFile`), and of those before
  (`AllFound`), for any repository. The build: `BuildInv` says in which order the
  outcomes of a make stand (`Times`, `Versions`, `InOrder`), what is under way at each
  stage (`Underway`, `WholeApps`, `Hardware`, `Software`, `BootFiles`) and what nobody
  disturbed (`Undisturbed`); the finished goal is then of the newest sources or named
  in `fooled`. The campaign: `CampaignInv` follows the rows and the build installed on
  the board (`Installed`, `RowsTrue`, `InCells`, `AllHaveRows`, `InSweep`).
  `StepsOfBuildTools` and its counterpart keep the tools apart: a step of one leaves
  the variables of the others alone.

The type invariants of the modules, `RingShape` of the ring, `SweepOwned` of the
assembler, `Longest` and `NeverFails` are proved; no run repeats them.

The proofs assume the named ASSUMEs of the modules and nothing else: sizes are
positive, a universe is a whole number of pixels, the timeout plus one poll gap is
below the clock's modulus and above the age of a backlog, a round takes out no more
than the ring holds, a snapshot takes longer than the scan, a configuration is
a function. The constants of the tools are what a command line, a serial port or a repository can
hold: numbers are natural, the ports are finitely many, lists are sequences.
`NeverGivenUpHolds` and `StrandRefinement` state their two conditions,
`InTime` and no read errors, in the theorem, as do `SweepCoversHolds`,
`PixelsInPlaceHolds` (the configuration stays) and `FailsOnlyOnErrorHolds`.

Only model-checked: liveness (`LockExpires`, `FrameEventuallySent`, `FrameEnds`,
`Finishes` within `Punctual`, `ToolsEnd`), which needs fairness and ENABLED; the provers handle
neither. Of `TornByFewSweeps` the case of a packet that overtakes another: the theorem
covers losses, duplicates, refused commits and blackouts in any number, the run one of
each and one overtaking; with overtaking the wire is no longer in the order of sending,
which is what a place in that order means.

## Not modelled

The constant bytes of E1.31 packets in the parser, which is a pure function (a
packet is well-formed or it is not); the handshakes of the frame memory's processor port; the
level of the strands within a bit; the wiring in `ws281x_controller_core.v`; the
text of generated code (`hw/rtl/generated`, `ps/app/pl_control.h`, generated
configuration headers); what the Tcl scripts do inside Vivado and xsdb; cleaning and
the search for installed tools in `make_helpers.py`; `ps/app/app_config.c`, which only
holds constants; the UART status report but for the lines the benchmark reads; the
layout of tables and reports.

## Plan

Done, first what shows wrong pixels: `RxPacketRing`, `EthernetPoll`, `E131Receiver`, `FrameHandoff`,
`Ws281xConsumer`, `FramePipeline`; then what feeds, measures and builds the
controller: `E131Sender`, `SenderToBoard`, `BenchCell`, `CellVerdict`, `SerialPorts`,
`XsdbRun`, `RegArtifacts`, `PlContract`, `SsotScan`, `VitisBuild`, `ProfileCampaign`.
Every invariant and action property a run checks is proved, `TornByFewSweeps` but for
overtaking packets. What could follow:

1. Whether a blackout whose commit fails should be tried again
   (`e131_receiver.c:168`), and whether the black frame of a shrinking configuration
   is sent before the new lengths take effect (`frame_pipeline.c:193`).
2. The write and read handshakes of `axil_frame_ram.v` as a refinement of a memory
   with atomic words; the register block with commands in the same cycle.
3. A mailbox of frames as the abstract specification of `FrameHandoff`.
4. `TornByFewSweeps` with overtaking packets: a debt per packet still on the wire.

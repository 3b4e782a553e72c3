------------------------------- MODULE BenchCell -------------------------------
(***************************************************************************)
(* The throughput benchmark of ps/tools/e131_benchmark.py: a list of cells *)
(* (pixels per output, frame rate), and for each cell the same protocol    *)
(* with a live board:                                                      *)
(*                                                                         *)
(*   programme the board over JTAG (run_controller.tcl), wait on the UART  *)
(*   for the strand_config line, take a baseline status with no packet in  *)
(*   it, run the sender, wait for a status that counts every packet, read  *)
(*   a snapshot over JTAG, and write the row.                              *)
(*                                                                         *)
(* Four activities run concurrently: the application on the board, the     *)
(* UART, the thread of SerialCapture that reads it, and the main thread.   *)
(* ps/tools/e131_ingress_profile.py runs its cells by the same protocol    *)
(* (run_cell).                                                             *)
(***************************************************************************)
EXTENDS Integers, Sequences, SequencesExt

CONSTANTS
    Matrix,         \* MATRIX: the rates of each number of pixels
    MatrixKeys,     \* the keys of MATRIX in their order
    Sanity,         \* the sanity cell, <<50, 30>>
    CommandLines,   \* the command lines considered
    OldPixels,      \* the configurations the board may have been left in
    OldCounts,      \* how many packets it may have counted
    MaxSent,        \* bound: packets one run of the sender sends
    MaxStatus,      \* bound: status lines a run of the application prints
                    \* until the sender ends, and from then on
    WireCap         \* bound: lines on their way from the board to the reader

ASSUME BenchAssumption ==
    /\ MaxSent \in Nat
    /\ OldPixels \subseteq Int
    /\ OldCounts \subseteq Nat
    /\ MaxStatus \in Nat \ {0}
    /\ WireCap \in Nat \ {0}
    /\ \A i \in DOMAIN MatrixKeys : MatrixKeys[i] \in DOMAIN Matrix

VARIABLES
    args,           \* the command line
    pc,             \* what the main thread is at
    index,          \* the cell it is at, 0 before the first
    cell,           \* that cell's locals: cell_status_start, before, after,
                    \* latest, and the packets its sender has sent
    rows,           \* the cells that have a row
    row,            \* the last row written
    failed,         \* an exception has left the loop
    app,            \* which run of the application the board is in
    board,          \* what that run is at
    boardPixels,    \* its configuration
    rx, errors,     \* its counters: packets, and those that were a hard error
    net,            \* packets on their way to it
    printed,        \* status lines printed, as MaxStatus counts them
    wire,           \* UART lines on their way
    lines,          \* SerialCapture.lines from this cell's uart_start on: the
                    \* cell never looks at an earlier one
    queue,          \* SerialCapture._queue, of lines whenever read
    hand,           \* the line the reader thread is at
    reader,         \* what the reader thread is at
    stopping        \* SerialCapture._stop

runVars   == <<args, index, rows, row, failed, stopping>>
mainVars  == <<runVars, pc, cell>>
boardVars == <<app, board, boardPixels, rx, errors>>
threadVars == <<wire, hand, reader>>
uartVars  == <<threadVars, lines, queue>>
outside   == <<boardVars, net, printed, uartVars>>
vars == <<mainVars, outside>>

----------------------------------------------------------------------------
(* The cells.                                                              *)

Rates(a, pixels) == IF a.rates # <<>> THEN a.rates ELSE Matrix[pixels]

\* The cells a command line asks for: its pixels (or the matrix) at its rates.
Requested(a) ==
    LET selected == IF a.pixels # <<>> THEN a.pixels ELSE MatrixKeys
    IN  IF a.sanityOnly THEN <<>>
        ELSE FlattenSeq([i \in DOMAIN selected |->
               [j \in DOMAIN Rates(a, selected[i]) |->
                   <<selected[i], Rates(a, selected[i])[j]>>]])

\* The cells that are run: the sanity cell first, and never a second time.
Cells(a) ==
    (IF a.skipSanityCell THEN <<>> ELSE <<Sanity>>)
        \o SelectSeq(Requested(a), LAMBDA c : c # Sanity)

Pixels == Cells(args)[index][1]

----------------------------------------------------------------------------
(* The lines of the UART.  A status line carries the counters; "fresh"     *)
(* says that its printing began after the sender's last packet had come.   *)

None == [kind |-> "none", app |-> 0, pixels |-> 0, rx |-> 0, errors |-> 0,
         fresh |-> FALSE]

ConfigLine ==
    [None EXCEPT !.kind = "config", !.app = app, !.pixels = boardPixels]

StatusLine ==
    [None EXCEPT !.kind = "status", !.app = app, !.rx = rx,
                 !.errors = errors, !.fresh = (pc = "after" /\ net = 0)]

IsConfig(line) == line.kind = "config" /\ line.pixels = Pixels
IsStatus(line) == line.kind = "status"
IsBaseline(line) == IsStatus(line) /\ line.rx = 0

\* SerialCapture.latest_status
LatestStatus ==
    LET found == {i \in cell.statusStart + 1 .. Len(lines) : IsStatus(lines[i])}
    IN  IF found = {} THEN None ELSE lines[Max(found)]

----------------------------------------------------------------------------
(* The verdict on a row.  A row holds the packets sent, and what the       *)
(* counters grew by between "before" and "after"; a packet that is not a   *)
(* hard error is part of a committed frame.                                *)

DiffStatus(b, a) == [rx |-> a.rx - b.rx, errors |-> a.errors - b.errors]

Classify(sent, delta) ==
    LET committed == delta.rx - delta.errors
    IN  IF delta.errors = 0 /\ committed * 100 >= sent * 99 THEN "stable"
        ELSE IF delta.errors <= 1 /\ committed * 100 >= sent * 95
             THEN "marginal"
        ELSE "broken"

----------------------------------------------------------------------------
NoCell == [statusStart |-> 0, before |-> None, after |-> None,
           latest |-> None, sent |-> 0]

NoRow == [sent |-> 0, delta |-> DiffStatus(None, None), class |-> "none",
          got |-> 0, bad |-> 0, alive |-> FALSE]

Init ==
    /\ args \in CommandLines
    /\ pc = "next"
    /\ index = 0
    /\ cell = NoCell
    /\ rows = <<>>
    /\ row = NoRow
    /\ failed = FALSE
    /\ app = 0
    /\ board \in {"boot", "run"}
    /\ boardPixels \in OldPixels
    /\ rx \in OldCounts \cup {0}
    /\ board = "boot" => rx = 0
    /\ errors = 0
    /\ net = 0
    /\ printed = 0
    /\ wire = <<>>
    /\ lines = <<>>
    /\ queue = <<>>
    /\ hand = None
    /\ reader = "read"
    /\ stopping = FALSE

----------------------------------------------------------------------------
(* The board (ps/app/main.c): strand_config once at the start, then a      *)
(* status every second; it may also end in fatal, or hang.                 *)

Prints(line) ==
    /\ Len(wire) < WireCap
    /\ wire' = Append(wire, line)
    /\ UNCHANGED <<mainVars, app, boardPixels, rx, errors, net, lines, queue,
                   hand, reader>>

BoardPrintsConfig ==
    /\ board = "boot"
    /\ board' = "run"
    /\ Prints(ConfigLine)
    /\ UNCHANGED printed

BoardPrintsStatus ==
    /\ board = "run"
    /\ printed < IF pc = "after" /\ net > 0 THEN MaxStatus - 1 ELSE MaxStatus
    /\ printed' = printed + 1
    /\ Prints(StatusLine)
    /\ UNCHANGED board

BoardStops ==
    /\ board \in {"boot", "run"}
    /\ board' = "dead"
    /\ UNCHANGED <<mainVars, app, boardPixels, rx, errors, net, printed,
                   uartVars>>

\* A packet arrives: part of a frame, or counted as a hard error as well.
BoardReceives ==
    /\ net > 0
    /\ board = "run"
    /\ net' = net - 1
    /\ rx' = rx + 1
    /\ \E bad \in {0, 1} : errors' = errors + bad
    /\ UNCHANGED <<mainVars, app, board, boardPixels, printed, uartVars>>

PacketLost ==
    /\ net > 0
    /\ net' = net - 1
    /\ UNCHANGED <<mainVars, boardVars, printed, uartVars>>

----------------------------------------------------------------------------
(* The reader thread.  A line is appended to "lines" before it is queued,  *)
(* and the main thread may look in between.                                *)

ReadLine ==
    /\ reader = "read"
    /\ ~stopping
    /\ wire # <<>>
    /\ hand' = Head(wire)
    /\ lines' = Append(lines, Head(wire))
    /\ wire' = Tail(wire)
    /\ reader' = "put"
    /\ UNCHANGED <<mainVars, boardVars, net, printed, queue>>

PutLine ==
    /\ reader = "put"
    /\ queue' = Append(queue, hand)
    /\ hand' = None
    /\ reader' = "read"
    /\ UNCHANGED <<mainVars, boardVars, net, printed, wire, lines>>

ReaderEnds ==
    /\ reader = "read"
    /\ stopping
    /\ reader' = "ended"
    /\ UNCHANGED <<mainVars, boardVars, net, printed, wire, lines, queue,
                   hand>>

----------------------------------------------------------------------------
(* The main thread.                                                        *)

StartCell ==
    /\ pc = "next"
    /\ index < Len(Cells(args))
    /\ index' = index + 1
    /\ cell' = NoCell
    /\ lines' = <<>>
    /\ pc' = "drain"
    /\ UNCHANGED <<args, rows, row, failed, stopping, boardVars, net, printed,
                   threadVars, queue>>

\* drain_pending: get_nowait until the queue is empty.
Drain(step, then) ==
    /\ pc = step
    /\ pc' = IF queue = <<>> THEN then ELSE step
    /\ queue' = IF queue = <<>> THEN queue ELSE Tail(queue)
    /\ UNCHANGED <<runVars, cell, boardVars, net, printed, threadVars, lines>>

DrainOld == Drain("drain", "program")

\* run_controller.tcl stops the processor and programmes the FPGA ...
ResetBoard ==
    /\ pc = "program"
    /\ board' = "off"
    /\ pc' = "download"
    /\ UNCHANGED <<runVars, cell, app, boardPixels, rx, errors, net, printed,
                   uartVars>>

\* ... writes this cell's strand configuration, loads and starts the app ...
StartApp ==
    /\ pc = "download"
    /\ app' = app + 1
    /\ board' = "boot"
    /\ boardPixels' = Pixels
    /\ rx' = 0
    /\ errors' = 0
    /\ printed' = 0
    /\ pc' = "running"
    /\ UNCHANGED <<runVars, cell, net, uartVars>>

\* ... and lets it run for five seconds, ample time for its first line and
\* for whatever was printed before the reset to have been read.
FiveSecondsLater ==
    /\ board # "boot"
    /\ \A i \in DOMAIN wire : wire[i].app = app
    /\ reader = "read"
    /\ board = "dead" \/ \E i \in DOMAIN lines :
                            lines[i].app = app /\ lines[i].kind = "config"

JtagRunEnds ==
    /\ pc = "running"
    /\ FiveSecondsLater
    /\ pc' = "config"
    /\ UNCHANGED <<runVars, cell, outside>>

\* An exception leaves the loop for its finally clause.
Fail ==
    /\ failed' = TRUE
    /\ pc' = "stop"
    /\ UNCHANGED <<args, index, rows, row, stopping, cell, outside>>

\* run_checked and run_json wait for a command, without a limit.
WaitsForCommand == pc \in {"program", "download", "running", "send", "snapshot"}

\* They raise when it fails.
CommandFails == WaitsForCommand /\ Fail

\* wait_for looks at the lines read so far, from "start" on, and then takes
\* what the reader queues, wherever it was read.
WaitFor(scan, take, start, Matches(_), Found(_), then) ==
    /\ \/ /\ pc = scan
          /\ LET hits == {i \in start + 1 .. Len(lines) : Matches(lines[i])}
             IN  \/ hits = {} /\ pc' = take /\ cell' = cell
                 \/ \E i \in hits : /\ \A j \in hits : i <= j
                                    /\ pc' = then /\ cell' = Found(lines[i])
          /\ UNCHANGED queue
       \/ /\ pc = take
          /\ queue # <<>>
          /\ queue' = Tail(queue)
          /\ IF Matches(Head(queue))
             THEN pc' = then /\ cell' = Found(Head(queue))
             ELSE pc' = take /\ cell' = cell
    /\ UNCHANGED <<runVars, boardVars, net, printed, threadVars, lines>>

WaitConfig ==
    WaitFor("config", "configQueue", 0, IsConfig, LAMBDA line : cell, "mark")

\* cell_status_start = max(0, len(capture.lines) - 1)
MarkStatusStart ==
    /\ pc = "mark"
    /\ cell' = [cell EXCEPT !.statusStart =
                                IF lines = <<>> THEN 0 ELSE Len(lines) - 1]
    /\ pc' = "baseline"
    /\ UNCHANGED <<runVars, outside>>

WaitBaseline ==
    WaitFor("baseline", "baselineQueue", cell.statusStart, IsBaseline,
            LAMBDA line : [cell EXCEPT !.before = line], "drainBaseline")

\* TimeoutError: the deadline may pass whatever is still queued.
WaitTimesOut ==
    /\ pc \in {"configQueue", "baselineQueue"}
    /\ Fail

\* Mutant: the queue not drained before the sender starts
NoDrainBaseline ==
    /\ pc = "drainBaseline"
    /\ pc' = "send"
    /\ UNCHANGED <<runVars, cell, outside>>

DrainBaseline == Drain("drainBaseline", "send")

\* The sender process (module E131Sender): packets leave, at least those of
\* one sweep, and it reports how many.
SendPacket ==
    /\ pc = "send"
    /\ cell.sent < MaxSent
    /\ cell' = [cell EXCEPT !.sent = cell.sent + 1]
    /\ net' = net + 1
    /\ UNCHANGED <<runVars, pc, boardVars, printed, uartVars>>

SenderEnds ==
    /\ pc = "send"
    /\ cell.sent > 0
    /\ cell' = [cell EXCEPT !.latest = LatestStatus]
    /\ printed' = 0
    /\ pc' = "after"
    /\ UNCHANGED <<runVars, boardVars, net, uartVars>>

Counted(status) ==
    IsStatus(status) /\ status.rx >= cell.before.rx + cell.sent

GotAfter(status) ==
    /\ cell' = [cell EXCEPT !.after = status]
    /\ pc' = "snapshot"
    /\ UNCHANGED <<runVars, outside>>

\* wait_for_status_counter: return the status that counts them all, ...
AfterCounted ==
    /\ pc = "after"
    /\ Counted(cell.latest)
    /\ GotAfter(cell.latest)

\* ... or take the next queued line, or, when nothing is queued, look at the
\* lines again.
WaitAfter ==
    /\ pc = "after"
    /\ ~Counted(cell.latest)
    /\ IF queue = <<>>
       THEN /\ cell' = [cell EXCEPT !.latest = LatestStatus]
            /\ UNCHANGED queue
       ELSE /\ cell' = IF IsStatus(Head(queue))
                       THEN [cell EXCEPT !.latest = Head(queue)] ELSE cell
            /\ queue' = Tail(queue)
    /\ UNCHANGED <<runVars, pc, boardVars, net, printed, threadVars, lines>>

\* Two and a half seconds are more than two periods of the status line: a
\* running board has printed one that began after the last packet came, and
\* it has been read.
TwoPeriodsLater ==
    /\ net = 0
    /\ \/ board = "dead"
       \/ \E i \in DOMAIN lines : lines[i].app = app /\ lines[i].fresh

AfterTimesOut ==
    /\ pc = "after"
    /\ TwoPeriodsLater
    /\ GotAfter(IF LatestStatus # None THEN LatestStatus ELSE cell.latest)

\* The snapshot has been read: the row is classified and the files are
\* written again with it.  "got", "bad" and "alive" are what the board did.
WriteRow ==
    /\ pc = "snapshot"
    /\ LET delta == DiffStatus(cell.before, cell.after)
       IN  row' = [sent  |-> cell.sent, delta |-> delta,
                   class |-> Classify(cell.sent, delta),
                   got   |-> rx, bad |-> errors, alive |-> board = "run"]
    /\ rows' = Append(rows, Cells(args)[index])
    /\ pc' = "next"
    /\ UNCHANGED <<args, index, failed, stopping, cell, outside>>

CellsDone ==
    /\ pc = "next"
    /\ index = Len(Cells(args))
    /\ pc' = "stop"
    /\ UNCHANGED <<runVars, cell, outside>>

\* SerialCapture.stop: set the event, join for at most a second, close.
StopCapture ==
    /\ pc = "stop"
    /\ stopping' = TRUE
    /\ pc' = "done"
    /\ UNCHANGED <<args, index, rows, row, failed, cell, outside>>

Main ==
    \/ StartCell \/ DrainOld \/ ResetBoard \/ StartApp \/ JtagRunEnds
    \/ CommandFails \/ WaitConfig \/ MarkStatusStart \/ WaitBaseline
    \/ WaitTimesOut \/ DrainBaseline \/ SendPacket \/ SenderEnds
    \/ AfterCounted \/ WaitAfter \/ AfterTimesOut \/ WriteRow \/ CellsDone
    \/ StopCapture

Reader == ReadLine \/ PutLine \/ ReaderEnds

Board ==
    \/ BoardPrintsConfig \/ BoardPrintsStatus \/ BoardStops
    \/ BoardReceives \/ PacketLost

Done == pc = "done" /\ reader = "ended" /\ UNCHANGED vars

Next == Main \/ Reader \/ Board \/ Done

\* The host's threads run while they do not wait for a command, their deadlines
\* pass, and the board prints and receives until it stops.
Fairness ==
    /\ WF_vars(~WaitsForCommand /\ Main)
    /\ WF_vars(AfterTimesOut)
    /\ WF_vars(WaitTimesOut)
    /\ WF_vars(Reader)
    /\ WF_vars(BoardPrintsConfig \/ BoardPrintsStatus)
    /\ WF_vars(BoardReceives \/ PacketLost)

Spec == Init /\ [][Next]_vars /\ Fairness

----------------------------------------------------------------------------
(* Properties.                                                             *)

Lines == [kind : {"none", "config", "status"}, app : Nat, pixels : Int,
          rx : Nat, errors : Nat, fresh : BOOLEAN]

\* Every variable stays in its type.
TypeOK ==
    /\ args \in CommandLines
    /\ pc \in {"next", "drain", "program", "download", "running", "config",
               "configQueue", "mark", "baseline", "baselineQueue",
               "drainBaseline", "send", "after", "snapshot", "stop", "done"}
    /\ index \in 0 .. Len(Cells(args))
    /\ cell \in [statusStart : Nat, before : Lines, after : Lines,
                 latest : Lines, sent : 0 .. MaxSent]
    /\ Len(rows) <= index
    /\ {app, rx, errors, net, printed} \subseteq Nat
    /\ board \in {"off", "boot", "run", "dead"}
    /\ ToSet(lines) \cup ToSet(queue) \cup ToSet(wire) \cup {hand}
           \subseteq Lines
    /\ Len(wire) <= WireCap
    /\ reader \in {"read", "put", "ended"}
    /\ {failed, stopping} \subseteq BOOLEAN

\* While the board lives, the status a cell ends with was printed by the
\* application this very cell started, although lines of an earlier run may
\* still be read and queued in the cell, and may show the same configuration.
AfterIsThisCells ==
    pc = "snapshot" /\ board = "run" => cell.after.app = app

\* A row never claims a packet the board did not count in that cell, and
\* while the board lives it accounts for every one the board received.
RowCountsCell ==
    /\ row.delta.rx \in 0 .. row.got
    /\ row.alive => row.delta.rx = row.got

\* A cell is called stable only when the board received 99 % of what was sent,
\* and a hard error is hidden only in the hundredth that the last status did
\* not count - which takes a board that died before it could print the next.
StableMeansClean ==
    row.class = "stable" =>
        /\ row.got * 100 >= row.sent * 99
        /\ row.bad * 100 <= row.sent
        /\ row.alive => row.bad = 0

\* The files hold one row for each cell, in order; a run that fails leaves
\* the rows of the cells before.
RowsFollowCells ==
    /\ rows = SubSeq(Cells(args), 1, Len(rows))
    /\ pc = "done" /\ ~failed => rows = Cells(args)
================================================================================

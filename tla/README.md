# Formal models of molecube2

molecube2 is the server that drives a pulser (an FPGA with TTL outputs, up to 22
DDS boards, a clock and a DAC). Clients send it sequences and stand-alone commands
over ZeroMQ. This directory holds TLA+ models of its core, the TLC configurations
that check them on small instances, and TLAPS proofs. `PROJECT.json` has, for every
definition that models code, the lines it models.

## 1. The system

| part | state | operations | talks to |
|---|---|---|---|
| `Server` (lib/server.cpp, server/main.cpp) | `m_seq_status` with waiting requests, `m_running` | ZeroMQ requests, poll loop, start-up sequence, stop by SIGINT | `CtrlIFace`, in the main thread; a signal thread calls `stop` |
| `CtrlIFace`, sequences (lib/ctrl_iface.cpp) | `m_seq_queue`, `m_seq_cnt`, an event fd, `m_quit` | `run_code`, `cancel_seq`, `run_frontend`, `quit`; `wait`, `get_seq`, `finish_seq` for the worker | a `FilterQueue` and atomics shared with the worker thread |
| `CtrlIFace`, commands | `m_cmd_queue`, `CmdCache` with callbacks | `set_*`, `get_*`, `reset_dds` | as above |
| `CtrlIFace`, state id | `m_state_cnt`, `m_dirty`, `m_observed`, `m_had_seq` | `get_state_id`, `set_dirty`, `set_observed` | clients that poll |
| `Controller` (lib/controller.cpp) | `m_dds_ovr`, `m_dds_phase`, `m_dds_pending_reset`, `m_cmd_waiting`, `m_ttl` | `worker`, `run_seq`, `process_reqcmd`, `run_cmd`, `check_dds`, `detect_dds`, `sync_ttl`, `concurrent_get/set` | pulser; the frontend for TTL overrides |
| `Controller::Runner` | `m_t`, `m_start_t`, `m_preserve_ttl`, `m_process_cmd`, `m_released` | instructions of a sequence; `wait` runs commands in between | pulser, `process_reqcmd` |
| `Pulser` (lib/pulser.cpp) | none of its own: the FPGA's registers, instruction and result FIFOs, hold | instructions, register reads, detection and initialisation of DDS boards | hardware that outlives the server |
| `DummyPulser` (lib/dummy_pulser.cpp) | command FIFO, results, hold, lock, time of release | the same, in software | both threads |
| names and start-up files (lib/namesconfig.cpp, lib/server.cpp) | `ttl.yaml`, `dds.yaml`, `startup.cmdlist`, `startup.cmdbin`; `m_name_id` | `set_*_names`, `get_*_names`, `name_id`, `set_startup`, `get_startup`, loading | file system |
| configuration (lib/config.cpp) | a YAML file | loading | file system |

There are two long-lived threads. The main thread polls, calls `run_frontend`, and
handles at most one request per pass. The worker runs one sequence at a time and
commands one at a time, between sequences, inside long waits of a sequence and after
it. They share the two queues (single producer, single filter, same consumer as
producer), each sequence's `state` and `cancel`, the event fd, and the pulser's
registers.

What is hard: callbacks have to come in order while the worker finishes sequences
under the frontend's hands; a `wait_seq` may come at any time in a sequence's life;
queries share one command and come back after sets that were made later; overrides
live in two places; a TTL bank is shared by a sequence and by commands; unsigned time
arithmetic decides when commands run; the server is stopped from a third thread. The
stand-in pulser has no thread of its own and executes commands in whichever thread
calls; the server dies and finds what it left in files and in the FPGA; boards come and go.
`PROJECT.json` lists these as hazards, each at its line, with the properties that
cover it.

## 2. The modules

`SeqIFace` - the queue of sequences and the two threads. Ids are given in the order
of pushes, so the queue is three positions (`popped <= filtered <= m_seq_cnt`). Every
shared access is a step of its own: `run_frontend` reads the event, peeks, pops one
sequence at a time and then looks at the current one; the worker stores a state and
signals it in two steps. `SeqOrder` is the abstract contract of the callbacks, without
threads; `ImplementsOrder` is the refinement (`told <- processed_state`).

`SeqServer` extends `SeqIFace` and composes it with the server: each of its actions is
an action of `SeqIFace` together with what the server does in it, or leaves the
interface alone. `Notify` is what the callbacks and the destructor of a sequence's
`Notify` do to `m_seq_status` and the waiting requests. `Stop` is the signal thread.

`DdsCmd` - one DDS channel from request to register and back. `CacheSet`, `NeedQuery`
are `CmdCache::set` and `get`; `RunCmd` is `run_cmd`, with the order of its tests and
its truncations (32, 16 and 12 bits are 4, 2 and 1 here); `wpc` is where the worker's
loop is, since commands, results, resets and sequences are handled in different places
of it. A cached value is only fresh or not (`Expire` is the 0.1 s limit). The pulser
executes in order, so a register changes when the instruction is sent. The board may be
pulled out, plugged in or lose its power; `CheckDds` is `check_dds` with both its branches,
the reset that was asked for and the initialisation of a board without magic bytes, which
leaves `m_dds_ovr` and `m_dds_phase` as they are, and `DetectDds` is the turn of `detect_dds`
for the channel, which drops a pending reset when the board is missing. `lost` is history: the
registers that were cleared without a `reset_dds` and not written since.

`StateId` - the state id and clients that poll it and fetch values when it changes.
The values are two parts, which count changes: what is read at once (`FetchNow`), and the DDS
values, which come from the cache or from a query that may be shared and whose result is
popped later (`FetchDds`). A client may be waiting for several of them while others set, poll
and fetch. `quiet` is history: how the client fetched. `MCStateId` has the symmetry of the
clients.

`RunnerWait` - `Runner::wait`. Times are modulo `W`; the thresholds of the code are
constants in the same order. One iteration of the loop is one step. `put` and `took`
are history: what was put out for the current wait, and how much of it for the release and
for commands.

`Ttl` - the TTL banks. Values are sets of channels. `pipe[b]` holds the instructions
of a bank that the pulser has not executed; keeping one queue per bank allows more
interleavings than the hardware, and no property relates two banks. The hold is left
out: an instruction may be executed at any time after it was sent, as is the case when
a full FIFO forces the release. An override request is one step; what the output shows
between the writes of its two masks is not modelled. A TTL instruction of a sequence has any
value, inside the sequence's `ttl_mask` or not, as the code does not test it. `user` is history:
what requests have set; `own` and `used`: the mask of a sequence, or of all, with the channels
that its instructions named. `MCTtl` only has values for the constants.

`DummyPulser` - the software pulser under the two threads that call it. `ForwardTime`
is `forward_time` with `run_past_cmds`, for either thread: the look at the flag without the
lock, the lock, the sleep without it, one command at a time. `AddCmd` is the loop of
`add_cmd` on a full FIFO, with the force release (`ForwardBlocking` is the test and the
exception at the beginning of a blocking `forward_time`); `block` says whether it waits for a
command to run. `phase` is how far the worker is in `run_seq`, since hold, release and
`toggle_init` come in a fixed order. Time is counted in the shortest command. `faults`
collects what an assertion, an exception or a wrong result would be. The limit on the
number of results, which a worker that reads each one before the next get never meets, is
left out. `PulserQueue` is what the controller assumes of a pulser: an in-order queue with
a hold, a FIFO size and results; `ImplementsQueue` is the refinement.

`Files` - the files in `runtime_dir` and the process that writes them. Each file
operation is a step, `Crash` comes between any two of them, and a file operation may fail,
also unnoticed: the close and the renames of the start-up files, and the write of a names file
that was just emptied (`SaveWriteFails`).
A start-up file is the number of the request it is from and whether it is whole. The
history variables say what a client was told (`acked`, `kept`) and what went wrong
(`missed`, `died`, `wiped`).

`Boot` - start on real hardware and the detection of boards. The constructor (`"c"`)
and the worker (`"w"`), which it starts before it detects, run the same `DetectDds`. The
FPGA keeps its queue, its results and the hold when the server dies; each instruction and
result is marked with the server and thread it is from. `leftover` and `foreign` are history, and so is
`due`, the boards whose reset was asked for, by `reset_dds` or by starting a server.
The 32 reads of `dump_dds` are one, and the writes of `init_dds` before the magic bytes are
one; commands that wait for a result are those of `DdsCmd` and not repeated here. The worker
first waits 500 ms; `WorkerStart` takes the constructor's detection to be over by then (about
1 ms a board), unless a sequence or a hold of a dead server is in its way.

A comment "Mutant" marks an operator that is not part of a model: it is a form of the
operator below it with a plausible error, used to see that a property notices.

Left out everywhere: message layout, logging, and validation of messages (a request
that fails it changes nothing).

## 3. What TLC checks

| run | shows | instance |
|---|---|---|
| `iface` | order and truth of callbacks, no use of a freed sequence, no missed event, refinement of `SeqOrder`; cancellation, resolution of every sequence, `quit` and `join` return | 3 sequences: one popped, one current, one waiting |
| `server` | `m_seq_status` is exact, each wait is answered once and truthfully; every wait is answered, start-up ends, stop works in `run` | 2 sequences, one may be the start-up's, one `wait_seq`; the safety part is proved for any number |
| `dds` | shared queries, one reply per request, results belong to their command; an override holds against sequences, sets, resets and detection, except in registers the board lost; every request is answered | 2 parameters, 2 requests, a set, a reset, a sequence, one loss of the registers |
| `dds_stale_get` | violation: a query's result overwrites a later override in the cache | 1 parameter, 1 request, 1 set |
| `state_id` | the values of a client that fetched quietly are current while its id is; ids grow | 2 clients (symmetric), 2 changes, 1 sequence, 2 commands in the queue |
| `runner_wait` | instructions of a split wait fit, the assert at the release holds, a wait has its length | waits around each threshold, 2 commands, `W = 256` |
| `runner_wait_ahead` | violation: a whole wait goes out at once | 1 long wait |
| `ttl` | commands change the channels they have and sequences those of their mask or that they name, `m_ttl` is exact, a set during a sequence is kept | 1 bank with 2 channels, one of them used by sequences, 2 sets, 1 override, 2 sequences |
| `ttl_banks` | violation: `ttl1` of bank 1 writes bank 0 | 2 banks |
| `dummy` | the stand-in implements `PulserQueue`; no exception or assertion; results match; commands added under the hold are on time; calls return | FIFO of 2, 3 commands, 1 sequence, 1 call of the frontend |
| `files` | start-up sequence and names over crashes, failing file operations and restarts; a client's copy of the names | 2 channels, 3 start-up requests, 2 requests for names, 3 starts, 1 failure |
| `boot` | results are read by who asked, a board is reset at the start, by `reset_dds` and without magic bytes and at no other time, detection ends, boards come back | 2 boards, each there or not at first, 2 starts, 1 board pulled, plugged in or switched off |

The bounds are the smallest at which the cases happen: three sequences are needed for
a sequence to finish between the peek and the pops while another is current; two
requests for a shared query; two sequences for a wait on a sequence behind another; two
clients for one whose poll or query comes in between those of the other, and two changes for
one that is noticed and one that would not be. A queue of two has a
get before or behind a change. `state_id`, `files` and `ttl` have three to five million states.
`W` is far larger than any sum of times in a run, except where `t` wraps below zero;
that is intended, and `OutputSome` is reached only that way (see below).

A FIFO of two is full with one command behind the one that a sleeping thread is about to
run; three commands are needed to fill it again while it sleeps. Three start-up requests
are one that is acknowledged, one that fails or dies and one that mends it. Two boards are a
first and a last one; two starts are a server that dies and the one that finds what it left.

`RunnerWait` and `Ttl` check no deadlock, since their runs end when bounds are used up.
Neither does `Boot`: a server that is started over a hold which a dead one has left waits
for its first result forever (see section 5). The others do check it.

Each module has a type invariant, proved with the inductive invariants of section 4 and not
checked in a run of its own.

Fairness. `SeqIFace`, `SeqServer`: the worker is scheduled and its waits end
(`wait_for` has 500 ms, the pulser finishes), and the main thread goes on (`zmq::poll`
has at most 1 s). No client, signal or `quit` is assumed. `DdsCmd`: the same for its
loops, and a query's result arrives in some turn of the loop (strong fairness of the
turn that finds it, which stands for the pulser answering). `DummyPulser`: a thread goes
on in a call, and the clock goes on; nobody has to make a call. `Boot`: the FPGA executes, the
service manager starts a server that died (molecube.service, `Restart`), the worker goes
on; strong fairness for the constructor, which polls for a result that the worker may take
first, and for the worker's detection, which comes once a second whatever comes in between.
`StateId`, `RunnerWait`, `Ttl` and `Files` have no liveness.

## 4. What is proved

Every property of section 3 that is not a liveness property is proved for all values of the
constants: all invariants, the action properties, and the refinements of `SeqOrder` and
`PulserQueue`. Hardly any of the invariants is inductive as it stands; what follows is what has to
be added, and why. The larger inductive invariants were first checked with TLC.

`SeqServerProofs`, part 1, the interface, for any number of sequences: the type invariant,
`CallbackOrder`, `CurSeqAlive`, `ReportsTruthful`, `NoMissedEvent`, `CancelHonoured`, and that
the interface implements `SeqOrder`. `IndInv` adds the order of the three
positions (`QueueOK`), the state of a sequence as a function of its position and of the
worker's (`StateOK`), that reports lag behind states (`ReportOK`), and where `curseq`
points (`CurOK`); the last is why peeking before the pops is right. `NoMissedEvent`
needs a stronger `EventInv` on top. `CancelHonoured` follows from `Doomed`, which a sequence
that is cancelled in time satisfies and keeps. For the refinement, each step of the two threads
is `Accept`, `Tell` or a stutter.

Part 2, the server, for any number of sequences and requests: the server's behaviours
are behaviours of `SeqIFace` (`ServerImplementsIFace`), so `IndInv` holds in it;
then `StatusTracksSeq`, `OneReply`, `RepliesTruthful` and the type invariant. `OneReply` rests
on `StatusTracksSeq`, since whether `finalize` answers depends on the flag and on the entry
still being there; `RepliesTruthful` also needs that the start-up sequence was freed
before any request (`StartedInv`), since ids below the first entry are answered at once.

`DdsCmdProofs`, for any parameters, requests, values and bounds: `PendingHasQuery`,
`OneReplyPerGet`, `ResultIsForWaiting`, `OverrideHolds`. The invariant `DdsInv` has a part for
each place a command goes through. In the cache, a callback is parked exactly for the
parameters its request has no value for, so the last one to be filled replies (`CacheInv`). In
the queue, the first command that was not forwarded owns the one result there can be
(`QueueInv`). `PendingHasQuery` ties the two. An override stays because each way to the
register looks at `m_dds_ovr` and a reset clears both (`RegInv`); the initialisation
without a reset clears the register only, so that `OverrideHolds` speaks of the registers that
are not in `lost`, and the invariant adds that a board that is out has lost all of them
(`OutIsLost`).

`StateIdProofs`, for any clients and bounds: `QuietFetchStaysCurrent` and
`IdsMoveForward`. The invariant (`Tracked`): a client that has fetched something, quietly, under
the present count has kept `m_observed` set since then, as only a new id clears it, so the first
change since has set `m_dirty`; and while neither that nor a sequence was noticed, what it has
is current and what it still waits for will be, since nothing but gets is in the queue and
those that were sent have read the present value (`Current`, `OnlyGets`). Both properties
need what a count and its running bit can be (`Counts`, `IdKnown`).

`RunnerWaitProofs`, for any width of the clock, any thresholds in the order of the code's and
any waits and commands: `PiecesFit`, `ReleaseAssert`, `WaitLength`, the type invariant, and
`PartIsDead`. `PiecesFit` is the arithmetic of `OutputWait`. `ReleaseAssert` needs that
`min_seqt + 3000` does not wrap, which the division guarantees. `WaitLength` needs `Account`:
in the loop, until commands have overrun the wait, all that was put out is what the
release and commands took, and `t` is the rest. That holds because a part is never put out
(`NeverInParts`), so the proof contains the finding `runner_wait_ahead` in a general form,
stated as `PartIsDead`. That the instructions of `output_wait` add up to its argument is an
induction over the list: where a running sum first differs it would not differ
(`LeastNumber`, `SumIs`).

`TtlProofs`, for any banks, channels, masks, values and bounds, provided `ttl1` is only used
in bank 0 (`Ttl1InBank0`, a hypothesis of the theorems, violated in `ttl_banks`):
`SyncUnneeded`, `ChangesOnlyItsOwn` and `SetsAreKept`. The invariant follows a bank through the
pipeline: `m_ttl` is the last value sent (`Tracked`), each queued instruction differs
from the one before it, or from the output, only in its own channels (`Chained`), and
in a sequence `m_preserve_ttl` and `m_ttl` agree outside the mask and what the sequence has
named (`Preserved`). The last is what `update_preserve_ttl` is for. `SetsAreKept` adds `Wants`: for a
channel that no sequence uses, the last queued command that has it, or `m_ttl` when there is
none, is what requests have asked for.

`DummyPulserProofs`, for any FIFO size, length of a wait and number of commands, sequences and
calls: `NoException`, `EarlyIsOnTime`, `ResultsMatch`, the type invariant, which says who holds
the lock, and that the stand-in implements `PulserQueue`. `PulserInv` adds where each thread can
be and when it blocks (`Control`), that the flag read without the lock never says empty
wrongly (`EmptyFlag`), that nothing is executed that was held when the thread looked
(`NotHeld`), and which results are still to come (`Gets`). In the refinement `RunCmd` is
`Execute`, `Push` is `Add`, and what happens between the look and the lock is a stutter.

`FilesProofs`, for any channels and any number of requests, starts and failures:
`StartupNotLost`, `TextIsCode`, `NamesSurvive`, `SameIdSameNames`. `FilesInv` says for each place
the server can die at which files are whole and from which request. The first two hold as long
as no close or rename of the start-up files has failed unnoticed (`missed`), the third as long as
the names file has not been left half written, by a crash or by a failed write (`wiped`).

`BootProofs`, for any number of boards, starts and changes of boards: `OwnResults` and
`ResetOnlyIfNeeded`. `BootInv` says where the two threads can be (`Places`), and, once nothing
of an earlier server is left, that only one thread uses the FPGA and that it will read as many answers as have come or are to come, all its
own, and in the order it asks (`Flight`). `ResetOnlyIfNeeded` needs that the answer to `chk` is
what the board had (`Magic`), that a reset which is pending was asked for and is still to be
made, and that the constructor, which resets every board it finds, has not reset before those it
has still to come to (`Dues`). Both are about times at which nothing of an earlier server is
left (`leftover`).

Assumptions are those named in the modules: positive or natural bounds, masks, values and
channels of the right kind (`MaxSeqAssumption`, `DdsConstants`, `StateIdConstants`,
`TtlConstants` and `ConstantsAssumption` of `DummyPulser`, `Files` and `Boot`); in
`RunnerWait` the order of the code's thresholds (`RunnerConstants`) and, for
`WaitLength` and the type invariant, `ClockIsWide`: real time and the waits of a sequence are
below the 584 years that a `uint64_t` of ns holds. TLC evaluates them in the runs.

Only model-checked: liveness (`EverySeqResolved`, `QuitReturns`, `EveryWaitAnswered`,
`ServerStarts`, `StopWhileRunning`, `EveryGetAnswered`, `CallsReturn`, `BootCompletes`,
`BoardsComeBack`), since the prover does not handle fairness and `ENABLED`.

## 5. Where the code and its documentation disagree

Three runs show this; `PROJECT.json` has the lines.

* `dds_stale_get`: the frontend's override differs from the backend's after a late result.
* `runner_wait_ahead`: `(seq_rt - thresh_rt) / 10` is taken where it is negative, in
  `uint64_t`. Therefore commands wait for the end of a long wait, and the branch
  that puts out only a part is dead unless `t` has wrapped.
* `ttl_banks`: the bank of `ttl1` is computed from a number below 32.

Others were met while modelling and have no run of their own:

* server.cpp:233: `run` sets `m_running` after the signal thread was started, so a SIGINT
  taken in between is lost (`Stop` before `Run` in `SeqServer`).
* ctrl_iface.cpp:205: dirtiness is marked when a command is sent, not when it takes effect.
  A client that polls and fetches in between keeps the old values under an id that stays;
  `QuietFetchStaysCurrent` therefore is about fetches with nothing queued.
* ctrl_iface.cpp:56: a DDS value is answered from a cache entry of up to 0.1 s, or together
  with an earlier request by the query that one sent. The value may be from before a
  change, and a client that gets it after the change was noticed, under the new id, keeps it
  as long as the id stays. Only a client whose own query went out with both queues empty is
  safe, and this is what `quiet` says of the DDS part. Nor does the initialisation
  of a board by the detection make a new id.
* controller.cpp:420: a board that lost its power is initialised without a reset having been
  asked for. Its registers are 0; the overrides stay on in `m_dds_ovr`, in
  the cache and in what `get_override_dds` answers, `m_dds_phase` keeps the old phase, and
  sending the override again with the same value writes nothing. This lasts until the
  parameter is written in another way or the board is reset (`lost` in
  `OverrideHolds`). A `reset_dds` for a board that is missing at the next detection is dropped
  (controller.cpp:460).
* controller.cpp:466: pulser.cpp:158 leaves a board with magic bytes alone because "This
  avoids reboot-induced glitches", but the constructor asks for a reset of every board it finds,
  so each start of the server resets all of them. The test serves only the detection afterwards.
  `ResetOnlyIfNeeded` states this as it is: starting is one of the reasons for a reset.
* controller.cpp:131: "Only these TTL's will be changed in the sequence", ctrl_iface.h:205 says
  of the `ttl_mask`, but the value of an instruction is not restricted to it: a channel outside the mask is
  switched on by a value that has it, although none without it can switch off one that was on
  before the sequence. `ChangesOnlyItsOwn` therefore counts the channels that a
  sequence names as its own; the claim holds for sequences that keep to their mask.
* dummy_pulser.cpp:154: `add_cmd` sleeps on a full FIFO without the lock. When the frontend's
  `cur_ttl` has run all commands by then, `run_past_cmds` never runs one and the loop goes
  on with the lock held. dummy_pulser.h:284 promises to wait until a command is executed.
  `CallsReturn` excludes this state (`Stranded`, which is reachable).
* dummy_pulser.cpp:66: `m_results` is used by both threads, and only one of them has the
  lock. The model has each operation in one step, which `std::queue` does not promise.
* pulser.cpp:174: `clear_results` removes what is there. Instructions the dead server left in
  the queue add results later; until a sequence is run, detection goes by answers that
  belong to other questions (`leftover` in `OwnResults`). With a hold left behind the
  constructor waits forever, and the worker joins it after 500 ms.
* server.cpp:567: errors of `close` and `rename` are not looked at; the request is answered
  with success all the same (`missed` in `StartupNotLost`).
* namesconfig.cpp:38: `save` truncates the file it writes and does not look at errors of
  writing, flushing and closing it. Names are lost when the process dies at this point, and
  also without a crash when the write fails, in which case the request is answered with 0 (README.md:184:
  1 on error); the server goes on with the names it has in memory until it ends. Both are
  `wiped` in `NamesSurvive`. Nothing is synced to disk, so a loss of power can undo more
  than `Files` has.
* `OverrideAgrees` also fails with the constants `Ops = {"phase"}, Vals = {3},
  MaxSets = 2` (an override of 0xffff is not switched off, controller.cpp:606 tests the
  value before the off marker; the amplitude, kept in 12 bits, is not affected) and
  with `MaxSets = 1, MaxResets = 1, MaxSeqs = 1` (an override set between `reset_dds` and
  the reset is cleared in the backend only).
* controller.cpp:265: commands that take more than is left of a wait make `t` wrap; the
  wait then goes on for about 2^64 steps. `WaitLength` excludes this case (`took <= asked`).
* The running bit of the state id looks at the head of the queue: while a finished
  sequence was not popped it is off although the next one runs (README.md:71).
* The reply to `set_ttl` has the channels of the request as requested, also when they
  are overridden, and lacks what earlier requests still have in the queue (README.md:94).

## 6. Not modelled

The encodings of registers and instructions (the FPGA is not in the repository), plain
register accesses and the DMA registers, which the server does not use; the
configuration file and `set_dds_timing1`, which are read and written once, at start; message
layout and validation; the clock and DAC, which have no state here; the interpreters of
sequences (nacs-seq, external); losses of power of the machine.

## 7. Plan

Done, in this order: `SeqIFace`, `SeqServer` and their proofs, `DdsCmd`,
`StateId` and its proofs, `RunnerWait`, `Ttl` and its proofs, `DummyPulser` with
`PulserQueue`, `Files`, `Boot`; then the proofs about `DdsCmd`, `Files`, `DummyPulser`, `Boot`,
`SetsAreKept` and `RunnerWait`.

Next:
1. `RunnerWait` and `DdsCmd` meet in `process_reqcmd`: bounds on what a wait can be
   overrun by, from the times of the commands.
2. Step properties on which the liveness runs rest (which step makes progress), as theorems.
3. Simpler forms of the longest steps of `BootProofs` and `DdsCmdProofs`.

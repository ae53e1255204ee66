# A verification development of fovea

Fovea lets an operator look into a Linux guest: a guest agent reads `/proc`
and symbolizes kernel stacks, a host talks to it over virtio-vsock in JSON
Lines, and shell and Python scripts launch and probe the VM. This directory
models the parts of it that keep state and race, checks them with TLC on small
instances, and proves with TLAPS what can be proved for every instance.

Paths below are relative to the repository; `G` stands for
`crates/guest-agent/src`, `V` for `crates/vsock`, `H` for
`crates/host-supervisor/src`, `M0` for `scripts/m0`.

## 1. Inventory

| Component | State | Operations | Hard behaviour | Status |
|---|---|---|---|---|
| Symbolizer worker, `G/symbolize.rs` | `WorkerLifecycle` under a mutex, a bounded request channel, a reply channel of capacity 1 per call, a shutdown channel, the thread | `spawn_worker`, `symbolize`, `shutdown`, drop of a client or of the handle, the worker loop | callers, worker and owner interleave; timeouts, panics, a backend that hangs, channels that close | modelled, proved |
| Launch wrapper, `M0/run-vm.sh` | reservation directories shared by all invocations, `launch_locks`, `qemu_pid`, `launch_signal`, the traps | reserve, launch, wait, forward a signal, release | a signal between any two commands, two invocations, SIGKILL | partly, proved for one signal |
| JSON Lines codec, `V/src/codec.rs` | `OwnedFrame`, the `BufReader` | `read_frame`, `write_frame` | chunks that end anywhere, limits, CR LF, truncation | modelled, proved |
| Vsock endpoints, `V/src/linux.rs` | two async mutexes, `TerminalClose`, the shared stream | `recv`, `send` at both ends, drop | failing calls race with succeeding and waiting ones | modelled, proved |
| Process source, `G/proc_source.rs` | none between calls; `/proc` itself changes | `snapshot`, `cpu_counters` | the process exits and its pid is reused, and the clock goes on, between two reads | partly, proved |
| Introspection, `G/introspect.rs` | the result being built: `confidence.low_fields`, `overall` | `assemble_default_introspection`, `calculate_cpu_percent` | many degraded inputs at once, the worker fails at either end | partly, proved |
| Schema, `crates/introspect-schema` | none | serde types, `SymbolConfidence::score` | - | partly (score, run states, mapping kinds) |
| Process view parsers, `G/proc_view.rs` | what a loop keeps between two lines | one parser per file of `/proc` | names a process chooses, lines in any order, malformed lines, limits | modelled, proved |
| Degradation reasons, `G/degradation.rs`; agent binary | none | wording; prints the result | - | not modelled |
| Mock transport, `V/src/lib.rs` | two bounded channels | `pair`, `recv`, `send`, drop | a sender that leaves with messages on their way | modelled |
| Message model, `V/src/model.rs` | none | serde types | - | partly (kinds and ids) |
| Ping examples, `V/examples` | one connection | request, response, receipt | correlation; the guest leaves first | modelled, proved |
| Evidence audit, `H/audit.rs` | a list under a mutex, in memory | append | none yet: one critical section, no caller | not modelled |
| LKM gate, `H/gate.rs`; supervisor binary | none | allows everything; prints its version | - | not modelled |
| QMP smoke client, `M0/qmp-smoke.py` | one socket, a list of events | handshake, `savevm`, `loadvm`, events | one deadline under a flood of events, partial failure | modelled, proved |
| Host checks, guest probes, CI scripts, fixtures | none | one-shot checks | - | not modelled |

How they interact. `assemble_default_introspection` starts a symbolizer worker,
calls `symbolize` for each stack frame and shuts the worker down whatever the
outcome; it reads `/proc` through the process source and hands the texts to the
parsers. The result is data of the schema. The ping examples send messages of
the model through endpoints that use the codec. `run-vm.sh` starts the VM whose
QMP socket the smoke client connects to; invocations of `run-vm.sh` meet only
in the reservation directories. Host audit and gate are libraries nothing in
the repository calls yet.

What makes each of them correct:

- **worker**: each accepted request is answered or its caller learns why not;
  no answer blocks the worker; a terminal state is final and tells the truth
  about why the worker ended; `shutdown() = Ok` means that it is gone.
- **wrapper**: a reservation outlives the VM it is for; the script leaves no VM
  and no reservation behind; no signal is lost.
- **codec**: the result of a read depends on the bytes, not on how they came.
- **endpoints**: a frame that broke off is never continued by another; frames
  arrive in order; one failure closes the connection for everyone, once.
- **process source**: a result is about one process, and its two CPU counters
  about the same time.
- **parsers**: what is parsed is what the file says, whatever a process calls
  itself and in whatever order the lines come, and what is left out is told.
- **ping**: success means that this request was answered; a ping ends.
- **introspection**: nothing doubtful is reported as certain.
- **QMP client**: success means that the VM was loaded from what this run saved;
  it never waits longer than it was told to.

`PROJECT.json` lists the hazards of this code line by line, each with the
properties that would catch it.

## 2. Modules

| Module | Models | Checked by | Proved in |
|---|---|---|---|
| `SymbolizeService` | the promise of `symbolize.rs`, without the worker | through the refinement below | `SymbolizerWorkerProofs` |
| `SymbolizerWorker` | `symbolize.rs` | `MCSymbolizerWorker` | `SymbolizerWorkerProofs` |
| `LaunchReservation` | `run-vm.sh`, lines 151-214 and 408-464 | `MCLaunchReservation`, three cfgs | `LaunchReservationProofs` |
| `FrameReader` | `read_frame`, byte by byte | `MCFrameReader` | `FrameReaderProofs` |
| `VsockConnection` | `linux.rs` and, frame by frame, the codec | `MCVsockConnection` | `VsockConnectionProofs` |
| `MockTransport` | `V/src/lib.rs` | through `VsockPing` | through `VsockPing` |
| `VsockPing` | both ping examples | itself | `VsockPingProofs` |
| `LowConfidence` | `merge_low_confidence_field`, `calculate_overall_confidence` | through `Introspection` | through `Introspection` |
| `Introspection` | `proc_source.rs` and `introspect.rs` | itself, two cfgs | `IntrospectionProofs` |
| `CpuSample` | the CPU percentage of `introspect.rs` and its reads | `MCProcView` | `ProcViewProofs` |
| `ProcText` | one line of a file: `parse_stat`, `parse_cgroup_line`, `parse_map_line`, ... | through `ProcView` | through `ProcView` |
| `ProcView` | the loops of `proc_view.rs` | `MCProcView` | `ProcViewProofs` |
| `QmpClient` | `qmp-smoke.py` | itself, two cfgs | `QmpClientProofs` |

Definitions whose comment starts with "Mutant" are variants with a plausible
bug. No specification uses them; each shows that a property fails when the code
is wrong in that way. `PROJECT.json` says which variant goes with which property.

### 2.1 SymbolizerWorker and SymbolizeService

State. `lifecycle` is `WorkerLifecycle.state`; every action that touches it is
one critical section of its mutex. `queue` is the request channel, `reply[c]`
the reply channel of call `c` (`unsent`, a value, `taken`, or `dropped` with its
sender), `signalled` the shutdown channel, `initialized` the channel `spawn`
waits on. `wpc` is the place of the worker thread, `pc[c]` of each call, `hpc`
of the owner. `unwinding` says that the factory or the backend panicked.

Actions. The worker loop is cut where another thread can observe it: the poll
of the shutdown channel, the check of the lifecycle, the receipt of a request,
`begin_request`, the backend, the answer, `finish_request`, each round of
`reject_pending_requests`, the drop of the receiver, the end of the thread. A
call checks the lifecycle, sends (accepted, full, disconnected) and waits
(reply, timeout, disconnected). The owner calls `shutdown` (request, signal,
join or time out) or drops the handle. With `Capacity = 0` a send succeeds only
while the worker waits in `recv_timeout`.

`SymbolizeService` has no worker: a call is accepted or refused, and every
outcome that is returned must be one the state of the service allows.
`ImplementsService` is the refinement.

### 2.2 LaunchReservation

One process per invocation. An action is one shell command or one round of a
loop, because bash runs a trap between two commands; `Signal(w)` may come
before any of them and does what the traps of that moment say, `Kill(w)` is
SIGKILL. A wrapper ends as `exited` (in order), `dead` (a TERM or INT that found
no trap, as after the first line of `cleanup_on_exit`) or `killed` (SIGKILL). `owner[l]` remembers who made a directory, which no script can see:
`rmdir` removes it whoever made it. QEMU runs until it is told to end, or ends
by itself. Not modelled: the arguments, the canonical paths, the checks of the
lock root, the command line of QEMU, and processes that change the directories
by other means.

### 2.3 FrameReader

`input` is what the peer sends up to its close, `filled` how much of it is in
the `BufReader`, `pos` how much was consumed, `frame` the `OwnedFrame`. A chunk
ends wherever `FillBuffer` lets it. The reference definition says what a
call should return from the input alone (`LineEnd`, `PayloadEnd`, `LineOk` and
`RestOk`, together `ResultOk`), and `ChunkingInvisible` compares.
Bytes are CR, LF and one that is neither.

### 2.4 VsockConnection

A frame is two writes, a body and a newline; what a line is, was settled in
`FrameReader`. Tasks call `recv` or `send` on their endpoint; the mutex of a
direction is held from the second `ensure_open` to the return, as the guard in
`EndpointIo` is. `FinishOk`, `ReturnOk`, `FinishError` and `Shutdown` are
`TerminalClose::finish`: other threads run between the load of the flag and the
return of `Ok`, and between the `compare_exchange` and `shutdown_both`. So a
call that has loaded the flag in time returns `Ok` although another one has
meanwhile returned its error; `ErrorsAreFinal` is about all others. The socket is a bounded sequence of writes. `connect`, `bind`
and `accept` only make endpoints. A caller that drops its future in the middle
of a call is not modelled: no caller in the repository does.

### 2.5 Introspection and LowConfidence

One `introspect(pid)`. `ReadOrder` is the order in which the code reads, and a
read is one step; `Exits` and `PidReused` happen between any two. A process is
told from its successor by its start time, which the model takes to be
different. A text is clean, not UTF-8 (`lossy`), or absent; `quality` keeps
that, `parsed` what the parsers made of it. A frame's symbol is what
`KernelBlazeBackend` makes of what blazesym finds, or an error. Then every
report of doubt is made in the order of the code and merged one by one, the
overall confidence is computed in thousandths, and the worker is stopped. The
reports about frames come in the order of an unspecified enumeration of their
numbers; entries are told apart by path only, and nothing depends on it. `token`
keeps the entries the token estimate was made with, not the number. The values
of the result that no doubt depends on are left out, as is the wording.
`touched` and `vanished` are history variables for the properties.

### 2.6 CpuSample

The two counters a CPU percentage is made of, while the clock goes on: `Tick`
gives each CPU a tick and the process those of the CPUs it ran on, before any
step of the call; at most `MaxSkew` come during one read, any number
during the rest of the snapshot and the sleep. `StepBack` lets the system
counter go backwards, which the kernel does not rule out. `calculate_cpu_percent`
is kept as the two increments it divides.

### 2.7 ProcText and ProcView

`file` is the file that is parsed, `text` its lines. A round of a parser's loop
is one action, what it returns after the last line another; the variables are
what the code keeps in locals. `ProcText` says what is made of one line. A text
is a sequence of words and of the characters a parser looks for (parentheses,
white space), a number a word of `Numerals`, and the widths `U64Max`, `U32Max`,
`BackingMax`, `CmdlineMax` are constants small enough to be exceeded. `Printed`
is the external part: how the kernel prints a stat file of a process that chose
its own comm. Where the code splits at colons or white space a line is a record
of the parts. Blank lines, which all parsers skip, are left out.

### 2.8 MockTransport and VsockPing

`MockTransport` is a bounded queue per direction: a send waits for room and is
refused once the receiver is gone; a receive gets what was sent before the
sender went, and the end only then. `VsockPing` runs both mains over it. The
host's peer is the example or a guest that sends any evidence (`AnyEvidence`),
since the host's checks are there for that; `Breaks` makes every later call
fail, as the vsock endpoints may. That those deliver in order and close for
good is `VsockConnection`'s subject.

### 2.9 QmpClient

`step` is what `main` waits for, `pc` where the client is in `send`, `receive`
and `readline`. `left` is the time until the deadline, `timer` what is left of
the recv that waits now; `budget` is the timeout of the socket, which
`receive` sets from `left` and each recv starts from again (`ReadPart`). A line
is abstracted to what the client makes of it: a greeting, an event, a reply with
its id and a result, or something it rejects. QEMU is external: it executes the
request some time, also after the client has given up, and then replies; HMP
failures are returns that hold text. The disk may hold an earlier snapshot of
the same name. The client's own computing takes no time that matters, except
that a tick may come before any of its steps.

## 3. Runs

| Run | Bounds | Shows |
|---|---|---|
| `symbolizer` | 2 calls, capacity 1, fair | custody of requests, meaning of closed channels and of `shutdown`'s results, `SymbolizeService` implemented; waits end, accepted requests are settled, the worker ends |
| `launch_one_signal` | 2 wrappers, 4 directories, 1 signal each, SIGKILL | reservations outlive the VM, no VM is left, a directory left behind has one of two causes, a signal ends the wrapper |
| `launch_two_signals` | 2 signals each | **violated**, see 6 |
| `launch_leak` | 1 signal each | **violated**, see 6 |
| `frame_reader` | inputs up to 6 bytes, limits 0, 1, 2, `usize::MAX` | chunking is invisible, lines in order, storage suffices |
| `vsock` | 2 senders and a receiver at the host, 2 receivers at the guest, 1 call each, room for 1 write, fair | whole lines, order, one cause, nothing passes its last check after an error; a close ends every call at both ends |
| `vsock_ping` | 2 request ids, room for 1 message, 3 messages of another guest, fair | success means that the request was answered; the ping ends |
| `introspection` | 1 reuse, 3 flaws, stacks of 2 | one process, no doubt lost, entries and overall agree, no worker left |
| `introspection_shutdown` | no reuse, 2 flaws, 1 frame | **violated**, see 6 |
| `proc_view` | files of 4 lines, maps of 5, comms of 4 characters; 2 CPUs, 5 ticks, 1 between adjacent reads | what is parsed is what the file says, what is left out is told; the two windows of a CPU sample match |
| `qmp_smoke` | 2 ticks, 2 messages on their way, 1 event name, fair | success means a round trip, no earlier snapshot is loaded, the client ends |
| `qmp_parts` | lines in up to 2 parts | **violated**, see 6 |

Why the bounds are enough. Worker: with capacity 1, two calls let
one execute while the other waits in the channel, or one wait and the other be
refused; the proofs hold for any number. Launch: a violation
needs two wrappers that want one directory, and a third could only take the
part of either; each has a directory of its own before the shared ones, so that
a release has something to undo. `MaxSignals` is 1 where the code keeps its
promise or one signal breaks it, and 2 where it takes two. Frames: with limit 2 six bytes hold a line that
fits, one that is one byte too long with and without CR, and the start of the
next; the proofs hold for any length. Vsock: at
either end two tasks race for one mutex while a third fails, a socket with room
for one write is full in the middle of every frame; the proofs hold for any
number of calls. Ping: with room for one message the guest's second send waits
for the host; three messages of another guest are one more than the host takes,
with another id and a third kind among them. Introspection: three flaws
let one path be reported twice while a third doubt changes the count; a second
reuse would look like the first to a code that compares with `initial` only;
two frames distinguish the top frame from the others. Parsers: four lines hold
two of any two kinds, a repeated key, a malformed line between, before or after
good ones; two of five maps fit into `top_n`, and a name is cut inside a
character; four characters of a comm hold `) R`, which looks like the end of the
name and the state after it. CPU: five ticks reach across both pairs of reads.
QMP: `MaxEvents` stands
for 256, `MaxParts` for the reads a line of at most 1 MiB may take; two ticks
tell a wait that begins in time from one that begins too late, and a second
message on its way may overtake the reply.

`CHECK_DEADLOCK FALSE` is set everywhere, because every one of these systems
comes to an end: the worker stops, the script exits, the reader stops at its
first error, the calls are bounded, the
introspection, the parsers and the ping return, the QMP client exits.

Type invariants are in no run: they are proved; each parser's is a part of its
invariant (`MapsTypeOK`, `ScanTypeOK`, ...). Symmetry is not used, since most runs check liveness.

### Fairness

- `SymbolizerWorker`: weak fairness of each thread's steps. The OS schedules
  threads that can run; each action here is enabled until its thread takes it,
  since timeouts end the waits. The backend is not fair: it may hang for ever,
  and the properties say so. Nor need anybody call, drop a client or shut down.
- `LaunchReservation`: weak fairness of each shell, and of QEMU's end *once it
  was signalled*. A VM nobody stops may run for ever.
- `QmpClient`: weak fairness of the client's steps and of time. QEMU promises
  nothing.
- `VsockConnection`: weak fairness of each task's steps, which is what a
  runtime that polls woken tasks gives with mutexes that are handed on in FIFO
  order. No fault and no drop is promised.
- `VsockPing`: weak fairness of each main, for the same reason. Another guest
  does nothing it does not want to, and the connection need not break.

## 4. Proofs

The theorems hold for every value of the constants that meets the assumptions
named in the modules:

- worker: `Capacity \in Nat`, `NoCall \notin Calls`;
- codec: `Inputs` is a set of byte sequences, each shorter than half of
  `UsizeMax` (a Rust allocation is at most `isize::MAX` bytes), and
  `Limits \subseteq 0..UsizeMax`;
- wrapper: `Wants` gives each wrapper a sequence of directories,
  `NoOne \notin Wrappers`, `MaxSignals \in Nat`; each theorem also assumes
  `OneSignal`, that is `MaxSignals <= 1`;
- connection: `End` puts each task at one end, `Writers \subseteq Tasks`,
  `Capacity` is positive, `MaxCalls \in Nat`;
- QMP client: `Timeout`, `MaxParts` and `Room` are positive, `MaxEvents \in Nat`;
- introspection: `MaxGeneration` and `MaxFlaws` are natural numbers,
  `MaxFrames \in 0..5`, the five that the code takes;
- ping: `RequestId \in Ids`, `Capacity` is positive, `MaxSent \in Nat`;
- parsers: `LinesAssumption` gives the shape of a line of each file and nothing
  more: lines may be malformed, and a comm is any sequence of words,
  parentheses and white space, but the columns the kernel prints after it hold
  neither parentheses nor white space; no path is the value that stands for
  none (`PathAssumption`); the limits `U64Max`, `U32Max`, `BackingMax`,
  `CmdlineMax` and `TopN` are natural numbers, 0 included;
- CPU sample: `Cpus` is positive, `MaxTicks` and `MaxSkew` are natural numbers.

**Worker** (`SymbolizerWorkerProofs`). None of the safety properties is
inductive: whether a closed reply channel is explained depends on where the
worker is, and whether a request has an owner on what the worker holds.
`LifecycleAtControl` relates the shared lifecycle to the worker's place,
`RequestCustody` says who has each request (its caller, the queue, the worker,
or nobody any more) and that nobody has it twice, `StopHasCause` what must have
happened before the worker stops. With the properties they are `IInv`, which
`WorkerStep`, `CallStep` and `HandleStep` show to be kept, action by action.
Everything else follows: `UnreachableArms` from `LifecycleAtControl`,
`StopIsFinal` as an action property from `IInv` and one step. `NoneStranded` is
about a rendezvous channel (`Capacity = 0`): nothing is ever queued, so an
accepted request cannot be lost with the channel. `Implementation` is the
refinement: the initial states are those of `SymbolizeService`, and
`ServiceStep` shows of each action that it is one step of the service or
changes nothing a caller can see. What makes it hold is `ToldWhy`: a refusal a
caller may still receive names the state the worker has stopped in, which it
does not leave any more.

**Codec** (`FrameReaderProofs`). `IInv` says of a call in progress that `frame`
is the input from the start of the line to `pos`, that there is no LF in it,
and that more bytes than the limit were kept only if the last one is a CR that
may yet turn out to belong to the line's end. When the LF comes, the lemmas on
slices (`AdjacentSlices`, `StripSlice`) turn what was copied into what the
reference definition takes from the input; `FirstNewline` and `TooLarge` do the
same for lines that end elsewhere or are refused early. `ReturnKeepsCalls`
carries the history of calls along.

**Wrapper** (`LaunchReservationProofs`). `HeldWhileRunning` depends on what
every trap may still do. A second pass over `launch_locks` needs the EXIT trap to
be set while that of TERM is not; `TrapsAtCommand` says at which commands the
traps are set, and that the one signal has come by then. `ChildAtCommand` says
where a VM may run and that the wrapper knows its pid unless it has just forked
or is dead, `HeldAreWanted` that the array is the directories wanted so far in
order, `OwnedByHolder` that what is still to be released is the wrapper's own,
and `Accounted` that a directory of a wrapper is in its array or is the one it
has just made. An action of one wrapper touches what another holds only through
`rmdir`, and that only removes its own: `OwnedByHolder` again. The theorems say
that the reservations work for any number of wrappers and directories, with
SIGKILL at any time; `launch_two_signals` shows that the assumption is needed.
That the wrapper releases everything cannot be proved, since it does not (see 6);
`LeftoversHaveCause` says what it can leave and after what. A signal that finds
no trap (`dead`) leaves the directories, but no VM: `ChildReaped` covers it.

**Connection** (`VsockConnectionProofs`). `OneHolder` is mutual exclusion per
direction, `WriterAtEnd` what the holder finds at the end of the stream.
`TornIsKnown` is the point of `LinesAreWhole`: a body without newline is followed
by nothing while its sender is in the codec or about to call `finish`, and from
then on the flag is set, so that the second `ensure_open` turns the next sender
away; with a check before the mutex only, it would not. `Closing` says that one
call of an endpoint at most has set the flag, that nobody has reported a cause
before it does, and that an error was returned only of a closed endpoint; from
it follow `OneCause` and, with one step, `ErrorsAreFinal`: where an error was
returned the flag is set, so that no `FinishOk` leads to `return` any more. `DeliveredInOrder`
counts frames by their place: bodies stand at odd and newlines at even places
(`Turns`), a receiver that has half a frame has the body after the frames
delivered so far (`Reading`), and while an endpoint is open and nobody reads, it
has taken two writes for each frame delivered (`AtBoundary`). A receiver that
fails in the middle of a frame breaks that only after the endpoint is closed.

**QMP client** (`QmpClientProofs`). `Numbered` ties the ids to the steps,
`OneRequest` says that the only request QEMU may have has the last id and has no
reply on its way, and `Effects` that a reply with that id comes after the effect
it reports. Hence the reply the client accepts for `savevm` vouches for the
snapshot, which nothing replaces before `loadvm` is answered.

**Introspection** (`IntrospectionProofs`). `OneProcess` is about the reads:
`ReadFromOne` says that every process that was read came no earlier than the
first one and no later than the one that has the pid now. When the last stat
shows the first start time again, both ends are the same process, and so is all
that was read in between; the stat of the CPU sample is compared once more.
`VacancySeen` says that a pid without process, or with a later one, had a time
without, which is what `NotFoundMeansGone` needs. `WorkerKnown` ties the
worker to the place in the call. The other half is about the reports. The lemma
`MergeStands` says that a merge turns entries that stand for a set of reports
into entries that stand for that set and one more; `build_hotspot`, which does
not merge, is covered because its reports have different paths. `Merging` then
says that the entries stand for the reports merged so far, and `MarkedBy` that a
report without any confidence marks its path, `ToldBy` that every report is
among the reasons of an entry; `DoubtsReachResult` follows, since each doubt
makes such a report (`SnapshotSeq`, `MapsSeq`, `MissingSeq`, `ConfidenceSeq`,
`HotspotSeq`) and none is lost between the parts (`ReportsSeq`). `OverallCountsFields` follows from
`Derived`: overall confidence and token estimate are those of the present
entries, also after the worker has added one at its end. That the average of
scores is at most 100 is a bound on a sum over the entries (`SumBounded`).

**Ping** (`VsockPingProofs`). `HostSaw` ties what the host noted to the messages
it took; `ExampleSent` says that the example has sent nothing before it received
this request, and that what the host took and what is on its way are no more
than was sent. Hence two messages taken are two sent.

**Parsers** (`ProcViewProofs`). Sums and `Collect`, which keeps the elements at
given places, are folds. Their lemmas (`SumAdd`, `SumEqual`, `SumTake`,
`Collected`) rest on `FoldExists`, the existence of the function a fold is
defined by, and on `Counting`, which is induction for one set of numbers at a
time and follows from the well-foundedness of `<`.

- cgroup: `Skimmed` says what `parse_cgroup` knows of the lines read so far:
  none was unified, the first legacy one is kept and whether one was malformed.
- maps: `MapsInv` says that the buckets are the counts and sums of the good
  lines read so far, that `tops` lists each of them once (`Lists`) and that
  `skipped` counts the others. At the end the sort
  only reorders (`Ranked`, `TopsAre`), `HistogramIs` tells the buckets that are
  printed and `NotesAre` the degradations; `Truncated` is about one backing.
- stat: `PrintedLay` says at which places of the text the kernel's parts stand,
  the comm in the middle. No column holds a parenthesis, so that the first `(`
  and the last `)` are the kernel's own (`ParensFound`) whatever stands between
  them, and the words after it are the columns (`WordsAre`, `ColumnsRead`).
- status, CPU counters, stack and command line: `ScanInv`, what each has kept of
  the lines read so far. `Widths` counts the bytes of characters of two widths.

**CPU sample** (`ProcViewProofs`). `Windows` follows a CPU sample from read to read:
what the process has gained and what the system has gained are `Close`, up to
the ticks since the last step while only one of a pair has been read, and up to
the skew of a pair afterwards.

Only model-checked: liveness (`WaitsAreBounded`, `AcceptedRequestsSettled`,
`WorkerEnds`, `SignalEndsWrapper`, `CloseEndsCalls`, `PingEnds`, `ClientEnds`),
which needs ENABLED and fairness. Every other property of a passing run is the
statement of a theorem. The wrapper's hold under `OneSignal`.

## 5. Plan

Order of importance, done first to last:

1. worker, its service, safety, liveness, proofs - done
2. launch wrapper and its proofs for one signal - done
3. codec and its proofs - done
4. vsock connection and its proofs - done
5. introspection and its proofs - done
6. QMP client and its proofs - done
7. mock transport and ping, with proofs - done
8. parsers of `/proc` and the CPU sample, with proofs - done
9. refinement of the worker proved - done
10. next: a service the ping promises (a request, then its answer and receipt)
    and the proof that both mains implement it; type correctness of the parsers
    as one theorem

Not modelled, and why: the evidence audit log appends in one critical section to
a list in memory and has no caller in the repository, the LKM gate is a constant
and the supervisor prints its version, so none of them has steps that could
interleave or fail; `degradation.rs` is wording; the checks, probes and CI
scripts are sequential and leave no state; the schema's serde forms and the
conversion of characters and numbers are the business of libraries.

## 6. Where code and documentation disagree

- `launch_leak`: a signal between `mkdir` (`run-vm.sh:220`) and the recording of
  the path (221) leaves the directory behind although the wrapper exits in
  order, and later launches on that resource are refused. `docs/M0.md` (146,
  289-290) says that reservations are released.
- `launch_two_signals`: a second signal during the release runs the EXIT trap,
  which goes through `launch_locks` again, since the array is emptied only
  after the loop (164): it removes a directory another wrapper has made since,
  while that wrapper's VM runs. `docs/M0.md:144` says that the locks remain
  until the QEMU child exits.
- No run of its own, but the same two passages of `docs/M0.md`:
  `cleanup_on_exit` begins with `trap - EXIT TERM INT` (170), so the first TERM
  or INT that comes after that, also when the VM has ended by itself, kills the
  wrapper before it has released its directories, and they all stay. In the model
  the wrapper ends as `dead`; `LeftoversExplained` has to except that case, and
  is what does hold.
- `introspection_shutdown`: a worker that does not stop in time after a result
  whose stack was unreadable, empty or not UTF-8 is merged into the entry
  `hotspot.frames` that exists already; the overall confidence counts entries
  and stays the same. `PROGRESS.md:37-39` says that such a failure "lowers
  confidence". `OverallCountsFields` is what does hold.
- `qmp_parts`: `receive` gives the socket what is left until the deadline
  (`qmp-smoke.py:42`), but `readline` calls recv as often as the line needs, and
  each starts with the whole timeout again. `docs/M0.md:157-159` says that
  `--timeout` "bounds the connection and each complete greeting or command-reply
  wait". A peer that sent a greeting byte by byte kept the script for 4 s with
  `--timeout 0.5`. Whole lines, a flood of events included, do not pass the
  deadline (`ClientEnds`).
- Not a disagreement, but worth knowing: two endpoints that both write into
  full sockets while nobody reads wait for ever (a final state of
  `vsock`'s graph); the transport has no timeout. And a request whose
  caller has timed out is still executed when its turn comes.

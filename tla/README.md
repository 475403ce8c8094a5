# mafio in TLA+

mafio is an agent that moves messages from one input plugin through one filter to one output
plugin. This directory models the process (its goroutines, channels and shutdown), the file
input with its database of offsets, the tcpdump input, the log, command and rabbitmq outputs and
the HTTP service; TLC checks them on small instances, and TLAPS proves
all their safety properties for all values of the constants.

Paths below are relative to the root of the repository.

## 1. The system

### Components, their state and operations

| component | code | state | operations | model |
|---|---|---|---|---|
| agent process | `agent/agentd.go`, `agent/ioloop.go`, `main.go` | `Inchan`, `Outchan`, `exitChan`, `messageCollectStartedChan`, `waitGroup`, the batch `packets` | `New`, `Main`, `messagePull`, `messagesFilted`, `messagesPush`, `Exit`, `SafeExit`, `Empty` | `Pipeline` |
| registry, options | `register`, `agent/options.go`, `agent/plugins.go` | plugin maps, `Options`, `PluginsConfigs` | `Init`, `LoadPluginsConf`, `flushConfig` | `TcpDump` (the list of files), `Pipeline` (which part is missing) |
| file input | `input/file/flie_input.go` | `SinceDBInfos`, `mapWatcher`, `readEventChan`, an open file per reader | `fileReadLoop`, `fileWatchLoop`, `waitWatchEvent`, `readline` | `FileTail`; its sends in `Pipeline` |
| offset database | `input/file/sincedb.go` | `SinceDBInfos`, `sinceDBLastInfosRaw`, `SinceDBLastSaveTime`, the file on disk | load, save, check, the save loop | `SinceDB` |
| stdin, cron, tcpdump inputs | `input/stdin`, `input/cron`, `input/tcpdump` | a goroutine per source | what they send to `Inchan`, when they stop | `Pipeline` |
| tcpdump input | `input/tcpdump` | ports, `portMap`, TTL, listeners, a packet source | `initListenPort`, `getPortsByProcessName`, `findDevices`, `GenerateBpf`, `startListen`, `processPacket` | `TcpDump`; its sends in `Pipeline` |
| filter, stdout output, packet | `filter/default`, `output/stdout`, `packet` | none | `DoFilter`, `DoWrite` | `Pipeline` |
| logr output | `output/logrotator` | the file, `currentSize` | `NewWriter`, `DoWrite`, `Write`, `rotateClear` | `LogRotator` |
| HTTP API | `agent/web.go`, `agent/router.go`, `agent/response.go`, `agent/request.go`, `util/pprof.go` | a listener, a goroutine per request, the profiler, a profile file, the agent's lock | all handlers, the decorators, the recovered panic | `Api`; `/empty` and `Serve` among the goroutines in `Pipeline` |
| command output | `output/command`, `util/shell.go` | children, pipes | `DoWrite`, `cmdCall`, `ScriptRun` | `Command` |
| rabbitmq output | `output/rabbitmq` | a nil map of clients, a nil pool | `SetContext`, `DoWrite` | `Pipeline` (`InitPanic`, `WritePanic`) |
| monitor, logger, version | `agent/monitor.go`, `agent/logger.go`, `version` | none that others depend on | - | not modelled |
| utilities | `util` | none | most are called by nobody | not modelled |

### How they interact

```
reader / cron job / capture / stdin --Inchan--> messagesFilted --Outchan--> messagesPush --> DoWrite
      |      ^                                                                              |
      v      | events                                                                       v
  offset     inotify watcher per directory                                           log file (logr)
  database
```

`Main` starts the output first and waits for it (`messageCollectStartedChan`), then the filter
and the input. Channels are bounded, so a slow output holds the inputs back; tcpdump drops
instead. A signal runs `Exit`, the TTL of tcpdump runs `SafeExit`; both close `exitChan`,
`Inchan` and `Outchan` while everybody may still use them. A reader writes the offset of its
file, sends the line, and saves the offsets; a loop saves them too.

### What is hard, and what makes each component correct

* **Agent process.** Three goroutines, any number of senders, two ways of stopping, and `/empty`
  share four channels. Correct: each message taken is written at most once and in order, and
  none disappears but those the filter refuses and `/empty` removes; a batch is bounded and
  complete when the process ends after a signal; senders are not starved; a panic from a closed
  channel comes at a shutdown only, and every other panic has one of a few known causes.
* **File input.** The file changes between two steps of its reader; the loops of the files of one
  directory share one watcher and a map without a lock. Correct: lines are sent once, in order
  and from where the reader began; a reader that waits is woken when there is something to read;
  an offset never counts what was not read.
* **Offset database.** Unsynchronised savers, a write that truncates first, a process that ends
  anywhere. Correct: what a restart loses is bounded, and what counts as saved is on disk.
* **logr output.** The size is kept in memory next to a file others change, and every error is
  ignored. Correct: the file is bounded, and keeps the newest packets.

* **tcpdump input.** Processes, their connections and the devices are read at different moments, and
  the configuration comes from several files and an option. Correct: a packet of a watched process
  passes the filter and carries that process's name, if its lookup did not fail; nothing is captured
  twice through a bond.
* **HTTP API and command output.** Requests run side by side and share a lock, a profiler, a file, and
  with the commands a table of descriptors; nobody waits for a command. Correct: each request is answered
  once with its code; the profiler stops with its users; descriptors are given back; a write
  returns however long its commands run.
* **rabbitmq output.** Its clients are stored in a map that is never made, so no batch is ever published.

`PROJECT.json` lists the hazards one by one, each at its line with the properties about it.

## 2. The modules

| module | models | EXTENDS / INSTANCE |
|---|---|---|
| `Delivery` | the promise: messages are taken in, delivered in order or discarded | - |
| `Pipeline` | the agent process | INSTANCE `Delivery` (refinement) |
| `FileTail` | readers, watchers and files of one directory | - |
| `SinceDB` | offsets in memory and on disk, savers, restarts | - |
| `LogRotator` | the writer, its file, failures, restarts | - |
| `Process` | what HTTP service and command output share: process, descriptors, messages in `Outchan` | - |
| `Api` | the HTTP service | EXTENDS `Process` |
| `Command` | the command output | EXTENDS `Process` |
| `Service` | both in one process, with shutdown | EXTENDS `Api`, `Command` |
| `TcpDump` | the tcpdump input: configuration, ports, devices, packets | - |
| `MCPipeline`, `MCFileTail`, `MCSinceDB`, `MCLogRotator`, `MCService`, `MCTcpDump` | values of the constants for TLC | the module they are named for |
| `SequenceFacts` | lemmas about sequences and sets of numbers | TLAPS |
| `DeliveryProofs`, `PipelineProofs`, `FileTailProofs`, `SinceDBProofs`, `LogRotatorProofs`, `ServiceProofs`, `TcpDumpProofs` | theorems | the module they are named for |

The components are checked one by one, but for HTTP service and command output, which `Service` composes. What one assumes of another is a property of the
other: `FileTail` and `SinceDB` let `Inchan` take what a reader sends, which is `SenderServed` of
`Pipeline`; `SinceDB` takes lines in the order that `ReadsAll` and `SentLines` of `FileTail`
promise; the packets `LogRotator` numbers are `written` of `Pipeline`; `Feed` of `Process` is the send of
an input to `Inchan`, and `WriteReturns` of `Service` is what `Pipeline` assumes of `DoWrite`; `TcpDump` ends where
`Capture` of `Pipeline` begins.

Operators named "Mutant" in a comment are not part of a specification: they are plausible bugs of
the definition below them, and `PROJECT.json` says which property each of them breaks.

### Pipeline

A goroutine is at a label of `pc`; a sender (a file reader, a fired cron job, a capture device, an
HTTP stream) is in `sender`. A statement that may block is one action with the guard that lets it
continue; statements without effect on others are part of the action before them. `FilterRecv` is
receive and `DoFilter`; `PushRecv`, `PushCount`, `BulkRecv`, `WriteOne` are the lines of
`messagesPush`, the count a step of its own because `len(Outchan)` is read once and used in the
loop behind it. `StartFile`, `StartCron`, `StartTcpDump`, `StdinSend` are the `StartInput`s. A send on a
closed channel is `FilePanic`, `CapturePanic`, `StdinPanic` or `FilterPanic`, or, where the code or the cron
library recovers it, `StreamEnd` and `JobRecover`. `proc` says how the process ended:
`fatal` (`Fatal`, `os.Exit` at the start), `panic` (a closed channel), `crash` (any other panic), `stopped`
(`Exit`), `forced` (`SafeExit`).

What the process may lack is in `opts.missing`: a plugin, a configuration, a value of the type that is
asserted, a port, a device, a file, a broker, a descriptor. The panics that follow are actions:
`ValuePanic` (`flie_input.go:57`, `cron_input.go:48`, the casts of the tcpdump input), `InitPanic` (`SetContext` of logr
and rabbitmq asserts that values are strings; that of rabbitmq panics when a broker answers, since `amqpClients` is
never made), `WritePanic` (no writer of logr, no pool of hosts of rabbitmq, and a packet that is one quotation mark for
the command output, one of `Quotes`; `CanWrite` is the condition), `AcceptPanic` (the nil `Logger` of `web.go`). `main`
does not look at what an output can do before it lets the input send, whatever the comment at
`agentd.go:177-180` intends: such a process takes messages and panics at the first batch.

Abstractions: a message is its number in the order of `Inchan`. `Rejected` are the messages for which
`DoFilter` gives an error; the shipped filter refuses `nil` only, the interface allows any. Channels
have a capacity of 1 or more (0, an unbuffered channel, is not modelled). A captured
packet that is dropped, the receives of `/empty` from closed channels, and waiting are stutters. What an input holds
before `Inchan` takes it is not counted: the goroutines of `cron_input.go:53` and the channel of 5000 packets of
`tcpdump_input.go:263`. A signal comes after `Start` has returned; before
that it ends the process as it does any other. Panics inside vendored libraries and fatal errors of the Go
runtime (out of memory, concurrent use of a map, which is in `SinceDB`) are not among those of `PanicCauses`.

### FileTail

Per file, `rpc` is where `fileReadLoop` is and `wpc` where `fileWatchLoop` with `waitWatchEvent` is.
`mapWatcher[dir]` is `watcher`; a watcher has its own `queue` of events, and `active` are those to which
`Add` was applied. Lookup, creation and `Add` are separate steps, since another loop may come
in between. `Fill` is a read of the file, `TakeLine` the rest of the round with the offset it
records, `Eof` drops what is behind the last newline (as `readline` does), `Wake` and `Reopen`
follow a `Write` and a `Create` event; `Rewind` is the truncation check. `WatchTake` receives an
event, `WatchDrop` receives one of another file and throws it away. `WatchFails` is a `NewWatcher` or an `Add` that
fails, or an error of the watcher: the loop of the
file ends, and a watcher that was stored stays in `mapWatcher`. The files are external:
`AppendBytes`, `Truncate`, `Unlink`, `Create`, at any moment. `EventIgnored` is fsnotify: an event of a file
that is not there when it is read is not passed on.

Abstractions: bytes are numbered, an even number is a newline, so a line is two bytes
and an append may end in the middle of one. One read takes all there is (files below the 16 KB of the
reader's buffer). `StartPos` is "end", the only value the code sets. Errors of `Stat` are those of
open. The kernel merges equal consecutive events; that its queue may overflow is not modelled. A program that goes on
writing to a file that was renamed is not modelled. `missed`, `stolen` and `out` are history variables: whether the last
change came when nobody watched or its event was ignored, whether it went to another loop, and the bytes of the lines sent.

### SinceDB

`infos` is `SinceDBInfos`, `lastRaw` is `sinceDBLastInfosRaw`, `disk` the file. Offsets count lines.
A reader opens, reads (and counts the line), sends, then calls `CheckSaveSinceDBInfos` as saver;
the loop is one more saver. A save has three steps that others may interleave with: marshal and
remember (`Save`; the time, the marshalling and the assignment of `sincedb.go:54, 61, 65` are one step, which only an
overlapping saver could see apart, and `SavedWhenAlone` excuses those), truncate (`WriteOpen`), write (`WriteFill`, or
`WriteFails`). `End` ends the process at
any step - a signal, since `Exit` saves nothing, or the runtime's fatal error for concurrent use
of the map. `Restart` loads what is on disk: if that is not readable JSON, `StartInput`
returns and the process idles. `passed` are the lines a reader without an offset begins behind. An end of the
process before its first save makes the reader begin at the end of the file again: what it passes over so, any
number of lines, is excused in `LossBounded`, which counts what a reader with an offset loses.

### LogRotator

`file` is the file that has the path, `old` the writer's file once the path leads elsewhere
(`detached`). A `Write` is `TakePacket`, then `Clear` or `ClearFails` if the size in memory has reached
`MaximumSize`, then `AppendPacket` or `AppendFails` (a part of the packet is written).
`OpenFails` and `NilPanic` are the writer that `SetContext` does not check (a `logr_path` that is no string panics in
`Pipeline`'s `InitPanic`). `Move`, `Cut`, `Create` are
others; `End` may come at every step. `SetContext` sets `RotateDaily` to false and nothing calls
`rotate` and what it uses, so these are left out. One goroutine writes, so the mutex is never
contended.

### Process, Api, Command and Service

`Process` has what the two share: `proc`, `closed` (the channels), `files` (descriptors in use) and `queue`
(how many messages `Inchan` and `Outchan` hold, at most `QueueSize`). `Feed` fills it without end. In `Api` each request is a goroutine that goes from the connection (`Accept`) through its
handler (`Handle`, `MemProf`, `Cpu...`, `Profile...`, `Empty...`) to what the handler returns - data, a `Result` or another
error - and the decorators: `Respond`, `RespondResult`, `ErrorPanics` (`err.(Result)` on an error that
is none) and `RespondFailure` (the recovered panic). `content` are the requests whose profile is in the one
profile file, `profiler` is the request whose `StartCPUProfile` succeeded; `CpuStart` ignores the error and
`CpuStop` stops whatever runs, as the code does. `Collect` is the garbage collector closing the profile file. A failed
`os.Create` ends the process (`CreateFails`); an `Accept` without a descriptor panics (`AcceptPanic`).

In `Command` a batch is taken as `messagesPush` does; `StartChild` and `StartFails` are `ScriptRun` for one packet. The
second may come at any time - a full process table, missing descriptors, no `sh`, data with a NUL or too long for an
argument - and is the only one possible in the first two cases. A child runs, exits (`ChildExits`), its pipe is
closed (`PipeCloses`), and it stays in the table. `QuotePanic` is `cmd[1:0]`. What the commands print is
dropped by the code and by the model. The timeout of `ScriptRun` is never used.

Abstractions: descriptors are counted, not named; those that are open for the life of the process are not
counted. A profile that is written over a longer one may leave its end in the file, hence the choice in
`StopProfiler`. A request has a connection of its own.

### TcpDump

`place` is where the start is. `LoadConf` reads the next file of `plugins_config_paths`: a file that is missing or
unreadable is passed over, a later one replaces an earlier one, a name that is no text panics (`LoadPanic`).
`ReadConfig` is `initListenPort` up to the processes; the option `-f` replaces the settings (`Map`).
`FindPids` is `ps` for one name, without the processes that have "grep" in their command line, `FindPorts` the connections
of one process found, and `Change` is the host going on in between and later. Either may fail: `FindPidsFails` passes
over the name, `FindPortsFails` over the process (it is gone, or it belongs to another user). `StartListen` is `findDevices`
with a goroutine for each device, which opens it (`Listen`) or, when that fails or libpcap refuses
the filter (no port at all, or a null), ends the process (`ListenFails`), one after the other. `Packet` is a packet with the label
`processPacket` or `httpStream.run` gives it, and with the listeners that see it.

Abstractions: a filter is a set of ports; an http request is its packet; flushing and reassembly are the library's. `snaplen`
is cast like the TTL and panics like it (`TtlValue`). `findDevices` goes through the list in the order of libpcap; the model
chooses any bond. A device is made of others (`slaves`) if it is a bond, a bridge or a team, whatever its name, and the code
takes it for a bond by its name: `CapturedOnce` speaks of hosts where that is right (`OnlyBonds`), otherwise the
packets of a bridge with its devices are captured twice. `held`, `changed` and `missed` are history
variables, so that `Labelled` speaks of processes that did not change and that no failed lookup passed over.

## 3. The runs

| run | constants | states | shows |
|---|---|---|---|
| `pipeline` | channels and bulk of 1, 2 senders (one may be an HTTP stream), 4 messages of which one is rejected and one is a quotation mark, 1 `/empty`, 21 configurations | 74,107 | all safety properties, `IInv`, that `Pipeline` implements `Delivery`, and `EventuallyHandled`, `SenderServed`, `SignalEnds` |
| `filetail_one` | 1 file, 4 bytes in pieces of 1 or 2, 2 truncations or removals, failing reads and watchers | 793,606 | the reader's safety, `WakeupComing` with removals and failures, `EventuallySent` |
| `filetail_two` | 2 files (symmetric), 4 bytes each | 2,439,103 | no lost wake-up but for stolen events |
| `sincedb_safety` | 2 files of 3 and 1 lines, 2 restarts, failing writes | 3,009,868 | what restarts with an offset lose is bounded |
| `logrotator_safety` | `MaximumSize` 3, packets of 1 and 2 bytes, 6 packets, 2 restarts, 2 turns, every call may fail | 198,404 | size known and bounded, newest packets kept |
| `service` | 3 requests in 5 mixes of kinds, 5 descriptors, a queue of 1 that is filled without end, 1 packet for `DoWrite`, 1 slot of the process table | 239,014 | answers, profiler, descriptors, commands; liveness of requests and of `DoWrite` |
| `tcpdump` | 3 ports, 2 names, 3 processes (one with pid 1), 7 lists of files, 6 values of `-f`, 3 hosts, 3 sets of devices (a bond, a bridge, plain devices), 1 change | 5,962,567 | the label of each packet, no packet twice |
| `batch_size`, `safe_exit`, `filetail_shared`, `filetail_offset`, `sincedb_saved` | smallest that show it | - | a disagreement between a document or comment and the code, section 6 |

Why the bounds are enough. *Pipeline*: with four messages, channels of 1, a batch of up to two and one
message in the filter every place is full at some time and the senders wait; a batch is cut by the
bulk limit and by the length of `Outchan`; the configurations reach every action and every cause of a panic. One `/empty`
meets every step; calls hold a lock, so two are one after the other. *FileTail*: four bytes are two lines, so that a line
can be in the buffer while another is written, and one can be torn;
two turns allow a truncation and then a replacement, or both halves of two replacements. Two files are
enough for two loops to race for the map and for each other's events. *SinceDB*: three savers
(two readers and the loop); two restarts let a loss be repeated. *LogRotator*: six packets fill and clear
the file twice with failing clears in between. *Service*: with five descriptors, of which
three requests, a profile file and a command take one each and two must be free to start a command, the table is
full in some states and not in others, and a request may meet `AcceptPanic` or `CreateFails`. In two of the mixes two requests share the
profiler beside a third one that is connected too. One packet is enough for `WriteReturns`: with one entry in the process
table a second one could not be started, which `StartFails` allows the first one too. `Feed` has no bound, so `/empty` meets channels that
are refilled for ever. Theorem `AloneIsWhole` covers three users of the profiler and more. *TcpDump*: two names that match one process, one that matches two processes, a
port in both lists, a port that changes hands, each lookup failing; a bond with its devices, a bridge, plain devices, no
device when `findDevices` fails.

`Spec` of `Pipeline` stutters explicitly when the process has ended (`Ended`), and TLC checks it for
deadlocks, and so does that of `Service`. The other configurations say `CHECK_DEADLOCK FALSE`: there goroutines may
all have ended, or the bounds on bytes, packets and restarts may be used up.

`TakenBounded` (what `Inchan` took and nobody has written is bounded by the options) is proved, not run:
with four messages no instance comes near the bound. So is how far a batch may exceed `MaxWriteBulkSize`
(`BatchIsBounded`): the packet received by the `select` comes on top of up to `MaxWriteBulkSize` more (`ioloop.go:98`), which
run `batch_size` shows.

`EventuallyHandled` excuses a process in which `/empty` was called: if `Empty` takes the packets that
`messagesPush` has counted, the bulk loop waits with its batch until new packets come.
No document says that it does not; `BulkBacked` is the safety property about it, and says that nothing but `/empty` can do
that. `SenderServed` and `SignalEnds` hold with `/empty`.

`RequestAnswered` has two parts: every request but `/empty` is answered; `/empty`, and those that wait for its
lock, if messages stop coming (`MessagesStop`), since `Empty` goes on with the lock as long as the channels are refilled
(`agentd.go:94-101`). Both excuse a process that is being stopped.

## 4. Fairness

`Pipeline.FairSpec`: goroutines that can run are scheduled (WF), plugins return and timers fire (WF).
SF for `FilterExit` and `PushExit`: Go's `select` chooses at random among ready cases, so a closed
`exitChan` that is ready again and again is chosen some time. SF for `Send(s)`: waiting senders are
served first come, first served. A signal, data, captures and `/empty` need not come. `FileTail` and
`SinceDB`: the goroutines are scheduled, and time passes; nothing obliges a file to change or the process to end, and in
`FileTail` a watcher loop does more than fail: fairness is of its steps but `WatchFails`. `Service`: the goroutine of an accepted request is
scheduled and gets the lock in the end (`sync.Mutex` is fair to those that wait long); a profile's 30 seconds pass; a `DoWrite`
goes on; the copying goroutine sees the end of its pipe. Requests, messages, signals, the end of a
command or of a connection, and the garbage collector need not come. `TcpDump` has safety only.

## 5. Proofs

Liveness under fairness, `ENABLED`, and what recursive definitions compute are outside the
prover's reach; they stay with TLC. Assumptions are those on the constants, named in the modules.

* **`DeliveryProofs`.** `InOrder` and `Accounted` from an inductive invariant of `Delivery`: `written \o
  pending` is increasing, and with `discarded` it is exactly `1..accepted`.
* **`PipelineProofs`.** `IInv` is inductive (`Invariance`). The properties are not by themselves: that a batch is bounded
  needs what `left` may be in the bulk loop (`BatchOK`); that the output is ready first needs the order of
  the starts (`StartOK`); that panics have their causes needs the order of the closes (`CloseOK`), that nothing was taken
  before the input started, and what the batch holds in `DoWrite`;
  that `Exit` keeps a batch needs what each goroutine holds at each label (`BatchOK`, `EndOK`).
  `BulkBacked` is inductive with `emptying => empties > 0`: only `/empty` takes from `Outchan` beside the output.
  `Refinement` shows that each step of `Pipeline` is a step of `Delivery` or a stutter under
  `pending <- packets \o outchan \o held \o inchan`; `OrderedAndAccounted` carries the laws of `Delivery`
  over. `SequenceFacts` has the lemmas on concatenation, `Tail` and removal.
* **`FileTailProofs`.** For any set of files, file sizes, chunks and size of the event channel; `FilesAssumption` says that
  the value for "no watcher" is not a file. `Watching` says which watcher each loop holds, and where. Besides it the
  invariant speaks of one file at a time, and `OthersKeep` shows that the loops of another file leave
  what it names alone. `ReaderOK`: what is read and not sent lies between the offset and the position,
  which is `OffsetBehind`. `Grown`: a file that was only appended to is the one the reader has open, and
  no `Create` event is anywhere on its way. `ReadOK`: then what was sent and what is in the buffer are, in order,
  bytes the reader went over, and all of them up to a newline unless a line was torn; `ReadsAll` follows.
  `SentOK`: a line ends with its only newline (`SentLines`). `WakeOK`: a reader that waits has an event on its way, or has read
  everything, unless the change was missed or its event stolen (`WakeupComing`); the cases are the places where an event can
  be - the queue of the watcher the loop waits at, its hand, the event channel.
* **`SinceDBProofs`.** For any number of files, lines and restarts. What a restart loses is bounded only because the bound
  holds wherever offsets are: in memory, on disk, and in every copy that a saver has marshalled and not
  written yet (`Kept`), each with one more line lost for each restart it may have outlived. `Reading` ties a reader's line to
  its offset at each label; `Called` says that a reader saves after it has sent. `Alone` says that as long as
  savers never overlapped at most one of them saves, and what it holds is what `lastRaw` remembers, from which `SavedWhenAlone` follows.
* **`LogRotatorProofs`.** `IInv` says what `currentSize` may have forgotten of the file: one `Limit` for each
  clear that failed in a row. `SizeKnown` and `FileBounded` follow: a write is only reached
  with `currentSize < MaximumSize`, so the file grows to at most one `Limit` beyond what was forgotten.
  All hold for every `MaximumSize`, packet size and number of restarts. `NewestKept` needs more than its own
  statement (`Newest`): that the packet in `Write` is the newest one and not in the file yet, and that a file which took
  the path of the writer's is empty as long as the writer has the old one.
* **`ServiceProofs`.** For every number of requests (finite, `RequestsAssumption`), descriptors, packets and slots of the
  process table. Three inductive invariants: `Control` says where a request of each kind may be, which
  `AnsweredOnce` needs (the code of an answer depends on the place it is written from) and `ProfilerOwned` is part of;
  `Commands` says which packets `DoWrite` has gone through, so that it always goes to one that was not started
  yet; `Counted` says that
  who has a profile file open has got to it, without which creating one might not add to the count of `FilesCounted`.
  `TypeOK` follows from the three and `Shared`. `WholeWhenAlone` rests on a fourth, `Alone`: a request that met no other
  is the only user of the profiler as long as it needs it, owns it while it sleeps, and finds its own
  profile in the file once it has stopped; nobody can have cut it (`Undisturbed`).

* **`TcpDumpProofs`.** For all lists of files, values of `-f`, hosts and devices. `Labelled` needs a description of the whole start:
  `file` is what the last readable of the files read so far says (`Loading`, `ReadUpTo`), the names still to look up are the last ones
  of those wanted (`LookingUp`), and a port that only one unchanged process had carries the last of
  the names looked up that this process matches (`Named`, with `Done` for a process whose ports are found before the
  next name is). A lookup that fails for a process puts it into `missed`, of whose members `Named` says nothing. `World` says
  that a process that did not change has the ports it held. `CapturedOnce` holds
  because the listeners, and those still to open, are one of the sets `Found` (`Listening`), in which a device named like a
  bond is never with its slaves.

Every safety property of a passing run is a theorem, and so is every action property and the refinement. Model-checked only are
the liveness properties (`EventuallyHandled`, `SenderServed`, `SignalEnds`, `EventuallySent`, `WriteReturns`,
`RequestAnswered`), and the properties of section 6, which TLC refutes.

## 6. Where comments and code differ

Each is a run whose property TLC refutes; `PROJECT.json` quotes the lines.

1. `safe_exit`: `SafeExit` takes an empty `Outchan` for finished sends, and may wait forever for an `Outchan` that
   nobody empties any more.
2. `batch_size`: a batch has up to `MaxWriteBulkSize + 1` packets; README and the comment at `ioloop.go:100` say
   `MaxWriteBulkSize`.
3. `filetail_shared`: a file's loop throws away the events of the other files of its directory.
4. `filetail_offset`: the offset of a file that is read from its end counts from 0.
5. `sincedb_saved`: two savers may leave the older offsets on disk for good.

Others that need no run to be seen: `ttl_per_minutes` is a number of seconds, at most 50 (`tcpdump_input.go:96, 248`); rabbitmq
never publishes; "end" is logged while a command runs (`cmd_output.go:48`).

## 7. Not modelled, and why

* Parsing of TOML, JSON and BPF, and TCP reassembly: libraries. The concurrent use of one `Assembler` by all devices
  (`tcpdump_input.go:291`) lies in a vendored library.
* Durations (the TTL, `SendInterval`, the save interval): events.
* Dead code. In `util`: `stringutil.go` but for `JsonStringToMap`, `fileutil.go` but for `IsExist`, `ip.go`, `file_lock.go`,
  `http.go`, `ShellInt`; `UnmashallPackets`, `PostParams`, `acceptVersion`; `rotate` and what it calls. rabbitmq's `reconnect` and retries
  can never be reached, see `InitPanic` and `WritePanic`.
* The text of the lookups of `/debug` (`printGC` and its formats).
* inotify's queue of events may overflow, and then events are lost; no bound of it is modelled.
* `monitor` returns at once. Vendored code is modelled by the guards of the actions that use it.

## 8. Plan

Done: `Delivery`, `Pipeline`, `FileTail`, `SinceDB`, `LogRotator`, `Process`, `Api`, `Command`, `Service` and `TcpDump`, and the proofs
of every safety property the runs check. No component with logic of its own is left without a model.

What is left:

1. Theorems that say more than the runs ask: `FileTail` implements a specification of a reader that sends a file's lines
   in order (the sends of one file are a behaviour of `Delivery` as long as the file only grows).
2. How `held`, `changed` and `missed` of `TcpDump` limit `Labelled`: what holds for a port that changed hands once.
3. Liveness, if a prover for `ENABLED` and fairness becomes available.

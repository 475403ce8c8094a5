------------------------------ MODULE Pipeline ------------------------------
(***************************************************************************)
(* The agent process of mafio: the goroutines that agentd.go, ioloop.go    *)
(* and the four input plugins start, the channels between them, the two    *)
(* ways the process is stopped (Exit on a signal, SafeExit when the TTL of *)
(* the tcpdump input expires) and the /empty handler of the HTTP service.  *)
(*                                                                         *)
(*   senders --Inchan--> messagesFilted --Outchan--> messagesPush --> DoWrite *)
(*                                                                         *)
(* A message is named by its place in the order in which Inchan took it.   *)
(* A goroutine is at a label of pc; a statement that blocks is an action   *)
(* with the guard that lets it go on, a send on a closed channel panics.   *)
(***************************************************************************)
EXTENDS Naturals, SequencesExt, FiniteSetsExt, Functions

CONSTANTS
    MaxReadChannelSize, MaxWriteChannelSize, MaxWriteBulkSize,   \* agent.Options
    Configs,    \* the option records a process may be started with, see Config
    Senders,    \* goroutines an input plugin sends from: a file reader, a cron
                \* job that fired, a capture device, an http stream
    Streams,    \* the senders that are http streams of the tcpdump input
    Rejected,   \* the messages for which DoFilter returns an error
    Quotes,     \* the messages that are one quotation mark
    MaxMsgs,    \* bound: messages offered to Inchan
    MaxEmpties  \* bound: calls of /empty

Inputs  == {"stdin", "file", "cron", "tcpdump"}
Outputs == {"stdout", "command", "logr", "rabbitmq"}

\* What Main and the plugins look at: the two plugins; whether an HTTP address
\* is given; whether tcpdump has a TTL; what cannot be had: a plugin of that
\* kind, the configuration of the input, a value of the input's or of the
\* output's configuration that has the type its plugin asserts, the HTTP port, a
\* capture device, the file of logr, any broker of rabbitmq, a descriptor for
\* one more connection.
Config == [input : Inputs, output : Outputs, http : BOOLEAN, ttl : BOOLEAN,
           missing : SUBSET {"input", "filter", "output", "config", "inputValue",
                             "outputValue", "port", "device", "file", "broker",
                             "descriptor"}]

ASSUME ReadSizeAssumption  == MaxReadChannelSize \in Nat \ {0}
ASSUME WriteSizeAssumption == MaxWriteChannelSize \in Nat \ {0}
ASSUME BulkSizeAssumption  == MaxWriteBulkSize \in Nat
ASSUME ConfigsAssumption   == Configs \subseteq Config
ASSUME StreamsAssumption   == Streams \subseteq Senders
ASSUME BoundsAssumption    == MaxMsgs \in Nat /\ MaxEmpties \in Nat

VARIABLES
    opts,       \* the options of this process
    proc,       \* "up", or how it ended: "fatal" by os.Exit, "panic" at a closed
                \* channel, "crash" by any other panic, "stopped", "forced"
    pc,         \* where each goroutine of Goroutines is
    sender,     \* where each sender is
    closed,     \* the channels that were closed
    inchan,     \* Agentd.Inchan
    held,       \* the message the filter is sending, <<>> or <<m>>
    outchan,    \* Agentd.Outchan
    packets,    \* the batch of messagesPush
    left,       \* receives its bulk loop still has to do
    accepted,   \* how many messages Inchan took
    written,    \* messages given to the output, in order
    discarded,  \* messages the filter rejected or /empty removed
    emptying,   \* an Empty holds the lock of the agent
    empties     \* how many were called

flow == <<inchan, held, outchan, packets, left, accepted, written, discarded>>
vars == <<opts, proc, pc, sender, closed, flow, emptying, empties>>

Goroutines == {"main", "serve", "output", "filter", "input"}
Channels   == {"messageCollectStartedChan", "exitChan", "Inchan", "Outchan"}
\* Labels of the sequence of closes that Exit and SafeExit share.
Closing    == {"exitChan", "Inchan", "Outchan", "finish"}
Labels     == {"off", "init", "await", "running", "serving", "select", "count",
               "bulk", "write", "send", "wait", "ttl", "done"} \cup Closing

Init ==
    /\ opts \in Configs
    /\ proc = "up"
    /\ pc = [g \in Goroutines |-> IF g = "main" THEN "init" ELSE "off"]
    /\ sender = [s \in Senders |-> "off"]
    /\ closed = {}
    /\ inchan = <<>> /\ held = <<>> /\ outchan = <<>>
    /\ packets = <<>> /\ left = 0
    /\ accepted = 0 /\ written = <<>> /\ discarded = {}
    /\ emptying = FALSE /\ empties = 0

-----------------------------------------------------------------------------
\* Goroutine g runs and is at label l / goes on to label l.
At(g, l) == proc = "up" /\ pc[g] = l
Goto(g, l) == pc' = [pc EXCEPT ![g] = l]
Move(s, l) == sender' = [sender EXCEPT ![s] = l]

\* The process ends: os.Exit, a panic nobody recovers, or the end of main.
Die(how) ==
    /\ proc' = how
    /\ UNCHANGED <<opts, pc, sender, closed, flow, emptying, empties>>

\* Inchan takes a message.
Room == "Inchan" \notin closed /\ Len(inchan) < MaxReadChannelSize
Accept ==
    /\ accepted' = accepted + 1
    /\ inchan' = Append(inchan, accepted + 1)
    /\ UNCHANGED <<held, outchan, packets, left, written, discarded>>

-----------------------------------------------------------------------------
\* Agentd.Main and the start of its goroutines.

PortTaken == At("main", "init") /\ opts.http /\ "port" \in opts.missing /\ Die("fatal")

Launch ==
    /\ At("main", "init")
    /\ opts.http => "port" \notin opts.missing
    /\ pc' = [pc EXCEPT !["main"] = "await", !["output"] = "init",
                        !["serve"] = IF opts.http THEN "serving" ELSE "off"]
    /\ UNCHANGED <<opts, proc, sender, closed, flow, emptying, empties>>

\* Mutant: the filter and the input are launched without waiting for the output.
CollectAtOnce ==
    /\ At("main", "await")
    /\ pc' = [pc EXCEPT !["main"] = "running", !["filter"] = "init", !["input"] = "init"]
    /\ UNCHANGED <<opts, proc, sender, closed, flow, emptying, empties>>

Collect ==
    /\ At("main", "await")
    /\ "messageCollectStartedChan" \in closed
    /\ pc' = [pc EXCEPT !["main"] = "running", !["filter"] = "init", !["input"] = "init"]
    /\ UNCHANGED <<opts, proc, sender, closed, flow, emptying, empties>>

\* The output plugin of this process has something to write to. SetContext of
\* logr forgets the error of its writer; that of rabbitmq stores its client in a
\* nil map, and without a broker it leaves the pool of hosts nil.
OutputWorks ==
    /\ opts.output # "rabbitmq"
    /\ opts.output = "logr" => "file" \notin opts.missing

\* SetContext asserts that logr_path, rmq_address and rmq_key are strings; that of
\* rabbitmq also panics as soon as a broker answers.
SetContextPanics ==
    \/ opts.output \in {"logr", "rabbitmq"} /\ "outputValue" \in opts.missing
    \/ opts.output = "rabbitmq" /\ "broker" \notin opts.missing

InitPanic ==
    /\ At("output", "init")
    /\ "output" \notin opts.missing
    /\ SetContextPanics
    /\ Die("crash")

PluginMissing(g) == At(g, "init") /\ g # "main" /\ g \in opts.missing /\ Die("fatal")

OutputInit ==
    /\ At("output", "init")
    /\ "output" \notin opts.missing
    /\ ~SetContextPanics
    /\ Goto("output", "select")
    /\ closed' = closed \cup {"messageCollectStartedChan"}
    /\ UNCHANGED <<opts, proc, sender, flow, emptying, empties>>

FilterInit ==
    /\ At("filter", "init")
    /\ "filter" \notin opts.missing
    /\ Goto("filter", "select")
    /\ UNCHANGED <<opts, proc, sender, closed, flow, emptying, empties>>

-----------------------------------------------------------------------------
\* The input plugins: StartInput, which the wait group waits for, and the
\* goroutines it starts, which it does not.

Starting(input) == At("input", "init") /\ "input" \notin opts.missing /\ opts.input = input

ConfigMissing ==
    /\ At("input", "init")
    /\ "input" \notin opts.missing
    /\ opts.input # "stdin" /\ "config" \in opts.missing
    /\ Die("fatal")

\* StartInput asserts that stdFilePath (also one that is not there) is a string,
\* cron_map a table, the values of tcpdump strings or lists of strings.
ValuePanic ==
    /\ At("input", "init")
    /\ "input" \notin opts.missing
    /\ opts.input # "stdin" /\ "config" \notin opts.missing
    /\ "inputValue" \in opts.missing
    /\ Die("crash")

\* S goroutines of the input run from now on; StartInput goes on to l.
StartSenders(S, l) ==
    /\ opts.missing \cap {"config", "inputValue"} = {}
    /\ sender' = [s \in Senders |-> IF s \in S THEN "idle" ELSE "off"]
    /\ Goto("input", l)
    /\ UNCHANGED <<opts, proc, closed, flow, emptying, empties>>

\* One reader for each file that matches; StartInput returns at once.
StartFile == Starting("file") /\ \E S \in SUBSET Senders : StartSenders(S, "done")

StartCron == Starting("cron") /\ StartSenders(Senders, "wait")

\* One listener for each device; the http streams come later.
StartTcpDump ==
    /\ Starting("tcpdump")
    /\ \E S \in SUBSET (Senders \ Streams) :
          StartSenders(S, IF opts.ttl THEN "ttl" ELSE "done")

StdinSend ==
    /\ Starting("stdin")
    /\ accepted < MaxMsgs
    /\ Room /\ Accept
    /\ Goto("input", "done")
    /\ UNCHANGED <<opts, proc, sender, closed, emptying, empties>>

\* A select may choose the send of a closed channel when exitChan is closed too.
StdinPanic == Starting("stdin") /\ "Inchan" \in closed /\ Die("panic")

InputExit ==
    /\ Starting("stdin") \/ At("input", "wait")
    /\ "exitChan" \in closed
    /\ Goto("input", "done")
    /\ UNCHANGED <<opts, proc, sender, closed, flow, emptying, empties>>

\* A file has another line, a cron schedule fires: the goroutine comes to its
\* send. None of them looks at exitChan.
Ready(s, l, inputs) == proc = "up" /\ sender[s] = l /\ opts.input \in inputs

Offer(s) ==
    /\ Ready(s, "idle", {"file", "cron"})
    /\ accepted + Cardinality({r \in Senders : sender[r] = "send"}) < MaxMsgs
    /\ Move(s, "send")
    /\ UNCHANGED <<opts, proc, pc, closed, flow, emptying, empties>>

Send(s) ==
    /\ Ready(s, "send", {"file", "cron"})
    /\ Room /\ Accept
    /\ Move(s, "idle")
    /\ UNCHANGED <<opts, proc, pc, closed, emptying, empties>>

FilePanic(s) == Ready(s, "send", {"file"}) /\ "Inchan" \in closed /\ Die("panic")

\* The scheduler of the cron library recovers the panic of a job.
JobRecover(s) ==
    /\ Ready(s, "send", {"cron"})
    /\ "Inchan" \in closed
    /\ Move(s, "idle")
    /\ UNCHANGED <<opts, proc, pc, closed, flow, emptying, empties>>

\* A listener may find that it cannot open its device, when others already capture.
ListenFatal(s) ==
    /\ Ready(s, "idle", {"tcpdump"})
    /\ s \notin Streams
    /\ "device" \in opts.missing
    /\ Die("fatal")

StreamNew(s) ==
    /\ Ready(s, "off", {"tcpdump"})
    /\ s \in Streams
    /\ \E d \in Senders \ Streams : sender[d] = "idle"
    /\ Move(s, "idle")
    /\ UNCHANGED <<opts, proc, pc, closed, flow, emptying, empties>>

\* A packet or a request was captured: it is sent if Inchan has room. If it has
\* none it is dropped, which changes nothing.
Capture(s) ==
    /\ Ready(s, "idle", {"tcpdump"})
    /\ accepted < MaxMsgs
    /\ Room /\ Accept
    /\ UNCHANGED <<opts, proc, pc, sender, closed, emptying, empties>>

CapturePanic(s) ==
    /\ Ready(s, "idle", {"tcpdump"})
    /\ s \notin Streams
    /\ "Inchan" \in closed
    /\ Die("panic")

\* The deferred recover of httpStream.run ends the goroutine instead; it also
\* ends when its connection does.
StreamEnd(s) ==
    /\ Ready(s, "idle", {"tcpdump"})
    /\ s \in Streams
    /\ Move(s, "off")
    /\ UNCHANGED <<opts, proc, pc, closed, flow, emptying, empties>>

-----------------------------------------------------------------------------
\* messagesFilted: one message at a time, from Inchan to Outchan.

\* Mutant: the error of DoFilter is not looked at.
FilterAll ==
    /\ At("filter", "select")
    /\ inchan # <<>>
    /\ inchan' = Tail(inchan)
    /\ held' = <<Head(inchan)>> /\ Goto("filter", "send")
    /\ UNCHANGED <<opts, proc, sender, closed, emptying, empties,
                   outchan, packets, left, accepted, written, discarded>>

\* Mutant: the filter ends when DoFilter returns an error.
FilterEndsOnError ==
    /\ At("filter", "select")
    /\ inchan # <<>>
    /\ inchan' = Tail(inchan)
    /\ IF Head(inchan) \in Rejected
       THEN discarded' = discarded \cup {Head(inchan)} /\ Goto("filter", "done") /\ UNCHANGED held
       ELSE held' = <<Head(inchan)>> /\ Goto("filter", "send") /\ UNCHANGED discarded
    /\ UNCHANGED <<opts, proc, sender, closed, emptying, empties,
                   outchan, packets, left, accepted, written>>

FilterRecv ==
    /\ At("filter", "select")
    /\ inchan # <<>>
    /\ inchan' = Tail(inchan)
    /\ IF Head(inchan) \in Rejected
       THEN discarded' = discarded \cup {Head(inchan)} /\ UNCHANGED <<held, pc>>
       ELSE held' = <<Head(inchan)>> /\ Goto("filter", "send") /\ UNCHANGED discarded
    /\ UNCHANGED <<opts, proc, sender, closed, emptying, empties,
                   outchan, packets, left, accepted, written>>

\* Mutant: after its send the filter still holds the message.
FilterSendKeeps ==
    /\ At("filter", "send")
    /\ "Outchan" \notin closed
    /\ Len(outchan) < MaxWriteChannelSize
    /\ outchan' = outchan \o held
    /\ Goto("filter", "select")
    /\ UNCHANGED <<opts, proc, sender, closed, emptying, empties,
                   inchan, held, packets, left, accepted, written, discarded>>

FilterSend ==
    /\ At("filter", "send")
    /\ "Outchan" \notin closed
    /\ Len(outchan) < MaxWriteChannelSize
    /\ outchan' = outchan \o held /\ held' = <<>>
    /\ Goto("filter", "select")
    /\ UNCHANGED <<opts, proc, sender, closed, emptying, empties,
                   inchan, packets, left, accepted, written, discarded>>

FilterPanic == At("filter", "send") /\ "Outchan" \in closed /\ Die("panic")

FilterExit ==
    /\ At("filter", "select")
    /\ "exitChan" \in closed
    /\ Goto("filter", "done")
    /\ UNCHANGED <<opts, proc, sender, closed, flow, emptying, empties>>

-----------------------------------------------------------------------------
\* messagesPush: a first message, then as many more as Outchan held at that
\* moment, at most MaxWriteBulkSize, then DoWrite of the batch.

PushRecv ==
    /\ At("output", "select")
    /\ outchan # <<>>
    /\ packets' = Append(packets, Head(outchan))
    /\ outchan' = Tail(outchan)
    /\ Goto("output", "count")
    /\ UNCHANGED <<opts, proc, sender, closed, emptying, empties,
                   inchan, held, left, accepted, written, discarded>>

Smaller(m, n) == IF m < n THEN m ELSE n

Count(n) ==
    /\ At("output", "count")
    /\ left' = n
    /\ Goto("output", IF n = 0 THEN "write" ELSE "bulk")
    /\ UNCHANGED <<opts, proc, sender, closed, emptying, empties,
                   inchan, held, outchan, packets, accepted, written, discarded>>

\* Mutant: the length of Outchan does not bound the batch.
CountWithoutLength == Count(MaxWriteBulkSize)

PushCount == Count(Smaller(Len(outchan), MaxWriteBulkSize))

\* Mutant: the bulk loop does one round too many.
BulkOnce == Goto("output", IF left = 0 THEN "write" ELSE "bulk") /\ left' = left - 1

BulkNext == Goto("output", IF left = 1 THEN "write" ELSE "bulk") /\ left' = left - 1

BulkRecv ==
    /\ At("output", "bulk")
    /\ outchan # <<>>
    /\ packets' = Append(packets, Head(outchan))
    /\ outchan' = Tail(outchan)
    /\ BulkNext
    /\ UNCHANGED <<opts, proc, sender, closed, emptying, empties,
                   inchan, held, accepted, written, discarded>>

\* A closed and empty Outchan gives nil, which is not put in the batch.
BulkNil ==
    /\ At("output", "bulk")
    /\ outchan = <<>> /\ "Outchan" \in closed
    /\ BulkNext
    /\ UNCHANGED <<opts, proc, sender, closed, emptying, empties,
                   inchan, held, outchan, packets, accepted, written, discarded>>

\* Mutants: the newest packet is written first; the last packet is forgotten; the
\* batch is not reset after it, so the next batch begins with it again.
WriteLast ==
    /\ At("output", "write")
    /\ written' = Append(written, Last(packets))
    /\ packets' = Front(packets)
    /\ IF Len(packets) = 1 THEN Goto("output", "select") ELSE UNCHANGED pc
    /\ UNCHANGED <<opts, proc, sender, closed, emptying, empties,
                   inchan, held, outchan, left, accepted, discarded>>
WriteButOne ==
    /\ At("output", "write")
    /\ written' = IF Len(packets) = 1 THEN written ELSE Append(written, Head(packets))
    /\ packets' = Tail(packets)
    /\ IF Len(packets) = 1 THEN Goto("output", "select") ELSE UNCHANGED pc
    /\ UNCHANGED <<opts, proc, sender, closed, emptying, empties,
                   inchan, held, outchan, left, accepted, discarded>>

WriteWithoutReset ==
    /\ At("output", "write")
    /\ written' = Append(written, Head(packets))
    /\ packets' = IF Len(packets) = 1 THEN packets ELSE Tail(packets)
    /\ IF Len(packets) = 1 THEN Goto("output", "select") ELSE UNCHANGED pc
    /\ UNCHANGED <<opts, proc, sender, closed, emptying, empties,
                   inchan, held, outchan, left, accepted, discarded>>

\* The next write returns: there is something to write to, and the packet is not
\* a quotation mark, which cmdCall slices [1:0].
CanWrite == OutputWorks /\ (opts.output = "command" => Head(packets) \notin Quotes)

\* DoWrite writes the packets of a batch one after the other; then the batch is
\* reset. written is what the plugin was given: it ignores what a write returns.
WriteOne ==
    /\ At("output", "write")
    /\ CanWrite
    /\ written' = Append(written, Head(packets))
    /\ packets' = Tail(packets)
    /\ IF Len(packets) = 1 THEN Goto("output", "select") ELSE UNCHANGED pc
    /\ UNCHANGED <<opts, proc, sender, closed, emptying, empties,
                   inchan, held, outchan, left, accepted, discarded>>

\* The first write goes through the nil writer of logr, or to the nil pool of
\* rabbitmq: nobody has asked Check. Or cmdCall slices a quotation mark.
WritePanic == At("output", "write") /\ ~CanWrite /\ Die("crash")

PushExit ==
    /\ At("output", "select")
    /\ "exitChan" \in closed
    /\ Goto("output", "done")
    /\ UNCHANGED <<opts, proc, sender, closed, flow, emptying, empties>>

-----------------------------------------------------------------------------
\* Exit, run by main after a signal, and SafeExit, run by the tcpdump input
\* when its TTL is over. Both close the listener and then three channels, one
\* after the other; a label of Closing is the channel to close next.

\* Mutant: exitChan is not closed.
StopWithoutExitChan(t, l) ==
    /\ At(t, l)
    /\ Goto(t, "Inchan")
    /\ UNCHANGED <<opts, proc, sender, closed, flow, emptying, empties>>

Stop(t, l) ==
    /\ At(t, l)
    /\ Goto(t, "exitChan")
    /\ UNCHANGED <<opts, proc, sender, closed, flow, emptying, empties>>

Signal == Stop("main", "running")
TtlExpires == Stop("input", "ttl")

\* Mutant: Outchan is not closed.
NextCloseButOutchan(c) == IF c = "exitChan" THEN "Inchan" ELSE "finish"

NextClose(c) == CASE c = "exitChan" -> "Inchan" [] c = "Inchan" -> "Outchan"
                  [] c = "Outchan" -> "finish"

CloseOne(t, c) ==
    /\ At(t, c)
    /\ c \notin closed
    /\ closed' = closed \cup {c}
    /\ Goto(t, NextClose(c))
    /\ UNCHANGED <<opts, proc, sender, flow, emptying, empties>>

\* The other one has closed this channel already.
ClosePanic(t, c) == At(t, c) /\ c \in closed /\ Die("panic")

\* Serve returns once the listener is closed.
ServeEnd ==
    /\ At("serve", "serving")
    /\ pc["main"] \in Closing \/ pc["input"] \in Closing
    /\ Goto("serve", "done")
    /\ UNCHANGED <<opts, proc, sender, closed, flow, emptying, empties>>

\* Mutant: Exit does not wait for the output.
ExitAtOnce ==
    /\ At("main", "finish")
    /\ \A g \in {"serve", "filter", "input"} : pc[g] \in {"off", "done"}
    /\ Die("stopped")

\* waitGroup.Wait returns, and with it Exit, Stop, svc.Run and main.
ExitReturn ==
    /\ At("main", "finish")
    /\ \A g \in Goroutines \ {"main"} : pc[g] \in {"off", "done"}
    /\ Die("stopped")

\* SafeExit polls the length of Outchan and nothing else.
SafeExitReturn == At("input", "finish") /\ outchan = <<>> /\ Die("forced")

\* net/http logs an Accept that failed for want of a descriptor and goes on; the
\* logger it was given embeds a nil Logger.
AcceptPanic == At("serve", "serving") /\ "descriptor" \in opts.missing /\ Die("crash")

-----------------------------------------------------------------------------
\* Agentd.Empty: receives from both channels until both have nothing to give.
\* (A closed channel always has: the loop never ends then, and changes nothing.)

EmptyStart ==
    /\ proc = "up" /\ pc["serve"] # "off"
    /\ ~emptying /\ empties < MaxEmpties
    /\ emptying' = TRUE /\ empties' = empties + 1
    /\ UNCHANGED <<opts, proc, pc, sender, closed, flow>>

EmptyOut ==
    /\ proc = "up" /\ emptying /\ outchan # <<>>
    /\ discarded' = discarded \cup {Head(outchan)}
    /\ outchan' = Tail(outchan)
    /\ UNCHANGED <<opts, proc, pc, sender, closed, emptying, empties,
                   inchan, held, packets, left, accepted, written>>

EmptyIn ==
    /\ proc = "up" /\ emptying /\ inchan # <<>>
    /\ discarded' = discarded \cup {Head(inchan)}
    /\ inchan' = Tail(inchan)
    /\ UNCHANGED <<opts, proc, pc, sender, closed, emptying, empties,
                   held, outchan, packets, left, accepted, written>>

EmptyDone ==
    /\ proc = "up" /\ emptying
    /\ inchan = <<>> /\ outchan = <<>>
    /\ closed \cap {"Inchan", "Outchan"} = {}
    /\ emptying' = FALSE
    /\ UNCHANGED <<opts, proc, pc, sender, closed, flow, empties>>

-----------------------------------------------------------------------------

MainNext == PortTaken \/ Launch \/ Collect
InputNext == \/ ConfigMissing \/ ValuePanic \/ StartFile \/ StartCron \/ StartTcpDump
             \/ StdinSend \/ StdinPanic \/ InputExit
SenderNext(s) == \/ Offer(s) \/ Send(s) \/ FilePanic(s) \/ JobRecover(s)
                 \/ ListenFatal(s) \/ StreamNew(s) \/ Capture(s) \/ CapturePanic(s)
                 \/ StreamEnd(s)
FilterNext == FilterInit \/ FilterRecv \/ FilterSend \/ FilterPanic \/ FilterExit
PushNext == \/ OutputInit \/ PushRecv \/ PushCount \/ BulkRecv \/ BulkNil
            \/ WriteOne \/ PushExit
CloseNext(t) == \E c \in {"exitChan", "Inchan", "Outchan"} : CloseOne(t, c) \/ ClosePanic(t, c)
StopNext == \/ Signal \/ TtlExpires \/ CloseNext("main") \/ CloseNext("input")
            \/ ServeEnd \/ ExitReturn \/ SafeExitReturn
PanicNext == InitPanic \/ WritePanic \/ AcceptPanic
EmptyNext == EmptyStart \/ EmptyOut \/ EmptyIn \/ EmptyDone

\* The process has ended.
Ended == proc # "up" /\ UNCHANGED vars

Next ==
    \/ MainNext
    \/ InputNext
    \/ \E g \in {"output", "filter", "input"} : PluginMissing(g)
    \/ \E s \in Senders : SenderNext(s)
    \/ FilterNext
    \/ PushNext
    \/ StopNext
    \/ PanicNext
    \/ EmptyNext
    \/ Ended

Spec == Init /\ [][Next]_vars

-----------------------------------------------------------------------------
\* Fairness. Every goroutine that can run is scheduled, plugins return, timers
\* fire; Go's select chooses among its ready cases at random, so a closed
\* exitChan is chosen some time, and the senders waiting for a channel are served
\* in turn (strong fairness). Nothing obliges a signal, new data, a captured
\* packet, the end of a connection or a call of /empty to come.
Fairness ==
    /\ WF_vars(MainNext) /\ WF_vars(InputNext)
    /\ \A g \in {"output", "filter", "input"} : WF_vars(PluginMissing(g))
    /\ WF_vars(FilterNext) /\ SF_vars(FilterExit)
    /\ WF_vars(PushNext) /\ SF_vars(PushExit) /\ WF_vars(InitPanic \/ WritePanic)
    /\ \A s \in Senders : SF_vars(Send(s)) /\ WF_vars(FilePanic(s) \/ JobRecover(s))
    /\ WF_vars(TtlExpires) /\ WF_vars(ServeEnd)
    /\ WF_vars(CloseNext("main")) /\ WF_vars(CloseNext("input"))
    /\ WF_vars(ExitReturn) /\ WF_vars(SafeExitReturn)
    /\ WF_vars(EmptyOut \/ EmptyIn \/ EmptyDone)

FairSpec == Spec /\ Fairness

-----------------------------------------------------------------------------
\* Safety.

MsgSeq == Seq(Nat \ {0})

TypeOK ==
    /\ opts \in Configs
    /\ proc \in {"up", "fatal", "panic", "crash", "stopped", "forced"}
    /\ pc \in [Goroutines -> Labels]
    /\ sender \in [Senders -> {"off", "idle", "send"}]
    /\ closed \subseteq Channels
    /\ inchan \in MsgSeq /\ held \in MsgSeq /\ outchan \in MsgSeq
    /\ packets \in MsgSeq /\ left \in Nat
    /\ accepted \in Nat /\ written \in MsgSeq /\ discarded \subseteq Nat \ {0}
    /\ emptying \in BOOLEAN /\ empties \in Nat

\* What flows through the process keeps the promises of Delivery.tla: the
\* output writes in the order of Inchan, nothing twice, and what is neither
\* written nor discarded is in one of the four places, in that order.
Promise == INSTANCE Delivery WITH pending <- packets \o outchan \o held \o inchan
Delivers == Promise!DeliverySpec

\* The messages written, the batch, Outchan, the filter and Inchan hold, one
\* after the other, strictly increasing message numbers.
InOrder == Promise!InOrder

\* Every message Inchan took is in exactly one of those places or discarded.
Accounted == Promise!Accounted

\* A message the filter refused is never in a batch nor written (ioloop.go:48).
RejectedNeverWritten ==
    (Range(written) \cup Range(packets) \cup Range(outchan) \cup Range(held))
        \cap Rejected = {}

\* The messages that Inchan took and that are neither written nor discarded yet
\* are bounded by the options, however fast the inputs are (agentd.go:177-180). It
\* says nothing of what an input holds before Inchan takes it: cron_input.go:53
\* leaves a goroutine for each firing that waits, tcpdump_input.go:263 has a
\* channel of 5000 packets for each device.
TakenBounded ==
    Len(packets \o outchan \o held \o inchan)
        <= MaxReadChannelSize + MaxWriteChannelSize + MaxWriteBulkSize + 2

\* No input runs and no message is taken before the output plugin is ready
\* (agentd.go:177-181).
OutputReadyFirst ==
    accepted > 0 \/ (\E s \in Senders : sender[s] # "off") =>
        pc["output"] \notin {"off", "init"}

\* No goroutine meets a closed channel before the shutdown: until exitChan is
\* closed nothing is sent on, and nobody closes again, a closed channel
\* (agentd.go:116-118, 129-131). Any other panic comes either before the first
\* message, from a configuration of the wrong type or a broker that answers; or
\* in DoWrite, with a batch that holds the packet that could not be written; or
\* from the HTTP service, for want of a descriptor.
PanicCauses ==
    /\ proc = "panic" => "exitChan" \in closed
    /\ proc = "crash" =>
          \/ /\ accepted = 0
             /\ SetContextPanics \/ "inputValue" \in opts.missing
          \/ pc["output"] = "write" /\ packets # <<>> /\ ~CanWrite
          \/ pc["serve"] = "serving" /\ "descriptor" \in opts.missing

\* Exit lets main return only when no batch is half written and no message is
\* between the two channels; what is lost is what the channels still hold.
ExitKeepsBatch == proc = "stopped" => packets = <<>> /\ held = <<>>

\* The bulk loop never waits for a message that was not there when it counted,
\* as long as /empty does not drain Outchan behind its back (ioloop.go:98-104).
BulkBacked == empties = 0 /\ pc["output"] = "bulk" => left <= Len(outchan)

-----------------------------------------------------------------------------
\* The inductive invariant: what the safety properties rest on.

LabelsOK ==
    /\ pc["main"] \in {"init", "await", "running"} \cup Closing
    /\ pc["serve"] \in {"off", "serving", "done"}
    /\ pc["output"] \in {"off", "init", "select", "count", "bulk", "write", "done"}
    /\ pc["filter"] \in {"off", "init", "select", "send", "done"}
    /\ pc["input"] \in {"off", "init", "wait", "ttl", "done"} \cup Closing

\* Goroutines are started in order, the input behind the closing of
\* messageCollectStartedChan, and the senders by the input.
StartOK ==
    /\ pc["main"] = "init" => pc["output"] = "off"
    /\ pc["main"] \in {"init", "await"} => pc["filter"] = "off" /\ pc["input"] = "off"
    /\ pc["output"] \in {"off", "init"} => "messageCollectStartedChan" \notin closed
    /\ pc["input"] # "off" => "messageCollectStartedChan" \in closed
    /\ pc["input"] \in {"off", "init"} =>
          accepted = 0 /\ \A s \in Senders : sender[s] = "off"

\* exitChan is the first of the three channels to be closed.
CloseOK ==
    /\ "Inchan" \in closed \/ "Outchan" \in closed => "exitChan" \in closed
    /\ \A t \in {"main", "input"} : pc[t] \in Closing \ {"exitChan"} => "exitChan" \in closed

\* What messagesPush and messagesFilted hold where they are.
BatchOK ==
    /\ pc["output"] \in {"off", "init", "select", "done"} => packets = <<>>
    /\ pc["output"] = "count" => Len(packets) = 1
    /\ pc["output"] = "bulk" =>
          Len(packets) >= 1 /\ left >= 1 /\ Len(packets) + left <= MaxWriteBulkSize + 1
    /\ pc["output"] = "write" => Len(packets) \in 1..MaxWriteBulkSize + 1
    /\ Len(held) = IF pc["filter"] = "send" THEN 1 ELSE 0

CapacityOK == Len(inchan) <= MaxReadChannelSize /\ Len(outchan) <= MaxWriteChannelSize

EndOK ==
    /\ PanicCauses
    /\ proc = "stopped" => {pc["output"], pc["filter"]} \subseteq {"off", "done"}

IInv ==
    /\ TypeOK /\ LabelsOK /\ StartOK /\ CloseOK /\ BatchOK /\ CapacityOK /\ EndOK
    /\ BulkBacked /\ (emptying => empties > 0)
    /\ RejectedNeverWritten

-----------------------------------------------------------------------------
\* Liveness, for FairSpec.

ShuttingDown == closed \cap {"exitChan"} # {} \/ proc # "up"

\* A message that was taken is written or discarded, or the process stops, unless
\* /empty has been called: it may take the messages messagesPush has counted on,
\* which then waits, with a batch in hand, for others to come (ioloop.go:98-104).
EventuallyHandled ==
    \A m \in 1..MaxMsgs :
        accepted >= m ~> \/ m \in Range(written) \cup discarded
                         \/ ShuttingDown \/ empties > 0

\* A reader that waits for room in Inchan gets it, or the process stops, whatever
\* /empty takes away.
SenderServed == \A s \in Senders : sender[s] = "send" ~> (sender[s] # "send" \/ ShuttingDown)

\* After a signal the process ends, whatever its goroutines were doing.
SignalEnds == pc["main"] \in Closing ~> proc # "up"

-----------------------------------------------------------------------------
\* What documents and comments say and the code does not do.

\* README.md:64-65 and ioloop.go:100: a batch has at most MaxWriteBulkSize
\* packets. The receive of the select comes on top of the bulk loop
\* (ioloop.go:91-109).
BatchWithinBulkSize == Len(packets) <= MaxWriteBulkSize

\* agentd.go:123 and 133: SafeExit is a forced exit, which ends the process when
\* the send operations are finished.
SafeExitFinishes ==
    pc["input"] \in Closing ~> proc # "up" /\ (proc = "forced" => packets = <<>>)

=============================================================================

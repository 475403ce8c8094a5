----------------------------- MODULE MCPipeline -----------------------------
(***************************************************************************)
(* Instances of Pipeline for TLC.                                          *)
(***************************************************************************)
EXTENDS Pipeline

CONSTANTS s1, s2

\* A healthy process with input i.
Healthy(i, h, t) ==
    [input |-> i, output |-> "stdout", http |-> h, ttl |-> t, missing |-> {}]

\* A process with output o, which may miss something.
With(o, h, missing) ==
    [Healthy("file", h, FALSE) EXCEPT !.output = o, !.missing = missing]

\* The command output, which a packet may end, and the outputs that may not be
\* able to write or to start.
OutputConfigs ==
    {With("command", FALSE, {}), With("logr", FALSE, {"file"}), With("rabbitmq", FALSE, {}),
     With("rabbitmq", FALSE, {"broker"}), With("logr", FALSE, {"outputValue"})}

\* What an input may miss: its plugin, its configuration, a value of it, a device.
InputConfigs ==
    {[Healthy(i, FALSE, FALSE) EXCEPT !.missing = {m}] :
        i \in {"file", "cron"}, m \in {"input", "config", "inputValue"}}
    \cup {[Healthy("tcpdump", FALSE, FALSE) EXCEPT !.missing = {"device"}]}

\* Every input, tcpdump with a TTL and without, the HTTP service beside file and
\* stdin, and processes in which something is missing.
AllConfigs ==
    {Healthy(i, i \in {"stdin", "file"}, FALSE) : i \in Inputs}
    \cup {Healthy("tcpdump", FALSE, TRUE)}
    \cup {With("stdout", TRUE, {m}) : m \in {"filter", "output", "port"}}
    \cup {[Healthy("stdin", TRUE, FALSE) EXCEPT !.missing = {"descriptor"}]}
    \cup InputConfigs \cup OutputConfigs

\* One process that reads a file.
FileConfigs == {Healthy("file", FALSE, FALSE)}

\* The tcpdump input with a TTL.
TtlConfigs == {Healthy("tcpdump", FALSE, TRUE)}

TwoSenders == {s1, s2}
OneSender == {s1}
OneStream == {s2}
NoStream == {}
NoneRejected == {}
SecondRejected == {2}
NoQuotes == {}
ThirdQuote == {3}
=============================================================================

------------------------------ MODULE TcpDump ------------------------------
(***************************************************************************)
(* The start of the tcpdump input - its configuration among those of the    *)
(* plugins, the ports of the processes it is to watch, the filter, the      *)
(* devices - and what becomes of a packet then.  The processes of the host  *)
(* come and go while ps and the connection tables are read, and after.      *)
(***************************************************************************)
EXTENDS Integers, Sequences, FiniteSetsExt, Functions

CONSTANTS
    Ports,      \* port numbers
    Default,    \* the port watched when nothing is configured, 80
    Null,       \* what a null in a list of ports becomes, ""
    Names,      \* what target_processes may name
    Pids,       \* processes of the host
    Init1,      \* the one with pid 1
    Devices,    \* network devices of the host
    Paths,      \* what plugins_config_paths may be, a list of Conf
    Formats,    \* what the option -f may be
    Hosts,      \* what the processes of the host may be like at first
    Nets,       \* what the devices may be like
    MaxChanges  \* bound: processes that change

\* A list of the configuration: not there, something else than a list, a list
\* with an element that is no string, or a list of strings and nulls.
ListOf(S) == [is : {"absent", "scalar", "mixed"}, list : {<<>>}] \cup [is : {"list"}, list : Seq(S)]

\* The time to live: not there, no string, no number, or this number. snaplen, of
\* which nothing else depends, is cast like it.
TtlValue == [is : {"absent", "nonstring", "text"}, n : {0}] \cup [is : {"number"}, n : Int]

Settings == [http : ListOf(Ports \cup {Null}), tcp : ListOf(Ports \cup {Null}),
             targets : ListOf(Names), ttl : TtlValue]

\* A file of the list: not there, no JSON object, one without the name of a
\* plugin or with a name that is no text, the settings of another plugin, or ours.
Conf == [is : {"missing", "invalid", "nameless", "misnamed", "other"}, map : {<<>>}]
        \cup [is : {"own"}, map : Settings]

\* What is known of a process: the names that are in its command line, whether
\* "grep" is, and the local ports of its connections.
HostProcess == [names : SUBSET Names, grep : BOOLEAN, ports : SUBSET Ports]

\* What is known of a device, and the devices it is made of, as a bond, a bridge
\* or a team is. The code takes a device for a bond by its name alone.
Device == [name : {"lo", "bond", "other"}, address : {"none", "loopback", "host"},
           slaves : SUBSET Devices]

ASSUME PortsAssumption  == Default \in Ports /\ Null \notin Ports
ASSUME PidsAssumption   == Init1 \in Pids
ASSUME PathsAssumption  == Paths \subseteq ListOf(Conf)
ASSUME FormatAssumption == Formats \subseteq [is : {"absent", "invalid", "given"}, map : Settings]
ASSUME HostsAssumption  == Hosts \subseteq [Pids -> HostProcess]
ASSUME NetsAssumption   == Nets \subseteq [Devices -> Device]
ASSUME ChangesAssumption == MaxChanges \in Nat

VARIABLES
    paths, format, net, \* what the process is started with
    confs,      \* configuration files that are still to be read
    file,       \* PluginsConfigs["tcpdump"]: <<>> or <<settings>>
    host,       \* the processes of the host, and
    held,       \* history: who ever had which port
    changed,    \* history: those that changed since the start
    changes,    \* how often that happened
    place,      \* where StartInput is, or how the process ended
    httpPorts, tcpPorts, portMap, ttl,
    targets,    \* names that are still to be looked up
    pids,       \* processes found for the first of them
    missed,     \* history: those a failed lookup passed over
    starting,   \* devices found, whose listener has not opened them yet
    listening,  \* devices a listener is open on
    last        \* history: the last packet, <<>> before the first

settings == <<paths, format, net, confs, file>>
world    == <<host, held, changed, changes>>
service  == <<httpPorts, tcpPorts, portMap, ttl, targets, pids, missed>>
capture  == <<starting, listening>>
vars     == <<settings, world, place, service, capture, last>>

Held(h) == {c \in Pids \X Ports : c[2] \in h[c[1]].ports}

Init ==
    /\ paths \in Paths /\ format \in Formats /\ net \in Nets
    /\ confs = paths.list /\ file = <<>>
    /\ host \in Hosts /\ held = Held(host) /\ changed = {} /\ changes = 0
    /\ place = "load"
    /\ httpPorts = {Default} /\ tcpPorts = {} /\ portMap = <<>> /\ ttl = 10
    /\ targets = <<>> /\ pids = {} /\ missed = {}
    /\ starting = {} /\ listening = {} /\ last = <<>>

Ends(how) == place' = how /\ UNCHANGED <<settings, world, service, capture, last>>

-----------------------------------------------------------------------------
\* agent.New and LoadPluginsConf.

\* A path that is no string, or the name of a plugin that is none, is cast.
LoadPanic ==
    /\ place = "load"
    /\ paths.is = "mixed" \/ (confs # <<>> /\ Head(confs).is = "misnamed")
    /\ Ends("panic")

\* The next file: what cannot be read is passed over.
LoadConf ==
    /\ place = "load" /\ confs # <<>> /\ Head(confs).is # "misnamed"
    /\ file' = IF Head(confs).is = "own" THEN <<Head(confs).map>> ELSE file
    /\ confs' = Tail(confs)
    /\ UNCHANGED <<paths, format, net, world, place, service, capture, last>>

LoadEnd == place = "load" /\ paths.is # "mixed" /\ confs = <<>> /\ Ends("config")

-----------------------------------------------------------------------------
\* initListenPort.

\* -f replaces the configuration of the file; text that is no JSON leaves it as
\* it is. Without -f there has to be a configuration in the file.
NoSettings == file = <<>> /\ format.is = "absent"
Absent == [is |-> "absent", list |-> <<>>]
Empty  == [http |-> Absent, tcp |-> Absent, targets |-> Absent, ttl |-> [is |-> "absent", n |-> 0]]
Map    == CASE format.is = "given"                   -> format.map
            [] format.is # "given" /\ file # <<>> -> file[1]
            [] OTHER                               -> Empty

\* convertConfig; a value that is no list gives an empty one.
Converted(value, default) == IF value.is = "absent" THEN default ELSE Range(value.list)

Mixed == "mixed" \in {Map.http.is, Map.tcp.is, Map.targets.is}

NoConfig == place = "config" /\ NoSettings /\ Ends("fatal")

\* The cast of an element that is no string panics.
BadConfig == place = "config" /\ Mixed /\ Ends("panic")

ReadConfig ==
    /\ place = "config" /\ ~NoSettings /\ ~Mixed
    /\ httpPorts' = Converted(Map.http, {Default})
    /\ tcpPorts'  = Converted(Map.tcp, {})
    /\ targets'   = Map.targets.list
    /\ place' = "names"
    /\ UNCHANGED <<settings, world, portMap, ttl, pids, missed, capture, last>>

\* Mutant: the process with pid 1 is looked up like the others.
FindAllPids ==
    /\ place = "names" /\ targets # <<>>
    /\ pids' = {p \in Pids : Head(targets) \in host[p].names}
    /\ place' = "pids"
    /\ UNCHANGED <<settings, world, httpPorts, tcpPorts, portMap, ttl, targets, missed, capture, last>>

\* getPidByName, for the next name: the processes that have it in their command
\* line at this moment, but pid 1 and those that have "grep" there too. If there
\* are none the name is passed over.
FindPids ==
    /\ place = "names" /\ targets # <<>>
    /\ pids' = {p \in Pids \ {Init1} : Head(targets) \in host[p].names /\ ~host[p].grep}
    /\ place' = "pids"
    /\ UNCHANGED <<settings, world, httpPorts, tcpPorts, portMap, ttl, targets, missed, capture, last>>

\* ps fails: nothing is found for the name, and it is passed over.
FindPidsFails ==
    /\ place = "names" /\ targets # <<>>
    /\ missed' = missed \cup {p \in Pids : Head(targets) \in host[p].names}
    /\ targets' = Tail(targets)
    /\ UNCHANGED <<settings, world, place, httpPorts, tcpPorts, portMap, ttl, pids, capture, last>>

\* Mutant: the name that has a port first keeps it.
FindPortsFirst(p) ==
    /\ place = "pids" /\ p \in pids
    /\ portMap' = [port \in host[p].ports \cup DOMAIN portMap |->
                      IF port \in DOMAIN portMap THEN portMap[port] ELSE Head(targets)]
    /\ pids' = pids \ {p}
    /\ UNCHANGED <<settings, world, place, httpPorts, tcpPorts, ttl, targets, missed, capture, last>>

\* getPortsByProcessId, for one of them: the ports it has by then. The name that
\* is looked up last has a port for itself.
FindPorts(p) ==
    /\ place = "pids" /\ p \in pids
    /\ portMap' = [port \in host[p].ports \cup DOMAIN portMap |->
                      IF port \in host[p].ports THEN Head(targets) ELSE portMap[port]]
    /\ pids' = pids \ {p}
    /\ UNCHANGED <<settings, world, place, httpPorts, tcpPorts, ttl, targets, missed, capture, last>>

\* The connections of p cannot be read: it is gone, or it belongs to another user.
FindPortsFails(p) ==
    /\ place = "pids" /\ p \in pids
    /\ missed' = missed \cup {p}
    /\ pids' = pids \ {p}
    /\ UNCHANGED <<settings, world, place, httpPorts, tcpPorts, portMap, ttl, targets, capture, last>>

NextName ==
    /\ place = "pids" /\ pids = {}
    /\ targets' = Tail(targets)
    /\ place' = "names"
    /\ UNCHANGED <<settings, world, httpPorts, tcpPorts, portMap, ttl, pids, missed, capture, last>>

\* The text is a number of seconds, at most 50; what is no number is 0.
ReadTtl ==
    /\ place = "names" /\ targets = <<>>
    /\ IF Map.ttl.is = "nonstring"
       THEN place' = "panic" /\ UNCHANGED ttl
       ELSE /\ place' = "devices"
            /\ ttl' = CASE Map.ttl.is = "absent" -> ttl
                        [] Map.ttl.n >= 50       -> 50
                        [] OTHER                 -> Map.ttl.n
    /\ UNCHANGED <<settings, world, httpPorts, tcpPorts, portMap, targets, pids, missed, capture, last>>

-----------------------------------------------------------------------------
\* findDevices, GenerateBpf and startListen.

Usable == {d \in Devices : net[d].address = "host" /\ net[d].name # "lo"}

\* Mutant: a bond is one device among the others.
FoundAll == {Usable}

\* What findDevices may return: all usable devices, or the first bond alone.
Found == LET bonds == {d \in Usable : net[d].name = "bond"}
         IN  IF bonds = {} THEN {Usable} ELSE {{d} : d \in bonds}

Filter == httpPorts \cup tcpPorts \cup DOMAIN portMap

\* libpcap refuses "tcp and ()" and "dst port " without a number.
FilterRefused == Filter = {} \/ Null \in Filter

\* Each device found gets a goroutine that is to listen on it; none does when
\* findDevices fails, and nothing is said.
StartListen ==
    /\ place = "devices"
    /\ starting' \in Found \cup {{}}
    /\ place' = IF ttl > 0 THEN "ttl" ELSE "running"
    /\ UNCHANGED <<settings, world, service, listening, last>>

Up == place \in {"ttl", "running"}

Listen(d) ==
    /\ Up /\ d \in starting
    /\ ~FilterRefused
    /\ starting' = starting \ {d} /\ listening' = listening \cup {d}
    /\ UNCHANGED <<settings, world, place, service, last>>

\* The device cannot be opened, or the filter is refused: that ends the process,
\* with the other listeners.
ListenFails(d) == Up /\ d \in starting /\ Ends("fatal")

\* SafeExit.
TtlExpires == place = "ttl" /\ Ends("forced")

-----------------------------------------------------------------------------
\* A packet for port comes to device d; it is seen on what d is a part of as well.
\* processPacket, or the http stream, sends it with a label.

Seers(d) == {e \in listening : e = d \/ d \in net[e].slaves}

Label(port) ==
    IF port \in DOMAIN portMap THEN portMap[port]
    ELSE IF port \in httpPorts THEN "http" ELSE "tcp"

Packet(d, port) ==
    /\ Up
    /\ net[d].slaves = {}
    /\ last' = <<[device |-> d, port |-> port, label |-> Label(port),
                  copies |-> IF port \in Filter THEN Seers(d) ELSE {}]>>
    /\ UNCHANGED <<settings, world, place, service, capture>>

-----------------------------------------------------------------------------
\* A process ends, starts, or opens and closes connections.
Change(p) ==
    /\ place \notin {"fatal", "panic", "forced"}
    /\ changes < MaxChanges
    /\ \E ports \in SUBSET Ports, names \in SUBSET host[p].names :
          host' = [host EXCEPT ![p].names = names, ![p].ports = ports]
    /\ held' = held \cup Held(host')
    /\ changed' = changed \cup {p} /\ changes' = changes + 1
    /\ UNCHANGED <<settings, place, service, capture, last>>

Next ==
    \/ LoadPanic \/ LoadConf \/ LoadEnd
    \/ NoConfig \/ BadConfig \/ ReadConfig \/ ReadTtl
    \/ FindPids \/ FindPidsFails \/ NextName
    \/ \E p \in Pids : FindPorts(p) \/ FindPortsFails(p) \/ Change(p)
    \/ StartListen \/ TtlExpires
    \/ \E d \in Devices : Listen(d) \/ ListenFails(d) \/ \E port \in Ports : Packet(d, port)

Spec == Init /\ [][Next]_vars

-----------------------------------------------------------------------------
TypeOK ==
    /\ place \in {"load", "config", "names", "pids", "devices", "ttl", "running", "fatal", "panic", "forced"}
    /\ httpPorts \cup tcpPorts \subseteq Ports \cup {Null}
    /\ DOMAIN portMap \subseteq Ports /\ Range(portMap) \subseteq Names
    /\ ttl \in Int /\ targets \in Seq(Names) /\ pids \subseteq Pids \ {Init1}
    /\ missed \subseteq Pids /\ starting \cup listening \subseteq Devices /\ Len(last) <= 1

\* The names that are to be looked up: those of -f, or of the last file of the
\* list that has settings for the plugin; and the last of them which is in the
\* command line of p, where "grep" may not be.
OwnFiles == {i \in DOMAIN paths.list : paths.list[i].is = "own"}
Wanted == CASE format.is = "given" -> format.map.targets.list
            [] format.is # "given" /\ OwnFiles # {} -> paths.list[Max(OwnFiles)].map.targets.list
            [] OTHER -> <<>>
Matches(p) == {i \in DOMAIN Wanted : Wanted[i] \in host[p].names /\ ~host[p].grep}
NameOf(p) == Wanted[Max(Matches(p))]

\* A packet for a process that is watched, that has been as it is since the start,
\* that no failed lookup passed over, and whose port nobody else had since, passes
\* the filter and carries the name of that process, in whatever list the port is
\* and however many files configure the plugin (tcpdump_input.go:220-222, 299;
\* stream.go:70-74; options.go:65-108).
Labelled ==
    last # <<>> =>
        \A p \in Pids \ (changed \cup missed \cup {Init1}) :
            /\ {q \in Pids : <<q, last[1].port>> \in held} = {p}
            /\ Matches(p) # {}
            => last[1].port \in Filter /\ last[1].label = NameOf(p)

\* No packet is captured twice, through a bond and through one of its devices, as
\* long as a device that is made of others is named "bond..." (util.go:47-50). On a
\* bridge, a team or a bond with another name it may be.
OnlyBonds    == \A d \in Devices : net[d].slaves # {} => net[d].name = "bond"
CapturedOnce == OnlyBonds /\ last # <<>> => Cardinality(last[1].copies) <= 1

=============================================================================

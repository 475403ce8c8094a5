---------------------------- MODULE TcpDumpProofs ----------------------------
(***************************************************************************)
(* Proofs about TcpDump, for any lists of configuration files, names,      *)
(* processes and devices: the name a packet carries, and on how many       *)
(* devices it is captured.                                                 *)
(***************************************************************************)
EXTENDS TcpDump, SequenceFacts, FiniteSetTheorems

\* What the process is started with stays as it is.
Inputs == paths \in Paths /\ format \in Formats /\ net \in Nets

\* The first k files are read, and file is what the last of ours among them says.
ReadUpTo(k) ==
    /\ Len(confs) = Len(paths.list) - k
    /\ \A i \in 1..Len(confs) : confs[i] = paths.list[k + i]
    /\ file = <<>> => \A i \in 1..k : paths.list[i].is # "own"
    /\ file # <<>> => \E i \in 1..k : /\ paths.list[i].is = "own"
                                      /\ file = <<paths.list[i].map>>
                                      /\ \A j \in 1..k : paths.list[j].is = "own" => j <= i

Loading ==
    /\ confs \in Seq(Conf)
    /\ \E k \in 0..Len(paths.list) : ReadUpTo(k)
    /\ place \notin {"load", "panic"} => confs = <<>>

\* Processes that did not change have the ports they had.
World ==
    /\ host \in [Pids -> HostProcess] /\ changed \subseteq Pids
    /\ Held(host) \subseteq held
    /\ \A p \in Pids \ changed, port \in Ports : <<p, port>> \in held => port \in host[p].ports

\* The names that are left are the last ones of those wanted.
Looked == Len(Wanted) - Len(targets)
Reading == place \in {"names", "pids", "devices", "ttl", "running"}
LookingUp ==
    /\ Reading => /\ Len(targets) <= Len(Wanted)
                  /\ \A i \in 1..Len(targets) : targets[i] = Wanted[Looked + i]
    /\ place = "pids" => /\ targets # <<>>
                         /\ \A p \in pids \ changed : /\ Head(targets) \in host[p].names
                                                     /\ ~host[p].grep
    /\ place \in {"devices", "ttl", "running"} => targets = <<>>

\* Nobody but p had the port, p did not change and no lookup of it failed.
Quiet(p, port) ==
    /\ p \in Pids \ (changed \cup missed \cup {Init1})
    /\ {q \in Pids : <<q, port>> \in held} = {p}

\* The last of the first k names that p has.
LastOf(p, i, k) == i \in Matches(p) /\ i <= k /\ \A j \in Matches(p) : j <= k => j <= i

\* So many names are looked up for p, and the port has the last of them.
Done(p) == IF place = "pids" /\ p \notin pids THEN Looked + 1 ELSE Looked
Named ==
    Reading => \A p \in Pids, port \in Ports :
        Quiet(p, port) => \A i \in Matches(p) :
            LastOf(p, i, Done(p)) => port \in DOMAIN portMap /\ portMap[port] = Wanted[i]

\* The listeners are on the devices found, or come to them yet, and none is before
\* they are looked for; a packet came, and if only bonds are made of devices only
\* one listener saw it.
Before == place \in {"load", "config", "names", "pids", "devices"}
Listening == /\ starting \cup listening = {} \/ starting \cup listening \in Found
             /\ Before => listening = {}
Captured ==
    last # <<>> => /\ place \in {"ttl", "running", "forced", "fatal"}
                   /\ last[1].port \in Ports
                   /\ OnlyBonds => \E d \in Devices : last[1].copies \subseteq {d}

IInv == TypeOK /\ Inputs /\ Loading /\ World /\ LookingUp /\ Named /\ Labelled
        /\ Listening /\ Captured

-----------------------------------------------------------------------------
\* The inputs.

LEMMA ListOfSeq == ASSUME NEW S, NEW v \in ListOf(S) PROVE v.list \in Seq(S)
<1>1. v.list \in {<<>>} \/ v.list \in Seq(S)  BY Zenon DEF ListOf
<1>2. <<>> \in Seq(S)  OBVIOUS
<1> QED  BY <1>1, <1>2

LEMMA InputTypes ==
    ASSUME Inputs
    PROVE  /\ paths.list \in Seq(Conf)
           /\ format.is \in {"absent", "invalid", "given"} /\ format.map \in Settings
           /\ net \in [Devices -> Device]
<1>1. paths \in ListOf(Conf)  BY PathsAssumption DEF Inputs
<1>2. format \in [is : {"absent", "invalid", "given"}, map : Settings]
  BY FormatAssumption DEF Inputs
<1> QED  BY <1>1, <1>2, ListOfSeq, NetsAssumption DEF Inputs

LEMMA SettingsTypes ==
    ASSUME NEW s \in Settings
    PROVE  /\ s.http.list \in Seq(Ports \cup {Null}) /\ s.tcp.list \in Seq(Ports \cup {Null})
           /\ s.targets.list \in Seq(Names) /\ s.ttl.n \in Int
<1>1. s.http \in ListOf(Ports \cup {Null}) /\ s.tcp \in ListOf(Ports \cup {Null})
      /\ s.targets \in ListOf(Names) /\ s.ttl \in TtlValue
  BY DEF Settings
<1> QED  BY <1>1, ListOfSeq DEF TtlValue

LEMMA OwnMap == ASSUME NEW c \in Conf, c.is = "own" PROVE c.map \in Settings
  BY DEF Conf

\* The last of the files that are ours.
LEMMA LastOwn ==
    ASSUME Inputs, NEW i \in OwnFiles, \A j \in OwnFiles : j <= i
    PROVE  Max(OwnFiles) = i
<1>1. paths.list \in Seq(Conf)  BY InputTypes
<1>2. OwnFiles \subseteq Nat /\ Len(paths.list) \in Nat /\ \A j \in OwnFiles : j <= Len(paths.list)
  BY <1>1, LenProperties DEF OwnFiles
<1>3. Max(OwnFiles) \in OwnFiles /\ \A j \in OwnFiles : j <= Max(OwnFiles)
  BY <1>2, MaxNat
<1>4. i <= Max(OwnFiles) /\ Max(OwnFiles) <= i /\ i \in Nat /\ Max(OwnFiles) \in Nat
  BY <1>2, <1>3, Zenon
<1> QED  BY <1>4

LEMMA WantedType == ASSUME Inputs PROVE Wanted \in Seq(Names)
<1>1. paths.list \in Seq(Conf) /\ format.map \in Settings  BY InputTypes
<1>2. CASE format.is = "given"  BY <1>1, <1>2, SettingsTypes DEF Wanted
<1>3. CASE format.is # "given" /\ OwnFiles # {}
  <2>1. OwnFiles \subseteq Nat /\ Len(paths.list) \in Nat /\ \A j \in OwnFiles : j <= Len(paths.list)
    BY <1>1, LenProperties DEF OwnFiles
  <2>2. Max(OwnFiles) \in OwnFiles  BY <1>3, <2>1, MaxNat
  <2>3. paths.list[Max(OwnFiles)] \in Conf /\ paths.list[Max(OwnFiles)].is = "own"
    BY <1>1, <2>2, ElementOfSeq, LenProperties DEF OwnFiles
  <2>4. paths.list[Max(OwnFiles)].map \in Settings  BY <2>3, OwnMap
  <2>5. Wanted = paths.list[Max(OwnFiles)].map.targets.list  BY <1>3 DEF Wanted
  <2> QED  BY <2>4, <2>5, SettingsTypes
<1>4. CASE format.is # "given" /\ OwnFiles = {}
  <2>1. Wanted = <<>>  BY <1>4 DEF Wanted
  <2> QED  BY <2>1
<1> QED  BY <1>2, <1>3, <1>4

\* When all files are read the settings are those Wanted is taken from.
LEMMA MapIsWanted ==
    ASSUME Inputs, Loading, confs = <<>>
    PROVE  Map \in Settings /\ Map.targets.list = Wanted
<1>1. paths.list \in Seq(Conf) /\ format.map \in Settings  BY InputTypes
<1>2. DOMAIN paths.list = 1..Len(paths.list) /\ Len(paths.list) \in Nat  BY <1>1, LenProperties
<1>3. ReadUpTo(Len(paths.list))
  <2>1. PICK k \in 0..Len(paths.list) : ReadUpTo(k)  BY DEF Loading
  <2>2. Len(confs) = 0  BY DEF Loading
  <2>3. k = Len(paths.list)  BY <1>2, <2>1, <2>2 DEF ReadUpTo
  <2> QED  BY <2>1, <2>3
<1>4. CASE format.is = "given"  BY <1>1, <1>4 DEF Map, Wanted
<1>5. CASE format.is # "given" /\ file # <<>>
  <2>1. PICK i \in 1..Len(paths.list) :
           /\ paths.list[i].is = "own" /\ file = <<paths.list[i].map>>
           /\ \A j \in 1..Len(paths.list) : paths.list[j].is = "own" => j <= i
    BY <1>3, <1>5 DEF ReadUpTo
  <2>2. i \in OwnFiles /\ \A j \in OwnFiles : j <= i  BY <1>2, <2>1 DEF OwnFiles
  <2>3. Max(OwnFiles) = i  BY <2>2, LastOwn
  <2>4. Wanted = paths.list[i].map.targets.list  BY <1>5, <2>2, <2>3 DEF Wanted
  <2>5. Map = paths.list[i].map  BY <1>5, <2>1 DEF Map
  <2>6. paths.list[i] \in Conf  BY <1>1, ElementOfSeq
  <2> QED  BY <2>1, <2>4, <2>5, <2>6, OwnMap
<1>6. CASE format.is # "given" /\ file = <<>>
  <2>1. OwnFiles = {}  BY <1>2, <1>3, <1>6 DEF OwnFiles, ReadUpTo
  <2>2. Wanted = <<>>  BY <1>6, <2>1 DEF Wanted
  <2>3. Map = Empty  BY <1>6 DEF Map
  <2>4. Absent \in ListOf(Ports \cup {Null}) /\ Absent \in ListOf(Names)  BY DEF Absent, ListOf
  <2>5. [is |-> "absent", n |-> 0] \in TtlValue  BY DEF TtlValue
  <2> QED  BY <2>2, <2>3, <2>4, <2>5 DEF Empty, Settings, Absent
<1> QED  BY <1>4, <1>5, <1>6

-----------------------------------------------------------------------------
\* A step keeps the inputs, and so what is wanted.

LEMMA InputsStay ==
    ASSUME [Next]_vars
    PROVE  UNCHANGED <<paths, format, net>>
<1>1. CASE LoadPanic \/ LoadEnd \/ NoConfig \/ BadConfig \/ TtlExpires
  BY <1>1 DEF LoadPanic, LoadEnd, NoConfig, BadConfig, TtlExpires, Ends, settings
<1>2. CASE LoadConf  BY <1>2 DEF LoadConf
<1>3. CASE ReadConfig \/ FindPids \/ FindPidsFails \/ NextName \/ ReadTtl
  BY <1>3 DEF ReadConfig, FindPids, FindPidsFails, NextName, ReadTtl, settings
<1>4. CASE \E p \in Pids : FindPorts(p) \/ FindPortsFails(p) \/ Change(p)
  BY <1>4 DEF FindPorts, FindPortsFails, Change, settings
<1>5. CASE StartListen \/ \E d \in Devices : Listen(d) \/ ListenFails(d)
  BY <1>5 DEF StartListen, Listen, ListenFails, Ends, settings
<1>6. CASE \E d \in Devices, port \in Ports : Packet(d, port)
  BY <1>6 DEF Packet, settings
<1>7. CASE UNCHANGED vars  BY <1>7 DEF vars, settings
<1> QED  BY <1>1, <1>2, <1>3, <1>4, <1>5, <1>6, <1>7 DEF Next

LEMMA WantedStays ==
    ASSUME [Next]_vars
    PROVE  Wanted' = Wanted
  BY InputsStay DEF Wanted, OwnFiles

LEMMA MatchesStay ==
    ASSUME [Next]_vars, NEW p \in Pids, host'[p] = host[p]
    PROVE  Matches(p)' = Matches(p)
  BY WantedStays DEF Matches

LEMMA FoundStays ==
    ASSUME [Next]_vars
    PROVE  Found' = Found
  BY InputsStay DEF Found, Usable

-----------------------------------------------------------------------------
\* Reading the configuration files.

LEMMA LoadingStep ==
    ASSUME IInv, [Next]_vars
    PROVE  Loading'
<1> USE InputsStay
<1>1. paths.list \in Seq(Conf)  BY InputTypes DEF IInv
<1>2. CASE LoadConf
  <2>1. /\ confs \in Seq(Conf) /\ confs # <<>> /\ place = "load"
        /\ confs' = Tail(confs) /\ place' = place
        /\ file' = IF Head(confs).is = "own" THEN <<Head(confs).map>> ELSE file
    BY <1>2 DEF IInv, Loading, LoadConf
  <2>2. /\ confs' \in Seq(Conf) /\ Len(confs') = Len(confs) - 1 /\ Len(confs) \in Nat \ {0}
        /\ Head(confs) = confs[1] /\ \A i \in 1..Len(confs') : confs'[i] = confs[i + 1]
    BY <2>1, HeadTailProperties
  <2>3. PICK k \in 0..Len(paths.list) : ReadUpTo(k)  BY DEF IInv, Loading
  <2>4. k \in Nat /\ k + 1 \in 0..Len(paths.list)
    <3>1. Len(paths.list) \in Nat  BY <1>1, LenProperties
    <3>2. Len(confs) = Len(paths.list) - k  BY <2>3 DEF ReadUpTo
    <3> QED  BY <2>2, <3>1, <3>2
  <2>5. Head(confs) = paths.list[k + 1]  BY <2>2, <2>3 DEF ReadUpTo
  <2>6. \A i \in 1..Len(confs') : confs'[i] = paths.list[k + 1 + i]
    <3>1. SUFFICES ASSUME NEW i \in 1..Len(confs') PROVE confs'[i] = paths.list[k + 1 + i]
      OBVIOUS
    <3>2. i + 1 \in 1..Len(confs)  BY <2>2
    <3>3. confs[i + 1] = paths.list[k + (i + 1)]  BY <2>3, <3>2 DEF ReadUpTo
    <3>4. k + (i + 1) = k + 1 + i  BY <2>4
    <3> QED  BY <2>2, <3>3, <3>4
  <2>7. \A i \in 1..k + 1 : i \in 1..k \/ i = k + 1  BY <2>4
  <2>8. ReadUpTo(k + 1)'
    <3>1. CASE Head(confs).is = "own"
      <4>1. file' = <<Head(confs).map>> /\ file' # <<>>  BY <2>1, <3>1
      <4>2. \A j \in 1..k + 1 : j <= k + 1  BY <2>4
      <4>3. k + 1 \in 1..k + 1  BY <2>4
      <4>4. Len(confs') = Len(paths.list) - (k + 1)
        BY <1>1, <2>2, <2>3, <2>4 DEF ReadUpTo
      <4> QED  BY <2>5, <2>6, <3>1, <4>1, <4>2, <4>3, <4>4 DEF ReadUpTo
    <3>2. CASE Head(confs).is # "own"
      <4>1. file' = file  BY <2>1, <3>2
      <4>2. Len(confs') = Len(paths.list) - (k + 1)
        BY <1>1, <2>2, <2>3, <2>4 DEF ReadUpTo
      <4>3. file = <<>> => \A i \in 1..k + 1 : paths.list[i].is # "own"
        BY <2>3, <2>5, <2>7, <3>2 DEF ReadUpTo
      <4>4. file # <<>> => \E i \in 1..k + 1 :
                /\ paths.list[i].is = "own" /\ file = <<paths.list[i].map>>
                /\ \A j \in 1..k + 1 : paths.list[j].is = "own" => j <= i
        <5>1. ASSUME NEW i \in 1..k PROVE i \in 1..k + 1  BY <2>4
        <5> QED  BY <2>3, <2>5, <2>7, <3>2, <5>1 DEF ReadUpTo
      <4> QED  BY <2>6, <4>1, <4>2, <4>3, <4>4 DEF ReadUpTo
    <3> QED  BY <3>1, <3>2
  <2> QED  BY <2>1, <2>2, <2>4, <2>8 DEF Loading
<1>3. CASE UNCHANGED <<confs, file>> /\ (place' \notin {"load", "panic"} => confs = <<>>)
  <2>1. PICK k \in 0..Len(paths.list) : ReadUpTo(k)  BY DEF IInv, Loading
  <2>2. confs' = confs /\ file' = file /\ paths' = paths  BY <1>3
  <2>3. ReadUpTo(k)'  BY <2>1, <2>2, Zenon DEF ReadUpTo
  <2>4. confs' \in Seq(Conf)  BY <2>2 DEF IInv, Loading
  <2> QED  BY <1>3, <2>2, <2>3, <2>4 DEF Loading
<1>4. ASSUME ~ LoadConf
      PROVE  UNCHANGED <<confs, file>> /\ (place' \notin {"load", "panic"} => confs = <<>>)
  <2> USE DEF IInv, Loading
  <2>1. CASE LoadPanic \/ LoadEnd \/ NoConfig \/ BadConfig \/ TtlExpires
    BY <2>1 DEF LoadPanic, LoadEnd, NoConfig, BadConfig, TtlExpires, Ends, settings
  <2>2. CASE ReadConfig \/ FindPids \/ FindPidsFails \/ NextName \/ ReadTtl
    BY <2>2 DEF ReadConfig, FindPids, FindPidsFails, NextName, ReadTtl, settings
  <2>3. CASE \E p \in Pids : FindPorts(p) \/ FindPortsFails(p) \/ Change(p)
    BY <2>3 DEF FindPorts, FindPortsFails, Change, settings
  <2>4. CASE StartListen \/ \E d \in Devices : Listen(d) \/ ListenFails(d)
    BY <2>4 DEF StartListen, Listen, ListenFails, Up, Ends, settings
  <2>5. CASE \E d \in Devices, port \in Ports : Packet(d, port)
    BY <2>5 DEF Packet, settings
  <2>6. CASE UNCHANGED vars  BY <2>6 DEF vars, settings
  <2> QED  BY <1>4, <2>1, <2>2, <2>3, <2>4, <2>5, <2>6 DEF Next
<1> QED  BY <1>2, <1>3, <1>4

-----------------------------------------------------------------------------
\* The processes of the host.

LEMMA WorldChanges ==
    ASSUME [Next]_vars
    PROVE  (\E p \in Pids : Change(p)) \/ UNCHANGED world
<1>1. CASE LoadPanic \/ LoadEnd \/ NoConfig \/ BadConfig \/ TtlExpires
  BY <1>1 DEF LoadPanic, LoadEnd, NoConfig, BadConfig, TtlExpires, Ends
<1>2. CASE LoadConf \/ ReadConfig \/ FindPids \/ FindPidsFails \/ NextName \/ ReadTtl
  BY <1>2 DEF LoadConf, ReadConfig, FindPids, FindPidsFails, NextName, ReadTtl
<1>3. CASE \E p \in Pids : FindPorts(p) \/ FindPortsFails(p)  BY <1>3 DEF FindPorts, FindPortsFails
<1>4. CASE StartListen \/ \E d \in Devices : Listen(d) \/ ListenFails(d)
  BY <1>4 DEF StartListen, Listen, ListenFails, Ends
<1>5. CASE \E d \in Devices, port \in Ports : Packet(d, port)  BY <1>5 DEF Packet
<1>6. CASE UNCHANGED vars  BY <1>6 DEF vars
<1> QED  BY <1>1, <1>2, <1>3, <1>4, <1>5, <1>6 DEF Next

LEMMA WorldStep ==
    ASSUME IInv, [Next]_vars
    PROVE  World'
<1>1. CASE UNCHANGED world  BY <1>1 DEF IInv, World, world, Held
<1>2. ASSUME NEW p \in Pids, Change(p)
      PROVE  World'
  <2>1. PICK ports \in SUBSET Ports, names \in SUBSET host[p].names :
           host' = [host EXCEPT ![p].names = names, ![p].ports = ports]
    BY <1>2 DEF Change
  <2>2. host \in [Pids -> HostProcess] /\ changed \subseteq Pids  BY DEF IInv, World
  <2>3. host[p].names \subseteq Names  BY <2>2 DEF HostProcess
  <2>4. [host[p] EXCEPT !.names = names, !.ports = ports] \in HostProcess
    BY <2>1, <2>2, <2>3 DEF HostProcess
  <2>5. host' \in [Pids -> HostProcess]  BY <2>1, <2>2, <2>4
  <2>6. /\ held' = held \cup Held(host') /\ changed' = changed \cup {p}  BY <1>2 DEF Change
  <2>7. ASSUME NEW q \in Pids \ changed', NEW port \in Ports, <<q, port>> \in held'
        PROVE  port \in host'[q].ports
    <3>1. q # p /\ q \in Pids \ changed  BY <2>6
    <3>2. host'[q] = host[q]  BY <2>1, <2>2, <3>1
    <3>3. CASE <<q, port>> \in held  BY <3>1, <3>2, <3>3 DEF IInv, World
    <3>4. CASE <<q, port>> \in Held(host')  BY <3>4 DEF Held
    <3> QED  BY <2>6, <2>7, <3>3, <3>4
  <2> QED  BY <2>2, <2>5, <2>6, <2>7 DEF World
<1> QED  BY <1>1, <1>2, WorldChanges

LEMMA MissedGrows == ASSUME [Next]_vars PROVE missed \subseteq missed'
<1>1. CASE UNCHANGED service \/ UNCHANGED missed  BY <1>1 DEF service
<1>2. CASE LoadPanic \/ LoadEnd \/ NoConfig \/ BadConfig \/ TtlExpires \/ LoadConf
  BY <1>1, <1>2 DEF LoadPanic, LoadEnd, NoConfig, BadConfig, TtlExpires, LoadConf, Ends
<1>3. CASE ReadConfig \/ FindPids \/ FindPidsFails \/ NextName \/ ReadTtl
  BY <1>3 DEF ReadConfig, FindPids, FindPidsFails, NextName, ReadTtl
<1>4. CASE \E p \in Pids : FindPorts(p) \/ FindPortsFails(p) \/ Change(p)
  BY <1>1, <1>4 DEF FindPorts, FindPortsFails, Change
<1>5. CASE StartListen \/ \E d \in Devices : Listen(d) \/ ListenFails(d)
  BY <1>1, <1>5 DEF StartListen, Listen, ListenFails, Ends
<1>6. CASE \E d \in Devices, port \in Ports : Packet(d, port)  BY <1>1, <1>6 DEF Packet
<1>7. CASE UNCHANGED vars  BY <1>1, <1>7 DEF vars
<1> QED  BY <1>2, <1>3, <1>4, <1>5, <1>6, <1>7 DEF Next

\* A process that is quiet after a step was quiet before it, with the same names
\* and, for every step, with the port.
LEMMA QuietBefore ==
    ASSUME IInv, [Next]_vars, NEW p \in Pids, NEW port \in Ports, Quiet(p, port)'
    PROVE  Quiet(p, port) /\ host'[p] = host[p] /\ Matches(p)' = Matches(p)
<1>1. CASE UNCHANGED world
  BY <1>1, MissedGrows, MatchesStay DEF world, Quiet
<1>2. ASSUME NEW q \in Pids, Change(q)
      PROVE  Quiet(p, port) /\ host'[p] = host[p]
  <2>1. /\ held' = held \cup Held(host') /\ changed' = changed \cup {q}  BY <1>2 DEF Change
  <2>2. p # q /\ p \in Pids \ (changed \cup missed \cup {Init1})
    BY <2>1, MissedGrows DEF Quiet
  <2>3. host \in [Pids -> HostProcess]  BY DEF IInv, World
  <2>4. host'[p] = host[p]  BY <1>2, <2>2, <2>3 DEF Change
  <2>5. <<p, port>> \in held' /\ \A x \in Pids : <<x, port>> \in held' => x = p  BY DEF Quiet
  <2>6. <<p, port>> \in held
    <3>1. CASE <<p, port>> \in Held(host')
      <4>1. port \in host[p].ports  BY <2>4, <3>1 DEF Held
      <4> QED  BY <4>1 DEF Held, IInv, World
    <3> QED  BY <2>1, <2>5, <3>1
  <2>7. \A x \in Pids : <<x, port>> \in held => x = p  BY <2>1, <2>5
  <2> QED  BY <2>2, <2>4, <2>6, <2>7 DEF Quiet
<1> QED  BY <1>1, <1>2, WorldChanges, MatchesStay

-----------------------------------------------------------------------------
\* The types.

LEMMA TypeStep ==
    ASSUME IInv, [Next]_vars
    PROVE  TypeOK'
<1> USE DEF TypeOK
<1>1. CASE LoadPanic \/ LoadEnd \/ NoConfig \/ BadConfig \/ TtlExpires
  BY <1>1 DEF IInv, LoadPanic, LoadEnd, NoConfig, BadConfig, TtlExpires, Ends, service, capture
<1>2. CASE LoadConf  BY <1>2 DEF IInv, LoadConf, service, capture
<1>3. CASE ReadConfig
  <2>1. confs = <<>>  BY <1>3 DEF IInv, Loading, ReadConfig
  <2>2. Map \in Settings  BY <2>1, MapIsWanted DEF IInv
  <2>3. Converted(Map.http, {Default}) \subseteq Ports \cup {Null}
    <3>1. Map.http.list \in Seq(Ports \cup {Null})  BY <2>2, SettingsTypes
    <3>2. Range(Map.http.list) \subseteq Ports \cup {Null}
      BY <3>1, LenProperties, ElementOfSeq DEF Range
    <3> QED  BY <3>2, PortsAssumption DEF Converted
  <2>4. Converted(Map.tcp, {}) \subseteq Ports \cup {Null}
    <3>1. Map.tcp.list \in Seq(Ports \cup {Null})  BY <2>2, SettingsTypes
    <3>2. Range(Map.tcp.list) \subseteq Ports \cup {Null}
      BY <3>1, LenProperties, ElementOfSeq DEF Range
    <3> QED  BY <3>2 DEF Converted
  <2>5. Map.targets.list \in Seq(Names)  BY <2>2, SettingsTypes
  <2> QED  BY <1>3, <2>3, <2>4, <2>5 DEF IInv, ReadConfig, capture
<1>4. CASE FindPids  BY <1>4 DEF IInv, FindPids, capture
<1>5. CASE NextName \/ FindPidsFails
  <2>1. targets \in Seq(Names) /\ targets # <<>>
    BY <1>5 DEF IInv, LookingUp, NextName, FindPidsFails
  <2>2. Tail(targets) \in Seq(Names)  BY <2>1, HeadTailProperties
  <2> QED  BY <1>5, <2>2 DEF IInv, NextName, FindPidsFails, capture
<1>6. CASE ReadTtl
  <2>1. Map.ttl.n \in Int
    <3>1. confs = <<>>  BY <1>6 DEF IInv, Loading, ReadTtl
    <3> QED  BY <3>1, MapIsWanted, SettingsTypes DEF IInv
  <2> QED  BY <1>6, <2>1 DEF IInv, ReadTtl, capture
<1>7. ASSUME NEW p \in Pids, FindPorts(p)
      PROVE  TypeOK'
  <2>1. targets \in Seq(Names) /\ targets # <<>>  BY <1>7 DEF IInv, LookingUp, FindPorts
  <2>2. Head(targets) \in Names  BY <2>1, HeadTailProperties
  <2>3. host[p].ports \subseteq Ports  BY DEF IInv, World, HostProcess
  <2>4. portMap' = [port \in host[p].ports \cup DOMAIN portMap |->
                      IF port \in host[p].ports THEN Head(targets) ELSE portMap[port]]
    BY <1>7 DEF FindPorts
  <2>5. DOMAIN portMap' \subseteq Ports  BY <2>3, <2>4 DEF IInv
  <2>6. Range(portMap') \subseteq Names  BY <2>2, <2>4 DEF IInv, Range
  <2> QED  BY <1>7, <2>5, <2>6 DEF IInv, FindPorts, capture
<1>8. ASSUME NEW p \in Pids, Change(p)
      PROVE  TypeOK'
  BY <1>8 DEF IInv, Change, service, capture
<1>9. CASE StartListen
  <2>1. \A s \in Found : s \subseteq Devices  BY DEF Found, Usable
  <2> QED  BY <1>9, <2>1 DEF IInv, StartListen, service
<1>10. CASE \E d \in Devices, port \in Ports : Packet(d, port)
  BY <1>10 DEF IInv, Packet, Up, service, capture
<1>11. CASE UNCHANGED vars  BY <1>11 DEF IInv, vars, service, capture
<1>12. ASSUME NEW p \in Pids, FindPortsFails(p)
       PROVE  TypeOK'
  BY <1>12 DEF IInv, FindPortsFails, capture
<1>13. ASSUME NEW d \in Devices, Listen(d) \/ ListenFails(d)
       PROVE  TypeOK'
  BY <1>13 DEF IInv, Listen, ListenFails, Ends, service, capture
<1> QED  BY <1>1, <1>2, <1>3, <1>4, <1>5, <1>6, <1>7, <1>8, <1>9, <1>10, <1>11, <1>12, <1>13 DEF Next

-----------------------------------------------------------------------------
\* Looking up the names.

LEMMA LookingUpStep ==
    ASSUME IInv, [Next]_vars
    PROVE  LookingUp'
<1> USE WantedStays
<1>1. Wanted \in Seq(Names) /\ targets \in Seq(Names)  BY WantedType DEF IInv, TypeOK
<1>2. Len(Wanted) \in Nat /\ Len(targets) \in Nat  BY <1>1, LenProperties
<1>3. CASE LoadPanic \/ LoadConf \/ LoadEnd \/ NoConfig \/ BadConfig \/ TtlExpires
  <2>1. place' \in {"load", "panic", "config", "fatal", "forced"}
    BY <1>3 DEF LoadPanic, LoadConf, LoadEnd, NoConfig, BadConfig, TtlExpires, Ends
  <2> QED  BY <2>1 DEF LookingUp, Reading
<1>4. CASE ReadConfig
  <2>1. confs = <<>>  BY <1>4 DEF IInv, Loading, ReadConfig
  <2>2. targets' = Wanted /\ place' = "names"
    BY <1>4, <2>1, MapIsWanted DEF IInv, ReadConfig
  <2>3. \A i \in 1..Len(Wanted) : Len(Wanted) - Len(Wanted) + i = i  BY <1>2
  <2> QED  BY <1>2, <2>2, <2>3 DEF LookingUp, Reading, Looked
<1>5. CASE FindPids
  <2>1. /\ place = "names" /\ place' = "pids" /\ targets' = targets /\ targets # <<>>
        /\ \A p \in pids' : Head(targets) \in host[p].names /\ ~host[p].grep
        /\ UNCHANGED <<host, changed>>
    BY <1>5 DEF FindPids, world
  <2> QED  BY <2>1 DEF IInv, LookingUp, Reading, Looked
<1>6. ASSUME NEW p \in Pids, FindPorts(p) \/ FindPortsFails(p)
      PROVE  LookingUp'
  <2>1. UNCHANGED <<place, targets, host, changed>> /\ pids' \subseteq pids
    BY <1>6 DEF FindPorts, FindPortsFails, world
  <2> QED  BY <2>1 DEF IInv, LookingUp, Reading, Looked
<1>7. CASE NextName \/ FindPidsFails
  <2>1. /\ place \in {"pids", "names"} /\ place' = "names"
        /\ targets' = Tail(targets) /\ targets # <<>>
    BY <1>7 DEF IInv, LookingUp, NextName, FindPidsFails
  <2>2. Len(targets') = Len(targets) - 1 /\ \A i \in 1..Len(targets') : targets'[i] = targets[i + 1]
    BY <1>1, <2>1, HeadTailProperties
  <2>3. /\ Len(targets) <= Len(Wanted)
        /\ \A i \in 1..Len(targets) : targets[i] = Wanted[Looked + i]
    BY <2>1 DEF IInv, LookingUp, Reading
  <2>4. ASSUME NEW i \in 1..Len(targets')
        PROVE  targets'[i] = Wanted[Looked' + i]
    <3>1. i + 1 \in 1..Len(targets)  BY <1>2, <2>2
    <3>2. targets'[i] = Wanted[Looked + (i + 1)]  BY <2>2, <2>3, <3>1
    <3>3. Looked + (i + 1) = Looked' + i  BY <1>2, <2>2 DEF Looked
    <3> QED  BY <3>2, <3>3
  <2>5. Len(targets') <= Len(Wanted)  BY <1>2, <2>2, <2>3
  <2> QED  BY <2>1, <2>4, <2>5 DEF LookingUp, Reading
<1>8. CASE ReadTtl
  <2>1. place = "names" /\ place' \in {"panic", "devices"} /\ targets = <<>> /\ targets' = targets
    BY <1>8 DEF ReadTtl
  <2> QED  BY <1>2, <2>1 DEF IInv, LookingUp, Reading, Looked
<1>9. ASSUME NEW p \in Pids, Change(p)
      PROVE  LookingUp'
  <2>1. UNCHANGED <<place, targets, pids>> /\ changed' = changed \cup {p}
    BY <1>9 DEF Change, service
  <2>2. ASSUME NEW q \in pids' \ changed'
        PROVE  q \in pids \ changed /\ host'[q] = host[q]
    BY <1>9, <2>1 DEF Change, IInv, World, TypeOK
  <2> QED  BY <2>1, <2>2 DEF IInv, LookingUp, Reading, Looked
<1>10. CASE StartListen
  <2>1. place = "devices" /\ place' \in {"ttl", "running"} /\ targets' = targets
    BY <1>10 DEF StartListen, service
  <2> QED  BY <1>2, <2>1 DEF IInv, LookingUp, Reading, Looked
<1>11. ASSUME UNCHANGED <<place, world, service>>
       PROVE  LookingUp'
  <2>1. UNCHANGED <<place, targets, pids, host, changed>>  BY <1>11 DEF world, service
  <2> QED  BY <2>1 DEF IInv, LookingUp, Reading, Looked
<1>12. CASE (\E d \in Devices, port \in Ports : Packet(d, port)) \/ (\E d \in Devices : Listen(d))
  BY <1>11, <1>12 DEF Packet, Listen
<1>13. CASE UNCHANGED vars  BY <1>11, <1>13 DEF vars
<1>14. CASE \E d \in Devices : ListenFails(d)
  <2>1. place' = "fatal"  BY <1>14 DEF ListenFails, Ends
  <2> QED  BY <2>1 DEF LookingUp, Reading
<1> QED  BY <1>3, <1>4, <1>5, <1>6, <1>7, <1>8, <1>9, <1>10, <1>12, <1>13, <1>14 DEF Next

LEMMA NamedStep ==
    ASSUME IInv, [Next]_vars
    PROVE  Named'
<1>1. Wanted \in Seq(Names) /\ targets \in Seq(Names)  BY WantedType DEF IInv, TypeOK
<1>2. /\ Len(Wanted) \in Nat /\ Len(targets) \in Nat
      /\ DOMAIN Wanted = 1..Len(Wanted)
  BY <1>1, LenProperties
<1> SUFFICES ASSUME Reading', NEW p \in Pids, NEW port \in Ports, Quiet(p, port)',
                    NEW i \in Matches(p)', LastOf(p, i, Done(p))'
             PROVE  port \in DOMAIN portMap' /\ portMap'[port] = Wanted'[i]
  BY DEF Named
<1>3. Quiet(p, port) /\ host'[p] = host[p] /\ Matches(p)' = Matches(p) /\ Wanted' = Wanted
  BY QuietBefore, WantedStays
<1>4. i \in Matches(p) /\ LastOf(p, i, Done(p)')  BY <1>3 DEF LastOf
<1>5. p \notin changed /\ p \notin missed' /\ p # Init1  BY <1>3 DEF Quiet
<1>6. Matches(p) \subseteq 1..Len(Wanted) /\ \A j \in Matches(p) : j \in Nat
  BY <1>2 DEF Matches
<1>7. ASSUME Reading, UNCHANGED portMap, LastOf(p, i, Done(p)) 
      PROVE  port \in DOMAIN portMap' /\ portMap'[port] = Wanted'[i]
  BY <1>3, <1>4, <1>7 DEF IInv, Named
<1>8. CASE LoadPanic \/ LoadConf \/ LoadEnd \/ NoConfig \/ BadConfig \/ TtlExpires
           \/ \E d \in Devices : ListenFails(d)
  <2>1. place' \in {"load", "panic", "config", "fatal", "forced"}
    BY <1>8 DEF LoadPanic, LoadConf, LoadEnd, NoConfig, BadConfig, TtlExpires, ListenFails, Ends
  <2> QED  BY <2>1 DEF Reading
<1>9. CASE ReadConfig
  <2>1. confs = <<>>  BY <1>9 DEF IInv, Loading, ReadConfig
  <2>2. targets' = Wanted /\ place' = "names"
    BY <1>9, <2>1, MapIsWanted DEF IInv, ReadConfig
  <2>3. Done(p)' = 0  BY <1>2, <1>3, <2>2 DEF Done, Looked
  <2> QED  BY <1>4, <1>6, <2>3 DEF LastOf
<1>10. CASE FindPids
  <2>1. /\ place = "names" /\ place' = "pids" /\ targets' = targets /\ targets # <<>>
        /\ pids' = {q \in Pids \ {Init1} : Head(targets) \in host[q].names /\ ~host[q].grep}
        /\ portMap' = portMap
    BY <1>10 DEF FindPids
  <2>2. Reading /\ Done(p) = Looked /\ Looked' = Looked
    BY <1>3, <2>1 DEF Reading, Done, Looked
  <2>3. CASE p \in pids'
    <3>1. Done(p)' = Looked  BY <2>1, <2>2, <2>3 DEF Done
    <3> QED  BY <1>4, <1>7, <2>1, <2>2, <3>1
  <2>4. CASE p \notin pids'
    <3>1. Done(p)' = Looked + 1  BY <2>1, <2>2, <2>4 DEF Done
    <3>2. Head(targets) \notin host[p].names \/ host[p].grep  BY <1>5, <2>1, <2>4
    <3>3. Head(targets) = Wanted[Looked + 1]
      <4>1. Head(targets) = targets[1] /\ 1 \in 1..Len(targets)
        BY <1>1, <2>1, HeadTailProperties
      <4> QED  BY <2>2, <4>1 DEF IInv, LookingUp
    <3>4. Looked + 1 \notin Matches(p)  BY <3>2, <3>3 DEF Matches
    <3>5. Looked \in Int  BY <1>2 DEF Looked
    <3>6. \A j \in Matches(p) : j <= Looked + 1 <=> j <= Looked  BY <1>6, <3>4, <3>5
    <3>7. LastOf(p, i, Looked)  BY <1>4, <3>1, <3>6 DEF LastOf
    <3> QED  BY <1>7, <2>1, <2>2, <3>7
  <2> QED  BY <2>3, <2>4
<1>11. ASSUME NEW q \in Pids, FindPorts(q)
       PROVE  port \in DOMAIN portMap' /\ portMap'[port] = Wanted'[i]
  <2>1. /\ place = "pids" /\ place' = place /\ targets' = targets /\ targets # <<>>
        /\ q \in pids /\ pids' = pids \ {q}
        /\ portMap' = [x \in host[q].ports \cup DOMAIN portMap |->
                         IF x \in host[q].ports THEN Head(targets) ELSE portMap[x]]
    BY <1>11 DEF FindPorts, IInv, LookingUp
  <2>2. Reading /\ Looked' = Looked  BY <1>3, <2>1 DEF Reading, Looked
  <2>3. CASE q # p
    <3>1. Done(p)' = Done(p)  BY <2>1, <2>2, <2>3 DEF Done
    <3>2. <<q, port>> \notin held  BY <1>3, <2>3 DEF Quiet
    <3>3. port \notin host[q].ports
      <4>1. <<q, port>> \notin Held(host)  BY <3>2 DEF IInv, World
      <4> QED  BY <4>1 DEF Held
    <3>4. port \in DOMAIN portMap /\ portMap[port] = Wanted[i]
      BY <1>3, <1>4, <2>2, <3>1 DEF IInv, Named
    <3> QED  BY <1>3, <2>1, <3>3, <3>4
  <2>4. CASE q = p
    <3>1. Done(p)' = Looked + 1  BY <2>1, <2>2, <2>4 DEF Done
    <3>2. /\ Head(targets) = targets[1] /\ 1 \in 1..Len(targets)
      BY <1>1, <2>1, HeadTailProperties
    <3>3. Head(targets) = Wanted[Looked + 1] /\ Len(targets) <= Len(Wanted)
      BY <2>2, <3>2 DEF IInv, LookingUp
    <3>4. Head(targets) \in host[p].names /\ ~host[p].grep
      BY <1>5, <2>1, <2>4 DEF IInv, LookingUp
    <3>5. Looked + 1 \in 1..Len(Wanted)  BY <1>2, <3>2, <3>3 DEF Looked
    <3>6. Looked + 1 \in Matches(p)  BY <1>2, <3>3, <3>4, <3>5 DEF Matches
    <3>7. i = Looked + 1
      <4>1. i <= Looked + 1 /\ Looked + 1 <= i
        BY <1>4, <3>1, <3>5, <3>6 DEF LastOf
      <4> QED  BY <1>6, <1>4, <3>5, <4>1
    <3>8. port \in host[p].ports
      <4>1. <<p, port>> \in held  BY <1>3 DEF Quiet
      <4> QED  BY <1>5, <4>1 DEF IInv, World
    <3> QED  BY <1>3, <2>1, <2>4, <3>3, <3>7, <3>8
  <2> QED  BY <2>3, <2>4
<1>12. CASE NextName
  <2>1. /\ place = "pids" /\ place' = "names" /\ targets' = Tail(targets) /\ targets # <<>>
        /\ pids = {} /\ portMap' = portMap
    BY <1>12 DEF IInv, LookingUp, NextName
  <2>2. Len(targets') = Len(targets) - 1  BY <1>1, <2>1, HeadTailProperties
  <2>3. Done(p)' = Done(p)  BY <1>2, <1>3, <2>1, <2>2 DEF Done, Looked
  <2> QED  BY <1>4, <1>7, <2>1, <2>3 DEF Reading
<1>13. ASSUME Reading, UNCHANGED <<targets, portMap>>, (place = "pids" \/ place' = "pids") => UNCHANGED <<place, pids>>
       PROVE  port \in DOMAIN portMap' /\ portMap'[port] = Wanted'[i]
  <2>1. Done(p)' = Done(p)  BY <1>3, <1>13 DEF Done, Looked
  <2> QED  BY <1>4, <1>7, <1>13, <2>1
<1>14. CASE ReadTtl
  <2>1. place = "names" /\ place' \in {"panic", "devices"} /\ UNCHANGED <<targets, portMap>>
    BY <1>14 DEF ReadTtl
  <2> QED  BY <1>13, <2>1 DEF Reading
<1>15. CASE StartListen
  <2>1. place = "devices" /\ place' \in {"ttl", "running"} /\ UNCHANGED <<targets, portMap>>
    BY <1>15 DEF StartListen, service
  <2> QED  BY <1>13, <2>1 DEF Reading
<1>16. CASE \/ \E q \in Pids : Change(q)
            \/ \E d \in Devices : Listen(d) \/ \E pt \in Ports : Packet(d, pt)
            \/ UNCHANGED vars
  <2>1. UNCHANGED <<place, targets, pids, portMap>>
    BY <1>16 DEF Change, Listen, Packet, vars, service
  <2> QED  BY <1>13, <2>1 DEF Reading
<1>17. CASE FindPidsFails
  <2>1. /\ place = "names" /\ place' = place /\ targets' = Tail(targets) /\ targets # <<>>
        /\ portMap' = portMap /\ Head(targets) \notin host[p].names
    BY <1>5, <1>17 DEF FindPidsFails
  <2>2. /\ Len(targets') = Len(targets) - 1 /\ Head(targets) = targets[1] /\ 1 \in 1..Len(targets)
    BY <1>1, <2>1, HeadTailProperties
  <2>3. Reading /\ Done(p) = Looked /\ Done(p)' = Looked + 1 /\ Looked \in Int
    BY <1>2, <1>3, <2>1, <2>2 DEF Reading, Done, Looked
  <2>4. Head(targets) = Wanted[Looked + 1]  BY <2>2, <2>3 DEF IInv, LookingUp
  <2>5. Looked + 1 \notin Matches(p)  BY <2>1, <2>4 DEF Matches
  <2>6. \A j \in Matches(p) : j <= Looked + 1 <=> j <= Looked  BY <1>6, <2>3, <2>5
  <2>7. LastOf(p, i, Done(p))  BY <1>4, <2>3, <2>6 DEF LastOf
  <2> QED  BY <1>7, <2>1, <2>3, <2>7
<1>18. ASSUME NEW q \in Pids, FindPortsFails(q)
       PROVE  port \in DOMAIN portMap' /\ portMap'[port] = Wanted'[i]
  <2>1. /\ place = "pids" /\ place' = place /\ UNCHANGED <<targets, portMap>>
        /\ q # p /\ pids' = pids \ {q}
    BY <1>5, <1>18 DEF FindPortsFails
  <2>2. Done(p)' = Done(p)  BY <1>3, <2>1 DEF Done, Looked
  <2> QED  BY <1>4, <1>7, <2>1, <2>2 DEF Reading
<1> QED  BY <1>8, <1>9, <1>10, <1>11, <1>12, <1>14, <1>15, <1>16, <1>17, <1>18 DEF Next

-----------------------------------------------------------------------------
\* Packets.

\* When all names are looked up a quiet process has the last name that matches it
\* for each of its ports.
LEMMA QuietIsNamed ==
    ASSUME IInv, Up, NEW p \in Pids, NEW port \in Ports, Quiet(p, port), Matches(p) # {}
    PROVE  port \in DOMAIN portMap /\ portMap[port] = NameOf(p)
<1>1. Wanted \in Seq(Names)  BY WantedType DEF IInv
<1>2. Len(Wanted) \in Nat /\ DOMAIN Wanted = 1..Len(Wanted)  BY <1>1, LenProperties
<1>3. Matches(p) \subseteq Nat /\ \A i \in Matches(p) : i <= Len(Wanted)
  BY <1>2 DEF Matches
<1>4. Max(Matches(p)) \in Matches(p) /\ \A j \in Matches(p) : j <= Max(Matches(p))
  BY <1>2, <1>3, MaxNat
<1>5. Reading /\ targets = <<>> /\ place # "pids"  BY DEF IInv, LookingUp, Reading, Up
<1>6. Done(p) = Len(Wanted)  BY <1>2, <1>5 DEF Done, Looked
<1>7. LastOf(p, Max(Matches(p)), Done(p))  BY <1>3, <1>4, <1>6 DEF LastOf
<1> QED  BY <1>4, <1>5, <1>7 DEF IInv, Named, NameOf

\* After the first packet the ports and the names stay.
LEMMA AfterPacket ==
    ASSUME IInv, [Next]_vars, last # <<>>
    PROVE  /\ UNCHANGED <<httpPorts, tcpPorts, portMap>>
           /\ place' \in {"ttl", "running", "forced", "fatal"}
<1> place \in {"ttl", "running", "forced", "fatal"}  BY DEF IInv, Captured
<1>1. CASE LoadPanic \/ LoadConf \/ LoadEnd \/ NoConfig \/ BadConfig \/ ReadConfig \/ FindPids
           \/ FindPidsFails \/ NextName \/ ReadTtl \/ StartListen
           \/ \E p \in Pids : FindPorts(p) \/ FindPortsFails(p)
  BY <1>1 DEF LoadPanic, LoadConf, LoadEnd, NoConfig, BadConfig, ReadConfig, FindPids,
              FindPidsFails, NextName, ReadTtl, StartListen, FindPorts, FindPortsFails
<1>2. CASE TtlExpires \/ \E d \in Devices : Listen(d) \/ ListenFails(d)
  BY <1>2 DEF TtlExpires, Listen, ListenFails, Ends, service
<1>3. CASE \E p \in Pids : Change(p)  BY <1>3 DEF Change, service
<1>4. CASE \E d \in Devices, port \in Ports : Packet(d, port)  BY <1>4 DEF Packet, service
<1>5. CASE UNCHANGED vars  BY <1>5 DEF vars, service
<1> QED  BY <1>1, <1>2, <1>3, <1>4, <1>5 DEF Next

LEMMA LastChanges ==
    ASSUME [Next]_vars
    PROVE  UNCHANGED last \/ \E d \in Devices, port \in Ports : Packet(d, port)
<1>1. CASE LoadPanic \/ LoadEnd \/ NoConfig \/ BadConfig \/ TtlExpires
  BY <1>1 DEF LoadPanic, LoadEnd, NoConfig, BadConfig, TtlExpires, Ends
<1>2. CASE LoadConf \/ ReadConfig \/ FindPids \/ FindPidsFails \/ NextName \/ ReadTtl
  BY <1>2 DEF LoadConf, ReadConfig, FindPids, FindPidsFails, NextName, ReadTtl
<1>3. CASE \E p \in Pids : FindPorts(p) \/ FindPortsFails(p) \/ Change(p)
  BY <1>3 DEF FindPorts, FindPortsFails, Change
<1>4. CASE StartListen \/ \E d \in Devices : Listen(d) \/ ListenFails(d)
  BY <1>4 DEF StartListen, Listen, ListenFails, Ends
<1>5. CASE UNCHANGED vars  BY <1>5 DEF vars
<1> QED  BY <1>1, <1>2, <1>3, <1>4, <1>5 DEF Next

LEMMA LabelledStep ==
    ASSUME IInv, [Next]_vars
    PROVE  Labelled'
<1>1. CASE UNCHANGED last
  <2>1. SUFFICES ASSUME last # <<>>, NEW p \in Pids \ (changed' \cup missed' \cup {Init1}),
                        {q \in Pids : <<q, last[1].port>> \in held'} = {p}, Matches(p)' # {}
                 PROVE  last[1].port \in Filter' /\ last[1].label = NameOf(p)'
    BY <1>1 DEF Labelled
  <2>2. PICK port \in Ports : port = last[1].port  BY <2>1 DEF IInv, Captured
  <2>3. Quiet(p, port)'  BY <2>1, <2>2 DEF Quiet
  <2>4. Quiet(p, port) /\ Matches(p)' = Matches(p)  BY <2>3, QuietBefore
  <2>5. last[1].port \in Filter /\ last[1].label = NameOf(p)
    BY <2>1, <2>2, <2>4 DEF IInv, Labelled, Quiet
  <2>6. NameOf(p)' = NameOf(p)  BY <2>4, WantedStays DEF NameOf
  <2>7. Filter' = Filter  BY <2>1, AfterPacket DEF Filter
  <2> QED  BY <2>5, <2>6, <2>7
<1>2. ASSUME NEW d \in Devices, NEW port \in Ports, Packet(d, port)
      PROVE  Labelled'
  <2>1. SUFFICES ASSUME NEW p \in Pids \ (changed' \cup missed' \cup {Init1}),
                        {q \in Pids : <<q, port>> \in held'} = {p}, Matches(p)' # {}
                 PROVE  port \in Filter' /\ Label(port) = NameOf(p)'
    BY <1>2 DEF Labelled, Packet
  <2>2. Up /\ UNCHANGED <<httpPorts, tcpPorts, portMap>>  BY <1>2 DEF Packet, service
  <2>3. Quiet(p, port)'  BY <2>1 DEF Quiet
  <2>4. Quiet(p, port) /\ Matches(p)' = Matches(p)  BY <2>3, QuietBefore
  <2>5. port \in DOMAIN portMap /\ portMap[port] = NameOf(p)
    BY <2>1, <2>2, <2>4, QuietIsNamed
  <2>6. NameOf(p)' = NameOf(p)  BY <2>4, WantedStays DEF NameOf
  <2> QED  BY <2>2, <2>5, <2>6 DEF Filter, Label
<1> QED  BY <1>1, <1>2, LastChanges

-----------------------------------------------------------------------------
\* Devices.

LEMMA ListeningStep ==
    ASSUME IInv, [Next]_vars
    PROVE  Listening'
<1> USE FoundStays
<1>1. CASE UNCHANGED capture /\ (Before' => Before)
  BY <1>1 DEF IInv, Listening, capture
<1>2. CASE StartListen
  <2>1. listening = {}  BY <1>2 DEF StartListen, IInv, Listening, Before
  <2> QED  BY <1>2, <2>1 DEF StartListen, Listening, Before
<1>3. ASSUME NEW d \in Devices, Listen(d)
      PROVE  Listening'
  <2>1. starting' \cup listening' = starting \cup listening  BY <1>3 DEF Listen
  <2>2. ~ Before'  BY <1>3 DEF Listen, Up, Before
  <2> QED  BY <1>3, <2>1, <2>2 DEF IInv, Listening
<1>4. ASSUME ~ StartListen, ~ \E d \in Devices : Listen(d)
      PROVE  UNCHANGED capture /\ (Before' => Before)
  <2> USE DEF Before
  <2>1. CASE LoadPanic \/ LoadEnd \/ NoConfig \/ BadConfig \/ TtlExpires
    BY <2>1 DEF LoadPanic, LoadEnd, NoConfig, BadConfig, TtlExpires, Ends
  <2>2. CASE LoadConf \/ ReadConfig \/ FindPids \/ FindPidsFails \/ NextName \/ ReadTtl
    BY <2>2 DEF LoadConf, ReadConfig, FindPids, FindPidsFails, NextName, ReadTtl
  <2>3. CASE \E p \in Pids : FindPorts(p) \/ FindPortsFails(p) \/ Change(p)
    BY <2>3 DEF FindPorts, FindPortsFails, Change
  <2>4. CASE \E d \in Devices : ListenFails(d) \/ \E port \in Ports : Packet(d, port)
    BY <2>4 DEF ListenFails, Packet, Ends
  <2>5. CASE UNCHANGED vars  BY <2>5 DEF vars
  <2> QED  BY <1>4, <2>1, <2>2, <2>3, <2>4, <2>5 DEF Next
<1> QED  BY <1>1, <1>2, <1>3, <1>4

\* A bond listens alone, and without a bond a packet is seen on its device only.
LEMMA SeenOnce ==
    ASSUME IInv, OnlyBonds, NEW d \in Devices
    PROVE  \E x \in Devices : Seers(d) \subseteq {x}
<1> DEFINE bonds == {e \in Usable : net[e].name = "bond"}
<1>1. CASE listening = {}  BY <1>1 DEF Seers
<1>2. CASE listening \subseteq Usable /\ bonds = {}
  <2>1. ASSUME NEW e \in Seers(d)
        PROVE  e = d
    <3>1. e \in Usable /\ net[e].name # "bond"  BY <1>2, <2>1 DEF Seers
    <3>2. net[e].slaves = {}  BY <3>1 DEF OnlyBonds, Usable
    <3> QED  BY <2>1, <3>2 DEF Seers
  <2> QED  BY <2>1
<1>3. ASSUME NEW b \in bonds, listening \subseteq {b}
      PROVE  \E x \in Devices : Seers(d) \subseteq {x}
  BY <1>3 DEF Seers, Usable
<1>4. listening = {} \/ \E found \in Found : listening \subseteq found
  BY DEF IInv, Listening
<1>5. Found = IF bonds = {} THEN {Usable} ELSE {{b} : b \in bonds}  BY DEF Found
<1> QED  BY <1>1, <1>2, <1>3, <1>4, <1>5

LEMMA CapturedStep ==
    ASSUME IInv, [Next]_vars
    PROVE  Captured'
<1> USE InputsStay DEF OnlyBonds
<1>1. CASE UNCHANGED last  BY <1>1, AfterPacket DEF IInv, Captured
<1>2. ASSUME NEW d \in Devices, NEW port \in Ports, Packet(d, port)
      PROVE  Captured'
  <2>1. OnlyBonds => \E x \in Devices : Seers(d) \subseteq {x}  BY SeenOnce
  <2>2. last'[1].port = port /\ last'[1].copies \subseteq Seers(d)
    BY <1>2 DEF Packet
  <2>3. place' \in {"ttl", "running"}  BY <1>2 DEF Packet, Up
  <2> QED  BY <2>1, <2>2, <2>3 DEF Captured
<1> QED  BY <1>1, <1>2, LastChanges

-----------------------------------------------------------------------------
LEMMA InitIInv ==
    ASSUME Init
    PROVE  IInv
<1>1. Inputs  BY DEF Init, Inputs
<1>2. paths.list \in Seq(Conf)  BY <1>1, InputTypes
<1>3. TypeOK  BY PortsAssumption DEF Init, TypeOK, Range
<1>4. Loading
  <2>1. Len(paths.list) \in Nat  BY <1>2, LenProperties
  <2>2. \A i \in 1..Len(paths.list) : 0 + i = i  BY <2>1
  <2>3. ReadUpTo(0)  BY <2>1, <2>2 DEF Init, ReadUpTo
  <2> QED  BY <1>2, <2>1, <2>3 DEF Init, Loading
<1>5. World
  <2>1. host \in [Pids -> HostProcess]  BY HostsAssumption DEF Init
  <2> QED  BY <2>1 DEF Init, World, Held
<1>6. LookingUp /\ Named  BY DEF Init, LookingUp, Named, Reading
<1>7. Labelled /\ Listening /\ Captured  BY DEF Init, Labelled, Listening, Captured
<1> QED  BY <1>1, <1>3, <1>4, <1>5, <1>6, <1>7 DEF IInv

LEMMA NextIInv ==
    ASSUME IInv, [Next]_vars
    PROVE  IInv'
<1>1. Inputs'  BY InputsStay DEF IInv, Inputs
<1> QED  BY <1>1, TypeStep, LoadingStep, WorldStep, LookingUpStep, NamedStep, LabelledStep,
            ListeningStep, CapturedStep DEF IInv

\* The invariant holds in every state, whatever files, names, processes and
\* devices there are.
THEOREM Invariance == Spec => []IInv
  BY InitIInv, NextIInv, PTL DEF Spec

-----------------------------------------------------------------------------
\* Ports, names, processes and devices are what the variables hold: no name is
\* looked up that was not configured, and pid 1 never
\* (tcpdump_input.go:166-258; util.go:87-107).
THEOREM TypeCorrect == Spec => []TypeOK
<1>1. IInv => TypeOK  BY DEF IInv
<1> QED  BY <1>1, Invariance, PTL

\* A packet for a port that only one process had, which is as it was at the start,
\* has no "grep" in its command line and was passed over by no failed lookup, passes
\* the filter under the last configured name which that process has, however many
\* names, files and other processes there are and whatever these do meanwhile
\* (tcpdump_input.go:206-226, 299-301; stream.go:70-74).
THEOREM PacketsAreLabelled == Spec => []Labelled
<1>1. IInv => Labelled  BY DEF IInv
<1> QED  BY <1>1, Invariance, PTL

\* No packet is captured on two devices, if those that are made of others are all
\* named like bonds (util.go:28-55).
THEOREM PacketsAreCapturedOnce == Spec => []CapturedOnce
<1>1. ASSUME IInv PROVE CapturedOnce
  <2>1. SUFFICES ASSUME OnlyBonds, last # <<>> PROVE Cardinality(last[1].copies) <= 1
    BY DEF CapturedOnce
  <2>2. PICK d \in Devices : last[1].copies \subseteq {d}  BY <1>1, <2>1 DEF IInv, Captured
  <2>3. last[1].copies = {} \/ last[1].copies = {d}  BY <2>2
  <2>4. Cardinality({}) = 0 /\ Cardinality({d}) = 1  BY FS_EmptySet, FS_Singleton
  <2> QED  BY <2>3, <2>4
<1> QED  BY <1>1, Invariance, PTL

=============================================================================

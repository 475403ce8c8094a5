----------------------------- MODULE MCTcpDump -----------------------------
(* Two ports and port 80, two names, three processes, a device made of two others. *)
EXTENDS TcpDump, TLC

CONSTANTS p80, null, p1, p2, kafka, redis, initProc, a, b, bond0, eth0, eth1

List(s) == [is |-> "list", list |-> s]
Number(n) == [is |-> "number", n |-> n]
NoTtl == [is |-> "absent", n |-> 0]

Own(https, tcps, names, time) ==
    [is |-> "own", map |-> [http |-> https, tcp |-> tcps, targets |-> names, ttl |-> time]]
Some(what) == [is |-> what, map |-> <<>>]

BothNames == Own(List(<<Default, p1>>), Absent, List(<<kafka, redis>>), NoTtl)
OneName   == Own(Absent, List(<<p2>>), List(<<redis>>), Number(60))
NullPort  == Own(List(<<Null>>), Absent, Absent, NoTtl)

MCPaths == {Absent, [is |-> "mixed", list |-> <<>>],
    List(<<BothNames>>), List(<<OneName, Some("other"), BothNames>>), List(<<Some("missing"), OneName>>),
    List(<<Some("invalid"), NullPort, Some("nameless")>>), List(<<BothNames, Some("misnamed")>>)}

MCFormats == {[is |-> "absent", map |-> Empty], [is |-> "invalid", map |-> Empty],
    [is |-> "given", map |-> [Empty EXCEPT !.http = [is |-> "scalar", list |-> <<>>],
                                          !.ttl = [is |-> "text", n |-> 0]]],
    [is |-> "given", map |-> [Empty EXCEPT !.targets = List(<<redis, kafka>>), !.ttl = Number(15)]],
    [is |-> "given", map |-> [Empty EXCEPT !.targets = [is |-> "mixed", list |-> <<>>]]],
    [is |-> "given", map |-> [Empty EXCEPT !.ttl = [is |-> "nonstring", n |-> 0]]]}

\* The process a answers to both names, and b to one of them; they share a port
\* in the second; in the third a line with both names is of a grep.
Process(names, ports) == [names |-> names, grep |-> FALSE, ports |-> ports]
MCHosts == {
    initProc :> Process({kafka}, {Default})
        @@ a :> Process({kafka, redis}, {p1}) @@ b :> Process({redis}, {p2}),
    initProc :> Process({}, {})
        @@ a :> Process({kafka}, {p1, p2}) @@ b :> Process({redis}, {p2, Default}),
    initProc :> Process({}, {})
        @@ a :> [Process({kafka, redis}, {p1}) EXCEPT !.grep = TRUE] @@ b :> Process({kafka}, {p2})}

Dev(name, address, slaves) == [name |-> name, address |-> address, slaves |-> slaves]

\* A bond of two devices, one with an address too; a bridge of them; and two
\* devices of which nothing is made.
MCNets == {
    bond0 :> Dev("bond", "host", {eth0, eth1})
        @@ eth0 :> Dev("other", "host", {}) @@ eth1 :> Dev("other", "none", {}),
    bond0 :> Dev("other", "host", {eth0, eth1})
        @@ eth0 :> Dev("other", "host", {}) @@ eth1 :> Dev("other", "none", {}),
    bond0 :> Dev("lo", "loopback", {})
        @@ eth0 :> Dev("other", "host", {}) @@ eth1 :> Dev("other", "host", {})}

=============================================================================

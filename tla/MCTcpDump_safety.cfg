CONSTANTS
    p1 = p1  p2 = p2  kafka = kafka  redis = redis
    initProc = initProc  a = a  b = b
    bond0 = bond0  eth0 = eth0  eth1 = eth1
    p80 = p80  null = null
    Default = p80
    Null = null
    Ports = {p80, p1, p2}
    Names = {kafka, redis}
    Pids = {initProc, a, b}
    Init1 = initProc
    Devices = {bond0, eth0, eth1}
    Paths <- MCPaths
    Formats <- MCFormats
    Hosts <- MCHosts
    Nets <- MCNets
    MaxChanges = 1
SPECIFICATION Spec
INVARIANTS TypeOK Labelled CapturedOnce
\* The process may end.
CHECK_DEADLOCK FALSE

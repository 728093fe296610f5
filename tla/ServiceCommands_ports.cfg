SPECIFICATION Spec
CONSTANTS
    Cli = {c}
    Addr = {a}
    Container = {x, y}
    HostService = {x}
    Given = {1, 4}
    MaxPort = 3
    HttpPort = 2
    DeducedPort = 3
    Peer = p
    Local = Local
    NoDef = NoDef
    NotBound = NotBound
INVARIANTS TypeOK TargetsAreServable StaysUsable
PROPERTIES BoundAsAsked OthersStay CommandEdits

SPECIFICATION ClaimsSpec
SYMMETRY Symmetry
CONSTANTS
    Addr = {a, b}
    Site = {s, p, q}
    Shape = {x, y}
    Local = Local
    NoDef = NoDef
    Self = s
    MaxEvents = 2
INVARIANTS TypeOK CacheCoherent RemoteTracked
PROPERTIES NoHijack WatchedSpec AgeingSparesUncontested UpdateSparesUncontested

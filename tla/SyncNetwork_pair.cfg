SPECIFICATION FairSpec
CONSTANTS
    Addr = {a}
    Site = {s, t}
    Shape = {x, y}
    Local = Local
    NoDef = NoDef
    MaxEvents = 1
    NoMail = NoMail
    MaxCommands = 2
    MaxCuts = 1
    MaxCrashes = 1
    MaxReturns = 1
INVARIANTS TypeOK NoFabrication
PROPERTIES  EverySiteIsASite

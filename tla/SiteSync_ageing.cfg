SPECIFICATION Spec
SYMMETRY Symmetry
CONSTANTS
    Addr = {a}
    Site = {s, p, q}
    Shape = {x}
    Local = Local
    NoDef = NoDef
    Self = s
    MaxEvents = 2

PROPERTIES AgeingSparesLocal

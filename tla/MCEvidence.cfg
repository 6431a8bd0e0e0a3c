CONSTANTS
    p = p
    q = q
    o = o
    a = a
    Procs = {p, q}
    NoFile = NoFile
    Roster <- MCRoster
    Lined = {a}
    Briefs = {1, 2}
    MaxBoots = 4
    MaxCreates = 3
    MaxAsks = 2
    MaxCommands = 2
    MaxLooks = 0
    MaxFaults = 1
SPECIFICATION Spec
SYMMETRY Symmetry
CONSTRAINT UntilRaced
PROPERTY EvidenceStays
CHECK_DEADLOCK FALSE

CONSTANTS
    p = p
    q = q
    o = o
    a = a
    Procs = {p, q}
    NoFile = NoFile
    Roster <- MCRoster
    Lined = {a}
    Briefs = {1, 2}
    MaxBoots = 4
    MaxCreates = 3
    MaxAsks = 2
    MaxCommands = 3
    MaxLooks = 1
    MaxFaults = 2
SPECIFICATION Spec
SYMMETRY Symmetry
CONSTRAINT UntilRaced
INVARIANTS
    TypeOK
    ExclusiveUnlessUnlinked
    NoLostWrite
    NoOrphans
    NoStaleTurn
    CreatedMeansRunning
    MissionApartUnlessAbandoned
PROPERTIES
    
    ManifestNamesReadbacks
    ArchivedBeforeGone
    BackupStays
CHECK_DEADLOCK FALSE

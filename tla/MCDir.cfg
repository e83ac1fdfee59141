SPECIFICATION Spec
CONSTANTS
    NumInodes = 3
    NameSet = {a, b}
    NoName = NoName
    MaxLinks = 2
    MaxEntries = 3
INVARIANTS
    TypeOK
    EntriesNameUsed
    LinksCoverEntries
    EntriesReachable
    NamesOnce
    LogFollows
PROPERTY ImplementsNames
SYMMETRY AnyNames

SPECIFICATION Spec
CONSTANTS
    NumInodes = 2
    NameSet = {a, b}
    NoName = NoName
    MaxLinks = 2
    MaxEntries = 3
INVARIANT NoOrphans

SPECIFICATION Spec
CONSTANT Options <- MCOptions
CHECK_DEADLOCK FALSE
INVARIANTS
    TypeOK
    CheckpointFits
    LayoutForLog
PROPERTY WrittenOnce

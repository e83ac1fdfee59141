SPECIFICATION Spec
CONSTANT Options <- MCOptions
CHECK_DEADLOCK FALSE
INVARIANT TailWritable

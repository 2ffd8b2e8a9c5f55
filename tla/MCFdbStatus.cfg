SPECIFICATION Spec
CONSTANT StatusNum = 8
INVARIANT ReadsHighestWritten
PROPERTY NeverBackward

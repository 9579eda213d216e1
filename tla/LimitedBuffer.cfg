SPECIFICATION Spec
CONSTANTS
    Bytes = {0, 1}
    limit = 3
    MaxInput = 6
INVARIANT KeepsThePrefix

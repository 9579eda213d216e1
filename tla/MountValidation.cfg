SPECIFICATION Spec
CONSTANTS
    Paths <- MCPaths
    Links <- MCLinks
    Kinds <- MCKinds
    IsWindows <- MCIsWindows
    Holds <- MCHolds
    Devs = {1, 2}
    MaxMounts = 3
    MaxChanges = 3
INVARIANT SelectsTheMount
PROPERTY WindowsIsRefused

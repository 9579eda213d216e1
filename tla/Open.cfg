CONSTANTS
    Sites <- MCSites
    OptionLists <- AllOptionLists
    Helpers <- MCHelpers
SPECIFICATION LinuxFairSpec
INVARIANT SelectionIsExplained
INVARIANT TerminalFailureStops
INVARIANT PlaintextIsPermitted
INVARIANT LinuxTypeOK
INVARIANT NoSilentDowngrade
INVARIANT ProbesLeaveNothing
INVARIANT EndedContextIsLast
PROPERTY LateAnswerIsDiscarded
PROPERTY ImplementsSelection
PROPERTY OpenReturns

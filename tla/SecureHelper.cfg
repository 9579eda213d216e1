CONSTANTS
    Sites <- LinuxSites
    OptionLists <- LinuxOptionLists
    Helpers <- MCHelpers
SPECIFICATION LinuxSpec
INVARIANT OnlyAbsentHelperContinues

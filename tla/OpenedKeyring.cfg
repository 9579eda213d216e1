SPECIFICATION FairSpec
CONSTANTS
    None = None  Blocked = Blocked  Unreadable = Unreadable
    empty = empty  short = short  long = long  huge = huge
    Threads = {t1, t2}
    Opened = {"keychain", "windows-credential-manager", "kernel-keyring", "custom", "unsupported"}
    Keys <- PlainKeys
    Values = {empty, short, long, huge}
    KeysOf <- MCKeysOf
    ValuesOf <- MCValuesOf
    Trimmed <- Spaceless
    CommandLength <- Sizes
    commandLimit = 2
    MaxCalls = 2
    Units = {"a", ":", "n"}
    Blob <- Sizes
    Unusable = {"n"}
    maxCredentialBlobBytes = 2
    maxGenericTargetUnits = 4
    maxUsernameUnits = 2
    NativeErrors = {"username", "denied", "logon", "other"}
    SizeOf <- Sizes
    userKeyPayloadLimit = 2
    Errnos = {"EPERM"}
INVARIANT MapIsNotRaced
PROPERTY ServicesAreApart
PROPERTY ImplementsRemoteContract
PROPERTY OperationReturns
PROPERTY EndedReturns
CHECK_DEADLOCK FALSE

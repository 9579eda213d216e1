SPECIFICATION Spec
CONSTANTS
    None = None
    Threads = {t1, t2}
    Units = {"a", ":", "n"}
    Keys <- ColonKeys
    Values = {"v1", "huge"}
    Blob <- MCBlob
    Unusable = {"n"}
    maxCredentialBlobBytes = 2
    maxGenericTargetUnits = 9
    maxUsernameUnits = 5
    NativeErrors = {"username", "denied", "logon", "other"}
PROPERTY ServicesAreApart

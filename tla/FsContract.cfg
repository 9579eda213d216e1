SPECIFICATION Spec
CONSTANTS
    t1 = t1  t2 = t2
    p1 = p1  p2 = p2
    s1 = s1
    long = long  empty = empty
    None = None  Blocked = Blocked  Torn = Torn
    Threads = {t1, t2}
    Procs = {p1, p2}
    ProcOf <- TwoProcesses
    Keys = {k1}
    Stripes = {s1}
    StripeOf <- OneStripe
    Values = {long, empty}
    SizeOf <- Sizes
    MaxLen = 2
    Temps = {n1, n2}
    Files = {f1, f2, f3}
    MaxAttempts = 2
    Faults = {"mkdir", "open", "read", "write", "fsync", "rename", "unlink", "fsyncDir"}
    Crashes = TRUE
    PowerFails = FALSE
SYMMETRY Mirrored
INVARIANT TypeOK
INVARIANT TemporaryIsPrivate
INVARIANT NoTornRead
PROPERTY ImplementsContract

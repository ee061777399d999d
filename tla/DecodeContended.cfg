\* Two threads verify a genuine token, and no key changes.
SPECIFICATION Spec
CONSTANTS
    Threads = {t1, t2}
    None = None
    lok = lok
    backup = backup
    lost = lost
    odd = odd
    torn = torn
    NoKey = NoKey
    Garbled = Garbled
    rekuest = rekuest
    k1 = k1
    k2 = k2
    a1 = a1
    a2 = a2
    b2 = b2
    p1 = p1
    j1 = j1
    t1 = t1
    Issuers = {lok, backup, lost, odd, torn, rekuest}
    Kids = {k1, k2}
    Keys = {a1, a2, b2, p1}
    Jtis = {j1}
    Locks <- MCLocks
    kind <- MCKind
    Documents <- Unchanging
    Revoking = {backup}
    Trusted <- MCTrusted
    Workloads <- Genuine
PROPERTY InvalidMeansInvalid

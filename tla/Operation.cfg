\* Two operations on one connection; the world changes twice.
SPECIFICATION Spec
CONSTANTS
    Tasks = {t1, t2}
    Connections = {c1}
    Tokens <- MCTokens
    Configurations <- MCConfigurations
    None = None
    MaxChanges = 2
SYMMETRY Symmetry
INVARIANT TypeOK
INVARIANT AuthenticatedAnew
INVARIANT VarsAreTheOperations
INVARIANT GuestsReadOnly
INVARIANT WritesAreAdmitted
INVARIANT ProvenanceFailsClosed
INVARIANT BlockedCannotOperate

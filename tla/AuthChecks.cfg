\* Every token against every field, while catch-alls are declared.
SPECIFICATION Spec
CONSTANTS
    Scopes = {s1}
    Roles = {r1, r2}
    None = None
    Fields <- TwoRequirements
    Holders <- AnyHolder
INVARIANT TypeOK
INVARIANT GuestRolesAreIgnored
INVARIANT RefusalsAreCurable
PROPERTY CatchAllsOnlyWiden

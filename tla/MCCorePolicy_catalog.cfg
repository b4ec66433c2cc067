\* Two users and two zone names; six of the nine steps may find no rows.
CONSTANTS
    Users = {u1, u2}
    Zones = {z1, z2}
    MayMiss <- MCMayMiss
    HostRollsBack = TRUE
SPECIFICATION Spec
INVARIANTS
    TypeOK
PROPERTIES
    PoliciesWhole

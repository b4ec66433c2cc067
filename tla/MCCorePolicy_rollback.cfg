\* What the policies do by themselves.
CONSTANTS
    Users = {u1}
    Zones = {z1}
    MayMiss = {}
    HostRollsBack = FALSE
SPECIFICATION Spec
INVARIANTS
    FailureRollsBack

\* Two instances, which may share their identifier; no symmetry with liveness.
CONSTANTS
    Instances = {i1, i2}
    Ids = {n1, n2}
    Nobody = Nobody
SPECIFICATION FairSpec
INVARIANTS
    TypeOK
    LeavesNoEntry
    ServingIsRegistered
PROPERTIES
    StopIsHeeded
CHECK_DEADLOCK FALSE

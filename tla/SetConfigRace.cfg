\* Three requests, two keys, two certificates: all the orders of overlapping
\* requests with key rotations and restarts at any point.
CONSTANTS
    Requests = {r1, r2, r3}
    oldKey = oldKey
    newKey = newKey
    oldCert = oldCert
    newCert = newCert
    Keys <- MCKeys
    Certs <- MCCerts
    KeyOf <- MCKeyOf
    NotACert = NotACert
    Nothing = Nothing
SPECIFICATION Spec
INVARIANTS
    TypeOK
    MatchedPairOnly
    RealTimeOrder
PROPERTIES
    TornReadNeedsConcurrentStore
    ClientSettles
    LogSpec
SYMMETRY RequestSymmetry

\* Two requests under the fairness of the goroutines and of the deadline.
CONSTANTS
    Requests = {r1, r2}
    oldKey = oldKey
    newKey = newKey
    oldCert = oldCert
    newCert = newCert
    Keys <- MCKeys
    Certs <- MCCerts
    KeyOf <- MCKeyOf
    NotACert = NotACert
    Nothing = Nothing
SPECIFICATION FairSpec
PROPERTIES
    EveryConfigAnswered

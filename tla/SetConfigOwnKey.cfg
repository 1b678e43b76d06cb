\* Two requests, and the key file replaced between them.
CONSTANTS
    Requests = {r1, r2}
    oldKey = oldKey
    newKey = newKey
    oldCert = oldCert
    newCert = newCert
    Keys <- MCKeys
    Certs <- MCCerts
    KeyOf <- MCKeyOf
    NotACert = NotACert
    Nothing = Nothing
SPECIFICATION Spec
INVARIANT SentWithTheFilesKey

CONSTANTS
    Requests = {r1}
    Inputs <- MCInputs
SPECIFICATION Spec
INVARIANT CertificateIsReturned

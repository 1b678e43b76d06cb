---------------------------- MODULE ServiceErrors ----------------------------
(***************************************************************************)
(* The error values of the manufacturing service and the HTTP status that  *)
(* the transport gives each of them.  An error is its Go variable's name;  *)
(* "nil" is the absence of one.                                            *)
(***************************************************************************)
EXTENDS Naturals

\* The errors that service.go declares under the comment "Client errors".
ClientErrors ==
    {"errGetAuthKey", "errInvalidCert", "errKeyMatching", "errUnsupportedKey",
     "errUnsupportedECSize", "errUnsupportedRSASize", "errCNEmpty"}

\* The one it declares under "Server errors".
ServerErrors == {"errRemoteConnection"}

\* Errors without a variable of their own that reach the transport from below:
\* key generation or CSR building, the EST enrolment, the POST to the device
\* manager.
InnerErrors == {"errCSR", "errEnroll", "errPost"}

Errors == ClientErrors \cup ServerErrors \cup InnerErrors

-----------------------------------------------------------------------------

\* Fault variant: a failed enrolment is reported as the client's mistake.
CodeFromBlamesClient(err) ==
    IF err \in ClientErrors \cup {"errEnroll"} THEN 400 ELSE 500

\* transport.go, codeFrom: the six errors of its first case are bad requests,
\* every other one is an internal error.
codeFrom(err) ==
    IF err \in {"errGetAuthKey", "errInvalidCert", "errKeyMatching",
                "errUnsupportedKey", "errUnsupportedRSASize", "errCNEmpty"}
    THEN 400
    ELSE 500

\* encodeResponse and encodePostGetCRTResponse: an error goes through
\* encodeError and codeFrom, anything else is written with status 200.
StatusOf(err) == IF err = "nil" THEN 200 ELSE codeFrom(err)

=============================================================================

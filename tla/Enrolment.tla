------------------------------ MODULE Enrolment ------------------------------
(***************************************************************************)
(* PostGetCRT of the manufacturing service: a request for the certificate  *)
(* of a device is checked, a key and a signing request are made, the EST   *)
(* certificate authority is asked to enrol it, the device manager is told, *)
(* and the certificate is returned with its private key.                   *)
(*                                                                         *)
(* Requests share no state of the process, so what is concurrent here is   *)
(* each request with the two remote services, which act when they like,    *)
(* and with the end of the process.  Neither remote call has a deadline:   *)
(* the context that GetCertificate builds is not passed to Enroll, and     *)
(* http.Post has none.                                                     *)
(***************************************************************************)
EXTENDS ServiceErrors

CONSTANTS
    Requests,   \* the POST /v1/device requests
    Inputs      \* the contents they may have

ASSUME InputsAssumption ==
    Inputs \subseteq [alg : STRING, size : Nat, hasCN : BOOLEAN]

VARIABLES
    req,        \* content of each request
    pc,         \* where each request is
    csr,        \* its key and the signature algorithm of its signing request
    issued,     \* requests the certificate authority has issued for
    posted,     \* requests posted to the device manager
    recorded,   \* those of them it has recorded
    rejected,   \* those of them it has turned down
    reply       \* the result of PostGetCRT: "none" yet, "nil" or an error

remote == <<issued, recorded, rejected>>
vars   == <<req, pc, csr, issued, posted, recorded, rejected, reply>>

Done == {"answered", "aborted"}
PCs  == {"idle", "received", "making", "enrolling", "notifying"} \cup Done

\* A key and a signing request; Go's nil where there is none.
KeyPairs == [alg : {"EC", "RSA", "none"}, size : Nat]
SigAlgs  == {"ECDSAWithSHA256", "SHA256WithRSA", "none"}
CSRs     == [key : KeyPairs, sig : SigAlgs]
NilKey   == [alg |-> "none", size |-> 0]
NoCSR    == [key |-> NilKey, sig |-> "none"]

-----------------------------------------------------------------------------
\* The pure parts of service.go, extension.go and key.go.

checkKeyAlg(alg) ==
    IF alg \in {"EC", "RSA"} THEN "nil" ELSE "errUnsupportedKey"

\* Fault variant: RSA sizes only.
checkKeySizeRSA(alg, size) ==
    IF alg = "RSA" /\ size \notin {2048, 4096}
    THEN "errUnsupportedRSASize"
    ELSE "nil"

checkKeySize(alg, size) ==
    CASE alg = "EC"  /\ size \notin {384, 256}   -> "errUnsupportedECSize"
      [] alg = "RSA" /\ size \notin {2048, 4096} -> "errUnsupportedRSASize"
      [] OTHER                                   -> "nil"

\* The checks of PostGetCRT in their order; the first failure counts.
InputError(in) ==
    CASE checkKeyAlg(in.alg) # "nil" -> checkKeyAlg(in.alg)
      [] checkKeyAlg(in.alg) = "nil" /\ checkKeySize(in.alg, in.size) # "nil"
            -> checkKeySize(in.alg, in.size)
      [] checkKeyAlg(in.alg) = "nil" /\ checkKeySize(in.alg, in.size) = "nil"
            -> IF in.hasCN THEN "nil" ELSE "errCNEmpty"

\* makeKey: an unknown algorithm, or a curve that newECDSAKey has no case for,
\* gives a nil key and no error.
makeKey(alg, size) ==
    IF alg = "RSA" \/ (alg = "EC" /\ size \in {256, 384})
    THEN [alg |-> alg, size |-> size]
    ELSE NilKey

\* Everything that is not "EC" is signed as RSA.
checkSignatureAlgorithm(alg) ==
    IF alg = "EC" THEN "ECDSAWithSHA256" ELSE "SHA256WithRSA"

\* The signing request of GetCertificate, with the key it belongs to.
makeCSR(in) == [key |-> makeKey(in.alg, in.size),
                sig |-> checkSignatureAlgorithm(in.alg)]

SigFits(sig, key) == \/ sig = "ECDSAWithSHA256" /\ key.alg = "EC"
                     \/ sig = "SHA256WithRSA" /\ key.alg = "RSA"

-----------------------------------------------------------------------------

TypeOK ==
    /\ req \in [Requests -> Inputs]
    /\ pc \in [Requests -> PCs]
    /\ csr \in [Requests -> CSRs]
    /\ issued \in SUBSET Requests
    /\ posted \in SUBSET Requests
    /\ recorded \in SUBSET Requests
    /\ rejected \in SUBSET Requests
    /\ reply \in [Requests -> Errors \cup {"none", "nil"}]

Init ==
    /\ req \in [Requests -> Inputs]
    /\ pc = [r \in Requests |-> "idle"]
    /\ csr = [r \in Requests |-> NoCSR]
    /\ issued = {}
    /\ posted = {}
    /\ recorded = {}
    /\ rejected = {}
    /\ reply = [r \in Requests |-> "none"]

Goto(r, from, to) == /\ pc[r] = from
                     /\ pc' = [pc EXCEPT ![r] = to]

Answer(r, from, res) == /\ Goto(r, from, "answered")
                        /\ reply' = [reply EXCEPT ![r] = res]

Arrive(r) ==
    /\ Goto(r, "idle", "received")
    /\ UNCHANGED <<req, csr, remote, posted, reply>>

-----------------------------------------------------------------------------
\* deviceService.PostGetCRT up to its call of GetCertificate.

Refuse(r) ==
    LET err == InputError(req[r]) IN
    /\ err # "nil"
    /\ Answer(r, "received", err)
    /\ UNCHANGED <<req, csr, remote, posted>>

Admit(r) ==
    /\ InputError(req[r]) = "nil"
    /\ Goto(r, "received", "making")
    /\ UNCHANGED <<req, csr, remote, posted, reply>>

Validate(r) == Refuse(r) \/ Admit(r)

-----------------------------------------------------------------------------
\* SCEPExt.GetCertificate.

\* makeKey or makeCSR returns an error.
MakeFails(r) ==
    /\ Answer(r, "making", "errCSR")
    /\ UNCHANGED <<req, csr, remote, posted>>

MakeSucceeds(r) ==
    /\ Goto(r, "making", "enrolling")
    /\ csr' = [csr EXCEPT ![r] = makeCSR(req[r])]
    /\ UNCHANGED <<req, remote, posted, reply>>

\* Fault variant: the service's mutex is held from here across the remote calls.
MakeRequestLocked(r) ==
    /\ \A q \in Requests : pc[q] \notin {"enrolling", "notifying"}
    /\ MakeSucceeds(r) \/ MakeFails(r)

MakeRequest(r) == MakeSucceeds(r) \/ MakeFails(r)

\* The certificate authority issues, at most once for a signing request, and
\* possibly after the connection it came over is gone.
CAIssues(r) ==
    /\ csr[r] # NoCSR
    /\ issued' = issued \cup {r}
    /\ r \notin issued
    /\ UNCHANGED <<req, pc, csr, posted, recorded, rejected, reply>>

\* Fault variant: any answer of the authority is taken for a certificate.
EnrollReturnsPending(r) ==
    /\ Goto(r, "enrolling", "notifying")
    /\ posted' = posted \cup {r}
    /\ UNCHANGED <<req, csr, remote, reply>>

\* Enroll returns the certificate and PostGetCRT posts to the device manager.
EnrollReturns(r) ==
    /\ r \in issued
    /\ Goto(r, "enrolling", "notifying")
    /\ posted' = posted \cup {r}
    /\ UNCHANGED <<req, csr, remote, reply>>

\* Fault variant: the error of GetCertificate is logged and not returned.
EnrollFailsIgnored(r) ==
    /\ Goto(r, "enrolling", "notifying")
    /\ posted' = posted \cup {r}
    /\ UNCHANGED <<req, csr, remote, reply>>

EnrollFails(r) ==
    /\ Answer(r, "enrolling", "errEnroll")
    /\ UNCHANGED <<req, csr, remote, posted>>

-----------------------------------------------------------------------------
\* The call of the device manager, POST /v1/devices/<id>/issue/dms/.

Unheard(r) == r \in posted \ (recorded \cup rejected)

DeviceManagerRecords(r) ==
    /\ Unheard(r)
    /\ recorded' = recorded \cup {r}
    /\ UNCHANGED <<req, pc, csr, issued, posted, rejected, reply>>

DeviceManagerRejects(r) ==
    /\ Unheard(r)
    /\ rejected' = rejected \cup {r}
    /\ UNCHANGED <<req, pc, csr, issued, posted, recorded, reply>>

\* Fault variant: the certificate is returned without waiting for the answer.
PostReturnsEarly(r) ==
    /\ Answer(r, "notifying", "nil")
    /\ UNCHANGED <<req, csr, remote, posted>>

\* Fault variant: an error of its own, unknown to the transport, is returned.
PostReturnsUnknown(r) ==
    /\ r \in recorded \cup rejected
    /\ Answer(r, "notifying", "errDeviceManager")
    /\ UNCHANGED <<req, csr, remote, posted>>

\* An answer arrives; its status is not looked at.  The certificate and the
\* key are returned.
PostReturns(r) ==
    /\ r \in recorded \cup rejected
    /\ Answer(r, "notifying", "nil")
    /\ UNCHANGED <<req, csr, remote, posted>>

\* No answer arrives, whether or not the device manager has acted.  The error
\* is returned; the certificate and its key are dropped.
PostFails(r) ==
    /\ Answer(r, "notifying", "errPost")
    /\ UNCHANGED <<req, csr, remote, posted>>

-----------------------------------------------------------------------------

\* The process is killed and started again.
Restart ==
    /\ pc' = [r \in Requests |->
                IF pc[r] \in {"idle"} \cup Done THEN pc[r] ELSE "aborted"]
    /\ UNCHANGED <<req, csr, remote, posted, reply>>

Next ==
    \/ Restart
    \/ \E r \in Requests :
          \/ Arrive(r)
          \/ Validate(r)
          \/ MakeRequest(r)
          \/ CAIssues(r)
          \/ EnrollReturns(r)
          \/ EnrollFails(r)
          \/ DeviceManagerRecords(r)
          \/ DeviceManagerRejects(r)
          \/ PostReturns(r)
          \/ PostFails(r)

Spec == Init /\ [][Next]_vars

\* A goroutine that can go on does.  Nothing is promised of the authority or of
\* the device manager, and no timer bounds the wait for them.
Fairness == \A r \in Requests : WF_vars(Validate(r)) /\ WF_vars(MakeRequest(r))

FairSpec == Spec /\ Fairness

-----------------------------------------------------------------------------
\* Properties.

\* Whatever the service lets through, the client below can make a key for and
\* sign with: the sizes that checkKeySize admits are the cases of newECDSAKey,
\* and the algorithms it admits are those of makeKey's switch and of
\* checkSignatureAlgorithm.  Otherwise makeKey returns nil without an error and
\* the CSR's signing dereferences it.
KeyFitsCSR ==
    \A r \in Requests :
       csr[r] # NoCSR => /\ csr[r].key # NilKey
                         /\ SigFits(csr[r].sig, csr[r].key)

\* A caller that gets a 4xx status may correct its request and send it again:
\* no certificate has been issued for the refused one, none will be, and the
\* device manager has not been told of it.  (codeFrom in transport.go together
\* with the order of checks and remote calls in PostGetCRT.)
ClientErrorIsEffectFree ==
    \A r \in Requests :
       reply[r] # "none" /\ StatusOf(reply[r]) = 400 =>
          r \notin issued \cup posted

\* The device manager never holds a record of a certificate that does not
\* exist: the POST follows an enrolment that has succeeded.
RecordFollowsIssue == recorded \subseteq issued

\* A certificate in a caller's hands exists, and the device manager has given
\* an answer about it, if only to turn it down.
DeliveredWasAnnounced ==
    \A r \in Requests : reply[r] = "nil" => r \in issued
                                         /\ r \in recorded \cup rejected

\* The service keeps the promises of CertLedger.
Outcome(r) ==
    CASE pc[r] = "aborted"                         -> "lost"
      [] pc[r] = "answered" /\ reply[r] = "nil"    -> "delivered"
      [] pc[r] = "answered" /\ reply[r] # "nil"
            -> IF reply[r] \in ClientErrors THEN "refused" ELSE "failed"
      [] OTHER                                     -> "pending"

Ledger == INSTANCE CertLedger WITH
             outcome   <- [r \in Requests |-> Outcome(r)],
             issued    <- issued,
             announced <- recorded

LedgerSpec == Ledger!Spec

\* Requests do not wait for one another: with any number of them stuck in the
\* remote calls, which have no deadline, every other one gets its answer.
EveryRequestAnswered ==
    \A r \in Requests :
       <>[](pc[r] \in {"idle", "enrolling", "notifying"} \cup Done)

\* service.go declares seven errors under the comment "Client errors", so each
\* of them is reported to the caller with a client status.
ClientErrorsAreBadRequests ==
    \A r \in Requests :
       reply[r] \in ClientErrors => StatusOf(reply[r]) = 400

\* TestPostGetCRT: with supported key parameters, a CN and a client that
\* returns a certificate, PostGetCRT returns no error.
CertificateIsReturned ==
    \A r \in posted : pc[r] = "answered" => reply[r] = "nil"

=============================================================================

------------------------------ MODULE SetConfig ------------------------------
(***************************************************************************)
(* PostSetConfig of the manufacturing service, from the HTTP request down  *)
(* to the SCEP extension:                                                  *)
(*                                                                         *)
(*   deviceService.PostSetConfig   checks the certificate of the request   *)
(*                                 against the authentication key file;    *)
(*   SCEPExt.StartClient           creates the extension client unless     *)
(*                                 there is one, then sends it the         *)
(*                                 configuration under a deadline.         *)
(*                                                                         *)
(* Every request runs in a goroutine of net/http and all of them share one *)
(* SCEPExt.  Its field extClient is an interface: two words in memory, the *)
(* type word and the data word, read and written without a lock.  The      *)
(* built program tests, writes and reads the two words one at a time, type *)
(* word first; so does the model (tab and data).                           *)
(*                                                                         *)
(* A client is named after the request that created it: it authenticates   *)
(* with that request's certificate for as long as it is used.              *)
(***************************************************************************)
EXTENDS ServiceErrors, Sequences

CONSTANTS
    Requests,    \* the POST /v1/device/config requests
    Keys,        \* what the authentication key file may hold
    Certs,       \* the well-formed certificates a request may carry
    KeyOf,       \* the private key of each certificate
    NotACert,    \* request content that is no PEM certificate
    Nothing      \* an unreadable file, a nil pointer, no client

ASSUME NothingAssumption ==
    /\ Nothing \notin Keys
    /\ Nothing \notin Requests
    /\ NotACert \notin Certs
ASSUME KeyOfAssumption == KeyOf \in [Certs -> Keys]

VARIABLES
    keyFile,     \* content of authKeyFile; Nothing when it cannot be read
    tab,         \* s.extClient: is the type word set?
    data,        \* s.extClient: the client its data word points to
    instancers,  \* the clients whose Consul instancer goroutine runs
    pc,          \* where each request is
    crt,         \* the certificate each request carries
    authKey,     \* the key its certificate was checked against
    used,        \* the client its configuration was sent through
    reply,       \* the result of PostSetConfig: "none" yet, "nil" or an error
    extLog,      \* the configurations the SCEP extension applied, in order
    okBefore     \* history: the requests answered "nil" when each one arrived

shared  == <<keyFile, tab, data, instancers>>
vars    == <<keyFile, tab, data, instancers, pc, crt, authKey, used, reply,
             extLog, okBefore>>

Done     == {"answered", "aborted"}
Creating == {"creating", "storingTab", "storingData"}
PCs      == {"idle", "received", "starting", "calling", "waiting"}
              \cup Creating \cup Done

Accepted == {r \in Requests : reply[r] = "nil"}
Applied  == {extLog[i] : i \in DOMAIN extLog}

TypeOK ==
    /\ keyFile \in Keys \cup {Nothing}
    /\ tab \in BOOLEAN
    /\ data \in Requests \cup {Nothing}
    /\ instancers \in SUBSET Requests
    /\ pc \in [Requests -> PCs]
    /\ crt \in [Requests -> Certs \cup {NotACert}]
    /\ authKey \in [Requests -> Keys \cup {Nothing}]
    /\ used \in [Requests -> Requests \cup {Nothing}]
    /\ reply \in [Requests -> Errors \cup {"none", "nil"}]
    /\ extLog \in Seq(Requests)
    /\ okBefore \in [Requests -> SUBSET Requests]

Init ==
    /\ keyFile \in Keys \cup {Nothing}
    /\ tab = FALSE
    /\ data = Nothing
    /\ instancers = {}
    /\ pc = [r \in Requests |-> "idle"]
    /\ crt = [r \in Requests |-> NotACert]
    /\ authKey = [r \in Requests |-> Nothing]
    /\ used = [r \in Requests |-> Nothing]
    /\ reply = [r \in Requests |-> "none"]
    /\ extLog = <<>>
    /\ okBefore = [r \in Requests |-> {}]

Goto(r, from, to) == /\ pc[r] = from
                     /\ pc' = [pc EXCEPT ![r] = to]

Answer(r, from, res) == /\ Goto(r, from, "answered")
                        /\ reply' = [reply EXCEPT ![r] = res]

-----------------------------------------------------------------------------
\* The surroundings of the service: its operator and its clients.

\* The key file is replaced, or cannot be read for a while.
RotateKeyFile ==
    /\ keyFile' \in (Keys \cup {Nothing}) \ {keyFile}
    /\ UNCHANGED <<tab, data, instancers, pc, crt, authKey, used, reply,
                   extLog, okBefore>>

Arrive(r) ==
    /\ Goto(r, "idle", "received")
    /\ \E c \in Certs \cup {NotACert} : crt' = [crt EXCEPT ![r] = c]
    /\ okBefore' = [okBefore EXCEPT ![r] = Accepted]
    /\ UNCHANGED <<shared, authKey, used, reply, extLog>>

-----------------------------------------------------------------------------
\* deviceService.PostSetConfig.

\* Fault variant: the pair is not compared.
PairErrorUnmatched(c, k) ==
    CASE k = Nothing   -> "errGetAuthKey"
      [] c = NotACert  -> "errInvalidCert"
      [] OTHER         -> "nil"

\* What the checks make of certificate c while the key file holds k.
PairError(c, k) ==
    CASE k = Nothing                                    -> "errGetAuthKey"
      [] k # Nothing /\ c = NotACert                    -> "errInvalidCert"
      [] k # Nothing /\ c \in Certs /\ KeyOf[c] # k     -> "errKeyMatching"
      [] OTHER                                          -> "nil"

Refuse(r) ==
    LET err == PairError(crt[r], keyFile) IN
    /\ err # "nil"
    /\ Answer(r, "received", err)

Admit(r) ==
    /\ PairError(crt[r], keyFile) = "nil"
    /\ Goto(r, "received", "starting")
    /\ UNCHANGED reply

\* The file is read once, for this request only.
Validate(r) ==
    /\ Refuse(r) \/ Admit(r)
    /\ authKey' = [authKey EXCEPT ![r] = keyFile]
    /\ UNCHANGED <<shared, crt, used, extLog, okBefore>>

-----------------------------------------------------------------------------
\* SCEPExt.StartClient and createClient.

\* Fault variant: the client is created again by every request.
CheckClientAlwaysNil(r) ==
    /\ Goto(r, "starting", "creating")
    /\ UNCHANGED <<shared, crt, authKey, used, reply, extLog, okBefore>>

\* if s.extClient == nil: the type word alone decides.
CheckClient(r) ==
    /\ Goto(r, "starting", IF tab THEN "calling" ELSE "creating")
    /\ UNCHANGED <<shared, crt, authKey, used, reply, extLog, okBefore>>

\* Fault variant: the result is assigned before the error is looked at, and a
\* nil *Endpoints in the interface makes it different from nil.
CreateClientFailsTyped(r) ==
    /\ Answer(r, "creating", "errRemoteConnection")
    /\ instancers' \in {instancers, instancers \cup {r}}
    /\ tab' = TRUE
    /\ UNCHANGED <<keyFile, data, crt, authKey, used, extLog, okBefore>>

\* createClient fails on the CA pool or the Consul client, before it has
\* started anything, or in NewSD, when the instancer already runs and stays.
CreateClientFails(r) ==
    /\ Answer(r, "creating", "errRemoteConnection")
    /\ instancers' \in {instancers, instancers \cup {r}}
    /\ UNCHANGED <<keyFile, tab, data, crt, authKey, used, extLog, okBefore>>

CreateClientSucceeds(r) ==
    /\ Goto(r, "creating", "storingTab")
    /\ instancers' = instancers \cup {r}
    /\ UNCHANGED <<keyFile, tab, data, crt, authKey, used, reply, extLog,
                   okBefore>>

CreateClient(r) == CreateClientFails(r) \/ CreateClientSucceeds(r)

\* s.extClient = extClient: the type word, then the data word.
StoreTab(r) ==
    /\ Goto(r, "storingTab", "storingData")
    /\ tab' = TRUE
    /\ UNCHANGED <<keyFile, data, instancers, crt, authKey, used, reply,
                   extLog, okBefore>>

StoreData(r) ==
    /\ Goto(r, "storingData", "calling")
    /\ data' = r
    /\ UNCHANGED <<keyFile, tab, instancers, crt, authKey, used, reply,
                   extLog, okBefore>>

\* s.extClient.PostSetConfig: the field is read again, whatever this request
\* stored or tested before.  A nil data word is dereferenced; net/http
\* recovers the panic and closes the connection without an answer.
CallPanics(r) ==
    /\ data = Nothing
    /\ Goto(r, "calling", "aborted")
    /\ UNCHANGED <<shared, crt, authKey, used, reply, extLog, okBefore>>

CallSends(r) ==
    /\ data # Nothing
    /\ Goto(r, "calling", "waiting")
    /\ used' = [used EXCEPT ![r] = data]
    /\ UNCHANGED <<shared, crt, authKey, reply, extLog, okBefore>>

Call(r) == CallPanics(r) \/ CallSends(r)

-----------------------------------------------------------------------------
\* The SCEP extension, and the three ways the call ends.

\* Fault variant: the client makes a second attempt.
RemoteAppliesAgain(r) ==
    /\ used[r] # Nothing
    /\ extLog' = Append(extLog, r)
    /\ UNCHANGED <<shared, pc, crt, authKey, used, reply, okBefore>>

\* The extension applies the configuration of r, at most once: the client
\* makes one attempt.  It does so at any time, even when nobody waits.
RemoteApplies(r) ==
    /\ used[r] # Nothing
    /\ r \notin Applied
    /\ extLog' = Append(extLog, r)
    /\ UNCHANGED <<shared, pc, crt, authKey, used, reply, okBefore>>

\* Fault variant: the answer is given without waiting for the extension.
CallReturnsEarly(r) ==
    /\ Answer(r, "waiting", "nil")
    /\ UNCHANGED <<shared, crt, authKey, used, extLog, okBefore>>

CallReturns(r) ==
    /\ r \in Applied
    /\ Answer(r, "waiting", "nil")
    /\ UNCHANGED <<shared, crt, authKey, used, extLog, okBefore>>

\* Fault variant: PostSetConfig returns the error that it got from the client,
\* which the transport does not know.
CallFailsRaw(r) ==
    /\ Answer(r, "waiting", "client error")
    /\ UNCHANGED <<shared, crt, authKey, used, extLog, okBefore>>

\* No instance of the extension, a broken connection, an error status, or the
\* HTTP client of the request has gone and its context is cancelled.
CallFails(r) ==
    /\ Answer(r, "waiting", "errRemoteConnection")
    /\ UNCHANGED <<shared, crt, authKey, used, extLog, okBefore>>

\* Fault variant: no deadline.
NoDeadline(r) == FALSE

\* Ten seconds have passed since the client was there.
DeadlineExpires(r) ==
    /\ Answer(r, "waiting", "errRemoteConnection")
    /\ UNCHANGED <<shared, crt, authKey, used, extLog, okBefore>>

-----------------------------------------------------------------------------

\* The process is killed and started again: the requests in flight get no
\* answer, and the new process has no client.
Restart ==
    /\ tab' = FALSE
    /\ data' = Nothing
    /\ instancers' = {}
    /\ pc' = [r \in Requests |->
                IF pc[r] \in {"idle"} \cup Done THEN pc[r] ELSE "aborted"]
    /\ UNCHANGED <<keyFile, crt, authKey, used, reply, extLog, okBefore>>

Next ==
    \/ RotateKeyFile
    \/ Restart
    \/ \E r \in Requests :
          \/ Arrive(r)
          \/ Validate(r)
          \/ CheckClient(r)
          \/ CreateClient(r)
          \/ StoreTab(r)
          \/ StoreData(r)
          \/ Call(r)
          \/ RemoteApplies(r)
          \/ CallReturns(r)
          \/ CallFails(r)
          \/ DeadlineExpires(r)

Spec == Init /\ [][Next]_vars

\* A goroutine that can go on does, and the deadline's timer fires.  Nothing is
\* promised of the SCEP extension, nor of createClient: it asks Consul for the
\* instances before the deadline is set, and waits for the answer.
Fairness ==
    \A r \in Requests :
       /\ WF_vars(Validate(r))
       /\ WF_vars(CheckClient(r))
       /\ WF_vars(StoreTab(r))
       /\ WF_vars(StoreData(r))
       /\ WF_vars(Call(r))
       /\ WF_vars(DeadlineExpires(r))

FairSpec == Spec /\ Fairness

-----------------------------------------------------------------------------
\* Properties.

\* A configuration only ever leaves over a client whose certificate was, when
\* the request that created the client was validated, the pair of the key file:
\* whichever request's client wins the race for s.extClient, it is a pair.
\* (PostSetConfig's tls.X509KeyPair, then StartClient's store and re-read.)
MatchedPairOnly ==
    \A r \in Requests :
       used[r] # Nothing =>
          LET owner == used[r] IN
          /\ crt[owner] \in Certs
          /\ authKey[owner] \in Keys
          /\ KeyOf[crt[owner]] = authKey[owner]

\* A call through a nil pointer, the panic in the handler, is possible only in
\* the window in which another request has stored the type word and not yet
\* the data word of s.extClient.  In particular no failure of createClient, and
\* no sequence of requests served one at a time, can lead to it.
TornReadNeedsConcurrentStore ==
    [][\A r \in Requests :
          pc[r] = "calling" /\ pc'[r] = "aborted" /\ tab' =>
             \E q \in Requests \ {r} : pc[q] = "storingData"]_vars

Settled == /\ tab
           /\ \A r \in Requests : pc[r] \notin Creating

\* Once there is a client and every request that saw none is through with
\* StartClient's creation, nobody creates one again, and the client and the
\* set of discovery goroutines stay what they are until the process ends: the
\* clients lost to the race at the start are all there will ever be.
ClientSettles ==
    [][Settled /\ tab' =>
          Settled' /\ data' = data /\ instancers' = instancers]_vars

\* The extension applies configurations in real-time order: when r arrived
\* after q had been answered without error, r is never applied before q, and
\* never instead of it.  It holds because PostSetConfig answers "nil" only
\* after the extension has, and each configuration is sent once.
RealTimeOrder ==
    \A i \in DOMAIN extLog :
       \A q \in okBefore[extLog[i]] : \E j \in 1..(i - 1) : extLog[j] = q

\* The service keeps the promises of ConfigLog.
Outcome(r) ==
    CASE pc[r] = "idle"                              -> "absent"
      [] pc[r] = "aborted"                           -> "lost"
      [] pc[r] = "answered" /\ reply[r] = "nil"      -> "accepted"
      [] pc[r] = "answered" /\ reply[r] # "nil"
            -> IF reply[r] \in ClientErrors THEN "refused" ELSE "failed"
      [] OTHER                                       -> "pending"

OutcomeOf == [r \in Requests |-> Outcome(r)]

Log == INSTANCE ConfigLog WITH outcome <- OutcomeOf, log <- extLog

LogSpec == Log!Spec

\* Ten seconds after its client is there a request has its answer, whatever
\* the extension does: a request stays forever only where it has not been
\* sent, or in createClient, which the deadline does not cover.
EveryConfigAnswered ==
    \A r \in Requests :
       <>[](pc[r] \in {"idle", "creating"} \cup Done)

\* The README's line on MANUFACTURING_AUTHKEYFILE: the private key in that file
\* is the one the mTLS connection with the SCEP proxy is established with.  So
\* a configuration that was answered without error went out with the key that
\* the file held when the request was checked.
SentWithTheFilesKey ==
    \A r \in Accepted : KeyOf[crt[used[r]]] = authKey[r]

=============================================================================

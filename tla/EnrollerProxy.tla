---------------------------- MODULE EnrollerProxy ----------------------------
(***************************************************************************)
(* The proxied operations of the enroller service, GetCSRs, GetCSRStatus   *)
(* and GetCRT, from the service method down to an instance of the Lamassu  *)
(* enroller and back to the HTTP answer.                                   *)
(*                                                                         *)
(* A call picks an instance from its operation's cache, sends it one       *)
(* request, and waits at most 500 ms: lb.Retry is made with one attempt.   *)
(* The answer is decoded without looking at its HTTP status.               *)
(*                                                                         *)
(* So of what an instance answers only the body is kept.                   *)
(***************************************************************************)
EXTENDS Endpointers, Naturals

CONSTANT Calls   \* calls of the service methods

ASSUME OpsAssumption == Ops = {"GetCSRs", "GetCSRStatus", "GetCRT"}

VARIABLES
    pc,          \* where each call is
    op,          \* its operation
    target,      \* the instance whose endpoint it picked
    upstream,    \* what that instance answered
    reply        \* the status and content of the service's HTTP answer

callVars == <<pc, op, target, upstream, reply>>
vars     == <<discovery, callVars>>

-----------------------------------------------------------------------------

\* A body is a JSON object whose "_embedded" holds one CSR, a list of CSRs or
\* something else; a JSON object without it, which is a CSR or has none of its
\* fields; a certificate; or some other text.
Bodies == {"embeddedCSR", "embeddedCSRs", "embeddedOther", "csr", "object",
           "pem", "text"}
JSON   == Bodies \ {"pem", "text"}

\* What the API of the enroller answers, in success and in failure.
SuccessBodies ==
    [GetCSRs |-> {"embeddedCSR", "embeddedCSRs", "object"},
     GetCSRStatus |-> {"csr"}, GetCRT |-> {"pem"}]
Answers(o) == SuccessBodies[o] \cup {"object", "text"}

Contents == {"empty", "one", "many", "csr", "zero", "pem", "text"}
Error    == [status |-> 500, content |-> "text"]
OK(content) == [status |-> 200, content |-> content]

\* Neither field of Data is set when "_embedded" is missing: the list is empty
\* then.  UnmarshalJSON refuses what is no object and no list.
decodeGetCSRsResponse(body) ==
    CASE body = "embeddedCSR" -> "one"
      [] body = "embeddedCSRs" -> "many"
      [] body \in {"csr", "object"} -> "empty"
      [] OTHER -> "error"

\* Any object is a CSR: fields that are missing are zero.
decodeGetCSRStatusResponse(body) ==
    CASE body = "csr" -> "csr"
      [] body \in JSON -> "zero"
      [] OTHER -> "error"

\* The body is taken as it is.
decodeGetCRTResponse(body) == IF body = "pem" THEN "pem" ELSE "text"

decode(o, body) ==
    CASE o = "GetCSRs" -> decodeGetCSRsResponse(body)
      [] o = "GetCSRStatus" -> decodeGetCSRStatusResponse(body)
      [] o = "GetCRT" -> decodeGetCRTResponse(body)

\* GetCSRs has no error to return: a failure is an empty list.
GetCSRs(result) == OK(IF result = "error" THEN "empty" ELSE result)

\* Fault variant: the error is dropped, as in GetCSRs.
GetCSRStatusZero(result) == OK(IF result = "error" THEN "zero" ELSE result)

GetCSRStatus(result) == IF result = "error" THEN Error ELSE OK(result)
GetCRT(result)       == IF result = "error" THEN Error ELSE OK(result)

Reply(o, result) ==
    CASE o = "GetCSRs" -> GetCSRs(result)
      [] o = "GetCSRStatus" -> GetCSRStatus(result)
      [] o = "GetCRT" -> GetCRT(result)

-----------------------------------------------------------------------------

TypeOK ==
    /\ DiscoveryTypeOK
    /\ pc \in [Calls -> {"idle", "calling", "sent", "answered", "aborted"}]
    /\ op \in [Calls -> {Nothing} \cup Ops]
    /\ target \in [Calls -> {Nothing} \cup Instances]
    /\ upstream \in [Calls -> {Nothing} \cup Bodies]
    /\ reply \in [Calls -> {Nothing}
                              \cup [status : {200, 500}, content : Contents]]

Init ==
    /\ DiscoveryInit
    /\ pc = [c \in Calls |-> "idle"]
    /\ op = [c \in Calls |-> Nothing]
    /\ target = [c \in Calls |-> Nothing]
    /\ upstream = [c \in Calls |-> Nothing]
    /\ reply = [c \in Calls |-> Nothing]

\* Main listens when ProxyingMiddleware has made its three endpointers.
Begin(c) ==
    /\ pc[c] = "idle"
    /\ registered = Ops
    /\ pc' = [pc EXCEPT ![c] = "calling"]
    /\ \E o \in Ops : op' = [op EXCEPT ![c] = o]
    /\ UNCHANGED <<discovery, target, upstream, reply>>

\* Fault variant: an error is passed on as if it were a result.
ReturnRaw(c, result) ==
    /\ pc' = [pc EXCEPT ![c] = "answered"]
    /\ reply' = [reply EXCEPT ![c] = OK(result)]
    /\ target' = [target EXCEPT ![c] = Nothing]
    /\ UNCHANGED <<discovery, op, upstream>>

\* The service method returns with a result, or with "error".
Return(c, result) ==
    /\ pc' = [pc EXCEPT ![c] = "answered"]
    /\ reply' = [reply EXCEPT ![c] = Reply(op[c], result)]
    /\ target' = [target EXCEPT ![c] = Nothing]
    /\ UNCHANGED <<discovery, op, upstream>>

\* The balancer waits for the lock of the cache.
NoEndpoint(c) ==
    /\ pc[c] = "calling"
    /\ ~ Locked(op[c])
    /\ Cached(op[c]) = {}
    /\ Return(c, "error")

\* The balancer returns an endpoint from the cache as it is now; the endpoint
\* keeps its instance whatever becomes of the cache.
Send(c) ==
    /\ pc[c] = "calling"
    /\ ~ Locked(op[c])
    /\ \E i \in Cached(op[c]) : target' = [target EXCEPT ![c] = i]
    /\ pc' = [pc EXCEPT ![c] = "sent"]
    /\ UNCHANGED <<discovery, op, upstream, reply>>

InstanceAnswers(c) ==
    /\ pc[c] = "sent"
    /\ upstream[c] = Nothing
    /\ \E a \in Answers(op[c]) : upstream' = [upstream EXCEPT ![c] = a]
    /\ UNCHANGED <<discovery, pc, op, target, reply>>

Decode(c) ==
    /\ pc[c] = "sent"
    /\ upstream[c] # Nothing
    /\ Return(c, decode(op[c], upstream[c]))

\* No connection, a certificate that the CA did not sign, a broken body.
SendFails(c) ==
    /\ pc[c] = "sent"
    /\ Return(c, "error")

\* Fault variant: no deadline.
NoTimeout(c) == FALSE

\* The 500 ms are over; what the attempt still yields is ignored.
Timeout(c) ==
    /\ pc[c] \in {"calling", "sent"}
    /\ Return(c, "error")

\* The end of the process, for a panic or for any other reason, cuts off the
\* calls that are under way.
AbortCalls ==
    /\ pc' = [c \in Calls |->
                IF pc[c] \in {"calling", "sent"} THEN "aborted" ELSE pc[c]]
    /\ target' = [c \in Calls |-> Nothing]
    /\ UNCHANGED <<op, upstream, reply>>

Next ==
    \/ DiscoveryStep /\ UNCHANGED callVars
    \/ ProcessEnds /\ AbortCalls
    \/ \E c \in Calls :
          \/ Begin(c)
          \/ NoEndpoint(c)
          \/ Send(c)
          \/ InstanceAnswers(c)
          \/ Decode(c)
          \/ SendFails(c)
          \/ Timeout(c)

Spec == Init /\ [][Next]_vars

\* The timer of lb.Retry fires.  The instances of the enroller promise nothing.
FairSpec ==
    /\ Spec
    /\ FairDiscovery
    /\ \A c \in Calls : WF_vars(Timeout(c))

-----------------------------------------------------------------------------

\* Unless it is an empty list, what the service hands out with status 200 is
\* what an instance has answered to this very call: never a value made up for
\* a failure or after the deadline (GetCSRs, GetCSRStatus, GetCRT).
SuccessIsUpstreams ==
    \A c \in Calls :
       reply[c] # Nothing /\ reply[c].status = 200
             /\ reply[c].content # "empty"
          => /\ upstream[c] # Nothing
             /\ reply[c].content = decode(op[c], upstream[c])

\* A call ends, also when no instance answers (lb.Retry).
EveryCallAnswered ==
    \A c \in Calls : pc[c] = "calling" ~> pc[c] \in {"answered", "aborted"}

=============================================================================

------------------------- MODULE EnrollerProxyProofs -------------------------
(***************************************************************************)
(* Proofs about Endpointers and EnrollerProxy, for any number of calls and *)
(* instances.  Those about the endpointers alone do not depend on which    *)
(* operations there are.                                                   *)
(***************************************************************************)
EXTENDS EnrollerProxy, TLAPS

\* The variables of Endpointers keep their types (ProxyingMiddleware).
THEOREM DiscoveryTypes == DiscoverySpec => []DiscoveryTypeOK
<1>1. DiscoveryInit => DiscoveryTypeOK
  BY DEF DiscoveryInit, DiscoveryTypeOK, Lists, Endpoints, None
<1>2. DiscoveryTypeOK /\ [DiscoveryStep \/ ProcessEnds]_discovery
         => DiscoveryTypeOK'
  <2> SUFFICES ASSUME DiscoveryTypeOK, [DiscoveryStep \/ ProcessEnds]_discovery
               PROVE  DiscoveryTypeOK'
    OBVIOUS
  <2> USE DEF DiscoveryTypeOK, Events, Lists
  <2>1. CASE QueryReturns
    BY <2>1 DEF QueryReturns
  <2>2. CASE ChangeCAFile
    BY <2>2 DEF ChangeCAFile
  <2>3. ASSUME NEW e \in Ops, RegisterEndpointer(e) PROVE DiscoveryTypeOK'
    BY <2>3 DEF RegisterEndpointer, Take
  <2>4. ASSUME NEW e \in Ops, Deliver(e) PROVE DiscoveryTypeOK'
    BY <2>4 DEF Deliver, Take
  <2>5. ASSUME NEW e \in Ops, IgnoreFailure(e) PROVE DiscoveryTypeOK'
    BY <2>5 DEF IgnoreFailure, Release
  <2>6. ASSUME NEW e \in Ops, MakeEndpoint(e) PROVE DiscoveryTypeOK'
    BY <2>6 DEF MakeEndpoint, New, Updating, Endpoints
  <2>7. ASSUME NEW e \in Ops, SwapCache(e) PROVE DiscoveryTypeOK'
    <3>1. cache' \in [Ops -> Endpoints] /\ made' \in [Ops -> Endpoints]
      BY <2>7 DEF SwapCache, Endpoints, None
    <3> QED
      BY <2>7, <3>1 DEF SwapCache, Release
  <2>8. CASE ProcessEnds
    BY <2>8 DEF ProcessEnds, FactoryPanics, StartAgain, Endpoints, None
  <2>9. CASE UNCHANGED discovery
    BY <2>9 DEF discovery
  <2> QED
    BY <2>1, <2>2, <2>3, <2>4, <2>5, <2>6, <2>7, <2>8, <2>9 DEF DiscoveryStep
<1> QED
  BY <1>1, <1>2, PTL DEF DiscoverySpec

-----------------------------------------------------------------------------

(***************************************************************************)
(* An endpointer that has taken the last event is applying it or has done  *)
(* so; if that event is a list, its instances are those in the cache.      *)
(* Nothing is known of one that has yet to take it: it may still be at     *)
(* work on any older one.  What an endpointer has made so far is for       *)
(* instances on the list that it is applying.                              *)
(***************************************************************************)
CaughtUp ==
    \A e \in registered \ pending :
       \/ inbox[e] = event
       \/ inbox[e] = Nothing /\ (event # Failed => Cached(e) = event)

\* The instances in the cache after an update are those of the list.
LEMMA SwappedIn ==
  ASSUME DiscoveryTypeOK, NEW e \in Ops, SwapCache(e)
  PROVE  Cached(e)' = inbox[e]
<1>1. inbox[e] \subseteq Instances
  BY DEF DiscoveryTypeOK, SwapCache, Updating, Events, Lists
<1>2. ASSUME NEW i \in Instances
      PROVE  cache'[e][i] # Nothing <=> i \in inbox[e]
  <2>1. cache'[e][i] = IF i \notin inbox[e] THEN Nothing
                       ELSE IF cache[e][i] # Nothing THEN cache[e][i]
                       ELSE made[e][i]
    BY DEF SwapCache, DiscoveryTypeOK
  <2>2. ~ (i \in inbox[e] /\ cache[e][i] = Nothing /\ made[e][i] = Nothing)
    BY DEF SwapCache, New
  <2> QED
    BY <2>1, <2>2
<1> QED
  BY <1>1, <1>2 DEF Cached

LEMMA CaughtUpInductive ==
    /\ DiscoveryTypeOK /\ CaughtUp /\ [DiscoveryStep \/ ProcessEnds]_discovery
    => CaughtUp'
<1> SUFFICES ASSUME DiscoveryTypeOK, CaughtUp,
                    [DiscoveryStep \/ ProcessEnds]_discovery
             PROVE  CaughtUp'
  OBVIOUS
<1> USE DEF DiscoveryTypeOK, CaughtUp
<1>1. CASE QueryReturns
  BY <1>1 DEF QueryReturns
<1>2. CASE ChangeCAFile
  BY <1>2 DEF ChangeCAFile, Cached
<1>3. ASSUME NEW e \in Ops, RegisterEndpointer(e) PROVE CaughtUp'
  BY <1>3 DEF RegisterEndpointer, Take, Cached
<1>4. ASSUME NEW e \in Ops, Deliver(e) PROVE CaughtUp'
  BY <1>4 DEF Deliver, Take, Cached
<1>5. ASSUME NEW e \in Ops, IgnoreFailure(e) PROVE CaughtUp'
  BY <1>5, EventsAssumption DEF IgnoreFailure, Release, Cached
<1>6. ASSUME NEW e \in Ops, MakeEndpoint(e) PROVE CaughtUp'
  BY <1>6 DEF MakeEndpoint, Cached
<1>7. ASSUME NEW e \in Ops, SwapCache(e) PROVE CaughtUp'
  <2> SUFFICES ASSUME NEW f \in registered \ pending
               PROVE  \/ inbox'[f] = event
                      \/ inbox'[f] = Nothing
                           /\ (event # Failed => Cached(f)' = event)
    BY <1>7 DEF SwapCache
  <2>1. CASE f = e
    BY <1>7, <2>1, SwappedIn DEF SwapCache, Updating, Release
  <2>2. CASE f # e
    <3>1. inbox'[f] = inbox[f] /\ cache'[f] = cache[f]
      BY <1>7, <2>2 DEF SwapCache, Release
    <3> QED
      BY <3>1 DEF Cached
  <2> QED
    BY <2>1, <2>2
<1>8. CASE ProcessEnds
  BY <1>8 DEF ProcessEnds, FactoryPanics, StartAgain
<1>9. CASE UNCHANGED discovery
  BY <1>9 DEF discovery, Cached
<1> QED
  BY <1>1, <1>2, <1>3, <1>4, <1>5, <1>6, <1>7, <1>8, <1>9 DEF DiscoveryStep

\* When all is quiet the three caches hold the instances of the last list
\* (ProxyingMiddleware).
THEOREM CachesAgree == DiscoverySpec => []QuietCachesAgree
<1>1. DiscoveryInit => CaughtUp
  BY DEF DiscoveryInit, CaughtUp
<1>2. DiscoveryTypeOK /\ CaughtUp => QuietCachesAgree
  BY EventsAssumption DEF DiscoveryTypeOK, CaughtUp, QuietCachesAgree, Events,
     Lists
<1> QED
  BY <1>1, <1>2, CaughtUpInductive, DiscoveryTypes, PTL DEF DiscoverySpec

-----------------------------------------------------------------------------

(***************************************************************************)
(* While an endpointer is at work its history holds what the file holds,   *)
(* and with that every CA that it has made an endpoint with.  Only one at  *)
(* work on a list has made any, and only a registered one is at work.      *)
(***************************************************************************)
PoolsSeen ==
    \A e \in Ops :
       /\ e \notin registered => inbox[e] = Nothing
       /\ inbox[e] # Nothing => {caFile} \cap CAs \subseteq seen[e]
       /\ \A i \in Instances : made[e][i] # Nothing =>
             Updating(e) /\ made[e][i] \in seen[e]

LEMMA PoolsSeenInductive ==
    /\ DiscoveryTypeOK /\ PoolsSeen /\ [DiscoveryStep \/ ProcessEnds]_discovery
    => PoolsSeen'
<1> SUFFICES ASSUME DiscoveryTypeOK, PoolsSeen,
                    [DiscoveryStep \/ ProcessEnds]_discovery
             PROVE  PoolsSeen'
  OBVIOUS
<1> USE DEF DiscoveryTypeOK, PoolsSeen, Updating
<1>1. CASE QueryReturns
  BY <1>1 DEF QueryReturns
<1>2. CASE ChangeCAFile
  BY <1>2 DEF ChangeCAFile
<1>3. ASSUME NEW e \in Ops, RegisterEndpointer(e) \/ Deliver(e)
      PROVE  PoolsSeen'
  BY <1>3 DEF RegisterEndpointer, Deliver, Take
<1>4. ASSUME NEW e \in Ops, IgnoreFailure(e) PROVE PoolsSeen'
  BY <1>4 DEF IgnoreFailure, Release
<1>5. ASSUME NEW e \in Ops, MakeEndpoint(e) PROVE PoolsSeen'
  BY <1>5 DEF MakeEndpoint, New, Endpoints
<1>6. ASSUME NEW e \in Ops, SwapCache(e) PROVE PoolsSeen'
  BY <1>6 DEF SwapCache, Release, None
<1>7. CASE ProcessEnds
  BY <1>7 DEF ProcessEnds, FactoryPanics, StartAgain, None
<1>8. CASE UNCHANGED discovery
  BY <1>8 DEF discovery
<1> QED
  BY <1>1, <1>2, <1>3, <1>4, <1>5, <1>6, <1>7, <1>8 DEF DiscoveryStep

\* A cache only takes in endpoints that trust what the CA file has held during
\* the update (makeProxyClient and the factories).
THEOREM PoolsFromTheFile == DiscoverySpec => EndpointsTrustTheFile
<1>1. DiscoveryInit => PoolsSeen
  <2> SUFFICES ASSUME DiscoveryInit, NEW e \in Ops
               PROVE  inbox[e] = Nothing /\ made[e] = None
    BY DEF PoolsSeen, None
  <2> QED
    BY DEF DiscoveryInit
<1>2. /\ DiscoveryTypeOK /\ PoolsSeen
      /\ [DiscoveryStep \/ ProcessEnds]_discovery
      => [\A e \in Ops, i \in Instances :
             cache[e][i] = Nothing /\ cache'[e][i] # Nothing
                => cache'[e][i] \in seen[e]]_discovery
  <2> SUFFICES ASSUME DiscoveryTypeOK, PoolsSeen, DiscoveryStep \/ ProcessEnds,
                      NEW e \in Ops, NEW i \in Instances,
                      cache[e][i] = Nothing, cache'[e][i] # Nothing
               PROVE  cache'[e][i] \in seen[e]
    BY DEF discovery
  <2>1. ASSUME NEW f \in Ops, SwapCache(f) PROVE cache'[e][i] \in seen[e]
    <3>1. e = f
      BY <2>1 DEF SwapCache, DiscoveryTypeOK
    <3>2. cache'[e][i] = made[e][i]
      BY <2>1, <3>1 DEF SwapCache, DiscoveryTypeOK
    <3> QED
      BY <3>2 DEF PoolsSeen
  <2>2. CASE ProcessEnds
    BY <2>2 DEF ProcessEnds, FactoryPanics, StartAgain, None
  <2>3. CASE UNCHANGED cache
    BY <2>3
  <2> QED
    BY <2>1, <2>2, <2>3
    DEF DiscoveryStep, QueryReturns, ChangeCAFile, RegisterEndpointer, Deliver,
        IgnoreFailure, MakeEndpoint
<1> QED
  BY <1>1, <1>2, PoolsSeenInductive, DiscoveryTypes, PTL
  DEF DiscoverySpec, EndpointsTrustTheFile

-----------------------------------------------------------------------------

\* The proxy leaves the endpointers as they are, or lets them take a step: what
\* is proved of them holds of the whole service (ProxyingMiddleware).
THEOREM ImplementsDiscovery == Spec => DiscoverySpec
<1>1. Init => DiscoveryInit
  BY DEF Init
<1>2. [Next]_vars => [DiscoveryStep \/ ProcessEnds]_discovery
  BY DEF Next, vars, Begin, NoEndpoint, Send, InstanceAnswers, Decode,
     SendFails, Timeout, Return
<1> QED
  BY <1>1, <1>2, PTL DEF Spec, DiscoverySpec

\* The caches agree, and trust the file, in the whole service too (ProxyingMiddleware).
THEOREM ProxyCachesAgree == Spec => []QuietCachesAgree /\ EndpointsTrustTheFile
BY ImplementsDiscovery, CachesAgree, PoolsFromTheFile

\* Instances answer with bodies.
LEMMA AnswersAreBodies == \A o \in Ops : Answers(o) \subseteq Bodies
<1> SUFFICES ASSUME NEW o \in Ops PROVE Answers(o) \subseteq Bodies
  OBVIOUS
<1>1. SuccessBodies[o] \subseteq Bodies
  BY OpsAssumption DEF SuccessBodies, Bodies
<1> QED
  BY <1>1 DEF Answers, Bodies

\* What is decoded from an answer is a content or an error.
LEMMA DecodedType ==
  ASSUME NEW o \in Ops, NEW a \in Answers(o)
  PROVE  decode(o, a) \in Contents \cup {"error"}
<1>1. CASE o = "GetCSRs"
  BY <1>1 DEF decode, decodeGetCSRsResponse, Contents
<1>2. CASE o = "GetCSRStatus"
  BY <1>2 DEF decode, decodeGetCSRStatusResponse, Contents
<1>3. CASE o = "GetCRT"
  BY <1>3 DEF decode, decodeGetCRTResponse, Contents
<1> QED
  BY <1>1, <1>2, <1>3, OpsAssumption

\* A result becomes a reply of the right type, and with status 200 it is handed
\* out as it is or as an empty list.
LEMMA ReplyOfResult ==
  ASSUME NEW o \in Ops, NEW result \in Contents \cup {"error"}
  PROVE  /\ Reply(o, result) \in [status : {200, 500}, content : Contents]
         /\ \/ Reply(o, result).status # 200
            \/ Reply(o, result).content = "empty"
            \/ Reply(o, result).content = result /\ result # "error"
<1>1. CASE o = "GetCSRs"
  BY <1>1 DEF Reply, GetCSRs, OK, Contents
<1>2. CASE o = "GetCSRStatus"
  BY <1>2 DEF Reply, GetCSRStatus, OK, Error, Contents
<1>3. CASE o = "GetCRT"
  BY <1>3 DEF Reply, GetCRT, OK, Error, Contents
<1> QED
  BY <1>1, <1>2, <1>3, OpsAssumption

-----------------------------------------------------------------------------

(***************************************************************************)
(* A call has its operation from the start, no answer of an instance       *)
(* before, one to its own operation afterwards, and its reply at its end.  *)
(***************************************************************************)
CallsInOrder ==
    \A c \in Calls :
       /\ pc[c] \in {"calling", "sent"} => op[c] \in Ops
       /\ pc[c] = "idle" => upstream[c] = Nothing
       /\ upstream[c] # Nothing => upstream[c] \in Answers(op[c])
       /\ reply[c] # Nothing => pc[c] = "answered"

ProxyInv == TypeOK /\ CallsInOrder /\ SuccessIsUpstreams

\* The steps of a call after which it is answered.
LEMMA ReturnKeeps ==
  ASSUME ProxyInv, NEW c \in Calls, pc[c] \in {"calling", "sent"},
         NEW result \in Contents \cup {"error"}, Return(c, result),
         \/ result = "error"
         \/ upstream[c] # Nothing /\ result = decode(op[c], upstream[c])
  PROVE  ProxyInv'
<1> USE DEF ProxyInv, TypeOK
<1>1. op[c] \in Ops
  BY DEF CallsInOrder
<1>2. Reply(op[c], result) \in [status : {200, 500}, content : Contents]
  BY <1>1, ReplyOfResult
<1>3. TypeOK'
  BY <1>2 DEF Return, discovery, DiscoveryTypeOK, Events, Lists
<1>4. CallsInOrder'
  BY DEF Return, CallsInOrder
<1>5. ASSUME NEW d \in Calls, reply'[d] # Nothing, reply'[d].status = 200,
             reply'[d].content # "empty"
      PROVE  /\ upstream'[d] # Nothing
             /\ reply'[d].content = decode(op'[d], upstream'[d])
  <2>1. CASE d = c
    <3>1. reply'[d] = Reply(op[c], result) /\ op' = op /\ upstream' = upstream
      BY <2>1 DEF Return
    <3> QED
      BY <1>1, <1>5, <2>1, <3>1, ReplyOfResult
  <2>2. CASE d # c
    BY <1>5, <2>2 DEF Return, SuccessIsUpstreams
  <2> QED
    BY <2>1, <2>2
<1> QED
  BY <1>3, <1>4, <1>5 DEF SuccessIsUpstreams

\* A step of the endpointers changes nothing that CallsInOrder speaks of.
LEMMA ProxyInvInductive ==
    ProxyInv /\ [Next]_vars /\ DiscoveryTypeOK' => ProxyInv'
<1> SUFFICES ASSUME ProxyInv, [Next]_vars, DiscoveryTypeOK' PROVE ProxyInv'
  OBVIOUS
<1> USE DEF ProxyInv, TypeOK
<1>1. CASE UNCHANGED callVars
  BY <1>1 DEF callVars, CallsInOrder, SuccessIsUpstreams
<1>2. CASE AbortCalls
  BY <1>2 DEF AbortCalls, CallsInOrder, SuccessIsUpstreams
<1>3. ASSUME NEW c \in Calls, Begin(c) PROVE ProxyInv'
  <2>1. TypeOK' /\ CallsInOrder'
    BY <1>3 DEF Begin, CallsInOrder
  <2>2. SuccessIsUpstreams'
    BY <1>3 DEF Begin, CallsInOrder, SuccessIsUpstreams
  <2> QED
    BY <2>1, <2>2
<1>4. ASSUME NEW c \in Calls, Send(c) PROVE ProxyInv'
  <2>1. op[c] \in Ops
    BY <1>4 DEF Send, CallsInOrder
  <2>2. TypeOK' /\ CallsInOrder'
    BY <1>4, <2>1 DEF Send, CallsInOrder, Cached
  <2>3. SuccessIsUpstreams'
    BY <1>4 DEF Send, SuccessIsUpstreams
  <2> QED
    BY <2>2, <2>3
<1>5. ASSUME NEW c \in Calls, InstanceAnswers(c) PROVE ProxyInv'
  <2>1. op[c] \in Ops
    BY <1>5 DEF InstanceAnswers, CallsInOrder
  <2>2. TypeOK' /\ CallsInOrder'
    BY <1>5, <2>1, AnswersAreBodies DEF InstanceAnswers, CallsInOrder
  <2>3. reply'[c] = Nothing
    BY <1>5 DEF InstanceAnswers, CallsInOrder
  <2>4. SuccessIsUpstreams'
    BY <1>5, <2>3 DEF InstanceAnswers, SuccessIsUpstreams
  <2> QED
    BY <2>2, <2>4
<1>6. ASSUME NEW c \in Calls, NoEndpoint(c) \/ SendFails(c) \/ Timeout(c)
      PROVE  ProxyInv'
  BY <1>6, ReturnKeeps DEF NoEndpoint, SendFails, Timeout
<1>7. ASSUME NEW c \in Calls, Decode(c) PROVE ProxyInv'
  <2>1. op[c] \in Ops /\ upstream[c] \in Answers(op[c])
    BY <1>7 DEF Decode, CallsInOrder
  <2>2. decode(op[c], upstream[c]) \in Contents \cup {"error"}
    BY <2>1, DecodedType
  <2> QED
    BY <1>7, <2>2, ReturnKeeps DEF Decode
<1> QED
  BY <1>1, <1>2, <1>3, <1>4, <1>5, <1>6, <1>7 DEF Next, vars

\* The inductive invariant of the calls (the proxied operations).
THEOREM ProxyInvariant == Spec => []ProxyInv
<1>1. Init => ProxyInv
  BY DEF Init, ProxyInv, TypeOK, CallsInOrder, SuccessIsUpstreams,
     DiscoveryInit, DiscoveryTypeOK, Lists, Endpoints, None
<1> QED
  BY <1>1, ProxyInvInductive, ImplementsDiscovery, DiscoveryTypes, PTL DEF Spec

\* The variables of EnrollerProxy keep their types (the proxied operations).
THEOREM TypeCorrect == Spec => []TypeOK
BY ProxyInvariant, PTL DEF ProxyInv

\* What is handed out with status 200 is what an instance has answered to this
\* call, or an empty list (GetCSRs, GetCSRStatus, GetCRT).
THEOREM OnlyUpstreamsSuccess == Spec => []SuccessIsUpstreams
BY ProxyInvariant, PTL DEF ProxyInv

=============================================================================

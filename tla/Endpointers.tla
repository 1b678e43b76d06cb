----------------------------- MODULE Endpointers -----------------------------
(***************************************************************************)
(* How the enroller service knows the instances of the Lamassu enroller:   *)
(* ProxyingMiddleware makes one Consul instancer and, on top of it, one    *)
(* endpointer per operation, each with a factory of its own.               *)
(*                                                                         *)
(* The instancer is one goroutine.  It hands every new result of its query *)
(* to the registered endpointers, one after the other over unbuffered      *)
(* channels, and asks Consul again when all have taken it.  An endpointer  *)
(* is a goroutine too: it takes an event, then applies it to its cache,    *)
(* and an error leaves the cache as it is.  For each instance that is not  *)
(* in the cache it calls the factory, which reads the CA file; when it has *)
(* an endpoint for every one, it replaces the cache.  In between the file  *)
(* may change.  A factory panics when the address is no URL or the file    *)
(* cannot be read: outside any HTTP handler, so the process ends.  It is   *)
(* started again, with empty caches.                                       *)
(***************************************************************************)

CONSTANTS
    Ops,         \* the proxied operations, with an endpointer each
    Instances,   \* addresses of the enroller that Consul may list
    Unparsable,  \* those of them that are no URL
    CAs,         \* what the CA file may hold
    Failed,      \* the event of a query that failed
    Nothing      \* no event, no instance, no answer, no endpoint, no CA

ASSUME EventsAssumption ==
    /\ Failed # Nothing
    /\ \A L \in SUBSET Instances : L \notin {Failed, Nothing}

ASSUME CAsAssumption == Nothing \notin CAs

VARIABLES
    registered,  \* the endpointers that ProxyingMiddleware has made
    event,       \* the last event of the instancer
    pending,     \* the endpointers that have not taken it yet
    inbox,       \* the event that each endpointer is applying
    cache,       \* its endpoints: the CA that the one of an instance trusts
    made,        \* those that it has made for the event, not yet in the cache
    caFile,      \* what the CA file holds, Nothing if it cannot be read
    seen         \* history: the CAs it has held since the event was taken

discovery == <<registered, event, pending, inbox, cache, made, caFile, seen>>

Lists     == SUBSET Instances
Events    == {Failed} \cup Lists
Endpoints == [Instances -> {Nothing} \cup CAs]
None      == [i \in Instances |-> Nothing]

DiscoveryTypeOK ==
    /\ registered \subseteq Ops
    /\ event \in Events
    /\ pending \subseteq registered
    /\ inbox \in [Ops -> {Nothing} \cup Events]
    /\ cache \in [Ops -> Endpoints]
    /\ made \in [Ops -> Endpoints]
    /\ caFile \in {Nothing} \cup CAs
    /\ seen \in [Ops -> SUBSET CAs]

DiscoveryInit ==
    /\ registered = {}
    /\ event \in Events
    /\ pending = {}
    /\ inbox = [e \in Ops |-> Nothing]
    /\ cache = [e \in Ops |-> None]
    /\ made = [e \in Ops |-> None]
    /\ caFile \in {Nothing} \cup CAs
    /\ seen = [e \in Ops |-> {}]

\* The instances that an operation can call.
Cached(e) == {i \in Instances : cache[e][i] # Nothing}

\* The cache is locked from the first call of the factory to the replacement.
Locked(e) == made[e] # None

-----------------------------------------------------------------------------

Take(e) ==
    /\ inbox' = [inbox EXCEPT ![e] = event]
    /\ seen' = [seen EXCEPT ![e] = {caFile} \cap CAs]

\* NewEndpointer registers with the instancer, which sends it the last event
\* at once.  One lock excludes this during a broadcast.
RegisterEndpointer(e) ==
    /\ e \notin registered
    /\ pending = {}
    /\ registered' = registered \cup {e}
    /\ Take(e)
    /\ UNCHANGED <<event, pending, cache, made, caFile>>

\* A query returns.  An event equal to the last one is not broadcast.
QueryReturns ==
    /\ pending = {}
    /\ \E new \in Events \ {event} : event' = new
    /\ pending' = registered
    /\ UNCHANGED <<registered, inbox, cache, made, caFile, seen>>

\* Fault variant: the instancer drops the event for a busy endpointer.
DeliverOrDrop(e) ==
    /\ e \in pending
    /\ pending' = pending \ {e}
    /\ IF inbox[e] = Nothing THEN Take(e) ELSE UNCHANGED <<inbox, seen>>
    /\ UNCHANGED <<registered, event, cache, made, caFile>>

Deliver(e) ==
    /\ e \in pending
    /\ inbox[e] = Nothing
    /\ pending' = pending \ {e}
    /\ Take(e)
    /\ UNCHANGED <<registered, event, cache, made, caFile>>

Release(e) ==
    /\ inbox' = [inbox EXCEPT ![e] = Nothing]
    /\ seen' = [seen EXCEPT ![e] = {}]

IgnoreFailure(e) ==
    /\ inbox[e] = Failed
    /\ Release(e)
    /\ UNCHANGED <<registered, event, pending, cache, made, caFile>>

Updating(e) == inbox[e] \notin {Failed, Nothing}

\* The instances for which the factory has yet to be called.
New(e) == {i \in inbox[e] : cache[e][i] = Nothing /\ made[e][i] = Nothing}

\* Fault variant: the error of CreateCAPool is ignored, and the HTTP client has
\* no CAs of its own.
MakeEndpointAnyway(e) ==
    /\ Updating(e)
    /\ \E i \in New(e) \ Unparsable :
          made' = [made EXCEPT ![e][i] =
                     IF caFile = Nothing THEN "system" ELSE caFile]
    /\ UNCHANGED <<registered, event, pending, inbox, cache, caFile, seen>>

\* The factory with makeProxyClient, once for each new instance.
MakeEndpoint(e) ==
    /\ Updating(e)
    /\ caFile # Nothing
    /\ \E i \in New(e) \ Unparsable : made' = [made EXCEPT ![e][i] = caFile]
    /\ UNCHANGED <<registered, event, pending, inbox, cache, caFile, seen>>

\* Fault variant: instances that are gone stay in the cache.
SwapCacheAdds(e) ==
    /\ Updating(e)
    /\ New(e) = {}
    /\ cache' = [cache EXCEPT ![e] = [i \in Instances |->
                   IF cache[e][i] # Nothing THEN cache[e][i] ELSE made[e][i]]]
    /\ made' = [made EXCEPT ![e] = None]
    /\ Release(e)
    /\ UNCHANGED <<registered, event, pending, caFile>>

\* Endpoints of instances that stay are kept as they are.
SwapCache(e) ==
    /\ Updating(e)
    /\ New(e) = {}
    /\ cache' = [cache EXCEPT ![e] = [i \in Instances |->
                   IF i \notin inbox[e] THEN Nothing
                   ELSE IF cache[e][i] # Nothing THEN cache[e][i]
                   ELSE made[e][i]]]
    /\ made' = [made EXCEPT ![e] = None]
    /\ Release(e)
    /\ UNCHANGED <<registered, event, pending, caFile>>

\* The process ends and is started again: NewInstancer has made a first query
\* and nothing is registered yet.
StartAgain ==
    /\ registered' = {}
    /\ event' \in Events
    /\ pending' = {}
    /\ inbox' = [e \in Ops |-> Nothing]
    /\ cache' = [e \in Ops |-> None]
    /\ made' = [e \in Ops |-> None]
    /\ seen' = [e \in Ops |-> {}]
    /\ UNCHANGED caFile

\* url.Parse or CreateCAPool returns an error.
FactoryPanics(e) ==
    /\ Updating(e)
    /\ \/ New(e) \cap Unparsable # {}
       \/ New(e) # {} /\ caFile = Nothing
    /\ StartAgain

ChangeCAFile ==
    /\ \E ca \in {Nothing} \cup CAs : ca # caFile /\ caFile' = ca
    /\ seen' = [e \in Ops |->
                  IF inbox[e] = Nothing THEN seen[e]
                  ELSE seen[e] \cup ({caFile'} \cap CAs)]
    /\ UNCHANGED <<registered, event, pending, inbox, cache, made>>

-----------------------------------------------------------------------------

DiscoveryStep ==
    \/ QueryReturns
    \/ ChangeCAFile
    \/ \E e \in Ops :
          \/ RegisterEndpointer(e)
          \/ Deliver(e)
          \/ IgnoreFailure(e)
          \/ MakeEndpoint(e)
          \/ SwapCache(e)

\* By a panic of a factory or for any other reason.
ProcessEnds ==
    \/ \E e \in Ops : FactoryPanics(e)
    \/ StartAgain

DiscoverySpec == DiscoveryInit /\ [][DiscoveryStep \/ ProcessEnds]_discovery

\* Goroutines that can go on do.  Consul need not answer.
FairDiscovery ==
    \A e \in Ops :
       /\ WF_discovery(Deliver(e))
       /\ WF_discovery(IgnoreFailure(e) \/ MakeEndpoint(e) \/ SwapCache(e)
                         \/ FactoryPanics(e))

FairDiscoverySpec == DiscoverySpec /\ FairDiscovery

-----------------------------------------------------------------------------

\* Once a list of instances has reached everybody the three operations work
\* with the same instances, the listed ones, however the events came in and
\* whatever failures of Consul were in between (ProxyingMiddleware).
QuietCachesAgree ==
    /\ event # Failed
    /\ registered = Ops
    /\ pending = {}
    /\ \A e \in Ops : inbox[e] = Nothing
    => \A e \in Ops : Cached(e) = event

\* An endpoint that a call can use trusts a CA that the file held while the
\* endpointer was at work on the list that brought the instance in, however
\* the file changes meanwhile and whether or not it can be read in the end:
\* never the CAs of the system, nor one left from an earlier stay of the
\* instance (makeProxyClient and the factories).
EndpointsTrustTheFile ==
    [][\A e \in Ops, i \in Instances :
          cache[e][i] = Nothing /\ cache'[e][i] # Nothing
             => cache'[e][i] \in seen[e]]_discovery

\* An instance that Consul does not list any more gets no calls for ever: it
\* leaves the cache, or is listed again, though later queries may fail
\* (endpointers of ProxyingMiddleware).
DroppedInstancesLeave ==
    \A e \in Ops, i \in Instances :
       (event # Failed /\ i \notin event /\ i \in Cached(e))
          ~> (i \notin Cached(e) \/ (event # Failed /\ i \in event))

=============================================================================

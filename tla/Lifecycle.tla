------------------------------ MODULE Lifecycle ------------------------------
(***************************************************************************)
(* The life of a service process and its registration with Consul: main of *)
(* cmd/manufacturing and cmd/enroller (the same code, line for line) with  *)
(* Register and Deregister of discovery/consul.                            *)
(*                                                                         *)
(* An instance is one run of the program: it starts at most once and never *)
(* comes back.  Several instances of one service run side by side while an *)
(* old one is replaced.  Identifiers of the two services differ in their   *)
(* prefix, so one service is modelled at a time.                           *)
(*                                                                         *)
(* A signal that arrives between Notify and the receive from its channel,  *)
(* or after that receive, is dropped: a step that changes nothing.         *)
(***************************************************************************)
CONSTANTS
    Instances,   \* the runs of the program
    Ids,         \* the registration identifiers that Register can draw
    Nobody       \* no instance, no identifier

ASSUME NobodyAssumption == Nobody \notin Instances /\ Nobody \notin Ids

VARIABLES
    main,        \* how far main of each instance is, or how it ended
    signals,     \* the goroutine that waits for SIGINT and SIGTERM
    listener,    \* the goroutine in ListenAndServeTLS
    id,          \* the identifier each instance has drawn
    reg,         \* its Register call, as seen by Consul
    dereg,       \* its Deregister call, as seen by Consul
    registry     \* Consul: whose registration each identifier holds

calls   == <<id, reg, dereg>>
vars    == <<main, signals, listener, id, reg, dereg, registry>>

Running == {"registering", "serving", "deregistering"}
Ended   == {"exited", "failed", "killed"}
Mains   == {"off"} \cup Running \cup Ended
Gos     == {"none", "started", "notified", "receiving", "listening",
            "sending", "done"}
Calls   == {"no", "sent", "applied"}

TypeOK ==
    /\ main \in [Instances -> Mains]
    /\ signals \in [Instances -> Gos \ {"listening"}]
    /\ listener \in [Instances -> Gos \ {"notified", "receiving"}]
    /\ id \in [Instances -> Ids \cup {Nobody}]
    /\ reg \in [Instances -> Calls]
    /\ dereg \in [Instances -> Calls]
    /\ registry \in [Ids -> Instances \cup {Nobody}]

Init ==
    /\ main = [i \in Instances |-> "off"]
    /\ signals = [i \in Instances |-> "none"]
    /\ listener = [i \in Instances |-> "none"]
    /\ id = [i \in Instances |-> Nobody]
    /\ reg = [i \in Instances |-> "no"]
    /\ dereg = [i \in Instances |-> "no"]
    /\ registry = [n \in Ids |-> Nobody]

-----------------------------------------------------------------------------

\* The process ends, and its goroutines with it.
End(i, how) ==
    /\ main' = [main EXCEPT ![i] = how]
    /\ signals' = [signals EXCEPT ![i] = "none"]
    /\ listener' = [listener EXCEPT ![i] = "none"]

\* Fault variant: the identifier is the instance's own name.
RegisterNamed(i) ==
    /\ main[i] = "off"
    /\ main' = [main EXCEPT ![i] = "registering"]
    /\ id' = [id EXCEPT ![i] = i]
    /\ reg' = [reg EXCEPT ![i] = "sent"]
    /\ UNCHANGED <<signals, listener, dereg, registry>>

\* The identifier comes from rand.Intn(100) without a seed: nothing makes the
\* identifiers of two instances differ.
Register(i) ==
    /\ main[i] = "off"
    /\ main' = [main EXCEPT ![i] = "registering"]
    /\ \E n \in Ids : id' = [id EXCEPT ![i] = n]
    /\ reg' = [reg EXCEPT ![i] = "sent"]
    /\ UNCHANGED <<signals, listener, dereg, registry>>

\* Consul may get to a call after the caller has given up on it or is gone.
\* A registration replaces what its identifier held.
ConsulRegisters(i) ==
    /\ reg[i] = "sent"
    /\ reg' = [reg EXCEPT ![i] = "applied"]
    /\ registry' = [registry EXCEPT ![id[i]] = i]
    /\ UNCHANGED <<main, signals, listener, id, dereg>>

\* Fault variant: main does not wait for Consul's answer.
RegisterReturnsEarly(i) ==
    /\ main[i] = "registering"
    /\ main' = [main EXCEPT ![i] = "serving"]
    /\ signals' = [signals EXCEPT ![i] = "started"]
    /\ listener' = [listener EXCEPT ![i] = "started"]
    /\ UNCHANGED <<calls, registry>>

\* Main installs its handlers, starts both goroutines and waits for errs.
RegisterReturns(i) ==
    /\ main[i] = "registering"
    /\ reg[i] = "applied"
    /\ main' = [main EXCEPT ![i] = "serving"]
    /\ signals' = [signals EXCEPT ![i] = "started"]
    /\ listener' = [listener EXCEPT ![i] = "started"]
    /\ UNCHANGED <<calls, registry>>

RegisterFails(i) ==
    /\ main[i] = "registering"
    /\ End(i, "failed")
    /\ UNCHANGED <<calls, registry>>

-----------------------------------------------------------------------------

Notify(i) ==
    /\ signals[i] = "started"
    /\ signals' = [signals EXCEPT ![i] = "notified"]
    /\ UNCHANGED <<main, listener, calls, registry>>

Receive(i) ==
    /\ signals[i] = "notified"
    /\ signals' = [signals EXCEPT ![i] = "receiving"]
    /\ UNCHANGED <<main, listener, calls, registry>>

\* Before Notify the signal has its default effect.
SignalKills(i) ==
    /\ main[i] \in Running
    /\ signals[i] \in {"none", "started"}
    /\ End(i, "killed")
    /\ UNCHANGED <<calls, registry>>

SignalArrives(i) ==
    /\ signals[i] = "receiving"
    /\ signals' = [signals EXCEPT ![i] = "sending"]
    /\ UNCHANGED <<main, listener, calls, registry>>

Listens(i) ==
    /\ listener[i] = "started"
    /\ listener' = [listener EXCEPT ![i] = "listening"]
    /\ UNCHANGED <<main, signals, calls, registry>>

\* The port is taken, the certificate is unreadable, accepting fails.
ListenFails(i) ==
    /\ listener[i] \in {"started", "listening"}
    /\ listener' = [listener EXCEPT ![i] = "sending"]
    /\ UNCHANGED <<main, signals, calls, registry>>

-----------------------------------------------------------------------------

\* errs is unbuffered: a sender goes on only when main receives, and main
\* receives once.  Main then sends the deregistration to Consul.
MainReceives(i, ch) ==
    /\ main[i] = "serving"
    /\ ch[i] = "sending"
    /\ main' = [main EXCEPT ![i] = "deregistering"]
    /\ dereg' = [dereg EXCEPT ![i] = "sent"]
    /\ UNCHANGED <<id, reg, registry>>

\* Fault variant: main leaves without deregistering.
StopOnSignalExits(i) ==
    /\ main[i] = "serving"
    /\ signals[i] = "sending"
    /\ End(i, "exited")
    /\ UNCHANGED <<calls, registry>>

StopOnSignal(i) ==
    /\ MainReceives(i, signals)
    /\ signals' = [signals EXCEPT ![i] = "done"]
    /\ UNCHANGED listener

\* Fault variant: main waits for the signal goroutine only.
NeverStopOnError(i) == FALSE

StopOnError(i) ==
    /\ MainReceives(i, listener)
    /\ listener' = [listener EXCEPT ![i] = "done"]
    /\ UNCHANGED signals

\* Consul removes what the identifier holds, whoever registered it.
ConsulDeregisters(i) ==
    /\ dereg[i] = "sent"
    /\ dereg' = [dereg EXCEPT ![i] = "applied"]
    /\ registry' = [registry EXCEPT ![id[i]] = Nobody]
    /\ UNCHANGED <<main, signals, listener, id, reg>>

DeregisterReturns(i) ==
    /\ main[i] = "deregistering"
    /\ dereg[i] = "applied"
    /\ End(i, "exited")
    /\ UNCHANGED <<calls, registry>>

\* Consul cannot be reached or refuses: exit status 1.
DeregisterFails(i) ==
    /\ main[i] = "deregistering"
    /\ End(i, "failed")
    /\ UNCHANGED <<calls, registry>>

\* SIGKILL, or a panic outside the HTTP handlers.
Kill(i) ==
    /\ main[i] \in Running
    /\ End(i, "killed")
    /\ UNCHANGED <<calls, registry>>

-----------------------------------------------------------------------------

Next ==
    \E i \in Instances :
       \/ Register(i)
       \/ ConsulRegisters(i)
       \/ RegisterReturns(i)
       \/ RegisterFails(i)
       \/ Notify(i)
       \/ Receive(i)
       \/ SignalKills(i)
       \/ SignalArrives(i)
       \/ Listens(i)
       \/ ListenFails(i)
       \/ StopOnSignal(i)
       \/ StopOnError(i)
       \/ ConsulDeregisters(i)
       \/ DeregisterReturns(i)
       \/ DeregisterFails(i)
       \/ Kill(i)

Spec == Init /\ [][Next]_vars

\* Goroutines that can go on do.  Consul, the network and the senders of
\* signals promise nothing.
Fairness ==
    \A i \in Instances :
       /\ WF_vars(Notify(i))
       /\ WF_vars(Receive(i))
       /\ WF_vars(Listens(i) \/ ListenFails(i))
       /\ WF_vars(StopOnSignal(i) \/ StopOnError(i))

FairSpec == Spec /\ Fairness

-----------------------------------------------------------------------------

\* An instance that ended with status 0 has left no registration behind: none
\* that Consul applied late, and none that Deregister missed (main,
\* Register, Deregister).
LeavesNoEntry ==
    \A i \in Instances :
       main[i] = "exited" => \A n \in Ids : registry[n] # i

\* Another instance with the identifier of i has taken the entry over, or has
\* taken it away.
LostToTwin(i) ==
    \E j \in Instances \ {i} :
       /\ id[j] = id[i]
       /\ \/ registry[id[i]] = j
          \/ registry[id[i]] = Nobody /\ dereg[j] = "applied"

\* While an instance serves, Consul holds its registration, or that of another
\* instance with the same identifier, or none because such an instance has
\* deregistered: there is no other way for a serving instance to be unknown
\* to Consul, whatever calls are late or given up (main, Register, Deregister).
ServingIsRegistered ==
    \A i \in Instances :
       main[i] = "serving" => registry[id[i]] = i \/ LostToTwin(i)

\* A process that answers requests can be asked to stop: a signal that its
\* goroutine got, or an error of the listener, never waits in errs for ever
\* unless main has already left it for the other one.
StopIsHeeded ==
    \A i \in Instances :
       (signals[i] = "sending" \/ listener[i] = "sending")
          ~> main[i] # "serving"

=============================================================================

--------------------------- MODULE LifecycleProofs ---------------------------
(***************************************************************************)
(* Proofs about Lifecycle, for any number of instances and identifiers.    *)
(***************************************************************************)
EXTENDS Lifecycle, TLAPS

\* The variables of Lifecycle keep their types (main, Register, Deregister).
THEOREM TypeCorrect == Spec => []TypeOK
<1>1. Init => TypeOK
  BY DEF Init, TypeOK, Mains, Running, Ended, Gos, Calls
<1>2. TypeOK /\ [Next]_vars => TypeOK'
  <2> SUFFICES ASSUME TypeOK, [Next]_vars PROVE TypeOK'
    OBVIOUS
  <2> USE DEF TypeOK, Mains, Running, Ended, Gos, Calls, End
  <2>1. ASSUME NEW i \in Instances, Register(i) PROVE TypeOK'
    BY <2>1 DEF Register
  <2>2. ASSUME NEW i \in Instances, ConsulRegisters(i) PROVE TypeOK'
    BY <2>2 DEF ConsulRegisters
  <2>3. ASSUME NEW i \in Instances,
               RegisterReturns(i) \/ RegisterFails(i) \/ Kill(i) PROVE TypeOK'
    BY <2>3 DEF RegisterReturns, RegisterFails, Kill, calls
  <2>4. ASSUME NEW i \in Instances,
               Notify(i) \/ Receive(i) \/ SignalKills(i) \/ SignalArrives(i)
        PROVE  TypeOK'
    BY <2>4 DEF Notify, Receive, SignalKills, SignalArrives, calls
  <2>5. ASSUME NEW i \in Instances, Listens(i) \/ ListenFails(i) PROVE TypeOK'
    BY <2>5 DEF Listens, ListenFails, calls
  <2>6. ASSUME NEW i \in Instances, StopOnSignal(i) \/ StopOnError(i)
        PROVE  TypeOK'
    BY <2>6 DEF StopOnSignal, StopOnError, MainReceives
  <2>7. ASSUME NEW i \in Instances, ConsulDeregisters(i) PROVE TypeOK'
    BY <2>7 DEF ConsulDeregisters
  <2>8. ASSUME NEW i \in Instances, DeregisterReturns(i) \/ DeregisterFails(i)
        PROVE  TypeOK'
    BY <2>8 DEF DeregisterReturns, DeregisterFails, calls
  <2>9. CASE UNCHANGED vars
    BY <2>9 DEF vars
  <2> QED
    BY <2>1, <2>2, <2>3, <2>4, <2>5, <2>6, <2>7, <2>8, <2>9 DEF Next
<1> QED
  BY <1>1, <1>2, PTL DEF Spec

-----------------------------------------------------------------------------

(***************************************************************************)
(* How far main is says which of its two calls Consul must have applied,   *)
(* whatever happens to an answer on the way.                               *)
(***************************************************************************)
CallsFollowMain ==
    \A i \in Instances :
       /\ main[i] = "off" => reg[i] = "no"
       /\ main[i] # "off" => id[i] \in Ids
       /\ main[i] \in {"serving", "deregistering", "exited"}
             => reg[i] = "applied"
       /\ main[i] \in {"off", "registering", "serving"} => dereg[i] = "no"
       /\ main[i] = "exited" => dereg[i] = "applied"
       /\ dereg[i] # "no" => reg[i] = "applied"

(***************************************************************************)
(* What the registry holds follows from the calls applied so far.          *)
(***************************************************************************)
RegistryFollowsCalls ==
    \A i \in Instances :
       /\ \A n \in Ids : registry[n] = i =>
             id[i] = n /\ reg[i] = "applied" /\ dereg[i] # "applied"
       /\ reg[i] = "applied" /\ dereg[i] # "applied"
             => registry[id[i]] = i \/ LostToTwin(i)

LifeInv == CallsFollowMain /\ RegistryFollowsCalls

\* A step that is no call to Consul, and ends main or lets it go on only when
\* the calls allow, keeps the invariant.
LEMMA QuietStep ==
  ASSUME TypeOK, LifeInv, UNCHANGED <<calls, registry>>, CallsFollowMain'
  PROVE  LifeInv'
BY DEF LifeInv, RegistryFollowsCalls, LostToTwin, calls

LEMMA LifeInvInductive == TypeOK /\ LifeInv /\ [Next]_vars => LifeInv'
<1> SUFFICES ASSUME TypeOK, LifeInv, [Next]_vars PROVE LifeInv'
  OBVIOUS
<1> USE DEF TypeOK
<1>1. ASSUME NEW i \in Instances, Register(i) PROVE LifeInv'
  <2>1. CallsFollowMain'
    BY <1>1 DEF Register, LifeInv, CallsFollowMain
  <2>2. /\ reg[i] = "no" /\ dereg[i] = "no" /\ reg'[i] = "sent"
        /\ dereg' = dereg /\ registry' = registry
        /\ \A j \in Instances \ {i} : id'[j] = id[j] /\ reg'[j] = reg[j]
    BY <1>1 DEF Register, LifeInv, CallsFollowMain
  <2>3. \A n \in Ids : registry[n] # i
    BY <2>2 DEF LifeInv, RegistryFollowsCalls
  <2>4. ASSUME NEW j \in Instances, reg'[j] = "applied",
               dereg'[j] # "applied"
        PROVE  registry'[id'[j]] = j \/ LostToTwin(j)'
    <3>1. j # i /\ id[j] \in Ids
      BY <2>2, <2>4 DEF LifeInv, CallsFollowMain
    <3>2. CASE registry[id[j]] = j
      BY <2>2, <3>1, <3>2
    <3>3. CASE LostToTwin(j)
      <4>1. PICK k \in Instances \ {j} :
               /\ id[k] = id[j]
               /\ \/ registry[id[j]] = k
                  \/ registry[id[j]] = Nobody /\ dereg[k] = "applied"
        BY <3>3 DEF LostToTwin
      <4>2. k # i
        BY <4>1, <3>1, <2>2, <2>3
      <4> QED
        BY <4>1, <4>2, <3>1, <2>2 DEF LostToTwin
    <3> QED
      BY <3>1, <3>2, <3>3, <2>2, <2>4 DEF LifeInv, RegistryFollowsCalls
  <2>5. ASSUME NEW j \in Instances, NEW n \in Ids, registry'[n] = j
        PROVE  id'[j] = n /\ reg'[j] = "applied" /\ dereg'[j] # "applied"
    BY <2>2, <2>3, <2>5 DEF LifeInv, RegistryFollowsCalls
  <2> QED
    BY <2>1, <2>4, <2>5 DEF LifeInv, RegistryFollowsCalls
<1>2. ASSUME NEW i \in Instances, ConsulRegisters(i) PROVE LifeInv'
  <2>1. CallsFollowMain'
    BY <1>2 DEF ConsulRegisters, LifeInv, CallsFollowMain, Calls
  <2>2. /\ id[i] \in Ids /\ dereg[i] = "no" /\ reg[i] = "sent"
        /\ id' = id /\ dereg' = dereg
        /\ reg' = [reg EXCEPT ![i] = "applied"]
        /\ registry' = [registry EXCEPT ![id[i]] = i]
    BY <1>2 DEF ConsulRegisters, LifeInv, CallsFollowMain
  <2>3. ASSUME NEW j \in Instances, reg'[j] = "applied",
               dereg'[j] # "applied"
        PROVE  registry'[id'[j]] = j \/ LostToTwin(j)'
    <3>1. CASE id[j] = id[i]
      BY <2>2, <3>1 DEF LostToTwin
    <3>2. CASE id[j] # id[i]
      <4>1. id[j] \in Ids
        BY <2>2, <2>3, <3>2 DEF LifeInv, CallsFollowMain
      <4> QED
        BY <2>2, <2>3, <3>2, <4>1 DEF LifeInv, RegistryFollowsCalls, LostToTwin
    <3> QED
      BY <3>1, <3>2
  <2>4. ASSUME NEW j \in Instances, NEW n \in Ids, registry'[n] = j
        PROVE  id'[j] = n /\ reg'[j] = "applied" /\ dereg'[j] # "applied"
    BY <2>2, <2>4 DEF LifeInv, RegistryFollowsCalls
  <2> QED
    BY <2>1, <2>3, <2>4 DEF LifeInv, RegistryFollowsCalls
<1>3. ASSUME NEW i \in Instances, RegisterReturns(i) PROVE LifeInv'
  BY <1>3, QuietStep DEF RegisterReturns, LifeInv, CallsFollowMain, calls
<1>4. ASSUME NEW i \in Instances, RegisterFails(i) \/ Kill(i) \/ SignalKills(i)
      PROVE  LifeInv'
  BY <1>4, QuietStep
  DEF RegisterFails, Kill, SignalKills, End, LifeInv, CallsFollowMain, calls,
      Running
<1>5. ASSUME NEW i \in Instances,
             \/ Notify(i) \/ Receive(i) \/ SignalArrives(i)
             \/ Listens(i) \/ ListenFails(i)
      PROVE  LifeInv'
  BY <1>5, QuietStep
  DEF Notify, Receive, SignalArrives, Listens, ListenFails, LifeInv,
      CallsFollowMain, calls
<1>6. ASSUME NEW i \in Instances, StopOnSignal(i) \/ StopOnError(i)
      PROVE  LifeInv'
  <2>1. /\ main[i] = "serving" /\ main' = [main EXCEPT ![i] = "deregistering"]
        /\ dereg' = [dereg EXCEPT ![i] = "sent"]
        /\ UNCHANGED <<id, reg, registry>>
    BY <1>6 DEF StopOnSignal, StopOnError, MainReceives
  <2>2. dereg[i] = "no" /\ reg[i] = "applied"
    BY <2>1 DEF LifeInv, CallsFollowMain
  <2>3. CallsFollowMain'
    BY <2>1, <2>2 DEF LifeInv, CallsFollowMain
  <2>4. \A j \in Instances : dereg'[j] = "applied" <=> dereg[j] = "applied"
    BY <2>1, <2>2
  <2>5. RegistryFollowsCalls'
    BY <2>1, <2>4 DEF LifeInv, RegistryFollowsCalls, LostToTwin
  <2> QED
    BY <2>3, <2>5 DEF LifeInv
<1>7. ASSUME NEW i \in Instances, ConsulDeregisters(i) PROVE LifeInv'
  <2>1. CallsFollowMain'
    BY <1>7 DEF ConsulDeregisters, LifeInv, CallsFollowMain
  <2>2. /\ id[i] \in Ids /\ dereg[i] = "sent"
        /\ id' = id /\ reg' = reg
        /\ dereg' = [dereg EXCEPT ![i] = "applied"]
        /\ registry' = [registry EXCEPT ![id[i]] = Nobody]
    BY <1>7 DEF ConsulDeregisters, LifeInv, CallsFollowMain
  <2>3. ASSUME NEW j \in Instances, reg'[j] = "applied",
               dereg'[j] # "applied"
        PROVE  registry'[id'[j]] = j \/ LostToTwin(j)'
    <3>1. j # i
      BY <2>2, <2>3
    <3>2. CASE id[j] = id[i]
      BY <2>2, <3>1, <3>2 DEF LostToTwin
    <3>3. CASE id[j] # id[i]
      <4>1. id[j] \in Ids
        BY <2>2, <2>3, <3>1 DEF LifeInv, CallsFollowMain
      <4>2. registry'[id'[j]] = registry[id[j]]
        BY <2>2, <3>3, <4>1
      <4>3. registry[id[j]] = j \/ LostToTwin(j)
        BY <2>2, <2>3, <3>1 DEF LifeInv, RegistryFollowsCalls
      <4> QED
        BY <2>2, <4>2, <4>3 DEF LostToTwin
    <3> QED
      BY <3>2, <3>3
  <2>4. ASSUME NEW j \in Instances, NEW n \in Ids, registry'[n] = j
        PROVE  id'[j] = n /\ reg'[j] = "applied" /\ dereg'[j] # "applied"
    BY <2>2, <2>4, NobodyAssumption DEF LifeInv, RegistryFollowsCalls
  <2> QED
    BY <2>1, <2>3, <2>4 DEF LifeInv, RegistryFollowsCalls
<1>8. ASSUME NEW i \in Instances, DeregisterReturns(i) \/ DeregisterFails(i)
      PROVE  LifeInv'
  BY <1>8, QuietStep
  DEF DeregisterReturns, DeregisterFails, End, LifeInv, CallsFollowMain, calls
<1>9. CASE UNCHANGED vars
  BY <1>9 DEF vars, LifeInv, CallsFollowMain, RegistryFollowsCalls, LostToTwin
<1> QED
  BY <1>1, <1>2, <1>3, <1>4, <1>5, <1>6, <1>7, <1>8, <1>9 DEF Next

-----------------------------------------------------------------------------

\* The registry follows the calls, and the calls follow main.
THEOREM RegistryInvariant == Spec => []LifeInv
<1>1. Init => LifeInv
  BY NobodyAssumption
  DEF Init, LifeInv, CallsFollowMain, RegistryFollowsCalls
<1> QED
  BY <1>1, LifeInvInductive, TypeCorrect, PTL DEF Spec

\* An instance that ended with status 0 has left no registration (main,
\* Register, Deregister).
THEOREM OrderlyExitLeavesNothing == Spec => []LeavesNoEntry
<1>1. LifeInv => LeavesNoEntry
  BY DEF LifeInv, CallsFollowMain, RegistryFollowsCalls, LeavesNoEntry
<1> QED
  BY <1>1, RegistryInvariant, PTL

\* Only an instance with the same identifier makes a serving one unknown to
\* Consul (main, Register, Deregister).
THEOREM LostToTwinsOnly == Spec => []ServingIsRegistered
<1>1. LifeInv => ServingIsRegistered
  BY DEF LifeInv, CallsFollowMain, RegistryFollowsCalls, ServingIsRegistered
<1> QED
  BY <1>1, RegistryInvariant, PTL

=============================================================================

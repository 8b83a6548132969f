---------------------------- MODULE RollingProofs ----------------------------
(***************************************************************************)
(* Proofs about module Rolling: the semaphore bounds the machines that are *)
(* torn down, for any number of machines, places, faults and operations.   *)
(***************************************************************************)
EXTENDS Rolling, FiniteSetTheorems, TLAPS

USE MachinesAreFinite, MachinesAreGranted, SemaphoreHasPlaces

(* Types are preserved.                                                    *)
LEMMA TypeStep == TypeOK /\ [Next]_vars => TypeOK'
<1> SUFFICES ASSUME TypeOK, [Next]_vars PROVE TypeOK'
  OBVIOUS
<1> USE DEF TypeOK, UpdateSteps, AgentSteps, Processes, siteVars, fileVars, outVars
<1>1. ASSUME NEW m \in Machines, UpdateRuns(m) PROVE TypeOK'
  <2>1. CASE Poll(m)
    BY <2>1 DEF Poll, Goes
  <2>2. CASE Fetch(m)
    BY <2>2 DEF Fetch, Goes
  <2>3. CASE Unlock(m)
    BY <2>3 DEF Unlock, Goes, Unlocked, Fault, NoFault
  <2>4. CASE Lock(m)
    BY <2>4 DEF Lock, Goes, Taken, Fault, NoFault
  <2>5. CASE Drain(m) \/ Stop(m) \/ Write(m)
    BY <2>5 DEF Drain, Stop, Write, Goes
  <2> QED
    BY <1>1, <2>1, <2>2, <2>3, <2>4, <2>5 DEF UpdateRuns
<1>2. ASSUME NEW m \in Machines, ReadyRuns(m) PROVE TypeOK'
  <2>1. CASE Boot(m) \/ Ready(m)
    BY <2>1 DEF Boot, Ready, Goes
  <2>2. CASE Uncordon(m)
    BY <2>2 DEF Uncordon, Goes, Operate
  <2>3. CASE Release(m)
    BY <2>3 DEF Release, Goes, Unlocked, Fault, NoFault
  <2> QED
    BY <1>2, <2>1, <2>2, <2>3 DEF ReadyRuns
<1>3. ASSUME NEW m \in Machines, AgentRuns(m) PROVE TypeOK'
  <2>1. CASE AgentUnlock(m)
    BY <2>1 DEF AgentUnlock, AgentGoes, Unlocked, Fault, NoFault
  <2>2. CASE AgentLock(m)
    BY <2>2 DEF AgentLock, AgentGoes, Taken, Fault, NoFault
  <2>3. CASE AgentStop(m) \/ AgentStart(m)
    BY <2>3 DEF AgentStop, AgentStart, AgentGoes
  <2>4. CASE AgentRelease(m)
    BY <2>4 DEF AgentRelease, AgentGoes, Unlocked, Fault, NoFault
  <2> QED
    BY <1>3, <2>1, <2>2, <2>3, <2>4 DEF AgentRuns
<1>4. ASSUME NEW m \in Machines, Fails(m) PROVE TypeOK'
  <2>1. CASE ApiFails(m) \/ WriteFails(m)
    BY <2>1 DEF ApiFails, WriteFails, Goes, Fault
  <2>2. CASE DrainFails(m)
    BY <2>2 DEF DrainFails, Goes, Fault
  <2>3. CASE PowerLoss(m) \/ RestartFails(m)
    BY <2>3 DEF PowerLoss, RestartFails, AgentGoes, Fault
  <2> QED
    BY <1>4, <2>1, <2>2, <2>3 DEF Fails
<1>5. ASSUME NEW m \in Machines, UnitsRecover(m) \/ CallRestart(m) \/ Allow(m) \/ Forbid(m)
      PROVE  TypeOK'
  BY <1>5 DEF UnitsRecover, CallRestart, Allow, Forbid, AgentGoes, Operate
<1>6. CASE NewTarget
  BY <1>6 DEF NewTarget, Operate
<1>7. CASE UNCHANGED vars
  BY <1>7 DEF vars
<1> QED
  BY <1>1, <1>2, <1>3, <1>4, <1>5, <1>6, <1>7 DEF Next

(* The set of holders is finite.                                           *)
LEMMA HoldersAreFinite == TypeOK => IsFiniteSet(holders)
<1> SUFFICES ASSUME TypeOK PROVE IsFiniteSet(holders)
  OBVIOUS
<1>1. IsFiniteSet({"lifecycle"} \union {"agent"})
  <2>1. IsFiniteSet({"lifecycle"})
    BY FS_Singleton
  <2> QED
    BY <2>1, FS_AddElement
<1>2. Processes = {"lifecycle"} \union {"agent"}
  BY DEF Processes
<1>3. IsFiniteSet(Machines \X Processes)
  BY <1>1, <1>2, FS_Product
<1> QED
  BY <1>3, FS_Subset DEF TypeOK

(* A step takes one place that is left, or none.                           *)
LEMMA OnePlaceTaken ==
  ASSUME [Next]_vars
  PROVE  \/ holders' \subseteq holders
         \/ \E m \in Machines, process \in Processes :
              CanLock(m, process) /\ Taken(m, process)
<1>1. ASSUME NEW m \in Machines,
             Poll(m) \/ Fetch(m) \/ Drain(m) \/ Stop(m) \/ Write(m) \/ ReadyRuns(m)
               \/ AgentUnlock(m) \/ AgentStop(m) \/ AgentStart(m) \/ AgentRelease(m) \/ Unlock(m)
      PROVE  holders' \subseteq holders
  BY <1>1 DEF Poll, Fetch, Drain, Stop, Write, ReadyRuns, Boot, Ready, Uncordon, Release,
     AgentUnlock, AgentStop, AgentStart, AgentRelease, Unlock, Unlocked
<1>2. ASSUME NEW m \in Machines, Lock(m) \/ AgentLock(m)
      PROVE  \/ holders' \subseteq holders
             \/ \E process \in Processes : CanLock(m, process) /\ Taken(m, process)
  BY <1>2 DEF Lock, AgentLock, Processes
<1>3. ASSUME NEW m \in Machines,
             Fails(m) \/ UnitsRecover(m) \/ CallRestart(m) \/ Allow(m) \/ Forbid(m)
      PROVE  holders' \subseteq holders
  BY <1>3 DEF Fails, ApiFails, DrainFails, WriteFails, PowerLoss, RestartFails, UnitsRecover,
     CallRestart, Allow, Forbid
<1>4. CASE NewTarget \/ UNCHANGED vars
  BY <1>4 DEF NewTarget, vars
<1> QED
  BY <1>1, <1>2, <1>3, <1>4 DEF Next, UpdateRuns, AgentRuns

(* The semaphore is never over its limit.                                  *)
LEMMA PlacesStep == TypeOK /\ Places /\ [Next]_vars => Places'
<1> SUFFICES ASSUME TypeOK, Places, [Next]_vars PROVE Places'
  OBVIOUS
<1>1. IsFiniteSet(holders) /\ Cardinality(holders) \in Nat
  BY HoldersAreFinite, FS_CardinalityType
<1>2. CASE holders' \subseteq holders
  <2>1. IsFiniteSet(holders') /\ Cardinality(holders') <= Cardinality(holders)
    BY <1>1, <1>2, FS_Subset
  <2> QED
    BY <1>1, <2>1, FS_CardinalityType DEF Places
<1>3. ASSUME NEW m \in Machines, NEW process \in Processes,
             CanLock(m, process), Taken(m, process)
      PROVE  Places'
  <2>1. Cardinality(holders') = Cardinality(holders) + 1
    BY <1>1, <1>3, FS_AddElement DEF CanLock, Taken
  <2> QED
    BY <1>1, <1>3, <2>1 DEF CanLock, Places
<1> QED
  BY <1>2, <1>3, OnePlaceTaken

(* A place is given back by the scripts of its own machine: lifecycle-update *)
(* while its services run, lifecycle-ready at its end, the agent.          *)
LEMMA PlaceGivenBack ==
  ASSUME TypeOK, [Next]_vars, NEW m \in Machines
  PROVE  /\ <<m, "lifecycle">> \in holders \ holders' =>
              (Goes(m, "unlock", "lock") /\ m \notin halted) \/ Goes(m, "release", "poll")
         /\ <<m, "agent">> \in holders \ holders' =>
              AgentGoes(m, "unlock", "lock") \/ AgentGoes(m, "release", "idle")
<1> DEFINE Claim ==
      /\ <<m, "lifecycle">> \in holders \ holders' =>
           (Goes(m, "unlock", "lock") /\ m \notin halted) \/ Goes(m, "release", "poll")
      /\ <<m, "agent">> \in holders \ holders' =>
           AgentGoes(m, "unlock", "lock") \/ AgentGoes(m, "release", "idle")
<1>1. ASSUME holders \subseteq holders' PROVE Claim
  BY <1>1
<1>2. ASSUME NEW k \in Machines, Unlock(k) PROVE Claim
  <2>1. CASE holders' = holders
    BY <1>1, <2>1
  <2>2. CASE holders' # holders
    <3>1. LocksmithAnswers(k) /\ holders' = holders \ {<<k, "lifecycle">>}
      BY <1>2, <2>2 DEF Unlock, Unlocked
    <3>2. Goes(k, "unlock", "lock") /\ k \notin halted
      BY <1>2, <3>1 DEF Unlock, LocksmithAnswers, FleetRuns
    <3> QED
      BY <3>1, <3>2
  <2> QED
    BY <2>1, <2>2
<1>3. ASSUME NEW k \in Machines, Release(k) PROVE Claim
  BY <1>3 DEF Release, Unlocked
<1>4. ASSUME NEW k \in Machines, AgentUnlock(k) \/ AgentRelease(k) PROVE Claim
  BY <1>4 DEF AgentUnlock, AgentRelease, Unlocked
<1>5. ASSUME NEW k \in Machines,
             Poll(k) \/ Fetch(k) \/ Lock(k) \/ Drain(k) \/ Stop(k) \/ Write(k) \/ Boot(k)
               \/ Ready(k) \/ Uncordon(k) \/ AgentLock(k) \/ AgentStop(k) \/ AgentStart(k)
      PROVE  holders \subseteq holders'
  BY <1>5 DEF Poll, Fetch, Lock, Drain, Stop, Write, Boot, Ready, Uncordon, AgentLock,
     AgentStop, AgentStart, Taken
<1>6. ASSUME NEW k \in Machines,
             Fails(k) \/ UnitsRecover(k) \/ CallRestart(k) \/ Allow(k) \/ Forbid(k)
      PROVE  holders \subseteq holders'
  BY <1>6 DEF Fails, ApiFails, DrainFails, WriteFails, PowerLoss, RestartFails, UnitsRecover,
     CallRestart, Allow, Forbid
<1>7. CASE NewTarget \/ UNCHANGED vars
  BY <1>1, <1>7 DEF NewTarget, vars
<1> QED
  BY <1>1, <1>2, <1>3, <1>4, <1>5, <1>6, <1>7 DEF Next, UpdateRuns, ReadyRuns, AgentRuns

(* A machine is torn down under its place: the steps of lifecycle-update   *)
(* that tear it down follow the one that took it, and a machine whose      *)
(* services are stopped can only restart.                                  *)
LEMMA TornDownStep == RollInv /\ [Next]_vars => TornDownUnderLock'
<1> SUFFICES ASSUME RollInv, [Next]_vars, NEW m \in Machines
             PROVE  /\ update'[m] \in {"drain", "stop", "write"} =>
                         <<m, "lifecycle">> \in holders'
                    /\ m \in halted' => <<m, "lifecycle">> \in holders'
                    /\ update'[m] \in {"lock", "ready", "uncordon", "release"} =>
                         m \notin halted'
  BY DEF TornDownUnderLock
<1> DEFINE Goal ==
      /\ update'[m] \in {"drain", "stop", "write"} => <<m, "lifecycle">> \in holders'
      /\ m \in halted' => <<m, "lifecycle">> \in holders'
      /\ update'[m] \in {"lock", "ready", "uncordon", "release"} => m \notin halted'
<1> USE DEF RollInv, TypeOK, TornDownUnderLock, outVars
<1>1. /\ TypeOK
      /\ update[m] \in {"drain", "stop", "write"} => <<m, "lifecycle">> \in holders
      /\ m \in halted => <<m, "lifecycle">> \in holders
      /\ update[m] \in {"lock", "ready", "uncordon", "release"} => m \notin halted
  OBVIOUS
<1>2. <<m, "lifecycle">> \in holders \ holders' =>
        (Goes(m, "unlock", "lock") /\ m \notin halted) \/ Goes(m, "release", "poll")
  BY PlaceGivenBack
<1>3. ASSUME NEW k \in Machines, UpdateRuns(k) PROVE Goal
  <2>1. CASE Poll(k) \/ Fetch(k)
    BY <1>1, <2>1 DEF Poll, Fetch, Goes
  <2>2. CASE Unlock(k)
    <3>1. update' = [update EXCEPT ![k] = IF LocksmithAnswers(k) THEN "lock" ELSE "poll"]
      BY <2>2 DEF Unlock, Goes
    <3>2. LocksmithAnswers(k) => k \notin halted
      BY DEF LocksmithAnswers, FleetRuns
    <3>3. halted' = halted /\ update[k] = "unlock"
      BY <2>2 DEF Unlock, Goes
    <3> QED
      BY <1>1, <1>2, <3>1, <3>2, <3>3 DEF Goes
  <2>3. CASE Lock(k)
    BY <1>1, <2>3 DEF Lock, Goes, Taken
  <2>4. CASE Drain(k) \/ Stop(k) \/ Write(k)
    BY <1>1, <2>4 DEF Drain, Stop, Write, Goes
  <2> QED
    BY <1>3, <2>1, <2>2, <2>3, <2>4 DEF UpdateRuns
<1>4. ASSUME NEW k \in Machines, ReadyRuns(k) PROVE Goal
  <2>1. CASE Boot(k) \/ Ready(k) \/ Uncordon(k)
    BY <1>1, <2>1 DEF Boot, Ready, Uncordon, Goes
  <2>2. CASE Release(k)
    BY <1>1, <1>2, <2>2 DEF Release, Goes
  <2> QED
    BY <1>4, <2>1, <2>2 DEF ReadyRuns
<1>5. ASSUME NEW k \in Machines,
             AgentRuns(k) \/ UnitsRecover(k) \/ CallRestart(k) \/ Allow(k) \/ Forbid(k)
      PROVE  Goal
  <2>1. UNCHANGED <<update, halted>>
    BY <1>5 DEF AgentRuns, AgentUnlock, AgentLock, AgentStop, AgentStart, AgentRelease,
       UnitsRecover, CallRestart, Allow, Forbid
  <2> QED
    BY <1>1, <1>2, <2>1 DEF Goes
<1>6. ASSUME NEW k \in Machines, Fails(k) PROVE Goal
  BY <1>1, <1>6 DEF Fails, ApiFails, DrainFails, WriteFails, PowerLoss, RestartFails, Goes
<1>7. CASE NewTarget \/ UNCHANGED vars
  BY <1>1, <1>7 DEF NewTarget, vars
<1> QED
  BY <1>3, <1>4, <1>5, <1>6, <1>7 DEF Next

(* The invariant of the semaphore.                                         *)
LEMMA RollInvStep == RollInv /\ [Next]_vars => RollInv'
BY TypeStep, PlacesStep, TornDownStep DEF RollInv

LEMMA RollInvInit == Init => RollInv
<1> SUFFICES ASSUME Init PROVE RollInv
  OBVIOUS
<1>1. TypeOK
  BY DEF Init, TypeOK, UpdateSteps, AgentSteps, Processes
<1>2. Places
  BY FS_EmptySet DEF Init, Places
<1>3. TornDownUnderLock
  BY DEF Init, TornDownUnderLock
<1> QED
  BY <1>1, <1>2, <1>3 DEF RollInv

(* Types, and the protection of a tear-down by the semaphore.              *)
THEOREM SemaphoreProtects == Spec => []RollInv
BY RollInvInit, RollInvStep, PTL DEF Spec

(* Machines that each own a place are no more than the places.             *)
LEMMA OwnersAreFew ==
  ASSUME RollInv, NEW S \in SUBSET Machines,
         \A m \in S : \E process \in Processes : <<m, process>> \in holders
  PROVE  Cardinality(S) <= MaxHolders
<1> DEFINE place == [m \in S |-> <<m, CHOOSE process \in Processes : <<m, process>> \in holders>>]
<1>1. place \in [S -> holders]
  OBVIOUS
<1>2. \A m, k \in S : place[m] = place[k] => m = k
  OBVIOUS
<1>3. place \in Injection(S, holders)
  BY <1>1, <1>2 DEF Injection, IsInjective
<1>4. IsFiniteSet(holders) /\ Cardinality(holders) <= MaxHolders /\ Cardinality(holders) \in Nat
  BY HoldersAreFinite, FS_CardinalityType DEF RollInv, Places
<1>5. IsFiniteSet(S) /\ Cardinality(S) <= Cardinality(holders)
  BY <1>3, <1>4, FS_Injection
<1> QED
  BY <1>4, <1>5, FS_CardinalityType

(* Whatever fails and however often: the services of no more machines than *)
(* the semaphore has places are stopped by an update.                      *)
THEOREM UpdatesKeepQuorum == Spec => []QuorumKept
<1>1. RollInv => QuorumKept
  <2> SUFFICES ASSUME RollInv PROVE QuorumKept
    OBVIOUS
  <2>1. halted \in SUBSET Machines
    BY DEF RollInv, TypeOK
  <2>2. \A m \in halted : \E process \in Processes : <<m, process>> \in holders
    BY <2>1 DEF RollInv, TornDownUnderLock, Processes
  <2> QED
    BY <2>1, <2>2, OwnersAreFew DEF QuorumKept
<1> QED
  BY <1>1, SemaphoreProtects, PTL

(* When no drain and no restart fails, a machine out of service keeps its  *)
(* place until it serves again.                                            *)
LEMMA DownStep ==
  ASSUME Faults \intersect {"drain_fails", "restart_fails"} = {}
  PROVE  RollInv /\ DownUnderLock /\ [Next]_vars => DownUnderLock'
<1> SUFFICES ASSUME RollInv, DownUnderLock, [Next]_vars, NEW m \in Machines
             PROVE  /\ m \in drained' => <<m, "lifecycle">> \in holders'
                    /\ m \in drained' /\ m \notin halted' =>
                         update'[m] \in {"stop", "off", "ready", "uncordon"}
                    /\ m \in stopped' \/ agent'[m] \in {"stop", "start"} => <<m, "agent">> \in holders'
                    /\ m \in stopped' => agent'[m] = "start" \/ update'[m] = "off"
                    /\ update'[m] = "off" => agent'[m] = "idle"
  BY DEF DownUnderLock
<1> DEFINE Goal ==
      /\ m \in drained' => <<m, "lifecycle">> \in holders'
      /\ m \in drained' /\ m \notin halted' =>
           update'[m] \in {"stop", "off", "ready", "uncordon"}
      /\ m \in stopped' \/ agent'[m] \in {"stop", "start"} => <<m, "agent">> \in holders'
      /\ m \in stopped' => agent'[m] = "start" \/ update'[m] = "off"
      /\ update'[m] = "off" => agent'[m] = "idle"
<1> USE DEF outVars
<1>1. TypeOK
  BY DEF RollInv
<1>2. /\ m \in drained => <<m, "lifecycle">> \in holders
      /\ m \in drained /\ m \notin halted =>
           update[m] \in {"stop", "off", "ready", "uncordon"}
      /\ m \in stopped \/ agent[m] \in {"stop", "start"} => <<m, "agent">> \in holders
      /\ m \in stopped => agent[m] = "start" \/ update[m] = "off"
      /\ update[m] = "off" => agent[m] = "idle"
  BY DEF DownUnderLock
<1>3. /\ update[m] \in {"drain", "stop", "write"} => <<m, "lifecycle">> \in holders
      /\ update[m] \in {"lock", "ready", "uncordon", "release"} => m \notin halted
  BY DEF RollInv, TornDownUnderLock
\* What is given back is not needed any more.
<1>4. /\ <<m, "lifecycle">> \in holders \ holders' => m \notin drained
      /\ <<m, "agent">> \in holders \ holders' =>
           m \notin stopped /\ agent[m] \notin {"stop", "start"} /\ agent'[m] \notin {"stop", "start"}
  BY <1>1, <1>2, <1>3, PlaceGivenBack DEF Goes, AgentGoes, TypeOK
<1>5. ASSUME NEW k \in Machines, UpdateRuns(k) PROVE Goal
  <2>1. CASE Poll(k) \/ Fetch(k) \/ Unlock(k) \/ Lock(k)
    <3>1. /\ UNCHANGED <<agent, drained, halted, stopped>>
          /\ \E step \in {"fetch", "poll", "unlock", "lock", "drain"} :
               update' = [update EXCEPT ![k] = step]
          /\ update[k] \in {"poll", "fetch", "unlock", "lock"}
      BY <2>1 DEF Poll, Fetch, Unlock, Lock, Goes
    <3> QED
      BY <1>1, <1>2, <1>4, <3>1 DEF TypeOK
  <2>2. CASE Drain(k) \/ Stop(k)
    BY <1>1, <1>2, <1>3, <2>2 DEF Drain, Stop, Goes, TypeOK
  <2>3. CASE Write(k)
    BY <1>1, <1>2, <2>3 DEF Write, Goes, TypeOK
  <2> QED
    BY <1>5, <2>1, <2>2, <2>3 DEF UpdateRuns
<1>6. ASSUME NEW k \in Machines, ReadyRuns(k) PROVE Goal
  <2>1. CASE Boot(k) \/ Ready(k) \/ Uncordon(k)
    BY <1>1, <1>2, <1>3, <2>1 DEF Boot, Ready, Uncordon, Goes, TypeOK
  <2>2. CASE Release(k)
    BY <1>1, <1>2, <1>4, <2>2 DEF Release, Goes, TypeOK
  <2> QED
    BY <1>6, <2>1, <2>2 DEF ReadyRuns
<1>7. ASSUME NEW k \in Machines, AgentRuns(k) PROVE Goal
  <2>1. CASE AgentUnlock(k) \/ AgentLock(k) \/ AgentRelease(k)
    <3>1. /\ UNCHANGED <<update, drained, halted, stopped>>
          /\ agent[k] \in {"unlock", "lock", "release"}
          /\ \/ \E step \in {"idle", "lock"} : agent' = [agent EXCEPT ![k] = step]
             \/ agent' = [agent EXCEPT ![k] = "stop"] /\ Taken(k, "agent")
      BY <2>1 DEF AgentUnlock, AgentLock, AgentRelease, AgentGoes
    <3> QED
      BY <1>1, <1>2, <1>4, <3>1 DEF TypeOK, Taken
  <2>2. CASE AgentStop(k) \/ AgentStart(k)
    BY <1>1, <1>2, <2>2 DEF AgentStop, AgentStart, AgentGoes, TypeOK
  <2> QED
    BY <1>7, <2>1, <2>2 DEF AgentRuns
<1>8. ASSUME NEW k \in Machines, Fails(k) PROVE Goal
  BY <1>1, <1>2, <1>8 DEF Fails, ApiFails, DrainFails, WriteFails, PowerLoss, RestartFails,
     Goes, Fault, TypeOK
<1>9. CASE NewTarget \/ UNCHANGED vars
  BY <1>2, <1>9 DEF NewTarget, vars
<1>10. ASSUME NEW k \in Machines, UnitsRecover(k) \/ CallRestart(k) \/ Allow(k) \/ Forbid(k)
       PROVE  Goal
  BY <1>1, <1>2, <1>10 DEF UnitsRecover, CallRestart, Allow, Forbid, AgentGoes, TypeOK
<1> QED
  BY <1>5, <1>6, <1>7, <1>8, <1>9, <1>10 DEF Next

(* When no drain and no restart fails, a machine is cordoned, torn down or *)
(* restarting its units under its own place only, whatever power,          *)
(* requests, answers of locksmith or writes are lost.                      *)
THEOREM MachinesKeepTheirPlace ==
  ASSUME Faults \intersect {"drain_fails", "restart_fails"} = {}
  PROVE  Spec => []DownUnderLock
<1>1. Init => DownUnderLock
  BY DEF Init, DownUnderLock
<1>2. RollInv /\ DownUnderLock /\ [Next]_vars => DownUnderLock'
  BY DownStep
<1> QED
  BY <1>1, <1>2, SemaphoreProtects, PTL DEF Spec

(* Then the machines out of service are together no more than the places.  *)
THEOREM SemaphoreBoundsDown ==
  ASSUME Faults \intersect {"drain_fails", "restart_fails"} = {}
  PROVE  Spec => []AtMostDown
<1>1. RollInv /\ DownUnderLock => AtMostDown
  <2> SUFFICES ASSUME RollInv, DownUnderLock PROVE AtMostDown
    OBVIOUS
  <2>1. Down \in SUBSET Machines
    BY DEF RollInv, TypeOK, Down
  <2>2. \A m \in Down : \E process \in Processes : <<m, process>> \in holders
    BY <2>1 DEF RollInv, TornDownUnderLock, DownUnderLock, Down, Processes
  <2> QED
    BY <2>1, <2>2, OwnersAreFew DEF AtMostDown
<1> QED
  BY <1>1, SemaphoreProtects, MachinesKeepTheirPlace, PTL
=============================================================================

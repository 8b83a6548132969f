------------------------------- MODULE Rolling -------------------------------
(***************************************************************************)
(* The rolling update of an installed cluster.  Every machine polls the    *)
(* API (/opt/bin/lifecycle-update), takes a place in the locksmith         *)
(* semaphore, tears itself down, writes the new ignition and restarts;     *)
(* when it is back, /opt/bin/lifecycle-ready waits for the cluster and     *)
(* gives the place back.  Beside it, the enjoliver-agent restarts the      *)
(* Kubernetes units of its machine on request, with a place of its own.    *)
(* The semaphore is a key of the fleet etcd, whose members are the         *)
(* control planes; a machine reaches it through its own etcd only.         *)
(***************************************************************************)
EXTENDS FiniteSets, Integers

CONSTANTS
  Machines,
  ControlPlanes,  \* the machines that are members of the etcd clusters
  Versions,       \* the ignitions matchbox may be made to serve
  Granted,        \* the sets of machines that may be enabled at first
  MaxHolders,     \* places in the semaphore
  Faults,         \* the kinds of faults that may happen
  MaxFaults,      \* bound: faults of a behaviour
  MaxOps          \* bound: operations of the operators, and presets, of a behaviour

ASSUME MachinesAreFinite == IsFiniteSet(Machines) /\ ControlPlanes \subseteq Machines
ASSUME MachinesAreGranted == Granted \subseteq SUBSET Machines
ASSUME SemaphoreHasPlaces == MaxHolders \in Nat \ {0}

VARIABLES
  target,   \* the ignition matchbox serves
  enabled,  \* the machines with a rolling strategy (LifecycleRolling.enable)
  disk,     \* the ignition on the disk of each machine
  fetched,  \* its /tmp/coreos-install.json
  preset,   \* the machines whose /run/systemd-preset-all has a new symlink
  update,   \* what each machine runs: a step of lifecycle-update or of
            \* lifecycle-ready, or "off"
  agent,    \* the step of RestartKubernetes in each machine
  holders,  \* the semaphore: machines and the process that took the place
  drained,  \* the machines cordoned by a drain
  halted,   \* the machines whose services lifecycle-update has stopped
  stopped,  \* the machines whose units the agent has stopped
  ops, faults

siteVars == <<target, enabled>>
fileVars == <<disk, fetched, preset>>
outVars == <<drained, halted, stopped>>
vars == <<siteVars, fileVars, update, agent, holders, outVars, ops, faults>>

UpdateSteps == {"poll", "fetch", "unlock", "lock", "drain", "stop", "write",
                "off", "ready", "uncordon", "release"}
AgentSteps == {"idle", "unlock", "lock", "stop", "start", "release"}
Processes == {"lifecycle", "agent"}

\* A running cluster, whose operators may have granted updates before, for which matchbox may just
\* have been given another ignition.
Init ==
  /\ target \in Versions
  /\ enabled \in Granted
  /\ \E installed \in Versions : disk = [m \in Machines |-> installed]
  /\ fetched = disk
  /\ preset = {}
  /\ update = [m \in Machines |-> "poll"]
  /\ agent = [m \in Machines |-> "idle"]
  /\ holders = {}
  /\ drained = {} /\ halted = {} /\ stopped = {}
  /\ ops = 0 /\ faults = 0

-----------------------------------------------------------------------------
(* The semaphore and the services.                                         *)

\* The fleet etcd of a machine runs.
FleetRuns(m) == update[m] # "off" /\ m \notin halted

Majority(S) == 2 * Cardinality(S) > Cardinality(ControlPlanes)

\* Mutation: the etcd of any machine is asked.
AnyLocksmithAnswers(m) == Majority({c \in ControlPlanes : FleetRuns(c)})

\* -endpoint http://127.0.0.1:<fleet_etcd_client_port>
LocksmithAnswers(m) == FleetRuns(m) /\ Majority({c \in ControlPlanes : FleetRuns(c)})

\* etcdctl cluster-health: every member is healthy.
FleetIsHealthy == \A c \in ControlPlanes : FleetRuns(c)

\* The local kube-apiserver of a control plane, the one behind haproxy for a node.
KubernetesAnswers(m) ==
  /\ Majority({c \in ControlPlanes : FleetRuns(c) /\ c \notin stopped})
  /\ m \in ControlPlanes => FleetRuns(m) /\ m \notin stopped

Fault(kind) == kind \in Faults /\ faults < MaxFaults /\ faults' = faults + 1
NoFault == UNCHANGED faults
Operate == ops < MaxOps /\ ops' = ops + 1

\* locksmithctl lock: the process is not a holder and a place is left.
CanLock(m, process) ==
  /\ LocksmithAnswers(m)
  /\ <<m, process>> \notin holders
  /\ Cardinality(holders) < MaxHolders

Taken(m, process) == holders' = holders \union {<<m, process>>}

\* locksmithctl unlock, when its status is ignored: nobody knows if it was done.
Unlocked(m, process) ==
  \/ LocksmithAnswers(m) /\ holders' = holders \ {<<m, process>>} /\ NoFault
  \/ ~LocksmithAnswers(m) /\ UNCHANGED holders /\ NoFault
  \/ LocksmithAnswers(m) /\ UNCHANGED holders /\ Fault("locksmith_fails")

-----------------------------------------------------------------------------
(* /opt/bin/lifecycle-update, which systemd starts again whenever it ends. *)

Goes(m, from, to) == update[m] = from /\ update' = [update EXCEPT ![m] = to]

\* POST /lifecycle/ignition answers 210, or a preset is on hold.
Poll(m) ==
  /\ Goes(m, "poll", "fetch")
  /\ disk[m] # target \/ m \in preset
  /\ UNCHANGED <<siteVars, fileVars, agent, holders, outVars, ops, faults>>

\* Mutation: what is on the disk is written again.
FetchFromDisk(m) ==
  /\ Goes(m, "fetch", IF m \in enabled THEN "unlock" ELSE "poll")
  /\ fetched' = [fetched EXCEPT ![m] = disk[m]]
  /\ UNCHANGED <<siteVars, disk, preset, agent, holders, outVars, ops, faults>>

\* GET /ignition, then GET /lifecycle/rolling: one step, since what the first
\* reads and what the second reads change independently.
Fetch(m) ==
  /\ Goes(m, "fetch", IF m \in enabled THEN "unlock" ELSE "poll")
  /\ fetched' = [fetched EXCEPT ![m] = target]
  /\ UNCHANGED <<siteVars, disk, preset, agent, holders, outVars, ops, faults>>

\* A request that fails ends the script.
ApiFails(m) ==
  /\ Fault("api_fails")
  /\ Goes(m, "fetch", "poll")
  /\ UNCHANGED <<siteVars, fileVars, agent, holders, outVars, ops>>

\* locksmithctl status, which must succeed, and unlock || true: a place kept
\* by an earlier attempt is given back.
Unlock(m) ==
  /\ Goes(m, "unlock", IF LocksmithAnswers(m) THEN "lock" ELSE "poll")
  /\ Unlocked(m, "lifecycle")
  /\ UNCHANGED <<siteVars, fileVars, agent, outVars, ops>>

\* Mutation: lock || true.
LockOrTrue(m) ==
  /\ Goes(m, "lock", "drain")
  /\ IF CanLock(m, "lifecycle") THEN Taken(m, "lifecycle") ELSE UNCHANGED holders
  /\ UNCHANGED <<siteVars, fileVars, agent, outVars, ops, faults>>

\* locksmithctl lock: no place, an end of the script.
Lock(m) ==
  /\ \/ CanLock(m, "lifecycle") /\ Goes(m, "lock", "drain")
        /\ Taken(m, "lifecycle") /\ NoFault
     \/ ~CanLock(m, "lifecycle") /\ Goes(m, "lock", "poll")
        /\ UNCHANGED holders /\ NoFault
     \/ CanLock(m, "lifecycle") /\ Goes(m, "lock", "poll")
        /\ Taken(m, "lifecycle") /\ Fault("locksmith_fails")
  /\ UNCHANGED <<siteVars, fileVars, agent, outVars, ops>>

\* kubectl drain cordons the machine first.
Drain(m) ==
  /\ Goes(m, "drain", "stop")
  /\ drained' = drained \union {m}
  /\ UNCHANGED <<siteVars, fileVars, agent, holders, halted, stopped, ops, faults>>

\* A drain that fails, cordoned or not: a node goes on (|| true), the script
\* of a control plane ends (set -e).
DrainFails(m) ==
  /\ Fault("drain_fails")
  /\ Goes(m, "drain", IF m \in ControlPlanes THEN "poll" ELSE "stop")
  /\ drained' \in {drained, drained \union {m}}
  /\ UNCHANGED <<siteVars, fileVars, agent, holders, halted, stopped, ops>>

\* kubelet, haproxy, kube-apiserver, the etcds, vault.
Stop(m) ==
  /\ Goes(m, "stop", "write")
  /\ halted' = halted \union {m}
  /\ UNCHANGED <<siteVars, fileVars, agent, holders, drained, stopped, ops, faults>>

\* The disk GUID, the kernel of a kexec, cp of the ignition, systemctl <strategy>.
Write(m) ==
  /\ Goes(m, "write", "off")
  /\ disk' = [disk EXCEPT ![m] = fetched[m]]
  /\ agent' = [agent EXCEPT ![m] = "idle"]
  /\ UNCHANGED <<siteVars, fetched, preset, holders, outVars, ops, faults>>

\* sgdisk, cgpt, kexec or cp fails: the script ends, the services stay down.
WriteFails(m) ==
  /\ Fault("write_fails")
  /\ Goes(m, "write", "poll")
  /\ UNCHANGED <<siteVars, fileVars, agent, holders, outVars, ops>>

-----------------------------------------------------------------------------
(* The restart, and /opt/bin/lifecycle-ready.                              *)

\* Every unit starts; /run is empty.
Boot(m) ==
  /\ Goes(m, "off", "ready")
  /\ halted' = halted \ {m}
  /\ stopped' = stopped \ {m}
  /\ preset' = preset \ {m}
  /\ UNCHANGED <<siteVars, disk, fetched, agent, holders, drained, ops, faults>>

\* Mutation: nothing is waited for and the machine stays cordoned.
NoReadiness(m) ==
  /\ Goes(m, "uncordon", "release")
  /\ UNCHANGED <<siteVars, fileVars, agent, holders, outVars, ops, faults>>

\* cluster-health, the kubelet, the list of the fleet.
Ready(m) ==
  /\ Goes(m, "ready", "uncordon")
  /\ FleetIsHealthy
  /\ m \notin stopped
  /\ UNCHANGED <<siteVars, fileVars, agent, holders, outVars, ops, faults>>

\* kubectl uncordon, then systemctl preset-all, which may have changed a unit.
Uncordon(m) ==
  /\ Goes(m, "uncordon", "release")
  /\ KubernetesAnswers(m)
  /\ drained' = drained \ {m}
  /\ \/ UNCHANGED <<preset, ops>>
     \/ preset' = preset \union {m} /\ Operate
  /\ UNCHANGED <<siteVars, disk, fetched, agent, holders, halted, stopped, faults>>

\* Mutation: the last unlock is left to the next update.
NoRelease(m) ==
  /\ Goes(m, "release", "poll")
  /\ UNCHANGED <<siteVars, fileVars, agent, holders, outVars, ops, faults>>

\* locksmithctl unlock || true: the end of lifecycle-ready, after which
\* lifecycle-update may start.
Release(m) ==
  /\ Goes(m, "release", "poll")
  /\ Unlocked(m, "lifecycle")
  /\ UNCHANGED <<siteVars, fileVars, agent, outVars, ops>>

PowerLoss(m) ==
  /\ Fault("power_loss")
  /\ update[m] # "off"
  /\ update' = [update EXCEPT ![m] = "off"]
  /\ agent' = [agent EXCEPT ![m] = "idle"]
  /\ UNCHANGED <<siteVars, fileVars, holders, outVars, ops>>

-----------------------------------------------------------------------------
(* RestartKubernetes of the agent, under its mutex.                        *)

AgentGoes(m, from, to) == agent[m] = from /\ agent' = [agent EXCEPT ![m] = to]

\* /hack/systemd/restart/kubernetes
CallRestart(m) ==
  /\ Operate
  /\ update[m] # "off"
  /\ AgentGoes(m, "idle", "unlock")
  /\ UNCHANGED <<siteVars, fileVars, update, holders, outVars, faults>>

\* The result of this unlock is not looked at.
AgentUnlock(m) ==
  /\ AgentGoes(m, "unlock", "lock")
  /\ Unlocked(m, "agent")
  /\ UNCHANGED <<siteVars, fileVars, update, outVars, ops>>

\* Mutation: the agent goes on without its place.
AgentLockIgnored(m) ==
  /\ AgentGoes(m, "lock", "stop")
  /\ IF CanLock(m, "agent") THEN Taken(m, "agent") ELSE UNCHANGED holders
  /\ UNCHANGED <<siteVars, fileVars, update, outVars, ops, faults>>

\* Ten tries, then an error.
AgentLock(m) ==
  /\ \/ CanLock(m, "agent") /\ AgentGoes(m, "lock", "stop")
        /\ Taken(m, "agent") /\ NoFault
     \/ ~CanLock(m, "agent") /\ AgentGoes(m, "lock", "idle")
        /\ UNCHANGED holders /\ NoFault
     \/ CanLock(m, "agent") /\ AgentGoes(m, "lock", "lock")
        /\ Taken(m, "agent") /\ Fault("locksmith_fails")
  /\ UNCHANGED <<siteVars, fileVars, update, outVars, ops>>

AgentStop(m) ==
  /\ AgentGoes(m, "stop", "start")
  /\ stopped' = stopped \union {m}
  /\ UNCHANGED <<siteVars, fileVars, update, holders, drained, halted, ops, faults>>

AgentStart(m) ==
  /\ AgentGoes(m, "start", "release")
  /\ stopped' = stopped \ {m}
  /\ UNCHANGED <<siteVars, fileVars, update, holders, drained, halted, ops, faults>>

\* A unit does not come back: the error is returned with the place kept.
RestartFails(m) ==
  /\ Fault("restart_fails")
  /\ AgentGoes(m, "start", "idle")
  /\ UNCHANGED <<siteVars, fileVars, update, holders, outVars, ops>>

\* systemd restarts a unit that failed.
UnitsRecover(m) ==
  /\ m \in stopped
  /\ agent[m] = "idle" /\ update[m] # "off"
  /\ stopped' = stopped \ {m}
  /\ UNCHANGED <<siteVars, fileVars, update, agent, holders, drained, halted, ops, faults>>

AgentRelease(m) ==
  /\ AgentGoes(m, "release", "idle")
  /\ Unlocked(m, "agent")
  /\ UNCHANGED <<siteVars, fileVars, update, outVars, ops>>

-----------------------------------------------------------------------------
(* The operators: matchbox, and POST and DELETE /lifecycle/rolling.        *)

NewTarget ==
  /\ Operate
  /\ target' \in Versions \ {target}
  /\ UNCHANGED <<enabled, fileVars, update, agent, holders, outVars, faults>>

Allow(m) ==
  /\ Operate
  /\ m \notin enabled
  /\ enabled' = enabled \union {m}
  /\ UNCHANGED <<target, fileVars, update, agent, holders, outVars, faults>>

Forbid(m) ==
  /\ Operate
  /\ m \in enabled
  /\ enabled' = enabled \ {m}
  /\ UNCHANGED <<target, fileVars, update, agent, holders, outVars, faults>>

UpdateRuns(m) ==
  Poll(m) \/ Fetch(m) \/ Unlock(m) \/ Lock(m) \/ Drain(m) \/ Stop(m) \/ Write(m)
ReadyRuns(m) == Boot(m) \/ Ready(m) \/ Uncordon(m) \/ Release(m)
AgentRuns(m) ==
  AgentUnlock(m) \/ AgentLock(m) \/ AgentStop(m) \/ AgentStart(m) \/ AgentRelease(m)
Fails(m) == ApiFails(m) \/ DrainFails(m) \/ WriteFails(m) \/ PowerLoss(m) \/ RestartFails(m)

Next ==
  \/ \E m \in Machines :
       UpdateRuns(m) \/ ReadyRuns(m) \/ AgentRuns(m) \/ Fails(m)
         \/ UnitsRecover(m) \/ CallRestart(m) \/ Allow(m) \/ Forbid(m)
  \/ NewTarget

Spec == Init /\ [][Next]_vars

\* systemd restarts lifecycle-update and runs lifecycle-ready at each boot, a
\* machine that is off is switched on again, and the agent handles a call.
Fairness ==
  \A m \in Machines :
    WF_vars(UpdateRuns(m)) /\ WF_vars(ReadyRuns(m)) /\ WF_vars(AgentRuns(m))

FairSpec == Spec /\ Fairness

-----------------------------------------------------------------------------
(* Properties.                                                             *)

TypeOK ==
  /\ target \in Versions /\ enabled \subseteq Machines
  /\ disk \in [Machines -> Versions] /\ fetched \in [Machines -> Versions]
  /\ preset \subseteq Machines
  /\ update \in [Machines -> UpdateSteps] /\ agent \in [Machines -> AgentSteps]
  /\ holders \subseteq Machines \X Processes
  /\ drained \subseteq Machines /\ halted \subseteq Machines /\ stopped \subseteq Machines
  /\ ops \in Nat /\ faults \in Nat

Places == Cardinality(holders) <= MaxHolders

\* A machine is torn down, and its services are stopped, under its place; it
\* gets out of there by a restart only, since it reaches the semaphore by
\* a service it has stopped.
TornDownUnderLock ==
  \A m \in Machines :
    /\ update[m] \in {"drain", "stop", "write"} => <<m, "lifecycle">> \in holders
    /\ m \in halted => <<m, "lifecycle">> \in holders
    /\ update[m] \in {"lock", "ready", "uncordon", "release"} => m \notin halted

\* RollInv: types, and how the semaphore protects a tear-down.
RollInv == TypeOK /\ Places /\ TornDownUnderLock

\* Whatever fails, lifecycle-update never has the services of more machines
\* stopped than the semaphore has places: the etcd clusters keep their quorum.
QuorumKept == Cardinality(halted) <= MaxHolders

Down == drained \union halted \union stopped

\* Without drain_fails and restart_fails, a machine that is cordoned, or has
\* its units stopped by the agent, holds the place under which it was done, and
\* no step that gives this place back is reached before it serves again.
DownUnderLock ==
  \A m \in Machines :
    /\ m \in drained => <<m, "lifecycle">> \in holders
    /\ m \in drained /\ m \notin halted =>
         update[m] \in {"stop", "off", "ready", "uncordon"}
    /\ m \in stopped \/ agent[m] \in {"stop", "start"} => <<m, "agent">> \in holders
    /\ m \in stopped => agent[m] = "start" \/ update[m] = "off"
    /\ update[m] = "off" => agent[m] = "idle"

\* The semaphore bounds the machines that are out of service, for an update or
\* a restart of their units, and not only those whose services are halted.
AtMostDown == Cardinality(Down) <= MaxHolders

\* lifecycle-ready gives back the place lifecycle-update took, through any
\* loss of power: the updates of the other machines are not blocked for ever.
ReleasesLock ==
  \A m \in Machines : <<m, "lifecycle">> \in holders ~> <<m, "lifecycle">> \notin holders

\* A machine whose update stays enabled gets the ignition matchbox serves in the
\* end, in competition with the others, if the places are not kept by agents.
EveryEnabledUpdated ==
  \A m \in Machines :
    (<>[](m \in enabled) /\ []<>(\A h \in holders : h[2] # "agent"))
      => <>[](disk[m] = target)
=============================================================================

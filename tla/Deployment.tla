------------------------------ MODULE Deployment ------------------------------
(***************************************************************************)
(* From a scheduled machine to an installed one: Scheduling with what the  *)
(* plan does in its "sync" step (sync.py, generator.py) and the installer  *)
(* of a machine in discovery (matchbox/ignition/discovery.yaml).           *)
(*                                                                         *)
(* The sync writes one matchbox group per scheduled machine, named by the  *)
(* rank of the machine in its tier, one file after the other, then tells   *)
(* the API; nothing locks the files.  The installers poll the API, fetch   *)
(* an ignition from matchbox through it, and write it to the disk.         *)
(***************************************************************************)
EXTENDS Scheduling, Metadata

CONSTANTS
  SyncTry,      \* nb_try of ConfigSyncSchedules.apply, as the plan calls it
  NoGroup,      \* a group file that is missing or truncated
  NoIgnition,   \* nothing fetched, nothing installed
  CidrOf,       \* the address that each MAC is leased (cidrv4 of its interface)
  MaxMishaps    \* bound: a mishap of the machines or of matchbox is at most this
                \* one among the faults and mishaps of a behaviour

ASSUME SyncTryIsPositive == SyncTry \in Nat \ {0}
ASSUME MishapsAreBounded == MaxMishaps \in Nat
ASSUME LeasesAreStatic == CidrOf \in [Macs -> Cidr]

Ranks == 0 .. Cardinality(Uuids) - 1
Files == {CPRoles, NodeRoles} \X Ranks

\* The selector of a group and the etcd members its metadata names.
Group == [mac: Macs, members: SUBSET Macs]
\* What matters of a rendered ignition.
Ignition == [roles: {CPRoles, NodeRoles}, members: SUBSET Macs]

ASSUME NothingIsNoData == NoGroup \notin Group /\ NoIgnition \notin Ignition

VARIABLES
  groups,     \* matchbox groups/<tier>-<rank>.json
  sync,       \* the progress of ConfigSyncSchedules.apply
  syncTries,  \* the exceptions it has caught
  notified,   \* the key sync-notify is in the API's cache
  locked,     \* the key lock-install is in the API's cache
  installer,  \* the installer of each machine: its step, its MAC, its file
  disk,       \* the ignition each machine is installed with
  mishaps     \* mishaps so far

siteVars == <<groups, sync, syncTries, notified, locked, installer, disk, mishaps>>
deployVars == <<vars, siteVars>>

\* Before the first request of an apply.
SyncStart == [step |-> "list", roles |-> CPRoles, list |-> {}, rest |-> {}, group |-> NoGroup]

DeployInit ==
  /\ Init
  /\ groups = [file \in Files |-> NoGroup]
  /\ sync = SyncStart
  /\ syncTries = 0
  /\ notified = FALSE
  /\ locked = FALSE
  /\ installer = [m \in Uuids |-> [step |-> "boot", mac |-> NoMac, file |-> NoIgnition]]
  /\ disk = [m \in Uuids |-> NoIgnition]
  /\ mishaps = 0

-----------------------------------------------------------------------------
(* ConfigSyncSchedules.apply, one step per request or file operation.      *)

SyncAt(step) == pc = "sync" /\ sync.step = step

\* Mutation: the nodes are forgotten.
NextTierSkipsNodes(roles) == [SyncStart EXCEPT !.step = "notify"]

\* The next tier, or the notification after the nodes.
NextTier(roles) ==
  IF roles = CPRoles THEN [SyncStart EXCEPT !.roles = NodeRoles]
                     ELSE [SyncStart EXCEPT !.step = "notify"]

\* _query_roles: the boot interfaces of the machines of the tier.
SyncList ==
  /\ SyncAt("list")
  /\ SomeWorkerFree
  /\ ~QueryFails(sync.roles)
  /\ LET macs == {boot[m] : m \in Holding(sync.roles)}
     IN  sync' = IF macs = {} THEN NextTier(sync.roles)
                 ELSE [sync EXCEPT !.step = "open", !.list = macs, !.rest = macs]
  /\ UNCHANGED <<vars, groups, syncTries, notified, locked, installer, disk, mishaps>>

\* Mutation: the role of the request is not looked at.
IpListsOfAnyRole ==
  LET members == {m \in Uuids : rows[m] # {} /\ boot[m] # NoMac}
  IN  {{pick[m] : m \in members} :
         pick \in {f \in [members -> Macs] : \A m \in members : f[m] \in nics[m]}}

\* get_role_ip_list: an interface of every bootable etcd member.
IpLists ==
  LET members == {m \in Uuids : "etcd-member" \in rows[m] /\ boot[m] # NoMac}
  IN  {{pick[m] : m \in members} :
         pick \in {f \in [members -> Macs] : \A m \in members : f[m] \in nics[m]}}

\* Mutations: the group id without the tier, or without the rank.
CurrentFileOfRank == <<CPRoles, Cardinality(sync.list \ sync.rest)>>
CurrentFileOfTier == <<sync.roles, 0>>

\* The file of the next machine in the list sorted by MAC.
CurrentFile == <<sync.roles, Cardinality(sync.list \ sync.rest)>>

Written(mac) ==
  LET left == sync.rest \ {mac}
  IN  sync' = IF left = {} THEN NextTier(sync.roles)
              ELSE [sync EXCEPT !.step = "open", !.rest = left, !.group = NoGroup]

\* produce_matchbox_data and dump: a file that would not change is left alone,
\* another one is opened, which truncates it.
SyncOpen ==
  /\ SyncAt("open")
  /\ SomeWorkerFree
  /\ \E mac \in sync.rest, members \in IpLists :
       LET group == [mac |-> mac, members |-> members]
       IN  /\ \A other \in sync.rest : mac <= other
           /\ \/ groups[CurrentFile] = group /\ Written(mac) /\ UNCHANGED groups
              \/ /\ groups[CurrentFile] # group
                 /\ groups' = [groups EXCEPT ![CurrentFile] = NoGroup]
                 /\ sync' = [sync EXCEPT !.step = "write", !.group = group]
  /\ UNCHANGED <<vars, syncTries, notified, locked, installer, disk, mishaps>>

SyncWrite ==
  /\ SyncAt("write")
  /\ groups' = [groups EXCEPT ![CurrentFile] = sync.group]
  /\ Written(sync.group.mac)
  /\ UNCHANGED <<vars, syncTries, notified, locked, installer, disk, mishaps>>

\* POST /sync-notify, and the plan's loop goes on.
SyncNotify ==
  /\ SyncAt("notify")
  /\ SomeWorkerFree
  /\ Sync
  /\ pc' = "cp_query"
  /\ notified' = TRUE
  /\ sync' = SyncStart
  /\ syncTries' = 0
  /\ UNCHANGED <<groups, locked, installer, disk, mishaps>>

\* Mutation: the last exception sends the plan back to its nodes.
SyncExceptionGoesBack ==
  /\ sync' = SyncStart
  /\ syncTries' = 0
  /\ pc' = "node_affect"
  /\ UNCHANGED <<groups, notified, locked, installer, disk, mishaps>>

\* Any exception: the apply starts over, and the last one ends the plan.
SyncException ==
  /\ sync' = SyncStart
  /\ \/ syncTries + 1 < SyncTry /\ syncTries' = syncTries + 1 /\ pc' = "sync"
     \/ syncTries + 1 = SyncTry /\ syncTries' = 0 /\ pc' = "stopped"
  /\ UNCHANGED <<groups, notified, locked, installer, disk, mishaps>>

SyncQueryFails ==
  /\ SyncAt("list")
  /\ SomeWorkerFree
  /\ QueryFails(sync.roles)
  /\ SyncException
  /\ UNCHANGED <<api, handler, todo, tries, faults>>

\* A request of the sync that is refused, or answered with an error.
SyncRequestFails ==
  /\ pc = "sync" /\ sync.step # "write"
  /\ Refused \/ HttpErrorOnGet
  /\ SyncException

-----------------------------------------------------------------------------
(* /opt/installer of a machine in discovery.                               *)

At(m, step) == installer[m].step = step
GoTo(m, step) == installer' = [installer EXCEPT ![m].step = step]

\* discoveryC posts the facts, whose answer it does not look at.
Report(m) ==
  /\ At(m, "boot")
  /\ \E r \in Reports :
       /\ r.uuid = m
       /\ Discover(r)
       /\ installer' = [installer EXCEPT ![m].step = "role", ![m].mac = r.boot]
  /\ UNCHANGED <<groups, sync, syncTries, notified, locked, disk, mishaps>>

\* GET /scheduler lists the boot interfaces of the scheduled machines, and fails
\* when one of them has none.  Its cached answer, at most 10 s old, only delays
\* the installer.
Scheduled == {m \in Uuids : rows[m] # {}}

CheckRole(m) ==
  /\ At(m, "role")
  /\ SomeWorkerFree
  /\ \A s \in Scheduled : boot[s] # NoMac
  /\ installer[m].mac \in {boot[s] : s \in Scheduled}
  /\ GoTo(m, "fetch")
  /\ UNCHANGED <<vars, groups, sync, syncTries, notified, locked, disk, mishaps>>

\* GET /sync-notify, then GET /ignition, which checks the same key again: refused
\* when the last sync is not recent, otherwise rendered from a group that selects
\* the machine.  Without one matchbox serves the discovery ignition, which the
\* installer does not take.
Selecting(mac) == {file \in Files : groups[file] # NoGroup /\ groups[file].mac = mac}

Fetch(m) ==
  /\ At(m, "fetch")
  /\ SomeWorkerFree
  /\ \/ /\ ~notified \/ Selecting(installer[m].mac) = {}
        /\ GoTo(m, "role")
     \/ /\ notified
        /\ \E file \in Selecting(installer[m].mac) :
             installer' = [installer EXCEPT
               ![m].step = "ask",
               ![m].file = [roles |-> file[1], members |-> groups[file].members]]
  /\ UNCHANGED <<vars, groups, sync, syncTries, notified, locked, disk, mishaps>>

\* GET /install-authorization, asked again until it is granted.
Ask(m) ==
  /\ At(m, "ask")
  /\ SomeWorkerFree
  /\ ~locked
  /\ locked' = TRUE
  /\ GoTo(m, "install")
  /\ UNCHANGED <<vars, groups, sync, syncTries, notified, disk, mishaps>>

\* coreos-install with the file fetched before the authorization.
Install(m) ==
  /\ At(m, "install")
  /\ disk' = [disk EXCEPT ![m] = installer[m].file]
  /\ GoTo(m, "done")
  /\ UNCHANGED <<vars, groups, sync, syncTries, notified, locked, mishaps>>

-----------------------------------------------------------------------------
(* The lock of the API, and what happens to the machines.                *)

LockExpires ==
  /\ locked
  /\ locked' = FALSE
  /\ UNCHANGED <<vars, groups, sync, syncTries, notified, installer, disk, mishaps>>

Mishap ==
  /\ faults + mishaps < MaxMishaps
  /\ mishaps' = mishaps + 1
  /\ UNCHANGED <<vars, sync, syncTries, locked, disk>>

\* The last notification is older than sync_notify_ttl.
NotifyExpires ==
  /\ Mishap
  /\ notified
  /\ notified' = FALSE
  /\ UNCHANGED <<groups, installer>>

\* The groups of matchbox are lost.
GroupsLost ==
  /\ Mishap
  /\ groups' = [file \in Files |-> NoGroup]
  /\ UNCHANGED <<notified, installer>>

\* A machine is switched off before the end of its installation.
PowerCycle(m) ==
  /\ Mishap
  /\ ~At(m, "boot") /\ ~At(m, "done")
  /\ installer' = [installer EXCEPT
                     ![m] = [step |-> "boot", mac |-> NoMac, file |-> NoIgnition]]
  /\ UNCHANGED <<groups, notified>>

\* None of the six discoveryC succeeded: the installer goes on all the same.
ReportLost(m) ==
  /\ Mishap
  /\ At(m, "boot")
  /\ \E r \in Reports :
       /\ r.uuid = m
       /\ installer' = [installer EXCEPT ![m].step = "role", ![m].mac = r.boot]
  /\ UNCHANGED <<groups, notified>>

\* coreos-install fails: reported, and the installer ends.
InstallFails(m) ==
  /\ Mishap
  /\ At(m, "install")
  /\ GoTo(m, "failed")
  /\ UNCHANGED <<groups, notified>>

-----------------------------------------------------------------------------
(* The steps of Scheduling outside the sync.                               *)

SyncSteps == SyncList \/ SyncOpen \/ SyncWrite \/ SyncNotify \/ SyncQueryFails

PlanStepHere ==
  \/ /\ PlanStep
     /\ pc # "sync"
     /\ UNCHANGED siteVars
  \/ SyncSteps

ApiStepHere ==
  /\ \/ \E w \in Workers : Handle(w) \/ WorkerLost(w) \/ HttpErrorOnPost(w)
     \/ pc # "sync" /\ (Refused \/ HttpErrorOnGet)
  /\ UNCHANGED siteVars

PlanCrashHere ==
  /\ PlanCrash
  /\ sync' = SyncStart
  /\ syncTries' = 0
  /\ UNCHANGED <<groups, notified, locked, installer, disk, mishaps>>

InstallerStep(m) ==
  Report(m) \/ CheckRole(m) \/ Fetch(m) \/ Ask(m) \/ Install(m)

DeployNext ==
  \/ PlanStepHere
  \/ ApiStepHere
  \/ PlanCrashHere
  \/ SyncRequestFails
  \/ \E m \in Uuids : InstallerStep(m)
  \/ LockExpires
  \/ NotifyExpires \/ GroupsLost
  \/ \E m \in Uuids : PowerCycle(m) \/ ReportLost(m) \/ InstallFails(m)

\* As in Scheduling; a machine that is switched on runs its installer, and the
\* timeout of the lock passes.
DeployFairness ==
  /\ WF_deployVars(PlanStepHere)
  /\ \A w \in Workers : WF_deployVars(Handle(w) /\ UNCHANGED siteVars)
  /\ \A m \in Uuids : WF_deployVars(InstallerStep(m))
  /\ WF_deployVars(LockExpires)

DeploySpec == DeployInit /\ [][DeployNext]_deployVars
FairDeploySpec == DeploySpec /\ DeployFairness

-----------------------------------------------------------------------------
(* Properties.                                                             *)

SyncState == [step: {"list", "open", "write", "notify"}, roles: {CPRoles, NodeRoles},
              list: SUBSET Macs, rest: SUBSET Macs, group: Group \cup {NoGroup}]
InstallerState == [step: {"boot", "role", "fetch", "ask", "install", "done", "failed"},
                   mac: Macs \cup {NoMac}, file: Ignition \cup {NoIgnition}]

\* The variables keep their types.
DeployTypeOK ==
  /\ groups \in [Files -> Group \cup {NoGroup}]
  /\ sync \in SyncState
  /\ syncTries \in 0 .. SyncTry - 1
  /\ notified \in BOOLEAN
  /\ locked \in BOOLEAN
  /\ installer \in [Uuids -> InstallerState]
  /\ disk \in [Uuids -> Ignition \cup {NoIgnition}]
  /\ mishaps \in 0 .. MaxMishaps

Installed == {m \in Uuids : disk[m] # NoIgnition}

\* discovery.yaml: "if the machine have no role, we don't want to install
\* discovery profile on disk".  Whatever group files the installer met while
\* the sync was moving them around, a machine is installed for its own tier.
InstalledAsScheduled == \A m \in Installed : disk[m].roles = rows[m]

\* No machine is installed with an etcd cluster too small to be the control
\* plane, though machines install while others are being scheduled and synced.
ClusterIsComplete == \A m \in Installed : Cardinality(disk[m].members) >= ExpectedNb

\* All machines are installed with the same etcd members, the control planes:
\* two machines that start from different lists would form two clusters.
OneCluster ==
  \A m \in Installed : disk[m].members = {boot[n] : n \in ControlPlane}

\* routes.py on /scheduler/ip-list: "List all the IP addresses of a given
\* schedules role".  A control plane finds its own address, the one that names
\* it (etcd_name), among the etcd members it is installed with.
MemberOfItsCluster ==
  \A m \in Installed \cap ControlPlane : installer[m].mac \in disk[m].members

\* The groups are written one by one, at different times and by different runs of
\* the plan, and no step compares the pod networks in them: still, the machines
\* that are installed give their pods addresses of the network that no other
\* machine has or gives, whichever interface they boot from (_cni_ipam).
PodsApart ==
  \A m, n \in Installed :
    m # n => PodsHaveTheirOwn(CidrOf[installer[m].mac], CidrOf[installer[n].mac])

\* Every step of the deployment is a step of the scheduling, or none.
ImplementsScheduling == Spec

\* docs/api.md: "the matchbox state isn't critical and can be regenerated at
\* any time".  After the last loss of the groups and the last crash, every
\* scheduled machine gets a group again, and keeps it.
GroupsAreRegenerated ==
  Cardinality(ControlPlane) >= ExpectedNb ~>
    [](\A m \in Scheduled : Selecting(boot[m]) # {})

\* Every machine that can be served is installed, or stopped at a failure.
EveryMachineInstalled ==
  \A m \in Uuids :
    m \in Bootable /\ Cardinality(ControlPlane) >= ExpectedNb ~>
      m \in Installed \/ At(m, "failed")

-----------------------------------------------------------------------------
(* The inductive invariant behind InstalledAsScheduled.                    *)

\* No machine boots from an interface that another one reports.
BootsAtHome == \A r \in Reports : \A n \in Uuids \ {r.uuid} : r.boot \notin Cards(n)

\* The MAC belongs to a machine of the tier.
Serves(mac, roles) == \E m \in Uuids : mac \in Cards(m) /\ rows[m] = roles

\* The addresses of the boot interfaces are laid out for the pods.
BootCidrs == {CidrOf[r.boot] : r \in Reports}
AddressPlan ==
  /\ AddressesFit(BootCidrs)
  /\ \A r, s \in Reports : CidrOf[r.boot] = CidrOf[s.boot] => r.uuid = s.uuid

OwnBoot == \A m \in Uuids : boot[m] # NoMac => boot[m] \in nics[m]

GroupsServe ==
  /\ \A file \in Files : groups[file] # NoGroup => Serves(groups[file].mac, file[1])
  /\ \A mac \in sync.rest : Serves(mac, sync.roles)
  /\ sync.group # NoGroup => Serves(sync.group.mac, sync.roles)

OwnMac == \A m \in Uuids :
  installer[m].mac # NoMac => \E r \in Reports : r.uuid = m /\ r.boot = installer[m].mac

OwnFile == \A m \in Uuids :
  installer[m].file # NoIgnition => installer[m].file.roles = rows[m]

DeployInv ==
  /\ IInv
  /\ DeployTypeOK
  /\ OwnBoot
  /\ GroupsServe
  /\ OwnMac
  /\ OwnFile
  /\ InstalledAsScheduled
=============================================================================

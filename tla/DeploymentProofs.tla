--------------------------- MODULE DeploymentProofs ---------------------------
(***************************************************************************)
(* Proofs about module Deployment: it implements Scheduling, so what was   *)
(* proved there holds here, and no machine is installed for another tier   *)
(* than its own.                                                           *)
(***************************************************************************)
EXTENDS Deployment, SchedulingProofs

USE SyncTryIsPositive, MishapsAreBounded

(* The steps of the sync, the installers and the mishaps leave the state   *)
(* of the scheduling alone or change it as Scheduling lets them.           *)
LEMMA DeployStepRefines == [DeployNext]_deployVars => [Next]_vars
<1> SUFFICES ASSUME [DeployNext]_deployVars PROVE [Next]_vars
  OBVIOUS
<1> USE DEF Next
<1>1. CASE PlanStepHere
  <2>1. CASE SyncQueryFails
    BY <2>1 DEF SyncQueryFails, SyncException, SyncAt, PlanStep, Sync, Go, vars, api
  <2>2. CASE SyncNotify
    BY <2>2 DEF SyncNotify, PlanStep
  <2> QED
    BY <1>1, <2>1, <2>2 DEF PlanStepHere, SyncSteps, SyncList, SyncOpen, SyncWrite
<1>2. CASE ApiStepHere
  BY <1>2 DEF ApiStepHere
<1>3. CASE PlanCrashHere
  BY <1>3 DEF PlanCrashHere
<1>4. CASE SyncRequestFails
  BY <1>4 DEF SyncRequestFails
<1>5. ASSUME NEW m \in Uuids, InstallerStep(m) PROVE [Next]_vars
  BY <1>5 DEF InstallerStep, Report, CheckRole, Fetch, Ask, Install
<1>6. CASE LockExpires
  BY <1>6 DEF LockExpires
<1>7. CASE NotifyExpires \/ GroupsLost
  BY <1>7 DEF NotifyExpires, GroupsLost, Mishap
<1>8. ASSUME NEW m \in Uuids, PowerCycle(m) \/ ReportLost(m) \/ InstallFails(m)
      PROVE  [Next]_vars
  BY <1>8 DEF PowerCycle, ReportLost, InstallFails, Mishap
<1>9. CASE UNCHANGED deployVars
  BY <1>9 DEF deployVars
<1> QED
  BY <1>1, <1>2, <1>3, <1>4, <1>5, <1>6, <1>7, <1>8, <1>9 DEF DeployNext

(* Whatever the sync and the installers do, the scheduling behaves as      *)
(* module Scheduling says.                                                 *)
THEOREM DeploymentImplementsScheduling == DeploySpec => ImplementsScheduling
<1>1. DeployInit => Init
  BY DEF DeployInit
<1> QED
  BY <1>1, DeployStepRefines, PTL DEF DeploySpec, ImplementsScheduling, Spec

(* What the runs of Scheduling check holds in the deployment too.          *)
THEOREM DeploymentKeepsTiers ==
  ASSUME OneWorker, CardsStayHome
  PROVE  DeploySpec => [](WholeTiers /\ ControlPlaneBound)
<1>1. IInv /\ [Next]_vars => IInv'
  BY IInvStep
<1>2. IInv => WholeTiers /\ ControlPlaneBound
  BY DEF IInv
<1> QED
  BY IInvInit, <1>1, <1>2, DeploymentImplementsScheduling, PTL
  DEF ImplementsScheduling, Spec

-----------------------------------------------------------------------------
(* The types of the deployment.                                            *)

LEMMA IpListsAreMacs == \A members \in IpLists : members \subseteq Macs
<1> SUFFICES ASSUME NEW members \in IpLists PROVE members \subseteq Macs
  OBVIOUS
<1> DEFINE etcd == {m \in Uuids : "etcd-member" \in rows[m] /\ boot[m] # NoMac}
<1>1. PICK pick \in [etcd -> Macs] : members = {pick[m] : m \in etcd}
  BY DEF IpLists
<1> HIDE DEF etcd
<1> QED BY <1>1

Steps == {"boot", "role", "fetch", "ask", "install", "done", "failed"}

(* What a step of an installer writes is a state of an installer.          *)
LEMMA InstallerMoves ==
  ASSUME DeployTypeOK, NEW m \in Uuids, NEW step \in Steps
  PROVE  /\ [installer EXCEPT ![m].step = step] \in [Uuids -> InstallerState]
         /\ \A mac \in Macs :
              [installer EXCEPT ![m].step = step, ![m].mac = mac]
                \in [Uuids -> InstallerState]
         /\ \A file \in Ignition :
              [installer EXCEPT ![m].step = step, ![m].file = file]
                \in [Uuids -> InstallerState]
<1> USE DEF InstallerState, Steps, DeployTypeOK
<1> DEFINE moved == [installer[m] EXCEPT !.step = step]
<1>1. moved \in InstallerState
  OBVIOUS
<1>2. [installer EXCEPT ![m].step = step] = [installer EXCEPT ![m] = moved]
  OBVIOUS
<1>3. ASSUME NEW mac \in Macs
      PROVE  [installer EXCEPT ![m].step = step, ![m].mac = mac] \in [Uuids -> InstallerState]
  <2>1. [moved EXCEPT !.mac = mac] \in InstallerState
    BY <1>1
  <2>2. [installer EXCEPT ![m].step = step, ![m].mac = mac]
          = [installer EXCEPT ![m] = [moved EXCEPT !.mac = mac]]
    OBVIOUS
  <2> HIDE DEF moved, InstallerState
  <2> QED BY <2>1, <2>2
<1>4. ASSUME NEW file \in Ignition
      PROVE  [installer EXCEPT ![m].step = step, ![m].file = file] \in [Uuids -> InstallerState]
  <2>1. [moved EXCEPT !.file = file] \in InstallerState
    BY <1>1
  <2>2. [installer EXCEPT ![m].step = step, ![m].file = file]
          = [installer EXCEPT ![m] = [moved EXCEPT !.file = file]]
    OBVIOUS
  <2> HIDE DEF moved, InstallerState
  <2> QED BY <2>1, <2>2
<1> HIDE DEF moved, InstallerState
<1> QED BY <1>1, <1>2, <1>3, <1>4

LEMMA DeployTypeStep ==
  ASSUME TypeOK, DeployTypeOK, [DeployNext]_deployVars PROVE DeployTypeOK'
<1> USE DEF DeployTypeOK, TypeOK
<1>1. SyncStart \in SyncState /\ \A roles : NextTier(roles) \in SyncState
  BY DEF SyncStart, SyncState, NextTier
<1>2. \A mac : Written(mac) => sync' \in SyncState
  <2> SUFFICES ASSUME NEW mac, Written(mac) PROVE sync' \in SyncState
    OBVIOUS
  <2>1. \A left \in SUBSET Macs :
          [sync EXCEPT !.step = "open", !.rest = left, !.group = NoGroup] \in SyncState
    BY DEF SyncState
  <2>2. sync.rest \ {mac} \in SUBSET Macs
    BY DEF SyncState
  <2> QED BY <1>1, <2>1, <2>2 DEF Written
<1>3. \A members \in IpLists : members \subseteq Macs
  BY IpListsAreMacs
<1>4. SyncException => DeployTypeOK'
  BY <1>1 DEF SyncException
<1>5. CASE PlanStepHere
  <2>1. CASE SyncList
    <3>1. {boot[m] : m \in Holding(sync.roles)} \subseteq Macs
      BY <2>1 DEF SyncList, QueryFails, Holding
    <3>2. \A macs \in SUBSET Macs :
            [sync EXCEPT !.step = "open", !.list = macs, !.rest = macs] \in SyncState
      BY DEF SyncState
    <3>3. sync' \in SyncState
      BY <1>1, <2>1, <3>1, <3>2 DEF SyncList
    <3> QED BY <2>1, <3>3 DEF SyncList
  <2>2. CASE SyncOpen
    <3>1. PICK mac \in sync.rest, members \in IpLists :
            LET group == [mac |-> mac, members |-> members]
            IN  \/ Written(mac) /\ groups' = groups
                \/ /\ groups' = [groups EXCEPT ![CurrentFile] = NoGroup]
                   /\ sync' = [sync EXCEPT !.step = "write", !.group = group]
      BY <2>2 DEF SyncOpen
    <3>2. [mac |-> mac, members |-> members] \in Group
      BY <1>3 DEF Group, SyncState
    <3>3. [sync EXCEPT !.step = "write", !.group = [mac |-> mac, members |-> members]]
            \in SyncState
      BY <3>2 DEF SyncState
    <3> QED BY <1>2, <2>2, <3>1, <3>3 DEF SyncOpen
  <2>3. CASE SyncWrite
    <3>1. sync.group \in Group \cup {NoGroup}
      BY DEF SyncState
    <3> QED BY <1>2, <2>3, <3>1 DEF SyncWrite
  <2>4. CASE SyncNotify
    BY <1>1, <2>4 DEF SyncNotify
  <2>5. CASE SyncQueryFails
    BY <1>4, <2>5 DEF SyncQueryFails
  <2>6. CASE UNCHANGED siteVars
    BY <2>6 DEF siteVars
  <2> QED
    BY <1>5, <2>1, <2>2, <2>3, <2>4, <2>5, <2>6 DEF PlanStepHere, SyncSteps
<1>6. CASE ApiStepHere
  BY <1>6 DEF ApiStepHere, siteVars
<1>7. CASE PlanCrashHere
  BY <1>1, <1>7 DEF PlanCrashHere
<1>8. CASE SyncRequestFails
  BY <1>4, <1>8 DEF SyncRequestFails
<1>9. ASSUME NEW m \in Uuids, InstallerStep(m) PROVE DeployTypeOK'
  <2>1. CASE Report(m)
    <3>1. installer' \in [Uuids -> InstallerState]
      <4>1. PICK r \in Reports :
              installer' = [installer EXCEPT ![m].step = "role", ![m].mac = r.boot]
        BY <2>1 DEF Report
      <4>2. r.boot \in Macs /\ "role" \in Steps
        BY ReportsAreFacts DEF Steps
      <4> HIDE DEF DeployTypeOK, TypeOK
      <4> QED BY <4>1, <4>2, InstallerMoves
    <3> QED BY <2>1, <3>1 DEF Report
  <2>2. CASE CheckRole(m)
    <3>1. installer' \in [Uuids -> InstallerState]
      BY <2>2, InstallerMoves DEF CheckRole, GoTo, Steps
    <3> QED BY <2>2, <3>1 DEF CheckRole
  <2>3. CASE Fetch(m)
    <3>1. ASSUME NEW file \in Selecting(installer[m].mac)
          PROVE  [roles |-> file[1], members |-> groups[file].members] \in Ignition
      BY DEF Selecting, Files, Ignition, Group
    <3>2. installer' \in [Uuids -> InstallerState]
      <4>1. "role" \in Steps /\ "ask" \in Steps
        BY DEF Steps
      <4>2. CASE GoTo(m, "role")
        BY <4>1, <4>2, InstallerMoves DEF GoTo
      <4>3. ASSUME NEW file \in Selecting(installer[m].mac),
                   installer' = [installer EXCEPT
                     ![m].step = "ask",
                     ![m].file = [roles |-> file[1], members |-> groups[file].members]]
            PROVE  installer' \in [Uuids -> InstallerState]
        <5> HIDE DEF DeployTypeOK, TypeOK
        <5> QED BY <3>1, <4>1, <4>3, InstallerMoves
      <4> QED BY <2>3, <4>2, <4>3 DEF Fetch
    <3> QED BY <2>3, <3>2 DEF Fetch
  <2>4. CASE Ask(m)
    <3>1. installer' \in [Uuids -> InstallerState]
      BY <2>4, InstallerMoves DEF Ask, GoTo, Steps
    <3> QED BY <2>4, <3>1 DEF Ask
  <2>5. CASE Install(m)
    <3>1. installer' \in [Uuids -> InstallerState]
      BY <2>5, InstallerMoves DEF Install, GoTo, Steps
    <3>2. installer[m].file \in Ignition \cup {NoIgnition}
      BY DEF InstallerState
    <3> QED BY <2>5, <3>1, <3>2 DEF Install
  <2> QED BY <1>9, <2>1, <2>2, <2>3, <2>4, <2>5 DEF InstallerStep
<1>10. CASE LockExpires
  BY <1>10 DEF LockExpires
<1>11. Mishap => mishaps' \in 0 .. MaxMishaps
  BY DEF Mishap
<1>12. CASE NotifyExpires \/ GroupsLost
  BY <1>11, <1>12 DEF NotifyExpires, GroupsLost, Mishap
<1>13. ASSUME NEW m \in Uuids, PowerCycle(m) \/ ReportLost(m) \/ InstallFails(m)
       PROVE  DeployTypeOK'
  <2>1. installer' \in [Uuids -> InstallerState]
    <3>1. CASE PowerCycle(m)
      BY <3>1 DEF PowerCycle, InstallerState
    <3>2. CASE ReportLost(m)
      <4>1. PICK r \in Reports :
              installer' = [installer EXCEPT ![m].step = "role", ![m].mac = r.boot]
        BY <3>2 DEF ReportLost
      <4>2. r.boot \in Macs /\ "role" \in Steps
        BY ReportsAreFacts DEF Steps
      <4> HIDE DEF DeployTypeOK, TypeOK
      <4> QED BY <4>1, <4>2, InstallerMoves
    <3>3. CASE InstallFails(m)
      BY <3>3, InstallerMoves DEF InstallFails, GoTo, Steps
    <3> QED BY <1>13, <3>1, <3>2, <3>3
  <2> QED
    BY <1>11, <1>13, <2>1 DEF PowerCycle, ReportLost, InstallFails, Mishap
<1>14. CASE UNCHANGED deployVars
  BY <1>14 DEF deployVars, siteVars
<1> QED
  BY <1>5, <1>6, <1>7, <1>8, <1>9, <1>10, <1>12, <1>13, <1>14 DEF DeployNext

-----------------------------------------------------------------------------
(* Machines are installed as scheduled.                                    *)

(* A tier, once given, stays, so what serves a tier goes on serving it.    *)
LEMMA TiersStay ==
  ASSUME IInv, CardsStayHome, [Next]_vars
  PROVE  /\ \A m \in Uuids : rows[m] # {} => rows'[m] = rows[m]
         /\ \A mac, roles : Serves(mac, roles) /\ roles # {} => Serves(mac, roles)'
<1>1. ASSUME NEW w \in Workers, handler[w] # Idle, CreateSchedule(handler[w]),
             NEW m \in Uuids, rows[m] # {}
      PROVE  rows'[m] = rows[m]
  <2>1. handler[w] \in Request /\ Untiered(handler[w].mac)
    BY <1>1 DEF IInv, TypeOK, InFlight
  <2>2. CASE rows' = rows
    BY <2>2
  <2>3. ASSUME NEW n \in Uuids, rows[n] = {}, rows' = [rows EXCEPT ![n] = handler[w].roles]
        PROVE  rows'[m] = rows[m]
    BY <1>1, <2>3 DEF IInv, TypeOK
  <2> QED BY <1>1, <2>1, <2>2, <2>3, Commit DEF IInv
<1>2. \/ rows' = rows
      \/ \E w \in Workers : handler[w] # Idle /\ CreateSchedule(handler[w])
  BY DEF Next, PlanStep, Discover, Reported, Start, CpQuery, CpFetch, NodeQuery, NodeQueryFails,
     NodeFetch, Sync, Affect, Handle, WorkerLost, HttpErrorOnPost, PlanCrash, Refused,
     HttpErrorOnGet, api, vars
<1>3. \A m \in Uuids : rows[m] # {} => rows'[m] = rows[m]
  BY <1>1, <1>2
<1> QED BY <1>3 DEF Serves, Cards

LEMMA OwnBootStep == TypeOK /\ OwnBoot /\ [Next]_vars => OwnBoot'
<1> SUFFICES ASSUME TypeOK, OwnBoot, [Next]_vars PROVE OwnBoot'
  OBVIOUS
<1>1. ASSUME NEW r \in Reports, Discover(r) PROVE OwnBoot'
  BY <1>1, ReportsAreFacts DEF Discover, Reported, OwnBoot, TypeOK
<1>2. (nics' = nics /\ boot' = boot) \/ \E r \in Reports : Discover(r)
  BY DEF Next, PlanStep, Start, CpQuery, CpFetch, NodeQuery, NodeQueryFails,
     NodeFetch, Sync, Affect, Handle, WorkerLost, HttpErrorOnPost, PlanCrash, Refused,
     HttpErrorOnGet, api, vars
<1> QED BY <1>1, <1>2 DEF OwnBoot

(* The boot interfaces that the sync lists are those of machines of the    *)
(* tier it writes.                                                         *)
LEMMA ListServes ==
  ASSUME IInv, OwnBoot, NEW roles \in {CPRoles, NodeRoles}, ~QueryFails(roles),
         NEW m \in Holding(roles)
  PROVE  Serves(boot[m], roles)
<1>1. m \in Uuids /\ boot[m] # NoMac /\ boot[m] \in Cards(m)
  BY DEF Holding, QueryFails, OwnBoot, IInv, KnownCards
<1>2. rows[m] = roles
  <2>1. NodeRoles \subseteq rows[m] => rows[m] = NodeRoles
    BY <1>1 DEF IInv, WholeTiers, CPRoles, NodeRoles
  <2> QED BY <2>1 DEF Holding
<1> QED BY <1>1, <1>2 DEF Serves

LEMMA DeployInvInit == DeployInit => DeployInv
<1> SUFFICES ASSUME DeployInit PROVE DeployInv
  OBVIOUS
<1> USE DEF DeployInit
<1>1. IInv
  BY IInvInit
<1>2. DeployTypeOK
  <2>1. SyncStart \in SyncState
    BY DEF SyncStart, SyncState
  <2>2. [step |-> "boot", mac |-> NoMac, file |-> NoIgnition] \in InstallerState
    BY DEF InstallerState
  <2>3. groups \in [Files -> Group \cup {NoGroup}] /\ disk \in [Uuids -> Ignition \cup {NoIgnition}]
    OBVIOUS
  <2>4. installer \in [Uuids -> InstallerState]
    BY <2>2
  <2>5. syncTries \in 0 .. SyncTry - 1 /\ mishaps \in 0 .. MaxMishaps
    OBVIOUS
  <2> QED BY <2>1, <2>3, <2>4, <2>5 DEF DeployTypeOK
<1>3. OwnBoot
  BY DEF Init, OwnBoot
<1>4. GroupsServe /\ OwnMac /\ OwnFile /\ InstalledAsScheduled
  BY DEF GroupsServe, SyncStart, OwnMac, OwnFile, InstalledAsScheduled, Installed
<1> QED BY <1>1, <1>2, <1>3, <1>4 DEF DeployInv

LEMMA GroupsServeStep ==
  ASSUME DeployInv, DeployTypeOK', CardsStayHome, [DeployNext]_deployVars
  PROVE  GroupsServe'
<1>1. \A mac, roles : Serves(mac, roles) /\ roles # {} => Serves(mac, roles)'
  BY DeployStepRefines, TiersStay DEF DeployInv
<1>2. sync.roles \in {CPRoles, NodeRoles} /\ CPRoles # {} /\ NodeRoles # {}
  BY Roles DEF DeployInv, DeployTypeOK, SyncState
<1>3. \A file \in Files : file[1] # {}
  BY Roles DEF Files
<1> DEFINE FilesServe == \A file \in Files :
                           groups[file] # NoGroup => Serves(groups[file].mac, file[1])
           SyncServes == /\ \A mac \in sync.rest : Serves(mac, sync.roles)
                         /\ sync.group # NoGroup => Serves(sync.group.mac, sync.roles)
<1>4. SUFFICES FilesServe' /\ SyncServes'
  BY DEF GroupsServe
<1>5. FilesServe /\ SyncServes
  BY DEF DeployInv, GroupsServe
<1>6. groups' = groups => FilesServe'
  BY <1>1, <1>3, <1>5
<1>7. sync' = sync => SyncServes'
  BY <1>1, <1>2, <1>5
<1>8. SyncStart.rest = {} /\ SyncStart.group = NoGroup
  BY DEF SyncStart
<1>9. sync' = SyncStart => SyncServes'
  BY <1>8
<1>10. \A roles : sync' = NextTier(roles) => SyncServes'
  BY DEF NextTier, SyncStart
<1>11. ASSUME NEW mac, Written(mac) PROVE SyncServes'
  <2>1. CASE sync' = NextTier(sync.roles)
    BY <1>10, <2>1
  <2>2. CASE sync' = [sync EXCEPT !.step = "open", !.rest = sync.rest \ {mac}, !.group = NoGroup]
    <3>1. sync'.rest \subseteq sync.rest /\ sync'.group = NoGroup /\ sync'.roles = sync.roles
      BY <2>2 DEF DeployInv, DeployTypeOK, SyncState
    <3> QED BY <1>1, <1>2, <1>5, <3>1
  <2> QED BY <1>11, <2>1, <2>2 DEF Written
<1>12. CASE SyncList
  <2> DEFINE macs == {boot[m] : m \in Holding(sync.roles)}
  <2>1. \A mac \in macs : Serves(mac, sync.roles)
    BY <1>2, <1>12, ListServes DEF SyncList, DeployInv
  <2>2. CASE sync' = NextTier(sync.roles)
    BY <1>6, <1>10, <1>12, <2>2 DEF SyncList
  <2>3. CASE sync' = [sync EXCEPT !.step = "open", !.list = macs, !.rest = macs]
    <3>1. sync'.rest = macs /\ sync'.group = sync.group /\ sync'.roles = sync.roles
      BY <2>3 DEF DeployInv, DeployTypeOK, SyncState
    <3> HIDE DEF macs
    <3>2. SyncServes'
      BY <1>1, <1>2, <1>5, <2>1, <3>1
    <3> QED BY <1>6, <1>12, <3>2 DEF SyncList
  <2> QED BY <1>12, <2>2, <2>3 DEF SyncList
<1>13. CASE SyncOpen
  <2>1. PICK mac \in sync.rest, members \in IpLists :
          LET group == [mac |-> mac, members |-> members]
          IN  \/ Written(mac) /\ groups' = groups
              \/ /\ groups' = [groups EXCEPT ![CurrentFile] = NoGroup]
                 /\ sync' = [sync EXCEPT !.step = "write", !.group = group]
    BY <1>13 DEF SyncOpen
  <2>2. CASE Written(mac) /\ groups' = groups
    BY <1>6, <1>11, <2>2
  <2>3. CASE /\ groups' = [groups EXCEPT ![CurrentFile] = NoGroup]
             /\ sync' = [sync EXCEPT !.step = "write",
                                     !.group = [mac |-> mac, members |-> members]]
    <3>1. /\ sync'.rest = sync.rest /\ sync'.roles = sync.roles
          /\ sync'.group = [mac |-> mac, members |-> members]
      BY <2>3 DEF DeployInv, DeployTypeOK, SyncState
    <3>2. SyncServes'
      BY <1>1, <1>2, <1>5, <3>1
    <3>3. \A file \in Files : groups'[file] \in {groups[file], NoGroup}
      BY <2>3 DEF DeployInv, DeployTypeOK
    <3> QED BY <1>1, <1>3, <1>5, <3>2, <3>3
  <2> QED BY <2>1, <2>2, <2>3
<1>14. CASE SyncWrite
  <2>1. SyncServes'
    BY <1>11, <1>14 DEF SyncWrite
  <2>2. \A file \in Files : \/ groups'[file] = groups[file]
                            \/ file = CurrentFile /\ groups'[file] = sync.group
    BY <1>14 DEF SyncWrite, DeployInv, DeployTypeOK
  <2>3. CurrentFile[1] = sync.roles
    BY DEF CurrentFile
  <2> QED BY <1>1, <1>2, <1>3, <1>5, <2>1, <2>2, <2>3
<1>15. CASE GroupsLost
  BY <1>7, <1>15 DEF GroupsLost, Mishap
<1>16. ASSUME UNCHANGED siteVars PROVE FilesServe' /\ SyncServes'
  BY <1>6, <1>7, <1>16 DEF siteVars
<1>17. ASSUME NEW m \in Uuids, InstallerStep(m) PROVE groups' = groups /\ sync' = sync
  BY <1>17 DEF InstallerStep, Report, CheckRole, Fetch, Ask, Install
<1>18. ASSUME NEW m \in Uuids, PowerCycle(m) \/ ReportLost(m) \/ InstallFails(m)
       PROVE  groups' = groups /\ sync' = sync
  BY <1>18 DEF PowerCycle, ReportLost, InstallFails, Mishap
<1>19. CASE SyncNotify \/ SyncQueryFails \/ PlanCrashHere \/ SyncRequestFails
  BY <1>6, <1>9, <1>19 DEF SyncNotify, SyncQueryFails, PlanCrashHere, SyncRequestFails,
     SyncException
<1>20. CASE LockExpires \/ NotifyExpires
  BY <1>6, <1>7, <1>20 DEF LockExpires, NotifyExpires, Mishap
<1> HIDE DEF FilesServe, SyncServes
<1> QED
  BY <1>6, <1>7, <1>12, <1>13, <1>14, <1>15, <1>16, <1>17, <1>18, <1>19, <1>20
  DEF DeployNext, PlanStepHere, SyncSteps, ApiStepHere, deployVars

LEMMA DeployInvStep ==
  ASSUME OneWorker, CardsStayHome, BootsAtHome, DeployInv, [DeployNext]_deployVars
  PROVE  DeployInv'
<1>1. IInv'
  BY DeployStepRefines, IInvStep DEF DeployInv
<1>2. DeployTypeOK'
  BY DeployTypeStep DEF DeployInv, IInv
<1>3. OwnBoot'
  BY DeployStepRefines, OwnBootStep DEF DeployInv, IInv
<1>4. GroupsServe'
  BY <1>2, GroupsServeStep
<1> DEFINE Same(m) == installer'[m] = installer[m] /\ disk'[m] = disk[m]
           Mine(m) ==
             /\ installer[m].mac # NoMac => \E r \in Reports : r.uuid = m /\ r.boot = installer[m].mac
             /\ installer[m].file # NoIgnition => installer[m].file.roles = rows[m]
             /\ disk[m] # NoIgnition => disk[m].roles = rows[m]
<1>5. SUFFICES \A m \in Uuids : Mine(m)'
  BY <1>1, <1>2, <1>3, <1>4 DEF DeployInv, OwnMac, OwnFile, InstalledAsScheduled, Installed
<1>6. \A m \in Uuids : Mine(m)
  BY DEF DeployInv, OwnMac, OwnFile, InstalledAsScheduled, Installed
<1>7. /\ installer \in [Uuids -> InstallerState] /\ disk \in [Uuids -> Ignition \cup {NoIgnition}]
      /\ \A m \in Uuids : /\ installer[m] \in InstallerState
                          /\ rows[m] # {} => rows'[m] = rows[m]
  BY DeployStepRefines, TiersStay DEF DeployInv, DeployTypeOK
<1>8. \A ignition \in Ignition : ignition.roles # {}
  BY Roles DEF Ignition
<1>9. ASSUME NEW m \in Uuids, Same(m) PROVE Mine(m)'
  BY <1>6, <1>7, <1>8, <1>9 DEF InstallerState
<1>10. (installer' = installer /\ disk' = disk) => \A m \in Uuids : Mine(m)'
  BY <1>9
<1>11. ASSUME NEW m \in Uuids, InstallerStep(m) PROVE \A n \in Uuids : Mine(n)'
  <2>1. \A n \in Uuids \ {m} : Same(n)
    BY <1>7, <1>11 DEF InstallerStep, Report, CheckRole, Fetch, Ask, Install, GoTo
  <2>2. SUFFICES Mine(m)'
    BY <1>9, <2>1
  <2>3. CASE Report(m)
    <3>1. PICK r \in Reports :
            /\ r.uuid = m
            /\ installer' = [installer EXCEPT ![m].step = "role", ![m].mac = r.boot]
      BY <2>3 DEF Report
    <3>2. /\ installer'[m].mac = r.boot /\ installer'[m].file = installer[m].file
          /\ disk'[m] = disk[m]
      BY <1>7, <2>3, <3>1 DEF Report, InstallerState
    <3> QED BY <1>6, <1>7, <1>8, <3>1, <3>2 DEF InstallerState
  <2>4. CASE CheckRole(m) \/ Ask(m)
    <3>1. /\ installer'[m].mac = installer[m].mac /\ installer'[m].file = installer[m].file
          /\ disk'[m] = disk[m]
      BY <1>7, <2>4 DEF CheckRole, Ask, GoTo, InstallerState
    <3> QED BY <1>6, <1>7, <1>8, <3>1 DEF InstallerState
  <2>5. CASE Fetch(m)
    <3>1. CASE GoTo(m, "role")
      <4>1. /\ installer'[m].mac = installer[m].mac /\ installer'[m].file = installer[m].file
            /\ disk'[m] = disk[m]
        BY <1>7, <2>5, <3>1 DEF Fetch, GoTo, InstallerState
      <4> QED BY <1>6, <1>7, <1>8, <4>1 DEF InstallerState
    <3>2. ASSUME NEW file \in Selecting(installer[m].mac),
                 installer' = [installer EXCEPT
                   ![m].step = "ask",
                   ![m].file = [roles |-> file[1], members |-> groups[file].members]]
          PROVE  Mine(m)'
      <4>1. /\ installer'[m].mac = installer[m].mac /\ installer'[m].file.roles = file[1]
            /\ disk'[m] = disk[m] /\ rows' = rows
        <5> DEFINE taken == [roles |-> file[1], members |-> groups[file].members]
        <5>1. taken.roles = file[1]
          OBVIOUS
        <5>2. installer' = [installer EXCEPT ![m].step = "ask", ![m].file = taken]
          BY <3>2
        <5> HIDE DEF taken
        <5>3. installer'[m].mac = installer[m].mac /\ installer'[m].file = taken
          BY <1>7, <5>2 DEF InstallerState
        <5> QED BY <2>5, <5>1, <5>3 DEF Fetch, vars
      <4>2. Serves(installer[m].mac, file[1])
        BY DEF Selecting, DeployInv, GroupsServe
      <4>3. installer[m].mac # NoMac
        BY MacsAreNumbers DEF Selecting, DeployInv, DeployTypeOK, Group
      <4>4. rows[m] = file[1]
        BY <1>6, <4>2, <4>3 DEF Serves, BootsAtHome
      <4> QED BY <1>6, <1>7, <1>8, <4>1, <4>4 DEF InstallerState
    <3> QED BY <2>5, <3>1, <3>2 DEF Fetch
  <2>6. CASE Install(m)
    <3>1. /\ installer'[m].mac = installer[m].mac /\ installer'[m].file = installer[m].file
          /\ disk'[m] = installer[m].file /\ rows' = rows
      BY <1>7, <2>6 DEF Install, GoTo, InstallerState, vars
    <3> QED BY <1>6, <1>7, <1>8, <3>1 DEF InstallerState
  <2> QED BY <1>11, <2>3, <2>4, <2>5, <2>6 DEF InstallerStep
<1>12. ASSUME NEW m \in Uuids, PowerCycle(m) \/ ReportLost(m) \/ InstallFails(m)
       PROVE  \A n \in Uuids : Mine(n)'
  <2>1. disk' = disk /\ rows' = rows
    BY <1>12 DEF PowerCycle, ReportLost, InstallFails, Mishap, vars
  <2>2. \A n \in Uuids \ {m} : Same(n)
    BY <1>7, <1>12, <2>1 DEF PowerCycle, ReportLost, InstallFails, GoTo
  <2>3. SUFFICES Mine(m)'
    BY <1>9, <2>2
  <2>4. CASE PowerCycle(m)
    <3>1. installer'[m].mac = NoMac /\ installer'[m].file = NoIgnition
      BY <1>7, <2>4 DEF PowerCycle
    <3> QED BY <1>6, <2>1, <3>1
  <2>5. CASE ReportLost(m)
    <3>1. PICK r \in Reports :
            /\ r.uuid = m
            /\ installer' = [installer EXCEPT ![m].step = "role", ![m].mac = r.boot]
      BY <2>5 DEF ReportLost
    <3>2. installer'[m].mac = r.boot /\ installer'[m].file = installer[m].file
      BY <1>7, <3>1 DEF InstallerState
    <3> QED BY <1>6, <2>1, <3>1, <3>2
  <2>6. CASE InstallFails(m)
    <3>1. installer'[m].mac = installer[m].mac /\ installer'[m].file = installer[m].file
      BY <1>7, <2>6 DEF InstallFails, GoTo, InstallerState
    <3> QED BY <1>6, <2>1, <3>1
  <2> QED BY <1>12, <2>4, <2>5, <2>6
<1>13. ASSUME ~\E m \in Uuids : InstallerStep(m),
              ~\E m \in Uuids : PowerCycle(m) \/ ReportLost(m) \/ InstallFails(m)
       PROVE  installer' = installer /\ disk' = disk
  BY <1>13 DEF DeployNext, PlanStepHere, SyncSteps, SyncList, SyncOpen, SyncWrite, SyncNotify,
     SyncQueryFails, SyncException, ApiStepHere, PlanCrashHere, SyncRequestFails, LockExpires,
     NotifyExpires, GroupsLost, Mishap, siteVars, deployVars
<1> QED BY <1>10, <1>11, <1>12, <1>13

(* However the sync moves the group files around while the installers read *)
(* them: a file serves the tier it is named after, and an ignition that an *)
(* installer holds is of the tier of its machine.                          *)
THEOREM GroupsServeTheirTier ==
  ASSUME OneWorker, CardsStayHome, BootsAtHome
  PROVE  DeploySpec => []DeployInv
<1>1. DeployInv /\ [DeployNext]_deployVars => DeployInv'
  BY DeployInvStep
<1> QED BY DeployInvInit, <1>1, PTL DEF DeploySpec

(* So a machine whose disk is written is written for its own tier,         *)
(* whatever fails on the way.                                              *)
THEOREM MachinesInstalledAsScheduled ==
  ASSUME OneWorker, CardsStayHome, BootsAtHome
  PROVE  DeploySpec => []InstalledAsScheduled
<1>1. DeployInv => InstalledAsScheduled
  BY DEF DeployInv
<1> QED BY <1>1, GroupsServeTheirTier, PTL

-----------------------------------------------------------------------------
(* The pod networks.                                                       *)

\* Blocks of the same size, one per number, that do not overlap.
LEMMA BlocksAreApart ==
  ASSUME NEW a \in Nat, NEW b \in Nat, NEW size \in Nat, a < b
  PROVE  a * size + size <= b * size
<1>1. PICK k \in Nat : b = a + 1 + k
  <2>1. b - a - 1 \in Nat /\ b = a + 1 + (b - a - 1)
    OBVIOUS
  <2> QED BY <2>1
<1>2. b * size = a * size + size + k * size
  BY <1>1
<1>3. k * size \in Nat /\ a * size \in Nat
  OBVIOUS
<1> QED BY <1>2, <1>3

\* An address is in its network.
LEMMA NetworkHolds ==
  ASSUME NEW c \in Cidr
  PROVE  NetworkOf(c) \in Int /\ c.ip \in Subnet(c)
<1>1. c.ip \in Nat /\ c.size \in Nat \ {0}
  BY DEF Cidr
<1>2. c.ip % c.size \in 0 .. c.size - 1
  BY <1>1
<1> QED BY <1>1, <1>2 DEF NetworkOf, Subnet

\* Addresses that fit give two machines pods of their own.
LEMMA FittingAddresses ==
  ASSUME NEW cidrs \in SUBSET Cidr, AddressesFit(cidrs),
         NEW c \in cidrs, NEW d \in cidrs, c # d
  PROVE  PodsHaveTheirOwn(c, d)
<1>1. /\ c.ip \in Nat /\ d.ip \in Nat
      /\ c.size \in Nat \ {0} /\ d.size = c.size
      /\ SubIps \in Nat /\ SkipIps \in Nat /\ RangeNbIps \in Nat
  BY SubIpsIsPower, RangeIsNatural DEF Cidr, AddressesFit
<1>2. PICK network \in Int : /\ network = NetworkOf(c) /\ network = NetworkOf(d)
                             /\ network <= c.ip /\ c.ip < network + c.size
                             /\ network <= d.ip /\ d.ip < network + c.size
  BY <1>1, NetworkHolds DEF AddressesFit, Subnet
<1>3. CASE SubIps > 0
  <2> DEFINE x == LastDecimalField(c.ip)  y == LastDecimalField(d.ip)
  <2>1. x \in Nat /\ y \in Nat /\ 0 < x /\ 0 < y /\ x # y
    BY <1>1, <1>3 DEF AddressesFit, BlocksFit, LastDecimalField
  <2>2. /\ RangeNbIps + SkipIps < SubIps
        /\ c.ip < network + SubIps /\ d.ip < network + SubIps
        /\ (x + 1) * SubIps <= c.size /\ (y + 1) * SubIps <= c.size
    BY <1>1, <1>2, <1>3 DEF AddressesFit, BlocksFit
  <2>3. PICK p \in Nat, q \in Nat : /\ p = x * SubIps /\ q = y * SubIps
    BY <1>1, <2>1
  <2>4. SubIps <= p /\ SubIps <= q
    BY <1>1, <2>1, <2>3, BlocksAreApart, 0 * SubIps = 0, 0 \in Nat
  <2>5. p + SubIps <= q \/ q + SubIps <= p
    BY <1>1, <2>1, <2>3, BlocksAreApart
  <2>6. p + SubIps <= c.size /\ q + SubIps <= c.size
    BY <1>1, <2>1, <2>2, <2>3
  <2>7. FirstIp(c) = network + p /\ FirstIp(d) = network + q
    BY <1>2, <1>3, <2>3 DEF FirstIp
  <2> HIDE DEF x, y
  <2> QED
    BY <1>1, <1>2, <2>2, <2>4, <2>5, <2>6, <2>7
    DEF PodsHaveTheirOwn, PodIps, RangeStart, RangeEnd, Subnet
<1>4. CASE ~(SubIps > 0)
  <2>1. FirstIp(c) = c.ip /\ FirstIp(d) = d.ip
    BY <1>4 DEF FirstIp
  <2>2. GapsFit(cidrs)
    BY <1>4 DEF AddressesFit
  <2>3. /\ SkipIps > 0
        /\ c.ip + SkipIps + RangeNbIps < network + c.size
        /\ c.ip < d.ip => c.ip + SkipIps + RangeNbIps < d.ip
        /\ d.ip < c.ip => d.ip + SkipIps + RangeNbIps < c.ip
        /\ c.ip # d.ip
    BY <1>2, <2>2 DEF GapsFit
  <2> QED
    BY <1>1, <1>2, <2>1, <2>3 DEF PodsHaveTheirOwn, PodIps, RangeStart, RangeEnd, Subnet
<1> QED BY <1>3, <1>4

\* An installed machine has ended its installer, which knows its interface.
InstalledKnown == \A m \in Uuids :
  /\ disk[m] # NoIgnition => At(m, "done")
  /\ ~At(m, "boot") => installer[m].mac # NoMac

LEMMA KnownInit == DeployInit => InstalledKnown
  BY DEF DeployInit, InstalledKnown, At

LEMMA KnownStep ==
  DeployTypeOK /\ InstalledKnown /\ [DeployNext]_deployVars => InstalledKnown'
<1> SUFFICES ASSUME DeployTypeOK, InstalledKnown, [DeployNext]_deployVars
             PROVE  InstalledKnown'
  OBVIOUS
<1> USE DEF InstalledKnown, At, DeployTypeOK, InstallerState
<1>1. ASSUME UNCHANGED <<installer, disk>> PROVE InstalledKnown'
  BY <1>1
<1>2. CASE PlanStepHere
  BY <1>1, <1>2 DEF PlanStepHere, SyncSteps, SyncList, SyncOpen, SyncWrite, SyncNotify,
     SyncQueryFails, SyncException, siteVars
<1>3. CASE ApiStepHere \/ PlanCrashHere \/ SyncRequestFails
  BY <1>1, <1>3 DEF ApiStepHere, PlanCrashHere, SyncRequestFails, SyncException, siteVars
\* The others stay as they are.
<1>0. ASSUME NEW m \in Uuids, NEW next, installer' = [installer EXCEPT ![m] = next],
             ~At(m, "done"), next.step # "boot" => next.mac # NoMac,
             \A n \in Uuids \ {m} : disk'[n] = disk[n],
             disk'[m] # NoIgnition => disk'[m] = disk[m] \/ next.step = "done"
      PROVE  InstalledKnown'
  <2> SUFFICES ASSUME NEW n \in Uuids
               PROVE  /\ disk'[n] # NoIgnition => installer'[n].step = "done"
                      /\ installer'[n].step # "boot" => installer'[n].mac # NoMac
    OBVIOUS
  <2>1. CASE n = m
    BY <1>0, <2>1
  <2>2. CASE n # m
    BY <1>0, <2>2
  <2> QED BY <2>1, <2>2
<1>4. ASSUME NEW m \in Uuids, InstallerStep(m) PROVE InstalledKnown'
  <2>1. CASE Report(m)
    <3>1. PICK r \in Reports : r.uuid = m /\
            installer' = [installer EXCEPT ![m].step = "role", ![m].mac = r.boot]
      BY <2>1 DEF Report
    <3>2. r.boot # NoMac
      BY ReportsAreFacts, MacsAreNumbers
    <3> QED BY <2>1, <3>1, <3>2, <1>0 DEF Report
  <2>2. CASE CheckRole(m) \/ Ask(m)
    BY <2>2, <1>0 DEF CheckRole, Ask, GoTo
  <2>3. CASE Fetch(m)
    BY <2>3, <1>0 DEF Fetch, GoTo
  <2>4. CASE Install(m)
    BY <2>4, <1>0 DEF Install, GoTo
  <2> QED BY <1>4, <2>1, <2>2, <2>3, <2>4 DEF InstallerStep
<1>5. CASE LockExpires \/ NotifyExpires \/ GroupsLost
  BY <1>1, <1>5 DEF LockExpires, NotifyExpires, GroupsLost, Mishap
<1>6. ASSUME NEW m \in Uuids, PowerCycle(m) \/ ReportLost(m) \/ InstallFails(m)
      PROVE  InstalledKnown'
  <2>1. CASE PowerCycle(m)
    BY <2>1, <1>0 DEF PowerCycle, Mishap
  <2>2. CASE ReportLost(m)
    <3>1. PICK r \in Reports : r.uuid = m /\
            installer' = [installer EXCEPT ![m].step = "role", ![m].mac = r.boot]
      BY <2>2 DEF ReportLost
    <3>2. r.boot # NoMac
      BY ReportsAreFacts, MacsAreNumbers
    <3> QED BY <2>2, <3>1, <3>2, <1>0 DEF ReportLost, Mishap
  <2>3. CASE InstallFails(m)
    BY <2>3, <1>0 DEF InstallFails, Mishap, GoTo
  <2> QED BY <1>6, <2>1, <2>2, <2>3
<1>7. CASE UNCHANGED deployVars
  BY <1>1, <1>7 DEF deployVars, siteVars
<1> QED BY <1>2, <1>3, <1>4, <1>5, <1>6, <1>7 DEF DeployNext

(* However many machines are installed in whatever order, and whichever    *)
(* interface they booted from: with addresses laid out for it, the pods of *)
(* each have addresses of the network that no other machine has or gives.  *)
THEOREM PodsAreApart ==
  ASSUME OneWorker, CardsStayHome, BootsAtHome, AddressPlan
  PROVE  DeploySpec => []PodsApart
<1>1. DeployInv => DeployTypeOK
  BY DEF DeployInv
<1>2. DeployInv /\ InstalledKnown => PodsApart
  <2> SUFFICES ASSUME DeployInv, InstalledKnown,
                      NEW m \in Installed, NEW n \in Installed, m # n
               PROVE  PodsHaveTheirOwn(CidrOf[installer[m].mac], CidrOf[installer[n].mac])
    BY DEF PodsApart
  <2>1. m \in Uuids /\ n \in Uuids /\ installer[m].mac # NoMac /\ installer[n].mac # NoMac
    BY DEF Installed, InstalledKnown, At
  <2>2. PICK r \in Reports : r.uuid = m /\ r.boot = installer[m].mac
    BY <2>1 DEF DeployInv, OwnMac
  <2>3. PICK s \in Reports : s.uuid = n /\ s.boot = installer[n].mac
    BY <2>1 DEF DeployInv, OwnMac
  <2>4. CidrOf[r.boot] # CidrOf[s.boot]
    BY <2>2, <2>3 DEF AddressPlan
  <2>5. BootCidrs \in SUBSET Cidr
    BY LeasesAreStatic, ReportsAreFacts DEF BootCidrs
  <2>6. CidrOf[r.boot] \in BootCidrs /\ CidrOf[s.boot] \in BootCidrs
    BY DEF BootCidrs
  <2> QED BY <2>2, <2>3, <2>4, <2>5, <2>6, FittingAddresses DEF AddressPlan
<1> QED
  BY <1>1, <1>2, GroupsServeTheirTier, KnownInit, KnownStep, PTL DEF DeploySpec
=============================================================================

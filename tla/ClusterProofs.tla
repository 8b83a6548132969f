---------------------------- MODULE ClusterProofs ----------------------------
(***************************************************************************)
(* Proofs about the etcd members that machines are installed with (module  *)
(* Deployment), for machines that report the same facts at every discovery *)
(* and no HTTP error that the plan takes for a success: the lists of       *)
(* members are made while the control plane is complete, and it stays as   *)
(* it is from then on.                                                     *)
(***************************************************************************)
EXTENDS DeploymentProofs

-----------------------------------------------------------------------------
(* The machines of a tier keep their interfaces.                           *)

\* A machine that has a boot interface has it from its report.
OwnReport == \A m \in Uuids : boot[m] # NoMac =>
  \E r \in Reports : r.uuid = m /\ boot[m] = r.boot /\ r.boot \in r.nics /\ nics[m] = r.nics

\* The MAC belongs to a machine that has a boot interface.
OfBootable(mac) == \E m \in Uuids : mac \in nics[m] /\ boot[m] # NoMac

\* Only machines with a boot interface are listed, so only they are asked for
\* and get a tier.
BootInv ==
  /\ OwnReport
  /\ \A mac \in todo : OfBootable(mac)
  /\ \A w \in Workers : handler[w] # Idle => OfBootable(handler[w].mac)
  /\ \A m \in Uuids : rows[m] # {} => boot[m] # NoMac

LEMMA OnlyDiscoverReports ==
  ASSUME [Next]_vars, ~\E r \in Reports : Discover(r)
  PROVE  nics' = nics /\ boot' = boot
BY DEF Next, PlanStep, Start, CpQuery, CpFetch, NodeQuery, NodeQueryFails, NodeFetch, Sync,
       Affect, Handle, WorkerLost, HttpErrorOnPost, PlanCrash, Refused, HttpErrorOnGet, api, vars

LEMMA InterfacesStay ==
  ASSUME TypeOK, SameFacts, OwnReport, [Next]_vars
  PROVE  /\ \A m \in Uuids : boot[m] # NoMac => boot'[m] = boot[m] /\ nics'[m] = nics[m]
         /\ \A mac : OfBootable(mac) => OfBootable(mac)'
<1>1. ASSUME NEW m \in Uuids, boot[m] # NoMac
      PROVE  boot'[m] = boot[m] /\ nics'[m] = nics[m]
  <2>1. CASE \E r \in Reports : Discover(r)
    <3>1. PICK r \in Reports : Discover(r)
      BY <2>1
    <3>2. PICK s \in Reports : /\ s.uuid = m /\ boot[m] = s.boot /\ s.boot \in s.nics
                               /\ nics[m] = s.nics
      BY <1>1 DEF OwnReport
    <3>3. CASE r.uuid = m
      <4>1. r = s
        BY <3>2, <3>3 DEF SameFacts
      <4> QED BY <3>1, <3>2, <4>1 DEF Discover, Reported, TypeOK
    <3>4. CASE r.uuid # m
      BY <3>1, <3>4 DEF Discover, Reported, TypeOK
    <3> QED BY <3>3, <3>4
  <2>2. CASE ~\E r \in Reports : Discover(r)
    BY <2>2, OnlyDiscoverReports
  <2> QED BY <2>1, <2>2
<1> QED BY <1>1 DEF OfBootable

LEMMA OwnReportStep == TypeOK /\ SameFacts /\ OwnReport /\ [Next]_vars => OwnReport'
<1> SUFFICES ASSUME TypeOK, SameFacts, OwnReport, [Next]_vars PROVE OwnReport'
  OBVIOUS
<1>1. ASSUME NEW r \in Reports, Discover(r) PROVE OwnReport'
  <2> SUFFICES ASSUME NEW m \in Uuids, boot'[m] # NoMac
               PROVE  \E s \in Reports : /\ s.uuid = m /\ boot'[m] = s.boot /\ s.boot \in s.nics
                                         /\ nics'[m] = s.nics
    BY DEF OwnReport
  <2>1. CASE r.uuid = m
    BY <1>1, <2>1 DEF Discover, Reported, TypeOK
  <2>2. CASE r.uuid # m
    BY <1>1, <2>2 DEF Discover, Reported, TypeOK, OwnReport
  <2> QED BY <2>1, <2>2
<1> QED BY <1>1, OnlyDiscoverReports DEF OwnReport

LEMMA BootInit == Init => BootInv
  BY DEF Init, BootInv, OwnReport

LEMMA BootStep ==
  ASSUME CardsStayHome, SameFacts, IInv, BootInv, [Next]_vars
  PROVE  BootInv'
<1> USE DEF BootInv
<1>1. TypeOK /\ OwnReport' /\ KnownCards
  BY OwnReportStep DEF IInv
<1>2. /\ \A m \in Uuids : boot[m] # NoMac => boot'[m] # NoMac
      /\ \A mac : OfBootable(mac) => OfBootable(mac)'
  BY <1>1, InterfacesStay
<1>3. \A mac \in todo' : OfBootable(mac)'
  <2>1. ASSUME NEW listing \in Listings, NEW mac \in listing PROVE OfBootable(mac)
    <3>1. PICK pick \in [Available -> Macs] :
            /\ \A m \in Available : pick[m] \in nics[m]
            /\ listing = {pick[m] : m \in Available}
      BY DEF Listings
    <3>2. PICK m \in Available : mac = pick[m]
      BY <3>1, <2>1
    <3> QED BY <3>1, <3>2 DEF Available, OfBootable
  <2>2. \/ todo' \subseteq todo
        \/ \E listing \in Listings : todo' \subseteq listing
    BY DEF Next, PlanStep, Start, CpQuery, CpFetch, NodeFetch, NodeQuery, NodeQueryFails,
       NodeException, Sync, Affect, Handle, Answer, WorkerLost, ConnectionError, HttpErrorOnPost,
       PlanCrash, Refused, SyncTriesAgain, HttpErrorOnGet, Discover, Reported, plan, vars
  <2> QED BY <1>2, <2>1, <2>2
<1>4. ASSUME NEW w \in Workers, handler'[w] # Idle PROVE OfBootable(handler[w].mac)'
  <2>1. CASE \E v \in Workers : Affect(v)
    <3>1. PICK v \in Workers, mac \in todo :
            handler' = [handler EXCEPT ![v] =
                          [mac |-> mac, roles |-> Affecting[pc], client |-> "plan"]]
      BY <2>1 DEF Affect
    <3>2. handler'[w] = handler[w] \/ handler'[w].mac = mac
      BY <1>1, <3>1 DEF TypeOK
    <3> QED BY <1>2, <1>4, <3>1, <3>2
  <2>2. CASE PlanCrash
    <3>1. handler[w] # Idle /\ handler'[w].mac = handler[w].mac
      BY <1>1, <1>4, <2>2 DEF PlanCrash, TypeOK, Request
    <3> QED BY <1>2, <3>1
  <2>3. CASE ~PlanCrash /\ \A v \in Workers : ~Affect(v)
    <3>1. handler'[w] = handler[w]
      BY <1>1, <1>4, <2>3
      DEF Next, PlanStep, Start, CpQuery, CpFetch, NodeFetch, NodeQuery, NodeQueryFails, Sync,
          Handle, WorkerLost, HttpErrorOnPost, Refused, HttpErrorOnGet, Discover, Reported, TypeOK,
          vars
    <3> QED BY <1>2, <1>4, <3>1
  <2> QED BY <2>1, <2>2, <2>3
<1>5. ASSUME NEW m \in Uuids, rows'[m] # {} PROVE boot'[m] # NoMac
  <2>1. CASE rows[m] # {}
    BY <1>2, <2>1
  <2>2. CASE rows[m] = {}
    <3>1. PICK w \in Workers : handler[w] # Idle /\ CreateSchedule(handler[w])
      BY <1>5, <2>2
      DEF Next, PlanStep, Discover, Reported, Start, CpQuery, CpFetch, NodeQuery, NodeQueryFails,
          NodeFetch, Sync, Affect, Handle, WorkerLost, HttpErrorOnPost, PlanCrash, Refused,
          HttpErrorOnGet, api, vars
    <3>2. handler[w].mac \in nics[m]
      BY <1>5, <2>2, <3>1 DEF CreateSchedule
    <3>3. PICK n \in Uuids : handler[w].mac \in nics[n] /\ boot[n] # NoMac
      BY <3>1 DEF OfBootable
    <3>4. n = m
      BY <1>1, <3>2, <3>3 DEF KnownCards, CardsStayHome
    <3> QED BY <1>2, <3>3, <3>4
  <2> QED BY <2>1, <2>2
<1> QED BY <1>1, <1>3, <1>4, <1>5

(* A machine that is scheduled keeps a boot interface, so the queries of a *)
(* tier, which fail on a machine without one, never do: the plan, its sync *)
(* and GET /scheduler only stop at facts that change.                      *)
THEOREM QueriesSucceed ==
  ASSUME OneWorker, CardsStayHome, SameFacts
  PROVE  Spec => [](\A roles \in {CPRoles, NodeRoles} : ~QueryFails(roles))
<1>1. IInv /\ BootInv /\ [Next]_vars => IInv' /\ BootInv'
  BY IInvStep, BootStep
<1>2. BootInv => \A roles \in {CPRoles, NodeRoles} : ~QueryFails(roles)
  BY Roles DEF BootInv, QueryFails, Holding, NodeRoles
<1> QED BY <1>1, <1>2, IInvInit, BootInit, PTL DEF Spec

-----------------------------------------------------------------------------
(* A complete control plane stays as it is.                                *)

\* The control plane is complete, and nobody is about to add to it.
Settled ==
  /\ Cardinality(ControlPlane) >= ExpectedNb
  /\ pc \notin {"cp_fetch", "cp_affect", "cp_wait"}
  /\ \A w \in Workers : handler[w] # Idle => handler[w].roles # CPRoles

LEMMA SyncIsSettled == OrderInv /\ pc = "sync" => Settled
  BY DEF OrderInv, IInv, EnoughMembers, InFlight, TypeOK, Request, WaitOf, Settled

LEMMA SettledStep ==
  ASSUME CardsStayHome, IInv, Settled, [Next]_vars
  PROVE  Settled' /\ ControlPlane' = ControlPlane
<1> USE DEF Settled
<1>1. TypeOK /\ KnownCards /\ Cardinality(ControlPlane) \in Nat
  BY Counts DEF IInv
\* Only a node can be added.
<1>2. ControlPlane' = ControlPlane
  <2>1. CASE rows' = rows
    BY <2>1, SameRows
  <2>2. ASSUME NEW w \in Workers, handler[w] # Idle, CreateSchedule(handler[w])
        PROVE  ControlPlane' = ControlPlane
    <3>1. /\ handler[w] \in Request /\ Untiered(handler[w].mac)
          /\ handler[w].roles = NodeRoles
      BY <1>1, <2>2 DEF IInv, InFlight, TypeOK, Request
    <3>2. ASSUME NEW m \in Uuids, rows[m] = {}, rows' = [rows EXCEPT ![m] = NodeRoles]
          PROVE  ControlPlane' = ControlPlane
      <4>1. ControlPlane' = {n \in Uuids : rows'[n] = CPRoles}
        BY Roles DEF ControlPlane, Holding
      <4> QED BY <1>1, <3>2, <4>1, Roles DEF TypeOK
    <3> QED BY <1>1, <2>1, <2>2, <3>1, <3>2, Commit
  <2> QED BY <2>1, <2>2
    DEF Next, PlanStep, Discover, Reported, Start, CpQuery, CpFetch, NodeQuery, NodeQueryFails,
        NodeFetch, Sync, Affect, Handle, WorkerLost, HttpErrorOnPost, PlanCrash, Refused,
        HttpErrorOnGet, api, vars
<1> USE DEF Go
<1>3. CASE PlanStep
  <2>1. CASE CpQuery
    <3>1. ~TooFewMembers
      BY <1>1, ExpectedNbIsPositive DEF TooFewMembers, ControlPlane
    <3> QED BY <1>2, <2>1, <3>1 DEF CpQuery
  <2>2. ASSUME NEW w \in Workers, Affect(w) PROVE Settled'
    <3>1. pc = "node_affect" /\ pc' = "node_wait"
      BY <2>2, Roles DEF Affect, Affecting, WaitOf
    <3>2. PICK mac \in todo :
            handler' = [handler EXCEPT ![w] =
                          [mac |-> mac, roles |-> NodeRoles, client |-> "plan"]]
      BY <2>2, <3>1 DEF Affect, Affecting
    <3> QED BY <1>1, <1>2, <3>1, <3>2, Roles DEF TypeOK
  <2>3. CASE Start \/ NodeQuery \/ NodeQueryFails \/ NodeFetch \/ Sync
    BY <1>2, <2>3 DEF Start, NodeQuery, NodeQueryFails, NodeException, NodeFetch, Sync
  <2> QED BY <1>2, <1>3, <2>1, <2>2, <2>3 DEF PlanStep, CpFetch
<1>4. ASSUME NEW w \in Workers, Handle(w) \/ WorkerLost(w) \/ HttpErrorOnPost(w)
      PROVE  Settled'
  <2>1. handler[w].roles = NodeRoles /\ NodeRoles # CPRoles
    BY <1>1, <1>4, Roles DEF Handle, WorkerLost, HttpErrorOnPost, TypeOK, Request
  <2>2. pc' \notin {"cp_fetch", "cp_affect", "cp_wait"}
    BY <1>4, <2>1 DEF Handle, WorkerLost, HttpErrorOnPost, Answer, ConnectionError, DoneOf,
       AffectOf, plan
  <2>3. \A v \in Workers : handler'[v] # Idle => handler'[v] = handler[v]
    BY <1>1, <1>4 DEF Handle, WorkerLost, HttpErrorOnPost, TypeOK
  <2> QED BY <1>2, <2>2, <2>3
<1>5. CASE PlanCrash
  BY <1>1, <1>2, <1>5 DEF PlanCrash, TypeOK, Request
<1>6. CASE Refused \/ HttpErrorOnGet
  BY <1>2, <1>6, Roles DEF Refused, HttpErrorOnGet, ConnectionError, NodeException, SyncTriesAgain,
     plan
<1>7. CASE (\E r \in Reports : Discover(r)) \/ UNCHANGED vars
  BY <1>2, <1>7 DEF Discover, Reported, plan, vars
<1> QED BY <1>2, <1>3, <1>4, <1>5, <1>6, <1>7 DEF Next

-----------------------------------------------------------------------------
(* What get_role_ip_list answers.                                          *)

\* One interface of each of the machines.
NamesEach(members, machines) ==
  \E pick \in [machines -> Macs] : /\ \A m \in machines : pick[m] \in nics[m]
                                  /\ members = {pick[m] : m \in machines}

\* The lists name an interface of every control plane.
LEMMA ListsNameControlPlane ==
  IInv /\ BootInv => \A members : members \in IpLists <=> NamesEach(members, ControlPlane)
<1> SUFFICES ASSUME IInv, BootInv
             PROVE  \A members : members \in IpLists <=> NamesEach(members, ControlPlane)
  OBVIOUS
<1> DEFINE etcd == {m \in Uuids : "etcd-member" \in rows[m] /\ boot[m] # NoMac}
<1>1. \A m \in Uuids : "etcd-member" \in rows[m] <=> rows[m] = CPRoles
  BY DEF IInv, WholeTiers, CPRoles, NodeRoles
<1>2. etcd = ControlPlane
  BY <1>1, Roles DEF BootInv
<1>3. \A members : members \in IpLists <=> NamesEach(members, etcd)
  BY DEF IpLists, NamesEach
<1> HIDE DEF etcd
<1> QED BY <1>2, <1>3

\* They are as long as the control plane is large: machines share no card.
LEMMA ListsAreComplete ==
  ASSUME CardsStayHome, IInv, BootInv, NEW members \in IpLists
  PROVE  Cardinality(members) = Cardinality(ControlPlane)
<1>1. PICK pick \in [ControlPlane -> Macs] :
        /\ \A m \in ControlPlane : pick[m] \in nics[m]
        /\ members = {pick[m] : m \in ControlPlane}
  BY ListsNameControlPlane DEF NamesEach
<1>2. \A m, n \in ControlPlane : pick[m] = pick[n] => m = n
  BY <1>1 DEF ControlPlane, Holding, IInv, KnownCards, CardsStayHome
<1>3. pick \in Injection(ControlPlane, members) /\ pick \in Surjection(ControlPlane, members)
  BY <1>1, <1>2 DEF Injection, Surjection, IsInjective
<1> QED BY <1>3, Counts, FS_Surjection

\* And once the control plane is settled they stay what they are.
LEMMA ListsStay ==
  ASSUME CardsStayHome, SameFacts, IInv, BootInv, IInv', BootInv', Settled, [Next]_vars
  PROVE  IpLists' = IpLists
<1>1. ControlPlane' = ControlPlane /\ \A m \in ControlPlane : nics'[m] = nics[m]
  BY SettledStep, InterfacesStay, Roles DEF IInv, BootInv
<1>2. \A members : NamesEach(members, ControlPlane) <=> NamesEach(members, ControlPlane)'
  BY <1>1 DEF NamesEach
<1>3. (IInv /\ BootInv => \A members : members \in IpLists <=> NamesEach(members, ControlPlane))'
  BY ListsNameControlPlane, PTL
<1> QED BY <1>2, <1>3, ListsNameControlPlane

-----------------------------------------------------------------------------
(* Where lists of members are kept.                                        *)

\* A group file, the group that is about to be written, an ignition that an
\* installer holds, or a disk has this list.
Stored(members) ==
  \/ \E file \in Files : groups[file] # NoGroup /\ groups[file].members = members
  \/ sync.group # NoGroup /\ sync.group.members = members
  \/ \E m \in Uuids : installer[m].file # NoIgnition /\ installer[m].file.members = members
  \/ \E m \in Installed : disk[m].members = members

LEMMA GroupFilesMove ==
  ASSUME DeployTypeOK, [DeployNext]_deployVars, NEW file \in Files
  PROVE  groups'[file] \in {groups[file], NoGroup, sync.group}
<1>1. ASSUME NEW m \in Uuids, InstallerStep(m) PROVE groups' = groups
  BY <1>1 DEF InstallerStep, Report, CheckRole, Fetch, Ask, Install
<1>2. CASE SyncOpen \/ SyncWrite
  BY <1>2 DEF SyncOpen, SyncWrite, DeployTypeOK
<1>3. CASE ~SyncOpen /\ ~SyncWrite /\ \A m \in Uuids : ~InstallerStep(m)
  BY <1>3 DEF DeployNext, PlanStepHere, SyncSteps, SyncList, SyncNotify, SyncQueryFails,
     SyncException, ApiStepHere, PlanCrashHere, SyncRequestFails, LockExpires, NotifyExpires,
     GroupsLost, Mishap, PowerCycle, ReportLost, InstallFails, siteVars, deployVars
<1> QED BY <1>1, <1>2, <1>3

LEMMA NextGroupMoves ==
  ASSUME DeployTypeOK, [DeployNext]_deployVars
  PROVE  \/ sync'.group \in {sync.group, NoGroup}
         \/ SyncOpen /\ sync'.group.members \in IpLists
<1>1. \A roles : SyncStart.group = NoGroup /\ NextTier(roles).group = NoGroup
  BY DEF SyncStart, NextTier
<1>2. sync \in SyncState
  BY DEF DeployTypeOK
<1>3. ASSUME NEW mac, Written(mac) PROVE sync'.group = NoGroup
  BY <1>1, <1>2, <1>3 DEF Written, SyncState
<1>4. CASE SyncOpen
  <2>1. PICK mac \in sync.rest, members \in IpLists :
          LET group == [mac |-> mac, members |-> members]
          IN  \/ Written(mac)
              \/ sync' = [sync EXCEPT !.step = "write", !.group = group]
    BY <1>4 DEF SyncOpen
  <2>2. CASE Written(mac)
    BY <1>3, <2>2
  <2>3. CASE sync' = [sync EXCEPT !.step = "write", !.group = [mac |-> mac, members |-> members]]
    <3>1. sync'.group = [mac |-> mac, members |-> members]
      BY <1>2, <2>3 DEF SyncState
    <3> QED BY <1>4, <2>1, <3>1
  <2> QED BY <2>1, <2>2, <2>3
<1>5. CASE SyncWrite
  BY <1>3, <1>5 DEF SyncWrite
<1>6. CASE SyncList
  <2>1. CASE sync' = NextTier(sync.roles)
    BY <1>1, <2>1
  <2>2. CASE sync' # NextTier(sync.roles)
    BY <1>2, <1>6, <2>2 DEF SyncList, SyncState
  <2> QED BY <2>1, <2>2
<1>7. CASE SyncNotify \/ SyncQueryFails \/ PlanCrashHere \/ SyncRequestFails
  BY <1>1, <1>7 DEF SyncNotify, SyncQueryFails, PlanCrashHere, SyncRequestFails, SyncException
<1>8. ASSUME NEW m \in Uuids, InstallerStep(m) PROVE sync' = sync
  BY <1>8 DEF InstallerStep, Report, CheckRole, Fetch, Ask, Install
<1>9. ASSUME NEW m \in Uuids, PowerCycle(m) \/ ReportLost(m) \/ InstallFails(m)
      PROVE  sync' = sync
  BY <1>9 DEF PowerCycle, ReportLost, InstallFails, Mishap
<1>10. CASE UNCHANGED siteVars \/ LockExpires \/ NotifyExpires \/ GroupsLost
  BY <1>10 DEF siteVars, LockExpires, NotifyExpires, GroupsLost, Mishap
<1> QED BY <1>4, <1>5, <1>6, <1>7, <1>8, <1>9, <1>10
  DEF DeployNext, PlanStepHere, SyncSteps, ApiStepHere, deployVars

\* What an installer takes, it takes from a group file.
LEMMA IgnitionsMove ==
  ASSUME DeployTypeOK, [DeployNext]_deployVars, NEW m \in Uuids
  PROVE  \/ installer'[m].file \in {installer[m].file, NoIgnition}
         \/ \E file \in Files : /\ groups[file] # NoGroup
                                /\ installer'[m].file.members = groups[file].members
<1>1. installer \in [Uuids -> InstallerState] /\ installer[m] \in InstallerState
  BY DEF DeployTypeOK
<1>2. ASSUME NEW n \in Uuids, InstallerStep(n), ~Fetch(n)
      PROVE  installer'[m].file = installer[m].file
  BY <1>1, <1>2 DEF InstallerStep, Report, CheckRole, Ask, Install, GoTo, InstallerState
<1>3. ASSUME NEW n \in Uuids, Fetch(n)
      PROVE  \/ installer'[m].file = installer[m].file
             \/ \E file \in Files : /\ groups[file] # NoGroup
                                    /\ installer'[m].file.members = groups[file].members
  <2>1. CASE GoTo(n, "role")
    BY <1>1, <2>1 DEF GoTo, InstallerState
  <2>2. ASSUME NEW file \in Selecting(installer[n].mac), NEW taken,
               taken = [roles |-> file[1], members |-> groups[file].members],
               installer' = [installer EXCEPT ![n].step = "ask", ![n].file = taken]
        PROVE  \/ installer'[m].file = installer[m].file
               \/ /\ file \in Files /\ groups[file] # NoGroup
                  /\ installer'[m].file.members = groups[file].members
    <3>1. file \in Files /\ groups[file] # NoGroup /\ taken.members = groups[file].members
      BY <2>2 DEF Selecting
    <3>2. n = m => installer'[m].file = taken
      BY <1>1, <2>2 DEF InstallerState
    <3>3. n # m => installer'[m].file = installer[m].file
      BY <1>1, <2>2
    <3> QED BY <3>1, <3>2, <3>3
  <2> QED BY <1>3, <2>1, <2>2 DEF Fetch
<1>4. ASSUME NEW n \in Uuids, PowerCycle(n) \/ ReportLost(n) \/ InstallFails(n)
      PROVE  installer'[m].file \in {installer[m].file, NoIgnition}
  BY <1>1, <1>4 DEF PowerCycle, ReportLost, InstallFails, Mishap, GoTo, InstallerState
<1>5. CASE (\A n \in Uuids : /\ ~InstallerStep(n) /\ ~PowerCycle(n)
                             /\ ~ReportLost(n) /\ ~InstallFails(n))
  BY <1>5 DEF DeployNext, PlanStepHere, SyncSteps, SyncList, SyncOpen, SyncWrite, SyncNotify,
     SyncQueryFails, SyncException, ApiStepHere, PlanCrashHere, SyncRequestFails, LockExpires,
     NotifyExpires, GroupsLost, Mishap, siteVars, deployVars
<1> QED BY <1>2, <1>3, <1>4, <1>5

LEMMA DisksMove ==
  ASSUME DeployTypeOK, [DeployNext]_deployVars, NEW m \in Uuids
  PROVE  disk'[m] \in {disk[m], installer[m].file}
<1>1. ASSUME NEW n \in Uuids, InstallerStep(n)
      PROVE  disk'[m] \in {disk[m], installer[m].file}
  BY <1>1 DEF InstallerStep, Report, CheckRole, Fetch, Ask, Install, DeployTypeOK
<1>2. CASE \A n \in Uuids : ~InstallerStep(n)
  BY <1>2 DEF DeployNext, PlanStepHere, SyncSteps, SyncList, SyncOpen, SyncWrite, SyncNotify,
     SyncQueryFails, SyncException, ApiStepHere, PlanCrashHere, SyncRequestFails, LockExpires,
     NotifyExpires, GroupsLost, Mishap, PowerCycle, ReportLost, InstallFails, siteVars, deployVars
<1> QED BY <1>1, <1>2

LEMMA StoredMoves ==
  ASSUME DeployTypeOK, [DeployNext]_deployVars, NEW members, Stored(members)'
  PROVE  Stored(members) \/ (SyncOpen /\ members \in IpLists)
<1>1. CASE (\E file \in Files : groups[file] # NoGroup /\ groups[file].members = members)'
  BY <1>1, GroupFilesMove DEF Stored
<1>2. CASE (sync.group # NoGroup /\ sync.group.members = members)'
  BY <1>2, NextGroupMoves DEF Stored
<1>3. CASE (\E m \in Uuids : installer[m].file # NoIgnition /\ installer[m].file.members = members)'
  BY <1>3, IgnitionsMove DEF Stored
<1>4. CASE (\E m \in Installed : disk[m].members = members)'
  BY <1>4, DisksMove DEF Stored, Installed
<1> QED BY <1>1, <1>2, <1>3, <1>4 DEF Stored

-----------------------------------------------------------------------------
(* The clusters.                                                           *)

\* Every list of members is one that the API would answer now, and will.
ClusterInv ==
  /\ OrderInv
  /\ BootInv
  /\ DeployTypeOK
  /\ \A members : Stored(members) => Settled /\ members \in IpLists

LEMMA ClusterInit == DeployInit => ClusterInv
<1> SUFFICES ASSUME DeployInit PROVE ClusterInv
  OBVIOUS
<1>1. Init
  BY DEF DeployInit
<1>2. DeployTypeOK
  BY DeployInvInit DEF DeployInv
<1>3. \A members : ~Stored(members)
  BY DEF DeployInit, Stored, Installed, SyncStart
<1> QED BY <1>1, <1>2, <1>3, OrderInit, BootInit DEF ClusterInv

LEMMA ClusterStep ==
  ASSUME OneWorker, CardsStayHome, SameFacts, "http_error" \notin Faults,
         ClusterInv, [DeployNext]_deployVars
  PROVE  ClusterInv'
<1> USE DEF ClusterInv
<1>1. [Next]_vars /\ IInv /\ TypeOK
  BY DeployStepRefines DEF OrderInv, IInv
<1>2. OrderInv' /\ IInv' /\ BootInv' /\ DeployTypeOK'
  <2>1. OrderInv'
    BY <1>1, OrderStep
  <2>2. BootInv' /\ DeployTypeOK'
    BY <1>1, BootStep, DeployTypeStep
  <2> QED BY <2>1, <2>2 DEF OrderInv
<1>3. ASSUME NEW members, Stored(members)' PROVE Settled' /\ members \in IpLists'
  <2>1. Settled /\ members \in IpLists
    <3>1. SyncOpen => Settled
      BY SyncIsSettled DEF SyncOpen, SyncAt
    <3> QED BY <1>3, <3>1, StoredMoves
  <2> QED BY <1>1, <1>2, <2>1, SettledStep, ListsStay
<1> QED BY <1>2, <1>3

(* Group files, ignitions and disks only ever name the members of a        *)
(* control plane that is complete and that no request adds to any more.    *)
THEOREM MembersAreSettled ==
  ASSUME OneWorker, CardsStayHome, SameFacts, "http_error" \notin Faults
  PROVE  DeploySpec => []ClusterInv
<1>1. ClusterInv /\ [DeployNext]_deployVars => ClusterInv'
  BY ClusterStep
<1> QED BY ClusterInit, <1>1, PTL DEF DeploySpec

(* So no machine is installed with an etcd cluster too small to be the     *)
(* control plane, wherever in the plan, the sync or the installers a crash *)
(* or a lost worker comes, and however many cards the machines have.       *)
THEOREM ClustersAreComplete ==
  ASSUME OneWorker, CardsStayHome, SameFacts, "http_error" \notin Faults
  PROVE  DeploySpec => []ClusterIsComplete
<1>1. ClusterInv => ClusterIsComplete
  <2> SUFFICES ASSUME ClusterInv, NEW m \in Installed
               PROVE  Cardinality(disk[m].members) >= ExpectedNb
    BY DEF ClusterIsComplete
  <2>1. Stored(disk[m].members)
    BY DEF Stored
  <2> QED BY <2>1, ListsAreComplete DEF ClusterInv, OrderInv, Settled
<1> QED BY <1>1, MembersAreSettled, PTL

\* The machines have the one card that they boot from.
OneCardEach == \A r \in Reports : r.nics = {r.boot}

LEMMA OneList ==
  ASSUME OneCardEach, BootInv, IInv, NEW members \in IpLists
  PROVE  members = {boot[n] : n \in ControlPlane}
<1>1. PICK pick \in [ControlPlane -> Macs] :
        /\ \A m \in ControlPlane : pick[m] \in nics[m]
        /\ members = {pick[m] : m \in ControlPlane}
  BY ListsNameControlPlane DEF NamesEach
<1>2. \A m \in ControlPlane : pick[m] = boot[m]
  BY <1>1, Roles DEF BootInv, OwnReport, OneCardEach
<1> QED BY <1>1, <1>2

(* And machines of one card are all installed with the same etcd members,  *)
(* the control planes, for ever.                                           *)
THEOREM ThereIsOneCluster ==
  ASSUME OneWorker, CardsStayHome, SameFacts, OneCardEach, "http_error" \notin Faults
  PROVE  DeploySpec => []OneCluster
<1>1. ClusterInv => OneCluster
  <2> SUFFICES ASSUME ClusterInv, NEW m \in Installed
               PROVE  disk[m].members = {boot[n] : n \in ControlPlane}
    BY DEF OneCluster
  <2>1. Stored(disk[m].members)
    BY DEF Stored
  <2> QED BY <2>1, OneList DEF ClusterInv, OrderInv
<1> QED BY <1>1, MembersAreSettled, PTL

(* Each of them finds the address that names it among those members: what  *)
(* deployment_two_cards refutes takes a second card.                       *)
THEOREM MembersFindThemselves ==
  ASSUME OneWorker, CardsStayHome, SameFacts, BootsAtHome, OneCardEach, "http_error" \notin Faults
  PROVE  DeploySpec => []MemberOfItsCluster
<1>1. DeployInv => DeployTypeOK
  BY DEF DeployInv
<1>2. DeployInv /\ ClusterInv /\ InstalledKnown => MemberOfItsCluster
  <2> SUFFICES ASSUME DeployInv, ClusterInv, InstalledKnown, NEW m \in Installed \cap ControlPlane
               PROVE  installer[m].mac \in disk[m].members
    BY DEF MemberOfItsCluster
  <2>1. disk[m].members = {boot[n] : n \in ControlPlane}
    BY OneList DEF Stored, ClusterInv, OrderInv
  <2>2. m \in Uuids /\ installer[m].mac # NoMac
    BY DEF Installed, InstalledKnown, At
  <2>3. PICK r \in Reports : r.uuid = m /\ r.boot = installer[m].mac
    BY <2>2 DEF DeployInv, OwnMac
  <2>4. boot[m] # NoMac
    BY <2>2, Roles DEF ClusterInv, BootInv
  <2>5. PICK s \in Reports : s.uuid = m /\ boot[m] = s.boot
    BY <2>2, <2>4 DEF ClusterInv, BootInv, OwnReport
  <2>6. r = s
    BY <2>3, <2>5 DEF SameFacts
  <2> QED BY <2>1, <2>3, <2>5, <2>6
<1> QED
  BY <1>1, <1>2, GroupsServeTheirTier, MembersAreSettled, KnownInit, KnownStep, PTL DEF DeploySpec
=============================================================================

--------------------------------- MODULE Api ---------------------------------
(***************************************************************************)
(* The handlers of routes.py in several gunicorn workers, over the tables  *)
(* of Repositories and a cache on the file system.  A handler is a line of *)
(* steps, each a transaction, half of one (its reads, its writes) or an    *)
(* access to the cache; between two of them the other workers do theirs.   *)
(***************************************************************************)
EXTENDS Repositories

CONSTANTS
  Workers,      \* gunicorn_workers
  Contents,     \* ignitions, as far as they can be compared
  Files,        \* ignition files reported by the sync
  Traffics,     \* the clients there may be, see Traffic
  NoList,       \* the cache has no list
  MaxRequests,  \* bound: requests of a bounded traffic
  MaxFaults,    \* bound: requests lost with their worker or their connection
  MaxChanges    \* bound: changes of what matchbox serves

ASSUME WorkersAreFinite == IsFiniteSet(Workers)

Strategies == {"kexec", "reboot"}
Tiers == {{"kubernetes-control-plane", "etcd-member"}, {"kubernetes-node"}}
Processes == {"plan", "matchbox", "gunicorn"}
Kinds == {"discovery", "boot", "authorize", "install", "ignition", "policy", "schedule",
          "version", "list", "health", "shutdown"}

\* Which requests come, whether a client waits for an answer before its next
\* request of a kind, from which reports, to which workers.
Traffic == [kinds: SUBSET Kinds, waits: BOOLEAN, reports: SUBSET Reports,
            workers: SUBSET Workers, bounded: BOOLEAN]

ASSUME TrafficsAreKnown == Traffics \subseteq Traffic

VARIABLES
  traffic,   \* the clients of this behaviour
  at,        \* the step of each worker
  req,       \* the request it handles
  goal,      \* what it is about to write
  seen,      \* what its transaction has read
  locked,    \* the key lock-install is in the cache
  versions,  \* the key ignition-version
  listed,    \* the key /discovery
  served,    \* the ignition matchbox serves to a MAC
  applied,   \* the ignition installed on the machine of a MAC
  running,   \* the processes that manage.py started,
  stopping,  \*   those sent a SIGTERM,
  pids,      \*   and the PID files that are there
  granted,   \* history: the authorizations since lock-install last expired
  asked,     \* history: what the rows of a machine may hold, see LastAnswerIsRecorded
  reported,  \* history: the versions whose report was answered
  requests, faults, changes

workerVars == <<at, req, goal, seen>>
cacheVars == <<locked, versions, listed>>
processVars == <<running, stopping, pids>>
siteVars == <<served, applied, processVars>>
history == <<granted, asked, reported>>
bounds == <<requests, faults, changes>>
vars == <<tables, traffic, workerVars, cacheVars, siteVars, history, bounds>>

NoRequest == [kind |-> "none", mac |-> CHOOSE mac \in Macs : TRUE, value |-> "none"]
Unread == [machine |-> NoId, row |-> NoId, was |-> "none"]

Init ==
  /\ RepositoriesInit
  /\ traffic \in Traffics
  /\ at = [w \in Workers |-> "idle"]
  /\ req = [w \in Workers |-> NoRequest]
  /\ goal = [w \in Workers |-> "none"]
  /\ seen = [w \in Workers |-> Unread]
  /\ locked = FALSE /\ versions = {} /\ listed = NoList
  /\ served = [mac \in Macs |-> CHOOSE c \in Contents : TRUE] /\ applied = served
  /\ running = Processes /\ stopping = {} /\ pids = Processes
  /\ granted = 0
  /\ asked = [t \in Tables |-> [u \in Uuids |-> {}]]
  /\ reported = {}
  /\ requests = 0 /\ faults = 0 /\ changes = 0

-----------------------------------------------------------------------------
(* Clients.                                                                *)

Request(kind, mac, value) == [kind |-> kind, mac |-> mac, value |-> value]

Policies == {[enable |-> TRUE, strategy |-> s] : s \in Strategies}
            \union {[enable |-> FALSE, strategy |-> "none"]}

\* ops.shutdown: the PID files it has not read yet, the processes it has found.
NothingTaken == [left |-> <<"plan", "matchbox", "gunicorn">>, taken |-> {}]

\* The cards that machines boot from.
BootCards == {r.mac : r \in traffic.reports}

\* The requests of the clients.  discoveryC posts its report; iPXE, the installer
\* and lifecycle-update name the card they booted from.
Requests(kind) ==
  LET from == BootCards
  IN  CASE kind = "discovery" -> {Request(kind, r.mac, r) : r \in traffic.reports}
        [] kind = "install"   -> {Request(kind, mac, [success |-> b]) : mac \in from, b \in BOOLEAN}
        [] kind = "ignition"  -> {Request(kind, mac, applied[mac]) : mac \in from}
        [] kind = "policy"    -> {Request(kind, mac, p) : mac \in from, p \in Policies}
        [] kind = "schedule"  -> {Request(kind, mac, tier) : mac \in from, tier \in Tiers}
        [] kind = "shutdown"  -> {Request(kind, NoRequest.mac, NothingTaken)}
        [] kind = "version"   -> {Request(kind, NoRequest.mac, f) : f \in Files}
        [] kind \in {"list", "health"} -> {Request(kind, NoRequest.mac, "none")}
        [] OTHER              -> {Request(kind, mac, "none") : mac \in from}

\* The first step of each handler.
Entry == [discovery |-> "find", boot |-> "ipxe", authorize |-> "lock_get",
          install |-> "inject", ignition |-> "fetch", policy |-> "inject",
          schedule |-> "schedule_read", version |-> "versions_get", list |-> "list_query",
          health |-> "health_probe", shutdown |-> "take"]

Handles(w, kind) == at[w] # "idle" /\ req[w].kind = kind

\* A sync worker accepts a request when it has answered its last one.
Start(w, kind) ==
  /\ w \in traffic.workers
  /\ kind \in traffic.kinds
  /\ at[w] = "idle" /\ "gunicorn" \notin stopping
  /\ traffic.bounded => requests < MaxRequests
  /\ traffic.waits => \A other \in Workers : ~Handles(other, kind)
  /\ \E r \in Requests(kind) :
       /\ req' = [req EXCEPT ![w] = r]
       /\ goal' = [goal EXCEPT ![w] = IF kind = "boot" THEN "booting" ELSE r.value]
  /\ at' = [at EXCEPT ![w] = Entry[kind]]
  /\ requests' = IF traffic.bounded THEN requests + 1 ELSE requests
  /\ UNCHANGED <<tables, traffic, seen, cacheVars, siteVars, history, faults, changes>>

-----------------------------------------------------------------------------
(* Steps of the handlers.                                                  *)

At(w, step) == at[w] = step

\* The next step of a worker, with what it read.
Goes(w, step, read) ==
  /\ at' = [at EXCEPT ![w] = step]
  /\ seen' = [seen EXCEPT ![w] = read]

\* An answer: the worker forgets the request.
Answers(w) ==
  /\ Goes(w, "idle", Unread)
  /\ req' = [req EXCEPT ![w] = NoRequest]
  /\ goal' = [goal EXCEPT ![w] = "none"]

\* The first query of upsert.
Find(w) ==
  /\ At(w, "find")
  /\ \E id \in First(MachinesWith(req[w].value.uuid)) :
       Goes(w, "upsert", [Unread EXCEPT !.machine = id])
  /\ UNCHANGED <<tables, traffic, req, goal, cacheVars, siteVars, history, bounds>>

\* The rest of upsert; an IntegrityError is answered 500.
Upsert(w) ==
  /\ At(w, "upsert")
  /\ LET report == req[w].value  found == seen[w].machine
     IN  IF Conflict(report, RowFor(found))
         THEN Answers(w) /\ UNCHANGED <<machine, iface>>
         ELSE /\ Upserted(report, found)
              /\ Goes(w, "state_read", Unread)
              /\ goal' = [goal EXCEPT ![w] = "discovery"]
              /\ UNCHANGED req
  /\ UNCHANGED <<states, life, traffic, cacheVars, siteVars, history, bounds>>

\* Both queries of MachineStateRepository.update.  Rows of states are never
\* deleted, so reading them at once leaves out no outcome.
StateRead(w) ==
  /\ At(w, "state_read")
  /\ Goes(w, "state_write", [machine |-> OwnerOf(req[w].mac), row |-> NoId,
                             was |-> states[req[w].mac]])
  /\ UNCHANGED <<tables, traffic, req, goal, cacheVars, siteVars, history, bounds>>

\* Mutation: POST /discovery leaves the list in the cache.
ListKept(w) == listed

\* POST /discovery deletes the cached list after its transactions.
ListLeft(w) == IF req[w].kind = "discovery" THEN NoList ELSE listed

\* Its commit, and the answer.  An INSERT of a row that another worker has
\* inserted meanwhile is answered 500.
StateWrite(w) ==
  /\ At(w, "state_write")
  /\ LET mac == req[w].mac  was == seen[w].was
     IN  IF StateInserted(was) /\ states[mac].name # NoState
         THEN UNCHANGED <<states, listed>>
         ELSE /\ StateUpdated(mac, was, [machine |-> seen[w].machine, name |-> goal[w]])
              /\ listed' = ListLeft(w)
  /\ Answers(w)
  /\ UNCHANGED <<machine, iface, life, traffic, locked, versions, siteVars, history, bounds>>

\* Mutation: the lock is set without looking at it.
LockTaken(w) ==
  /\ At(w, "lock_get")
  /\ Goes(w, "lock_set", Unread)
  /\ UNCHANGED <<tables, traffic, req, goal, cacheVars, siteVars, history, bounds>>

\* install-authorization: somebody has the lock, or nobody has it yet.
LockGet(w) ==
  /\ At(w, "lock_get")
  /\ \/ /\ locked
        /\ Goes(w, "state_read", Unread)
        /\ goal' = [goal EXCEPT ![w] = "os_installation_denied"]
     \/ ~locked /\ Goes(w, "lock_set", Unread) /\ UNCHANGED goal
  /\ UNCHANGED <<tables, traffic, req, cacheVars, siteVars, history, bounds>>

LockSet(w) ==
  /\ At(w, "lock_set")
  /\ locked' = TRUE
  /\ granted' = granted + 1
  /\ Goes(w, "state_read", Unread)
  /\ goal' = [goal EXCEPT ![w] = "os_installation_granted"]
  /\ UNCHANGED <<tables, traffic, req, versions, listed, siteVars, asked, reported, bounds>>

\* GET /ipxe serves the script of matchbox, then records that the card boots.
Ipxe(w) ==
  /\ At(w, "ipxe")
  /\ IF "matchbox" \in running
     THEN Goes(w, "state_read", Unread) /\ UNCHANGED <<req, goal>>
     ELSE Answers(w)
  /\ UNCHANGED <<tables, traffic, cacheVars, siteVars, history, bounds>>

\* submit_lifecycle_ignition asks matchbox and compares.
Fetch(w) ==
  /\ At(w, "fetch")
  /\ IF "matchbox" \in running
     THEN /\ Goes(w, "inject", Unread)
          /\ goal' = [goal EXCEPT ![w] = [up_to_date |-> req[w].value = served[req[w].mac]]]
          /\ UNCHANGED req
     ELSE Answers(w)
  /\ UNCHANGED <<tables, traffic, cacheVars, siteVars, history, bounds>>

\* InjectLifecycle and the query of the row; an unknown MAC is an error.
Inject(w) ==
  /\ At(w, "inject")
  /\ LET t == req[w].kind  id == OwnerOf(req[w].mac)
     IN  IF id = NoId
         THEN Answers(w) /\ UNCHANGED asked
         ELSE /\ \E row \in First(RowsOf(t, id)) :
                   Goes(w, "store", [machine |-> id, row |-> row,
                     was |-> IF row = NoId THEN goal[w] ELSE life[t][row].columns])
              /\ asked' = [asked EXCEPT ![t][machine[id]] = @ \union {goal[w]}]
              /\ UNCHANGED <<req, goal>>
  /\ UNCHANGED <<tables, traffic, cacheVars, siteVars, granted, reported, bounds>>

\* refresh_lifecycle_ignition, refresh_lifecycle_coreos_install and
\* apply_lifecycle_rolling; the second goes on with the state of the machine.
Store(w) ==
  /\ At(w, "store")
  /\ LET t == req[w].kind
     IN  /\ LifeStored(t, seen[w].machine, seen[w].row, seen[w].was, goal[w])
         /\ asked' = [asked EXCEPT ![t][machine[seen[w].machine]] = {goal[w]}]
         /\ IF t = "install"
            THEN /\ Goes(w, "state_read", Unread)
                 /\ goal' = [goal EXCEPT ![w] = IF goal[w].success THEN "installation_succeed"
                                                ELSE "installation_failed"]
                 /\ UNCHANGED req
            ELSE Answers(w)
  /\ UNCHANGED <<machine, iface, states, traffic, cacheVars, siteVars, granted, reported, bounds>>

\* create_schedule: an unknown MAC is logged, and answered 200 ...
ScheduleRead(w) ==
  /\ At(w, "schedule_read")
  /\ LET id == OwnerOf(req[w].mac)
     IN  IF id = NoId THEN Answers(w)
         ELSE /\ Goes(w, "schedule_write", [machine |-> id, row |-> NoId, was |-> RolesOf(id)])
              /\ UNCHANGED <<req, goal>>
  /\ UNCHANGED <<tables, traffic, cacheVars, siteVars, history, bounds>>

\* Mutation: the roles that it has are scheduled again.
RolesAgain(w) == req[w].value

\* The roles that the machine was not read to have.
NewRoles(w) == req[w].value \ seen[w].was

\* ... the new rows, in one transaction: one here, with their roles.
ScheduleWrite(w) ==
  /\ At(w, "schedule_write")
  /\ life' = IF NewRoles(w) = {} THEN life
             ELSE [life EXCEPT !["schedule"] =
                     Append(@, [machine |-> seen[w].machine, columns |-> NewRoles(w)])]
  /\ Answers(w)
  /\ UNCHANGED <<machine, iface, states, traffic, cacheVars, siteVars, history, bounds>>

\* Mutation: the dictionary begins anew.
VersionsForgotten(w) ==
  /\ At(w, "versions_get")
  /\ Goes(w, "versions_set", Unread)
  /\ goal' = [goal EXCEPT ![w] = {req[w].value}]
  /\ UNCHANGED <<tables, traffic, req, cacheVars, siteVars, history, bounds>>

\* report_ignition_version takes the dictionary, updates it ...
VersionsGet(w) ==
  /\ At(w, "versions_get")
  /\ Goes(w, "versions_set", Unread)
  /\ goal' = [goal EXCEPT ![w] = versions \union {req[w].value}]
  /\ UNCHANGED <<tables, traffic, req, cacheVars, siteVars, history, bounds>>

\* ... and sets it, without a timeout.
VersionsSet(w) ==
  /\ At(w, "versions_set")
  /\ versions' = goal[w]
  /\ reported' = reported \union {req[w].value}
  /\ Answers(w)
  /\ UNCHANGED <<tables, traffic, locked, listed, siteVars, granted, asked, bounds>>

\* GET /discovery: the cached list, or a query, which may fail ...
ListQuery(w) ==
  /\ At(w, "list_query")
  /\ IF listed \notin {NoList, {}} \/ DiscoveryFails
     THEN Answers(w)
     ELSE Goes(w, "list_set", Unread) /\ goal' = [goal EXCEPT ![w] = AllDiscovery] /\ UNCHANGED req
  /\ UNCHANGED <<tables, traffic, cacheVars, siteVars, history, bounds>>

\* ... whose answer is cached.
ListSet(w) ==
  /\ At(w, "list_set")
  /\ listed' = goal[w]
  /\ Answers(w)
  /\ UNCHANGED <<tables, traffic, locked, versions, siteVars, history, bounds>>

\* /healthz asks matchbox, the answer says whether it is there ...
HealthProbe(w) ==
  /\ At(w, "health_probe")
  /\ Goes(w, "health_read", Unread)
  /\ goal' = [goal EXCEPT ![w] = IF "matchbox" \in running THEN 200 ELSE 503]
  /\ UNCHANGED <<tables, traffic, req, cacheVars, siteVars, history, bounds>>

\* ... then the database, where health_check reads its row and writes it.
HealthRead(w) ==
  /\ At(w, "health_read")
  /\ \E row \in First(RowsOf("health", NoId)) : Goes(w, "health_write", [Unread EXCEPT !.row = row])
  /\ UNCHANGED <<tables, traffic, req, goal, cacheVars, siteVars, history, bounds>>

\* Its time and its host are not told apart.
Checked == [checked |-> TRUE]

HealthWrite(w) ==
  /\ At(w, "health_write")
  /\ LifeStored("health", NoId, seen[w].row, Checked, Checked)
  /\ Answers(w)
  /\ UNCHANGED <<machine, iface, states, traffic, cacheVars, siteVars, history, bounds>>

\* ops.shutdown reads and removes a PID file, which may be gone, as its process may.
Take(w) ==
  /\ At(w, "take")
  /\ LET process == Head(goal[w].left)  left == Tail(goal[w].left)
     IN  /\ Goes(w, IF left = <<>> THEN "stop" ELSE "take", Unread)
         /\ pids' = pids \ {process}
         /\ goal' = [goal EXCEPT ![w] =
                      [left |-> left, taken |-> @.taken \union ({process} \intersect pids \intersect running)]]
  /\ UNCHANGED <<tables, traffic, req, cacheVars, served, applied, running, stopping, history, bounds>>

\* Mutation: gunicorn is stopped, and waited for, in the same loop.
GunicornFirst(w) ==
  CHOOSE process \in Processes : "gunicorn" \in goal[w].taken => process = "gunicorn"

\* The plan before matchbox.
FirstTaken(w) == IF "plan" \in goal[w].taken THEN "plan" ELSE "matchbox"

\* A SIGTERM to each of the two ...
Stop(w) ==
  /\ At(w, "stop") /\ FirstTaken(w) \in goal[w].taken
  /\ stopping' = stopping \union {FirstTaken(w)}
  /\ Goes(w, "wait", Unread)
  /\ UNCHANGED <<tables, traffic, req, goal, cacheVars, served, applied, running, pids, history, bounds>>

\* Mutation: a process that was told to stop is stopped.
IsOver(w) == TRUE

HasExited(w) == FirstTaken(w) \notin running

\* ... which is waited for ...
Wait(w) ==
  /\ At(w, "wait") /\ HasExited(w)
  /\ Goes(w, "stop", Unread)
  /\ goal' = [goal EXCEPT ![w].taken = @ \ {FirstTaken(w)}]
  /\ UNCHANGED <<tables, traffic, req, cacheVars, siteVars, history, bounds>>

\* ... then to gunicorn; without its PID file that is an AttributeError.
Quit(w) ==
  /\ At(w, "stop") /\ FirstTaken(w) \notin goal[w].taken
  /\ stopping' = stopping \union goal[w].taken
  /\ Answers(w)
  /\ UNCHANGED <<tables, traffic, cacheVars, served, applied, running, pids, history, bounds>>

\* A process ends on SIGTERM, gunicorn when its workers have answered.
Exit(process) ==
  /\ process \in stopping \intersect running
  /\ process = "gunicorn" => \A w \in Workers : At(w, "idle")
  /\ running' = running \ {process}
  /\ UNCHANGED <<tables, traffic, workerVars, cacheVars, served, applied, stopping, pids, history, bounds>>

\* The worker is killed (gunicorn's timeout), or the database refuses: what is
\* not committed is rolled back, what is stays.
Abort(w) ==
  /\ at[w] # "idle"
  /\ faults < MaxFaults
  /\ faults' = faults + 1
  /\ Answers(w)
  /\ UNCHANGED <<tables, traffic, cacheVars, siteVars, history, requests, changes>>

\* coreos_install_lock_seconds and the 30 s of the list are over.
LockExpires ==
  /\ locked
  /\ locked' = FALSE /\ granted' = 0
  /\ UNCHANGED <<tables, traffic, workerVars, versions, listed, siteVars, asked, reported, bounds>>

ListExpires ==
  /\ listed # NoList
  /\ listed' = NoList
  /\ UNCHANGED <<tables, traffic, workerVars, locked, versions, siteVars, history, bounds>>

\* The sync moves the group of a machine to another file, or an operator changes
\* an ignition: matchbox serves something else.
Regenerate(mac) ==
  /\ "ignition" \in traffic.kinds
  /\ mac \in BootCards
  /\ changes < MaxChanges
  /\ changes' = changes + 1
  /\ \E c \in Contents \ {served[mac]} : served' = [served EXCEPT ![mac] = c]
  /\ UNCHANGED <<tables, traffic, workerVars, cacheVars, applied, processVars, history, requests, faults>>

\* lifecycle-update installs the new one, when its report has been answered.
Apply(mac) ==
  /\ \A w \in Workers : ~Handles(w, "ignition")
  /\ applied[mac] # served[mac]
  /\ applied' = [applied EXCEPT ![mac] = served[mac]]
  /\ UNCHANGED <<tables, traffic, workerVars, cacheVars, served, processVars, history, bounds>>

-----------------------------------------------------------------------------
HandlerStep(w) ==
  \/ Find(w) \/ Upsert(w) \/ Ipxe(w)
  \/ StateRead(w) \/ StateWrite(w)
  \/ LockGet(w) \/ LockSet(w)
  \/ Fetch(w) \/ Inject(w) \/ Store(w)
  \/ ScheduleRead(w) \/ ScheduleWrite(w)
  \/ VersionsGet(w) \/ VersionsSet(w)
  \/ ListQuery(w) \/ ListSet(w)
  \/ HealthProbe(w) \/ HealthRead(w) \/ HealthWrite(w)
  \/ Take(w) \/ Stop(w) \/ Wait(w) \/ Quit(w)

Next ==
  \/ \E w \in Workers :
       \/ \E kind \in Kinds : Start(w, kind)
       \/ HandlerStep(w)
       \/ Abort(w)
  \/ LockExpires \/ ListExpires
  \/ \E mac \in Macs : Regenerate(mac) \/ Apply(mac)
  \/ \E process \in Processes : Exit(process)

\* A worker handles what it accepted; a machine reports its ignition each minute,
\* and the connection it waits on is accepted when workers become idle again and
\* again: the backlog of the socket is a queue.  A process ends on SIGTERM.
Fairness ==
  /\ \A w \in Workers : WF_vars(HandlerStep(w))
  /\ SF_vars(\E w \in Workers : Start(w, "ignition"))
  /\ \A process \in Processes : WF_vars(Exit(process))

Spec == Init /\ [][Next]_vars
FairSpec == Spec /\ Fairness

-----------------------------------------------------------------------------
(* Properties.                                                             *)

Steps == {"idle", "find", "upsert", "ipxe", "state_read", "state_write", "lock_get", "lock_set",
          "fetch", "inject", "store", "schedule_read", "schedule_write", "versions_get",
          "versions_set", "list_query", "list_set", "health_probe", "health_read", "health_write",
          "take", "stop", "wait"}

\* Types.  A row of a machine_current_state has a name that validate_role accepts,
\* and refers to a machine that exists, as the foreign keys of model.py demand.
ApiTypeOK ==
  /\ traffic \in Traffics
  /\ at \in [Workers -> Steps]
  /\ TablesTypeOK
  /\ granted \in Nat

\* A machine has the interfaces of one of its reports, whole: never a mix of two
\* that workers stored at once, never a card another machine has, and the card it
\* booted from as its boot interface when the report has it (upsert).
FactsOfOneReport ==
  \A id \in DOMAIN machine : \E r \in Reports :
    /\ r.uuid = machine[id]
    /\ CardsOf(id) = r.macs
    /\ \A mac \in r.macs : iface[mac].boot <=> mac = r.mac

\* A machine has one row, although its uuid is not UNIQUE and two workers may both
\* find none: the second INSERT of a card they share fails (upsert).
OneMachinePerUuid ==
  \A i, j \in DOMAIN machine : machine[i] = machine[j] => i = j

\* /ui/view/states shows what a card reported under a card of the same machine,
\* although machine_current_state keeps the machine_id of an interface that may
\* have been deleted, or moved, since it was read (update, fetch).
StateShownForItsMachine ==
  \A mac \in Macs : states[mac].name # NoState =>
    \A shown \in ShownUnder(mac) :
      shown = mac \/ \E r, s \in Reports : r.uuid = s.uuid /\ mac \in r.macs /\ shown \in s.macs

RowsLike(t, id, role) ==
  {row \in RowsOf(t, id) : t = "schedule" => role \in life[t][row].columns}

\* No UNIQUE constraint keeps the tables to one row per machine, and role: at most
\* one per worker is inserted, so that one worker inserts only one (InjectLifecycle,
\* create_schedule, health_check).
RowsBounded ==
  \A t \in Tables : \A id \in {NoId} \union DOMAIN machine : \A role \in UNION Tiers :
    Cardinality(RowsLike(t, id, role)) <= Cardinality(traffic.workers)

\* While the lock lasts no more installations are granted than there are workers:
\* each may have looked at the cache before the first one set it.  With the one
\* worker of the defaults installations are granted one by one
\* (require_install_authorization).
GrantsBounded == granted <= Cardinality(traffic.workers)

Recorded(t) ==
  \A mac \in Macs : Told(t, mac) # {} => Told(t, mac) \subseteq asked[t][machine[OwnerOf(mac)]]

\* When clients wait for their answers, the ignition status and the policy that
\* are told of a machine are those of its last answered request, or of a later one that was
\* lost, whatever is discovered meanwhile and whichever worker handles it.
LastAnswerIsRecorded == traffic.waits => Recorded("ignition") /\ Recorded("policy")

\* The same of the outcome of coreos-install, which the route is there to report.
LastOutcomeIsRecorded == traffic.waits => Recorded("install")

\* The versions of all files whose report was answered are listed, when the sync
\* reports one after the other (report_ignition_version).
VersionsKept == traffic.waits => reported \subseteq versions

\* With one worker, the list of machines that is cached is the one the database
\* gives, but while a POST /discovery is handled or after it was lost.
ListIsCurrent ==
  (Cardinality(traffic.workers) = 1 /\ faults = 0) =>
    (\E w \in Workers : Handles(w, "discovery")) \/ listed \in {NoList, AllDiscovery}

Status(mac) ==
  {status.columns.up_to_date : status \in {s \in StatusList("ignition") : OwnerOf(s.mac) = OwnerOf(mac)}}

\* A machine that goes on reporting its ignition is listed as up to date when it
\* is, and as outdated when it is not, once matchbox serves it the same file; an
\* answer compared with a file that the sync was moving does not last.
StatusConverges ==
  \A mac \in Macs :
    <>[](("ignition" \in traffic.kinds /\ OwnerOf(mac) # NoId /\ iface[mac].boot)
           => Status(mac) = {applied[mac] = served[mac]})

\* When no worker is lost, gunicorn only ends when the plan and matchbox have, even
\* when two shutdowns share the PID files among them (ops.shutdown).
ShutdownIsComplete == (faults = 0 /\ "gunicorn" \notin running) => running = {}

\* A shutdown ends all three, when no worker is lost.
ShutdownEnds ==
  (\E w \in Workers : Handles(w, "shutdown")) ~> (running = {} \/ faults > 0)
=============================================================================

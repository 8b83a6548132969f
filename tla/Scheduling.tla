------------------------------ MODULE Scheduling ------------------------------
(***************************************************************************)
(* The scheduling core of enjoliver: the plan process (k8s_2t.py running   *)
(* the two schedulers of schedulerv2.py) talks HTTP to the API, which      *)
(* keeps the schedules of the discovered machines in the database          *)
(* (repositories/machine_schedule.py).                                     *)
(*                                                                         *)
(* A GET is one read of the database.  A POST /scheduler is sent, then     *)
(* handled by an API worker in one transaction, then answered; the plan    *)
(* may be gone when it is.  The plan can crash anywhere and be restarted   *)
(* by its supervisor, the API can refuse a connection, lose a worker, or   *)
(* answer with an error: Faults says which of these a behaviour may show   *)
(* and MaxFaults how many times.                                           *)
(***************************************************************************)
EXTENDS Integers, FiniteSets

CONSTANTS
  Uuids,        \* the machines, by the uuid of their boot-info
  Macs,         \* MAC addresses, numbers because the scheduler sorts them
  NoMac,        \* no interface booted (boot_interface is None)
  Reports,      \* the discovery facts the machines may POST
  ExpectedNb,   \* etcd_member_kubernetes_control_plane_expected_nb
  NbTry,        \* nb_try of the schedulers' apply, as the plan calls them
  Workers,      \* gunicorn workers
  Idle,         \* an API worker without a POST /scheduler to handle
  Faults,       \* the kinds of fault a behaviour may show
  MaxFaults     \* bound: the number of faults in a behaviour

FaultKinds == {"plan_crash", "refused", "worker_lost", "http_error"}

ASSUME MacsAreNumbers == Macs \subseteq Nat /\ NoMac \notin Macs
ASSUME ReportsAreFacts ==
  \A r \in Reports : /\ r.uuid \in Uuids
                     /\ r.nics \subseteq Macs
                     /\ r.boot \in Macs
ASSUME ExpectedNbIsPositive == ExpectedNb \in Nat \ {0}
ASSUME NbTryIsPositive == NbTry \in Nat \ {0}
ASSUME FaultsAreKnown == Faults \subseteq FaultKinds /\ MaxFaults \in Nat
ASSUME UuidsAreFinite == IsFiniteSet(Uuids) /\ IsFiniteSet(Macs)

CPRoles == {"etcd-member", "kubernetes-control-plane"}
NodeRoles == {"kubernetes-node"}

\* A POST /scheduler in a worker: the selector, the roles, who waits for it.
Request == [mac: Macs, roles: {CPRoles, NodeRoles}, client: {"plan", "gone"}]
ASSUME IdleIsNoRequest == Idle \notin Request

VARIABLES
  nics,      \* table machine_interface: the MACs of each machine
  boot,      \* the interface of each machine with as_boot set, or NoMac
  rows,      \* table schedule: the roles of each machine
  handler,   \* what each API worker does
  pc,        \* where the plan is in Kubernetes2Tiers.apply
  todo,      \* available_list[i..]: the MACs it still has to affect
  tries,     \* the exceptions _apply_with_retry has caught
  faults     \* faults so far

api == <<nics, boot, rows>>
plan == <<pc, todo, tries>>
vars == <<nics, boot, rows, handler, pc, todo, tries, faults>>

-----------------------------------------------------------------------------
(* What the repositories answer.                                           *)

\* get_machines_by_role and get_machines_by_roles, for the plan's two queries.
Holding(roles) ==
  IF roles = NodeRoles THEN {m \in Uuids : NodeRoles \subseteq rows[m]}
                       ELSE {m \in Uuids : rows[m] = roles}

\* _construct_machine_dict reads boot_interface.mac: AttributeError on None.
QueryFails(roles) == \E m \in Holding(roles) : boot[m] = NoMac

\* Mutation: the schedules of the machine are not looked at.
AvailableScheduledToo == {m \in Uuids : boot[m] # NoMac}

Available == {m \in Uuids : boot[m] # NoMac /\ rows[m] = {}}

\* get_available_machines lists interfaces[0] of every available machine, an
\* interface of it in no given order: a set with one MAC of each.
Listings ==
  {{pick[m] : m \in Available} :
     pick \in {f \in [Available -> Macs] : \A m \in Available : f[m] \in nics[m]}}

\* A GET is served by a worker that is free.
SomeWorkerFree == \E w \in Workers : handler[w] = Idle

-----------------------------------------------------------------------------
Init ==
  /\ nics = [m \in Uuids |-> {}]
  /\ boot = [m \in Uuids |-> NoMac]
  /\ rows = [m \in Uuids |-> {}]
  /\ handler = [w \in Workers |-> Idle]
  /\ pc = "stopped"
  /\ todo = {}
  /\ tries = 0
  /\ faults = 0

(***************************************************************************)
(* POST /discovery: the interfaces of the machine are replaced in one      *)
(* transaction, which the UNIQUE constraint on mac aborts when another     *)
(* machine holds one of them.                                              *)
(***************************************************************************)
Reported(r) ==
  /\ nics' = [nics EXCEPT ![r.uuid] = r.nics]
  /\ boot' = [boot EXCEPT ![r.uuid] = IF r.boot \in r.nics THEN r.boot ELSE NoMac]
  /\ UNCHANGED <<handler, plan, faults>>

\* Mutation: _delete_all_attached takes the schedules too.
DiscoverForgetsRoles(r) ==
  /\ \A m \in Uuids \ {r.uuid} : nics[m] \cap r.nics = {}
  /\ rows' = [rows EXCEPT ![r.uuid] = {}]
  /\ Reported(r)

Discover(r) ==
  /\ \A m \in Uuids \ {r.uuid} : nics[m] \cap r.nics = {}
  /\ Reported(r)
  /\ UNCHANGED rows

-----------------------------------------------------------------------------
(* The plan.  "stopped" is the process that is not running.                *)

Go(label) == pc' = label

Start ==
  /\ pc = "stopped"
  /\ Go("cp_query")
  /\ UNCHANGED <<api, handler, todo, tries, faults>>

\* The two comparisons of the control plane scheduler with expected_nb.
\* Mutations: the same, one member or one machine further.
TooFewMembersOffByOne == Cardinality(Holding(CPRoles)) <= ExpectedNb
TooFewMembers == Cardinality(Holding(CPRoles)) < ExpectedNb

EnoughMachinesOffByOne(listing) == Cardinality(listing) > ExpectedNb
EnoughMachines(listing) == Cardinality(listing) >= ExpectedNb

\* _apply_budget, first request.  A failed query is a ValueError: False, and
\* Kubernetes2Tiers.apply sleeps and asks again.
CpQuery ==
  /\ pc = "cp_query"
  /\ SomeWorkerFree
  /\ Go(IF QueryFails(CPRoles) THEN "cp_query"
        ELSE IF TooFewMembers THEN "cp_fetch" ELSE "node_query")
  /\ UNCHANGED <<api, handler, todo, tries, faults>>

\* __apply_available_budget: the first ExpectedNb of the sorted list, or none.
CpFetch ==
  /\ pc = "cp_fetch"
  /\ SomeWorkerFree
  /\ \E listing \in Listings :
       \/ /\ EnoughMachines(listing)
          /\ \E first \in SUBSET listing :
               /\ Cardinality(first) = ExpectedNb
               /\ \A x \in first, y \in listing \ first : x < y
               /\ todo' = first
          /\ Go("cp_affect")
       \/ /\ ~EnoughMachines(listing)
          /\ Go("cp_query")
          /\ UNCHANGED todo
  /\ UNCHANGED <<api, handler, tries, faults>>

\* _apply_everything: the node scheduler counts, lists, and takes all.
NodeQuery ==
  /\ pc = "node_query"
  /\ SomeWorkerFree
  /\ ~QueryFails(NodeRoles)
  /\ Go("node_fetch")
  /\ UNCHANGED <<api, handler, todo, tries, faults>>

\* Mutation: the nodes too are only affected in batches of ExpectedNb.
NodeFetchInBatches ==
  /\ pc = "node_fetch"
  /\ SomeWorkerFree
  /\ \E listing \in Listings :
       todo' = IF EnoughMachines(listing) THEN listing ELSE {}
  /\ Go(IF todo' = {} THEN "sync" ELSE "node_affect")
  /\ tries' = 0
  /\ UNCHANGED <<api, handler, faults>>

NodeFetch ==
  /\ pc = "node_fetch"
  /\ SomeWorkerFree
  /\ todo' \in Listings
  /\ Go(IF todo' = {} THEN "sync" ELSE "node_affect")
  /\ tries' = 0
  /\ UNCHANGED <<api, handler, faults>>

\* ConfigSyncSchedules.apply (module Deployment): it returns, the main loop
\* sleeps and starts over, or its last try raises and ends the plan.
Sync ==
  /\ pc = "sync"
  /\ pc' \in {"cp_query", "stopped"}
  /\ UNCHANGED <<api, handler, todo, tries, faults>>

\* An exception in _apply_everything: retried, raised on the last try.
NodeException ==
  /\ todo' = {}
  /\ \/ tries + 1 < NbTry /\ tries' = tries + 1 /\ Go("node_query")
     \/ tries + 1 = NbTry /\ tries' = 0 /\ Go("stopped")

NodeQueryFails ==
  /\ pc = "node_query"
  /\ SomeWorkerFree
  /\ QueryFails(NodeRoles)
  /\ NodeException
  /\ UNCHANGED <<api, handler, faults>>

-----------------------------------------------------------------------------
(* _affect: one POST per machine, its status ignored.                      *)

Affecting == [cp_affect |-> CPRoles, node_affect |-> NodeRoles]
WaitOf(roles) == IF roles = CPRoles THEN "cp_wait" ELSE "node_wait"
AffectOf(roles) == IF roles = CPRoles THEN "cp_affect" ELSE "node_affect"
DoneOf(roles) == IF roles = CPRoles THEN "node_query" ELSE "sync"

Affect(w) ==
  /\ pc \in DOMAIN Affecting
  /\ handler[w] = Idle
  /\ \E mac \in todo :
       /\ \A other \in todo : mac <= other
       /\ handler' = [handler EXCEPT ![w] =
                        [mac |-> mac, roles |-> Affecting[pc], client |-> "plan"]]
  /\ Go(WaitOf(Affecting[pc]))
  /\ UNCHANGED <<api, todo, tries, faults>>

\* Mutation: the loop posts the same machine again.
AnswerStays(w) ==
  /\ Go(IF handler[w].client = "plan" THEN AffectOf(handler[w].roles) ELSE pc)
  /\ UNCHANGED <<todo, tries>>

\* The answer reaches the plan if it is still there: on to the next machine.
Answer(w) ==
  IF handler[w].client = "plan"
    THEN /\ todo' = todo \ {handler[w].mac}
         /\ Go(IF todo' = {} THEN DoneOf(handler[w].roles) ELSE AffectOf(handler[w].roles))
         /\ UNCHANGED tries
    ELSE UNCHANGED plan

\* Mutation: the control plane scheduler reports success.
ConnectionErrorIsDone(roles) ==
  /\ todo' = {}
  /\ tries' = 0
  /\ Go(DoneOf(roles))

\* A ConnectionError: the control plane scheduler returns False and is called
\* again, the node scheduler returns 0 and the plan goes on to the sync.
ConnectionError(roles) ==
  /\ todo' = {}
  /\ tries' = 0
  /\ Go(IF roles = CPRoles THEN "cp_query" ELSE "sync")

\* Mutation: the machine is looked up by its boot interface.
CreateScheduleByBootMac(request) ==
  rows' = [m \in Uuids |-> IF request.mac = boot[m] THEN rows[m] \cup request.roles
                                                     ELSE rows[m]]

\* create_schedule: a MAC that is not in the database is logged and answered 200.
CreateSchedule(request) ==
  rows' = [m \in Uuids |-> IF request.mac \in nics[m] THEN rows[m] \cup request.roles
                                                     ELSE rows[m]]

Handle(w) ==
  /\ handler[w] # Idle
  /\ CreateSchedule(handler[w])
  /\ Answer(w)
  /\ handler' = [handler EXCEPT ![w] = Idle]
  /\ UNCHANGED <<nics, boot, faults>>

-----------------------------------------------------------------------------
(* Faults.                                                                 *)

Fault(kind) ==
  /\ kind \in Faults
  /\ faults < MaxFaults
  /\ faults' = faults + 1

\* The plan dies; the requests it sent stay with the API.
PlanCrash ==
  /\ Fault("plan_crash")
  /\ pc # "stopped"
  /\ Go("stopped")
  /\ todo' = {}
  /\ tries' = 0
  /\ handler' = [w \in Workers |-> IF handler[w] = Idle THEN Idle
                                   ELSE [handler[w] EXCEPT !.client = "gone"]]
  /\ UNCHANGED api

\* An exception in the sync: caught but for the last one.
SyncTriesAgain ==
  /\ pc = "sync"
  /\ pc' \in {"sync", "stopped"}
  /\ UNCHANGED <<todo, tries>>

\* The API does not accept the connection of a GET or of a POST.
Refused ==
  /\ Fault("refused")
  /\ \/ pc \in {"cp_query", "cp_fetch", "cp_affect"} /\ ConnectionError(CPRoles)
     \/ pc \in {"node_query", "node_fetch", "node_affect"} /\ ConnectionError(NodeRoles)
     \/ SyncTriesAgain
  /\ UNCHANGED <<api, handler>>

\* The worker dies before its transaction commits, or after it and before the
\* answer: the plan sees a ConnectionError either way.
WorkerLost(w) ==
  /\ Fault("worker_lost")
  /\ handler[w] # Idle
  /\ CreateSchedule(handler[w]) \/ UNCHANGED rows
  /\ IF handler[w].client = "plan" THEN ConnectionError(handler[w].roles) ELSE UNCHANGED plan
  /\ handler' = [handler EXCEPT ![w] = Idle]
  /\ UNCHANGED <<nics, boot>>

\* The database fails: the POST is rolled back and answered 500, which the
\* plan takes for an answer; the body of a GET is no JSON (ValueError).
HttpErrorOnPost(w) ==
  /\ Fault("http_error")
  /\ handler[w] # Idle
  /\ Answer(w)
  /\ handler' = [handler EXCEPT ![w] = Idle]
  /\ UNCHANGED api

HttpErrorOnGet ==
  /\ Fault("http_error")
  /\ \/ pc \in {"cp_query", "cp_fetch"} /\ Go("cp_query") /\ UNCHANGED <<todo, tries>>
     \/ pc \in {"node_query", "node_fetch"} /\ NodeException
     \/ SyncTriesAgain
  /\ UNCHANGED <<api, handler>>

-----------------------------------------------------------------------------
PlanStep ==
  \/ Start \/ CpQuery \/ CpFetch \/ NodeQuery \/ NodeQueryFails \/ NodeFetch \/ Sync
  \/ \E w \in Workers : Affect(w)

Next ==
  \/ \E r \in Reports : Discover(r)
  \/ PlanStep
  \/ \E w \in Workers : Handle(w) \/ WorkerLost(w) \/ HttpErrorOnPost(w)
  \/ PlanCrash
  \/ Refused
  \/ HttpErrorOnGet

\* The supervisor restarts the plan, the plan's loop never ends, and a worker
\* handles the request it accepted.  No fault and no discovery has to happen.
Fairness == WF_vars(PlanStep) /\ \A w \in Workers : WF_vars(Handle(w))

Spec == Init /\ [][Next]_vars
FairSpec == Spec /\ Fairness

-----------------------------------------------------------------------------
(* Properties.                                                             *)

ControlPlane == Holding(CPRoles)
Bootable == {m \in Uuids : boot[m] # NoMac}

\* The variables keep their types; a handler's client waits at the POST.
Labels == {"stopped", "cp_query", "cp_fetch", "cp_affect", "cp_wait",
           "node_query", "node_fetch", "node_affect", "node_wait", "sync"}
TypeOK ==
  /\ nics \in [Uuids -> SUBSET Macs]
  /\ boot \in [Uuids -> Macs \cup {NoMac}]
  /\ rows \in [Uuids -> SUBSET (CPRoles \cup NodeRoles)]
  /\ handler \in [Workers -> Request \cup {Idle}]
  /\ pc \in Labels
  /\ todo \in SUBSET Macs
  /\ tries \in 0 .. NbTry - 1
  /\ faults \in 0 .. MaxFaults

\* A machine is a control plane, a node, or neither: the two POSTs of the plan,
\* whatever was lost or repeated around them, never stack both tiers on it.
WholeTiers == \A m \in Uuids : rows[m] \in {{}, CPRoles, NodeRoles}

\* No machine becomes a node before the control plane has its expected number
\* of members: the order that Kubernetes2Tiers.apply enforces across restarts.
NodesAfterControlPlane ==
  (\E m \in Uuids : rows[m] = NodeRoles) => Cardinality(ControlPlane) >= ExpectedNb

\* However often a batch of _affect is interrupted and started again, the
\* control plane outgrows its expected number by less than one batch.
Limit == 2 * ExpectedNb - 1
ControlPlaneBound == Cardinality(ControlPlane) <= Limit

\* docs/matchbox.md: "if the cluster size is 5, the first 5 instances in
\* discovery will get this role", the others become nodes.
ControlPlaneIsExpected == Cardinality(ControlPlane) <= ExpectedNb

\* It takes a fault to get there: an undisturbed plan builds the expected number.
ExactWithoutFaults == faults = 0 => ControlPlaneIsExpected

\* The plan implements the abstract promise of module Tiers: at most one tier
\* per machine, for ever, nodes after the control plane, a bounded control plane.
Tier(m) == IF rows[m] = {} THEN "none"
           ELSE IF rows[m] = NodeRoles THEN "node" ELSE "control-plane"
Promise == INSTANCE Tiers WITH
  Machines <- Uuids, Quorum <- ExpectedNb, Size <- Cardinality, tier <- [m \in Uuids |-> Tier(m)]
ImplementsPromise == Promise!Spec

\* Without a fault, enough bootable machines are eventually given a complete
\* control plane.
ControlPlaneEventually ==
  [](faults = 0) =>
    (Cardinality(Bootable) >= ExpectedNb ~> Cardinality(ControlPlane) >= ExpectedNb)

\* Once there is a control plane, every bootable machine receives a tier.
EveryMachineServed ==
  \A m \in Uuids :
    m \in Bootable /\ Cardinality(ControlPlane) >= ExpectedNb ~> rows[m] # {}

-----------------------------------------------------------------------------
(* The inductive invariants behind the safety properties, for one API      *)
(* worker (gunicorn_workers is 1) and network cards that stay in their     *)
(* machine.                                                                *)

\* The MACs that the reports of m ever name.
Cards(m) == UNION {r.nics : r \in {s \in Reports : s.uuid = m}}

CardsStayHome == \A m, n \in Uuids : m # n => Cards(m) \cap Cards(n) = {}
OneWorker == \A v, w \in Workers : v = w

\* The MAC belongs to a machine without a tier.
Untiered(mac) == \A m \in Uuids : mac \in Cards(m) => rows[m] = {}

KnownCards == \A m \in Uuids : nics[m] \subseteq Cards(m)

\* The rest of the batch: machines without a tier, each once.
Batch ==
  /\ \A mac \in todo : Untiered(mac)
  /\ \A m \in Uuids : \A x, y \in todo \cap Cards(m) : x = y
  /\ pc \notin {"cp_affect", "cp_wait", "node_affect", "node_wait"} => todo = {}

\* A batch starts below the expected number and adds at most as many.
Room ==
  /\ pc = "cp_fetch" => Cardinality(ControlPlane) < ExpectedNb
  /\ pc \in {"cp_affect", "cp_wait"} => Cardinality(ControlPlane) + Cardinality(todo) <= Limit

\* A request in a worker is the plan's current one, or that of a plan that died
\* since: then no GET was served yet, the only worker being busy.
InFlight ==
  \A w \in Workers : handler[w] # Idle =>
    /\ Untiered(handler[w].mac)
    /\ handler[w].roles = CPRoles => Cardinality(ControlPlane) < Limit
    /\ handler[w].client = "plan" => /\ pc = WaitOf(handler[w].roles)
                                     /\ handler[w].mac \in todo
    /\ handler[w].client = "gone" => pc \in {"stopped", "cp_query"}

\* Enough for WholeTiers and ControlPlaneBound, under every fault and with
\* machines that report other cards at another discovery.
IInv ==
  /\ TypeOK
  /\ WholeTiers
  /\ ControlPlaneBound
  /\ KnownCards
  /\ Batch
  /\ Room
  /\ InFlight

\* What a machine reported, it keeps reporting.
SameFacts == \A r, s \in Reports : r.uuid = s.uuid => r = s

\* The order of the tiers needs more: the POSTs of a batch find their machine.
Found(mac) == \E m \in Uuids : mac \in nics[m]

EnoughMembers ==
  /\ pc \in {"cp_affect", "cp_wait"} =>
       Cardinality(ControlPlane) + Cardinality(todo) >= ExpectedNb
  /\ pc \in {"node_query", "node_fetch", "node_affect", "node_wait", "sync"} =>
       Cardinality(ControlPlane) >= ExpectedNb
  /\ \A w \in Workers : handler[w] # Idle /\ handler[w].roles = NodeRoles =>
       Cardinality(ControlPlane) >= ExpectedNb

OrderInv ==
  /\ IInv
  /\ NodesAfterControlPlane
  /\ \A r \in Reports : nics[r.uuid] \in {{}, r.nics}
  /\ \A mac \in todo : Found(mac)
  /\ EnoughMembers
=============================================================================

------------------------------ MODULE ApiProofs ------------------------------
(* What Api promises for every number of workers, machines and cards.        *)
EXTENDS Api, FiniteSetTheorems, TLAPS

(* Types.  What a worker has in hand fits the step it is at. *)
\* The steps of a request that names a card.
CardSteps == {"find", "upsert", "ipxe", "state_read", "state_write", "fetch", "inject", "store",
              "schedule_read", "schedule_write"}
InHand(w) ==
  /\ at[w] # "idle" => w \in traffic.workers
  /\ at[w] \in CardSteps => req[w].mac \in Macs
  /\ at[w] \in {"lock_get", "lock_set"} => req[w].mac \in Macs
  /\ at[w] \in {"find", "upsert"} => req[w].value \in Reports
  /\ at[w] = "upsert" => seen[w].machine \in 0 .. Len(machine)
  /\ at[w] \in {"ipxe", "state_read", "state_write"} => goal[w] \in StateNames
  /\ at[w] = "state_write" => seen[w].machine \in 0 .. Len(machine)
  /\ at[w] \in {"fetch", "inject", "store"} => req[w].kind \in {"install", "ignition", "policy"}
  /\ at[w] \in {"store", "schedule_write"} => seen[w].machine \in 1 .. Len(machine)
\* The tables as sequences of rows.
RowsInOrder ==
  /\ DOMAIN life = Tables
  /\ \A t \in Tables : Len(life[t]) \in Nat /\ DOMAIN life[t] = 1 .. Len(life[t])
Shapes ==
  /\ DOMAIN req = Workers /\ DOMAIN goal = Workers /\ DOMAIN seen = Workers
  /\ RowsInOrder
TypeInv == ApiTypeOK /\ Shapes /\ \A w \in Workers : InHand(w)

LEMMA InitTypes == Init => TypeInv
<1> SUFFICES ASSUME Init PROVE TypeInv
  OBVIOUS
<1>1. traffic \in Traffics /\ at \in [Workers -> Steps] /\ granted \in Nat
  BY DEF Init, Steps
<1>2. TablesTypeOK
  <2>1. machine \in Seq(Uuids) /\ Len(machine) = 0
    BY DEF Init, RepositoriesInit
  <2>2. iface \in [Macs -> [machine: 0 .. Len(machine), boot: BOOLEAN]]
    BY <2>1 DEF Init, RepositoriesInit, NoId
  <2>3. states \in [Macs -> [machine: 0 .. Len(machine), name: StateNames \union {NoState}]]
    BY <2>1 DEF Init, RepositoriesInit, NoId
  <2>4. \A t \in Tables : DOMAIN life[t] = {}
    BY DEF Init, RepositoriesInit
  <2> QED BY <2>1, <2>2, <2>3, <2>4 DEF TablesTypeOK
<1>3. Shapes
  <2>1. DOMAIN life = Tables /\ \A t \in Tables : life[t] = <<>>
    BY DEF Init, RepositoriesInit
  <2>2. RowsInOrder
    BY <2>1 DEF RowsInOrder
  <2> QED BY <2>2 DEF Init, Shapes
<1>4. \A w \in Workers : InHand(w)
  BY DEF Init, InHand, CardSteps
<1> QED BY <1>1, <1>2, <1>3, <1>4 DEF TypeInv, ApiTypeOK

LEMMA RequestFits ==
  ASSUME TypeInv, NEW kind \in Kinds, NEW r \in Requests(kind)
  PROVE  /\ r.kind = kind
         /\ kind \notin {"version", "list", "health", "shutdown"} => r.mac \in Macs
         /\ kind = "discovery" => r.value \in Reports
<1>1. traffic.reports \subseteq Reports
  BY TrafficsAreKnown DEF TypeInv, ApiTypeOK, Traffic
<1>2. BootCards \subseteq Macs
  BY <1>1, ReportsAreFacts DEF BootCards
<1>3. CASE kind = "discovery"  BY <1>1, <1>3, ReportsAreFacts DEF Requests, Request
<1>4. CASE kind = "install"    BY <1>2, <1>4 DEF Requests, Request
<1>5. CASE kind = "ignition"   BY <1>2, <1>5 DEF Requests, Request
<1>6. CASE kind = "policy"     BY <1>2, <1>6 DEF Requests, Request
<1>7. CASE kind = "schedule"   BY <1>2, <1>7 DEF Requests, Request
<1>8. CASE kind \in {"version", "list", "health", "shutdown"}  BY <1>8 DEF Requests, Request
<1>9. CASE kind \in {"boot", "authorize"}  BY <1>2, <1>9 DEF Requests, Request
<1> QED BY <1>3, <1>4, <1>5, <1>6, <1>7, <1>8, <1>9 DEF Kinds

\* A step of worker w leaves what the others have in hand.
Others(w) ==
  /\ DOMAIN req' = Workers /\ DOMAIN goal' = Workers /\ DOMAIN seen' = Workers
  /\ \A v \in Workers : v # w =>
       at'[v] = at[v] /\ req'[v] = req[v] /\ goal'[v] = goal[v] /\ seen'[v] = seen[v]

LEMMA WorkerMoves ==
  ASSUME TypeInv, NEW w \in Workers, Others(w),
         at' \in [Workers -> Steps], traffic' = traffic, granted' \in Nat,
         TablesTypeOK', RowsInOrder', Len(machine) <= Len(machine'), InHand(w)'
  PROVE  TypeInv'
<1>1. \A v \in Workers : InHand(v)'
  <2> SUFFICES ASSUME NEW v \in Workers, v # w PROVE InHand(v)'
    OBVIOUS
  <2>1. InHand(v) /\ Len(machine) \in Nat /\ Len(machine') \in Nat
    BY DEF TypeInv, ApiTypeOK, TablesTypeOK
  <2>2. at'[v] = at[v] /\ req'[v] = req[v] /\ goal'[v] = goal[v] /\ seen'[v] = seen[v]
    BY DEF Others
  <2> QED BY <2>1, <2>2 DEF InHand
<1> QED BY <1>1 DEF TypeInv, ApiTypeOK, Shapes, Others

\* Steps that write no table and authorize nobody.
LEMMA WorkerReads ==
  ASSUME TypeInv, NEW w \in Workers, Others(w), at' \in [Workers -> Steps],
         UNCHANGED <<tables, traffic, granted>>, InHand(w)'
  PROVE  TypeInv'
<1>1. TablesTypeOK' /\ RowsInOrder'
  BY DEF TypeInv, ApiTypeOK, Shapes, TablesTypeOK, RowsInOrder, RowsOf, tables
<1>2. Len(machine) <= Len(machine') /\ granted' \in Nat
  BY DEF TypeInv, ApiTypeOK, TablesTypeOK, tables
<1> QED BY <1>1, <1>2, WorkerMoves DEF tables

LEMMA GoesAlone ==
  ASSUME TypeInv, NEW w \in Workers, NEW step \in Steps, NEW read, Goes(w, step, read)
  PROVE  /\ at' \in [Workers -> Steps] /\ at'[w] = step
         /\ seen'[w] = read
         /\ DOMAIN seen' = Workers
         /\ \A v \in Workers : v # w => at'[v] = at[v] /\ seen'[v] = seen[v]
BY DEF TypeInv, ApiTypeOK, Shapes, Goes

LEMMA AnswersAlone ==
  ASSUME TypeInv, NEW w \in Workers, Answers(w)
  PROVE  /\ Others(w) /\ at' \in [Workers -> Steps] /\ at'[w] = "idle"
         /\ InHand(w)'
<1>1. "idle" \in Steps /\ Goes(w, "idle", Unread)
  BY DEF Steps, Answers
<1>2. /\ at' \in [Workers -> Steps] /\ at'[w] = "idle" /\ DOMAIN seen' = Workers
      /\ \A v \in Workers : v # w => at'[v] = at[v] /\ seen'[v] = seen[v]
  BY <1>1, GoesAlone
<1>3. Others(w)
  BY <1>2 DEF Others, Answers, TypeInv, Shapes
<1>4. InHand(w)'
  BY <1>2 DEF InHand, CardSteps
<1> QED BY <1>2, <1>3, <1>4

LEMMA StartTypes ==
  ASSUME TypeInv, NEW w \in Workers, NEW kind \in Kinds, Start(w, kind)
  PROVE  TypeInv'
<1>1. PICK r \in Requests(kind) :
        /\ req' = [req EXCEPT ![w] = r]
        /\ goal' = [goal EXCEPT ![w] = IF kind = "boot" THEN "booting" ELSE r.value]
  BY DEF Start
<1>2. at' = [at EXCEPT ![w] = Entry[kind]] /\ at \in [Workers -> Steps] /\ Entry[kind] \in Steps
  BY DEF Start, TypeInv, ApiTypeOK, Kinds, Entry, Steps
<1>3. at' \in [Workers -> Steps] /\ at'[w] = Entry[kind]
  BY <1>2
<1>4. Others(w) /\ req'[w] = r /\ goal'[w] = IF kind = "boot" THEN "booting" ELSE r.value
  BY <1>1, <1>2 DEF Others, Start, TypeInv, Shapes
<1>5. UNCHANGED <<tables, traffic, granted>> /\ w \in traffic.workers
  BY DEF Start, history
<1>6. InHand(w)'
  BY <1>3, <1>4, <1>5, RequestFits DEF InHand, CardSteps, Entry, Kinds, StateNames
<1> QED BY <1>3, <1>4, <1>5, <1>6, WorkerReads

\* A worker goes on with its request.
LEMMA GoesOn ==
  ASSUME TypeInv, NEW w \in Workers, NEW step \in Steps, NEW read, Goes(w, step, read),
         req' = req, NEW g, goal' = goal \/ goal' = [goal EXCEPT ![w] = g]
  PROVE  /\ Others(w) /\ at' \in [Workers -> Steps]
         /\ at'[w] = step /\ seen'[w] = read /\ req'[w] = req[w]
         /\ goal' = goal => goal'[w] = goal[w]
         /\ goal' = [goal EXCEPT ![w] = g] => goal'[w] = g
<1>1. /\ at' \in [Workers -> Steps] /\ at'[w] = step /\ seen'[w] = read /\ DOMAIN seen' = Workers
      /\ \A v \in Workers : v # w => at'[v] = at[v] /\ seen'[v] = seen[v]
  BY GoesAlone
<1> QED BY <1>1 DEF Others, TypeInv, Shapes

LEMMA Types ==
  ASSUME TypeInv
  PROVE  /\ machine \in Seq(Uuids) /\ Len(machine) \in Nat /\ DOMAIN machine = 1 .. Len(machine)
         /\ iface \in [Macs -> [machine: 0 .. Len(machine), boot: BOOLEAN]]
         /\ states \in [Macs -> [machine: 0 .. Len(machine), name: StateNames \union {NoState}]]
         /\ at \in [Workers -> Steps] /\ granted \in Nat
         /\ \A w \in Workers : InHand(w)
BY DEF TypeInv, ApiTypeOK, TablesTypeOK

LEMMA OwnersAreMachines ==
  ASSUME TypeInv, NEW mac \in Macs
  PROVE  OwnerOf(mac) \in 0 .. Len(machine)
BY Types DEF OwnerOf

\* The first steps of POST /discovery and of MachineStateRepository.update.
LEMMA FindTypes ==
  ASSUME TypeInv, NEW w \in Workers, Find(w)
  PROVE  TypeInv'
<1>1. UNCHANGED <<tables, traffic, granted>> /\ at[w] = "find"
  BY DEF Find, At, history
<1>2. PICK id \in First(MachinesWith(req[w].value.uuid)) :
        Goes(w, "upsert", [Unread EXCEPT !.machine = id])
  BY DEF Find
<1>3. id \in 0 .. Len(machine) /\ "upsert" \in Steps
  BY Types DEF First, MachinesWith, NoId, Steps
<1>4. Others(w) /\ at' \in [Workers -> Steps] /\ at'[w] = "upsert" /\ req'[w] = req[w]
      /\ seen'[w] = [Unread EXCEPT !.machine = id]
  BY <1>2, <1>3, GoesOn DEF Find
<1>5. seen'[w].machine = id
  BY <1>4 DEF Unread
<1>6. InHand(w)'
  BY <1>1, <1>3, <1>4, <1>5, Types DEF InHand, CardSteps, tables
<1> QED BY <1>1, <1>4, <1>6, WorkerReads

LEMMA StateReadTypes ==
  ASSUME TypeInv, NEW w \in Workers, StateRead(w)
  PROVE  TypeInv'
<1> DEFINE read == [machine |-> OwnerOf(req[w].mac), row |-> NoId, was |-> states[req[w].mac]]
<1>1. UNCHANGED <<tables, traffic, granted>> /\ at[w] = "state_read"
  BY DEF StateRead, At, history
<1>2. Goes(w, "state_write", read) /\ "state_write" \in Steps /\ req' = req /\ goal' = goal
  BY DEF StateRead, Steps
<1>3. Others(w) /\ at' \in [Workers -> Steps] /\ at'[w] = "state_write" /\ req'[w] = req[w]
      /\ seen'[w] = read /\ goal'[w] = goal[w]
  BY <1>2, GoesOn
<1>4. req[w].mac \in Macs
  BY <1>1, Types DEF InHand, CardSteps
<1>5. seen'[w].machine \in 0 .. Len(machine)
  BY <1>3, <1>4, OwnersAreMachines
<1>6. InHand(w)'
  BY <1>1, <1>3, <1>4, <1>5, Types DEF InHand, CardSteps, tables
<1> QED BY <1>1, <1>3, <1>6, WorkerReads

LEMMA AnswerTypes ==
  ASSUME TypeInv, NEW w \in Workers, Answers(w), UNCHANGED <<tables, traffic, granted>>
  PROVE  TypeInv'
BY AnswersAlone, WorkerReads

\* Steps that ask nothing of what the worker has in hand.
LEMMA FreeStepTypes ==
  ASSUME TypeInv, NEW w \in Workers, NEW step \in Steps \ CardSteps, NEW read,
         Goes(w, step, read), UNCHANGED <<tables, traffic, granted, req>>,
         NEW g, goal' = goal \/ goal' = [goal EXCEPT ![w] = g],
         at[w] # "idle", step # "lock_get", step = "lock_set" => req[w].mac \in Macs
  PROVE  TypeInv'
<1>1. Others(w) /\ at' \in [Workers -> Steps] /\ at'[w] = step /\ req'[w] = req[w]
  BY GoesOn
<1>2. InHand(w)'
  BY <1>1, Types DEF InHand, CardSteps
<1> QED BY <1>1, <1>2, WorkerReads

LEMMA IpxeTypes ==
  ASSUME TypeInv, NEW w \in Workers, Ipxe(w)
  PROVE  TypeInv'
<1>1. UNCHANGED <<tables, traffic, granted>> /\ at[w] = "ipxe"
  BY DEF Ipxe, At, history
<1>2. CASE Answers(w)
  BY <1>1, <1>2, AnswerTypes
<1>3. CASE Goes(w, "state_read", Unread) /\ UNCHANGED <<req, goal>>
  <2>1. "state_read" \in Steps
    BY DEF Steps
  <2>2. Others(w) /\ at' \in [Workers -> Steps] /\ at'[w] = "state_read" /\ req'[w] = req[w]
        /\ goal'[w] = goal[w]
    BY <1>3, <2>1, GoesOn
  <2>3. InHand(w)'
    BY <1>1, <2>2, Types DEF InHand, CardSteps
  <2> QED BY <1>1, <2>2, <2>3, WorkerReads
<1> QED BY <1>2, <1>3 DEF Ipxe

LEMMA LockGetTypes ==
  ASSUME TypeInv, NEW w \in Workers, LockGet(w)
  PROVE  TypeInv'
<1>1. UNCHANGED <<tables, traffic, granted, req>> /\ at[w] = "lock_get"
  BY DEF LockGet, At, history
<1>2. req[w].mac \in Macs
  BY <1>1, Types DEF InHand
<1>3. CASE Goes(w, "lock_set", Unread) /\ goal' = goal
  <2>1. "lock_set" \in Steps \ CardSteps
    BY DEF Steps, CardSteps
  <2> QED BY <1>1, <1>2, <1>3, <2>1, FreeStepTypes
<1>4. CASE Goes(w, "state_read", Unread) /\ goal' = [goal EXCEPT ![w] = "os_installation_denied"]
  <2>1. "state_read" \in Steps
    BY DEF Steps
  <2>2. Others(w) /\ at' \in [Workers -> Steps] /\ at'[w] = "state_read" /\ req'[w] = req[w]
        /\ goal'[w] = "os_installation_denied"
    BY <1>1, <1>4, <2>1, GoesOn
  <2>3. InHand(w)'
    BY <1>1, <1>2, <2>2, Types DEF InHand, CardSteps, StateNames
  <2> QED BY <1>1, <2>2, <2>3, WorkerReads
<1> QED BY <1>3, <1>4 DEF LockGet

LEMMA LockSetTypes ==
  ASSUME TypeInv, NEW w \in Workers, LockSet(w)
  PROVE  TypeInv'
<1>1. UNCHANGED <<tables, traffic, req>> /\ at[w] = "lock_set" /\ granted' = granted + 1
  BY DEF LockSet, At
<1>2. Goes(w, "state_read", Unread) /\ "state_read" \in Steps
      /\ goal' = [goal EXCEPT ![w] = "os_installation_granted"]
  BY DEF LockSet, Steps
<1>3. Others(w) /\ at' \in [Workers -> Steps] /\ at'[w] = "state_read" /\ req'[w] = req[w]
      /\ goal'[w] = "os_installation_granted"
  BY <1>1, <1>2, GoesOn
<1>4. InHand(w)'
  BY <1>1, <1>3, Types DEF InHand, CardSteps, StateNames
<1>5. TablesTypeOK' /\ RowsInOrder' /\ Len(machine) <= Len(machine') /\ granted' \in Nat
  BY <1>1, Types DEF TypeInv, ApiTypeOK, Shapes, TablesTypeOK, RowsInOrder, tables
<1> QED BY <1>1, <1>3, <1>4, <1>5, WorkerMoves

LEMMA FetchTypes ==
  ASSUME TypeInv, NEW w \in Workers, Fetch(w)
  PROVE  TypeInv'
<1>1. UNCHANGED <<tables, traffic, granted>> /\ at[w] = "fetch"
  BY DEF Fetch, At, history
<1>2. CASE Answers(w)
  BY <1>1, <1>2, AnswerTypes
<1>3. CASE "matchbox" \in running
  <2>1. /\ Goes(w, "inject", Unread) /\ req' = req /\ "inject" \in Steps
        /\ goal' = [goal EXCEPT ![w] = [up_to_date |-> req[w].value = served[req[w].mac]]]
    BY <1>3 DEF Fetch, Steps
  <2>2. Others(w) /\ at' \in [Workers -> Steps] /\ at'[w] = "inject" /\ req'[w] = req[w]
    BY <2>1, GoesOn
  <2>3. InHand(w)'
    BY <1>1, <2>2, Types DEF InHand, CardSteps
  <2> QED BY <1>1, <2>2, <2>3, WorkerReads
<1> QED BY <1>2, <1>3 DEF Fetch

LEMMA InjectTypes ==
  ASSUME TypeInv, NEW w \in Workers, Inject(w)
  PROVE  TypeInv'
<1> DEFINE id == OwnerOf(req[w].mac)
<1>1. UNCHANGED <<tables, traffic, granted>> /\ at[w] = "inject"
  BY DEF Inject, At
<1>2. CASE id = NoId
  BY <1>1, <1>2, AnswerTypes DEF Inject
<1>3. CASE id # NoId
  <2>1. PICK row \in First(RowsOf(req[w].kind, id)) :
          Goes(w, "store", [machine |-> id, row |-> row,
               was |-> IF row = NoId THEN goal[w] ELSE life[req[w].kind][row].columns])
    BY <1>3 DEF Inject
  <2>2. req' = req /\ goal' = goal /\ "store" \in Steps
    BY <1>3 DEF Inject, Steps
  <2>3. Others(w) /\ at' \in [Workers -> Steps] /\ at'[w] = "store" /\ req'[w] = req[w]
        /\ seen'[w].machine = id
    BY <2>1, <2>2, GoesOn
  <2>4. id \in 1 .. Len(machine)
    BY <1>1, <1>3, Types, OwnersAreMachines DEF InHand, CardSteps, NoId
  <2>5. InHand(w)'
    BY <1>1, <2>3, <2>4, Types DEF InHand, CardSteps, tables
  <2> QED BY <1>1, <2>3, <2>5, WorkerReads
<1> QED BY <1>2, <1>3

LEMMA ScheduleReadTypes ==
  ASSUME TypeInv, NEW w \in Workers, ScheduleRead(w)
  PROVE  TypeInv'
<1> DEFINE id == OwnerOf(req[w].mac)
<1>1. UNCHANGED <<tables, traffic, granted>> /\ at[w] = "schedule_read"
  BY DEF ScheduleRead, At, history
<1>2. CASE id = NoId
  BY <1>1, <1>2, AnswerTypes DEF ScheduleRead
<1>3. CASE id # NoId
  <2>1. Goes(w, "schedule_write", [machine |-> id, row |-> NoId, was |-> RolesOf(id)])
        /\ req' = req /\ goal' = goal /\ "schedule_write" \in Steps
    BY <1>3 DEF ScheduleRead, Steps
  <2>2. Others(w) /\ at' \in [Workers -> Steps] /\ at'[w] = "schedule_write" /\ req'[w] = req[w]
        /\ seen'[w].machine = id
    BY <2>1, GoesOn
  <2>3. id \in 1 .. Len(machine)
    BY <1>1, <1>3, Types, OwnersAreMachines DEF InHand, CardSteps, NoId
  <2>4. InHand(w)'
    BY <1>1, <2>2, <2>3, Types DEF InHand, CardSteps, tables
  <2> QED BY <1>1, <2>2, <2>4, WorkerReads
<1> QED BY <1>2, <1>3

\* The steps whose worker names no card any more, or only asks the cache.
LEMMA OtherStepTypes ==
  ASSUME TypeInv, NEW w \in Workers,
         \/ VersionsGet(w) \/ VersionsSet(w) \/ ListQuery(w) \/ ListSet(w)
         \/ HealthProbe(w) \/ HealthRead(w) \/ Take(w) \/ Stop(w) \/ Wait(w) \/ Quit(w)
  PROVE  TypeInv'
<1> USE DEF history
<1>0. {"versions_set", "list_set", "health_read", "health_write", "take", "stop", "wait"}
        \subseteq Steps \ CardSteps
  BY DEF Steps, CardSteps
<1>1. CASE VersionsGet(w)
  <2>1. /\ Goes(w, "versions_set", Unread) /\ UNCHANGED <<tables, traffic, granted, req>>
        /\ goal' = [goal EXCEPT ![w] = versions \union {req[w].value}] /\ at[w] # "idle"
    BY <1>1 DEF VersionsGet, At
  <2> QED BY <2>1, <1>0, FreeStepTypes
<1>2. CASE VersionsSet(w)
  BY <1>2, AnswerTypes DEF VersionsSet
<1>3. CASE ListQuery(w)
  <2>1. UNCHANGED <<tables, traffic, granted>> /\ at[w] # "idle"
    BY <1>3 DEF ListQuery, At
  <2>2. CASE Answers(w)
    BY <2>1, <2>2, AnswerTypes
  <2>3. CASE Goes(w, "list_set", Unread) /\ goal' = [goal EXCEPT ![w] = AllDiscovery] /\ req' = req
    BY <2>1, <2>3, <1>0, FreeStepTypes
  <2> QED BY <1>3, <2>2, <2>3 DEF ListQuery
<1>4. CASE ListSet(w)
  BY <1>4, AnswerTypes DEF ListSet
<1>5. CASE HealthProbe(w)
  <2>1. PICK new : Goes(w, "health_read", Unread) /\ goal' = [goal EXCEPT ![w] = new]
    BY <1>5 DEF HealthProbe
  <2>2. UNCHANGED <<tables, traffic, granted, req>> /\ at[w] # "idle"
    BY <1>5 DEF HealthProbe, At
  <2> QED BY <2>1, <2>2, <1>0, FreeStepTypes
<1>6. CASE HealthRead(w)
  <2>1. PICK read : Goes(w, "health_write", read)
    BY <1>6 DEF HealthRead
  <2>2. UNCHANGED <<tables, traffic, granted, req, goal>> /\ at[w] # "idle"
    BY <1>6 DEF HealthRead, At
  <2> QED BY <2>1, <2>2, <1>0, FreeStepTypes
<1>7. CASE Take(w)
  <2>1. PICK step, new : step \in {"take", "stop"} /\ Goes(w, step, Unread)
                         /\ goal' = [goal EXCEPT ![w] = new]
    BY <1>7 DEF Take
  <2>2. UNCHANGED <<tables, traffic, granted, req>> /\ at[w] # "idle"
    BY <1>7 DEF Take, At
  <2> QED BY <2>1, <2>2, <1>0, FreeStepTypes
<1>8. CASE Stop(w)
  <2>1. Goes(w, "wait", Unread) /\ UNCHANGED <<tables, traffic, granted, req, goal>> /\ at[w] # "idle"
    BY <1>8 DEF Stop, At
  <2> QED BY <2>1, <1>0, FreeStepTypes
<1>9. CASE Wait(w)
  <2>1. PICK new : Goes(w, "stop", Unread) /\ goal' = [goal EXCEPT ![w] = new]
    BY <1>9 DEF Wait
  <2>2. UNCHANGED <<tables, traffic, granted, req>> /\ at[w] # "idle"
    BY <1>9 DEF Wait, At
  <2> QED BY <2>1, <2>2, <1>0, FreeStepTypes
<1>10. CASE Quit(w)
  BY <1>10, AnswerTypes DEF Quit
<1> QED BY <1>1, <1>2, <1>3, <1>4, <1>5, <1>6, <1>7, <1>8, <1>9, <1>10

LEMMA NoWorkerTypes ==
  ASSUME TypeInv, UNCHANGED <<tables, traffic, workerVars>>, granted' \in Nat
  PROVE  TypeInv'
BY DEF TypeInv, ApiTypeOK, Shapes, RowsInOrder, TablesTypeOK, InHand, tables, workerVars

\* The commit of upsert.
LEMMA UpsertTypes ==
  ASSUME TypeInv, NEW w \in Workers, Upsert(w)
  PROVE  TypeInv'
<1> DEFINE report == req[w].value  found == seen[w].machine  id == RowFor(found)
<1>1. UNCHANGED <<states, life, traffic, granted>> /\ at[w] = "upsert"
  BY DEF Upsert, At, history
<1>2. CASE Conflict(report, id)
  BY <1>1, <1>2, AnswerTypes DEF Upsert, tables
<1>3. CASE ~Conflict(report, id)
  <2>1. /\ Upserted(report, found) /\ Goes(w, "state_read", Unread) /\ req' = req
        /\ goal' = [goal EXCEPT ![w] = "discovery"] /\ "state_read" \in Steps
    BY <1>3 DEF Upsert, Steps
  <2>2. report \in [uuid: Uuids, mac: Macs, macs: SUBSET Macs] /\ found \in 0 .. Len(machine)
    BY <1>1, Types, ReportsAreFacts DEF InHand
  <2>3. /\ machine' \in Seq(Uuids) /\ Len(machine) <= Len(machine')
        /\ Len(machine') \in Nat /\ id \in 0 .. Len(machine')
    BY <2>1, <2>2, Types DEF Upserted, RowFor, NoId
  <2>4. iface' \in [Macs -> [machine: 0 .. Len(machine'), boot: BOOLEAN]]
    BY <2>1, <2>2, <2>3, Types DEF Upserted, ReplacedInterfaces, OwnerOf, NoId
  <2>5. states' \in [Macs -> [machine: 0 .. Len(machine'), name: StateNames \union {NoState}]]
    BY <1>1, <2>3, Types
  <2>6. TablesTypeOK' /\ RowsInOrder'
    BY <1>1, <2>3, <2>4, <2>5, Types
       DEF TypeInv, ApiTypeOK, Shapes, TablesTypeOK, RowsInOrder
  <2>7. Others(w) /\ at' \in [Workers -> Steps] /\ at'[w] = "state_read" /\ req'[w] = req[w]
        /\ goal'[w] = "discovery"
    BY <2>1, GoesOn
  <2>8. InHand(w)'
    BY <1>1, <2>7, Types DEF InHand, CardSteps, StateNames
  <2> QED BY <1>1, <2>3, <2>6, <2>7, <2>8, Types, WorkerMoves
<1> QED BY <1>2, <1>3

\* The commit of MachineStateRepository.update.
LEMMA StateWriteTypes ==
  ASSUME TypeInv, NEW w \in Workers, StateWrite(w)
  PROVE  TypeInv'
<1> DEFINE mac == req[w].mac  was == seen[w].was
           new == [machine |-> seen[w].machine, name |-> goal[w]]
<1>1. UNCHANGED <<machine, iface, life, traffic, granted>> /\ at[w] = "state_write" /\ Answers(w)
  BY DEF StateWrite, At, history
<1>2. mac \in Macs /\ new \in [machine: 0 .. Len(machine), name: StateNames \union {NoState}]
  BY <1>1, Types DEF InHand, CardSteps
<1>3. Updated(states[mac], was, new) \in [machine: 0 .. Len(machine), name: StateNames \union {NoState}]
  BY <1>2, Types DEF Updated
<1>4. states' \in [Macs -> [machine: 0 .. Len(machine), name: StateNames \union {NoState}]]
  BY <1>2, <1>3, Types DEF StateWrite, StateUpdated
<1>5. TablesTypeOK' /\ RowsInOrder'
  BY <1>1, <1>4, Types DEF TypeInv, ApiTypeOK, Shapes, TablesTypeOK, RowsInOrder
<1> QED BY <1>1, <1>5, Types, AnswersAlone, WorkerMoves

\* A row is added to a table, or changed without its machine.
LEMMA StoredRows ==
  ASSUME TypeInv, NEW t \in Tables, NEW id, NEW row, NEW was, NEW new,
         LifeStored(t, id, row, was, new), machine' = machine, iface' = iface, states' = states,
         t = "health" \/ id \in 1 .. Len(machine)
  PROVE  TablesTypeOK' /\ RowsInOrder'
<1> DEFINE rows == life[t]  added == Append(rows, [machine |-> id, columns |-> new])
           changed == [rows EXCEPT ![row].columns =
                        Updated(rows[row].columns, was, Assigned(t, was, new))]
<1>1. life' = [life EXCEPT ![t] = IF row = NoId THEN added ELSE changed]
      /\ DOMAIN life = Tables /\ Len(rows) \in Nat /\ DOMAIN rows = 1 .. Len(rows)
  BY DEF LifeStored, TypeInv, Shapes, RowsInOrder
<1>2. /\ Len(added) = Len(rows) + 1 /\ DOMAIN added = 1 .. Len(rows) + 1
      /\ \A r \in 1 .. Len(rows) : added[r] = rows[r]
      /\ added[Len(rows) + 1].machine = id
  BY <1>1
<1>3. Len(changed) = Len(rows) /\ DOMAIN changed = DOMAIN rows
      /\ \A r \in DOMAIN rows : changed[r].machine = rows[r].machine
  BY <1>1
<1>4. RowsInOrder'
  BY <1>1, <1>2, <1>3 DEF TypeInv, Shapes, RowsInOrder
<1>5. \A s \in Tables \ {"health"} : \A r \in DOMAIN life'[s] : life'[s][r].machine \in DOMAIN machine
  <2> SUFFICES ASSUME NEW s \in Tables \ {"health"}, NEW r \in DOMAIN life'[s]
               PROVE  life'[s][r].machine \in DOMAIN machine
    OBVIOUS
  <2>1. \A q \in DOMAIN life[s] : life[s][q].machine \in DOMAIN machine
    BY DEF TypeInv, ApiTypeOK, TablesTypeOK
  <2>2. CASE s # t
    BY <1>1, <2>1, <2>2
  <2>3. CASE s = t /\ row = NoId
    BY <1>1, <1>2, <2>1, <2>3, Types
  <2>4. CASE s = t /\ row # NoId
    BY <1>1, <1>3, <2>1, <2>4
  <2> QED BY <2>2, <2>3, <2>4
<1>6. TablesTypeOK'
  BY <1>5, Types DEF TypeInv, ApiTypeOK, TablesTypeOK
<1> QED BY <1>4, <1>6

LEMMA StoreTypes ==
  ASSUME TypeInv, NEW w \in Workers, Store(w)
  PROVE  TypeInv'
<1> DEFINE t == req[w].kind  id == seen[w].machine
           name == IF goal[w].success THEN "installation_succeed" ELSE "installation_failed"
<1>1. UNCHANGED <<machine, iface, states, traffic, granted>> /\ at[w] = "store"
  BY DEF Store, At
<1>2. LifeStored(t, id, seen[w].row, seen[w].was, goal[w])
  BY DEF Store
<1>3. t \in Tables /\ id \in 1 .. Len(machine) /\ req[w].mac \in Macs /\ w \in traffic.workers
  BY <1>1, Types DEF InHand, CardSteps, Tables
<1>4. TablesTypeOK' /\ RowsInOrder' /\ Len(machine) <= Len(machine') /\ granted' \in Nat
  BY <1>1, <1>2, <1>3, StoredRows, Types
<1>5. CASE Answers(w)
  BY <1>1, <1>4, <1>5, AnswersAlone, WorkerMoves
<1>6. CASE Goes(w, "state_read", Unread) /\ req' = req /\ goal' = [goal EXCEPT ![w] = name]
  <2>1. "state_read" \in Steps
    BY DEF Steps
  <2>2. Others(w) /\ at' \in [Workers -> Steps] /\ at'[w] = "state_read" /\ req'[w] = req[w]
        /\ goal'[w] = name
    BY <1>6, <2>1, GoesOn
  <2>3. InHand(w)'
    BY <1>1, <1>3, <2>2 DEF InHand, CardSteps, StateNames
  <2> QED BY <1>1, <1>4, <2>2, <2>3, WorkerMoves
<1> QED BY <1>5, <1>6 DEF Store

LEMMA ScheduleWriteTypes ==
  ASSUME TypeInv, NEW w \in Workers, ScheduleWrite(w)
  PROVE  TypeInv'
<1> DEFINE row == [machine |-> seen[w].machine, columns |-> NewRoles(w)]
           rows == life["schedule"]
<1>1. UNCHANGED <<machine, iface, states, traffic, granted>> /\ at[w] = "schedule_write" /\ Answers(w)
  BY DEF ScheduleWrite, At, history
<1>2. CASE life' = life
  BY <1>1, <1>2, AnswerTypes DEF tables
<1>3. CASE life' = [life EXCEPT !["schedule"] = Append(@, row)]
  <2>1. DOMAIN life = Tables /\ Len(rows) \in Nat /\ DOMAIN rows = 1 .. Len(rows) /\ "schedule" \in Tables
    BY DEF TypeInv, Shapes, RowsInOrder, Tables
  <2>2. /\ Len(Append(rows, row)) = Len(rows) + 1 /\ DOMAIN Append(rows, row) = 1 .. Len(rows) + 1
        /\ \A r \in 1 .. Len(rows) : Append(rows, row)[r] = rows[r]
        /\ Append(rows, row)[Len(rows) + 1].machine = seen[w].machine
    BY <2>1
  <2>3. RowsInOrder'
    BY <1>3, <2>1, <2>2 DEF TypeInv, Shapes, RowsInOrder
  <2>4. seen[w].machine \in DOMAIN machine
    BY <1>1, Types DEF InHand
  <2>5. \A s \in Tables \ {"health"} : \A r \in DOMAIN life'[s] : life'[s][r].machine \in DOMAIN machine
    <3> SUFFICES ASSUME NEW s \in Tables \ {"health"}, NEW r \in DOMAIN life'[s]
                 PROVE  life'[s][r].machine \in DOMAIN machine
      OBVIOUS
    <3>1. \A q \in DOMAIN life[s] : life[s][q].machine \in DOMAIN machine
      BY DEF TypeInv, ApiTypeOK, TablesTypeOK
    <3>2. CASE s # "schedule"
      BY <1>3, <2>1, <3>1, <3>2
    <3>3. CASE s = "schedule"
      BY <1>3, <2>1, <2>2, <2>4, <3>1, <3>3
    <3> QED BY <3>2, <3>3
  <2>6. TablesTypeOK' /\ Len(machine) <= Len(machine') /\ granted' \in Nat
    BY <1>1, <2>5, Types DEF TypeInv, ApiTypeOK, TablesTypeOK
  <2> QED BY <1>1, <2>3, <2>6, AnswersAlone, WorkerMoves
<1> QED BY <1>2, <1>3 DEF ScheduleWrite

LEMMA HealthWriteTypes ==
  ASSUME TypeInv, NEW w \in Workers, HealthWrite(w)
  PROVE  TypeInv'
<1>1. UNCHANGED <<machine, iface, states, traffic, granted>> /\ Answers(w)
      /\ LifeStored("health", NoId, seen[w].row, Checked, Checked)
  BY DEF HealthWrite, history
<1>2. TablesTypeOK' /\ RowsInOrder' /\ Len(machine) <= Len(machine') /\ granted' \in Nat
  BY <1>1, StoredRows, Types DEF Tables
<1> QED BY <1>1, <1>2, AnswersAlone, WorkerMoves

LEMMA HandlerTypes ==
  ASSUME TypeInv, NEW w \in Workers, HandlerStep(w)
  PROVE  TypeInv'
BY FindTypes, UpsertTypes, IpxeTypes, StateReadTypes, StateWriteTypes, LockGetTypes, LockSetTypes,
   FetchTypes, InjectTypes, StoreTypes, ScheduleReadTypes, ScheduleWriteTypes, OtherStepTypes,
   HealthWriteTypes
   DEF HandlerStep

LEMMA NextTypes == TypeInv /\ [Next]_vars => TypeInv'
<1> SUFFICES ASSUME TypeInv, [Next]_vars PROVE TypeInv'
  OBVIOUS
<1>1. ASSUME NEW w \in Workers, NEW kind \in Kinds, Start(w, kind) PROVE TypeInv'
  BY <1>1, StartTypes
<1>2. ASSUME NEW w \in Workers, HandlerStep(w) PROVE TypeInv'
  BY <1>2, HandlerTypes
<1>3. ASSUME NEW w \in Workers, Abort(w) PROVE TypeInv'
  BY <1>3, AnswerTypes DEF Abort, history
<1>4. CASE LockExpires
  BY <1>4, NoWorkerTypes DEF LockExpires
<1>5. CASE ListExpires
  BY <1>5, NoWorkerTypes, Types DEF ListExpires, history
<1>6. ASSUME NEW mac \in Macs, Regenerate(mac) PROVE TypeInv'
  BY <1>6, NoWorkerTypes, Types DEF Regenerate, history
<1>7. ASSUME NEW mac \in Macs, Apply(mac) PROVE TypeInv'
  BY <1>7, NoWorkerTypes, Types DEF Apply, history
<1>8. ASSUME NEW process \in Processes, Exit(process) PROVE TypeInv'
  BY <1>8, NoWorkerTypes, Types DEF Exit, history
<1>9. CASE UNCHANGED vars
  BY <1>9, NoWorkerTypes, Types DEF vars, history
<1> QED BY <1>1, <1>2, <1>3, <1>4, <1>5, <1>6, <1>7, <1>8, <1>9 DEF Next

\* The tables keep their types and their foreign keys, and the steps of the
\* handlers theirs, whatever requests are interleaved and lost.
THEOREM ApiTypesHold == Spec => []ApiTypeOK
<1>1. TypeInv => ApiTypeOK
  BY DEF TypeInv
<1> QED BY <1>1, InitTypes, NextTypes, PTL DEF Spec

-----------------------------------------------------------------------------
(* The facts of a machine.  A worker that found its row still has that of    *)
(* the machine of its report; a card of each report of a machine is taken    *)
(* when another worker has stored one of them.                               *)
FoundItsMachine(w) ==
  at[w] = "upsert" /\ seen[w].machine # NoId => machine[seen[w].machine] = req[w].value.uuid
FactsInv ==
  /\ TypeInv
  /\ FactsOfOneReport /\ OneMachinePerUuid
  /\ \A w \in Workers : FoundItsMachine(w)

\* A worker that is at the step "upsert" after a step was there before, or has
\* just found its row.
LEMMA UpsertIsReached ==
  ASSUME TypeInv, [Next]_vars, NEW w \in Workers, at'[w] = "upsert"
  PROVE  \/ Find(w)
         \/ at[w] = "upsert" /\ seen'[w] = seen[w] /\ req'[w] = req[w]
<1> USE DEF workerVars
<1>1. at \in [Workers -> Steps] /\ DOMAIN seen = Workers /\ DOMAIN req = Workers
  BY DEF TypeInv, ApiTypeOK, Shapes
<1>2. ASSUME NEW v \in Workers, NEW kind \in Kinds, Start(v, kind)
      PROVE  at[w] = "upsert" /\ seen'[w] = seen[w] /\ req'[w] = req[w]
  BY <1>1, <1>2 DEF Start, Kinds, Entry
<1>3. ASSUME NEW v \in Workers, Answers(v)
      PROVE  at[w] = "upsert" /\ seen'[w] = seen[w] /\ req'[w] = req[w]
  BY <1>1, <1>3, AnswersAlone DEF Others
<1>4. ASSUME NEW v \in Workers, NEW step, NEW read, step # "upsert", Goes(v, step, read), req' = req
      PROVE  at[w] = "upsert" /\ seen'[w] = seen[w] /\ req'[w] = req[w]
  BY <1>1, <1>4 DEF Goes
<1>5. ASSUME NEW v \in Workers, HandlerStep(v), ~Find(v)
      PROVE  at[w] = "upsert" /\ seen'[w] = seen[w] /\ req'[w] = req[w]
  <2>1. \/ Answers(v)
        \/ \E step, read : step # "upsert" /\ Goes(v, step, read) /\ req' = req
    BY <1>5 DEF HandlerStep, Upsert, Ipxe, StateRead, StateWrite, LockGet, LockSet, Fetch, Inject,
                Store, ScheduleRead, ScheduleWrite, VersionsGet, VersionsSet, ListQuery, ListSet,
                HealthProbe, HealthRead, HealthWrite, Take, Stop, Wait, Quit
  <2> QED BY <2>1, <1>3, <1>4
<1>6. ASSUME NEW v \in Workers, Find(v) PROVE v = w \/ (at[w] = "upsert" /\ seen'[w] = seen[w] /\ req'[w] = req[w])
  BY <1>1, <1>6 DEF Find, Goes
<1>7. CASE UNCHANGED workerVars
  BY <1>7
<1> QED BY <1>2, <1>3, <1>5, <1>6, <1>7
        DEF Next, Abort, LockExpires, ListExpires, Regenerate, Apply, Exit, vars

\* Nothing else writes the machines and their interfaces.
LEMMA OnlyUpsertStores ==
  ASSUME [Next]_vars, \A w \in Workers : ~Upsert(w)
  PROVE  UNCHANGED <<machine, iface>>
BY DEF Next, HandlerStep, Start, Abort, LockExpires, ListExpires, Regenerate, Apply, Exit, vars, tables,
       Find, Ipxe, StateRead, StateWrite, LockGet, LockSet, Fetch, Inject, Store, ScheduleRead,
       ScheduleWrite, VersionsGet, VersionsSet, ListQuery, ListSet, HealthProbe, HealthRead,
       HealthWrite, Take, Stop, Wait, Quit

LEMMA UpsertKeepsFacts ==
  ASSUME FactsInv, NEW w \in Workers, Upsert(w)
  PROVE  /\ FactsOfOneReport' /\ OneMachinePerUuid'
         /\ Len(machine) <= Len(machine') /\ \A id \in DOMAIN machine : machine'[id] = machine[id]
<1> DEFINE report == req[w].value  found == seen[w].machine
<1> USE DEF FactsInv
<1>0. PICK new : new = RowFor(found)
  OBVIOUS
<1>1. at[w] = "upsert" /\ report \in Reports /\ found \in 0 .. Len(machine)
  BY Types DEF Upsert, At, InHand
<1>2. CASE Conflict(report, new)
  <2>1. UNCHANGED <<machine, iface>>
    BY <1>0, <1>2 DEF Upsert
  <2> QED BY <2>1, Types DEF FactsOfOneReport, OneMachinePerUuid, CardsOf
<1>3. CASE ~Conflict(report, new)
  <2>1. Upserted(report, found) /\ report.macs \subseteq Macs /\ report.uuid \in Uuids
    BY <1>0, <1>1, <1>3, ReportsAreFacts DEF Upsert
  <2>2. /\ new \in 1 .. Len(machine') /\ machine'[new] = report.uuid
        /\ Len(machine') \in Nat /\ DOMAIN machine' = 1 .. Len(machine')
        /\ DOMAIN machine' = DOMAIN machine \union {new}
        /\ \A id \in DOMAIN machine : machine'[id] = machine[id]
        /\ Len(machine) <= Len(machine')
        /\ found = NoId => new \notin DOMAIN machine
    BY <1>0, <1>1, <2>1, Types DEF Upserted, RowFor, NoId, FoundItsMachine
  <2>3. \A mac \in report.macs : OwnerOf(mac) \in {NoId, new}
    BY <1>3 DEF Conflict
  <2>4. iface' = ReplacedInterfaces(report, new)
    BY <1>0, <2>1 DEF Upserted
  <2>5. CardsOf(new)' = report.macs /\ \A mac \in report.macs : iface'[mac].boot <=> mac = report.mac
    <3>1. new # NoId
      BY <2>2, Types DEF NoId
    <3>2. ASSUME NEW mac \in Macs
          PROVE  /\ iface'[mac].machine = new <=> mac \in report.macs
                 /\ mac \in report.macs => (iface'[mac].boot <=> mac = report.mac)
      BY <2>4, <3>1 DEF ReplacedInterfaces, OwnerOf
    <3> QED BY <2>1, <3>2 DEF CardsOf
  <2>6. ASSUME NEW id \in DOMAIN machine, id # new
        PROVE  CardsOf(id)' = CardsOf(id) /\ \A mac \in CardsOf(id) : iface'[mac] = iface[mac]
    <3>1. id # NoId
      BY Types DEF NoId
    <3>2. ASSUME NEW mac \in Macs
          PROVE  (iface'[mac].machine = id <=> iface[mac].machine = id)
                 /\ (iface[mac].machine = id => iface'[mac] = iface[mac])
      BY <2>1, <2>3, <2>4, <2>6, <3>1 DEF ReplacedInterfaces, OwnerOf
    <3> QED BY <3>2 DEF CardsOf
  <2>7. FactsOfOneReport'
    <3> SUFFICES ASSUME NEW id \in DOMAIN machine'
                 PROVE  \E r \in Reports :
                          /\ r.uuid = machine'[id]
                          /\ CardsOf(id)' = r.macs
                          /\ \A mac \in r.macs : iface'[mac].boot <=> mac = r.mac
      BY DEF FactsOfOneReport
    <3>1. CASE id = new
      BY <1>1, <2>2, <2>5, <3>1
    <3>2. CASE id # new
      <4>1. PICK r \in Reports : r.uuid = machine[id] /\ CardsOf(id) = r.macs
                                 /\ \A mac \in r.macs : iface[mac].boot <=> mac = r.mac
        BY <2>2, <3>2 DEF FactsOfOneReport
      <4>2. id \in DOMAIN machine /\ machine'[id] = machine[id]
        BY <2>2, <3>2
      <4>3. CardsOf(id)' = CardsOf(id) /\ \A mac \in CardsOf(id) : iface'[mac] = iface[mac]
        BY <2>6, <3>2, <4>2
      <4>4. \A mac \in r.macs : iface'[mac] = iface[mac]
        BY <4>1, <4>3
      <4> QED BY <4>1, <4>2, <4>3, <4>4
    <3> QED BY <3>1, <3>2
  <2>8. ASSUME NEW id \in DOMAIN machine, id # new PROVE machine[id] # report.uuid
    <3>1. SUFFICES ASSUME machine[id] = report.uuid PROVE FALSE
      OBVIOUS
    <3>2. CASE found # NoId
      BY <1>0, <1>1, <2>8, <3>1, <3>2, Types DEF RowFor, OneMachinePerUuid, FoundItsMachine, NoId
    <3>3. CASE found = NoId
      <4>1. PICK r \in Reports : r.uuid = machine[id] /\ CardsOf(id) = r.macs
        BY DEF FactsOfOneReport
      <4>2. PICK mac \in r.macs : mac \in report.macs
        BY <1>1, <3>1, <4>1, CardsInCommon
      <4>3. OwnerOf(mac) = id
        BY <4>1, <4>2 DEF CardsOf, OwnerOf
      <4> QED BY <2>3, <2>8, <4>2, <4>3, Types DEF NoId
    <3> QED BY <3>2, <3>3
  <2>9. OneMachinePerUuid'
    BY <2>2, <2>8 DEF OneMachinePerUuid
  <2> QED BY <2>2, <2>7, <2>9
<1> QED BY <1>2, <1>3

\* Rows of machines are added and never changed.
LEMMA MachinesStay ==
  ASSUME FactsInv, [Next]_vars
  PROVE  /\ FactsOfOneReport' /\ OneMachinePerUuid'
         /\ Len(machine) <= Len(machine') /\ \A id \in DOMAIN machine : machine'[id] = machine[id]
<1>1. CASE \E w \in Workers : Upsert(w)
  BY <1>1, UpsertKeepsFacts
<1>2. CASE \A w \in Workers : ~Upsert(w)
  <2>1. UNCHANGED <<machine, iface>>
    BY <1>2, OnlyUpsertStores
  <2> QED BY <2>1, Types DEF FactsInv, FactsOfOneReport, OneMachinePerUuid, CardsOf
<1> QED BY <1>1, <1>2

LEMMA FactsStep == FactsInv /\ [Next]_vars => FactsInv'
<1> SUFFICES ASSUME FactsInv, [Next]_vars PROVE FactsInv'
  OBVIOUS
<1>1. TypeInv /\ TypeInv'
  BY NextTypes DEF FactsInv
<1>2. ASSUME NEW w \in Workers PROVE FoundItsMachine(w)'
  <2> SUFFICES ASSUME at'[w] = "upsert", seen'[w].machine # NoId
               PROVE  machine'[seen'[w].machine] = req'[w].value.uuid
    BY DEF FoundItsMachine
  <2>1. CASE Find(w)
    <3>1. PICK id \in First(MachinesWith(req[w].value.uuid)) :
            Goes(w, "upsert", [Unread EXCEPT !.machine = id])
      BY <2>1 DEF Find
    <3>2. seen'[w].machine = id /\ req' = req /\ machine' = machine
      BY <1>1, <2>1, <3>1 DEF Find, Goes, Unread, TypeInv, Shapes, tables
    <3> QED BY <3>1, <3>2 DEF First, MachinesWith
  <2>2. CASE at[w] = "upsert" /\ seen'[w] = seen[w] /\ req'[w] = req[w]
    <3>1. seen[w].machine \in DOMAIN machine
      BY <1>1, <2>2, Types DEF InHand, NoId
    <3> QED BY <2>2, <3>1, MachinesStay DEF FactsInv, FoundItsMachine
  <2> QED BY <1>1, <2>1, <2>2, UpsertIsReached
<1> QED BY <1>1, <1>2, MachinesStay DEF FactsInv

LEMMA FactsInit == Init => FactsInv
<1> SUFFICES ASSUME Init PROVE FactsInv
  OBVIOUS
<1>1. DOMAIN machine = {} /\ \A w \in Workers : at[w] # "upsert"
  BY DEF Init, RepositoriesInit
<1> QED BY <1>1, InitTypes DEF FactsInv, FactsOfOneReport, OneMachinePerUuid, FoundItsMachine

\* Whatever reports the workers store at once, a machine has the interfaces of
\* one of its reports, with the boot interface of that one.
THEOREM FactsAreWhole == Spec => []FactsOfOneReport
<1>1. FactsInv => FactsOfOneReport
  BY DEF FactsInv
<1> QED BY <1>1, FactsInit, FactsStep, PTL DEF Spec

\* Two workers that store the first reports of a machine leave it one row.
THEOREM UuidsAreUnique == Spec => []OneMachinePerUuid
<1>1. FactsInv => OneMachinePerUuid
  BY DEF FactsInv
<1> QED BY <1>1, FactsInit, FactsStep, PTL DEF Spec

-----------------------------------------------------------------------------
(* The states of the cards.  The machine_id of a state may be that of an     *)
(* interface that is gone, but it was the machine of its card.               *)
WasItsMachine(mac, id) == id # NoId => \E r \in Reports : r.uuid = machine[id] /\ mac \in r.macs
StatesInv ==
  /\ FactsInv
  /\ \A mac \in Macs : WasItsMachine(mac, states[mac].machine)
  /\ \A w \in Workers : at[w] = "state_write" => WasItsMachine(req[w].mac, seen[w].machine)

LEMMA StateWriteIsReached ==
  ASSUME TypeInv, [Next]_vars, NEW w \in Workers, at'[w] = "state_write"
  PROVE  \/ StateRead(w)
         \/ at[w] = "state_write" /\ seen'[w] = seen[w] /\ req'[w] = req[w]
<1> USE DEF workerVars
<1>1. at \in [Workers -> Steps] /\ DOMAIN seen = Workers /\ DOMAIN req = Workers
  BY DEF TypeInv, ApiTypeOK, Shapes
<1>2. ASSUME NEW v \in Workers, NEW kind \in Kinds, Start(v, kind)
      PROVE  at[w] = "state_write" /\ seen'[w] = seen[w] /\ req'[w] = req[w]
  BY <1>1, <1>2 DEF Start, Kinds, Entry
<1>3. ASSUME NEW v \in Workers, Answers(v)
      PROVE  at[w] = "state_write" /\ seen'[w] = seen[w] /\ req'[w] = req[w]
  BY <1>1, <1>3, AnswersAlone DEF Others
<1>4. ASSUME NEW v \in Workers, NEW step, NEW read, step # "state_write", Goes(v, step, read), req' = req
      PROVE  at[w] = "state_write" /\ seen'[w] = seen[w] /\ req'[w] = req[w]
  BY <1>1, <1>4 DEF Goes
<1>5. ASSUME NEW v \in Workers, HandlerStep(v), ~StateRead(v)
      PROVE  at[w] = "state_write" /\ seen'[w] = seen[w] /\ req'[w] = req[w]
  <2>1. \/ Answers(v)
        \/ \E step, read : step # "state_write" /\ Goes(v, step, read) /\ req' = req
    BY <1>5 DEF HandlerStep, Find, Upsert, Ipxe, StateWrite, LockGet, LockSet, Fetch, Inject,
                Store, ScheduleRead, ScheduleWrite, VersionsGet, VersionsSet, ListQuery, ListSet,
                HealthProbe, HealthRead, HealthWrite, Take, Stop, Wait, Quit
  <2> QED BY <2>1, <1>3, <1>4
<1>6. ASSUME NEW v \in Workers, StateRead(v)
      PROVE  v = w \/ (at[w] = "state_write" /\ seen'[w] = seen[w] /\ req'[w] = req[w])
  BY <1>1, <1>6 DEF StateRead, Goes
<1>7. CASE UNCHANGED workerVars
  BY <1>7
<1> QED BY <1>2, <1>3, <1>5, <1>6, <1>7
        DEF Next, Abort, LockExpires, ListExpires, Regenerate, Apply, Exit, vars

LEMMA OnlyUpdateWritesStates ==
  ASSUME [Next]_vars, \A w \in Workers : ~StateWrite(w)
  PROVE  states' = states
BY DEF Next, HandlerStep, Start, Abort, LockExpires, ListExpires, Regenerate, Apply, Exit, vars, tables,
       Find, Upsert, Ipxe, StateRead, LockGet, LockSet, Fetch, Inject, Store, ScheduleRead,
       ScheduleWrite, VersionsGet, VersionsSet, ListQuery, ListSet, HealthProbe, HealthRead,
       HealthWrite, Take, Stop, Wait, Quit

LEMMA StatesStep == StatesInv /\ [Next]_vars => StatesInv'
<1> SUFFICES ASSUME StatesInv, [Next]_vars PROVE StatesInv'
  OBVIOUS
<1> USE DEF StatesInv
<1>1. TypeInv /\ FactsInv /\ FactsInv'
  BY FactsStep DEF FactsInv
<1>2. ASSUME NEW mac, NEW id \in 0 .. Len(machine), WasItsMachine(mac, id) PROVE WasItsMachine(mac, id)'
  <2>1. CASE id = NoId
    BY <2>1 DEF WasItsMachine
  <2>2. CASE id # NoId
    <3>1. id \in DOMAIN machine
      BY <1>1, <2>2, Types DEF NoId
    <3>2. machine'[id] = machine[id]
      BY <1>1, <3>1, MachinesStay
    <3> QED BY <1>2, <2>2, <3>2 DEF WasItsMachine
  <2> QED BY <2>1, <2>2
<1>3. ASSUME NEW mac \in Macs PROVE WasItsMachine(mac, states[mac].machine)'
  <2>1. states[mac].machine \in 0 .. Len(machine) /\ WasItsMachine(mac, states[mac].machine)
    BY <1>1, Types
  <2>2. states'[mac].machine = states[mac].machine
        \/ \E w \in Workers : at[w] = "state_write" /\ req[w].mac = mac
                              /\ states'[mac].machine = seen[w].machine
    <3>1. ASSUME NEW w \in Workers, StateWrite(w), states' # states
          PROVE  /\ at[w] = "state_write"
                 /\ StateUpdated(req[w].mac, seen[w].was,
                                 [machine |-> seen[w].machine, name |-> goal[w]])
      BY <3>1 DEF StateWrite, At
    <3>2. ASSUME NEW w \in Workers, StateWrite(w), states' # states, req[w].mac = mac
          PROVE  states'[mac].machine \in {states[mac].machine, seen[w].machine}
      <4> DEFINE new == [machine |-> seen[w].machine, name |-> goal[w]]
      <4>1. states' = [states EXCEPT ![mac] = IF StateInserted(seen[w].was) THEN new
                                              ELSE Updated(states[mac], seen[w].was, new)]
        BY <3>1, <3>2 DEF StateUpdated
      <4>2. states'[mac] \in {new, Updated(states[mac], seen[w].was, new)}
        BY <1>1, <4>1, Types
      <4>3. Updated(states[mac], seen[w].was, new).machine \in {states[mac].machine, new.machine}
        <5>1. "machine" \in DOMAIN states[mac]
          BY <1>1, Types
        <5> QED BY <5>1 DEF Updated
      <4> QED BY <4>2, <4>3
    <3>3. ASSUME NEW w \in Workers, StateWrite(w), states' # states, req[w].mac # mac
          PROVE  states'[mac] = states[mac]
      BY <1>1, <3>1, <3>3, Types DEF StateUpdated
    <3> QED BY <3>1, <3>2, <3>3, OnlyUpdateWritesStates
  <2>3. PICK id \in 0 .. Len(machine) : WasItsMachine(mac, id) /\ states'[mac].machine = id
    BY <1>1, <2>1, <2>2, Types DEF InHand
  <2> QED BY <1>2, <2>3 DEF WasItsMachine
<1>4. ASSUME NEW w \in Workers, at'[w] = "state_write"
      PROVE  WasItsMachine(req[w].mac, seen[w].machine)'
  <2>1. CASE StateRead(w)
    <3>1. seen'[w].machine = OwnerOf(req[w].mac) /\ req' = req /\ req[w].mac \in Macs /\ machine' = machine
      BY <1>1, <2>1, Types DEF StateRead, Goes, At, InHand, CardSteps, TypeInv, Shapes, tables
    <3>2. PICK id : id = OwnerOf(req[w].mac)
      OBVIOUS
    <3>3. id \in 0 .. Len(machine)
      BY <1>1, <3>1, <3>2, OwnersAreMachines
    <3>4. CASE id # NoId
      <4>1. id \in DOMAIN machine /\ req[w].mac \in CardsOf(id)
        BY <1>1, <3>1, <3>2, <3>3, <3>4, Types DEF NoId, CardsOf, OwnerOf
      <4>2. PICK r \in Reports : r.uuid = machine[id] /\ CardsOf(id) = r.macs
        BY <1>1, <4>1 DEF FactsInv, FactsOfOneReport
      <4> QED BY <3>1, <3>2, <4>1, <4>2 DEF WasItsMachine
    <3> QED BY <3>1, <3>2, <3>4 DEF WasItsMachine
  <2>2. CASE at[w] = "state_write" /\ seen'[w] = seen[w] /\ req'[w] = req[w]
    <3>1. PICK mac, id : mac = req[w].mac /\ id = seen[w].machine
      OBVIOUS
    <3>2. id \in 0 .. Len(machine) /\ WasItsMachine(mac, id)
      BY <1>1, <2>2, <3>1, Types DEF InHand
    <3>3. WasItsMachine(mac, id)'
      BY <1>2, <3>2
    <3> QED BY <2>2, <3>1, <3>3 DEF WasItsMachine
  <2> QED BY <1>1, <1>4, <2>1, <2>2, StateWriteIsReached
<1> QED BY <1>1, <1>3, <1>4

LEMMA StatesInit == Init => StatesInv
<1> SUFFICES ASSUME Init PROVE StatesInv
  OBVIOUS
<1>1. \A mac \in Macs : states[mac].machine = NoId
  BY DEF Init, RepositoriesInit
<1>2. \A w \in Workers : at[w] # "state_write"
  BY DEF Init
<1> QED BY <1>1, <1>2, FactsInit DEF StatesInv, WasItsMachine

LEMMA ShownInv == StatesInv => StateShownForItsMachine
<1> SUFFICES ASSUME StatesInv, NEW mac \in Macs, NEW shown \in ShownUnder(mac), shown # mac
             PROVE  \E r, s \in Reports : r.uuid = s.uuid /\ mac \in r.macs /\ shown \in s.macs
  BY DEF StateShownForItsMachine
<1> DEFINE id == states[mac].machine
<1>1. id # NoId /\ shown \in CardsOf(id) /\ id \in DOMAIN machine
  BY Types DEF ShownUnder, StatesInv, FactsInv, NoId
<1>2. PICK r \in Reports : r.uuid = machine[id] /\ mac \in r.macs
  BY <1>1 DEF StatesInv, WasItsMachine
<1>3. PICK s \in Reports : s.uuid = machine[id] /\ CardsOf(id) = s.macs
  BY <1>1 DEF StatesInv, FactsInv, FactsOfOneReport
<1> QED BY <1>1, <1>2, <1>3

\* What a card reported is shown under a card of the same machine, whatever was
\* deleted or moved since its machine was read.
THEOREM StatesAreShownRight == Spec => []StateShownForItsMachine
BY ShownInv, StatesInit, StatesStep, PTL DEF Spec

-----------------------------------------------------------------------------
(* The lock of the installations, and the versions.                          *)

\* What a worker has in hand changes in its own steps.
LEMMA OnlyItsWorker ==
  ASSUME TypeInv, [Next]_vars, NEW w \in Workers
  PROVE  \/ at'[w] = at[w] /\ req'[w] = req[w] /\ goal'[w] = goal[w] /\ seen'[w] = seen[w]
         \/ \E kind \in Kinds : Start(w, kind)
         \/ HandlerStep(w)
         \/ Abort(w)
<1> USE DEF workerVars
<1>1. at \in [Workers -> Steps] /\ DOMAIN seen = Workers /\ DOMAIN req = Workers /\ DOMAIN goal = Workers
  BY DEF TypeInv, ApiTypeOK, Shapes
<1> DEFINE same == at'[w] = at[w] /\ req'[w] = req[w] /\ goal'[w] = goal[w] /\ seen'[w] = seen[w]
<1>2. ASSUME NEW v \in Workers, NEW kind \in Kinds, Start(v, kind), v # w PROVE same
  BY <1>1, <1>2 DEF Start
<1>3. ASSUME NEW v \in Workers, Answers(v), v # w PROVE same
  BY <1>1, <1>3, AnswersAlone DEF Others
<1>4. ASSUME NEW v \in Workers, HandlerStep(v), v # w PROVE same
  <2>1. \/ Answers(v)
        \/ \E step, read : Goes(v, step, read) /\ req' = req
                           /\ (goal' = goal \/ \E new : goal' = [goal EXCEPT ![v] = new])
    <3>1. CASE Find(v) \/ StateRead(v) \/ HealthRead(v) \/ Stop(v)
      BY <3>1 DEF Find, StateRead, HealthRead, Stop
    <3>2. CASE Upsert(v) \/ Ipxe(v) \/ Fetch(v) \/ LockGet(v) \/ LockSet(v) \/ ListQuery(v)
      BY <3>2 DEF Upsert, Ipxe, Fetch, LockGet, LockSet, ListQuery
    <3>3. CASE Inject(v) \/ Store(v) \/ ScheduleRead(v)
      BY <3>3 DEF Inject, Store, ScheduleRead
    <3>4. CASE VersionsGet(v) \/ HealthProbe(v) \/ Take(v) \/ Wait(v)
      BY <3>4 DEF VersionsGet, HealthProbe, Take, Wait
    <3>5. CASE StateWrite(v) \/ ScheduleWrite(v) \/ VersionsSet(v) \/ ListSet(v) \/ HealthWrite(v) \/ Quit(v)
      BY <3>5 DEF StateWrite, ScheduleWrite, VersionsSet, ListSet, HealthWrite, Quit
    <3> QED BY <1>4, <3>1, <3>2, <3>3, <3>4, <3>5 DEF HandlerStep
  <2> QED BY <1>1, <1>3, <1>4, <2>1 DEF Goes
<1>5. CASE UNCHANGED workerVars
  BY <1>5
<1> QED BY <1>2, <1>3, <1>4, <1>5
        DEF Next, Abort, LockExpires, ListExpires, Regenerate, Apply, Exit, vars

\* The workers that found the lock free and have not set it yet count already.
Setters == {w \in Workers : at[w] = "lock_set"}
GrantInv ==
  /\ TypeInv
  /\ ~locked => granted = 0
  /\ granted + Cardinality(Setters) <= Cardinality(traffic.workers)

LEMMA FewBusy ==
  ASSUME TypeInv, NEW busy \in SUBSET traffic.workers
  PROVE  /\ IsFiniteSet(busy) /\ Cardinality(busy) \in Nat
         /\ Cardinality(traffic.workers) \in Nat
         /\ Cardinality(busy) <= Cardinality(traffic.workers)
         /\ \A some \in SUBSET busy :
              Cardinality(some) \in Nat /\ Cardinality(some) <= Cardinality(busy)
         /\ \A w \in busy : Cardinality(busy \ {w}) = Cardinality(busy) - 1
<1>1. traffic.workers \subseteq Workers
  BY TrafficsAreKnown DEF TypeInv, ApiTypeOK, Traffic
<1>2. IsFiniteSet(traffic.workers)
  BY <1>1, WorkersAreFinite, FS_Subset
<1>3. IsFiniteSet(busy) /\ Cardinality(busy) <= Cardinality(traffic.workers)
  BY <1>2, FS_Subset
<1>4. \A some \in SUBSET busy : IsFiniteSet(some) /\ Cardinality(some) <= Cardinality(busy)
  BY <1>3, FS_Subset
<1>5. \A w \in busy : Cardinality(busy \ {w}) = Cardinality(busy) - 1
  BY <1>3, FS_RemoveElement
<1> QED BY <1>2, <1>3, <1>4, <1>5, FS_CardinalityType

LEMMA OnlyLockStepsGrant ==
  ASSUME [Next]_vars, ~LockExpires, \A w \in Workers : ~LockSet(w)
  PROVE  UNCHANGED <<locked, granted, traffic>>
BY DEF Next, HandlerStep, Start, Abort, LockExpires, ListExpires, Regenerate, Apply, Exit, vars,
       cacheVars, history, Find, Upsert, Ipxe, StateRead, StateWrite, LockGet, Fetch, Inject, Store,
       ScheduleRead, ScheduleWrite, VersionsGet, VersionsSet, ListQuery, ListSet, HealthProbe,
       HealthRead, HealthWrite, Take, Stop, Wait, Quit

LEMMA SettersLooked ==
  ASSUME TypeInv, [Next]_vars, NEW w \in Setters', w \notin Setters
  PROVE  LockGet(w) /\ ~locked
<1>1. w \in Workers /\ at'[w] = "lock_set" /\ at[w] # "lock_set" /\ at \in [Workers -> Steps]
  BY DEF Setters, TypeInv, ApiTypeOK
<1>2. ~Answers(w)
  BY <1>1, AnswersAlone
<1>3. ASSUME NEW kind \in Kinds PROVE ~Start(w, kind)
  BY <1>1 DEF Start, Kinds, Entry
<1>4. HandlerStep(w)
  BY <1>1, <1>2, <1>3, OnlyItsWorker DEF Abort
<1>5. LockGet(w)
  <2>1. ASSUME NEW step, NEW read, Goes(w, step, read) PROVE step = "lock_set"
    BY <1>1, <2>1 DEF Goes
  <2> QED BY <1>2, <1>4, <2>1
     DEF HandlerStep, Find, Upsert, Ipxe, StateRead, StateWrite, LockSet, Fetch, Inject, Store,
         ScheduleRead, ScheduleWrite, VersionsGet, VersionsSet, ListQuery, ListSet, HealthProbe,
         HealthRead, HealthWrite, Take, Stop, Wait, Quit
<1> QED BY <1>1, <1>5 DEF LockGet, Goes

LEMMA GrantStep == GrantInv /\ [Next]_vars => GrantInv'
<1> SUFFICES ASSUME GrantInv, [Next]_vars PROVE GrantInv'
  OBVIOUS
<1> USE DEF GrantInv
<1>1. TypeInv' /\ granted \in Nat /\ granted' \in Nat
  BY NextTypes, Types DEF TypeInv, ApiTypeOK
<1>2. Setters \subseteq traffic.workers /\ Setters' \subseteq traffic'.workers
  <2>1. \A w \in Workers : (at[w] # "idle" => w \in traffic.workers)
                           /\ (at'[w] # "idle" => w \in traffic'.workers)
    BY <1>1 DEF TypeInv, InHand
  <2> QED BY <2>1 DEF Setters
<1>3. CASE LockExpires
  <2>1. traffic' = traffic /\ granted' = 0
    BY <1>3 DEF LockExpires
  <2>2. Setters' \in SUBSET traffic.workers
    BY <1>2, <2>1
  <2>3. /\ Cardinality(Setters') \in Nat
        /\ Cardinality(Setters') <= Cardinality(traffic'.workers)
    BY <2>1, <2>2, FewBusy
  <2> QED BY <1>1, <2>1, <2>3
<1>4. ASSUME NEW w \in Workers, LockSet(w) PROVE GrantInv'
  <2>1. w \in Setters /\ traffic' = traffic /\ granted' = granted + 1 /\ locked' = TRUE
    BY <1>4 DEF LockSet, At, Setters
  <2>2. Setters' \subseteq Setters \ {w}
    BY <1>4 DEF LockSet, Goes, Setters, TypeInv, ApiTypeOK
  <2>3. /\ Cardinality(Setters) \in Nat /\ Cardinality(traffic.workers) \in Nat
        /\ Cardinality(Setters \ {w}) = Cardinality(Setters) - 1
    BY <1>2, <2>1, FewBusy
  <2>4. Cardinality(Setters') <= Cardinality(Setters \ {w}) /\ Cardinality(Setters') \in Nat
    <3>1. Setters \ {w} \in SUBSET traffic.workers
      BY <1>2
    <3> QED BY <2>2, <3>1, FewBusy
  <2> QED BY <1>1, <2>1, <2>3, <2>4
<1>5. CASE ~LockExpires /\ \A w \in Workers : ~LockSet(w)
  <2>1. UNCHANGED <<locked, granted, traffic>>
    BY <1>5, OnlyLockStepsGrant
  <2>2. CASE locked
    <3>1. Setters' \subseteq Setters
      BY <2>2, SettersLooked
    <3>2. /\ Cardinality(Setters) \in Nat /\ Cardinality(traffic.workers) \in Nat
          /\ Cardinality(Setters') <= Cardinality(Setters) /\ Cardinality(Setters') \in Nat
      BY <1>2, <3>1, FewBusy
    <3> QED BY <1>1, <2>1, <2>2, <3>2
  <2>3. CASE ~locked
    <3>1. Setters' \in SUBSET traffic.workers
      BY <1>2, <2>1
    <3>2. /\ Cardinality(Setters') \in Nat
          /\ Cardinality(Setters') <= Cardinality(traffic'.workers)
      BY <2>1, <3>1, FewBusy
    <3> QED BY <1>1, <2>1, <2>3, <3>2
  <2> QED BY <2>2, <2>3
<1> QED BY <1>3, <1>4, <1>5

LEMMA GrantInit == Init => GrantInv
<1> SUFFICES ASSUME Init PROVE GrantInv
  OBVIOUS
<1>1. Setters = {} /\ granted = 0
  BY DEF Init, Setters
<1>2. Cardinality(Setters) <= Cardinality(traffic.workers) /\ Cardinality(Setters) = 0
  BY <1>1, InitTypes, FewBusy, FS_EmptySet
<1> QED BY <1>1, <1>2, InitTypes DEF GrantInv

LEMMA GrantBound == GrantInv => GrantsBounded
<1> SUFFICES ASSUME GrantInv PROVE GrantsBounded
  OBVIOUS
<1>1. Setters \subseteq traffic.workers /\ granted \in Nat
  BY Types DEF GrantInv, Setters, InHand
<1>2. Cardinality(Setters) \in Nat /\ Cardinality(traffic.workers) \in Nat
  BY <1>1, FewBusy DEF GrantInv
<1> QED BY <1>1, <1>2 DEF GrantInv, GrantsBounded

\* While the lock lasts no more installations are granted than there are workers.
THEOREM WorkersBoundGrants == Spec => []GrantsBounded
BY GrantBound, GrantInit, GrantStep, PTL DEF Spec

-----------------------------------------------------------------------------
(* Shutdown.  The PID files go in the order of the processes, so that who    *)
(* has that of gunicorn knows that somebody has the two others, and waits    *)
(* for them before its own answer, without which gunicorn does not end.      *)
ShutSteps == {"take", "stop", "wait"}
Lefts == {<<"plan", "matchbox", "gunicorn">>, <<"matchbox", "gunicorn">>, <<"gunicorn">>, <<>>}

\* What a shutdown has in hand.
ShutFits(w) ==
  /\ at[w] \in ShutSteps =>
       /\ goal[w] \in [left: Lefts, taken: SUBSET Processes]
       /\ "gunicorn" \in goal[w].taken => "gunicorn" \notin pids
  /\ at[w] = "take" =>
       \/ goal[w].left = <<"plan", "matchbox", "gunicorn">>
       \/ goal[w].left = <<"matchbox", "gunicorn">> /\ "plan" \notin pids
       \/ goal[w].left = <<"gunicorn">> /\ "plan" \notin pids /\ "matchbox" \notin pids
InCharge(process) ==
  process \in pids \/ \E w \in Workers : at[w] \in ShutSteps /\ process \in goal[w].taken
ShutInv ==
  /\ TypeInv
  /\ running \subseteq Processes /\ faults \in Nat
  /\ \A w \in Workers : ShutFits(w)
  /\ "gunicorn" \notin pids => "plan" \notin pids /\ "matchbox" \notin pids
  /\ "gunicorn" \in stopping => "gunicorn" \notin pids
  /\ "gunicorn" \notin running => "gunicorn" \in stopping /\ \A w \in Workers : at[w] = "idle"
  /\ faults = 0 => \A process \in running \ {"gunicorn"} : InCharge(process)

LEMMA LeftsGoOn ==
  /\ \A left \in Lefts \ {<<>>} : Tail(left) \in Lefts /\ Head(left) \in Processes
  /\ Head(<<"plan", "matchbox", "gunicorn">>) = "plan"
  /\ Tail(<<"plan", "matchbox", "gunicorn">>) = <<"matchbox", "gunicorn">>
  /\ Head(<<"matchbox", "gunicorn">>) = "matchbox"
  /\ Tail(<<"matchbox", "gunicorn">>) = <<"gunicorn">>
  /\ Head(<<"gunicorn">>) = "gunicorn" /\ Tail(<<"gunicorn">>) = <<>>
  /\ <<"plan", "matchbox", "gunicorn">> # <<>> /\ <<"matchbox", "gunicorn">> # <<>>
  /\ <<"gunicorn">> # <<>>
<1>1. /\ Head(<<"plan", "matchbox", "gunicorn">>) = "plan"
      /\ Tail(<<"plan", "matchbox", "gunicorn">>) = <<"matchbox", "gunicorn">>
      /\ Head(<<"matchbox", "gunicorn">>) = "matchbox"
      /\ Tail(<<"matchbox", "gunicorn">>) = <<"gunicorn">>
      /\ Head(<<"gunicorn">>) = "gunicorn" /\ Tail(<<"gunicorn">>) = <<>>
  OBVIOUS
<1>2. Len(<<"plan", "matchbox", "gunicorn">>) = 3 /\ Len(<<"matchbox", "gunicorn">>) = 2
      /\ Len(<<"gunicorn">>) = 1 /\ Len(<<>>) = 0
  OBVIOUS
<1>3. /\ <<"plan", "matchbox", "gunicorn">> # <<>> /\ <<"matchbox", "gunicorn">> # <<>>
      /\ <<"gunicorn">> # <<>>
  BY <1>2
<1> QED BY <1>1, <1>3 DEF Lefts, Processes

LEMMA FirstIsNotGunicorn ==
  ASSUME NEW w
  PROVE  FirstTaken(w) \in Processes \ {"gunicorn"}
         /\ (FirstTaken(w) \notin goal[w].taken => goal[w].taken \intersect {"plan", "matchbox"} = {})
BY DEF FirstTaken, Processes

\* Who is at a step of a shutdown.
LEMMA ShutdownIsReached ==
  ASSUME TypeInv, [Next]_vars, NEW w \in Workers, at'[w] \in ShutSteps
  PROVE  \/ at'[w] = at[w] /\ goal'[w] = goal[w]
         \/ Start(w, "shutdown") \/ Take(w) \/ Stop(w) \/ Wait(w)
<1>1. ~Answers(w)
  BY AnswersAlone DEF ShutSteps
<1>2. ASSUME NEW kind \in Kinds, Start(w, kind) PROVE kind = "shutdown"
  BY <1>2 DEF Start, Kinds, Entry, ShutSteps, TypeInv, ApiTypeOK
<1>3. CASE HandlerStep(w)
  <2>1. ASSUME NEW step, NEW read, Goes(w, step, read) PROVE step \in ShutSteps
    BY <2>1 DEF Goes, TypeInv, ApiTypeOK
  <2>2. \/ Answers(w) \/ Take(w) \/ Stop(w) \/ Wait(w)
        \/ \E step, read : step \notin ShutSteps /\ Goes(w, step, read)
    BY <1>3 DEF HandlerStep, Find, Upsert, Ipxe, StateRead, StateWrite, LockGet, LockSet, Fetch, Inject,
                Store, ScheduleRead, ScheduleWrite, VersionsGet, VersionsSet, ListQuery, ListSet,
                HealthProbe, HealthRead, HealthWrite, Quit, ShutSteps
  <2> QED BY <1>1, <2>1, <2>2
<1> QED BY <1>1, <1>2, <1>3, OnlyItsWorker DEF Abort

\* Who leaves a step of a shutdown.
LEMMA ShutdownIsLeft ==
  ASSUME TypeInv, [Next]_vars, NEW w \in Workers, at[w] \in ShutSteps
  PROVE  \/ at'[w] = at[w] /\ goal'[w] = goal[w]
         \/ Take(w) \/ Stop(w) \/ Wait(w) \/ Quit(w) \/ Abort(w)
BY OnlyItsWorker
   DEF Start, HandlerStep, At, Find, Upsert, Ipxe, StateRead, StateWrite, LockGet, LockSet, Fetch,
       Inject, Store, ScheduleRead, ScheduleWrite, VersionsGet, VersionsSet, ListQuery, ListSet,
       HealthProbe, HealthRead, HealthWrite, ShutSteps

LEMMA OnlyShutdownStops ==
  ASSUME [Next]_vars, \A w \in Workers : ~Take(w) /\ ~Stop(w) /\ ~Quit(w)
  PROVE  pids' = pids /\ stopping' = stopping
         /\ (running' = running \/ \E process \in Processes : Exit(process))
BY DEF Next, HandlerStep, Start, Abort, LockExpires, ListExpires, Regenerate, Apply, Exit, vars,
       siteVars, processVars, Find, Upsert, Ipxe, StateRead, StateWrite, LockGet, LockSet, Fetch,
       Inject, Store, ScheduleRead, ScheduleWrite, VersionsGet, VersionsSet, ListQuery, ListSet,
       HealthProbe, HealthRead, HealthWrite, Wait

\* Processes stop, and are not started again; PID files are removed.
LEMMA ProcessesEnd ==
  ASSUME [Next]_vars
  PROVE  running' \subseteq running /\ pids' \subseteq pids /\ stopping \subseteq stopping'
<1>1. CASE \E w \in Workers : Take(w) \/ Stop(w) \/ Quit(w)
  BY <1>1 DEF Take, Stop, Quit
<1>2. CASE \A w \in Workers : ~Take(w) /\ ~Stop(w) /\ ~Quit(w)
  BY <1>2, OnlyShutdownStops DEF Exit
<1> QED BY <1>1, <1>2

LEMMA FaultsCount ==
  ASSUME [Next]_vars, faults \in Nat
  PROVE  faults' \in Nat /\ (faults' = 0 => faults = 0 /\ \A w \in Workers : ~Abort(w))
<1>1. ASSUME NEW w \in Workers, Abort(w) PROVE faults' = faults + 1
  BY <1>1 DEF Abort
<1>2. ASSUME NEW w \in Workers, HandlerStep(w) PROVE faults' = faults
  BY <1>2 DEF HandlerStep, bounds, Find, Upsert, Ipxe, StateRead, StateWrite, LockGet, LockSet, Fetch,
       Inject, Store, ScheduleRead, ScheduleWrite, VersionsGet, VersionsSet, ListQuery, ListSet,
       HealthProbe, HealthRead, HealthWrite, Take, Stop, Wait, Quit
<1>3. CASE \A w \in Workers : ~Abort(w)
  <2>1. faults' = faults
    BY <1>2, <1>3 DEF Next, Start, LockExpires, ListExpires, Regenerate, Apply, Exit, vars, bounds
  <2> QED BY <1>3, <2>1
<1> QED BY <1>1, <1>3

LEMMA ShutdownFits ==
  ASSUME ShutInv, [Next]_vars, NEW w \in Workers
  PROVE  ShutFits(w)'
<1> USE DEF ShutInv
<1>1. CASE at'[w] \notin ShutSteps
  BY <1>1 DEF ShutFits, ShutSteps
<1>2. CASE at'[w] = at[w] /\ goal'[w] = goal[w]
  <2>1. pids' \subseteq pids /\ ShutFits(w)
    BY ProcessesEnd
  <2> QED BY <1>2, <2>1 DEF ShutFits
<1>3. CASE Start(w, "shutdown")
  <2>1. PICK r \in Requests("shutdown") :
          goal' = [goal EXCEPT ![w] = IF "shutdown" = "boot" THEN "booting" ELSE r.value]
    BY <1>3 DEF Start
  <2>2. r.value = NothingTaken
    BY DEF Requests, Request
  <2>3. goal'[w] = NothingTaken
    BY <2>1, <2>2 DEF TypeInv, Shapes
  <2>4. at'[w] = "take"
    BY <1>3 DEF Start, Entry, TypeInv, ApiTypeOK
  <2> QED BY <2>3, <2>4 DEF ShutFits, NothingTaken, Lefts
<1>4. CASE Take(w)
  <2> DEFINE process == Head(goal[w].left)  left == Tail(goal[w].left)
             taken == goal[w].taken \union ({process} \intersect pids \intersect running)
  <2>1. /\ at[w] = "take" /\ goal[w] \in [left: Lefts, taken: SUBSET Processes]
        /\ goal[w].left \in Lefts \ {<<>>} /\ ShutFits(w)
    BY <1>4, LeftsGoOn DEF Take, At, ShutFits, ShutSteps
  <2>2. goal'[w] = [left |-> left, taken |-> taken] /\ pids' = pids \ {process}
    BY <1>4, <2>1 DEF Take, TypeInv, Shapes
  <2>3. at'[w] = IF left = <<>> THEN "stop" ELSE "take"
    BY <1>4 DEF Take, Goes, TypeInv, ApiTypeOK
  <2>4. left \in Lefts /\ process \in Processes
    BY <2>1, LeftsGoOn
  <2>5. goal'[w] \in [left: Lefts, taken: SUBSET Processes]
        /\ ("gunicorn" \in goal'[w].taken => "gunicorn" \notin pids')
    BY <2>1, <2>2, <2>4 DEF ShutFits, ShutSteps
  <2>6. \/ process = "plan" /\ left = <<"matchbox", "gunicorn">>
        \/ process = "matchbox" /\ left = <<"gunicorn">> /\ "plan" \notin pids
        \/ left = <<>>
    BY <2>1, LeftsGoOn DEF ShutFits
  <2>7. at'[w] = "take" =>
          \/ goal'[w].left = <<"matchbox", "gunicorn">> /\ "plan" \notin pids'
          \/ goal'[w].left = <<"gunicorn">> /\ "plan" \notin pids' /\ "matchbox" \notin pids'
    BY <2>2, <2>3, <2>6
  <2> QED BY <2>5, <2>7 DEF ShutFits
<1>5. CASE Stop(w)
  <2>1. at'[w] = "wait" /\ at[w] = "stop" /\ goal' = goal /\ pids' = pids
    BY <1>5 DEF Stop, At, Goes, TypeInv, ApiTypeOK
  <2> QED BY <2>1 DEF ShutFits, ShutSteps
<1>6. CASE Wait(w)
  <2>1. /\ at'[w] = "stop" /\ at[w] = "wait" /\ pids' = pids
        /\ goal' = [goal EXCEPT ![w].taken = goal[w].taken \ {FirstTaken(w)}]
    BY <1>6 DEF Wait, At, Goes, TypeInv, ApiTypeOK, siteVars, processVars
  <2>2. goal[w] \in [left: Lefts, taken: SUBSET Processes]
    BY <2>1 DEF ShutFits, ShutSteps
  <2>3. goal'[w] = [goal[w] EXCEPT !.taken = goal[w].taken \ {FirstTaken(w)}]
    BY <2>1 DEF TypeInv, Shapes
  <2>4. goal'[w] \in [left: Lefts, taken: SUBSET Processes] /\ goal'[w].taken \subseteq goal[w].taken
    BY <2>2, <2>3
  <2> QED BY <2>1, <2>4 DEF ShutFits, ShutSteps
<1> QED BY <1>1, <1>2, <1>3, <1>4, <1>5, <1>6, ShutdownIsReached

\* Somebody goes on to have the PID file of a process, or waits for it.
LEMMA ChargeIsKept ==
  ASSUME ShutInv, [Next]_vars, NEW process \in running' \ {"gunicorn"}, faults' = 0
  PROVE  InCharge(process)'
<1> USE DEF ShutInv
<1>1. faults = 0 /\ process \in running \ {"gunicorn"} /\ InCharge(process)
      /\ \A w \in Workers : ~Abort(w)
  BY FaultsCount, ProcessesEnd
<1>2. CASE process \in pids
  <2>1. CASE process \in pids'
    BY <2>1 DEF InCharge
  <2>2. CASE process \notin pids'
    <3>1. PICK w \in Workers : Take(w)
      BY <1>2, <2>2, OnlyShutdownStops DEF Stop, Quit
    <3>2. pids' = pids \ {Head(goal[w].left)}
      BY <3>1 DEF Take
    <3>3. Head(goal[w].left) = process
      BY <1>2, <2>2, <3>2
    <3>4. process \in goal'[w].taken
      BY <1>1, <1>2, <3>1, <3>3 DEF Take, TypeInv, Shapes
    <3>5. at'[w] \in ShutSteps
      BY <3>1 DEF Take, Goes, TypeInv, ApiTypeOK, ShutSteps
    <3> QED BY <3>4, <3>5 DEF InCharge
  <2> QED BY <2>1, <2>2
<1>3. CASE process \notin pids
  <2>1. PICK w \in Workers : at[w] \in ShutSteps /\ process \in goal[w].taken
    BY <1>1, <1>3 DEF InCharge
  <2>2. SUFFICES at'[w] \in ShutSteps /\ process \in goal'[w].taken
    BY DEF InCharge
  <2>3. CASE at'[w] = at[w] /\ goal'[w] = goal[w]
    BY <2>1, <2>3
  <2>4. CASE Take(w)
    BY <2>1, <2>4 DEF Take, Goes, TypeInv, ApiTypeOK, Shapes, ShutSteps
  <2>5. CASE Stop(w)
    BY <2>1, <2>5 DEF Stop, Goes, TypeInv, ApiTypeOK, ShutSteps
  <2>6. CASE Wait(w)
    <3>1. at[w] = "wait" /\ at'[w] = "stop" /\ FirstTaken(w) \notin running
          /\ goal' = [goal EXCEPT ![w].taken = goal[w].taken \ {FirstTaken(w)}]
      BY <2>6 DEF Wait, HasExited, At, Goes, TypeInv, ApiTypeOK
    <3>2. goal[w] \in [left: Lefts, taken: SUBSET Processes]
      BY <3>1 DEF ShutFits, ShutSteps
    <3>3. goal'[w] = [goal[w] EXCEPT !.taken = goal[w].taken \ {FirstTaken(w)}]
      BY <3>1 DEF TypeInv, Shapes
    <3>4. goal'[w].taken = goal[w].taken \ {FirstTaken(w)}
      BY <3>2, <3>3
    <3> QED BY <1>1, <2>1, <3>1, <3>4 DEF ShutSteps
  <2>7. CASE Quit(w)
    <3>1. FirstTaken(w) \notin goal[w].taken
      BY <2>7 DEF Quit
    <3>2. process \in {"plan", "matchbox"}
      BY <1>1 DEF Processes
    <3> QED BY <2>1, <3>1, <3>2, FirstIsNotGunicorn
  <2> QED BY <1>1, <2>1, <2>3, <2>4, <2>5, <2>6, <2>7, ShutdownIsLeft
<1> QED BY <1>2, <1>3

\* The last answer is before the end of gunicorn.
LEMMA GunicornIsLast ==
  ASSUME ShutInv, [Next]_vars, "gunicorn" \notin running'
  PROVE  "gunicorn" \in stopping' /\ \A w \in Workers : at'[w] = "idle"
<1> USE DEF ShutInv
<1>1. CASE "gunicorn" \notin running
  <2>1. "gunicorn" \in stopping /\ \A w \in Workers : at[w] = "idle"
    BY <1>1
  <2>2. ASSUME NEW w \in Workers PROVE at'[w] = "idle"
    <3>1. ~Abort(w) /\ \A kind \in Kinds : ~Start(w, kind)
      BY <2>1 DEF Abort, Start
    <3>2. ~HandlerStep(w)
      BY <2>1 DEF HandlerStep, At, Find, Upsert, Ipxe, StateRead, StateWrite, LockGet, LockSet, Fetch,
       Inject, Store, ScheduleRead, ScheduleWrite, VersionsGet, VersionsSet, ListQuery, ListSet,
       HealthProbe, HealthRead, HealthWrite, Take, Stop, Wait, Quit
    <3> QED BY <2>1, <3>1, <3>2, OnlyItsWorker
  <2> QED BY <2>1, <2>2, ProcessesEnd
<1>2. CASE "gunicorn" \in running
  <2>1. PICK process \in Processes : Exit(process)
    BY <1>2, OnlyShutdownStops DEF Take, Stop, Quit
  <2>2. running' = running \ {process} /\ stopping' = stopping /\ at' = at
    BY <2>1 DEF Exit, workerVars
  <2>3. process = "gunicorn"
    BY <1>2, <2>2
  <2> QED BY <2>1, <2>2, <2>3 DEF Exit, At
<1> QED BY <1>1, <1>2

LEMMA ShutStep == ShutInv /\ [Next]_vars => ShutInv'
<1> SUFFICES ASSUME ShutInv, [Next]_vars PROVE ShutInv'
  OBVIOUS
<1> USE DEF ShutInv
<1>1. TypeInv' /\ running' \subseteq Processes /\ faults' \in Nat
  BY NextTypes, ProcessesEnd, FaultsCount
<1>2. "gunicorn" \notin pids' => "plan" \notin pids' /\ "matchbox" \notin pids'
  <2>1. CASE "gunicorn" \notin pids
    BY <2>1, ProcessesEnd
  <2>2. CASE "gunicorn" \in pids /\ "gunicorn" \notin pids'
    <3>1. PICK w \in Workers : Take(w)
      BY <2>2, OnlyShutdownStops DEF Stop, Quit
    <3>2. pids' = pids \ {Head(goal[w].left)} /\ at[w] = "take"
      BY <3>1 DEF Take, At
    <3>3. Head(goal[w].left) = "gunicorn"
      BY <2>2, <3>2
    <3>4. "plan" \notin pids /\ "matchbox" \notin pids
      BY <3>2, <3>3, LeftsGoOn DEF ShutFits
    <3> QED BY <3>4, ProcessesEnd
  <2> QED BY <2>1, <2>2
<1>3. "gunicorn" \in stopping' => "gunicorn" \notin pids'
  <2>1. CASE "gunicorn" \in stopping
    BY <2>1, ProcessesEnd
  <2>2. CASE "gunicorn" \notin stopping /\ "gunicorn" \in stopping'
    <3>1. PICK w \in Workers : Stop(w) \/ Quit(w)
      BY <2>2, OnlyShutdownStops DEF Take
    <3>2. ~Stop(w)
      BY <2>2, FirstIsNotGunicorn DEF Stop
    <3>3. at[w] = "stop" /\ "gunicorn" \in goal[w].taken
      BY <2>2, <3>1, <3>2 DEF Quit, At
    <3> QED BY <3>3, ProcessesEnd DEF ShutFits, ShutSteps
  <2> QED BY <2>1, <2>2
<1> QED BY <1>1, <1>2, <1>3, ShutdownFits, ChargeIsKept, GunicornIsLast

LEMMA ShutInit == Init => ShutInv
<1> SUFFICES ASSUME Init PROVE ShutInv
  OBVIOUS
<1>1. running = Processes /\ pids = Processes /\ stopping = {} /\ faults = 0
      /\ \A w \in Workers : at[w] = "idle"
  BY DEF Init
<1> QED BY <1>1, InitTypes DEF ShutInv, ShutFits, ShutSteps, InCharge, Processes

LEMMA ShutCompletes == ShutInv => ShutdownIsComplete
<1> SUFFICES ASSUME ShutInv, faults = 0, "gunicorn" \notin running PROVE running = {}
  BY DEF ShutdownIsComplete
<1>1. "gunicorn" \notin pids /\ \A w \in Workers : at[w] = "idle"
  BY DEF ShutInv
<1>2. \A process \in Processes : process \notin pids
  BY <1>1 DEF ShutInv, Processes
<1>3. \A process \in running \ {"gunicorn"} : process \in pids
  BY <1>1 DEF ShutInv, InCharge, ShutSteps
<1> QED BY <1>2, <1>3 DEF ShutInv

\* However many shutdowns share the PID files, gunicorn ends after the two others.
THEOREM GunicornEndsLast == Spec => []ShutdownIsComplete
BY ShutCompletes, ShutInit, ShutStep, PTL DEF Spec

-----------------------------------------------------------------------------
(* The versions.  Who waits for an answer has one report at a time, so that  *)
(* what is about to be set holds what is there.                              *)
VersionSteps == {"versions_get", "versions_set"}
VersionsInv ==
  /\ TypeInv
  /\ \A w \in Workers : at[w] \in VersionSteps => req[w].kind = "version"
  /\ traffic.waits =>
       /\ \A v, w \in Workers : at[v] \in VersionSteps /\ at[w] \in VersionSteps => v = w
       /\ \A w \in Workers : at[w] = "versions_set" => versions \union {req[w].value} \subseteq goal[w]
       /\ reported \subseteq versions

LEMMA OnlyVersionsSetWrites ==
  ASSUME [Next]_vars, \A w \in Workers : ~VersionsSet(w)
  PROVE  UNCHANGED <<versions, reported>>
BY DEF Next, HandlerStep, Start, Abort, LockExpires, ListExpires, Regenerate, Apply, Exit, vars,
       cacheVars, history, Find, Upsert, Ipxe, StateRead, StateWrite, LockGet, LockSet, Fetch, Inject,
       Store, ScheduleRead, ScheduleWrite, VersionsGet, ListQuery, ListSet, HealthProbe,
       HealthRead, HealthWrite, Take, Stop, Wait, Quit

LEMMA TrafficStays ==
  ASSUME [Next]_vars
  PROVE  traffic' = traffic
BY DEF Next, HandlerStep, Start, Abort, LockExpires, ListExpires, Regenerate, Apply, Exit, vars,
       Find, Upsert, Ipxe, StateRead, StateWrite, LockGet, LockSet, Fetch, Inject,
       Store, ScheduleRead, ScheduleWrite, VersionsGet, VersionsSet, ListQuery, ListSet, HealthProbe,
       HealthRead, HealthWrite, Take, Stop, Wait, Quit

LEMMA VersionsAreReached ==
  ASSUME TypeInv, [Next]_vars, NEW w \in Workers, at'[w] \in VersionSteps
  PROVE  \/ Start(w, "version") /\ at'[w] = "versions_get" /\ req'[w].kind = "version"
         \/ VersionsGet(w)
         \/ at'[w] = at[w] /\ req'[w] = req[w] /\ goal'[w] = goal[w]
<1>1. at \in [Workers -> Steps] /\ DOMAIN req = Workers
  BY DEF TypeInv, ApiTypeOK, Shapes
<1>2. ~Answers(w)
  BY AnswersAlone DEF VersionSteps
<1>3. ASSUME NEW kind \in Kinds, Start(w, kind)
      PROVE  kind = "version" /\ at'[w] = "versions_get" /\ req'[w].kind = "version"
  <2>1. at'[w] = Entry[kind]
    BY <1>1, <1>3 DEF Start
  <2>2. kind = "version" /\ Entry[kind] = "versions_get"
    BY <2>1 DEF Kinds, Entry, VersionSteps
  <2>3. PICK r \in Requests(kind) : req' = [req EXCEPT ![w] = r]
    BY <1>3 DEF Start
  <2>4. r.kind = kind
    BY RequestFits
  <2> QED BY <1>1, <2>1, <2>2, <2>3, <2>4
<1>4. ASSUME HandlerStep(w) PROVE VersionsGet(w)
  <2>1. CASE at'[w] = "versions_get"
    <3>1. ASSUME NEW step, NEW read, Goes(w, step, read) PROVE step = "versions_get"
      BY <1>1, <2>1, <3>1 DEF Goes
    <3> QED BY <1>2, <1>4, <3>1
       DEF HandlerStep, Find, Upsert, Ipxe, StateRead, StateWrite, LockGet, LockSet, Fetch, Inject,
           Store, ScheduleRead, ScheduleWrite, VersionsGet, VersionsSet, ListQuery, ListSet,
           HealthProbe, HealthRead, HealthWrite, Take, Stop, Wait, Quit
  <2>2. CASE at'[w] = "versions_set"
    <3>1. ASSUME NEW step, NEW read, Goes(w, step, read) PROVE step = "versions_set"
      BY <1>1, <2>2, <3>1 DEF Goes
    <3> QED BY <1>2, <1>4, <3>1
       DEF HandlerStep, Find, Upsert, Ipxe, StateRead, StateWrite, LockGet, LockSet, Fetch, Inject,
           Store, ScheduleRead, ScheduleWrite, VersionsGet, VersionsSet, ListQuery, ListSet,
           HealthProbe, HealthRead, HealthWrite, Take, Stop, Wait, Quit
  <2> QED BY <2>1, <2>2 DEF VersionSteps
<1> QED BY <1>2, <1>3, <1>4, OnlyItsWorker DEF Abort

LEMMA VersionsStep == VersionsInv /\ [Next]_vars => VersionsInv'
<1> SUFFICES ASSUME VersionsInv, [Next]_vars PROVE VersionsInv'
  OBVIOUS
<1> USE DEF VersionsInv
<1>1. TypeInv /\ TypeInv' /\ traffic' = traffic
  BY NextTypes, TrafficStays
<1>2. \A w \in Workers : at'[w] \in VersionSteps => req'[w].kind = "version"
  BY <1>1, VersionsAreReached DEF VersionsGet, At, VersionSteps
<1>3. ASSUME traffic.waits, NEW v \in Workers, NEW w \in Workers,
             at'[v] \in VersionSteps, at'[w] \in VersionSteps
      PROVE  v = w
  \* The one that starts does not while the other is there.
  <2>1. ASSUME NEW a \in Workers, NEW b \in Workers, Start(a, "version"), at[b] \in VersionSteps
        PROVE  FALSE
    BY <1>1, <1>3, <2>1 DEF Start, Handles, VersionSteps
  <2>2. ASSUME NEW a \in Workers, NEW b \in Workers, Start(a, "version"), Start(b, "version")
        PROVE  a = b
    <3>1. at' = [at EXCEPT ![a] = "versions_get"] /\ at' = [at EXCEPT ![b] = "versions_get"]
      BY <2>2 DEF Start, Entry
    <3>2. at[a] = "idle" /\ at \in [Workers -> Steps]
      BY <1>1, <2>2, Types DEF Start
    <3> QED BY <3>1, <3>2
  <2>3. ASSUME NEW a \in Workers, at'[a] \in VersionSteps
        PROVE  Start(a, "version") \/ at[a] \in VersionSteps
    BY <1>1, <2>3, VersionsAreReached DEF VersionsGet, At, VersionSteps
  <2> QED BY <1>3, <2>1, <2>2, <2>3
<1>4. CASE \E w \in Workers : VersionsSet(w)
  <2>1. PICK w \in Workers : VersionsSet(w)
    BY <1>4
  <2>2. /\ at[w] = "versions_set" /\ versions' = goal[w] /\ Answers(w)
        /\ reported' = reported \union {req[w].value}
    BY <2>1 DEF VersionsSet, At
  <2>3. at'[w] = "idle" /\ \A v \in Workers : v # w => at'[v] = at[v]
    BY <1>1, <2>2, AnswersAlone DEF Others
  <2>4. traffic.waits => reported' \subseteq versions'
    BY <2>2
  <2>5. traffic.waits => \A v \in Workers : at'[v] # "versions_set"
    BY <2>2, <2>3 DEF VersionSteps
  <2> QED BY <1>1, <1>2, <1>3, <2>4, <2>5
<1>5. CASE \A w \in Workers : ~VersionsSet(w)
  <2>1. UNCHANGED <<versions, reported>>
    BY <1>5, OnlyVersionsSetWrites
  <2>2. ASSUME traffic.waits, NEW w \in Workers, at'[w] = "versions_set"
        PROVE  versions' \union {req'[w].value} \subseteq goal'[w]
    <3>1. CASE VersionsGet(w)
      BY <1>1, <2>1, <3>1 DEF VersionsGet, TypeInv, Shapes
    <3>2. CASE at'[w] = at[w] /\ req'[w] = req[w] /\ goal'[w] = goal[w]
      BY <2>1, <2>2, <3>2
    <3> QED BY <1>1, <2>2, <3>1, <3>2, VersionsAreReached DEF VersionSteps
  <2> QED BY <1>1, <1>2, <1>3, <2>1, <2>2
<1> QED BY <1>4, <1>5

LEMMA VersionsInit == Init => VersionsInv
  BY InitTypes DEF Init, VersionsInv, VersionSteps

\* No report of an ignition file that was answered is forgotten, however many
\* workers handle the sync's reports, when it waits for their answers.
THEOREM VersionsAreKept == Spec => []VersionsKept
<1>1. VersionsInv => VersionsKept
  BY DEF VersionsInv, VersionsKept
<1> QED BY <1>1, VersionsInit, VersionsStep, PTL DEF Spec
=============================================================================

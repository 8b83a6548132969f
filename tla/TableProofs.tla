----------------------------- MODULE TableProofs -----------------------------
(* What Api promises of the rows that the requests of several workers leave in *)
(* the tables, and of the list in the cache.                                   *)
EXTENDS ApiProofs

\* A worker that is not idle has accepted its request, or goes on with it.
LEMMA OnItsWay ==
  ASSUME TypeInv, [Next]_vars, NEW w \in Workers, at'[w] # "idle"
  PROVE  \/ \E kind \in Kinds : Start(w, kind) /\ at'[w] = Entry[kind] /\ req'[w].kind = kind
         \/ at[w] # "idle" /\ req'[w] = req[w]
<1>1. at \in [Workers -> Steps] /\ DOMAIN req = Workers
  BY DEF TypeInv, ApiTypeOK, Shapes
<1>2. ~Answers(w)
  BY AnswersAlone
<1>3. ASSUME NEW kind \in Kinds, Start(w, kind) PROVE at'[w] = Entry[kind] /\ req'[w].kind = kind
  <2>1. PICK r \in Requests(kind) : req' = [req EXCEPT ![w] = r]
    BY <1>3 DEF Start
  <2> QED BY <1>1, <1>3, <2>1, RequestFits DEF Start
<1>4. ASSUME HandlerStep(w) PROVE at[w] # "idle" /\ req'[w] = req[w]
  BY <1>2, <1>4
     DEF HandlerStep, At, Find, Upsert, Ipxe, StateRead, StateWrite, LockGet, LockSet, Fetch, Inject,
         Store, ScheduleRead, ScheduleWrite, VersionsGet, VersionsSet, ListQuery, ListSet,
         HealthProbe, HealthRead, HealthWrite, Take, Stop, Wait, Quit
<1> QED BY <1>2, <1>3, <1>4, OnlyItsWorker DEF Abort

\* What w has in hand is what it was.
Same(w) == at'[w] = at[w] /\ req'[w] = req[w] /\ goal'[w] = goal[w] /\ seen'[w] = seen[w]

\* The steps of a lifecycle request, a schedule and a health check, but the first.
LaterSteps == {"inject", "store", "schedule_write", "health_write"}

LEMMA LaterStepIsReached ==
  ASSUME TypeInv, [Next]_vars, NEW w \in Workers, at'[w] \in LaterSteps
  PROVE  \/ \E kind \in {"install", "policy"} : Start(w, kind) /\ at'[w] = "inject"
         \/ Fetch(w) /\ at'[w] = "inject"
         \/ Inject(w) /\ at'[w] = "store"
         \/ ScheduleRead(w) /\ at'[w] = "schedule_write"
         \/ HealthRead(w) /\ at'[w] = "health_write"
         \/ Same(w)
<1>1. ~Answers(w) /\ at \in [Workers -> Steps]
  BY AnswersAlone DEF LaterSteps, TypeInv, ApiTypeOK
<1>2. ASSUME NEW kind \in Kinds, Start(w, kind)
      PROVE  kind \in {"install", "policy"} /\ at'[w] = "inject"
  BY <1>1, <1>2 DEF Start, Kinds, Entry, LaterSteps
<1>3. CASE HandlerStep(w)
  <2>1. ASSUME NEW step, NEW read, Goes(w, step, read) PROVE at'[w] = step
    BY <1>1, <2>1 DEF Goes
  <2>2. \/ Answers(w)
        \/ Fetch(w) /\ at'[w] = "inject"
        \/ Inject(w) /\ at'[w] = "store"
        \/ ScheduleRead(w) /\ at'[w] = "schedule_write"
        \/ HealthRead(w) /\ at'[w] = "health_write"
        \/ \E step, read : step \notin LaterSteps /\ Goes(w, step, read)
    <3>1. CASE Fetch(w)
      <4>1. Answers(w) \/ Goes(w, "inject", Unread)
        BY <3>1 DEF Fetch
      <4> QED BY <2>1, <3>1, <4>1
    <3>2. CASE Inject(w)
      <4>1. Answers(w) \/ \E read : Goes(w, "store", read)
        BY <3>2 DEF Inject
      <4> QED BY <2>1, <3>2, <4>1
    <3>3. CASE ScheduleRead(w)
      <4>1. Answers(w) \/ \E read : Goes(w, "schedule_write", read)
        BY <3>3 DEF ScheduleRead
      <4> QED BY <2>1, <3>3, <4>1
    <3>4. CASE HealthRead(w)
      BY <2>1, <3>4 DEF HealthRead
    <3>5. CASE \/ Find(w) \/ Upsert(w) \/ Ipxe(w) \/ StateRead(w) \/ StateWrite(w)
               \/ LockGet(w) \/ LockSet(w) \/ Store(w) \/ ScheduleWrite(w)
      <4>1. \/ Answers(w)
            \/ \E step \in {"upsert", "state_read", "state_write", "lock_set"} : \E read :
                 Goes(w, step, read)
        BY <3>5 DEF Find, Upsert, Ipxe, StateRead, StateWrite, LockGet, LockSet, Store, ScheduleWrite
      <4> QED BY <4>1 DEF LaterSteps
    <3>6. CASE \/ VersionsGet(w) \/ VersionsSet(w) \/ ListQuery(w) \/ ListSet(w) \/ HealthProbe(w)
               \/ HealthWrite(w) \/ Take(w) \/ Stop(w) \/ Wait(w) \/ Quit(w)
      <4>1. \/ Answers(w)
            \/ \E step \in {"versions_set", "list_set", "health_read", "stop", "take", "wait"} : \E read :
                 Goes(w, step, read)
        BY <3>6 DEF VersionsGet, VersionsSet, ListQuery, ListSet, HealthProbe, HealthWrite, Take,
           Stop, Wait, Quit
      <4> QED BY <4>1 DEF LaterSteps
    <3> QED BY <1>3, <3>1, <3>2, <3>3, <3>4, <3>5, <3>6 DEF HandlerStep
  <2> QED BY <1>1, <2>1, <2>2
<1> QED BY <1>1, <1>2, <1>3, OnlyItsWorker DEF Abort, Same

\* The steps that write the tables of rows.
Commits(w) == Store(w) \/ ScheduleWrite(w) \/ HealthWrite(w)

LEMMA OnlyCommitsWriteRows ==
  ASSUME [Next]_vars, \A w \in Workers : ~Commits(w)
  PROVE  life' = life
BY DEF Commits, Next, HandlerStep, Start, Abort, LockExpires, ListExpires, Regenerate, Apply, Exit,
       vars, tables, Find, Upsert, Ipxe, StateRead, StateWrite, LockGet, LockSet, Fetch, Inject,
       ScheduleRead, VersionsGet, VersionsSet, ListQuery, ListSet, HealthProbe, HealthRead, Take,
       Stop, Wait, Quit

-----------------------------------------------------------------------------
(* How many rows of a kind there are.  A worker that found none and has not  *)
(* inserted its own yet counts already.                                      *)
Inserts(w, t, id, role) ==
  \/ /\ at[w] = "store" /\ req[w].kind = t
     /\ seen[w].machine = id /\ seen[w].row = NoId
  \/ /\ at[w] = "schedule_write" /\ t = "schedule"
     /\ seen[w].machine = id /\ role \in NewRoles(w)
  \/ /\ at[w] = "health_write" /\ t = "health"
     /\ id = NoId /\ seen[w].row = NoId
Inserters(t, id, role) == {w \in Workers : Inserts(w, t, id, role)}
RowsInv ==
  /\ TypeInv
  /\ \A t \in Tables : \A id \in Nat : \A role \in UNION Tiers :
       Cardinality(RowsLike(t, id, role)) + Cardinality(Inserters(t, id, role))
         <= Cardinality(traffic.workers)

\* Who has just looked has found none.
LEMMA InsertersLooked ==
  ASSUME TypeInv, [Next]_vars, NEW t \in Tables, NEW id, NEW role, NEW w \in Workers,
         Inserts(w, t, id, role)', ~Inserts(w, t, id, role)
  PROVE  RowsLike(t, id, role) = {}
<1> DEFINE owner == OwnerOf(req[w].mac)
<1>1. at'[w] \in LaterSteps /\ ~Same(w)
  BY DEF Inserts, NewRoles, LaterSteps, Same
<1>2. /\ at \in [Workers -> Steps] /\ DOMAIN seen = Workers /\ DOMAIN req = Workers
      /\ DOMAIN life[t] = 1 .. Len(life[t])
  BY DEF TypeInv, ApiTypeOK, Shapes, RowsInOrder
<1>3. ASSUME NEW ids \in SUBSET DOMAIN life[t], NoId \in First(ids) PROVE ids = {}
  BY <1>2, <1>3 DEF First, NoId
<1>4. CASE Inject(w) /\ at'[w] = "store"
  <2>1. seen'[w].machine = id /\ seen'[w].row = NoId /\ req'[w].kind = t
    BY <1>4 DEF Inserts
  <2>2. ~Answers(w)
    BY <1>4, AnswersAlone
  <2>3. PICK row \in First(RowsOf(req[w].kind, owner)) :
          Goes(w, "store", [machine |-> owner, row |-> row,
               was |-> IF row = NoId THEN goal[w] ELSE life[req[w].kind][row].columns])
    BY <1>4, <2>2 DEF Inject
  <2>4. req' = req
    BY <1>4, <2>2 DEF Inject
  <2>5. row = NoId /\ owner = id /\ req[w].kind = t
    BY <1>2, <2>1, <2>3, <2>4 DEF Goes
  <2> QED BY <1>3, <2>3, <2>5 DEF RowsLike, RowsOf
<1>5. CASE ScheduleRead(w) /\ at'[w] = "schedule_write"
  <2>1. t = "schedule" /\ seen'[w].machine = id /\ role \in req'[w].value \ seen'[w].was
    BY <1>5 DEF Inserts, NewRoles
  <2>2. ~Answers(w)
    BY <1>5, AnswersAlone
  <2>3. Goes(w, "schedule_write", [machine |-> owner, row |-> NoId, was |-> RolesOf(owner)])
    BY <1>5, <2>2 DEF ScheduleRead
  <2>4. owner = id /\ role \notin RolesOf(id)
    BY <1>2, <2>1, <2>3 DEF Goes
  <2> QED BY <2>1, <2>4 DEF RowsLike, RolesOf
<1>6. CASE HealthRead(w) /\ at'[w] = "health_write"
  <2>1. t = "health" /\ id = NoId /\ seen'[w].row = NoId
    BY <1>6 DEF Inserts
  <2>2. PICK row \in First(RowsOf("health", NoId)) :
          Goes(w, "health_write", [Unread EXCEPT !.row = row])
    BY <1>6 DEF HealthRead
  <2>3. row = NoId
    BY <1>2, <2>1, <2>2 DEF Goes, Unread
  <2> QED BY <1>3, <2>1, <2>2, <2>3 DEF RowsLike, RowsOf
<1>7. at'[w] # "inject"
  BY DEF Inserts
<1> QED BY <1>1, <1>4, <1>5, <1>6, <1>7, LaterStepIsReached

\* A commit adds one row, that its worker was about to insert, and no other
\* that it was not like; the worker is done.
LEMMA CommitsInsert ==
  ASSUME TypeInv, NEW w \in Workers, Commits(w), NEW t \in Tables, NEW id \in Nat, NEW role
  PROVE  /\ \/ RowsLike(t, id, role)' \subseteq RowsLike(t, id, role)
            \/ /\ Inserts(w, t, id, role)
               /\ RowsLike(t, id, role)' \subseteq RowsLike(t, id, role) \union {Len(life[t]) + 1}
         /\ Inserters(t, id, role)' \subseteq Inserters(t, id, role) \ {w}
<1> DEFINE rows == life[t]
<1>1. /\ at \in [Workers -> Steps] /\ DOMAIN life = Tables
      /\ Len(rows) \in Nat /\ DOMAIN rows = 1 .. Len(rows)
  BY DEF TypeInv, ApiTypeOK, Shapes, RowsInOrder
<1>2. Inserters(t, id, role)' \subseteq Inserters(t, id, role) \ {w}
  <2>1. Others(w) /\ at'[w] \in {"idle", "state_read"}
    <3>1. CASE Answers(w)
      BY <3>1, AnswersAlone
    <3>2. CASE Goes(w, "state_read", Unread) /\ req' = req
               /\ goal' = [goal EXCEPT ![w] = IF goal[w].success THEN "installation_succeed"
                                              ELSE "installation_failed"]
      BY <1>1, <3>2 DEF Goes, Others, TypeInv, Shapes
    <3> QED BY <3>1, <3>2 DEF Commits, Store, ScheduleWrite, HealthWrite
  <2>2. ASSUME NEW v \in Workers, v # w, Inserts(v, t, id, role)' PROVE Inserts(v, t, id, role)
    BY <2>1, <2>2 DEF Others, Inserts, NewRoles
  <2>3. ~Inserts(w, t, id, role)'
    BY <2>1 DEF Inserts
  <2> QED BY <2>2, <2>3 DEF Inserters
<1>3. ASSUME NEW s \in Tables, NEW owner, NEW columns, NEW new,
             new = [machine |-> owner, columns |-> columns],
             life' = [life EXCEPT ![s] = Append(life[s], new)],
             s = t /\ owner = id /\ (t = "schedule" => role \in columns)
               => Inserts(w, t, id, role)
      PROVE  \/ RowsLike(t, id, role)' \subseteq RowsLike(t, id, role)
             \/ /\ Inserts(w, t, id, role)
                /\ RowsLike(t, id, role)' \subseteq RowsLike(t, id, role) \union {Len(life[t]) + 1}
  <2>1. CASE s # t
    BY <1>1, <1>3, <2>1 DEF RowsLike, RowsOf
  <2>2. CASE s = t
    <3>1. life'[t] = Append(rows, new)
      BY <1>1, <1>3, <2>2
    <3>2. /\ DOMAIN life'[t] = 1 .. Len(rows) + 1
          /\ \A r \in 1 .. Len(rows) : life'[t][r] = rows[r]
          /\ life'[t][Len(rows) + 1] = new
      BY <1>1, <3>1
    <3>3. ASSUME NEW r \in RowsLike(t, id, role)', r # Len(rows) + 1 PROVE r \in RowsLike(t, id, role)
      BY <1>1, <3>2, <3>3 DEF RowsLike, RowsOf
    <3>4. Len(rows) + 1 \in RowsLike(t, id, role)'
            => owner = id /\ (t = "schedule" => role \in columns)
      BY <1>3, <3>2 DEF RowsLike, RowsOf
    <3> QED BY <1>3, <2>2, <3>3, <3>4
  <2> QED BY <2>1, <2>2
<1>4. ASSUME NEW s \in Tables \ {"schedule"}, NEW row, NEW columns,
             life' = [life EXCEPT ![s] = [life[s] EXCEPT ![row].columns = columns]]
      PROVE  RowsLike(t, id, role)' \subseteq RowsLike(t, id, role)
  <2>1. CASE s # t
    BY <1>1, <1>4, <2>1 DEF RowsLike, RowsOf
  <2>2. CASE s = t
    <3>1. life'[t] = [rows EXCEPT ![row].columns = columns]
      BY <1>1, <1>4, <2>2
    <3>2. DOMAIN life'[t] = DOMAIN rows /\ \A r \in DOMAIN rows : life'[t][r].machine = rows[r].machine
      BY <1>1, <3>1
    <3> QED BY <2>2, <3>2 DEF RowsLike, RowsOf
  <2> QED BY <2>1, <2>2
<1>5. CASE Store(w)
  <2>1. at[w] = "store" /\ req[w].kind \in Tables \ {"schedule"}
    BY <1>5, Types DEF Store, At, InHand, Tables
  <2>2. LifeStored(req[w].kind, seen[w].machine, seen[w].row, seen[w].was, goal[w])
    BY <1>5 DEF Store
  <2>3. CASE seen[w].row = NoId
    <3>1. life' = [life EXCEPT ![req[w].kind] =
                     Append(life[req[w].kind], [machine |-> seen[w].machine, columns |-> goal[w]])]
      BY <2>2, <2>3 DEF LifeStored
    <3> QED BY <1>2, <1>3, <2>1, <2>3, <3>1 DEF Inserts
  <2>4. CASE seen[w].row # NoId
    <3>1. \E columns : life' = [life EXCEPT ![req[w].kind] =
                                  [life[req[w].kind] EXCEPT ![seen[w].row].columns = columns]]
      BY <2>2, <2>4 DEF LifeStored
    <3> QED BY <1>2, <1>4, <2>1, <3>1
  <2> QED BY <1>2, <2>3, <2>4
<1>6. CASE ScheduleWrite(w)
  <2>1. at[w] = "schedule_write"
    BY <1>6 DEF ScheduleWrite, At
  <2>2. CASE life' = life
    BY <1>2, <2>2 DEF RowsLike, RowsOf
  <2>3. CASE life' = [life EXCEPT !["schedule"] =
                        Append(@, [machine |-> seen[w].machine, columns |-> NewRoles(w)])]
    <3>1. life' = [life EXCEPT !["schedule"] =
                     Append(life["schedule"], [machine |-> seen[w].machine, columns |-> NewRoles(w)])]
      BY <2>3
    <3> QED BY <1>2, <1>3, <2>1, <3>1 DEF Inserts, Tables
  <2> QED BY <1>2, <1>6, <2>2, <2>3 DEF ScheduleWrite
<1>7. CASE HealthWrite(w)
  <2>1. at[w] = "health_write" /\ LifeStored("health", NoId, seen[w].row, Checked, Checked)
    BY <1>7 DEF HealthWrite, At
  <2>2. CASE seen[w].row = NoId
    <3>1. life' = [life EXCEPT !["health"] =
                     Append(life["health"], [machine |-> NoId, columns |-> Checked])]
      BY <2>1, <2>2 DEF LifeStored
    <3> QED BY <1>2, <1>3, <2>1, <2>2, <3>1 DEF Inserts, Tables
  <2>3. CASE seen[w].row # NoId
    <3>1. \E columns : life' = [life EXCEPT !["health"] =
                                  [life["health"] EXCEPT ![seen[w].row].columns = columns]]
      BY <2>1, <2>3 DEF LifeStored
    <3> QED BY <1>2, <1>4, <3>1 DEF Tables
  <2> QED BY <1>2, <2>2, <2>3
<1> QED BY <1>5, <1>6, <1>7 DEF Commits

LEMMA RowsFinite ==
  ASSUME TypeInv, NEW t \in Tables, NEW id, NEW role
  PROVE  IsFiniteSet(RowsLike(t, id, role)) /\ Cardinality(RowsLike(t, id, role)) \in Nat
<1>1. Len(life[t]) \in Nat /\ RowsLike(t, id, role) \subseteq 1 .. Len(life[t])
  BY DEF TypeInv, Shapes, RowsInOrder, RowsLike, RowsOf
<1>2. IsFiniteSet(1 .. Len(life[t]))
  BY <1>1, FS_Interval
<1> QED BY <1>1, <1>2, FS_Subset, FS_CardinalityType

LEMMA InsertersWork ==
  ASSUME TypeInv, NEW t \in Tables, NEW id, NEW role
  PROVE  Inserters(t, id, role) \subseteq traffic.workers
BY Types DEF Inserters, Inserts, InHand

LEMMA RowsStep == RowsInv /\ [Next]_vars => RowsInv'
<1> SUFFICES ASSUME RowsInv, [Next]_vars PROVE RowsInv'
  OBVIOUS
<1>1. TypeInv /\ TypeInv' /\ traffic' = traffic
  BY NextTypes, TrafficStays DEF RowsInv
<1>2. SUFFICES ASSUME NEW t \in Tables, NEW id \in Nat, NEW role \in UNION Tiers
               PROVE  Cardinality(RowsLike(t, id, role)') + Cardinality(Inserters(t, id, role)')
                        <= Cardinality(traffic.workers)
  BY <1>1 DEF RowsInv
<1> DEFINE R == RowsLike(t, id, role)   P == Inserters(t, id, role)
<1>3. /\ IsFiniteSet(R) /\ Cardinality(R) \in Nat /\ P \subseteq traffic.workers
      /\ Cardinality(R) + Cardinality(P) <= Cardinality(traffic.workers)
  BY <1>1, RowsFinite, InsertersWork DEF RowsInv
<1>4. Cardinality(P) \in Nat /\ Cardinality(traffic.workers) \in Nat
      /\ \A some \in SUBSET P : Cardinality(some) \in Nat /\ Cardinality(some) <= Cardinality(P)
      /\ \A w \in P : Cardinality(P \ {w}) = Cardinality(P) - 1
  BY <1>1, <1>3, FewBusy
<1>5. CASE \E w \in Workers : Commits(w)
  <2>1. PICK w \in Workers : Commits(w)
    BY <1>5
  <2>2. P' \subseteq P \ {w}
    BY <1>1, <2>1, CommitsInsert
  <2>3. CASE R' \subseteq R
    <3>1. Cardinality(R') \in Nat /\ Cardinality(R') <= Cardinality(R)
      BY <1>3, <2>3, FS_Subset, FS_CardinalityType
    <3>2. Cardinality(P') \in Nat /\ Cardinality(P') <= Cardinality(P)
      BY <1>4, <2>2
    <3> QED BY <1>3, <1>4, <3>1, <3>2
  <2>4. CASE w \in P /\ R' \subseteq R \union {Len(life[t]) + 1}
    <3>1. /\ IsFiniteSet(R \union {Len(life[t]) + 1})
          /\ Cardinality(R \union {Len(life[t]) + 1}) \in {Cardinality(R), Cardinality(R) + 1}
      BY <1>3, FS_AddElement
    <3>2. /\ Cardinality(R') \in Nat
          /\ Cardinality(R') <= Cardinality(R \union {Len(life[t]) + 1})
      BY <2>4, <3>1, FS_Subset, FS_CardinalityType
    <3>3. Cardinality(P') \in Nat /\ Cardinality(P') <= Cardinality(P) - 1
      <4>1. P \ {w} \in SUBSET traffic.workers
        BY <1>3
      <4>2. Cardinality(P') <= Cardinality(P \ {w}) /\ Cardinality(P') \in Nat
        BY <1>1, <2>2, <4>1, FewBusy
      <4> QED BY <1>4, <2>4, <4>2
    <3> QED BY <1>3, <1>4, <3>1, <3>2, <3>3
  <2> QED BY <1>1, <2>1, <2>3, <2>4, CommitsInsert DEF Inserters
<1>6. CASE \A w \in Workers : ~Commits(w)
  <2>1. R' = R
    BY <1>6, OnlyCommitsWriteRows DEF RowsLike, RowsOf
  <2>2. CASE P' \subseteq P
    <3>1. Cardinality(P') \in Nat /\ Cardinality(P') <= Cardinality(P)
      BY <1>4, <2>2
    <3> QED BY <1>3, <1>4, <2>1, <3>1
  <2>3. CASE ~(P' \subseteq P)
    <3>1. PICK w \in Workers : Inserts(w, t, id, role)' /\ ~Inserts(w, t, id, role)
      BY <2>3 DEF Inserters
    <3>2. R = {}
      BY <1>1, <3>1, InsertersLooked
    <3>3. P' \subseteq traffic.workers
      <4>1. (TypeInv => P \subseteq traffic.workers)'
        BY InsertersWork, PTL
      <4> QED BY <1>1, <4>1
    <3>4. Cardinality(R') = 0 /\ Cardinality(P') \in Nat
          /\ Cardinality(P') <= Cardinality(traffic.workers)
      BY <1>1, <2>1, <3>2, <3>3, FewBusy, FS_EmptySet
    <3> QED BY <1>4, <3>4
  <2> QED BY <2>2, <2>3
<1> QED BY <1>5, <1>6

LEMMA RowsInit == Init => RowsInv
<1> SUFFICES ASSUME Init PROVE RowsInv
  OBVIOUS
<1>1. TypeInv
  BY InitTypes
<1>2. ASSUME NEW t \in Tables, NEW id, NEW role
      PROVE  RowsLike(t, id, role) = {} /\ Inserters(t, id, role) = {}
  BY DEF Init, RepositoriesInit, RowsLike, RowsOf, Inserters, Inserts
<1>3. Cardinality(traffic.workers) \in Nat /\ Cardinality({}) = 0
  BY <1>1, FewBusy, FS_EmptySet
<1> QED BY <1>1, <1>2, <1>3 DEF RowsInv

\* However many workers insert rows for the same machine at once, each of them
\* leaves it at most one; a single worker none twice.
THEOREM RowsAreBounded == Spec => []RowsBounded
<1>1. RowsInv => RowsBounded
  <2> SUFFICES ASSUME RowsInv, NEW t \in Tables, NEW id \in {NoId} \union DOMAIN machine,
                      NEW role \in UNION Tiers
               PROVE  Cardinality(RowsLike(t, id, role)) <= Cardinality(traffic.workers)
    BY DEF RowsBounded
  <2>1. TypeInv /\ id \in Nat
    BY Types DEF RowsInv, NoId
  <2>2. Cardinality(RowsLike(t, id, role)) \in Nat /\ Cardinality(Inserters(t, id, role)) \in Nat
        /\ Cardinality(traffic.workers) \in Nat
    BY <2>1, RowsFinite, InsertersWork, FewBusy
  <2> QED BY <2>1, <2>2 DEF RowsInv
<1> QED BY <1>1, RowsInit, RowsStep, PTL DEF Spec

-----------------------------------------------------------------------------
(* The cached list, with one worker.  Until its POST /discovery is over, the *)
(* list may be older than the tables; who is about to set it has that of the *)
(* tables in hand, and the INSERT of a state never fails.                    *)
ListFits(w) ==
  /\ at[w] \in {"find", "upsert"} => req[w].kind = "discovery"
  /\ at[w] = "state_write" => seen[w].was = states[req[w].mac]
  /\ at[w] = "list_set" => goal[w] = AllDiscovery
Discovers(w) == at[w] \in {"state_read", "state_write"} /\ req[w].kind = "discovery"
Alone == Cardinality(traffic.workers) = 1
ListInv ==
  /\ TypeInv /\ faults \in Nat
  /\ (Alone /\ faults = 0) =>
       /\ \A w \in Workers : ListFits(w)
       /\ listed \in {NoList, AllDiscovery} \/ \E w \in Workers : Discovers(w)

LEMMA OnlyOneIsBusy ==
  ASSUME TypeInv, Alone, NEW v \in Workers, NEW w \in Workers, at[v] # "idle", at[w] # "idle"
  PROVE  v = w
<1>1. v \in traffic.workers /\ w \in traffic.workers
  BY Types DEF InHand
<1>2. IsFiniteSet(traffic.workers)
  BY FewBusy
<1>3. \E x : traffic.workers = {x}
  BY <1>2, FS_Singleton DEF Alone
<1> QED BY <1>1, <1>3

LEMMA ReportIsReached ==
  ASSUME TypeInv, [Next]_vars, NEW w \in Workers, at'[w] \in {"find", "upsert"}
  PROVE  \/ req'[w].kind = "discovery"
         \/ at[w] \in {"find", "upsert"} /\ req'[w] = req[w]
<1>1. CASE at'[w] = "upsert"
  BY <1>1, UpsertIsReached DEF Find, At
<1>2. CASE at'[w] = "find"
  <2>1. ~Answers(w) /\ at \in [Workers -> Steps]
    BY <1>2, AnswersAlone DEF TypeInv, ApiTypeOK
  <2>2. ASSUME NEW step, NEW read, Goes(w, step, read) PROVE step = "find"
    BY <1>2, <2>1, <2>2 DEF Goes
  <2>3. ~HandlerStep(w)
    BY <2>1, <2>2 DEF HandlerStep, Find, Upsert, Ipxe, StateRead, StateWrite, LockGet, LockSet, Fetch,
       Inject, Store, ScheduleRead, ScheduleWrite, VersionsGet, VersionsSet, ListQuery, ListSet,
       HealthProbe, HealthRead, HealthWrite, Take, Stop, Wait, Quit
  <2>4. ASSUME NEW kind \in Kinds, at'[w] = Entry[kind] PROVE kind = "discovery"
    BY <1>2, <2>4 DEF Kinds, Entry
  <2>5. \A kind \in Kinds : Start(w, kind) => at[w] = "idle"
    BY DEF Start
  <2> QED BY <1>2, <2>1, <2>3, <2>4, <2>5, OnItsWay, OnlyItsWorker DEF Abort
<1> QED BY <1>1, <1>2

LEMMA ListSetIsReached ==
  ASSUME TypeInv, [Next]_vars, NEW w \in Workers, at'[w] = "list_set"
  PROVE  ListQuery(w) \/ Same(w)
<1>1. ~Answers(w) /\ at \in [Workers -> Steps]
  BY AnswersAlone DEF TypeInv, ApiTypeOK
<1>2. ASSUME NEW step, NEW read, Goes(w, step, read) PROVE step = "list_set"
  BY <1>1, <1>2 DEF Goes
<1>3. HandlerStep(w) => ListQuery(w)
  BY <1>1, <1>2 DEF HandlerStep, Find, Upsert, Ipxe, StateRead, StateWrite, LockGet, LockSet, Fetch,
     Inject, Store, ScheduleRead, ScheduleWrite, VersionsGet, VersionsSet, ListSet,
     HealthProbe, HealthRead, HealthWrite, Take, Stop, Wait, Quit
<1>4. \A kind \in Kinds : ~Start(w, kind)
  BY <1>1 DEF Start, Kinds, Entry
<1> QED BY <1>1, <1>3, <1>4, OnlyItsWorker DEF Abort, Same

LEMMA OnlyListStepsCache ==
  ASSUME [Next]_vars, ~ListExpires, \A w \in Workers : ~StateWrite(w) /\ ~ListSet(w)
  PROVE  listed' = listed
BY DEF Next, HandlerStep, Start, Abort, LockExpires, ListExpires, Regenerate, Apply, Exit, vars,
       cacheVars, Find, Upsert, Ipxe, StateRead, LockGet, LockSet, Fetch, Inject, Store,
       ScheduleRead, ScheduleWrite, VersionsGet, VersionsSet, ListQuery, HealthProbe,
       HealthRead, HealthWrite, Take, Stop, Wait, Quit

LEMMA DiscoveryGoesOn ==
  ASSUME TypeInv, [Next]_vars, NEW w \in Workers, Discovers(w), ~StateWrite(w), ~Abort(w)
  PROVE  Discovers(w)'
<1>1. ASSUME HandlerStep(w) PROVE StateRead(w)
  BY <1>1 DEF Discovers, HandlerStep, At, Find, Upsert, Ipxe, LockGet, LockSet, Fetch, Inject, Store,
     ScheduleRead, ScheduleWrite, VersionsGet, VersionsSet, ListQuery, ListSet, HealthProbe,
     HealthRead, HealthWrite, Take, Stop, Wait, Quit
<1>2. CASE StateRead(w)
  BY <1>2 DEF Discovers, StateRead, Goes, TypeInv, ApiTypeOK
<1>3. \A kind \in Kinds : ~Start(w, kind)
  BY DEF Start, Discovers
<1> QED BY <1>1, <1>2, <1>3, OnlyItsWorker DEF Discovers

LEMMA MachinesListedStay ==
  ASSUME [Next]_vars, \A w \in Workers : ~Upsert(w)
  PROVE  AllDiscovery' = AllDiscovery
BY OnlyUpsertStores DEF AllDiscovery, CardsOf

LEMMA ListFitsStill ==
  ASSUME ListInv, [Next]_vars, Alone, faults = 0, NEW w \in Workers
  PROVE  ListFits(w)'
<1>1. TypeInv /\ ListFits(w) /\ at \in [Workers -> Steps]
  BY DEF ListInv, TypeInv, ApiTypeOK
<1>2. ASSUME at'[w] \in {"find", "upsert"} PROVE req'[w].kind = "discovery"
  BY <1>1, <1>2, ReportIsReached DEF ListFits
<1>3. ASSUME at'[w] = "state_write" PROVE seen'[w].was = states'[req'[w].mac]
  <2>1. CASE StateRead(w)
    BY <1>1, <2>1 DEF StateRead, Goes, TypeInv, Shapes, tables
  <2>2. CASE at[w] = "state_write" /\ seen'[w] = seen[w] /\ req'[w] = req[w]
    <3>1. ASSUME NEW v \in Workers, StateWrite(v) PROVE FALSE
      <4>1. at[v] = "state_write" /\ Answers(v)
        BY <3>1 DEF StateWrite, At
      <4>2. v = w
        BY <1>1, <2>2, <4>1, OnlyOneIsBusy
      <4> QED BY <1>1, <1>3, <4>1, <4>2, AnswersAlone
    <3> QED BY <1>1, <2>2, <3>1, OnlyUpdateWritesStates DEF ListFits
  <2> QED BY <1>1, <1>3, <2>1, <2>2, StateWriteIsReached
<1>4. ASSUME at'[w] = "list_set" PROVE goal'[w] = AllDiscovery'
  <2>1. CASE ListQuery(w)
    <3>1. ~Answers(w)
      BY <1>1, <1>4, AnswersAlone
    <3>2. goal' = [goal EXCEPT ![w] = AllDiscovery] /\ UNCHANGED <<machine, iface>>
      BY <2>1, <3>1 DEF ListQuery, tables
    <3> QED BY <1>1, <3>2 DEF AllDiscovery, CardsOf, TypeInv, Shapes
  <2>2. CASE Same(w)
    <3>1. ASSUME NEW v \in Workers, Upsert(v) PROVE FALSE
      BY <1>1, <1>4, <2>2, <3>1, OnlyOneIsBusy DEF Upsert, At, Same
    <3> QED BY <1>1, <1>4, <2>2, <3>1, MachinesListedStay DEF ListFits, Same
  <2> QED BY <1>1, <1>4, <2>1, <2>2, ListSetIsReached
<1> QED BY <1>2, <1>3, <1>4 DEF ListFits

LEMMA ListStep == ListInv /\ [Next]_vars => ListInv'
<1> SUFFICES ASSUME ListInv, [Next]_vars PROVE ListInv'
  OBVIOUS
<1>1. TypeInv /\ TypeInv' /\ traffic' = traffic /\ at \in [Workers -> Steps]
  BY NextTypes, TrafficStays DEF ListInv, TypeInv, ApiTypeOK
<1>2. faults' \in Nat /\ (faults' = 0 => faults = 0 /\ \A w \in Workers : ~Abort(w))
  BY FaultsCount DEF ListInv
<1>3. SUFFICES ASSUME Alone, faults = 0, \A w \in Workers : ~Abort(w)
               PROVE  /\ \A w \in Workers : ListFits(w)'
                      /\ listed' \in {NoList, AllDiscovery'} \/ \E w \in Workers : Discovers(w)'
  BY <1>1, <1>2 DEF ListInv, Alone
<1>4. /\ \A w \in Workers : ListFits(w)
      /\ (listed \in {NoList, AllDiscovery} \/ \E v \in Workers : Discovers(v))
  BY <1>3 DEF ListInv
<1>5. \A w \in Workers : ListFits(w)'
  BY <1>3, ListFitsStill
<1>6. listed' \in {NoList, AllDiscovery'} \/ \E w \in Workers : Discovers(w)'
  <2>1. ASSUME NEW w \in Workers, at[w] # "idle", ~Discovers(w) PROVE listed \in {NoList, AllDiscovery}
    BY <1>1, <1>3, <1>4, <2>1, OnlyOneIsBusy DEF Discovers
  <2>2. ASSUME NEW w \in Workers, Upsert(w)
        PROVE  listed' \in {NoList, AllDiscovery'} \/ Discovers(w)'
    <3>1. at[w] = "upsert" /\ listed' = listed /\ req[w].kind = "discovery"
      BY <1>4, <2>2 DEF Upsert, At, cacheVars, ListFits
    <3>2. CASE UNCHANGED <<machine, iface>>
      <4>1. AllDiscovery' = AllDiscovery
        BY <3>2 DEF AllDiscovery, CardsOf
      <4> QED BY <2>1, <3>1, <4>1 DEF Discovers
    <3>3. CASE Goes(w, "state_read", Unread) /\ req' = req
      BY <1>1, <3>1, <3>3 DEF Discovers, Goes
    <3> QED BY <2>2, <3>2, <3>3 DEF Upsert
  <2>3. ASSUME NEW w \in Workers, StateWrite(w) PROVE listed' \in {NoList, AllDiscovery'}
    <3>1. at[w] = "state_write" /\ UNCHANGED <<machine, iface>>
      BY <2>3 DEF StateWrite, At
    <3>2. AllDiscovery' = AllDiscovery
      BY <3>1 DEF AllDiscovery, CardsOf
    <3>3. CASE req[w].kind = "discovery"
      <4>1. seen[w].was = states[req[w].mac]
        BY <1>4, <3>1 DEF ListFits
      <4> QED BY <2>3, <3>3, <4>1 DEF StateWrite, StateInserted, ListLeft
    <3>4. CASE req[w].kind # "discovery"
      <4>1. listed' = listed
        BY <2>3, <3>4 DEF StateWrite, ListLeft
      <4> QED BY <2>1, <3>1, <3>2, <3>4, <4>1 DEF Discovers
    <3> QED BY <3>3, <3>4
  <2>4. ASSUME NEW w \in Workers, ListSet(w) PROVE listed' = AllDiscovery'
    <3>1. goal[w] = AllDiscovery /\ listed' = goal[w] /\ UNCHANGED <<machine, iface>>
      BY <1>4, <2>4 DEF ListSet, At, ListFits, tables
    <3> QED BY <3>1 DEF AllDiscovery, CardsOf
  <2>5. CASE ListExpires
    BY <2>5 DEF ListExpires
  <2>6. CASE ~ListExpires /\ \A w \in Workers : ~Upsert(w) /\ ~StateWrite(w) /\ ~ListSet(w)
    <3>1. listed' = listed /\ AllDiscovery' = AllDiscovery
      BY <2>6, OnlyListStepsCache, MachinesListedStay
    <3>2. ASSUME NEW w \in Workers, Discovers(w) PROVE Discovers(w)'
      BY <1>1, <1>3, <2>6, <3>2, DiscoveryGoesOn
    <3>3. CASE listed \in {NoList, AllDiscovery}
      BY <3>1, <3>3
    <3>4. CASE \E w \in Workers : Discovers(w)
      BY <3>2, <3>4
    <3> QED BY <1>4, <3>3, <3>4
  <2> QED BY <2>2, <2>3, <2>4, <2>5, <2>6
<1> QED BY <1>5, <1>6

LEMMA ListInit == Init => ListInv
<1> SUFFICES ASSUME Init PROVE ListInv
  OBVIOUS
<1>1. faults = 0 /\ listed = NoList /\ \A w \in Workers : at[w] = "idle"
  BY DEF Init
<1> QED BY <1>1, InitTypes DEF ListInv, ListFits

\* With the one worker of the defaults nobody is answered a list of machines
\* that is older than the last discovery, however queries and expiries of the
\* cache come between its steps.
THEOREM ListStaysCurrent == Spec => []ListIsCurrent
<1>1. ListInv => ListIsCurrent
  <2> SUFFICES ASSUME ListInv, Alone, faults = 0, NEW w \in Workers, Discovers(w)
               PROVE  Handles(w, "discovery")
    BY DEF ListInv, ListIsCurrent, Alone
  <2> QED BY DEF Discovers, Handles
<1> QED BY <1>1, ListInit, ListStep, PTL DEF Spec

-----------------------------------------------------------------------------
(* What the row of a machine holds, when clients wait for their answers: a   *)
(* table has one worker then, and a machine one row.                         *)
Columns(t) ==
  IF t = "ignition" THEN [up_to_date: BOOLEAN]
  ELSE [enable: BOOLEAN, strategy: Strategies \union {"none"}]

\* The row that a worker has read is the one, as it has read it.
StoreFits(t, w) ==
  Handles(w, t) =>
    /\ at[w] = "fetch" => t = "ignition"
    /\ at[w] \in {"inject", "store"} => goal[w] \in Columns(t)
    /\ at[w] = "store" =>
         LET id == seen[w].machine  row == seen[w].row
         IN  IF row = NoId THEN RowsOf(t, id) = {}
             ELSE row \in RowsOf(t, id) /\ seen[w].was = life[t][row].columns
OneRow(t) ==
  \A id \in DOMAIN machine :
    /\ \A i, j \in RowsOf(t, id) : i = j
    /\ \A row \in RowsOf(t, id) : life[t][row].columns \in Columns(t) \intersect asked[t][machine[id]]
OneWorkerAt(t) == \A v, w \in Workers : Handles(v, t) /\ Handles(w, t) => v = w
Answered == {"ignition", "policy"}
AnswersInv ==
  /\ FactsInv
  /\ DOMAIN asked = Tables /\ \A t \in Tables : DOMAIN asked[t] = Uuids
  /\ traffic.waits =>
       \A t \in Answered : OneWorkerAt(t) /\ OneRow(t) /\ \A w \in Workers : StoreFits(t, w)

\* What an UPDATE leaves when the row is still as it was read.
LEMMA UpdatedIsNew ==
  ASSUME NEW t \in Answered, NEW was \in Columns(t), NEW new \in Columns(t)
  PROVE  Updated(was, was, Assigned(t, was, new)) = new
<1>1. Assigned(t, was, new) = new
  BY DEF Assigned, Answered
<1>2. DOMAIN was = DOMAIN new /\ new = [c \in DOMAIN new |-> new[c]]
  BY DEF Columns
<1>3. Updated(was, was, new) = [c \in DOMAIN new |-> new[c]]
  BY <1>2 DEF Updated
<1> QED BY <1>1, <1>2, <1>3

LEMMA OnlyLifecycleAsks ==
  ASSUME [Next]_vars, \A w \in Workers : ~Inject(w) /\ ~Store(w)
  PROVE  asked' = asked
BY DEF Next, HandlerStep, Start, Abort, LockExpires, ListExpires, Regenerate, Apply, Exit, vars,
       history, Find, Upsert, Ipxe, StateRead, StateWrite, LockGet, LockSet, Fetch, ScheduleRead,
       ScheduleWrite, VersionsGet, VersionsSet, ListQuery, ListSet, HealthProbe, HealthRead,
       HealthWrite, Take, Stop, Wait, Quit

\* The requests for another table leave the rows of t, and what was asked of them.
LEMMA OthersLeaveRows ==
  ASSUME AnswersInv, [Next]_vars, NEW t \in Answered,
         \A w \in Workers : Store(w) => req[w].kind # t
  PROVE  /\ life'[t] = life[t]
         /\ \A u \in Uuids : asked[t][u] \subseteq asked'[t][u]
<1>1. TypeInv /\ DOMAIN asked = Tables /\ (\A s \in Tables : DOMAIN asked[s] = Uuids)
      /\ DOMAIN life = Tables /\ t \in Tables
  BY DEF AnswersInv, FactsInv, TypeInv, Shapes, RowsInOrder, Answered, Tables
<1>2. ASSUME NEW w \in Workers, Store(w)
      PROVE  life'[t] = life[t] /\ asked'[t] = asked[t]
  <2>1. req[w].kind # t
    BY <1>2
  <2> QED BY <1>1, <1>2, <2>1 DEF Store, LifeStored
<1>3. ASSUME NEW w \in Workers, Inject(w)
      PROVE  life' = life /\ \A u \in Uuids : asked[t][u] \subseteq asked'[t][u]
  <2>1. life' = life
    BY <1>3 DEF Inject, tables
  <2>2. CASE asked' = asked
    BY <2>1, <2>2
  <2>3. ASSUME NEW s, NEW uuid, NEW new,
               asked' = [asked EXCEPT ![s][uuid] = asked[s][uuid] \union {new}]
        PROVE  \A u \in Uuids : asked[t][u] \subseteq asked'[t][u]
    <3>1. CASE s = t
      BY <1>1, <2>3, <3>1
    <3>2. CASE s # t
      BY <1>1, <2>3, <3>2
    <3> QED BY <3>1, <3>2
  <2> QED BY <1>3, <2>1, <2>2, <2>3 DEF Inject
<1>4. CASE \A w \in Workers : ~Inject(w) /\ ~Store(w)
  <2>1. asked' = asked
    BY <1>4, OnlyLifecycleAsks
  <2>2. ASSUME NEW w \in Workers, Commits(w) PROVE life'[t] = life[t]
    BY <1>1, <1>4, <2>2 DEF Commits, ScheduleWrite, HealthWrite, LifeStored, Answered
  <2> QED BY <2>1, <2>2, OnlyCommitsWriteRows
<1> QED BY <1>2, <1>3, <1>4

LEMMA AskedFits ==
  ASSUME AnswersInv, [Next]_vars
  PROVE  DOMAIN asked' = Tables /\ \A t \in Tables : DOMAIN asked'[t] = Uuids
<1>1. DOMAIN asked = Tables /\ \A t \in Tables : DOMAIN asked[t] = Uuids
  BY DEF AnswersInv
<1>2. ASSUME NEW s, NEW uuid, NEW new, asked' = [asked EXCEPT ![s][uuid] = new]
      PROVE  DOMAIN asked' = Tables /\ \A t \in Tables : DOMAIN asked'[t] = Uuids
  <2>1. DOMAIN asked' = Tables
    BY <1>1, <1>2
  <2>2. ASSUME NEW t \in Tables PROVE DOMAIN asked'[t] = Uuids
    BY <1>1, <1>2
  <2> QED BY <2>1, <2>2
<1>3. ASSUME NEW w \in Workers, Inject(w) \/ Store(w)
      PROVE  asked' = asked \/ \E s, uuid, new : asked' = [asked EXCEPT ![s][uuid] = new]
  BY <1>3 DEF Inject, Store
<1> QED BY <1>1, <1>2, <1>3, OnlyLifecycleAsks

LEMMA OneWorkerStill ==
  ASSUME AnswersInv, [Next]_vars, traffic.waits, NEW t \in Answered
  PROVE  OneWorkerAt(t)'
<1>1. TypeInv /\ OneWorkerAt(t) /\ at \in [Workers -> Steps] /\ t \in Kinds
  BY DEF AnswersInv, FactsInv, TypeInv, ApiTypeOK, Answered, Kinds
<1>2. ASSUME NEW a \in Workers, Handles(a, t)' PROVE Start(a, t) \/ Handles(a, t)
  BY <1>1, <1>2, OnItsWay DEF Handles
<1>3. ASSUME NEW a \in Workers, NEW b \in Workers, Start(a, t), Handles(b, t) PROVE FALSE
  BY <1>3 DEF Start
<1>4. ASSUME NEW a \in Workers, NEW b \in Workers, Start(a, t), Start(b, t) PROVE a = b
  <2>1. at' = [at EXCEPT ![a] = Entry[t]] /\ at' = [at EXCEPT ![b] = Entry[t]]
    BY <1>4 DEF Start
  <2>2. at[a] = "idle" /\ Entry[t] # "idle"
    BY <1>4 DEF Start, Entry, Answered
  <2> QED BY <1>1, <2>1, <2>2
<1> QED BY <1>1, <1>2, <1>3, <1>4 DEF OneWorkerAt

\* Who is about to ask matchbox reports an ignition.
LEMMA FetchIsReached ==
  ASSUME TypeInv, [Next]_vars, NEW w \in Workers, at'[w] = "fetch"
  PROVE  req'[w].kind = "ignition" \/ Same(w)
<1>1. ~Answers(w) /\ at \in [Workers -> Steps]
  BY AnswersAlone DEF TypeInv, ApiTypeOK
<1>2. ASSUME NEW step, NEW read, Goes(w, step, read) PROVE step = "fetch"
  BY <1>1, <1>2 DEF Goes
<1>3. ~HandlerStep(w)
  BY <1>1, <1>2 DEF HandlerStep, Find, Upsert, Ipxe, StateRead, StateWrite, LockGet, LockSet, Fetch,
     Inject, Store, ScheduleRead, ScheduleWrite, VersionsGet, VersionsSet, ListQuery, ListSet,
     HealthProbe, HealthRead, HealthWrite, Take, Stop, Wait, Quit
<1>4. ASSUME NEW kind \in Kinds, at'[w] = Entry[kind] PROVE kind = "ignition"
  BY <1>4 DEF Kinds, Entry
<1>5. \A kind \in Kinds : Start(w, kind) => at[w] = "idle"
  BY DEF Start
<1> QED BY <1>1, <1>3, <1>4, <1>5, OnItsWay, OnlyItsWorker DEF Abort, Same

LEMMA StoreFitsStill ==
  ASSUME AnswersInv, [Next]_vars, traffic.waits, NEW t \in Answered, NEW w \in Workers
  PROVE  StoreFits(t, w)'
<1>1. /\ TypeInv /\ OneWorkerAt(t) /\ StoreFits(t, w)
      /\ at \in [Workers -> Steps] /\ DOMAIN goal = Workers /\ DOMAIN seen = Workers
      /\ DOMAIN life[t] = 1 .. Len(life[t])
  BY DEF AnswersInv, FactsInv, TypeInv, ApiTypeOK, Shapes, RowsInOrder, Answered, Tables
<1>2. SUFFICES ASSUME Handles(w, t)', at'[w] \in {"fetch", "inject", "store"} PROVE StoreFits(t, w)'
  BY DEF StoreFits
<1>3. CASE at'[w] = "fetch" /\ ~Same(w)
  BY <1>1, <1>2, <1>3, FetchIsReached DEF StoreFits, Handles
<1>4. ASSUME Start(w, "policy"), at'[w] = "inject" PROVE StoreFits(t, w)'
  <2>1. PICK r \in Requests("policy") :
          goal' = [goal EXCEPT ![w] = IF "policy" = "boot" THEN "booting" ELSE r.value]
          /\ req' = [req EXCEPT ![w] = r]
    BY <1>4 DEF Start
  <2>2. r.value \in Policies /\ r.kind = "policy"
    BY DEF Requests, Request
  <2>3. goal'[w] = r.value /\ req'[w].kind = "policy"
    BY <1>1, <2>1, <2>2 DEF TypeInv, Shapes
  <2>4. t = "policy"
    BY <1>2, <2>3 DEF Handles
  <2>5. r.value \in [enable: BOOLEAN, strategy: Strategies \union {"none"}]
    <3>1. CASE \E s \in Strategies : r.value = [enable |-> TRUE, strategy |-> s]
      BY <3>1
    <3>2. CASE r.value = [enable |-> FALSE, strategy |-> "none"]
      BY <3>2
    <3> QED BY <2>2, <3>1, <3>2 DEF Policies
  <2>6. goal'[w] \in Columns(t)
    BY <2>3, <2>4, <2>5 DEF Columns
  <2> QED BY <1>4, <2>6 DEF StoreFits
<1>5. ASSUME NEW kind \in {"install"}, Start(w, kind) PROVE FALSE
  <2>1. PICK r \in Requests("install") : req' = [req EXCEPT ![w] = r]
    BY <1>5 DEF Start
  <2>2. req'[w].kind = "install"
    BY <2>1, RequestFits, <1>1 DEF TypeInv, Shapes, Kinds
  <2> QED BY <1>2, <2>2 DEF Handles, Answered
<1>6. ASSUME Fetch(w), at'[w] = "inject" PROVE StoreFits(t, w)'
  <2>1. ~Answers(w)
    BY <1>1, <1>6, AnswersAlone
  <2>2. /\ goal' = [goal EXCEPT ![w] = [up_to_date |-> req[w].value = served[req[w].mac]]]
        /\ req' = req /\ at[w] = "fetch"
    BY <1>6, <2>1 DEF Fetch, At
  <2>3. t = "ignition"
    BY <1>1, <1>2, <2>2 DEF StoreFits, Handles
  <2>4. goal'[w] \in Columns(t)
    BY <1>1, <2>2, <2>3 DEF Columns
  <2> QED BY <1>6, <2>4 DEF StoreFits
<1>7. ASSUME Inject(w), at'[w] = "store" PROVE StoreFits(t, w)'
  <2> DEFINE id == OwnerOf(req[w].mac)
  <2>1. ~Answers(w)
    BY <1>1, <1>7, AnswersAlone
  <2>2. PICK row \in First(RowsOf(req[w].kind, id)) :
          Goes(w, "store", [machine |-> id, row |-> row,
               was |-> IF row = NoId THEN goal[w] ELSE life[req[w].kind][row].columns])
    BY <1>7, <2>1 DEF Inject
  <2>3. req' = req /\ goal' = goal /\ life' = life /\ at[w] = "inject"
    BY <1>7, <2>1 DEF Inject, At, tables
  <2>4. req[w].kind = t /\ goal[w] \in Columns(t)
    BY <1>1, <1>2, <2>3 DEF StoreFits, Handles
  <2>5. seen'[w].machine = id /\ seen'[w].row = row
        /\ (row # NoId => seen'[w].was = life[t][row].columns)
    BY <1>1, <2>2, <2>4 DEF Goes
  <2>6. IF row = NoId THEN RowsOf(t, id) = {} ELSE row \in RowsOf(t, id)
    BY <1>1, <2>2, <2>4 DEF First, RowsOf, NoId
  <2>7. goal'[w] \in Columns(t)
    BY <2>3, <2>4
  <2> QED BY <1>7, <2>3, <2>5, <2>6, <2>7 DEF StoreFits, RowsOf
<1>8. CASE Same(w)
  <2>1. Handles(w, t)
    BY <1>2, <1>8 DEF Handles, Same
  <2>2. CASE at'[w] \in {"fetch", "inject"}
    BY <1>1, <1>8, <2>1, <2>2 DEF StoreFits, Same
  <2>3. CASE at'[w] = "store"
    <3>1. ASSUME NEW v \in Workers, Store(v), req[v].kind = t PROVE FALSE
      <4>1. v = w
        BY <1>1, <2>1, <3>1 DEF OneWorkerAt, Handles, Store, At
      <4>2. at'[v] \in {"idle", "state_read"}
        BY <1>1, <3>1 DEF Store, Answers, Goes
      <4> QED BY <2>3, <4>1, <4>2
    <3>2. life'[t] = life[t]
      BY <3>1, OthersLeaveRows
    <3>3. \A id : {row \in DOMAIN life'[t] : life'[t][row].machine = id} = RowsOf(t, id)
      BY <3>2 DEF RowsOf
    <3> QED BY <1>1, <1>8, <2>1, <2>3, <3>2, <3>3 DEF StoreFits, Same, RowsOf
  <2> QED BY <1>2, <2>2, <2>3
<1>9. at'[w] \in LaterSteps \/ (at'[w] = "fetch" /\ ~Same(w)) \/ Same(w)
  BY <1>2 DEF LaterSteps
<1> QED BY <1>1, <1>2, <1>3, <1>4, <1>5, <1>6, <1>7, <1>8, <1>9, LaterStepIsReached

\* An answer leaves the machine one row, with what its request had asked.
LEMMA StoreLeavesOne ==
  ASSUME AnswersInv, [Next]_vars, traffic.waits, NEW t \in Answered,
         NEW w \in Workers, Store(w), req[w].kind = t
  PROVE  OneRow(t)'
<1> DEFINE rows == life[t]  new == goal[w]
<1>1. PICK id, row : id = seen[w].machine /\ row = seen[w].row
  OBVIOUS
<1>2. /\ TypeInv /\ OneRow(t) /\ StoreFits(t, w) /\ OneMachinePerUuid
      /\ DOMAIN life = Tables /\ Len(rows) \in Nat /\ DOMAIN rows = 1 .. Len(rows) /\ t \in Tables
      /\ DOMAIN asked = Tables /\ DOMAIN asked[t] = Uuids
  BY DEF AnswersInv, FactsInv, TypeInv, Shapes, RowsInOrder, Answered, Tables
<1>3. at[w] = "store" /\ machine' = machine
  BY DEF Store, At
<1>4. Handles(w, t) /\ id \in DOMAIN machine /\ new \in Columns(t)
  BY <1>1, <1>2, <1>3, Types DEF Handles, InHand, StoreFits
<1>5. IF row = NoId THEN RowsOf(t, id) = {}
      ELSE row \in RowsOf(t, id) /\ seen[w].was = rows[row].columns
  BY <1>1, <1>2, <1>3, <1>4 DEF StoreFits
<1>6. asked'[t] = [asked[t] EXCEPT ![machine[id]] = {new}]
  BY <1>1, <1>2 DEF Store
<1>7. \A n \in DOMAIN machine : machine[n] \in Uuids
  BY <1>2, Types
<1>8. /\ RowsOf(t, id)' # {} /\ \A i \in RowsOf(t, id)' : life'[t][i].columns = new
      /\ \A i, j \in RowsOf(t, id)' : i = j
      /\ \A n \in DOMAIN machine \ {id} :
           RowsOf(t, n)' = RowsOf(t, n) /\ \A i \in RowsOf(t, n) : life'[t][i] = rows[i]
  <2>1. CASE row = NoId
    <3>1. life'[t] = Append(rows, [machine |-> id, columns |-> new])
      BY <1>1, <1>2, <2>1 DEF Store, LifeStored
    <3>2. /\ DOMAIN life'[t] = 1 .. Len(rows) + 1
          /\ \A r \in 1 .. Len(rows) : life'[t][r] = rows[r]
          /\ life'[t][Len(rows) + 1] = [machine |-> id, columns |-> new]
      BY <1>2, <3>1
    <3>3. RowsOf(t, id)' = {Len(rows) + 1}
      BY <1>2, <1>5, <2>1, <3>2 DEF RowsOf
    <3>4. \A n \in DOMAIN machine \ {id} : RowsOf(t, n)' = RowsOf(t, n)
      BY <1>2, <3>2 DEF RowsOf
    <3> QED BY <1>2, <3>2, <3>3, <3>4 DEF RowsOf
  <2>2. CASE row # NoId
    <3>1. row \in RowsOf(t, id) /\ seen[w].was = rows[row].columns /\ rows[row].columns \in Columns(t)
      BY <1>2, <1>4, <1>5, <2>2 DEF OneRow
    <3>2. Updated(rows[row].columns, seen[w].was, Assigned(t, seen[w].was, new)) = new
      BY <1>4, <3>1, UpdatedIsNew
    <3>3. life'[t] = [rows EXCEPT ![row].columns = new]
      BY <1>1, <1>2, <2>2, <3>2 DEF Store, LifeStored
    <3>4. /\ DOMAIN life'[t] = DOMAIN rows
          /\ \A r \in DOMAIN rows : life'[t][r].machine = rows[r].machine
          /\ \A r \in DOMAIN rows \ {row} : life'[t][r] = rows[r]
      BY <1>2, <3>3
    <3>5. \A n \in DOMAIN machine : RowsOf(t, n)' = RowsOf(t, n)
      BY <3>4 DEF RowsOf
    <3>6. RowsOf(t, id) = {row} /\ row \in DOMAIN rows
      BY <1>2, <1>4, <3>1 DEF OneRow, RowsOf
    <3>7. life'[t][row].columns = new
      BY <3>3, <3>6
    <3>8. \A n \in DOMAIN machine \ {id} : row \notin RowsOf(t, n)
      BY <3>1 DEF RowsOf
    <3> QED BY <1>4, <3>4, <3>5, <3>6, <3>7, <3>8 DEF RowsOf
  <2> QED BY <2>1, <2>2
<1>9. ASSUME NEW n \in DOMAIN machine
      PROVE  /\ \A i, j \in RowsOf(t, n)' : i = j
             /\ \A i \in RowsOf(t, n)' : life'[t][i].columns \in Columns(t) \intersect asked'[t][machine[n]]
  <2>1. CASE n = id
    BY <1>2, <1>4, <1>6, <1>7, <1>8, <2>1
  <2>2. CASE n # id
    <3>1. machine[n] # machine[id]
      BY <1>2, <1>4, <2>2 DEF OneMachinePerUuid
    <3>2. asked'[t][machine[n]] = asked[t][machine[n]]
      BY <1>2, <1>6, <1>7, <3>1
    <3> QED BY <1>2, <1>8, <2>2, <3>2 DEF OneRow
  <2> QED BY <2>1, <2>2
<1> QED BY <1>3, <1>9 DEF OneRow

LEMMA OneRowStill ==
  ASSUME AnswersInv, [Next]_vars, traffic.waits, NEW t \in Answered
  PROVE  OneRow(t)'
<1>1. TypeInv /\ OneRow(t) /\ FactsInv /\ t \in Tables \ {"health"}
  BY DEF AnswersInv, FactsInv, Answered, Tables
<1>2. CASE \E w \in Workers : Store(w) /\ req[w].kind = t
  BY <1>2, StoreLeavesOne
<1>3. CASE \A w \in Workers : Store(w) => req[w].kind # t
  <2>1. life'[t] = life[t] /\ \A u \in Uuids : asked[t][u] \subseteq asked'[t][u]
    BY <1>3, OthersLeaveRows
  <2>2. \A id \in DOMAIN machine : machine'[id] = machine[id] /\ machine[id] \in Uuids
    BY <1>1, MachinesStay, Types
  <2>3. \A row \in DOMAIN life[t] : life[t][row].machine \in DOMAIN machine
    BY <1>1 DEF TypeInv, ApiTypeOK, TablesTypeOK
  <2>4. \A id : RowsOf(t, id)' = RowsOf(t, id)
    BY <2>1 DEF RowsOf
  <2>5. ASSUME NEW id \in DOMAIN machine'
        PROVE  /\ \A i, j \in RowsOf(t, id) : i = j
               /\ \A row \in RowsOf(t, id) :
                    life'[t][row].columns \in Columns(t) \intersect asked'[t][machine'[id]]
    <3>1. CASE id \in DOMAIN machine
      BY <1>1, <2>1, <2>2, <3>1 DEF OneRow
    <3>2. CASE id \notin DOMAIN machine
      BY <2>3, <3>2 DEF RowsOf
    <3> QED BY <3>1, <3>2
  <2> QED BY <2>4, <2>5 DEF OneRow
<1> QED BY <1>2, <1>3

LEMMA AnswersStep == AnswersInv /\ [Next]_vars => AnswersInv'
<1> SUFFICES ASSUME AnswersInv, [Next]_vars PROVE AnswersInv'
  OBVIOUS
<1>1. FactsInv' /\ traffic' = traffic
  BY FactsStep, TrafficStays DEF AnswersInv
<1> QED BY <1>1, AskedFits, OneWorkerStill, OneRowStill, StoreFitsStill DEF AnswersInv

LEMMA AnswersInit == Init => AnswersInv
<1> SUFFICES ASSUME Init PROVE AnswersInv
  OBVIOUS
<1>1. \A w \in Workers, t \in Answered : ~Handles(w, t)
  BY DEF Init, Handles
<1>2. \A t \in Answered : DOMAIN machine = {}
  BY DEF Init, RepositoriesInit
<1>3. DOMAIN asked = Tables /\ \A t \in Tables : DOMAIN asked[t] = Uuids
  BY DEF Init
<1> QED BY <1>1, <1>2, <1>3, FactsInit DEF AnswersInv, OneWorkerAt, OneRow, StoreFits

LEMMA OneRowRecorded ==
  ASSUME TypeInv, NEW t \in Answered, OneRow(t)
  PROVE  Recorded(t)
<1> SUFFICES ASSUME NEW mac \in Macs, NEW row \in RowsOf(t, OwnerOf(mac))
             PROVE  life[t][row].columns \in asked[t][machine[OwnerOf(mac)]]
  BY DEF Recorded, Told
<1>1. OwnerOf(mac) \in DOMAIN machine
  BY DEF RowsOf, TypeInv, ApiTypeOK, TablesTypeOK, Answered, Tables
<1> QED BY <1>1 DEF OneRow

\* Whatever is discovered meanwhile and whichever worker it reaches, the status
\* and the policy that are told of a machine are those of its last answer, or of
\* a later request that was lost.
THEOREM LastAnswersAreRecorded == Spec => []LastAnswerIsRecorded
<1>1. AnswersInv => LastAnswerIsRecorded
  BY OneRowRecorded DEF AnswersInv, FactsInv, LastAnswerIsRecorded, Answered
<1> QED BY <1>1, AnswersInit, AnswersStep, PTL DEF Spec
=============================================================================

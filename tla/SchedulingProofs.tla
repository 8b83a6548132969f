--------------------------- MODULE SchedulingProofs ---------------------------
(***************************************************************************)
(* Proofs about module Scheduling, for any number of machines, interfaces  *)
(* and faults and any expected number of control planes.                   *)
(***************************************************************************)
EXTENDS Scheduling, FiniteSetTheorems, TLAPS

USE ExpectedNbIsPositive, NbTryIsPositive, FaultsAreKnown

(* Every step keeps the types: the handlers hold well-formed requests, the *)
(* plan is at a label it knows, the retry counter stays below nb_try.      *)
LEMMA TypeStep == TypeOK /\ [Next]_vars => TypeOK'
<1> SUFFICES ASSUME TypeOK, [Next]_vars PROVE TypeOK'
  OBVIOUS
<1> USE DEF TypeOK, Labels, Go, api, plan
<1>1. ASSUME NEW r \in Reports, Discover(r) PROVE TypeOK'
  BY <1>1, ReportsAreFacts DEF Discover, Reported
<1>2. CASE Start
  BY <1>2 DEF Start
<1>3. CASE CpQuery
  BY <1>3 DEF CpQuery
<1>4. CASE CpFetch
  <2>1. \A listing \in Listings : listing \subseteq Macs
    BY DEF Listings
  <2> QED BY <1>4, <2>1 DEF CpFetch
<1>5. CASE NodeQuery
  BY <1>5 DEF NodeQuery
<1>6. CASE NodeQueryFails
  BY <1>6 DEF NodeQueryFails, NodeException
<1>7. CASE NodeFetch
  <2>1. \A listing \in Listings : listing \subseteq Macs
    BY DEF Listings
  <2> QED BY <1>7, <2>1 DEF NodeFetch
<1>8. CASE Sync
  BY <1>8 DEF Sync
<1>9. ASSUME NEW w \in Workers, Affect(w) PROVE TypeOK'
  <2>1. PICK mac \in todo :
          handler' = [handler EXCEPT ![w] =
                        [mac |-> mac, roles |-> Affecting[pc], client |-> "plan"]]
    BY <1>9 DEF Affect
  <2>2. Affecting[pc] \in {CPRoles, NodeRoles}
    BY <1>9 DEF Affect, Affecting
  <2>3. [mac |-> mac, roles |-> Affecting[pc], client |-> "plan"] \in Request
    BY <2>2 DEF Request
  <2>4. handler' \in [Workers -> Request \cup {Idle}]
    BY <2>1, <2>3
  <2> QED BY <1>9, <2>4 DEF Affect, WaitOf
<1>10. ASSUME NEW w \in Workers, Handle(w) PROVE TypeOK'
  <2>1. handler[w] \in Request
    BY <1>10 DEF Handle
  <2>2. rows' \in [Uuids -> SUBSET (CPRoles \cup NodeRoles)]
    BY <1>10, <2>1 DEF Handle, CreateSchedule, Request
  <2> QED BY <1>10, <2>1, <2>2 DEF Handle, Answer, DoneOf, AffectOf
<1>11. ASSUME NEW w \in Workers, WorkerLost(w) PROVE TypeOK'
  <2>1. handler[w] \in Request
    BY <1>11 DEF WorkerLost
  <2>2. rows' \in [Uuids -> SUBSET (CPRoles \cup NodeRoles)]
    BY <1>11, <2>1 DEF WorkerLost, CreateSchedule, Request
  <2> QED BY <1>11, <2>1, <2>2 DEF WorkerLost, ConnectionError, Fault
<1>12. ASSUME NEW w \in Workers, HttpErrorOnPost(w) PROVE TypeOK'
  <2>1. handler[w] \in Request
    BY <1>12 DEF HttpErrorOnPost
  <2> QED BY <1>12, <2>1 DEF HttpErrorOnPost, Answer, DoneOf, AffectOf, Fault
<1>13. CASE PlanCrash
  <2>1. ASSUME NEW w \in Workers, handler[w] # Idle
        PROVE  [handler[w] EXCEPT !.client = "gone"] \in Request
    BY <2>1 DEF Request
  <2> QED BY <1>13, <2>1 DEF PlanCrash, Fault
<1>14. CASE Refused
  BY <1>14 DEF Refused, ConnectionError, SyncTriesAgain, Fault
<1>15. CASE HttpErrorOnGet
  BY <1>15 DEF HttpErrorOnGet, NodeException, SyncTriesAgain, Fault
<1>16. CASE UNCHANGED vars
  BY <1>16 DEF vars
<1> QED
  BY <1>1, <1>2, <1>3, <1>4, <1>5, <1>6, <1>7, <1>8, <1>9, <1>10, <1>11,
     <1>12, <1>13, <1>14, <1>15, <1>16 DEF Next, PlanStep

LEMMA TypeInit == Init => TypeOK
  BY DEF Init, TypeOK, Labels

(* The state of the plan, the API and the database keeps its types: every  *)
(* behaviour of k8s_2t.py against the API, under every fault.              *)
THEOREM TypeCorrect == Spec => []TypeOK
  BY TypeInit, TypeStep, PTL DEF Spec

-----------------------------------------------------------------------------
(* Counting the control plane.                                             *)

LEMMA Roles ==
  /\ CPRoles # NodeRoles /\ CPRoles # {} /\ NodeRoles # {}
  /\ ControlPlane = {m \in Uuids : rows[m] = CPRoles}
<1>1. CPRoles # NodeRoles /\ CPRoles # {} /\ NodeRoles # {}
  BY DEF CPRoles, NodeRoles
<1> QED BY <1>1 DEF ControlPlane, Holding

LEMMA Counts ==
  /\ IsFiniteSet(ControlPlane) /\ Cardinality(ControlPlane) \in Nat
  /\ Limit \in Nat /\ ExpectedNb <= Limit
<1>1. ControlPlane \subseteq Uuids
  BY Roles
<1> QED BY <1>1, UuidsAreFinite, FS_Subset, FS_CardinalityType DEF Limit

LEMMA FiniteTodo ==
  ASSUME TypeOK PROVE IsFiniteSet(todo) /\ Cardinality(todo) \in Nat
  BY UuidsAreFinite, FS_Subset, FS_CardinalityType DEF TypeOK

(* What a committed POST does: the machine that has the MAC, if there is   *)
(* one, gets the roles of the request and had none.                        *)
LEMMA Commit ==
  ASSUME TypeOK, KnownCards, CardsStayHome,
         NEW request \in Request, Untiered(request.mac), CreateSchedule(request)
  PROVE  \/ ~Found(request.mac) /\ rows' = rows
         \/ \E m \in Uuids : /\ request.mac \in nics[m]
                            /\ rows[m] = {}
                            /\ rows' = [rows EXCEPT ![m] = request.roles]
<1>1. CASE ~Found(request.mac)
  <2>1. rows' = [m \in Uuids |-> rows[m]]
    BY <1>1 DEF CreateSchedule, Found
  <2> QED BY <1>1, <2>1 DEF TypeOK
<1>2. ASSUME NEW m \in Uuids, request.mac \in nics[m]
      PROVE  rows[m] = {} /\ rows' = [rows EXCEPT ![m] = request.roles]
  <2>1. request.mac \in Cards(m)
    BY <1>2 DEF KnownCards
  <2>2. rows[m] = {}
    BY <2>1 DEF Untiered
  <2>3. \A n \in Uuids \ {m} : request.mac \notin nics[n]
    BY <2>1 DEF KnownCards, CardsStayHome
  <2>4. \A n \in Uuids : rows'[n] = IF n = m THEN request.roles ELSE rows[n]
    BY <1>2, <2>2, <2>3 DEF CreateSchedule
  <2>5. rows' = [n \in Uuids |-> rows'[n]]
    BY DEF CreateSchedule
  <2> QED BY <2>2, <2>4, <2>5 DEF TypeOK
<1> QED BY <1>1, <1>2 DEF Found

LEMMA CommitCounts ==
  ASSUME TypeOK, NEW m \in Uuids, rows[m] = {}, NEW roles \in {CPRoles, NodeRoles},
         rows' = [rows EXCEPT ![m] = roles]
  PROVE  Cardinality(ControlPlane') = IF roles = CPRoles
                                        THEN Cardinality(ControlPlane) + 1
                                        ELSE Cardinality(ControlPlane)
<1>1. ControlPlane' = {n \in Uuids : rows'[n] = CPRoles}
  BY Roles DEF ControlPlane, Holding
<1>2. CASE roles = CPRoles
  <2>1. ControlPlane' = ControlPlane \cup {m} /\ m \notin ControlPlane
    BY <1>1, <1>2, Roles DEF TypeOK
  <2> QED BY <1>2, <2>1, Counts, FS_AddElement
<1>3. CASE roles = NodeRoles
  <2>1. ControlPlane' = ControlPlane
    BY <1>1, <1>3, Roles DEF TypeOK
  <2> QED BY <1>3, <2>1, Roles
<1> QED BY <1>2, <1>3

LEMMA SameRows ==
  ASSUME rows' = rows
  PROVE  /\ ControlPlane' = ControlPlane
         /\ WholeTiers => WholeTiers'
         /\ ControlPlaneBound => ControlPlaneBound'
         /\ NodesAfterControlPlane => NodesAfterControlPlane'
         /\ \A mac : Untiered(mac) => Untiered(mac)'
<1>1. ControlPlane' = ControlPlane
  BY DEF ControlPlane, Holding
<1> QED
  BY <1>1 DEF WholeTiers, ControlPlaneBound, NodesAfterControlPlane, Untiered

-----------------------------------------------------------------------------
(* The invariant that holds under every fault.                             *)

LEMMA IInvInit == Init => IInv
<1> SUFFICES ASSUME Init PROVE IInv
  OBVIOUS
<1>1. TypeOK
  BY TypeInit
<1>2. ControlPlane = {}
  BY Roles DEF Init
<1>3. Cardinality(ControlPlane) = 0
  BY <1>2, FS_EmptySet
<1> QED
  BY <1>1, <1>3, Counts
  DEF IInv, Init, WholeTiers, ControlPlaneBound, KnownCards, Batch, Room, InFlight

(* A batch is chosen from listed machines, which have no tier, by one MAC  *)
(* each.                                                                   *)
LEMMA Listed ==
  ASSUME TypeOK, KnownCards, CardsStayHome, NEW listing \in Listings,
         NEW chosen \in SUBSET listing
  PROVE  /\ \A mac \in chosen : Untiered(mac) /\ Found(mac)
         /\ \A m \in Uuids : \A x, y \in chosen \cap Cards(m) : x = y
<1>1. PICK pick \in [Available -> Macs] :
        /\ \A m \in Available : pick[m] \in nics[m]
        /\ listing = {pick[m] : m \in Available}
  BY DEF Listings
<1>2. \A mac \in listing : \E m \in Available : mac = pick[m] /\ mac \in nics[m]
  BY <1>1
<1>3. \A m \in Available : m \in Uuids /\ rows[m] = {} /\ nics[m] \subseteq Cards(m)
  BY DEF Available, KnownCards
<1>4. ASSUME NEW mac \in chosen PROVE Untiered(mac) /\ Found(mac)
  <2>1. PICK m \in Available : mac \in nics[m]
    BY <1>2
  <2>2. \A n \in Uuids : mac \in Cards(n) => n = m
    BY <1>3, <2>1 DEF CardsStayHome
  <2> QED BY <1>3, <2>1, <2>2 DEF Untiered, Found
<1>5. ASSUME NEW m \in Uuids, NEW x \in chosen \cap Cards(m), NEW y \in chosen \cap Cards(m)
      PROVE  x = y
  <2>1. PICK n \in Available : x = pick[n] /\ x \in nics[n]
    BY <1>2
  <2>2. PICK k \in Available : y = pick[k] /\ y \in nics[k]
    BY <1>2
  <2>3. n = m /\ k = m
    BY <1>3, <2>1, <2>2 DEF CardsStayHome
  <2> QED BY <2>1, <2>2, <2>3
<1> QED BY <1>4, <1>5

(* The transaction of a POST preserves what the invariant says of the      *)
(* database and leaves room as counted.                                    *)
LEMMA Committed ==
  ASSUME IInv, CardsStayHome, NEW w \in Workers, handler[w] # Idle,
         CreateSchedule(handler[w])
  PROVE  /\ WholeTiers' /\ ControlPlaneBound'
         /\ \A mac \in todo \ {handler[w].mac} :
              handler[w].mac \in todo => Untiered(mac)'
         /\ Cardinality(ControlPlane') <= Cardinality(ControlPlane)
              + (IF handler[w].roles = CPRoles THEN 1 ELSE 0)
<1> DEFINE request == handler[w]
<1>1. request \in Request /\ TypeOK /\ Untiered(request.mac)
  BY DEF IInv, TypeOK, InFlight
<1>2. request.roles \in {CPRoles, NodeRoles}
  BY <1>1 DEF Request
<1>3. CASE rows' = rows
  BY <1>3, SameRows, Counts DEF IInv, Batch
<1>4. ASSUME NEW m \in Uuids, request.mac \in nics[m], rows[m] = {},
             rows' = [rows EXCEPT ![m] = request.roles]
      PROVE  /\ WholeTiers' /\ ControlPlaneBound'
             /\ \A mac \in todo \ {request.mac} : request.mac \in todo => Untiered(mac)'
             /\ Cardinality(ControlPlane') <= Cardinality(ControlPlane)
                  + (IF request.roles = CPRoles THEN 1 ELSE 0)
  <2>1. Cardinality(ControlPlane') = IF request.roles = CPRoles
                                       THEN Cardinality(ControlPlane) + 1
                                       ELSE Cardinality(ControlPlane)
    BY <1>1, <1>2, <1>4, CommitCounts
  <2>2. ControlPlaneBound'
    <3>1. request.roles = CPRoles => Cardinality(ControlPlane) < Limit
      BY DEF IInv, InFlight
    <3> QED BY <2>1, <3>1, Counts DEF IInv, ControlPlaneBound, Limit
  <2>3. WholeTiers'
    BY <1>1, <1>2, <1>4 DEF IInv, WholeTiers, TypeOK
  <2>4. ASSUME NEW mac \in todo \ {request.mac}, request.mac \in todo
        PROVE  Untiered(mac)'
    <3>1. request.mac \in Cards(m)
      BY <1>4 DEF IInv, KnownCards
    <3>2. mac \notin Cards(m)
      BY <2>4, <3>1 DEF IInv, Batch
    <3>3. \A n \in Uuids : mac \in Cards(n) => rows'[n] = rows[n]
      BY <1>1, <1>4, <3>2 DEF TypeOK
    <3> QED BY <3>3 DEF IInv, Batch, Untiered
  <2> QED BY <2>1, <2>2, <2>3, <2>4, Counts
<1> QED BY <1>1, <1>3, <1>4, Commit DEF IInv

(* A POST that ends, whatever it did to the database, leaves the worker    *)
(* idle and the plan with the rest of its batch, or none.                  *)
LEMMA Ended ==
  ASSUME OneWorker, IInv, TypeOK', NEW w \in Workers, handler[w] # Idle,
         nics' = nics, handler' = [handler EXCEPT ![w] = Idle],
         WholeTiers', ControlPlaneBound',
         \A mac \in todo \ {handler[w].mac} : handler[w].mac \in todo => Untiered(mac)',
         Cardinality(ControlPlane') <= Cardinality(ControlPlane)
           + (IF handler[w].roles = CPRoles THEN 1 ELSE 0),
         \/ Answer(w)
         \/ IF handler[w].client = "plan" THEN ConnectionError(handler[w].roles)
                                          ELSE UNCHANGED plan
  PROVE  IInv'
<1> USE DEF IInv
<1>1. handler[w] \in Request
  BY DEF TypeOK
<1>2. KnownCards'
  BY DEF KnownCards, Cards
<1>3. \A v \in Workers : v = w
  BY DEF OneWorker
<1>4. InFlight'
  BY <1>3 DEF InFlight, TypeOK
<1>5. CASE handler[w].client = "gone"
  <2>1. pc' = pc /\ todo' = todo /\ pc \in {"stopped", "cp_query"} /\ todo = {}
    BY <1>5 DEF InFlight, Answer, plan, Batch
  <2>2. Batch' /\ Room'
    BY <2>1 DEF Batch, Room, Cards
  <2> QED BY <1>2, <1>4, <2>2
<1>6. CASE handler[w].client = "plan"
  <2>1. /\ pc = WaitOf(handler[w].roles)
        /\ handler[w].mac \in todo
    BY <1>6 DEF InFlight
  <2>2. CASE ConnectionError(handler[w].roles)
    BY <1>2, <1>4, <2>2, Roles DEF ConnectionError, Go, Batch, Room, Cards
  <2>3. CASE Answer(w)
    <3>1. /\ todo' = todo \ {handler[w].mac}
          /\ pc' = IF todo' = {} THEN DoneOf(handler[w].roles) ELSE AffectOf(handler[w].roles)
      BY <1>6, <2>3 DEF Answer, Go
    <3>2. IsFiniteSet(todo) /\ Cardinality(todo') = Cardinality(todo) - 1
          /\ Cardinality(todo) \in Nat
      BY <2>1, <3>1, FiniteTodo, FS_RemoveElement
    <3>3. Batch'
      BY <2>1, <3>1, <1>1 DEF Batch, DoneOf, AffectOf, Request, Cards
    <3>4. Room'
      <4>1. CASE handler[w].roles = CPRoles
        <5>1. pc = "cp_wait"
          BY <2>1, <4>1 DEF WaitOf
        <5>2. Cardinality(ControlPlane) + Cardinality(todo) <= Limit
          BY <5>1 DEF Room
        <5>3. Cardinality(ControlPlane') \in Nat
          BY <3>2, Counts, UuidsAreFinite, FS_Subset, FS_CardinalityType
             DEF ControlPlane, Holding
        <5>4. Cardinality(ControlPlane') + Cardinality(todo') <= Limit
          BY <4>1, <3>2, <5>2, <5>3, Counts
        <5> QED BY <3>1, <4>1, <5>4 DEF Room, DoneOf, AffectOf, Limit
      <4>2. CASE handler[w].roles = NodeRoles
        BY <3>1, <4>2, Roles DEF Room, DoneOf, AffectOf
      <4> QED BY <1>1, <4>1, <4>2 DEF Request
    <3> QED BY <1>2, <1>4, <3>3, <3>4
  <2> QED BY <1>6, <2>2, <2>3
<1> QED BY <1>1, <1>5, <1>6 DEF Request

LEMMA IInvStep ==
  ASSUME OneWorker, CardsStayHome, IInv, [Next]_vars PROVE IInv'
<1> USE DEF IInv
<1>1. TypeOK'
  BY TypeStep
<1>2. ASSUME NEW w \in Workers, Handle(w) PROVE IInv'
  BY <1>1, <1>2, Committed, Ended DEF Handle
<1>3. ASSUME NEW w \in Workers, handler[w] # Idle, rows' = rows
      PROVE  /\ WholeTiers' /\ ControlPlaneBound'
             /\ \A mac \in todo \ {handler[w].mac} :
                  handler[w].mac \in todo => Untiered(mac)'
             /\ Cardinality(ControlPlane') <= Cardinality(ControlPlane)
                  + (IF handler[w].roles = CPRoles THEN 1 ELSE 0)
  <2>1. Cardinality(ControlPlane') = Cardinality(ControlPlane)
    BY <1>3, SameRows
  <2> QED BY <1>3, <2>1, SameRows, Counts DEF Batch
<1>4. ASSUME NEW w \in Workers, WorkerLost(w) PROVE IInv'
  <2>1. CASE CreateSchedule(handler[w])
    BY <1>1, <1>4, <2>1, Committed, Ended DEF WorkerLost
  <2>2. CASE rows' = rows
    BY <1>1, <1>3, <1>4, <2>2, Ended DEF WorkerLost
  <2> QED BY <1>4, <2>1, <2>2 DEF WorkerLost
<1>5. ASSUME NEW w \in Workers, HttpErrorOnPost(w) PROVE IInv'
  BY <1>1, <1>3, <1>5, Ended DEF HttpErrorOnPost, api
<1>6. ASSUME rows' = rows
      PROVE  /\ ControlPlane' = ControlPlane /\ WholeTiers' /\ ControlPlaneBound'
             /\ \A mac : Untiered(mac) => Untiered(mac)'
             /\ Limit \in Nat /\ Cardinality(ControlPlane) \in Nat
  BY <1>6, SameRows, Counts
<1>7. ASSUME NEW r \in Reports, Discover(r) PROVE IInv'
  <2>1. KnownCards'
    <3>1. r.nics \subseteq Cards(r.uuid)
      BY DEF Cards
    <3> QED BY <1>7, <3>1 DEF Discover, Reported, KnownCards, TypeOK, Cards
  <2>2. Batch' /\ Room' /\ InFlight'
    BY <1>6, <1>7 DEF Discover, Reported, plan, Batch, Room, InFlight, Cards, Limit
  <2> QED BY <1>1, <1>6, <1>7, <2>1, <2>2 DEF Discover, Reported
<1> USE DEF KnownCards, Cards, Batch, Room, InFlight, Limit, api, plan, Go
<1>8. CASE Start
  BY <1>1, <1>6, <1>8 DEF Start
<1>9. ASSUME SomeWorkerFree PROVE \A w \in Workers : handler[w] = Idle
  BY <1>9 DEF SomeWorkerFree, OneWorker
<1>21. ASSUME pc \notin {"stopped", "cp_query", "cp_wait", "node_wait"}
       PROVE  \A w \in Workers : handler[w] = Idle
  BY <1>21 DEF TypeOK, Request, WaitOf
<1>10. CASE CpQuery
  BY <1>1, <1>6, <1>9, <1>10 DEF CpQuery, TooFewMembers, ControlPlane
<1>11. CASE CpFetch
  <2>1. PICK listing \in Listings :
          \/ /\ todo' \in SUBSET listing /\ Cardinality(todo') = ExpectedNb
             /\ pc' = "cp_affect"
          \/ pc' = "cp_query" /\ todo' = todo
    BY <1>11 DEF CpFetch
  <2>2. Batch'
    <3>1. CASE todo' \in SUBSET listing /\ pc' = "cp_affect"
      <4>1. /\ \A mac \in todo' : Untiered(mac)
            /\ \A m \in Uuids : \A x, y \in todo' \cap Cards(m) : x = y
        BY <3>1, Listed
      <4> QED BY <1>6, <1>11, <3>1, <4>1 DEF CpFetch
    <3>2. CASE todo' = todo /\ pc' = "cp_query"
      BY <1>6, <1>11, <3>2 DEF CpFetch
    <3> QED BY <2>1, <3>1, <3>2
  <2>3. Room'
    BY <1>6, <1>11, <2>1 DEF CpFetch
  <2> QED BY <1>1, <1>6, <1>9, <1>11, <2>2, <2>3 DEF CpFetch
<1>12. CASE NodeQuery
  BY <1>1, <1>6, <1>9, <1>12 DEF NodeQuery
<1>13. CASE NodeQueryFails
  BY <1>1, <1>6, <1>9, <1>13 DEF NodeQueryFails, NodeException
<1>14. CASE NodeFetch
  <2>1. Batch'
    BY <1>6, <1>14, Listed DEF NodeFetch
  <2> QED BY <1>1, <1>6, <1>9, <1>14, <2>1 DEF NodeFetch
<1>15. CASE Sync
  BY <1>1, <1>6, <1>15 DEF Sync
<1>16. ASSUME NEW w \in Workers, Affect(w) PROVE IInv'
  <2>1. \A v \in Workers : v = w
    BY DEF OneWorker
  <2>2. PICK mac \in todo :
          handler' = [handler EXCEPT ![w] =
                        [mac |-> mac, roles |-> Affecting[pc], client |-> "plan"]]
    BY <1>16 DEF Affect
  <2>3. pc \in {"cp_affect", "node_affect"} /\ pc' = WaitOf(Affecting[pc])
    BY <1>16 DEF Affect, Affecting
  <2>4. Cardinality(todo) \in Nat /\ Cardinality(todo) > 0
    BY FiniteTodo, FS_EmptySet
  <2>5. InFlight'
    <3>1. Affecting[pc] = CPRoles => pc = "cp_affect"
      BY <2>3, Roles DEF Affecting
    <3> QED BY <1>6, <1>16, <2>1, <2>2, <2>3, <2>4, <3>1 DEF Affect, TypeOK
  <2>6. Batch' /\ Room'
    <3>1. \/ pc = "cp_affect" /\ pc' = "cp_wait"
          \/ pc = "node_affect" /\ pc' = "node_wait"
      BY <2>3, Roles DEF Affecting, WaitOf
    <3>2. todo' = todo /\ rows' = rows
      BY <1>16 DEF Affect
    <3>3. Batch'
      BY <1>6, <3>1, <3>2
    <3>4. Room'
      <4>1. ControlPlane' = ControlPlane
        BY <1>6, <3>2
      <4> QED BY <3>1, <3>2, <4>1
    <3> QED BY <3>3, <3>4
  <2> QED BY <1>1, <1>6, <1>16, <2>5, <2>6 DEF Affect
<1>17. CASE PlanCrash
  BY <1>1, <1>6, <1>17 DEF PlanCrash, TypeOK, Request
<1>18. CASE Refused
  <2>1. CASE pc = "cp_query"
    BY <1>1, <1>6, <1>18, <2>1 DEF Refused, ConnectionError, SyncTriesAgain
  <2>2. CASE pc # "cp_query"
    BY <1>1, <1>6, <1>18, <1>21, <2>2 DEF Refused, ConnectionError, SyncTriesAgain
  <2> QED BY <2>1, <2>2
<1>19. CASE HttpErrorOnGet
  BY <1>1, <1>6, <1>19 DEF HttpErrorOnGet, NodeException, SyncTriesAgain
<1>20. CASE UNCHANGED vars
  BY <1>1, <1>6, <1>20 DEF vars
<1> QED
  BY <1>2, <1>4, <1>5, <1>7, <1>8, <1>10, <1>11, <1>12, <1>13, <1>14, <1>15, <1>16, <1>17,
     <1>18, <1>19, <1>20 DEF Next, PlanStep

(* Whatever is lost, refused, repeated or answered with an error: what the *)
(* plan asks for next, what it still has to ask and what a lost worker is  *)
(* still handling never add up to a second role for a machine.             *)
THEOREM RequestsStayInTheirTier ==
  ASSUME OneWorker, CardsStayHome
  PROVE  Spec => []IInv
<1>1. IInv /\ [Next]_vars => IInv'
  BY IInvStep
<1> QED BY IInvInit, <1>1, PTL DEF Spec

(* So no machine ever stacks both tiers.                                   *)
THEOREM TiersAreBounded ==
  ASSUME OneWorker, CardsStayHome
  PROVE  Spec => []WholeTiers
<1>1. IInv => WholeTiers
  BY DEF IInv
<1> QED BY <1>1, RequestsStayInTheirTier, PTL

(* And the control plane that repeated batches build stays below twice the *)
(* expected number.                                                        *)
THEOREM ControlPlaneIsBounded ==
  ASSUME OneWorker, CardsStayHome
  PROVE  Spec => []ControlPlaneBound
<1>1. IInv => ControlPlaneBound
  BY DEF IInv
<1> QED BY <1>1, RequestsStayInTheirTier, PTL

-----------------------------------------------------------------------------
(* The order of the tiers: machines that report steady facts, and no HTTP  *)
(* error that the plan takes for a success.                                *)

LEMMA OrderInit == Init => OrderInv
<1> SUFFICES ASSUME Init PROVE OrderInv
  OBVIOUS
<1>1. IInv
  BY IInvInit
<1>2. NodesAfterControlPlane
  BY Roles DEF Init, NodesAfterControlPlane
<1> QED
  BY <1>1, <1>2, ReportsAreFacts DEF OrderInv, Init, EnoughMembers

(* A commit never shrinks the control plane, grows it when its machine is  *)
(* found, and makes a node only after the control plane.                   *)
LEMMA OrderedCommit ==
  ASSUME OrderInv, CardsStayHome, NEW w \in Workers, handler[w] # Idle,
         CreateSchedule(handler[w])
  PROVE  /\ Cardinality(ControlPlane') >= Cardinality(ControlPlane)
         /\ Cardinality(ControlPlane') \in Nat
         /\ (handler[w].roles = CPRoles /\ Found(handler[w].mac))
              => Cardinality(ControlPlane') = Cardinality(ControlPlane) + 1
         /\ NodesAfterControlPlane'
<1> DEFINE request == handler[w]
<1> USE DEF OrderInv
<1>1. /\ request \in Request /\ TypeOK /\ Untiered(request.mac)
      /\ request.roles \in {CPRoles, NodeRoles}
  BY DEF IInv, TypeOK, InFlight, Request
<1>2. Cardinality(ControlPlane) \in Nat
  BY Counts
<1>3. ASSUME ~Found(request.mac), rows' = rows
      PROVE  /\ Cardinality(ControlPlane') = Cardinality(ControlPlane)
             /\ NodesAfterControlPlane'
  BY <1>3, SameRows
<1>4. ASSUME NEW m \in Uuids, request.mac \in nics[m], rows[m] = {},
             rows' = [rows EXCEPT ![m] = request.roles]
      PROVE  /\ Cardinality(ControlPlane') = IF request.roles = CPRoles
                                               THEN Cardinality(ControlPlane) + 1
                                               ELSE Cardinality(ControlPlane)
             /\ NodesAfterControlPlane'
  <2>1. Cardinality(ControlPlane') = IF request.roles = CPRoles
                                       THEN Cardinality(ControlPlane) + 1
                                       ELSE Cardinality(ControlPlane)
    BY <1>1, <1>4, CommitCounts
  <2>2. ASSUME NEW n \in Uuids, rows'[n] = NodeRoles
        PROVE  Cardinality(ControlPlane) >= ExpectedNb
    <3>1. CASE n = m
      <4>1. request.roles = NodeRoles
        BY <1>1, <1>4, <2>2, <3>1 DEF TypeOK
      <4> QED BY <4>1 DEF EnoughMembers
    <3>2. CASE n # m
      BY <1>1, <1>4, <2>2, <3>2 DEF TypeOK, NodesAfterControlPlane
    <3> QED BY <3>1, <3>2
  <2> QED BY <1>2, <2>1, <2>2 DEF NodesAfterControlPlane
<1>5. \/ ~Found(request.mac) /\ rows' = rows
      \/ \E m \in Uuids : /\ request.mac \in nics[m] /\ rows[m] = {}
                         /\ rows' = [rows EXCEPT ![m] = request.roles]
  BY <1>1, Commit DEF IInv
<1> QED BY <1>2, <1>3, <1>4, <1>5

LEMMA OrderStep ==
  ASSUME OneWorker, CardsStayHome, SameFacts, "http_error" \notin Faults,
         OrderInv, [Next]_vars
  PROVE  OrderInv'
<1> USE DEF OrderInv
<1>1. IInv'
  BY IInvStep
<1>2. Cardinality(ControlPlane) \in Nat
  BY Counts
<1>3. ASSUME NEW r \in Reports, Discover(r) PROVE OrderInv'
  <2>1. \A s \in Reports : nics'[s.uuid] \in {{}, s.nics}
    BY <1>3, ReportsAreFacts DEF Discover, Reported, SameFacts, IInv, TypeOK
  <2>2. \A mac : Found(mac) => Found(mac)'
    BY <1>3 DEF Discover, Reported, Found, IInv, TypeOK
  <2>3. ControlPlane' = ControlPlane /\ NodesAfterControlPlane'
    BY <1>3, SameRows DEF Discover, Reported
  <2>4. EnoughMembers'
    BY <1>3, <2>3 DEF Discover, Reported, plan, EnoughMembers
  <2> QED BY <1>1, <1>3, <2>1, <2>2, <2>3, <2>4 DEF Discover, Reported, plan
<1>4. ASSUME ~\E r \in Reports : Discover(r)
      PROVE  /\ nics' = nics
             /\ \A mac : Found(mac) => Found(mac)'
  <2>1. nics' = nics
    BY <1>4 DEF Next, PlanStep, Start, CpQuery, CpFetch, NodeQuery, NodeQueryFails, NodeFetch,
       Sync, Affect, Handle, WorkerLost, HttpErrorOnPost, PlanCrash, Refused, HttpErrorOnGet,
       api, vars
  <2> QED BY <2>1 DEF Found
<1>5. \A v, w \in Workers : v = w
  BY DEF OneWorker
<1>6. ASSUME NEW w \in Workers, Handle(w), ~\E r \in Reports : Discover(r) PROVE OrderInv'
  <2>1. handler[w] \in Request
    BY <1>6 DEF Handle, IInv, TypeOK
  <2>2. /\ Cardinality(ControlPlane') >= Cardinality(ControlPlane)
        /\ Cardinality(ControlPlane') \in Nat
        /\ NodesAfterControlPlane'
        /\ (handler[w].roles = CPRoles /\ Found(handler[w].mac))
             => Cardinality(ControlPlane') = Cardinality(ControlPlane) + 1
    BY <1>6, OrderedCommit DEF Handle
  <2>3. \A v \in Workers : handler'[v] = Idle
    BY <1>5, <1>6 DEF Handle, IInv, TypeOK
  <2>4. CASE handler[w].client = "gone"
    <3>1. todo' = todo /\ pc' \in {"stopped", "cp_query"}
      BY <1>6, <2>4 DEF Handle, Answer, plan, IInv, InFlight
    <3> QED BY <1>1, <1>4, <1>6, <2>2, <2>3, <3>1 DEF EnoughMembers
  <2>5. CASE handler[w].client = "plan"
    <3>1. /\ todo' = todo \ {handler[w].mac} /\ handler[w].mac \in todo
          /\ pc = WaitOf(handler[w].roles)
          /\ pc' = IF todo' = {} THEN DoneOf(handler[w].roles) ELSE AffectOf(handler[w].roles)
      BY <1>6, <2>5 DEF Handle, Answer, Go, IInv, InFlight
    <3>2. /\ Cardinality(todo) \in Nat /\ Cardinality(todo') = Cardinality(todo) - 1
          /\ todo' = {} => Cardinality(todo') = 0
      BY <3>1, FiniteTodo, FS_RemoveElement, FS_EmptySet DEF IInv
    <3>3. EnoughMembers'
      <4>1. CASE handler[w].roles = CPRoles
        <5>1. pc = "cp_wait" /\ pc' = IF todo' = {} THEN "node_query" ELSE "cp_affect"
          BY <3>1, <4>1 DEF WaitOf, DoneOf, AffectOf
        <5>2. Cardinality(ControlPlane') + Cardinality(todo') >= ExpectedNb
          BY <1>2, <2>2, <3>1, <3>2, <4>1, <5>1 DEF EnoughMembers
        <5> QED BY <2>2, <2>3, <3>2, <5>1, <5>2 DEF EnoughMembers
      <4>2. CASE handler[w].roles = NodeRoles
        <5>1. Cardinality(ControlPlane) >= ExpectedNb
          BY <1>6, <4>2 DEF Handle, EnoughMembers
        <5>2. pc' \in {"sync", "node_affect"}
          BY <3>1, <4>2, Roles DEF DoneOf, AffectOf
        <5> QED BY <1>2, <2>2, <2>3, <5>1, <5>2 DEF EnoughMembers
      <4> QED BY <2>1, <4>1, <4>2 DEF Request
    <3> QED BY <1>1, <1>4, <1>6, <2>2, <3>1, <3>3
  <2> QED BY <2>1, <2>4, <2>5 DEF Request
<1>7. ASSUME NEW w \in Workers, WorkerLost(w), ~\E r \in Reports : Discover(r) PROVE OrderInv'
  <2>1. handler[w] \in Request
    BY <1>7 DEF WorkerLost, IInv, TypeOK
  <2>2. /\ Cardinality(ControlPlane') >= Cardinality(ControlPlane)
        /\ Cardinality(ControlPlane') \in Nat
        /\ NodesAfterControlPlane'
    <3>1. CASE CreateSchedule(handler[w])
      BY <1>7, <3>1, OrderedCommit DEF WorkerLost
    <3>2. CASE rows' = rows
      BY <1>2, <3>2, SameRows
    <3> QED BY <1>7, <3>1, <3>2 DEF WorkerLost
  <2>3. \A v \in Workers : handler'[v] = Idle
    BY <1>5, <1>7 DEF WorkerLost, IInv, TypeOK
  <2>4. \/ todo' = todo /\ pc' \in {"stopped", "cp_query"}
        \/ todo' = {} /\ pc' = "cp_query"
        \/ todo' = {} /\ pc' = "sync" /\ handler[w].roles = NodeRoles
    BY <1>7, <2>1 DEF WorkerLost, ConnectionError, Go, plan, IInv, InFlight, Request
  <2>5. EnoughMembers'
    BY <1>2, <1>7, <2>2, <2>3, <2>4 DEF EnoughMembers, WorkerLost
  <2> QED BY <1>1, <1>4, <1>7, <2>2, <2>4, <2>5
<1>8. SUFFICES ASSUME nics' = nics, rows' = rows, \A mac : Found(mac) => Found(mac)',
                      PlanStep \/ PlanCrash \/ Refused \/ UNCHANGED vars
               PROVE  OrderInv'
  <2>1. ASSUME PlanStep PROVE rows' = rows
    BY <2>1 DEF PlanStep, Start, CpQuery, CpFetch, NodeQuery, NodeQueryFails, NodeFetch, Sync,
                Affect, api
  <2> QED
    BY <1>3, <1>4, <1>6, <1>7, <2>1
    DEF Next, PlanCrash, Refused, HttpErrorOnPost, HttpErrorOnGet, Fault, api, vars
<1>9. /\ ControlPlane' = ControlPlane /\ NodesAfterControlPlane'
      /\ \A r \in Reports : nics'[r.uuid] \in {{}, r.nics}
  BY <1>8, SameRows
<1> DEFINE Rest == EnoughMembers' /\ \A mac \in todo' : Found(mac)
<1>10. SUFFICES Rest
  BY <1>1, <1>8, <1>9
<1> USE DEF EnoughMembers, Go, plan
<1>11. CASE Start
  BY <1>9, <1>11 DEF Start
<1>12. CASE CpQuery
  <2>1. Cardinality(ControlPlane) < ExpectedNb => pc' \in {"cp_query", "cp_fetch"}
    BY <1>12 DEF CpQuery, TooFewMembers, ControlPlane
  <2>2. Cardinality(ControlPlane) >= ExpectedNb => pc' \in {"cp_query", "node_query"}
    BY <1>2, <1>12 DEF CpQuery, TooFewMembers, ControlPlane
  <2> QED BY <1>2, <1>9, <1>12, <2>1, <2>2 DEF CpQuery
<1>13. CASE CpFetch
  <2>1. PICK listing \in Listings :
          \/ /\ todo' \in SUBSET listing /\ Cardinality(todo') = ExpectedNb
             /\ pc' = "cp_affect"
          \/ pc' = "cp_query" /\ todo' = todo
    BY <1>13 DEF CpFetch
  <2>2. \A mac \in todo' : Found(mac)
    <3>1. CASE todo' \in SUBSET listing
      BY <3>1, Listed DEF IInv
    <3> QED BY <2>1, <3>1
  <2> QED BY <1>2, <1>9, <1>13, <2>1, <2>2 DEF CpFetch
<1>14. CASE NodeQuery
  BY <1>9, <1>14 DEF NodeQuery
<1>15. CASE NodeQueryFails
  BY <1>9, <1>15 DEF NodeQueryFails, NodeException
<1>16. CASE NodeFetch
  <2>1. \A mac \in todo' : Found(mac)
    BY <1>16, Listed DEF NodeFetch, IInv
  <2> QED BY <1>9, <1>16, <2>1 DEF NodeFetch
<1>17. CASE Sync
  BY <1>9, <1>17 DEF Sync
<1>18. ASSUME NEW w \in Workers, Affect(w) PROVE Rest
  <2>1. PICK mac \in todo :
          handler' = [handler EXCEPT ![w] =
                        [mac |-> mac, roles |-> Affecting[pc], client |-> "plan"]]
    BY <1>18 DEF Affect
  <2>2. /\ todo' = todo
        /\ \/ pc = "cp_affect" /\ pc' = "cp_wait" /\ Affecting[pc] # NodeRoles
           \/ pc = "node_affect" /\ pc' = "node_wait" /\ Affecting[pc] = NodeRoles
    BY <1>18, Roles DEF Affect, Affecting, WaitOf
  <2>3. \A v \in Workers :
          v = w /\ handler'[v] = [mac |-> mac, roles |-> Affecting[pc], client |-> "plan"]
    BY <1>5, <2>1 DEF IInv, TypeOK
  <2> QED BY <1>9, <2>2, <2>3
<1>19. CASE PlanCrash
  <2>1. \A w \in Workers : handler'[w] # Idle =>
          handler[w] # Idle /\ handler'[w].roles = handler[w].roles
    BY <1>19 DEF PlanCrash, IInv, TypeOK, Request
  <2> QED BY <1>9, <1>19, <2>1 DEF PlanCrash
<1>20. CASE Refused
  BY <1>9, <1>20, Roles DEF Refused, ConnectionError, SyncTriesAgain
<1>21. CASE UNCHANGED vars
  BY <1>9, <1>21 DEF vars
<1> QED
  BY <1>8, <1>11, <1>12, <1>13, <1>14, <1>15, <1>16, <1>17, <1>18, <1>19, <1>20, <1>21
  DEF PlanStep

(* The plan only turns to the nodes, and only a request of a node is left  *)
(* behind, once the control plane is complete in the database.             *)
THEOREM PlanKeepsTheOrder ==
  ASSUME OneWorker, CardsStayHome, SameFacts, "http_error" \notin Faults
  PROVE  Spec => []OrderInv
<1>1. OrderInv /\ [Next]_vars => OrderInv'
  BY OrderStep
<1> QED BY OrderInit, <1>1, PTL DEF Spec

(* No machine becomes a node before the control plane is complete, however *)
(* the plan crashes, is refused, or loses a worker in the middle of it.    *)
THEOREM NodesComeSecond ==
  ASSUME OneWorker, CardsStayHome, SameFacts, "http_error" \notin Faults
  PROVE  Spec => []NodesAfterControlPlane
<1>1. OrderInv => NodesAfterControlPlane
  BY DEF OrderInv
<1> QED BY <1>1, PlanKeepsTheOrder, PTL

-----------------------------------------------------------------------------
(* An undisturbed plan builds the expected number.                         *)

\* Machines keep the cards they reported, so the MACs of a batch are found.
Steady ==
  /\ \A r \in Reports : nics[r.uuid] \in {{}, r.nics}
  /\ \A mac \in todo : Found(mac)

\* Without a fault, nobody but the plan has a request with the API, and a batch
\* is whole: what it still has to affect and what it has affected are together
\* the expected number.
Tally ==
  /\ \A w \in Workers : handler[w] # Idle => handler[w].client = "plan"
  /\ IF pc \in {"cp_affect", "cp_wait"}
       THEN Cardinality(ControlPlane) + Cardinality(todo) = ExpectedNb
       ELSE Cardinality(ControlPlane) \in {0, ExpectedNb}

ExactInv ==
  /\ IInv
  /\ Steady
  /\ faults = 0 => Tally

LEMMA SteadyStep ==
  ASSUME CardsStayHome, SameFacts, TypeOK, KnownCards, Steady, [Next]_vars
  PROVE  Steady'
<1> USE DEF Steady
<1>1. ASSUME NEW r \in Reports, Discover(r) PROVE Steady'
  <2>1. \A s \in Reports : nics'[s.uuid] \in {{}, s.nics}
    BY <1>1, ReportsAreFacts DEF Discover, Reported, SameFacts, TypeOK
  <2>2. \A mac : Found(mac) => Found(mac)'
    BY <1>1 DEF Discover, Reported, Found, TypeOK
  <2> QED BY <1>1, <2>1, <2>2 DEF Discover, Reported, plan
<1>2. ASSUME ~\E r \in Reports : Discover(r)
      PROVE  /\ nics' = nics /\ \A mac : Found(mac) => Found(mac)'
             /\ CpFetch \/ NodeFetch \/ todo' \subseteq todo
  <2>1. nics' = nics
    BY <1>2 DEF Next, PlanStep, Start, CpQuery, CpFetch, NodeQuery, NodeQueryFails, NodeFetch,
       Sync, Affect, Handle, WorkerLost, HttpErrorOnPost, PlanCrash, Refused, HttpErrorOnGet,
       api, vars
  <2>2. CpFetch \/ NodeFetch \/ todo' \subseteq todo
    BY <1>2 DEF Next, PlanStep, Start, CpQuery, NodeQuery, NodeQueryFails, NodeException,
       Sync, Affect, Handle, Answer, WorkerLost, ConnectionError, HttpErrorOnPost, PlanCrash,
       Refused, SyncTriesAgain, HttpErrorOnGet, plan, vars
  <2> QED BY <2>1, <2>2 DEF Found
<1>3. CASE CpFetch
  <2>1. PICK listing \in Listings : todo' \in SUBSET listing \/ todo' = todo
    BY <1>3 DEF CpFetch
  <2>2. \A mac \in todo' : Found(mac)
    BY <2>1, Listed
  <2> QED BY <1>3, <2>2 DEF CpFetch, api, Found
<1>4. CASE NodeFetch
  <2>1. \A mac \in todo' : Found(mac)
    BY <1>4, Listed DEF NodeFetch
  <2> QED BY <1>4, <2>1 DEF NodeFetch, api, Found
<1> QED BY <1>1, <1>2, <1>3, <1>4

LEMMA ExactInit == Init => ExactInv
<1> SUFFICES ASSUME Init PROVE ExactInv
  OBVIOUS
<1>1. IInv
  BY IInvInit
<1>2. Steady
  BY ReportsAreFacts DEF Init, Steady
<1>3. ControlPlane = {}
  BY Roles DEF Init
<1>4. Tally
  BY <1>3, FS_EmptySet DEF Init, Tally
<1> QED BY <1>1, <1>2, <1>4 DEF ExactInv

LEMMA TallyStep ==
  ASSUME OneWorker, CardsStayHome, IInv, Steady, Tally, [Next]_vars, faults' = 0, faults = 0
  PROVE  Tally'
<1> USE DEF IInv
<1>1. Cardinality(ControlPlane) \in Nat /\ \A v, w \in Workers : v = w
  BY Counts DEF OneWorker
<1>2. ASSUME NEW w \in Workers, Handle(w) PROVE Tally'
  <2>1. /\ handler[w] \in Request /\ handler[w].client = "plan"
        /\ handler[w].roles \in {CPRoles, NodeRoles}
    BY <1>2 DEF Handle, Tally, TypeOK, Request
  <2>2. /\ Untiered(handler[w].mac) /\ handler[w].mac \in todo /\ Found(handler[w].mac)
        /\ pc = WaitOf(handler[w].roles)
    BY <1>2, <2>1 DEF Handle, InFlight, Steady
  <2>3. PICK m \in Uuids : rows[m] = {} /\ rows' = [rows EXCEPT ![m] = handler[w].roles]
    BY <1>2, <2>1, <2>2, Commit DEF Handle
  <2>4. Cardinality(ControlPlane') = IF handler[w].roles = CPRoles
                                       THEN Cardinality(ControlPlane) + 1
                                       ELSE Cardinality(ControlPlane)
    BY <2>1, <2>3, CommitCounts
  <2>5. /\ todo' = todo \ {handler[w].mac}
        /\ pc' = IF todo' = {} THEN DoneOf(handler[w].roles) ELSE AffectOf(handler[w].roles)
        /\ \A v \in Workers : handler'[v] = Idle
    BY <1>1, <1>2, <2>1 DEF Handle, Answer, Go, TypeOK
  <2>6. /\ Cardinality(todo) \in Nat /\ Cardinality(todo') = Cardinality(todo) - 1
        /\ todo' = {} => Cardinality(todo') = 0
    BY <2>2, <2>5, FiniteTodo, FS_RemoveElement, FS_EmptySet
  <2>7. CASE handler[w].roles = CPRoles
    <3>1. pc = "cp_wait" /\ pc' = IF todo' = {} THEN "node_query" ELSE "cp_affect"
      BY <2>2, <2>5, <2>7 DEF WaitOf, DoneOf, AffectOf
    <3>2. Cardinality(ControlPlane') + Cardinality(todo') = ExpectedNb
      BY <1>1, <2>4, <2>6, <2>7, <3>1 DEF Tally
    <3> QED BY <1>1, <2>4, <2>5, <2>6, <2>7, <3>1, <3>2 DEF Tally
  <2>8. CASE handler[w].roles = NodeRoles
    <3>1. pc = "node_wait" /\ pc' \in {"sync", "node_affect"}
      BY <2>2, <2>5, <2>8, Roles DEF WaitOf, DoneOf, AffectOf
    <3> QED BY <2>4, <2>5, <2>8, <3>1, Roles DEF Tally
  <2> QED BY <2>1, <2>7, <2>8
<1>3. ASSUME NEW r \in Reports, Discover(r) PROVE Tally'
  <2>1. ControlPlane' = ControlPlane
    BY <1>3, SameRows DEF Discover, Reported
  <2> QED BY <1>3, <2>1 DEF Discover, Reported, plan, Tally
\* The faults are counted.
<1>4. SUFFICES ASSUME rows' = rows, PlanStep \/ UNCHANGED vars PROVE Tally'
  <2>1. ~PlanCrash /\ ~Refused /\ ~HttpErrorOnGet
        /\ \A w \in Workers : ~WorkerLost(w) /\ ~HttpErrorOnPost(w)
    BY DEF PlanCrash, Refused, HttpErrorOnGet, WorkerLost, HttpErrorOnPost, Fault
  <2>2. PlanStep => rows' = rows
    BY DEF PlanStep, Start, CpQuery, CpFetch, NodeQuery, NodeQueryFails, NodeFetch, Sync,
           Affect, api
  <2> QED BY <1>2, <1>3, <1>4, <2>1, <2>2 DEF Next, vars
<1>5. ControlPlane' = ControlPlane
  BY <1>4, SameRows
<1> USE DEF Tally, Go, plan
<1>6. CASE CpFetch
  <2>1. Cardinality(ControlPlane) = 0
    BY <1>6 DEF CpFetch, Room
  <2>2. \/ pc' = "cp_affect" /\ Cardinality(todo') = ExpectedNb
        \/ pc' = "cp_query" /\ todo' = todo
    BY <1>6 DEF CpFetch
  <2> QED BY <1>5, <1>6, <2>1, <2>2 DEF CpFetch
<1>7. ASSUME NEW w \in Workers, Affect(w) PROVE Tally'
  <2>1. PICK mac \in todo :
          handler' = [handler EXCEPT ![w] =
                        [mac |-> mac, roles |-> Affecting[pc], client |-> "plan"]]
    BY <1>7 DEF Affect
  <2>2. /\ todo' = todo
        /\ \/ pc = "cp_affect" /\ pc' = "cp_wait"
           \/ pc = "node_affect" /\ pc' = "node_wait"
    BY <1>7, Roles DEF Affect, Affecting, WaitOf
  <2>3. \A v \in Workers :
          v = w /\ handler'[v] = [mac |-> mac, roles |-> Affecting[pc], client |-> "plan"]
    BY <1>1, <2>1 DEF TypeOK
  <2> QED BY <1>5, <2>2, <2>3
<1>8. CASE Start \/ CpQuery \/ NodeQuery \/ Sync \/ NodeFetch \/ NodeQueryFails
  BY <1>5, <1>8 DEF Start, CpQuery, NodeQuery, Sync, NodeFetch, NodeQueryFails, NodeException
<1>9. CASE UNCHANGED vars
  BY <1>5, <1>9 DEF vars
<1> QED BY <1>4, <1>6, <1>7, <1>8, <1>9 DEF PlanStep

(* While nothing fails, the control plane is the expected number of        *)
(* machines, or still being built towards it, never one more: the plan     *)
(* asks for a batch only when there is none, and each POST of it finds the *)
(* machine it is for.                                                      *)
THEOREM UndisturbedIsExact ==
  ASSUME OneWorker, CardsStayHome, SameFacts
  PROVE  Spec => []ExactWithoutFaults
<1>1. ExactInv /\ [Next]_vars => ExactInv'
  <2> SUFFICES ASSUME ExactInv, [Next]_vars PROVE ExactInv'
    OBVIOUS
  <2>1. IInv' /\ Steady'
    BY IInvStep, SteadyStep DEF ExactInv, IInv
  <2>2. faults' = 0 => faults = 0
    BY DEF ExactInv, IInv, TypeOK, Next, PlanStep, Start, CpQuery, CpFetch, NodeQuery,
       NodeQueryFails, NodeFetch, Sync, Affect, Discover, Reported, Handle, WorkerLost,
       HttpErrorOnPost, PlanCrash, Refused, HttpErrorOnGet, Fault, vars
  <2> QED BY <2>1, <2>2, TallyStep DEF ExactInv
<1>2. ExactInv => ExactWithoutFaults
  <2>1. ASSUME ExactInv, faults = 0 PROVE Cardinality(ControlPlane) <= ExpectedNb
    <3>1. Tally /\ Cardinality(ControlPlane) \in Nat /\ Cardinality(todo) \in Nat
      BY <2>1, Counts, FiniteTodo DEF ExactInv, IInv
    <3> QED BY <3>1 DEF Tally
  <2> QED BY <2>1 DEF ExactWithoutFaults, ControlPlaneIsExpected
<1> QED BY <1>1, <1>2, ExactInit, PTL DEF Spec

-----------------------------------------------------------------------------
(* The refinement of Tiers.                                                *)

TierMap == [m \in Uuids |-> Tier(m)]

LEMMA TierFacts ==
  ASSUME WholeTiers
  PROVE  /\ \A m \in Uuids : /\ (TierMap[m] = "none") <=> (rows[m] = {})
                             /\ (TierMap[m] = "control-plane") <=> (rows[m] = CPRoles)
                             /\ (TierMap[m] = "node") <=> (rows[m] = NodeRoles)
         /\ Promise!InTier("control-plane") = ControlPlane
<1>1. \A m \in Uuids : TierMap[m] = IF rows[m] = {} THEN "none"
                                    ELSE IF rows[m] = NodeRoles THEN "node"
                                    ELSE "control-plane"
  BY DEF TierMap, Tier
<1>2. \A m \in Uuids : rows[m] \in {{}, CPRoles, NodeRoles}
  BY DEF WholeTiers
<1>3. \A m \in Uuids : /\ (TierMap[m] = "none") <=> (rows[m] = {})
                       /\ (TierMap[m] = "control-plane") <=> (rows[m] = CPRoles)
                       /\ (TierMap[m] = "node") <=> (rows[m] = NodeRoles)
  BY <1>1, <1>2, Roles
<1>4. ControlPlane = {m \in Uuids : rows[m] = CPRoles}
  BY Roles DEF ControlPlane, Holding
<1>5. Promise!InTier("control-plane") = {m \in Uuids : TierMap[m] = "control-plane"}
  BY DEF Promise!InTier, TierMap
<1> QED BY <1>3, <1>4, <1>5

LEMMA TierStep ==
  ASSUME OrderInv, OrderInv', CardsStayHome, [Next]_vars
  PROVE  [Promise!Next]_TierMap
<1>1. ASSUME NEW w \in Workers, handler[w] # Idle, CreateSchedule(handler[w])
      PROVE  [Promise!Next]_TierMap
  <2>1. handler[w] \in Request /\ TypeOK /\ WholeTiers /\ WholeTiers'
    BY <1>1 DEF OrderInv, IInv, TypeOK
  <2>2. CASE rows' = rows
    BY <2>2 DEF TierMap, Tier
  <2>3. ASSUME NEW m \in Uuids, rows[m] = {}, rows' = [rows EXCEPT ![m] = handler[w].roles]
        PROVE  Promise!Next
    <3>1. TierMap[m] = "none"
      BY <2>1, <2>3, TierFacts
    <3>2. TierMap' = [TierMap EXCEPT ![m] = IF handler[w].roles = CPRoles
                                              THEN "control-plane" ELSE "node"]
      <4>1. \A n \in Uuids : rows'[n] = IF n = m THEN handler[w].roles ELSE rows[n]
        BY <2>1, <2>3 DEF TypeOK
      <4>2. handler[w].roles \in {CPRoles, NodeRoles}
        BY <2>1 DEF Request
      <4>3. \A n \in Uuids : Tier(n)' = IF n = m
                                          THEN IF handler[w].roles = CPRoles
                                                 THEN "control-plane" ELSE "node"
                                          ELSE Tier(n)
        BY <4>1, <4>2, Roles DEF Tier
      <4> QED BY <4>3 DEF TierMap
    <3>3. CASE handler[w].roles = CPRoles
      <4>1. Cardinality(Promise!InTier("control-plane")) < Limit
        BY <1>1, <2>1, <3>3, TierFacts DEF OrderInv, IInv, InFlight
      <4>2. Promise!JoinControlPlane(m)
        BY <3>1, <3>2, <3>3, <4>1 DEF Promise!JoinControlPlane, TierMap
      <4> QED BY <4>2 DEF Promise!Next
    <3>4. CASE handler[w].roles = NodeRoles
      <4>1. Cardinality(Promise!InTier("control-plane")) >= ExpectedNb
        BY <1>1, <2>1, <3>4, TierFacts DEF OrderInv, EnoughMembers
      <4>2. Promise!BecomeNode(m)
        BY <3>1, <3>2, <3>4, <4>1, Roles DEF Promise!BecomeNode, TierMap
      <4> QED BY <4>2 DEF Promise!Next
    <3> QED BY <2>1, <3>3, <3>4 DEF Request
  <2> QED BY <1>1, <2>1, <2>2, <2>3, Commit DEF OrderInv, IInv, InFlight
<1>2. ASSUME rows' = rows PROVE TierMap' = TierMap
  BY <1>2 DEF TierMap, Tier
<1>3. \/ rows' = rows
      \/ \E w \in Workers : handler[w] # Idle /\ CreateSchedule(handler[w])
  BY DEF Next, PlanStep, Discover, Reported, Start, CpQuery, CpFetch, NodeQuery, NodeQueryFails,
     NodeFetch, Sync, Affect, Handle, WorkerLost, HttpErrorOnPost, PlanCrash, Refused,
     HttpErrorOnGet, api, vars
<1> QED BY <1>1, <1>2, <1>3

(* The plan, its HTTP requests and the API implement the abstract promise: *)
(* a machine gets one tier for ever, nodes follow a complete control plane *)
(* and the control plane has at most Limit members.                        *)
THEOREM ImplementsTiers ==
  ASSUME OneWorker, CardsStayHome, SameFacts, "http_error" \notin Faults
  PROVE  Spec => ImplementsPromise
<1>1. Init => Promise!Init
  BY DEF Init, Promise!Init, Tier
<1>2. OrderInv /\ OrderInv' /\ [Next]_vars => [Promise!Next]_TierMap
  BY TierStep
<1> QED
  BY <1>1, <1>2, PlanKeepsTheOrder, PTL DEF Spec, ImplementsPromise, Promise!Spec, TierMap
=============================================================================

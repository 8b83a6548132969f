---------------------------- MODULE Repositories ----------------------------
(***************************************************************************)
(* The database of the API (model.py) and what the repositories and        *)
(* crud.py read from it and write to it.  Nothing here is a step: a        *)
(* request of the API is a few of these reads and writes, and the requests *)
(* of several gunicorn workers are interleaved between them (module Api).  *)
(*                                                                         *)
(* PostgreSQL runs them READ COMMITTED.  A transaction reads, then writes  *)
(* and commits; the rows that it writes are locked from its first write to *)
(* its end, so that writing and committing is one step.  The unit of work  *)
(* of SQLAlchemy updates the columns whose value changed since they were   *)
(* read, and no others.                                                    *)
(***************************************************************************)
EXTENDS Naturals, Sequences, FiniteSets

CONSTANTS
  Uuids,     \* machines, by the uuid of their hardware
  Macs,      \* network cards
  Reports    \* what discoveryC may post: [uuid, mac it booted from, macs]

ASSUME ReportsAreFacts == Reports \subseteq [uuid: Uuids, mac: Macs, macs: SUBSET Macs]

\* Two reports of a machine have a card in common: it was not emptied of its
\* cards between them.
ASSUME CardsInCommon ==
  \A r, s \in Reports : r.uuid = s.uuid => r.macs \intersect s.macs # {}

\* The tables lifecycle_*, schedule and healthz, by the request that writes them.
Tables == {"install", "ignition", "policy", "schedule", "health"}

\* MachineStates.states, and no row.
StateNames == {"booting", "discovery", "os_installation_granted", "os_installation_denied",
               "installation_succeed", "installation_failed"}
NoState == "no row"

VARIABLES
  machine,   \* table machine: the uuid of the row with this id
  iface,     \* table machine_interface, by its UNIQUE mac: machine_id and as_boot
  states,    \* table machine_current_state, by its UNIQUE machine_mac
  life       \* the Tables: sequences of rows

tables == <<machine, iface, states, life>>

\* machine_id is NULL, or there is no row.
NoId == 0

RepositoriesInit ==
  /\ machine = <<>>
  /\ iface = [mac \in Macs |-> [machine |-> NoId, boot |-> FALSE]]
  /\ states = [mac \in Macs |-> [machine |-> NoId, name |-> NoState]]
  /\ life = [t \in Tables |-> <<>>]

\* The foreign keys of model.py: a row refers to a machine that exists.
TablesTypeOK ==
  /\ machine \in Seq(Uuids)
  /\ iface \in [Macs -> [machine: 0 .. Len(machine), boot: BOOLEAN]]
  /\ states \in [Macs -> [machine: 0 .. Len(machine), name: StateNames \union {NoState}]]
  /\ \A t \in Tables \ {"health"} : \A row \in DOMAIN life[t] :
       life[t][row].machine \in DOMAIN machine

-----------------------------------------------------------------------------
(* What a query may answer.                                                *)

\* .first() of the rows with these ids, in no given order.
First(ids) == IF ids = {} THEN {NoId} ELSE ids

\* MachineDiscoveryRepository.upsert looks for the machine.
MachinesWith(uuid) == {id \in DOMAIN machine : machine[id] = uuid}

\* Mutation: the newest machine, whatever the MAC.
NewestMachine(mac) == Len(machine)

\* The machine of an interface.
OwnerOf(mac) == iface[mac].machine

CardsOf(id) == {mac \in Macs : iface[mac].machine = id}

\* The rows of a machine in a table.
RowsOf(t, id) == {row \in DOMAIN life[t] : life[t][row].machine = id}

RolesOf(id) == UNION {life["schedule"][row].columns : row \in RowsOf("schedule", id)}

\* FetchLifecycle of a MAC: .first(), or [0], of the rows of its machine.
Told(t, mac) == {life[t][row].columns : row \in RowsOf(t, OwnerOf(mac))}

\* FetchLifecycle of all: the machines that have a boot interface, each under the
\* first of its interfaces, whichever it is, with its first row.
StatusList(t) ==
  UNION {{[mac |-> mac, columns |-> columns] : columns \in Told(t, mac)} :
         mac \in {m \in Macs : \E boot \in Macs : iface[boot].boot /\ OwnerOf(boot) = OwnerOf(m)}}

\* fetch_all_discovery reads the MAC of the boot interface of each machine that
\* has interfaces: without one, the whole list fails.
DiscoveryFails ==
  \E id \in DOMAIN machine : CardsOf(id) # {} /\ \A mac \in CardsOf(id) : ~iface[mac].boot

AllDiscovery ==
  {[uuid |-> machine[id], macs |-> CardsOf(id)] : id \in {i \in DOMAIN machine : CardsOf(i) # {}}}

\* MachineStateRepository.fetch shows a state under the first interface of its
\* machine, under its own MAC when there is none.
ShownUnder(mac) ==
  LET cards == IF states[mac].machine = NoId THEN {} ELSE CardsOf(states[mac].machine)
  IN  IF cards = {} THEN {mac} ELSE cards

-----------------------------------------------------------------------------
(* What a transaction writes.                                              *)

\* An UPDATE of a row that was read as was: the columns that differ from it.
Updated(row, was, new) == [c \in DOMAIN row |-> IF new[c] = was[c] THEN row[c] ELSE new[c]]

\* upsert: the row that was found, or a new one.
RowFor(found) == IF found = NoId THEN Len(machine) + 1 ELSE found

\* Mutation: the MACs of the machine_interface table are not UNIQUE.
NoConflict(report, id) == FALSE

\* Inserting an interface whose MAC another machine has fails.
Conflict(report, id) == \E mac \in report.macs : OwnerOf(mac) \notin {NoId, id}

\* Mutation: _delete_all_attached is not called.
AddedInterfaces(report, id) ==
  [mac \in Macs |-> IF mac \in report.macs THEN [machine |-> id, boot |-> mac = report.mac]
                    ELSE iface[mac]]

\* _delete_all_attached, then _insert_network.
ReplacedInterfaces(report, id) ==
  [mac \in Macs |-> IF mac \in report.macs THEN [machine |-> id, boot |-> mac = report.mac]
                    ELSE IF OwnerOf(mac) = id THEN [machine |-> NoId, boot |-> FALSE]
                    ELSE iface[mac]]

\* Mutation: a new row is not added to the session.
NotAdded(report, found) ==
  machine' = machine /\ iface' = ReplacedInterfaces(report, RowFor(found))

Upserted(report, found) ==
  /\ machine' = IF found = NoId THEN Append(machine, report.uuid) ELSE machine
  /\ iface' = ReplacedInterfaces(report, RowFor(found))

\* MachineStateRepository.update: an INSERT when no row was read.
StateInserted(was) == was.name = NoState

StateUpdated(mac, was, new) ==
  states' = [states EXCEPT ![mac] = IF StateInserted(was) THEN new ELSE Updated(@, was, new)]

\* Mutations: the attribute is no column in any table; only enable is set.
AssignsNothing(t, was, new) == was
AssignsEnable(t, was, new) == IF t = "policy" THEN [was EXCEPT !.enable = new.enable] ELSE new

\* What the row in memory becomes: refresh_lifecycle_coreos_install sets
\* up_to_date, which is no column of its table, instead of success.
Assigned(t, was, new) == IF t = "install" THEN was ELSE new

\* InjectLifecycle: INSERT when no row was read, or UPDATE.
LifeStored(t, id, row, was, new) ==
  LET rows == life[t]
  IN  life' = [life EXCEPT ![t] =
                 IF row = NoId THEN Append(rows, [machine |-> id, columns |-> new])
                 ELSE [rows EXCEPT ![row].columns =
                         Updated(rows[row].columns, was, Assigned(t, was, new))]]
=============================================================================

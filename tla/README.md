# A TLA+ development for enjoliver

Enjoliver installs a Kubernetes cluster on bare metal: machines boot from the
network into a discovery system, report what they are, wait to be given a role,
and write the operating system of that role on their disk.  This directory holds
TLA+ models of the parts that decide which machine gets which role and when it
may be installed, and of what its API records, the TLC runs that check them on small instances, and proofs,
checked by TLAPS, for instances of any size.

Run a model with `tlc -config <run>.cfg <module>` and a proof with
`tlapm <module>.tla`; `PROJECT.json` lists the runs, the mutants that show each
property can fail, the source lines of every definition, the hazards of the code
and the theorems.

## The system

| part | source | state it keeps | operations |
|---|---|---|---|
| plan | `k8s_2t.py`, `schedulerv2.py` | none but its program counter and the list it is working on | loop: control plane scheduler until it succeeds, node scheduler, sync, sleep |
| API gates | `routes.py`, `api.py` | file cache: last sync, install lock, ignition versions, cached answers | HTTP handlers in gunicorn workers |
| operations | `ops.py`, `manage.py` | a health row, PID files of plan, matchbox and gunicorn | health check, shutdown |
| discovery repository | `machine_discovery.py` | machine, interfaces, disks, LLDP | `upsert`, `fetch_all_discovery` |
| schedule repository | `machine_schedule.py` | roles of machines | `create_schedule`, queries by role, available machines, IP list |
| state repository | `machine_state.py` | current state per MAC | `update`, `fetch` |
| lifecycle store | `crud.py` | ignition, install and rolling rows | refresh, apply, fetch |
| sync | `sync.py` | files of matchbox | writes a group per scheduled machine, notifies |
| generator | `generator.py` | one file | compare, truncate, write |
| matchbox | external | the files | renders an ignition for a MAC |
| installer | `discovery.yaml` | step of a machine, fetched ignition | report, wait, fetch, ask, install |
| rolling update | `kubernetes-node.yaml`, `etcd-member-kubernetes-control-plane.yaml`, `enjoliver-agent` | locksmith semaphore, disk | update, ready, restart |
| bootstrap (not modelled) | the same ignition files | etcd membership, vault seal | join, init, unseal, sign |
| discoveryC, ectl, UI, monitoring, launchers | see `PROJECT.json` | none shared | I/O |

The plan talks to the API over HTTP only.  The sync and matchbox share a
directory, without a lock.  The API talks to matchbox over HTTP and to the
database through one transaction per request (`db.py`).  The installers poll the
API.  Nothing but the cache key `sync-notify` tells an installer that the files
may be read, and nothing tells the sync that a file is being read.

What makes each part correct:

- plan and schedule repository: a machine gets one tier and keeps it; nodes only
  after a complete control plane; a control plane of the configured size; every
  machine served; all this across crashes, retries and answers that are lost;
- discovery repository: a rediscovery replaces what a machine has and keeps what
  it was given; one machine per uuid, one interface per MAC;
- sync: the pods of two machines never share an address;
- sync, generator and installer: a machine is installed for its own tier with the
  members of its cluster, whatever file the sync has just truncated or moved;
- gates: an installer passes only when the files are in sync and one at a time;
- state repository and lifecycle store: what is shown or told of a machine is what
  that machine last reported, whichever workers handled its reports;
- operations: a shutdown ends everything, gunicorn last;
- rolling update: no more machines down than the semaphore has places (one), and the semaphore comes back;
- bootstrap: one etcd cluster, one vault initialisation.

`PROJECT.json` lists the hazards at the lines where they bite.

## Plan

1. **Scheduling** (done): plan, schedule repository, discovery upsert, API worker;
   abstract specification **Tiers**; proofs in **SchedulingProofs**.
2. **Deployment** (done): Scheduling with sync, generator, matchbox and installers;
   refinement of Scheduling; proofs in **DeploymentProofs** and **ClusterProofs**.
3. **Rolling** (done): lifecycle-update, lifecycle-ready and RestartKubernetes around
   the locksmith semaphore; proofs in **RollingProofs**.
4. **Repositories** and **Api** (done): the tables, the cache and every handler that
   writes them, step by step in several workers: discovery, states, authorizations,
   lifecycle rows, schedules, versions, health, shutdown; proofs in **ApiProofs** and
   **TableProofs**.
5. **Metadata** (done): the pod network of a machine, used by Deployment.
6. Proofs (done): every safety property of a passing run for any number of machines, cards,
   workers, requests and faults.  What is left to do is in "Only model-checked" below.

## Modules

**Scheduling.**  `nics`, `boot` and `rows` are the three tables that matter:
interfaces, boot interface, roles.  `handler[w]` is the POST /scheduler a gunicorn
worker handles.  `pc`, `todo` and `tries` are the plan: `cp_query`, `cp_fetch` and
`cp_affect`/`cp_wait` are `EtcdMemberKubernetesControlPlane.apply`, `node_*` are
`KubernetesNode.apply`, `sync` is `ConfigSyncSchedules.apply`, `stopped` is a process
that is not there.  A GET of the plan is one atomic read, made when a worker is free:
nothing happens in the plan between the request and its answer.  A POST is three steps
(`Affect`, `Handle`, and the answer taken in `Handle`), because the plan may die, or
the worker, in between; `WorkerLost` covers both sides of the commit.  Boolean results
of `_apply_budget` are labels: False returns to `cp_query`.  `get_available_machines`
lists an interface of each machine in no given order, so `Listings` is a set of
possible answers; the scheduler sorts by MAC, which is why MACs are numbers.
`create_schedule` finds a machine by any of its interfaces and answers 200 for a MAC
that nobody has.

**Tiers.**  What the plan promises to the rest: a function from machines to `none`,
`control-plane` or `node` with two actions.  `Scheduling!Promise` instantiates it.

**Deployment.**  Extends Scheduling and refines its `Sync` step.  `groups` are the
files of matchbox, named by tier and rank as `produce_matchbox_data` names them;
`sync` is the progress of an apply: `list` (one query), `open` (the IP list is read,
the file compared and truncated), `write`, `notify`.  `installer[m]` is the shell loop
of `/opt/installer`; `notified` and `locked` are the two cache keys; `disk` is the
result.  An ignition is its tier and its etcd members.  Merged steps: the installer's
GET /sync-notify with its GET /ignition, whose handler checks the same key again; the
several requests for the IP list of one group, all for the same role, with the
comparison that follows.  The answer of GET /scheduler is cached for 10 s, which can
only delay an installer, since a role never goes away.  The files of a sync that
started before a machine was scheduled do not name it; the installer then finds no
group, is served the discovery ignition, and waits.

**Rolling.**  An installed cluster, apart from the two others: by then the plan and the
installers are done with its machines.  `update[m]` is the line of
`/opt/bin/lifecycle-update` (`poll` to `write`) or `/opt/bin/lifecycle-ready` (`ready` to
`release`) a machine is at, or `off`; the first starts only after the second has ended
(`After=lifecycle-ready.service`, a oneshot), and each failure of a command under
`set -e` is a way back to `poll`.  `agent[m]` is RestartKubernetes under its mutex.
`holders` is the semaphore: the scripts use the machine's query as their name, the agent
the same with a suffix, and all of them the etcd of their own machine
(`LocksmithAnswers`), which needs a majority of the control planes.  `halted` are the
machines where `systemctl stop` was done, `drained` those that are cordoned, `stopped`
those whose units the agent has stopped: three ways to be out of service, each entered
under a place and left on a path that gives it back.  The node's script and the control
plane's differ where it matters: `|| true` after the drain of a node only.  Merged steps:
the two GETs of a poll, `locksmithctl status` with `unlock`, the checks of
lifecycle-ready before the uncordon, `preset-all` with the uncordon (both local).
A kexec, a reboot and a power-off are the same step, since a machine that is off is
switched on again.

**Metadata.**  `_cni_ipam` as a function of the address of a machine: an address is a
number, a network a number of addresses, and a range its first and its last address.
The three settings are constants.  `AddressesFit` is what an operator has to arrange and
nothing checks.  In Deployment, `CidrOf` is the lease of each MAC.

**Repositories.**  The tables of `model.py` as one variable each: rows of `machine` are
numbered in the order of their inserts, `iface` and `states` are keyed by their UNIQUE MAC,
`life` holds the five tables that are only looked for and inserted.  Operators, not
actions: what a query may answer (`.first()` has no order, so it is a set) and what a
transaction leaves behind.  `Updated` is the unit of work of SQLAlchemy: an UPDATE writes
the columns that differ from what the transaction read, so two of them may mix.

**Api.**  `at[w]` is the step of the handler that worker `w` runs, `req[w]` its request,
`seen[w]` what its transaction read and `goal[w]` what it will write.  A handler is cut
where another worker can come between: a read and the commit that follows it, a get and
a set of the cache, a probe and its record.  Merged: the queries of one transaction when
nothing deletes the rows they find, and the statements of one that writes, since the
rows it wrote are locked.  `traffic` is chosen in the first state and says which clients
there are (`Traffic`): requests that come or come one by one, from which reports, to how
many workers.  `granted`, `asked` and `reported` are history variables, read by the
properties only.  `Abort` is a worker killed by the timeout of gunicorn, or a commit that
fails.  The processes of `manage.py` are `running`, `stopping` and their `pids`.

**MCScheduling, MCDeployment, MCRolling, MCApi** give instances to TLC.

**SchedulingProofs, DeploymentProofs, ClusterProofs, RollingProofs, ApiProofs, TableProofs**:
see below.

## Runs

| run | shows |
|---|---|
| `scheduling_robust` | under two faults of any kind and changing network cards: never two tiers on a machine (`WholeTiers`), never more than `2 * ExpectedNb - 1` control planes (`ControlPlaneBound`); the inductive invariant `IInv` |
| `scheduling_order` | with crashes, refused connections and lost workers: nodes after the control plane, the refinement of Tiers, exact size when nothing fails, and, under fairness, a control plane and a tier for every bootable machine |
| `scheduling_interrupted` | finding: an interrupted batch makes the control plane larger than the documentation says |
| `scheduling_ignored_status` | finding: a POST answered 500 is taken for done, and nodes are scheduled behind an incomplete control plane |
| `deployment_safe` | under any one fault or mishap, with a boot interface that changes: installed for its own tier only; pods with addresses of their own (`PodsApart`, blocks of `sub_ips`); the refinement of Scheduling; the inductive invariant `DeployInv` |
| `deployment_live` | one card per machine: complete and equal lists of etcd members everywhere; `PodsApart` without `sub_ips`; groups regenerated; every machine installed or failed |
| `deployment_two_cards` | finding: a control plane booted from its second card is installed without its own address among the members |
| `rolling_safe` | under a fault of any kind: the semaphore protects a tear-down (`RollInv`), and one machine at most has its services stopped by an update, so the etcd clusters keep their quorum (`QuorumKept`) |
| `rolling_live` | with a loss of power at any moment: one machine at most out of service, for an update or a restart of its units (`AtMostDown`); the place always comes back (`ReleasesLock`) and every enabled machine gets the ignition (`EveryEnabledUpdated`) |
| `rolling_drain` | finding: a control plane whose drain fails stays cordoned and gives its place to another |
| `api_workers` | two workers, any of them lost once: a machine has one row and the interfaces of one report (`OneMachinePerUuid`, `FactsOfOneReport`); a state is shown under a card of its machine (`StateShownForItsMachine`); duplicates (`RowsBounded`) and simultaneous authorizations (`GrantsBounded`) are at most the workers; clients that wait find their last answer recorded (`LastAnswerIsRecorded`, `VersionsKept`); with one worker the cached list is true (`ListIsCurrent`); shutdowns that meet end gunicorn last (`ShutdownIsComplete`, `ShutdownEnds`); the ignition status becomes true and stays so (`StatusConverges`) |
| `api_install_outcome` | finding: a second installation of a machine does not change its recorded outcome |

### Bounds

`ExpectedNb` is 2: a batch can then be interrupted in the middle, which is what its
hazards need, and 3 (the default) adds only length.  Five machines in Scheduling leave
one more than two batches, so a control plane of 3, a node, and a machine without a
boot interface can coexist; three machines in Deployment are two control planes and a
node, one of which (`m3`) is scheduled last and sorts before another, so that ranks
shift.  `NbTry` and `SyncTry` are 2 (5 and 10 in the plan): a retry and a last try.
`MaxFaults` bounds the faults (2 in Scheduling, 1 in Deployment), `MaxMishaps` the faults
and mishaps together (1); the proofs need neither bound.  One worker is the default of
`gunicorn_workers`.

In Rolling, three control planes are the least where one may be down while the semaphore
still answers; with fewer `QuorumKept` could not fail.  A node is the fourth machine of
`rolling_safe`, the only kind that goes on after a failed drain; `rolling_live` leaves it
out.  The cluster starts with an ignition that may already be old, so `MaxOps` 1 is one
more event: a new ignition in the middle of an update, a restart asked from the agent, a
policy granted or withdrawn, a preset.  `MaxFaults` is 1, again no bound of the proofs.
`MaxHolders` 1 is the default of locksmith.  In `rolling_safe` the control planes are
symmetric, and so are the ignitions.  A cluster that is up to date is at rest, so these
runs do not check deadlock.

In Api, two workers are the least that can interleave; the default is one, four in the
testsuite's configuration.  The ten `TheTraffics` of MCApi each bring the kinds of
requests that write the same rows or keys: all kinds at once would multiply the states
and add only requests that do not meet.  `MaxRequests` 4 is two requests for each
worker, so that both orders of a first and a second write occur; the traffics of
`LastAnswerIsRecorded`, `VersionsKept` and `StatusConverges` are not bounded.  The reports
of MCApi replace a card, steal one, and miss the card they booted from.  `MaxFaults` is 1
and `MaxChanges`, the changes of what matchbox serves, 2: the state is left and met
again.  The addresses of MCDeployment are those of `tests/test_sync.py`.

### Fairness

`Fairness`: the plan runs when it can (its supervisor restarts it, its loop never
ends) and a worker handles a request it accepted.  `DeployFairness` adds: the shell
loop of each machine goes on and the lock, a cache key with a timeout, expires.  No
discovery, fault or mishap has to happen.  The installer is weakly fair only: it may be
refused the lock, but the lock is taken at most once per machine and per power cycle.
A machine that is never switched on is not promised anything: the properties speak of
machines with a boot interface in the database.

In Rolling, systemd starts lifecycle-update whenever it ends and lifecycle-ready at each
boot, the agent handles a call, and a machine that is off is switched on.  `ReleasesLock`
is checked with losses of power only: a failed write leaves a machine whose scripts
cannot reach the semaphore any more, and an unlock that fails is not tried again; in
both cases nothing in the code gives the place back.  With two control planes without
power at once, the last unlock can fail in this way too.  An agent that dies keeps its
place until it is called again, hence the hypothesis of `EveryEnabledUpdated`.

In Api, a worker goes on with what it accepted, and a process ends on SIGTERM (gunicorn
when its workers have answered).  Reports of the ignition are strongly fair: each machine
sends one a minute for ever, and its connection stays in the backlog of the socket, a
queue, until one of the workers that keep becoming idle accepts it.  No other request
has to come.  `ShutdownEnds` and `ShutdownIsComplete` say what holds while no worker is lost,
since nothing restores the PID files that a killed shutdown has removed.

## Proofs

Assumptions on constants are named in the modules.  Three more are hypotheses of the
theorems: `OneWorker` (the default of `gunicorn_workers`; with several, a request of a
crashed plan can commit beside the new plan's), `CardsStayHome` (a network card is not
moved to another machine) and, where said, `SameFacts` (a machine reports the same at
each discovery) and no `http_error` (the run `scheduling_ignored_status` shows why).

- `TypeCorrect`: types.
- `RequestsStayInTheirTier`, `TiersAreBounded`, `ControlPlaneIsBounded`: `IInv`, and from
  it `WholeTiers` and `ControlPlaneBound`, under every kind and number of faults.  The two
  are not inductive: the invariant `IInv` adds that the machines of a
  batch have no tier and are listed once (`Batch`), that a batch leaves `Room` below the
  limit, and what a request in a worker knows (`InFlight`): its machine has no tier,
  and if its plan is gone, no GET was served since.  One lemma says what a commit does
  (`Commit`), one what the end of a POST does (`Ended`).
- `PlanKeepsTheOrder`, `NodesComeSecond`: the order of the tiers; `OrderInv` adds that the batch and the
  control plane together reach the expected number while a batch runs, and that the
  MACs of a batch are still in the database.
- `UndisturbedIsExact`: `ExactWithoutFaults`.  The bound of `ControlPlaneIsBounded` is about
  twice the expected number, because a batch may be interrupted and the next one be as long.
  Without a fault `ExactInv` is inductive: while a batch runs, the control plane and what is
  left of the batch together (`Tally`) are the expected number, and stay so since a POST moves
  one machine from one to the other (`TallyStep`); at any other time the control plane is
  empty or complete.
- `ImplementsTiers`: each step of Scheduling is a step of Tiers or leaves it alone.
- `DeploymentImplementsScheduling`: each step of Deployment is one of Scheduling or
  leaves its variables alone.
- `DeploymentKeepsTiers`: the bounds hold of the deployment, by that refinement.
- `GroupsServeTheirTier`, `MachinesInstalledAsScheduled`: `DeployInv`, and from it
  `InstalledAsScheduled`.  The invariant `DeployInv` adds
  that every group, and every MAC the sync still has to write, belongs to a machine of
  the tier of the file (`GroupsServe`); a tier never changes once given (`TiersStay`), so
  a stale file cannot become wrong about the tier, only about the rank.  `BootsAtHome`
  (no machine boots from a card another one reports) is a hypothesis.
- `QueriesSucceed`: the queries by role never fail.  `BootInv` adds to `IInv` that the tables
  hold a whole report of each machine (`OwnReport`) and that only machines with a boot
  interface are in a batch or in a request.
- `MembersAreSettled`, and from it `ClustersAreComplete`, `ThereIsOneCluster` and
  `MembersFindThemselves`.  `ClusterInv` speaks of every place a list of members is `Stored`:
  a group file, the group being written, the ignition an installer holds, a disk.  A list is
  made in `SyncOpen` only (`StoredMoves`), which the plan reaches when the control plane is
  complete and no request for another one is in flight (`Settled`, from `OrderInv`).  From
  then on neither the control plane nor its interfaces change (`SettledStep`), so what the
  API answers stays what it is (`ListsStay`), and a list names each control plane by one
  of its cards (`ListsNameControlPlane`): the lists have as many members as there are
  machines (`ListsAreComplete`), and only one list exists when each has one card.
  `SameFacts` and no `http_error` are needed; `deployment_two_cards` shows that `OneCardEach`
  is, for `MemberOfItsCluster`.
- `PodsAreApart`: `PodsApart`, for any settings and addresses that fit (`AddressPlan`).
  An installed machine knows the interface it booted from (`InstalledKnown`), which is one
  of its own reports; the rest is arithmetic (`BlocksAreApart`, `FittingAddresses`).
- `SemaphoreProtects`, `UpdatesKeepQuorum`: `RollInv` and `QuorumKept`, whatever fails.  The
  argument is that a halted machine holds its place and that no script of it can give
  the place back (`PlaceGivenBack`: an unlock in lifecycle-update needs the local etcd that
  was stopped), so halted machines inject into the holders (`OwnersAreFew`).
- `MachinesKeepTheirPlace`, `SemaphoreBoundsDown`: `DownUnderLock` and `AtMostDown`, when no drain and no restart fails (`rolling_drain`
  shows why; a failed restart of the agent leads to the same).  `DownUnderLock` adds where
  the scripts of a machine out of service can be: never before a step that gives its
  place back.

- `ApiTypesHold`: `ApiTypeOK`.  A type of `req`, `goal` and `seen` depends on the step of
  the worker (`InHand`), and what a worker has read stays an id of a row, since no row is
  ever deleted: `TypeInv` says so, and every other invariant of Api builds on it.
- `FactsAreWhole`, `UuidsAreUnique`: `FactsOfOneReport` and `OneMachinePerUuid`.  `FactsInv`
  adds that the machine a worker found has the uuid of its report.  A worker that found
  none inserts a machine only if no card of the report is owned by another one, which
  with `CardsInCommon` (two reports of a machine share a card) means that no machine has
  its uuid yet: the UNIQUE MAC does what the missing UNIQUE uuid does not.
- `StatesAreShownRight`: `StateShownForItsMachine`.  The machine of a state need not own
  the card any more; `StatesInv` says that it once reported it, of the rows and of what
  the workers are about to write.
- `WorkersBoundGrants`: `GrantsBounded`.  `GrantInv` counts the authorizations granted
  together with the workers between the look at the key and its set; one that looks after
  the set is refused, so both are together at most the workers (`FewBusy`).
- `GunicornEndsLast`: `ShutdownIsComplete`.  The PID files go in the order plan, matchbox,
  gunicorn; while no worker is lost, a process whose PID file is gone and that runs is in
  the hands of a shutdown (`InCharge`), and gunicorn does not end before that one answers.
- `VersionsAreKept`: `VersionsKept`.  `VersionsInv` says that when the sync waits for its
  answers at most one worker handles its reports, and that what this one is about to set
  holds what the key holds (`VersionsAreReached`: no other step leads there).

- `RowsAreBounded`: `RowsBounded`.  `RowsInv` counts the rows of a kind together with the
  workers that looked for one, found none and have not inserted theirs (`Inserters`).  A
  worker becomes one of these only when there is no row (`InsertersLooked`), and a commit
  takes it away when it adds its row (`CommitsInsert`): both together are at most the workers.
- `ListStaysCurrent`: `ListIsCurrent`.  The list may lag behind the tables only from the
  commit of `upsert` to the end of its handler (`Discovers`); `ListInv` adds that the one
  worker has the current list in hand when it is about to set it, and read the state it is
  about to write as it still is, so that the INSERT of a state, which would leave the list in
  the cache when it fails, does not fail.
- `LastAnswersAreRecorded`: `LastAnswerIsRecorded`.  When clients wait, one worker handles a
  table (`OneWorkerAt`), so a machine has one row (`OneRow`) and what that worker has read of
  it is still there (`StoreFits`): the UPDATE of the changed columns leaves exactly what was
  asked (`UpdatedIsNew`).  The rows of other machines are left alone because a uuid has
  one machine, hence the facts of `FactsInv`.

The assumptions of Api are `ReportsAreFacts`, `CardsInCommon`, `WorkersAreFinite` and
`TrafficsAreKnown`: any number of workers, any set of clients, no bound of a run.

Only model-checked: liveness (`ControlPlaneEventually`, `EveryMachineServed`,
`GroupsAreRegenerated`, `EveryMachineInstalled`, `ReleasesLock`, `EveryEnabledUpdated`,
`StatusConverges`, `ShutdownEnds`), which fairness and ENABLED put out of the prover's reach,
and the counterexamples of the runs that find one.

## Not modelled

- Logging, formats, names, dates.  Disks and the LLDP chassis of a machine are replaced in
  the transaction that replaces its interfaces; the profiles of matchbox are written before
  the machines boot; DNS attributes, the disk profile and constants are rendered into the
  groups and read by no other part.
- `BackupExport` of `crud.py`, the user interface, `/assets`, `/metadata`, `/configs` and
  `ectl` read and write nothing that another part reads.
- The etcd join and the vault bootstrap of the control plane's ignition
  (`/opt/bin/etcd-operator`, `vault-config`, `vault-init`): what they decide rests on exit
  codes and on the membership protocol of etcd and vault, which this repository does not
  hold; a model of them would be a model of etcd.
- The probes, the rkt fetch and the versions of the agent, the collectors of discoveryC:
  I/O of one process.  Of `configs.py`, `monitoring.py` and the launchers only the defaults
  and the PID files matter here.
- `kvm_player.py` and `validate.py` are the test bench and a build check.

Matchbox, gunicorn, the file cache and the database appear as the code uses them: a group
selects a MAC, a truncated group is skipped, a worker handles one request at a time, a
PostgreSQL transaction is READ COMMITTED.  Scheduling and Deployment take a transaction as
one step, which one worker, their default, makes true; Api takes it apart.

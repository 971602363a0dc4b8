# WGPL in TLA+

WGPL keeps the source of truth of WireGuard hubs — interfaces, nodes, peers,
and what was done to them — in one SQLite database, and derives `wg`
configurations from it. This directory holds TLA+ specifications of that
program, the TLC configurations that check them on small instances, and proofs
checked by TLAPS. Paths below are relative to the repository root.

## The system

| Component (source) | State | Operations | Interacts with |
|---|---|---|---|
| Topology database (`src/wgpl/core.py`, `db.py`) | tables `interfaces`, `nodes`, `peers`; soft deletion, expiry, role, routed networks | add / update / remove interface; add / update / remove / prune node; add / update / remove / hard-remove / prune peer | every operation runs in one `db.transaction`; calls refs, ipam, integrity, audit |
| Address management (`ipam.py`) | none of its own | allocate or accept an address, compute the used set, reclaim expired rows | reads and soft-deletes `peers` |
| Integrity (`integrity.py`) | none; reads the clock | activation, slot, pool, export and full-database checks | called by core, ipam, restore |
| Audit log (`audit.py`, `db.append_audit_event`) | append-only table `audit_events` | one event per row changed, in the same transaction; history queries | called by core and ipam |
| References (`refs.py`) | none | name, id or id prefix to a row | called by every operation |
| Routing derivation (`routing.py`) | none | AllowedIPs of the hub and of the client from role, policy and routed networks | export, validation |
| Consistency (`consistency.py`) | none | `validate_state`, errors and warnings | export gate, restore |
| Transactions (`db.py`) | the SQLite file, its locks | exclusive transaction with retries, deferred read snapshot, schema creation | every operation |
| Restore (`restore.py`) | lock file, staging file, backups | dump; validate a backup, swap it in, rotate backups | live database of every other process |
| Projection and apply (`projection/`, `wireguard.py`) | kernel configuration (external) | snapshot, render, `wg syncconf` | reads through `read_snapshot` |
| CLI, validators, wire format, path handling | none | parsing, text checks, output | one call of core per command |

What is hard here, and what should hold:

* **Rows that are no longer active but still there.** An expired row keeps its
  place in the partial unique indexes until it is reclaimed, comes back when its
  expiry is cleared, and is ignored by most checks in between. Two active peers
  must never share an address, a node's place or a routed address; nothing the
  checks call free may be refused by SQLite.
* **Checks made against one state and stored in another.** `update_peer` reads a
  row, reclaims slots (perhaps of that very row), then writes.
* **Pools that change under existing peers and networks**, and cascades that
  delete rows through foreign keys while their events are written by hand.
* **Allocation at the edges** of a pool: network, gateway and broadcast
  addresses, pools of one and two addresses, the second pass below the highest
  address.
* **Documentation that promises more than the code does** — see *Findings*.
* **Concurrency between processes**: lock retries, read snapshots, two applies,
  a restore beside commands, creation of the schema by several first commands.
* **Crashes** between the steps of a restore or of the creation of the schema,
  neither of which is one transaction.

## Modules

| Module | Models |
|---|---|
| `Ipam` | `ipam.py` and `validate_peer_ip_in_pool`: which addresses a pool has, which one automatic allocation picks, which request is accepted |
| `Topology` | the database: five variables, one action per operation of `core.py` |
| `ExclusiveClaims` | abstract: owners hold disjoint sets of resources; what `Topology` promises |
| `AtomicRestore` | abstract: a database that is replaced in one step, by an accepted backup; what `Restore` promises |
| `VersionStore` | abstract: versions that commands add to and readers hand over; what `Apply` promises |
| `MCTopology`, `MCRefs`, `MCEmission`, `MCRestore`, `MCSchema`, `MCApply` | values of the constants for TLC |
| `TopologyProofs` | inductive invariant; typing, foreign keys, faithful log |
| `TopologySafety` | addresses in their pool; refinement of `ExclusiveClaims`; unambiguous hub table; node names; what a restore refuses; unique indexes, allocation, isolation of interfaces |
| `Refs` | extends `Topology`: references to rows (`refs.py`), histories of rows that are there or gone (`audit.py`), `peer remove` over its three connections (`cli.py`, `core.py`) |
| `RefsProofs` | the properties of `Refs`, whatever the clock does; its steps are steps of `Topology` |
| `Emission` | extends `Topology`: client AllowedIPs (`routing.py`), the report of `validate` (`consistency.py`), the gates of an export (`core.py`) |
| `EmissionProofs` | the properties of `Emission`, whatever the clock does |
| `Restore` | `restore.py` step by step, several restores, commands beside them, crashes |
| `RestoreProofs` | the properties of `Restore`, for any number of restorers; its lock; refinement of `AtomicRestore` |
| `Schema` | creation, check and repair of the schema (`db.py`) by several processes |
| `SchemaProofs` | the properties of `Schema`, for any number of processes |
| `Apply` | write transactions, read snapshots and `wg syncconf` of several processes |
| `ApplyProofs` | the safety properties of `Apply`, for any number of writers and appliers; refinement of `VersionStore` |

`Topology` looks inside the database and takes an operation as one step. `Apply`
shows why it may: it looks at transactions only, and a version of the database
is one value of `Topology`'s tables. `Emission` is what an apply projects.
`Refs` puts `Topology` beside a command of several transactions.
`Restore` and `Schema` treat the file, before there is a transaction to rely on.

### Topology

`ifaces`, `nodes` and `peers` are the tables; `NoRow` stands for an id with no
row. `nextId` is SQLite's AUTOINCREMENT, so an interface id is never used again;
a peer's id may be used again once its row is gone, where the program takes a
fresh UUID. `ledger` is a history variable: the tables as a replay of
`audit_events` rebuilds them.

An operation is one step because `db.transaction` takes SQLite's exclusive lock
before the first read and every read of the operation goes through the same
connection. An exception rolls the transaction back, so it is a disabled action.
`Expire` is the clock passing a peer's `expires_at`; it may happen between any
two operations. `SetBack` is a wall clock set back before it: the peer is active
again, without any check. `Spec` has a clock that moves forward, `SpecAnyClock`
one that does as it likes; a theorem is stated of the second unless it needs
the first.

A CIDR prefix is the set of the addresses it covers, a `routed_networks` value a
set of prefixes, `{}` for NULL. Overlap is then intersection, which is what
`IPv4Network.overlaps` computes. Expiry is `never`, `pending` or `passed`.

Some correspondences that are easy to miss:

* `Activatable` — `assert_peer_activation`: the row against all other active
  rows, then, for a router only, against the other active routers, whose own
  networks are validated on the way (a bad one refuses the operation).
* `UpdatePeer` — the checked row is built from the row as read at the start, the
  stored one from the row after slots were reclaimed, as in the code. An expiry, a
  role or networks equal to those the row has act as if they had not been given,
  so only different ones are tried.
* `UpdateInterface` — the pool check finds its interface by name, through
  `ResolveInterface`, as `validate_non_deleted_peers_in_pool` does.
* `IndexAccepts` — the two partial unique indexes, over rows that are not
  soft-deleted, expired or not.
* `DeleteNodes`, `RemoveInterface` — `ON DELETE CASCADE`.
* `AddPeer` when the node is already active on the interface returns without a
  change, and is left out as a stuttering step.

Operators marked *fault* are variants with one plausible bug, there to show that
each property notices it; nothing else uses them.

### Refs

A reference to a peer or node is what its string can tell: the ids it is a prefix
of and whether it is a whole one, and for a node the name it may be. A lookup is
an operator over the tables that gives the row found or nothing, with the access
modes of `PeerAccess`; the two passes of `resolve_peer_ref` differ only in the
error they raise. `recorded` is a history variable: the rows that events were
written about, which is what the history queries search; ids are UUIDs, so a
recorded one is not used again (`Record`). `removal` is a `peer remove` between
its connections: it resolves `-i`, looks the peer up, and in a transaction of
its own resolves `-i` again and compares.

### Emission

Everything derived from the tables is computed inside one read snapshot, so the
module adds operators and no variables. `peer update` may set
`allowed_ips_policy` at any time without a check that depends on it: rather than
being a field of `Topology`'s rows, a policy is quantified over by the
properties. `ErrorChecks` and `WarningChecks` have one field per issue code of
`validate_state`. Overlap of prefixes is by addresses, but equality, which
`routing.py` tests on strings to leave out a client's own networks, is equality
of prefixes.

### Restore

A database file is the set of transactions whose effects it holds, with an
identity; `wal` is the file `<path>-wal`, tagged with the identity of the file it
was written for. SQLite applies it to whatever file has the name (`Merged`), and
`sound` records whether that ever mixed two files. `Checkpoint` merges it into
the live file, or is blocked by a reader and only warns. `lockPath` is the inode
that `<path>.restore.lock` names and `holder` who has `flock` on each inode, so
that a file unlinked and created again is another lock. `Fail` is an exception
inside the `try`, which releases the lock; `FailBeforeTry` one between the lock and
the `try`, after which the lock is held until the process ends (`Exit`).
`Redirected` is the time
during which `os.environ["WGPL_DB_PATH"]` names the staging file. `env` is
no state of the program: it fixes, once per behaviour, what may happen beside
the restores — commands of other processes or of the restorer's own threads,
readers that block a checkpoint, deaths, restores that overlap — so that one run
can ask each question of the surroundings in which it has an answer.

Not in it: a connection that stays open across the swap and keeps writing to the
unlinked file, a failing `os.chmod` or `os.remove` after the swap, and a crash
between the copy of a backup and the rotation, which leaves one backup more.

### Schema

`Statements` are the autocommitted statements of `init_db` in order; `schema` is
the set of objects that exist. A connection asks whether there are tables
(`Trust`), and if so checks names and trigger bodies by one query each (`Check`);
a process may be overtaken between any two. The command line never runs
`init_db` on a file that exists; the library's `ensure_database` does (`init`).
A crash also stands for a statement that gives up on a busy database. `crashed`
and `job.alone` are history variables: whether anybody ever died, and whether
anybody else has moved since the command started.

### Apply

`log` holds the committed versions, of which only `validate`'s verdict is known.
`Busy` is the busy timeout of `BEGIN EXCLUSIVE`: up to `max_retries` attempts,
then the command fails. An applier pins a version with its first read
(`Validate`), renders it (`Collect`), closes the database and hands it to the
kernel (`Sync`). What a process has read goes with its connection (`Close`), so
between commands it remembers nothing.

## What TLC checks

| Run | Checks | Instance |
|---|---|---|
| `topology` | `TypeOK`, `NoOrphanPeers`, `ReclamationFreesSlots`, `AllocationAgreesWithActivation`, `LedgerFaithful`, `HubTableUnambiguous`, `RefusedOnlyForNetworks`, `ImplementsClaims` (refinement of `ExclusiveClaims!Spec`) | one interface id, two nodes, two peers, pools /32, /31, /29 and /28, two LANs of which one contains the other and over both of which the pool can grow, and requests of address 8, outside the small pools, inside the large one and inside the LANs; 59 thousand states |
| `references` | `RefTypeOK`, `HistoryOutlivesRows`, `HistoryScoped`, `KeptInPool`, `InterfacesIsolated`, `RemovesWhatWasNamed`, `ReferencesNotRedirected` | two interface ids, of which either interface may be named "2", two pools of which one contains the other, one node, two peers, every reference and access mode, one `peer remove` at a time, any clock; 46 thousand states |
| `emission` | `OnlyNetworkErrors`, `OnlyClockOverlaps`, `EmittedUnambiguous`, `RemoteCoverage`, `OkMeansMesh`, `OwnLanExcludedWhenClean` | two sites whose LANs overlap or not, a hub LAN, the growing pool, any clock; 65 thousand states |
| `restore` | `TypeOK`, `WholeUndisturbed`, `NothingLost`, `RefusedNeverLive`, `FlockExcludes`, `LossIsWarned`, `OnlySwapShows`, `ImplementsReplacement` (refinement of `AtomicRestore!Spec`) | two restorers, backups that are good or bad, commands between restores, and three environments: `Dying` (four restores, overlapping, crashes at any step), `Blocked` (three restores, one at a time, checkpoints that readers block), `Anything` (two restores with crashes, blocked checkpoints, and commands of other processes and threads at any time), with a failure possible at any step before the swap; 512 thousand states |
| `schema` | `TypeOK`, `StoredUnderIndexes`, `QuietMeansRepairable`, `SoloInitRepairs` | three processes, three commands of any kind, crashes; 687 thousand states |
| `apply` | `TypeOK`, `KernelValidated`, `NoLostUpdate`, `ImplementsStore` (refinement of `VersionStore!Spec`), `Termination`, `LockReleased`, `CatchesUp` | two writers, two attempts each, two appliers of which one is the timer's, three versions, crashes; 13 thousand states |
| `clear_expires`, `backup`, `pool_shrink`, `restore_lock`, `restore_stale_wal`, `schema_twice` | one documented claim each, violated (*Findings*) | the smallest instance that shows it |

Bounds. `MaxIfaces` bounds the AUTOINCREMENT ids ever issued, `Requests` the
addresses asked for explicitly, `MaxRestores`, `MaxCommands` and `MaxVersions`
what their names say; the remaining bounds are the sizes of the constant sets.
Every check of the program compares at most two peers, on one interface, so two
peers and two nodes reach every conflict between active rows and those with an
expired row that stands in the way; what holds of any number of peers, and with any
clock, is proved (*What is proved*). Pools of one, five and thirteen hosts make
allocation run full, wrap and restart. References are compared by the ids they
match: two peers make every prefix unique or ambiguous, two interface ids and the
name "2" make a number change its meaning, two pools let one of them shrink and grow
beside that, and one `peer remove` suffices, since
another is a command like any other. Four restores are one more than the
backups that are kept, so rotation happens, and three are what it takes for one
to hold an unlinked lock while two others race. Two creations of the schema
already conflict at its triggers, and a third process is the command that meets
them, or the one that comes after a crash. With two attempts a writer is refused and retried; ten only repeat that.

`Topology`, `Emission` and `Apply` are checked for deadlock. `Refs`, `Restore`
and `Schema` are not: their counters stop them when the bound is reached. An
instance of `Refs` comes to an end when all its ids have been used and their rows
are gone.

`NothingLost` speaks of at most three restores, since the fourth rotates the
oldest backup away, as it should. It also leaves readers out, and
`WholeUndisturbed`, `LossIsWarned` and `ImplementsReplacement` leave out commands that run during a
restore and readers together with crashes or overlapping restores: there the
code does not keep these properties (*Findings* 4 and *Known divergences*).

`AllocationAgreesWithActivation` excepts pools of two addresses: there the
program finds no address automatically although one is a host, which
`tests/test_core.py` expects.

Fairness is assumed in `Apply` only. `Running`: a command or an apply that was
started goes on, since it is a sequential program whose every wait ends with a
timeout; nobody is obliged to start one, and a crash is never fair. It is what
`Termination` and `LockReleased` need. `Timer`, for `CatchesUp`:
`docs/runbook.md` installs a systemd timer that runs `apply` every five minutes;
the strong fairness of its steps says that not every run of it dies half way and
that `wg` does not fail for ever. It is assumed of the applier that the timer
starts (`Timers`). The other one may start whenever it likes or never, and hand over
a version long after the timer has handed over a later one; all that is assumed of
it is that it ends. Under `Running` alone the kernel may stay behind.

## What is proved

Every safety property and every refinement that a passing run checks is also a
theorem. For every set
of nodes, peers, pools, LANs and names, and whatever the clock does
(`SpecAnyClock`) unless said otherwise:

* `TypeCorrect`, `NoOrphans`, `LogIsFaithful` (`TopologyProofs`). The inductive
  invariant is `Inv`: the types of the tables, foreign keys, `FreshIds` (a new
  interface id is above every live one, so nothing refers to it yet), the type of
  the log and its faithfulness. Faithfulness has to be in it: an event that edits
  a row finds the row's entry in the log only if the log was faithful.
* `PoolKeepsPeers` (`TopologySafety`), for interfaces of any name: a peer gets
  outside its pool only by a pool change of its own interface while that one's name
  is the id of another live interface (`KeptInPool`). So of an interface that is not
  named like this all peers are in the pool, `NamedPoolsHold`, which is how far
  finding 6 goes, and what the theorems about allocation, backups and errors need.
  Soft deletion and expiry never bring an address back into consideration
  (`Kept`), a pool change checks every row that is not deleted, and only
  allocation and activation hand out addresses.
* `Refinement`, with a clock that moves forward: each step of `Topology` is a step
  of `ExclusiveClaims` on `Holdings`, the slots active peers occupy. Adding or
  updating a peer acquires slots for that peer alone (`Takes`); everything else
  loses some (`Drops`). The invariant it needs is `RolesCoherent`, that exactly
  routers have networks: the activation check compares networks only between
  routers. `SlotsAreExclusive` and `HubTableIsUnambiguous` follow: disjoint slots
  give distinct addresses and disjoint LANs, and the export gate keeps tunnel
  addresses out of LANs.
* `BackupsRefusedOnlyForNetworks`, with a clock that moves forward: of all that
  `db restore` asks of a backup, only the networks can fail, and the pool of an
  interface named by another's id. It takes the four results before and `NamesAreDistinct` together — names,
  roles, pools and slots — since the stricter checks also look at expired and
  deleted rows, which nothing checks again while they age.
* `ClearingRevivesUnlessOwnAddress`: an expired peer whose expiry is cleared comes
  back exactly if its own address is not given with the option. This is how far
  finding 1 goes.
* `PeersStayIndexed`: the unique indexes hold in every state; a soft deletion is
  final for a row and the clock moves nothing in or out of an index. With it
  `ReclamationIsEnough`: what reclamation leaves in an index is an active row, and
  activation has looked at those. `AllocationIsComplete`, of
  interfaces whose active peers are in the pool, finds the lowest free address by well-founded induction on `<` (`LowestExists`).
  `InterfacesStayApart`, for at least one interface id.
* `NoRedirection`, `RemovalIsSafe`, `HistoryIsFound`, `HistoryIsScoped`
  (`RefsProofs`). A command adds rows or takes them away but never does both to
  what one reference matches: `OneWay` splits the steps into those after which
  fewer peers match and those after which more do. The invariant adds to `Inv`
  that every row is recorded, with its interface, and that a removal in progress
  holds a recorded peer on the interface it found. `RemovalsAreCommands`: seen from
  the tables, `Refs` is `SpecAnyClock`, so every theorem above that allows any clock
  holds beside a `peer remove` that is spread over several connections
  (`RemovalsKeepPool` is one).
* `EmissionIsUnambiguous`, `OwnLanStaysLocal`, `OkIsConnected`: from the operators
  alone, of every state — an export gate or a clean report is enough, however the
  tables came to be. `RemoteNetworksAreCovered` needs prefixes to be finitely
  many (`Finite`), as only then does every prefix lie in a maximal one
  (`MaximalPrefix`), which is what collapsing keeps. `OverlapsAreTheClocks` and
  `CommandsRaiseOnlyNetworkErrors` (the latter of interfaces not named by another's id) need
  `RolesCoherent`, the indexes and distinct node names.
* `RowsNeedIndexes`, `RepairableWhenQuiet`, `SoloInitIsEnough` (`SchemaProofs`),
  for any number of processes and commands. The invariant says what a process at a
  statement of `init_db` knows to exist: everything earlier statements ensured,
  because only triggers are ever dropped, and the triggers too while it is alone;
  that an unfinished schema has somebody at work on it unless somebody died; and
  that the table of the log, without which nothing is stored, comes after the
  unique indexes.
* `SwapIsAtomic`, `NothingIsLost`, `RefusedStaysOut`, `SwapAloneShows`,
  `LossIsAnnounced` (`RestoreProofs`), for any number of restorers, restores and
  transactions, in any environment that the property admits. The invariant follows
  each restore: what its staging file holds, that no log is left once its
  checkpoint is past (or it warned), that what is live is in a backup once its
  copy is made. These survive the steps of restores that overlap because those
  commit nothing, and the one thing they could destroy, a backup, is counted: a
  restore that has still to copy leaves room for its backup (`Counted`), so three
  restores rotate nothing away.
* `LockFileExcludes`: every restore past the lock holds it, on the inode it opened
  (`Guarded`, an invariant of its own beside the previous one), so two of them have
  opened different files. The converse is not true: a restore that failed before its
  `try` holds the lock without working under it. `TwoRestoresExclude`: among the first two
  restores ever started there is no such pair, because the one file both opened
  cannot have been unlinked while they both run (`Few`). This is how far finding 3
  goes.
* `RestoreIsReplacement`: with `Shown` for what the database shows and `Asked` for
  the backups that running restores have yet to put in place, each step of a
  restore is one of `AtomicRestore` or none. The swap is its `Replace`, and not the
  removal of the sidecar: between the two, `Shown` is what the new file alone
  holds. That neither a death between the two nor the checkpoint of another restore
  shows anything else needs the invariant: where restores may die or overlap no
  reader blocks a checkpoint, so no log is left at the swap. `AtomicRestore`
  promises nothing outside `Undisturbed`.
* `CommandsAreSerial` and `KernelIsValidated` (`ApplyProofs`), for any number of
  writers, appliers, attempts and versions. The inductive invariant is that
  exactly the holder of the lock is between its `BEGIN` and its commit, having
  read the latest version, and that what an applier pinned stays valid because
  the log only grows.
* `CommandsAndAppliesAreAtomic`: each step of `Apply` is one of `VersionStore` or
  none. A command that has checked a version holds it until it commits or gives
  up, and the version it adds to is still that one; an applier takes a version when
  it validates it, although it lists the peers and calls `wg` later. `Roles`, that
  writers and appliers are only ever at their own steps, makes `Holding` well
  defined.
* The safety halves of what fairness is needed for: `LockHasOwner`, the lock is
  held by nobody but a command inside its transaction (`LockReleased`);
  `EveryStepCounts`, a command or an apply is at most `MaxRetries + 2` of its own
  steps away from its end and nobody else's step adds to them (`Termination`);
  `OneApplierNeverGoesBack`, a single applier never hands an older version over
  after a newer one; that with several the kernel goes forward in the end
  (`CatchesUp`) is left to TLC.

The proofs about `Topology` rest on the assumptions on its constants: pools are
blocks of naturals, LANs are non-empty sets of prefixes, and the markers `NoRow`
and `Unset` are not values. Those about `Refs` add that the markers are no
removals, those about `Restore` that what a refused backup holds is in nothing
else (so that its presence can be told) and that `None` is neither a file nor a
process, those about `Apply` that writers and appliers are different processes.
Only model-checked: the liveness properties of `Apply`, `Termination`,
`LockReleased` and `CatchesUp`, whose fairness and eventualities the proof system
does not cover.

## Findings

Places where a document or a comment says otherwise than the code, each
with a run that shows it (`PROJECT.json` quotes them):

1. `peer update --ip <its own address> --clear-expires` on an expired peer
   reclaims the peer's own row and leaves it soft-deleted (`clear_expires`); with
   any other options it comes back (`ClearingRevivesUnlessOwnAddress`).
2. Commands can produce a database that `db restore` refuses to restore
   (`backup`), by moving a pool or with a prefix of the interface's own, and in no
   other way (`RefusedOnlyForNetworks`).
3. The restore lock is unlinked by name after it was released: a waiter on the
   old file and a newcomer on a new one both restore (`restore_lock`); it takes a
   third restore (`TwoRestoresExclude`), and no lock is ever shared
   (`FlockExcludes`).
4. A blocked checkpoint and a crash right after `os.replace` leave the old log
   beside the new file, and the next connection applies it
   (`restore_stale_wal`).
5. Two creations at once can leave the database without one of its audit
   triggers; every command refuses it until `db doctor --repair`
   (`schema_twice`), which is enough (`QuietMeansRepairable`).
6. Shrinking the pool of an interface whose name is another interface's id checks
   the other one's peers and leaves its own outside (`pool_shrink`):
   `resolve_interface_ref` (`refs.py:177`) prefers ids, and
   `validate_non_deleted_peers_in_pool` resolves the name again
   (`integrity.py:534`). No other command does it to any peer (`KeptInPool`).

### Known divergences

The models behave like the code here too. No run is kept for these; where a
checked property marks how far the divergence goes, it is named.

* `node remove` without `--force` removes a node whose attachments are all
  inactive, with them (`core.py:678`, against `docs/cli.md:49`). What is
  destroyed is in the log (`LedgerFaithful`).
* A pool can be widened over networks already routed (`core.py:1655`, against
  `docs/routing.md:241`). `validate` reports it
  (`OnlyNetworkErrors`: no other kind of error can arise), and the
  export gate keeps the hub table unambiguous (`HubTableUnambiguous`).
* A hub network that covers a router's own LAN is sent into the tunnel by that
  router's client (`routing.py:188`, against `docs/routing.md:246`); `validate`
  warns of the overlap, and without the warning it does not happen
  (`OwnLanExcludedWhenClean`).
* A blocked checkpoint loses *committed* transactions; the warning
  (`restore.py:184`) speaks of uncommitted ones. Without readers nothing is lost
  (`NothingLost`), and with them the warning is always given (`LossIsWarned`).
* A thread of a restoring process that runs a command during validation works on
  the staging file (`restore.py:161`); its commit becomes live with the swap, or is
  lost when the restore fails (`CommandOnStaged`).
* Two restores that overlap because of finding 3, while a reader blocks one
  checkpoint, can apply one file's log to another's without any crash (`Blocked`
  with `parallel`).
* A command that opens a file in the middle of its creation is let in unchecked
  (`Trust`; `db.py:159`, against `SECURITY.md:66`); it still never stores
  anything without the unique indexes (`StoredUnderIndexes`).
* A clock set back revives an expired router beside the one that took its networks
  meanwhile; nothing checks it (`integrity.py:67`). Only the clock does that
  (`OnlyClockOverlaps`); `validate` reports it and the export gate refuses it
  (`EmittedUnambiguous`).
* `node history` finds a node that is gone by its whole id only, not by its name
  or a prefix (`audit.py:209`, against `docs/cli.md:51`). The history of a peer
  cannot be asked for when its interface is gone and others remain, since `-i`
  must resolve, and the history of a removed interface's id shows a live
  interface's if that is its name. `HistoryOutlivesRows` is stated within these
  limits.
* Of two applies, the one that read first may reach the kernel last and undo the
  other (`core.py:1471`), until the timer applies again (`CatchesUp`); a single
  applier does not go back (`OneApplierNeverGoesBack`).
* A restore that fails between taking the lock and the `try` (`restore.py:134`) leaves
  the lock file, and `flock` on it until its process ends (`FailBeforeTry`, `Exit`):
  until then every other restore is refused.

## Plan

Done: the topology, addresses and audit log, with any clock; references and
histories; emission and validation; restore; schema; apply; the abstract
specifications of the database, of a restore and of commands and applies; and the
proofs of all safety properties and refinements. What could come next, in this
order:

1. The readers that use several connections (`list_peers`, the legacy export)
   beside writers. They only show what they read.
2. A connection that survives the swap of a restore and commits to the file that
   was unlinked.
3. `add_peer` on a peer that is already active: what it reports against what was
   asked. Its state does not change.

## Not modelled, and why

Text: wire formats, key and endpoint syntax, CLI output, rendering of
configurations. Files: path normalisation, symlink and permission checks
(`dbpath.py`). Fields no check relates to another row: keys, endpoint, port, DNS,
MTU, keepalive, descriptions. The actors and the size limits of audit events, and
the paging of histories. The command line but for `peer remove`: each of its other
commands that change the database is one transaction.

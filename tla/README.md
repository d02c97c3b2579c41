# A verification project for bt

`bt` is a personal backup tool: directories are tracked (`bt dir init`), files
are copied into a staging area (`bt add`), staged files are uploaded to a
content-addressed vault and recorded in a SQLite database (`bt backup`), and
the database itself is uploaded at the end of every command that changes it.
Files come back with `bt restore`. This directory holds TLA+ models of its
stateful parts, TLC configurations that check them on small instances, and
TLAPS proofs of the properties that matter most.

`src/` below is the repository, and paths without a prefix are under
`src/internal/`.

## 1. Inventory

| part | code | state | operations |
|---|---|---|---|
| staging area | `staging/staging.go`, `operation.go`, `filesystem.go` | `content/` (files named by checksum), `queue.json`, a mutex | `Stage`, `ProcessNext`; `Count`, `Size`, `IsStaged` only read |
| in-memory staging store | `staging/memory.go` | maps with reference counts | same interface, for tests |
| metadata database | `database/sqlite.go`, `sqlc/queries.sql`, `migrations/` | tables directories, files, file_snapshots, contents, backup_operations | `CreateDirectory` (with consolidation), `SearchDirectoryForPath`, `CreateFileSnapshotAndContent`, operation rows, `BackupTo` |
| backup service | `bt/service.go` | none of its own | `AddDirectory`, `StageFiles`, `BackupAll`/`backupFile` |
| restore | `bt/restore.go` | output files, a goroutine and a pipe | `Restore` of a file or a directory |
| status, log, history | `bt/status.go`, `log.go`, `history.go` | none | `GetStatus` joins disk, queue and database; the others list rows |
| vaults | `vault/filesystem.go`, `s3.go`, `memory.go` | contents by checksum; metadata with a version | `PutContent`, `GetContent`, `PutMetadata`, `GetMetadataVersion` |
| application session | `app/app.go`, `operation.go` | one operation row per command | `NewBTApp` (version guard), `persistOperation`, `Close` (finish, snapshot, upload) |
| encryption, keys | `encryption/age.go` | two key files | `Setup`, `Encrypt`, `Unlock`, `Decrypt` |
| configuration, CLI | `src/cmd/bt/main.go`, `config/config.go` | the configuration file | `config init`, and one command per operation above |
| file system, ignore rules | `fs/` | none | `Resolve`, `FindFiles`, `IsIgnored`, `Stat` |
| migrations, generated queries, logging, clock, identifiers | | | |

How they interact. `bt add` looks the file's tracked directory up in the
database and puts the directory's *ID* into the staging queue next to a copy of
the file. `bt backup`, in a later process, takes the head of the queue, asks the
database whether its checksum is known, if not looks the directory up by that
ID, encrypts if the directory asks for it, uploads, records file, content and
snapshot rows in one transaction, and only then removes the operation and its
content from the staging area. `Close` copies the whole database and uploads it
with the ID of the command's operation row as its version; the next `NewBTApp`
refuses to run when the uploaded version is ahead of the local rows. `bt dir
status` joins three views of a file: its path on disk, and the directory ID and
relative name under which the queue and the database know it.

What is hard. A file changes while it is staged. The staging area shares one
stored content between operations. A directory can be consolidated into a
parent between `add` and `backup`, which rewrites the names and the directory
IDs of its files. A crash can fall between vault, database and queue, and into
the rewriting of `queue.json` or of the vault's version file, both of which are
truncated and written in place. Two commands can run at once (the lock file is
still on `src/TODO.md`).
The pipe of an encrypted restore can block both its ends. `PROJECT.json` lists
every such hazard at its line with the properties that watch it.

What makes each part correct:

- staging area: what is queued is a state the file really had; nothing is
  dropped before it is backed up; the content of a queued operation is there;
  nothing unowned is left behind;
- database: one row per file whatever is tracked in whatever order; histories
  are never lost, reordered or padded with repeats; covered files stay covered;
- service: a staged file becomes one version, exactly once and in order, across
  failures and kills; whatever is recorded can be restored; everything staged is
  backed up in the end; encrypted directories are encrypted;
- session: the uploaded version matches the uploaded copy; an older database
  does not overwrite a newer copy; a host whose database was not replaced is not
  locked out;
- keys: no key is used that was not generated, a finished key pair never changes, whatever was encrypted can be
  decrypted, and the vault holds the keys of what it holds;
- restore: a file reported is complete, a failure leaves nothing, nothing hangs;
  the version found is the last one backed up;
- status: the files on disk and in the history are listed and no others, and
  what is said of each is true;
- ignore rules: an add that returns without error staged exactly what it was
  asked for, and never what restore wrote.

## 2. Modules

| module | models | state and actions |
|---|---|---|
| `Staging` | the staging area, used by the goroutines of one process or by several processes | `disk` is what other programs write; `content`, `tmps`, `queue`, `readable` are the directory and `queue.json`, which processes share; `mu` is the mutex each process has for itself; `job[c]` is where client `c` is inside `Stage` (`Open`, `StoreBegin`, `StoreEnd`, `Restat`, `Reject`, `TooBig`, `AppendBegin`, `AppendEnd`) or `ProcessNext` (`Peek`, `BackupSucceeds`, `PopBegin`, `PopEnd`, `Commit`), with a failing action beside each I/O call, and `Crash` of one process |
| `Metadata` | the database | `dirs`, `files` (with their snapshots), `contents` are tables; a transaction is an action; `lookups` holds directory IDs that callers keep across transactions |
| `VersionStore` | what `bt` promises | `pending` and `versions`; `Submit`, `Apply` |
| `Backup` | `BTService` over staging, database, vault | `INSTANCE`s `Metadata` with the queue as its `lookups`, and refines `VersionStore`; one action per call of `backupFile` that leaves something behind; `readable` says that `queue.json` parses, which `StageStops` and `CommitStops` can end |
| `Session` | `NewBTApp` to `Close` of any number of processes | `db`, `remote`, `version`, one `proc` per running command; `TruncateVersion` and `WriteVersion` are the version file of a file system vault, `PutVersion` the version object of S3; `overlap` remembers that two have run at once, `raced` that two have been writing the version file at once |
| `Keys` | `config init`, `Setup`, and the uploads of `Close` that depend on the keys | `config`, `pub`, `priv` are the files on the host; `sealed`, `dbCopy`, `keyCopy` what the vault holds; `proc` the running command |
| `Restore` | `bt restore` | `out` are the output files, `cmd` and `fetch` the two goroutines |
| `Tree` | which files `bt add`, `bt dir status` and `bt restore` are about | `disk` and `rules` (the `.btignore` files) belong to the user; `dirs`, `files`, `queue` know a file by directory ID and relative name, which `AddDirectory` rewrites; `cmd` is an add between two files (`StageOneFile`, `StageFails`, `AddReturns`); `FindFiles`, `IsIgnored`, `GetStatus`, `RestoreVersion` and `RestoreDirectory` are operators over them |
| `Staging_proofs`, `Staging_serial_proofs`, `Metadata_proofs`, `Backup_proofs`, `Session_proofs`, `Keys_proofs`, `Restore_proofs`, `Tree_proofs` | | theorems, section 5 |
| `MCStaging`, `MCMetadata`, `MCBackup`, `MCSession`, `MCKeys`, `MCRestore`, `MCTree` | | constants for TLC |

Granularity. A section under `stagingArea.mu` is cut where another process or a
crash can come in between: `StoreContent` reads its source in two actions,
`Append` and `Pop` read `queue.json` in one and rewrite it in the next, and
`RemoveContent` follows in a third. A rewrite that another process's rewrite
crosses may also leave a file that does not parse, and a read that crosses one
may find it cut short. A SQL
transaction is one action. The service and the session are one action per call
that changes something outside the process, with a `Stop` between any two.
`Backup` has one client of the staging area, so a stage and a pop are one action
each there, with another (`StageStops`, `CommitStops`) for what a kill or a full
disk in the middle of it leaves behind, a `queue.json` that does not parse
included. In `Keys` and, on a file system vault, in `Session` a file is written
in two actions, truncation and content, as the code writes it in place; in
`Session` another command can come in between, and the digits it wrote stay
behind a shorter number (`WrittenOver`). In `Tree` a file is staged, backed up and restored in one action each,
because `Staging`, `Backup` and `Restore` have those steps.

Abstractions. SHA-256 is collision free, so a checksum is its content (or a
model value per content); stat data is one stamp that changes with every change
of the file, as ctime does; every staged content has size 1; paths are nodes of
a tree given by `Above` (in `Tree`: the sequences of their names), and what SQL `LIKE` matches is a separate relation
`Like`, because the code uses both and they differ; a snapshot is a model value
for the fields `snapshotsEqual` compares; ciphertexts are fresh values, as `age`
is randomised; an ignore pattern is the set of names or relative paths it
matches; a version is a number, whose digits in base `Radix` matter when one is
written over another. `created_at` grows, so history order is row order.

Variables named as history in the modules (`past`, `nextId`, `backedUp`,
`discarded`, `recorded`, `reported`, `overlap`, `raced`, `wanted`) are read by properties and by no guard,
except that `nextId` is bounded.

Definitions with an underscore and a suffix (`Pop_All`, `Commit_Keep`, ...) are
plausible bugs. They are not used by any specification; each shows, put in place
of the definition it varies, that some property can fail.

## 3. Runs

| run | bounds | shows |
|---|---|---|
| `staging_area` | 2 processes of one client, 1 file of 2 blocks, 1 change, 2 operations, 1 fault, limit 2 | no torn snapshot queued, whatever races; no leaked content without a fault or a race; content lost only by a failed `Stage` and nothing dropped unprocessed while calls do not overlap |
| `metadata_tree` | directories a, a/b, a/b/c, a file in b and one in c, 2 snapshots of one content, 2 per file, 5 directory and file rows | one row per file, nested directories own nothing, coverage kept, histories kept and without repeats through consolidation |
| `backup_nested` | a, a/b, 2 files, 3 staged, 1 rejected, 1 failure or kill | all recorded snapshots restorable; implements `VersionStore`; implements `Metadata`; every backup ends; what is staged is backed up unless its directory was consolidated away, a rejected file took its content or a kill or full disk tore `queue.json` |
| `session_guard` | 2 processes, 4 operations, 2 faults, 2 replaced databases, an S3 or a file system vault | the guard lets an unreplaced database in: on S3 however commands overlap and fail, on a file system until two write the version file at once, and except while that file is written or after a fault in its writing; until commands overlap, the version never runs ahead of the copy, and without a fault it is the copy's last operation and the copy loses nothing |
| `keys_setup` | 3 key pairs, 3 configurations, 3 faults | no key is anywhere that was not generated, a finished key pair is never touched, what was encrypted can be decrypted unless a `Setup` was stopped half way, and the vault's keys belong to its database copies |
| `restore_all` | a plain and an encrypted file of 2 chunks, repeated commands, faults | completeness, nothing partial, no goroutine leak, every restore ends |
| `tree_status` | directories a and a/b, a file in each in 2 states, their 4 restored copies, 2 ignore patterns, 3 directory rows, 3 staged files, 2 changes | status lists the right files, says rightly what is backed up and changed, and what is staged unless its directory was consolidated; restore finds the last versions, an add that succeeds is complete, restored copies are not backed up |

Why the bounds are enough. Two blocks and one change between their reads are
what a torn read needs; one more change would only repeat it. Two operations of
one file give every way to share a content: queued twice, or queued and
rejected; two clients of different processes give every race, and one fault a crash
or a failing call anywhere, in the middle of a rewrite too. Three nested directories let one be tracked
between two others; a file in the innermost is contained in all of them, and one
in the middle shows when the wrong directories are consolidated. Two snapshots
are what an order and a repeat need. In `backup_nested` the third
staged file lets one be in work while another waits that shares its content. Two
faults and two replacements in `session_guard` let a torn or stale upload be
followed by an older database and by another failing command; four operations
are two for each process. `Radix` is 3 so that operations 1 and 2 have one digit
and 3 and 4 have two, as 9 and 10 do in the code. Three
configurations and key pairs in `keys_setup` allow a first pair to be cut short, a
second to be finished and used, and a third attempt to come after it. In
`tree_status` three directory rows are what tracking the inner directory, then
the outer, then the inner again needs; with two states and two changes a file
can be backed up, changed and gone, or ignored, or changed between being found
and being staged. For the properties in section 5 the proofs remove the bounds
altogether.

Deadlock checking is off: with every bound used up, or nothing staged, the
system rightly rests.

Fairness. `Backup!FairSpec` has weak fairness of `BackupStep`: `bt backup` is
run again while something is staged, by hand or by a daemon, and a running
command goes on; kills and failures are bounded, so in the end one attempt is
left alone. `Restore!FairSpec` has weak fairness of the command's own progress,
of the fetching goroutine's and of its signal, as the Go scheduler gives it; no
failure is counted on to unblock anything.

## 4. Where the code departs from its documents

Each is a run that TLC is expected to refute.

| run | what happens |
|---|---|
| `staging_stuck` | File f1 with content x is queued. Another file with content x is staged and changes meanwhile: `Stage` removes x by checksum. The queued operation "stays in queue for retry", but every retry fails to open its content and the queue is blocked, until a file with the same content happens to be staged again. |
| `metadata_like` | `CreateDirectory("/m_n")` finds "child directories" with `LIKE '/m_n/%'`, which matches `/mxn/c`: its files move to `/m_n` and it is no longer tracked. |
| `backup_blocked` | A file is staged in a/b; a is tracked, which deletes a/b; `bt backup`, which "processes all staged operations", stops at "directory not found" on every run. |
| `backup_sealed` | The same content is backed up from a plain directory first and an encrypted one next: the second finds it known and records it as it is, in plaintext, though files of an encrypted directory "are encrypted before being stored in the vault". |
| `tree_nested` | a is tracked, then a/b inside it. The files of a/b go to a, so `bt restore a/b`, which restores "all files in that directory", restores none and reports success. (In the same way the encrypted flag of such a directory has no effect: the second way `backup_sealed` fails.) |

Other departures follow from the model or the code by reading, and no run is
spent on them:

- Two commands at once (nothing in the code prevents them): the older one may
  copy the database last and store its own, smaller ID, not "the latest backup
  operation ID" (`src/DESIGN.md:281`); and two that rewrite `queue.json` may lose
  an operation. This is why properties of `Session` and `Staging` carry
  `~overlap`, and each of these fails without it. A command that starts while
  another has just truncated the version file finds it empty and refuses to run.
- Two commands that end at once on a file system vault can both truncate the
  version file; operation 10 then writes "10" and operation 9 writes "9" over its
  start, and the file reads 90, which is the ID of no operation and ahead of every
  database: the guard refuses every later command, without a failure or a kill.
  `NeverLockedOut` excepts such histories (`raced`) and fails without that; in base
  3, operations 2 and 3 leave 6.
- A file of a/b is staged and then a is tracked, which deletes a/b. The file is
  still queued, under the ID of a/b, and blocks the queue (`backup_blocked`). `bt dir status`
  of a, which is to show "which files are staged but not yet backed up"
  (`src/DESIGN.md:151`), shows it as not staged, because `IsStaged` is asked for the
  ID of a. `StatusTellsTruth` excepts such a file (`Orphaned`) and fails without
  that.
- The status of an operation, documented as "success" or "error"
  (`app/operation.go:10`), is "success" from its creation on, and `main.go` drops
  the error of the deferred `Close`.
- `bt add sub` is to stage all files it discovers (`bt/service.go:74`), but discovers
  them by the `.btignore` of `sub` and stages them by that of the tracked
  directory: a file ignored only there makes the whole command fail, with the
  files before it staged and 0 returned. `AddComplete` is about adds that return
  without error for this reason.
- "Missing from disk" in `bt/status.go:111` also covers files that were ignored
  after their backup, and a file that is staged and then deleted or ignored is
  shown as not staged. `StatusTellsTruth` speaks of visible files where it says
  that what is queued is shown as staged.
- `queue.json` is rewritten in place: a kill or a full disk in the rewrite loses
  everything staged, and every later `add` and `backup` fails. No document says
  otherwise. `Staging` and `Backup` model it (`readable`), and properties that
  need a readable queue say so.
- A tracked "/" holds no file, since `database/sqlite.go:146` expects a slash
  after the directory's path. The root is not a directory of the models.
- `Pop` of the in-memory store returns 0 when it finds no operation, or once a
  failed `Stage` has reset the count, though other operations may need the
  content (`staging/memory.go:70` and `:114`); `staging/store.go:31` asks for the
  number of references that remain, which the filesystem store counts.

## 5. Proofs

Every invariant and action property of the passing runs is a theorem, for every
value of the constants the assumptions admit. What is left to TLC is liveness.

`Staging_proofs` (for any number of processes and goroutines, files, blocks,
changes and faults):

- `TypeCorrect`: `[]TypeOK`, with which client of a process holds its mutex. It
  is inductive by itself; the cases that matter are the actions that lock, which
  need the mutex free, `Pop`, which needs that a queue without one element is a
  queue (`PopElements`), and `Crash`, which frees the locks of one process only.
- `SnapshotsAreReal`: `[]SnapshotConsistent`. Not inductive alone: `SnapshotInv`
  adds, for a client that has read one block, that if the file still has the
  client's stamp the block is the file's first one now, and the same for a whole
  copy; stamps only grow, so a second stat equal to the first means that the
  whole copy is what the file holds now. This is the argument behind stat, read,
  stat again. For a client that is about to rewrite `queue.json` it adds that
  what it will write is real, which is why racing rewrites do no harm here.
- `NoOrphans`: `[]NoOrphanContent`. The obligation to remove a content passes from
  the `Stage` that stored it to the operation it queues and to the `ProcessNext`
  that pops the last of them. `RewriteInv` adds that, while nothing failed or
  raced, at most one client rewrites `queue.json`, and that its copy refers to
  everything the queue does, up to what it pops.

`Staging_serial_proofs` (the same constants): `NothingIsDropped`
(`[]NothingDropped`) and `LostByDiscard` (`[]LostOnlyByDiscard`). The inductive
invariant `Serial` speaks of histories in which no two calls have overlapped yet:
one client is at work (`OneAtWork`); its operation is the head of the queue, so
`Pop`, which looks for a file and a checksum, removes that very element
(`PopsHead`); the copy of the queue it will write lacks nothing but that; a
content it finds unneeded is in no operation; and whatever an operation refers to
is in the store or was removed by a failed `Stage`. Faults and crashes, in the
middle of a rewrite too, are not excepted.

`Metadata_proofs` (for any tree of paths, snapshots and bounds). The inductive
invariant `IInv` says that IDs and paths identify directories, that no ID is
given twice, and that every file row, and every directory ID a caller still holds
from an earlier search, is of the topmost tracked directory above its file or of
none that is left (`OwnerID`). A new directory either leaves that topmost one
alone or is above it and takes its rows with it, which is what consolidation is
for; and it never takes one of its own for another's, because two directories
above one path are one above the other. `OneRowPerFile`, `InnerOwnsNothing`,
`CoverageIsKept`, `HistoryIsKept` follow. They assume `BenignNames`, that `LIKE`
matches the directories below and no others; the run `metadata_like` shows what
happens without, and `ConsolidationIsUpward` that nothing else is to blame. The
types (`TypeCorrect`) and `NoRepeats` need no such assumption.

`Backup_proofs` (the same constants): `TypeCorrect` needs that a backup in
progress works at the head of the queue (`AtHead`). `AllRestorable`
(`[]Restorable`) rests on `VaultInv`: every row of contents has its bytes in the
vault, since the upload comes before the transaction and nothing is removed from
a vault; it holds for any names. `DatabaseAsAllowed` shows step by step that the
service implements `Metadata`, with the directory IDs in the queue as the lookups
still held: a step that pops is `Forget`, or a stutter when another operation
holds the same ID; a stage or pop that is cut short (`StageStops`, `CommitStops`)
is a stutter or a pop like any other, so a torn `queue.json` costs liveness and
no recorded version. So all that is proved of `Metadata` holds of the service; the
proof of `VersionsAsPromised`, that the service implements `VersionStore`, uses it
through the instance `MP`. The inductive invariant `DBInv` adds that what is being
recorded is the head (`HeadRecorded`), so that a retry after a kill between commit
and pop records nothing new: the version is already the last one of its file. It
is `OneRowPerFile` that makes "the versions of a file" well defined under the mapping,
and `Bounded` that the bounds of the two modules agree. Both refinements assume
`BenignNames`, through the invariant of `Metadata_proofs`.

`Session_proofs` (for any number of commands at once, operations, faults and
replaced databases): the invariant `Inv` adds to the types that the operation of
a running command is in the database (`IdsInDb`: rows are only ever added while
commands run, and an ID is a position) and, until two commands have been writing
the version file at once, hence so is every version stored (`VersionInDb`): a
version is then written only into an empty file. `SessionTypeCorrect`, which
needs that digits of two numbers make a number (`WrittenOver`), and `GuardLetsIn`
(`[]NeverLockedOut`) follow: on S3 whatever overlaps, on a file system until the
version file was raced for, and torn only while it is being written or after a
fault (`TornOnlyInWrite`).
`AloneInv` says, until two commands have overlapped, what the guard's
comparison still guarantees at each point of the one command that runs
(`Point`), that its row is the last one, and that without faults version and
copy move in step (`InStep`); `VersionBehindCopy` (`[]VersionNotAhead`),
`VersionNamesCopy` (`[]VersionIsLatest`) and `CopyOnlyGrows` (`RemoteKept`) follow.
The theorems need no assumption about overlapping: the properties say when they
hold.

`Keys_proofs` (for any number of configurations, key pairs and faults):
`Setup` writes the public key file first, so whenever a private key file exists
the public one is whole (`FilePhases`), and from then on `config init` refuses to
run `Setup`. Hence a finished pair is final (`PairsAreFinal`), an encrypted copy
was made with the pair there is (`CopiesCurrent`), and only a `Setup` cut short
between the two files lets a command encrypt with a key nobody has
(`NothingUndecryptable`). `KeysTypeCorrect` includes that no key is in a file, in
the vault or used to encrypt that no `Setup` has generated (`OnlyGenerated`): keys
come from the `Setup` at work, and are otherwise only copied. `KeysBackedUp` needs besides that without faults only
the running command still owes the vault a key (`CopiesComplete`).

`Restore_proofs` (for any files, listing, content length and bounds): the
invariant `Inv` says for each program counter what is known of the file being
written: it was never reported before, the pipe has carried as many chunks as
the file holds, it is complete when decrypting succeeded. From it follow
`RestoreTypeCorrect`, `ReportsAreComplete`, `NothingPartial` and
`FetchDoesNotLeak`.

`Tree_proofs` (for any directories, files, patterns and bounds):

- Paths. `Inside`, `Rel` and `Front` are computed by sequence operations; the
  lemmas say what they amount to: a relative name determines its file
  (`RelInjective`), names relative to nested directories join (`RelJoins`), paths
  nest as their relative names do (`InsideOfRel`), the last name stays
  (`LastOfRel`). `PathsAreATree` shows that this containment is what
  `MetadataAssumption` asks of `Above`.
- `CollectIs`: the walk finds all the files it is to find and nothing else.
  `Collect` is a recursive function; the induction over the files walked is done
  as the absence of a least counterexample (`LeastNat`), first for the existence
  of the function, then for what it computes.
- `TypeCorrect` and `CopiesIgnored` (`[]CopiesStayOut`) are inductive: a copy has
  its last name from every directory above it, which a built-in pattern matches.
- `AddIsComplete` (`[]AddComplete`) from `AddOK`: at every step of an add the last
  `done` elements of the queue are the first `done` files it found.
- `LastVersionsFound` (`[]RestoreFindsLast`) and `StatusIsRight`
  (`[]StatusTellsTruth`) from `IInv`. An ID and a relative name stand for a file
  (`Stands`) when the directory is the one with the shortest path that holds the
  file. Every row stands for a file and holds its last state (`RowsOK`), every file
  ever backed up has such a row (`HistoryOK`), and every queued operation whose
  directory is left stands for its own file (`QueueOK`). `StandsAfterAdd` is the
  heart of it: a new directory leaves alone what it is not above, and what it
  takes over stands, under the joined name, for the same file. As one directory
  and one name stand for one file (`StandsForOne`) and a file for one of them
  (`StandsOnce`), what status and restore look up is what was recorded. For
  status, which `StatusTellsTruth` compares with the files, their histories and the
  queue alone and never through a directory ID, three lemmas say what it computes:
  `StatusRows` that its rows are those of the files on disk and in the history,
  each as the code looks it up, `QueuedUnderOwner` that what is queued under an ID
  not consolidated away is queued under the ID it is looked up by, and
  `StatusIsTrue` puts them together. What is queued under an ID that is gone is
  excepted (`Orphaned`): status misses it.

The proofs use only the assumptions named in the modules (`StagingAssumption`,
`MetadataAssumption`, `BackupAssumption`, `SessionAssumption`, `KeysAssumption`,
`RestoreAssumption`, `TreeAssumption`), which say that bounds are natural numbers,
that a listing lists files, that special values differ from keys and checksums,
that containment of paths is that of a tree, that a path is a file's or a
directory's, and that a built-in pattern matches what restore writes. TLC
evaluates each on every run of its module. The inductive invariants were checked
by TLC on the instances of section 3 before they were proved.

Only model-checked: the liveness properties `BackedUpUnlessBlocked`,
`BackupEnds` and `RestoreEnds`, since fairness and `ENABLED` are beyond the prover.

## 6. Not modelled

The log and the history of a file list rows; restore of an older version by its
checksum picks another row of the same file. The in-memory store and vault serve
tests and a "memory" configuration whose state ends with the process. Logging,
clock and identifiers carry no state the properties depend on; migrations wrap a
library; `queries.sql.go` is generated from the queries `Metadata` models. SQLite
itself is taken to be serialisable, S3 objects to be written whole. Symbolic
links, devices and the syntax of ignore patterns are not modelled, nor is a path
that is a directory at one time and a file at another.

Bounded in what they say: `NothingDropped` holds while `queue.json` parses,
which a crash inside `os.WriteFile` can end; `NoOrphanContent` is stated for
histories without faults, since a crash does leave content behind;
`BackedUpUnlessBlocked` excepts a queue that does not parse, a directory
consolidated away and a content removed by a rejected file; `NeverLockedOut` excepts, on a file system vault, a version file torn by a crash
inside its `os.WriteFile`, which does lock every host out, the moment in which it
is written, and histories in which two commands wrote it at once, which can lock every host out
too; `LostOnlyByDiscard` and
`NothingDropped` are stated for calls that do not overlap, since two processes or
goroutines can break them (a commit may remove the content the other has stored
and not yet appended, two that took the same head may pop a later operation
equal to it, and the later of two to rewrite `queue.json` wins). The properties of
`Tree` except a directory tracked inside a tracked one from status and
directory restore (`Shadowed`), and `StatusTellsTruth` the staged mark of files
queued under a directory consolidated since (`Orphaned`).
`Recoverable` excepts histories with a `Setup` stopped half way: what is encrypted
from then on is lost. `Keys` and `Restore` run one command at a time: two
simultaneous `config init` or restores of one file share their output files. `Keys` also takes a configuration
file that was created and not written for unusable until it is removed.

`src/DESIGN.md:408` calls the uploaded database "always encrypted before upload".
`uploadMetadata` uploads it in plaintext when either key file is missing
(`Plain` in `Keys`); no run is spent on this, as the model says it directly.

## 7. Plan

Done: `Staging` for several processes, `Metadata`, `VersionStore`, `Backup`,
`Session`, `Keys`, `Restore`, `Tree`, and the proofs above. What is left, in this order:

1. `Tree` as an implementation of `Metadata`: rows by directory ID and relative name
   against rows by absolute path. `Tree` keeps the current snapshot of a row only, so
   this asks for a history in its rows first.
2. For the liveness properties, the part that needs no fairness: a measure that
   every step of `BackupStep` and of a restore decreases.
3. The prefix test of `SearchDirectoryForPath` at the root, the name of a restored
   file, and the reference counts of the in-memory store against the
   filesystem store.

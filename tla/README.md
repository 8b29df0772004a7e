# A model of iTan-ReclaimSpace

iTan-ReclaimSpace deduplicates the files of a workspace. The content of a file is
published once, as a read-only *master slot* in `.itan_store/objects/`, and every
workspace file with that content becomes a hardlink to it. Nothing but the filesystem
holds the state: the link count of a slot is its reference count, `rename(2)` and
`link(2)` are the synchronization, and any number of ingest workers, garbage
collectors, sweepers and users act on one volume at once. This directory models the
program in TLA+, checks it with TLC on small instances, and proves its main
properties with TLAPS for instances of any size.

Paths below are relative to `src/crates/itan-core/src/` unless they start with `src/`.

## 1. The system

| component | source | state | operations | correct if |
|---|---|---|---|---|
| CAS store | `store.rs` | names in `objects/`, `tmp/`, `quarantine/` | `open`, `lookup`, `acquire_slot`, `spill_slot`, link counts | a slot holds what its name says; the ceiling is kept up to the race its check admits; the walk over slots ends |
| Atomic linkage | `linkage.rs` | none of its own; a staged file, a `.tmp_link` | `apply`: `publish_new_master`, `link_to_master`, the publishing rename, the swap | a workspace file never changes content or disappears; a publication takes no master away from the files linked to it |
| Quarantine GC | `gc.rs` | the timestamp in a quarantined name | `sweep_objects`, `sweep_quarantine`: move, resurrect, purge | only files nobody refers to are unlinked; a link never loses its master |
| Ingest waterfall | `ingest.rs` | the inode cache, per run | `evaluate`: filters, inode cache, digest, lookup | what it skips is linked; what is left alone ends up deduplicated |
| Whitelist | `whitelist.rs` | none | `classify_path` | volatile files keep an inode of their own |
| Permissions | `permissions.rs` | the mode of an inode | `enforce_read_only`, `strip_read_only`, `is_executable` | a master is read-only whenever it is shared |
| Defer retry queue | `retry_queue.rs` | a bounded channel of jobs | `enqueue`, `drain_ready`, `next_attempt` | no job lost while there is room, none retried twice or too often |
| Startup sweeper | `recovery.rs` | none | `sweep_stale_tmp` | removes what is abandoned, and what is in use only in the ways its clock leaves open |
| Capability probe | `capability.rs` | two files in `tmp/` | `probe_volume`, `max_links_per_slot` | clones only where cloning works; leaves no file it could remove |
| USN journal | `usn.rs` | a cursor into a journal | `open`, `scan_delta` | every change comes out once and in order; no handle is lost |
| Digest engine | `digest.rs` | none | full and boundary digest | equal digests, equal contents |
| Command line | `src/crates/itan-cli/src/main.rs` | counters | `recover`, `ingest`, `gc`, `status`, `probe` | the order probe, sweep, evaluate, apply; one file's error does not end a run |

**How they interact.** Every command probes the volume first; `recover` and `ingest` then
sweep `tmp/`. For each file of its walk `ingest` calls `evaluate` and hands the verdict to
`apply`. A *Unique* file is copied to `tmp/` and renamed into `objects/`; a *Duplicate* is
replaced by way of `<target>.tmp_link`. Both first walk the slots of the digest
(`acquire_slot`), which may copy a full slot to the next one (`spill_slot`). A link that
meets a locked file goes to the retry queue. `gc` renames slots with one link to
`quarantine/` and after a cooldown unlinks them or renames them back. No component locks
anything that another process would see.

**What is hard.** (a) Every decision is a `stat` or an `exists` followed, later, by a
system call that acts on a name which may denote another file by then. (b) `rename(2)`
replaces silently, and does nothing at all if both names denote one inode. (c) A mode
belongs to the inode, so locking or unlocking a file locks or unlocks all its links.
(d) A worker can be killed between any two calls. (e) Users save files at any moment.
(f) Inode numbers, which the cache is keyed by, are given out again. (g) What one process
takes for litter in `tmp/` another is writing. `PROJECT.json` lists these hazards line by
line, with the properties that cover them.

## 2. Modules

| module | models | state |
|---|---|---|
| `HardlinkFs` | POSIX names, hardlinks and modes, as the code uses them (external) | `vol`, a set of files; a file is its set of names, its data, whether the data is complete, and its mode |
| `CasStore` | what a reader of the store sees: slots of a digest and link counts | - |
| `RetryQueue` | the bounded queue | `retryq` |
| `Linkage` | a worker: Tier 2 of `evaluate`, `acquire_slot`, `spill_slot`, `apply`, failures | `wk`, per worker: the next call, target, digest, slot index, staged file, verdict |
| `QuarantineGC` | a collector, one entry at a time; time | `gc`, `clock` |
| `Workspace` | the abstract specification: a workspace without a deduplicator | `saved`, `seen` |
| `ReclaimSpace` | all of the above with users and the sweeper, interleaved | `saved`, history: what each file's user did last |
| `Whitelist` | `classify_path`, the whole table and its two exceptions | - |
| `Waterfall` | ingest after ingest over a whole workspace: the walk, all tiers, `--dry-run`, the inode cache, slots that fill up, errors, the modes of files | `file`, per inode number: names, data, mode; `run`: the command, its cache and what is left of its walk; `upsets`, how often a user, an error or a kill interfered |
| `TmpDir` | `tmp/` as processes share it, and time | `tmp`, per name: there or not, the time it bears, when it was written, whose it is; `clock` |
| `Capability` | `probe_volume`: the decision and the dry run of each platform | `volume`, what the volume is; `pb`, per process: the dry run and the strategy |
| `Recovery` | `sweep_stale_tmp`, call by call | `sw`, per process: the walk |
| `Startup` | processes that probe, sweep and stage, start and are killed | `ph`, per process: its phase |
| `RetryDrain` | `DeferRetryQueue` under threads that enqueue and drain; extends `RetryQueue` | `dr`, per thread: the two vectors of `drain_ready`; `fate`, `tries`: history of each job |
| `ChangeFeed` | the abstract specification of the tailer: a feed of changes | `pending`, `taken` |
| `UsnScanner` | `open` and `scan_delta` on a journal that is written and overwritten (external) | `journal`, `first`, `scanner`, `handles`, `reported`; history: `failedQueries` |
| `MCReclaimSpace`, `MCWaterfall`, `MCRetryDrain`, `MCStartup`, `MCUsnScanner` | values for TLC | - |
| `VolumeLemmas` | what each filesystem operation does to a volume | |
| `TypeProofs`, `GcProofs`, `ContentProofs` | the theorems about `ReclaimSpace` | |
| `WaterfallProofs`, `StartupProofs`, `RetryProofs`, `UsnProofs` | the theorems about the other modules | |

Operators whose comment begins "As a bug" are not part of the model: each is a plausible
mistake in one action, and `PROJECT.json` says which property notices it.

**`ReclaimSpace`: one volume, call by call.** A file of `HardlinkFs` has no inode number: it
is the set of its names, so `st_nlink` is a cardinality, and a file disappears with its last
name. `IsVolume` says that no name denotes two files. Every system call that writes is a
step, and so is every read a later write depends on. `wk[w].pc` names the next one:

| `pc` | code | `pc` | code |
|---|---|---|---|
| `idle` | `evaluate`, `ingest.rs:116-153` (`Digest`) | `exists` | `linkage.rs:129` (`ExistsCheck`) |
| `lookup` | `ingest.rs:155` (`Lookup`) | `stage`, `fill` | `fs::copy`, `linkage.rs:137` (`Stage`, `StageFill`) |
| `redigest` | `main.rs:226` (`Redigest`) | `publish` | `linkage.rs:153` (`Publish`) |
| `acquire` | one turn of the loop, `store.rs:217` (`Acquire`) | `rename` | the fallback's rename, `linkage.rs:353` (`PublishRename`) |
| `spill`, `spillFill` | `store.rs:279-299` (`Spill`, `SpillFill`) | `lock`, `relock` | `enforce_read_only`, `linkage.rs:159`, `236` |
| `spillCheck` | `store.rs:305` (`SpillCheck`) | `strip` | `linkage.rs:194` (`Strip`) |
| `spillMove` | `store.rs:308` (`SpillMove`) | `link`, `swap` | `linkage.rs:198`, `218` (`Link`, `Swap`) |

A copy is two steps: the file is there with `whole = FALSE` before it is complete.
`Abort` kills a worker anywhere, or makes it return on an error; what it did stays on
disk. A file may be taken by several workers, and again after it was linked: every run
of the command starts with an empty inode cache.

**`Waterfall`: one workspace, run by run.** Here inodes do have numbers, and a new file may
be given one that the cache still holds. A run (`Begin` to `End`) makes its visits in any
order. A visit is a file and the path the walk comes to it by: its own, and one more for each
symbolic link to a directory above it (`Aliases`). As in the code nothing but that path is
classified, so `node_modules/pkg -> ../packages` admits what its own path would not. `Bypass` and
`Admit` are Tier 0, `Evaluate` is Tiers 1 and 2 with `cache_inode`, `Redigest` the command's own
second digest. `Publish` and `Link` are one step each, with the walk over full slots and the
spill in it, for what other processes do meanwhile is the matter of `Linkage`. What they leave
when they stop half-way is in `PublishFails` and `LinkFails`: the new slot not locked or locked
as a data file, the target stripped, the temporary link made, the swap done and the slot not
locked. `Miss` and `Fail` are the errors that change nothing, `Kill` ends the run. Users save
and delete between any two steps.

**`Startup`: one `tmp/`, process by process.** `TargetMade`, `Target` and `DryRuns` say how the
platforms differ. `StatEntry` and `RemoveEntry` are the two calls per entry of a sweep, and
the clock is read once, after the directory was opened; every one of these calls may fail.
A file bears a time (`mtime`) and was written at a time (`written`), and the two differ where
`fs::copy` or a clone keeps the time of the source, on Windows and macOS (`CopyTimes`). Every
`let _ = fs::remove_file` may fail (`TryRemove`), and then the file stays and nobody comes back to
it, as after a copy that breaks off or a shard directory that cannot be made (`LeaveStage`).

**`RetryDrain`.** `Receive` and `SendBack` are one `try_recv` and one `try_send`: between them
jobs are in a drainer's vectors and in no queue. Time is what each job has left to wait.

**`UsnScanner`.** A record's position in `journal` is its USN. A scan reads what matches its
filter until its buffer is full; `Overwrite` moves `first` past records nobody has read.

**Abstractions and assumptions.**
- A content is its own digest: BLAKE3 is taken to be collision-free. The boundary hash is
  computed, stored and compared with nothing, so it and its cache are left out.
- A copy reads its source when it starts. An edit during the copy has the same effect as
  one between the digest and the copy, which is modelled.
- In `HardlinkFs` a mode is read-only or writable; the executable bit is in `Waterfall`.
- In `ReclaimSpace` the sweeper may remove any file of `tmp/`, more than it ever does.
- Two quarantine stamps differ: `StatSlot` advances the clock. The code's are milliseconds.
- Staged files have unique names without meaning (UUIDs in the code), so which free name is
  taken makes no difference and `CHOOSE` takes one. Of inode numbers only those that a run
  remembers are told apart (`NewNumbers`).
- All workers of a run share one queue. `MoveFileExW` is taken to behave as `rename(2)`.
- `Linkage.Acquire` takes the existence of a slot and its link count in one step, where
  `store.rs:219-228` asks twice; a slot that vanishes in between is an error return, `Abort`.
- `Startup` forgets the strategy once a process has probed; the ceiling it sets is `MaxLinks`.
- A read of the journal fails only if it was overtaken. `OpenFails` is every other failure.
- A workspace is finite, and a file called `compile_commands.json` has the extension `json`.

## 3. Properties and runs

One volume (`ReclaimSpace`):

| property | says |
|---|---|
| `TypeOK` | shapes, and that the volume is a volume |
| `Transparent` | refinement of `Workspace`: only a user's action changes what a file holds or whether it is there |
| `SlotIntegrity` | a slot, in `objects/` or `quarantine/`, is complete and holds the content it is named after |
| `OneSwapper` | `<target>.tmp_link` is a lock: one worker at a time is about to swap a file, with its own link |
| `OneStoreName` | a file has at most one name in the store, so that the link count is a reference count |
| `StaysDeduplicated` | but for its user, nothing takes a linked file's master out of the store |
| `PartedByReplacementOnly` | where something does, a rename put another file in the place of the very slot the file is a link to, or of the slot of the temporary link that is swapped in |
| `PurgesOrphansOnly` | a purge that is carried out removes the last name of a file |
| `QuarantineGainsNoLink` | a quarantined file never gains a link, so the count a purge relies on is an upper bound |
| `CeilingOvershoot` | concurrent workers pass the ceiling by at most a link each |
| `WorkersReturn` | a worker that took a file returns |
| `Contiguous` | the slots of a digest have no gap (the code's claim, which a collector breaks) |

The workspace (`Waterfall`):

| property | says |
|---|---|
| `NeverProhibited` | a volatile file shares its inode with the store only where the walk meets it inside `node_modules` |
| `SkipIsIngested` | what the inode cache makes a run skip is a link into the store, though numbers are reused |
| `QuietRunDeduplicates` | after a run that nobody disturbed, every file that may be linked has its content in the store, and is linked if the store had it before, or kept from it by a temporary link left behind |
| `LockLostByRelinkOnly` | a slot becomes writable only as one of its own links is linked once more |
| `ExecLostByRelinkOnly` | a slot ceases to be executable only when one of its own links is linked again, or by a link after which its mode cannot be read |
| `SlotsLocked` | between runs every slot is read-only (the code's claim) |

Startup, retry queue, journal:

| property | says |
|---|---|
| `HonestStrategy` | cloning is chosen only where it was seen to work, and link ceilings leave room for every process's overshoot |
| `NoLitter` | a live process has no file in `tmp/` but those it works with and those a failing call made it give up |
| `SweepsClean` | what a sweep found and could examine and remove bears a recent time when it ends, or was written meanwhile |
| `FreshIsKept` | what a sweep removes was not written for the threshold, or was after the sweep read the clock, or bears the older time of the file it is a copy of |
| `SweepsEnd` | a sweep ends, while others write |
| `InFlightIsKept` | what a sweep removes was old (the code's claim) |
| `Custody` | a deferred job is in exactly one place |
| `LossNeedsOverflow` | a job is lost only if more are outstanding than the queue holds |
| `RetriesAreBounded` | at most `MaxAttempts` retries, and exactly as many before a job is given up |
| `DrainReturns` | a call of `drain_ready` ends, though other threads go on sending |
| `ExactDelta` | refinement of `ChangeFeed`: every change once and in order |
| `HandlesReturned` | between two calls exactly the handles of `open`s whose query failed are open |
| `ChangesArrive` | a change is reported, unless the journal overtakes the scanner |

Passing runs:

| run | instance | what it shows |
|---|---|---|
| `faults` | 2 files, 2 contents, 2 workers that fail and die anywhere, a sweeper, users who rewrite; queue of 1 | `TypeOK`, `SlotIntegrity`, `OneSwapper`, `Transparent` survive every failure. Two contents are what it takes to put a wrong file in place; one stage name suffices for a stage that is swept, lost and reused |
| `race` | 2 files, 2 contents, 2 workers, users who edit in place and delete at any moment | `OneStoreName`, `StaysDeduplicated` with the `renameat2` build, though what is edited in place may reach every link |
| `gc` | 2 files, 1 content, 1 worker, 2 collectors, ceiling 2, slots 0 and 1, clock up to 2 | `PurgesOrphansOnly`, `QuarantineGainsNoLink`, `Transparent`. Two ticks let an entry cool while a second one is stamped |
| `spill` | 2 files, 1 content, 2 workers, ceiling 3, slots 0 to 2, portable build | `SlotIntegrity`, `CeilingOvershoot`, `Contiguous`, `PartedByReplacementOnly` where renames do replace slots, and `WorkersReturn` under fairness |
| `waterfall` | an executable library found by two paths, an object file, and another that a symbolic link shows inside `node_modules`; 2 contents, one of them too small; ceiling 3, slots 0 to 2, 7 inode numbers, a cache of 2, one upset | the five properties of the workspace. Two links fill a slot, so that the next visit spills, and three visits overflow the cache; one save reuses a number the cache holds, one error or kill leaves any of the half-done links; any number of runs, dry or not, follow each other |
| `startup` | 2 processes killed and failing anywhere, 2 names, clock up to 2, threshold 2, a copied file of time 0; a Linux volume that clones, a Windows volume that promises to and does not | the five properties of `tmp/`. Two names are a dry run's two files, or a stage of one process and a sweep of the other; a copy made at 1 is stale to a sweep at 2. macOS is left to the proofs |
| `retry` | 3 jobs, 2 drainers, a queue of 2, 2 attempts | `Custody`, `LossNeedsOverflow`, `RetriesAreBounded`, and `DrainReturns` under fairness. Three jobs are one more than the queue holds |
| `usn` | journal of 3 records, buffer of 1, 1 failing query | `ExactDelta`, `HandlesReturned`, and `ChangesArrive` under fairness. A scan needs three reads and can be overtaken between them |

Bounds: `MaxSlot` and `MaxClock` cap the slot index and the clock, `Stages` and `MaxNames`
the files in `tmp/` at one time, `MaxInode` the inode numbers (more than there can be files
and slots), `MaxUpsets` what users do after the workspace was made and what fails, `OldTimes`
the times of files that are copied, `MaxUsn` and `MaxFailedQueries` the journal and the failing
queries. `Acquire`, `StageCopy`, `StatSlot`, `Tick`, `CreateStage`, `WriteSource`, `Change`,
`OpenFails`, and `Publish` and `Link` of `Waterfall` stop at them; in `spill` no worker ever
waits for one, or `WorkersReturn` would fail. `MaxSlot = 0` with `MaxLinks = 9` is a volume whose slots
never fill up. The queue's capacity of 4096, three attempts, and a cache of 100,000 are made
small enough to be reached. Workers, files, contents and collectors are symmetric. Runs with a
liveness property do without symmetry. Runs of `ReclaimSpace` say `CHECK_DEADLOCK FALSE` because the system may really
stop: all workers idle, no file left, the clock at its end.

`Quiet` says that users leave a file alone while a worker processes it. `Transparent` and
`SlotIntegrity` hold only then, and without edits in place. `race` needs neither.

**Fairness.** `ReclaimSpace`: weak fairness of each worker's own next call and of nothing
else; a thread that is scheduled runs on until it returns. Nothing in the code makes a
worker start, a collector run or a user act, and failures are never due. `Startup`: of a
sweeping process, for the same reason. `RetryDrain`: a thread inside `drain_ready` goes on. That
somebody drains, or that a job is ever tried again, is assumed nowhere, for no command does.
`UsnScanner`: a call returns, and the caller
keeps scanning. `Waterfall` has no liveness property.

Violated runs: each checks one statement of the repository's own text.

| run | statement | what happens |
|---|---|---|
| `resurrect` | GC races are handled (`src/GUIDE.md:416`) | the rename back replaces the master published meanwhile, and its links lose it |
| `slot_gap` | "slot indices are always contiguous" (`store.rs:176`) | the collector takes slot 0 and leaves slot 1; from then on the content is known but cannot be linked |
| `unlocked` | a slot is "immutably Read-Only" (`src/Architecture Sign-Off & Verification.md:52`) | four ingests of one unchanged executable leave its slot writable |
| `negative_age` | only what is "older than `stale_threshold_secs`" is removed (`recovery.rs:6`) | a file written after the sweep read the clock has no age, which counts as infinite, and is removed while in use |

**Other disagreements between the code and its text**, found while modelling. The
properties above are stated, or their runs chosen, so that they hold in spite of these:

- The portable build checks for the slot and then renames with `rename(2)`, which replaces;
  `linkage.rs:339` promises "one winner, all others clean up". `StaysDeduplicated`
  fails with `NoReplace = FALSE`; `PartedByReplacementOnly` says how much of it fails.
- `store.rs:303` says of a spill that meets another worker's slot "the rename will fail on
  POSIX". It succeeds, and the links of the slot it replaces lose their master.
- `src/GUIDE.md:247`: "`ingest` never deletes data". What a user saves between the digest of a
  file and its swap is overwritten. `Quiet` excludes this.
- `src/GUIDE.md:415` counts on the read-only mode. Re-linking a linked file strips the shared
  inode, and until it is locked again an editor can write through every link.
- `src/GUIDE.md:45`: running `ingest` twice is safe, "already-linked files are skipped at the
  inode-cache stage". The cache is empty in a new process, so linked files are linked again;
  if the slot is their own inode, `rename` does nothing and `<target>.tmp_link` stays. No
  sweep removes it. In `node_modules`, where everything is whitelisted, a stray link with the
  extension `tmp_link` is then ingested itself.
- `store.rs:348` calls a link count of 1, the Windows build's constant, "correct for the GC
  sweep". With `CountsLinks = FALSE` every slot looks like an orphan and is purged in use.
- `ingest.rs:55` says that what is skipped "is already tracked in the CAS". The cache holds
  the number that a file had *before* it was linked, so it recognizes a file only by way of
  a reused number; a hardlink that a user made to such a file would be skipped, linked or not.
- The comment at `linkage.rs:111` notwithstanding, a unique file is published and its own path
  not linked: reclaiming its space takes a second run.
- `src/GUIDE.md:232`: a dry run modifies nothing. It probes, opens the store and sweeps like any
  other run.
- `src/GUIDE.md:393`: locked files are "retried automatically". No command drains the queue, and a
  deferred job is forgotten with the process.
- `whitelist.rs:5-7` rules volatile output out. The walk follows symbolic links to directories and
  classifies the path it comes by, so a volatile file that a link shows inside `node_modules`
  is linked into the store, its own path with it.
- A file of a full slot that is linked again goes to the next slot, and only that one is locked
  again: the strip leaves the full slot writable, with all its links.
- `src/Architecture Sign-Off & Verification.md:145`: the sweep "preserves fresh in-flight files".
  On Windows and macOS `fs::copy` gives a stage the time of its source, so the stage of an old
  file is stale from the start, and another process's sweep removes it in flight.
- A copy that breaks off, a shard directory that cannot be made and a spill whose rename fails
  leave their stage in `tmp/`, where the other error paths remove it (`linkage.rs:137-151`,
  `store.rs:308`); a sweep takes it when it is old.
- `capability.rs:58`: a volume that clones has no ceiling. Linkage always makes hardlinks, so such
  a volume has a ceiling that nobody respects.
- `usn.rs:100` documents `JournalWrapped`, which is never returned: a scanner that was
  overtaken fails for ever. A record with both reasons is reported as a link change, and its
  overwrite is hidden (`usn.rs:258`). An `open` whose query fails leaks its handle, where the
  sign-off (line 128) claims RAII guards.

## 4. Proofs

| theorem | of | statement |
|---|---|---|
| `TypeCorrect` | `TypeProofs` | `Spec => []TypeOK` |
| `SwapIsExclusive` | `TypeProofs` | `Spec => []OneSwapper` |
| `StoreNamesAreUnique` | `GcProofs` | `Spec => []OneStoreName` |
| `OrphansArePurged` | `GcProofs` | `Spec => []PurgesOrphansOnly`, if link counts are counted |
| `QuarantinedStaysApart` | `GcProofs` | `Spec => QuarantineGainsNoLink` |
| `SlotsIntact` | `ContentProofs` | `Spec => []SlotIntegrity`, if `Quiet` and no edits in place |
| `WorkspaceTransparent` | `ContentProofs` | `Spec => Transparent`, under the same conditions |
| `LinksPartByReplacement` | `GcProofs` | `Spec => PartedByReplacementOnly`, if link counts are counted or no collector runs |
| `OnlyDisplacingParts` | `GcProofs` | `Spec /\ [][~Displaces]_vars => StaysDeduplicated`, if link counts are counted or no collector runs |
| `AloneDeduplicatesForGood` | `GcProofs` | `Spec => StaysDeduplicated` for one worker and no collector, on either build |
| `PublishersPartNothing` | `GcProofs` | `Spec /\ [][~SpillReplaces]_vars => StaysDeduplicated`, with `renameat2` and no collector |
| `CeilingIsNearlyKept` | `GcProofs` | `Spec => []CeilingOvershoot`, if link counts are counted, for a ceiling of two or more, finitely many workers and no collector |
| `SlotsAreContiguous` | `GcProofs` | `Spec => []Contiguous`, if no collector runs |
| `WaterfallTypes`, `VolatileStaysOutside`, `LocksAreLostByRelinking`, `CacheSkipsLinksOnly`, `ExecIsLostByRelinking` | `WaterfallProofs` | `TypeOK`, `NeverProhibited`, `LockLostByRelinkOnly`, `SkipIsIngested`, `ExecLostByRelinkOnly` |
| `QuietRunsDeduplicate` | `WaterfallProofs` | `Spec => QuietRunDeduplicates` |
| `StartupTypes`, `NothingForgotten`, `FreshFilesAreKept` | `StartupProofs` | `TypeOK`, `NoLitter`, `FreshIsKept` |
| `SweepsAreClean` | `StartupProofs` | `Spec => SweepsClean` |
| `StrategiesAreHonest` | `StartupProofs` | `Spec => []HonestStrategy`, for up to 24 processes |
| `RetryTypes`, `JobsAreInCustody`, `AttemptsAreBounded`, `LossesNeedOverflow` | `RetryProofs` | `TypeOK`, `Custody`, `RetriesAreBounded`, `LossNeedsOverflow` |
| `HandlesAreReturned`, `UsnTypes` | `UsnProofs` | `HandlesReturned`, `TypeOK` |
| `DeltasAreExact` | `UsnProofs` | `Spec => ExactDelta`: `UsnScanner` implements `ChangeFeed` |

They hold for any sets of files, contents, workers, collectors, stages, processes, jobs and
threads, any bounds, both builds, with failures, sweeps and collectors, but for the
conditions in the table, each of which is needed or explained below. The assumptions on
constants are those named in the modules: bounds are natural numbers, switches are Booleans,
sets of names are finite, `None` is nothing else.

*Types.* `VolumeLemmas` shows for each filesystem operation that it takes a volume to a
volume, which names it leaves bound, and where each file of the result comes from. The
type invariant is then one lemma per action.

*Swap.* `OneSwapper` is inductive with the types: `Link` needs a free temporary name, and
nothing but the swap, or its failure, by the worker that made the link takes the name away.

*Collector.* `OneStoreName` is inductive with the types: a rename into the store takes the
name away that the file had there, and the one `link(2)` makes a name outside. With it every
step gives a quarantined file at most as many names as it had (`NoGains`), a swap exchanging
one for another, unless the file is there as an entry that a collector is just about to
make. That this entry is a new one is `Stamped`: quarantined names carry stamps of the past,
and two collectors that are about to move have different ones. `Orphans` then says that an
entry about to be purged is its file's only name and about to be made by nobody.
`PurgesOrphansOnly` needs both, since a purge acts on a name, and another file under that
name would be purged in use.

*Deduplicated.* Two names of one file stay together in every step, unless the step renames one
of them (`Apart`), and a name that shares a file with the store goes on doing so (`HoldsOn`),
but for three kinds of steps: one of the file's user, a rename that replaces the very slot the
name is a link to, and a swap of a temporary link that no slot holds (`LinkStays`, one lemma
per action). The collector's purge takes a last name only (`Orphans`, which needs counted
links). `LinksPartByReplacement` is that statement; its second half says the same of temporary
links, and so where one that no slot holds can come from. The renames that replace
(`Displaces`) are all that the code has: `PublishRename` and `SpillMove` onto a slot that
appeared after the check, and `Resurrect` onto one that was published meanwhile. Without them
`LinksHeld` is an invariant, the swap is harmless, and `OnlyDisplacingParts` follows.
`AloneDeduplicatesForGood` closes the gap for the program as it is run: `cmd_ingest` works
through the files in sequence and does not use its argument `_workers`, so a lone process has
one worker, and from its check to its rename nobody makes a slot (`PathsFree`).
`PublishersPartNothing` leaves racing workers one of the three calls, for `renameat2` rules out
the first (`RenamesAtOnce`). That two processes part files on the portable build is among the
disagreements above; that a collector does is the run `resurrect`.

*Ceiling.* A worker that has looked at the count of a slot and not linked yet is heading for it
(`Heading`). `RoomForAll` adds those to the links there are and keeps the sum below
`MaxLinks + Cardinality(Workers)`: a worker starts to head for a slot only while that has
fewer links than `MaxLinks`, and a link uses up the place that its worker had.
A publication starts with one link because a staged file has no other name (`StagedAlone`);
this one is free if the ceiling is at least two, and the code's are 1,000,
64,000 and none. No collector: `Resurrect` brings a file with links back to a slot that
workers have accepted on the count of another file, and TLC shows the ceiling passed by more
than the workers (one collector, four files, `MaxLinks = 2`).

*Contiguous.* A worker's walk has seen every slot up to its own (`Walked`), and without a
collector slots stay (`SlotsStay`), so a slot is made next to one that is there, by whatever
number of workers. With a collector the claim is false (`slot_gap`).

*Content.* `SlotIntegrity` and `Transparent` say nothing of staged files, temporary links or
what a worker believes, so neither is inductive. `ContentInv` gives every *name* a promise
about the file it denotes: a slot's name promises a complete file with its digest, a
workspace name what its user saved, a worker's stage or temporary link the digest that the
worker took (and, once filled, a complete file). A step keeps all promises if a name it adds
to a file promises nothing beyond what an old name of that file did, so each action has one
such fact to show: a publication because the stage's promise covers the slot's, a swap
because the temporary link's and, by `Work`, the worker's digest is what the user saved.
`Present` adds that every file its user left is there. `OneSwapper` is needed because two
workers on one target would give its temporary link two promises. `WorkspaceTransparent` then
follows because `ContentInv` makes `Seen` equal to `saved`.

*Waterfall.* `WaterfallInv` says of each inode what only a slot may be: only slots have more
than one name, each workspace name of a slot was admitted by some path of the walk, and a
content with a slot has its first one. Each piece of `Publish` and `Link` (acquire, spill,
strip, hard link, swap, lock) takes a sound table of files to a sound one, so that a run may
stop after any of them. `SkipIsIngested` follows because a cached number counts only with a
second link, and only slots have one; `NeverProhibited` from the admitted names. The cache
itself, whose numbers may be stale, needs no invariant. The two statements about modes are
about steps: every piece but the strip leaves or locks the mode of a slot, and the strip
acts on the inode that the target names (`SlotModes`).
`QuietRunDeduplicates` needs `QuietInv`, about the middle of an undisturbed run: the files
that it is done with are settled, the contents it found are still in the store, and what it
believes of the file in hand (its digest, that the store lacks it) is what is there.

*Startup.* The invariant ties each file in `tmp/` that has an owner to the owner's phase, which is
what a kill, a failing step and a removal that fails have to undo: they take the file away or its owner.
`TimesOK` says that a file bears no later time than that of its writing. `FreshIsKept` needs
that an entry a sweep is about to remove was stale or unaged when it was stated (`Removable`),
and that whatever its owner does to it afterwards is a write after the clock was read.
`SweepsClean` is an invariant of the walk: what it has dealt with and not reported is gone or
spared, and a name that reappears is a file written later. `HonestStrategy` follows from one
fact about a dry run (it succeeds only where the volume clones) and the numbers: NTFS allows
1,024 links, the code 1,000, so 24 processes may overshoot at once, and the theorem's
hypothesis on `Procs` is exactly this.

*Retry.* `Custody` counts occurrences in three kinds of sequences. `RetryInv` has each
drainer's vectors and the queue hold each job at most once and no two of them the same, and
a job be in one of them exactly while it is deferred; a job's attempts are its retries so far.
`LossNeedsOverflow` then compares cardinalities: a full queue holds as many different jobs as
its length, and the one that is lost is not among them.

*Journal.* `CursorInv` keeps the cursor in the journal or at its end. The refinement maps the
feed's pending changes to the relevant records from the cursor on. A scan reads them in
pieces, so the proof rests on `EntriesIn` of adjoining stretches, by induction over
positions. The library's induction theorems cannot be instantiated here; the
induction is done by the least counterexample (`RangeInduction`), which is why `EntriesIn`
is a recursive function and no `RECURSIVE` operator.

Only model-checked: liveness (`WorkersReturn`, `SweepsEnd`, `DrainReturns`,
`ChangesArrive`), which is out of the prover's reach. Each other property of a passing run
has a theorem, under the conditions named. Outside of them nothing is claimed: the
disagreements above and the runs `resurrect` and `slot_gap` show for most of them that the
property then fails. The runs do not cover `AloneDeduplicatesForGood`, which is about the
portable build: `race` checks `StaysDeduplicated` with `renameat2`.

## 5. Not modelled

- `lib.rs` is declarations. `status` only reads, and the counters and the print-out of all
  commands are left out.
- `digest.rs` beyond what a digest is of: block sizes, read-ahead hints, the boundary hash.
- The Windows attribute of `permissions.rs`; `MoveFileExW` beyond `rename(2)`.
- Text formats: hex digits of a digest, quarantine names `<ts>_<slot>`, offsets in the
  journal's buffer, and the volume's path, which `usn.rs:142` builds without its colon.
- Symbolic links to directories that lead back to themselves, which the walk would follow.
- Symbolic links to files, which a link would replace by a hardlink of what they point to.
- Two quarantine stamps within a millisecond, and hardlinks that users make themselves.

# A verification project for Synkronyx

Synkronyx keeps two directory trees, A and B, equal: inotify watchers on both
sides, a guard that recognises the daemon's own writes, a debouncer, a main loop
with workers that copy with rsync, a retry queue, and a SQLite database with the
last synchronised state.  This directory holds TLA+ models of that code, the TLC
runs that check them, and proofs checked by TLAPS.  The source is the reference;
`PROJECT.json` maps every definition to the lines it models.

```
cd tla
tlasany SyncPair.tla
tlc -workers 2 -config pair_edits.cfg MCSyncPair.tla
tlapm Debounce_proofs.tla
```

## 1. The system

    inotify A --> watcher A --+                               +--> tree A
                              +--> guard --> debounce --> loop --> workers
    inotify B --> watcher B --+                  ^             +--> tree B
                                                 |  failures, retries, resync
                                              state db  <-- command line

| Component | State it keeps | Operations | Talks to |
|---|---|---|---|
| inotify, watcher | watch tree, pending half renames, out channel | read loop, handle, halfMove, orphanMove, rescan | `pump` by channel; overflow and fatal signals |
| guard | `seen` (counted expectations), `subtrees`, TTL | Expect, ExpectSubtree, Forget, Consume, Sweep | called by pump (Consume) and by the handlers (Expect) |
| debounce | pending slots, timers, `emitting`, out channel | Push, timer callback, emit, Close | pumps push, the loop receives and closes |
| engine loop, dispatcher, retry | workers' channels, `inflight`, `e.failed`, retry items, `e.resync`, `e.fatal` | receive, dispatch, handleFailure, processRetries, barriers, shutdown | everything |
| handlers | none of their own | alreadySynced, propagateContent/Delete/Attrs/Dir/Move, detectConflict, resolveConflict, recordPair | guard, transfer, state db, disk |
| first sync, resync | inventories, digests, `handled` | scanBothSides, compareInParallel, reconcile | handlers, state db |
| state db | entries, conflicts, resolutions, meta | Put/PutBoth/Delete, RecordConflict, RequestResolution, ... | handlers, command line |
| resolutions | a row per path | `-resolve`, applyPendingResolutions, ApplyResolution | a second process and the daemon, through the db |
| transfer | none | CopyFile, CopyTree, Move, Remove, SyncAttrs | rsync and system calls |
| migrations, config, hash, preflight, logging, status | schema version | start-up and pure functions | - |

What is hard here:

* *Concurrency*: two pumps, a goroutine per timer, a loop and N workers around
  bounded channels and one WaitGroup; the debouncer's lock is held over a
  blocking send in one path; the command line is another process.
* *Time of check, time of use*: users edit while a handler runs; resync decides
  on an inventory that is old when it acts; `recordPair` stats the files again.
* *Echoes*: each write of the daemon is an inotify event too.  Expectations have a
  count and a TTL, and neither is exact; layer 2 (`alreadySynced`) has to be right
  when layer 1 (the guard) is not.
* *Failure*: crashes between a write and its rows, an rsync that stops half-way,
  retries that are stale, an overflow of the inotify queue, a full `e.failed`.

What makes each part correct: the debouncer neither loses an event nor sends on a
closed channel, and Close returns; the loop keeps the order of a subtree, is alone
behind a barrier and forgets no failure; the handlers and the resync make the two
sides converge, lose no user's version, keep a baseline that is true and come to
rest; a resolution does what was asked, once, and loses nothing.

## 2. The modules

| Module | Models | Composition |
|---|---|---|
| `Mailbox` | what the debouncer promises the loop, without lock, timers or goroutines | abstract; `Debounce` implements it |
| `Debounce`, `MCDebounce`, `Debounce_proofs` | internal/debounce, with its threads and its lock | stands alone; its environment is the pumps and the loop; refines `Mailbox` |
| `EngineLoop`, `MCEngineLoop`, `EngineLoop_proofs` | loop, dispatcher, workers, retry queue, barriers, shutdown | abstracts a handler to "applied" or "failed" |
| `SyncPair`, `MCSyncPair`, `SyncPair_proofs` | one file, end to end: users, inotify, guard, slots, loop, worker, handlers, resync, crash | composes the parts; abstracts channels to sequences |
| `Resolutions`, `MCResolutions`, `Resolutions_proofs` | `-resolve`: requests, heartbeat, ApplyResolution run by two processes | abstracts the event handlers to one step each |
| `WatchTree`, `MCWatchTree`, `WatchTree_proofs` | one side's watcher and inotify: users, kernel queue, registry, walks, half renames | its promise (`Announced`) is what TreeSync takes for granted |
| `TreeSync`, `MCTreeSync`, `TreeSync_proofs`, `TreeSync_versions`, `TreeSync_removals` | directories of both trees: copy, inspected removal, rename, reconciliation, crash | composes users, watchers, debouncer, guard, worker, loop, state; a file's handler is one step (SyncPair) |

### Debounce
`pending`, `closed`, `out` are the fields of the struct; `mu` is the lock, and it
holds the Move while `Push` emits it under the lock (`PushMove`, then `MoveSent` or
`MoveDropped`).  A timer is a flag of its slot; a fired timer is an element of
`fired` until its callback gets the lock (`Callback`), then `sending` is
`d.emitting`.  `gen` is the identity of the `*slot` the callback compares.  Close is
three steps: `CallClose`, `CloseLocked`, `CloseOut`.  `owed` and `moved` are history.

`Mailbox` holds accepted events and hands each over once, in a bounded stream;
`Post` maps `held` to what is in slots, in callbacks' hands and under the lock, the
stream to `d.out`, and the phase to the flags of the shutdown.  It says what a reader
relies on: an event is replaced by a newer event of its own path and by nothing
else, a Move never is, none is handed over twice, and the channel is closed empty-handed.

### EngineLoop
`at` is where the loop is.  `Receive`, `HandleFailure`, `RetryTick`,
`StartBarrier`, `Exit` are the branches of its select; `SendToWorker` and `Barrier`
are the two places where it blocks (a worker's full channel, `inflight.Wait`).
`WorkerTake`, `WorkerDone`, `WorkerFails`, `WorkerReport` are a worker's goroutine.
`Dispatch` raises `inflight` before the send, as dispatch.go does.  The shutdown is
`Exit`, `DeboClosed`, `Joined`: the loop leaves its select, `debo.Close` gets the
debouncer's lock, the workers drain.  Of the debouncer there is only what Close waits for,
a pump inside `Push` that holds the lock over a Move's send on the full channel
(`MoveBlocks`).  It goes on when the loop reads or the context is cancelled; on the fatal
path neither happens (engine.go:214-216), Close waits for ever, and `FatalReturns` excepts
exactly that (`CloseStuck`).  `debounce_fatal_move` shows it in the debouncer itself.

### SyncPair
A file is a content, a stamp (size and mtime) and a mode, which stands for the owner too.
`pc` is where the worker (or the loop inside a reconciliation, `run = "resync"`) stands;
each step is one look at the disk or the database or one write, so users, crashes and
echoes may come between any two.
`cnt` is `guard.seen`, `slot` the debouncer's slot, `kern` the inotify queue with
the notices marked that the daemon itself caused (the mark is read only by the
constraint on users, never by the daemon).  `EchoNew` and `EchoUpdate` are the event
sequences an rsync causes, measured on Linux: `RsyncNew`/`RsyncUpdate` contain the
variants, `ExactNew`/`ExactUpdate` only those with the announced three events,
`ClaimedNew`/`ClaimedUpdate` those with at most three.  `AttrsEchoes` are the one to three
ATTRIB of `SyncAttrs` (lchown, chmod, utimes).  inotify drops a notice identical to the
last one that is still unread: `Queued` lets it happen to whatever a user or the daemon
causes, with each other's notices too, and also lets it not happen, since the
queue is shared with other paths and may have been read.

`Pace` says how close to the daemon users act: *apart* (while the service is down
or at rest with its echoes behind it, a touch or chmod only when nothing at all is
pending), *stepwise* (not inside a handler), *racing* (anywhere).  Passing runs
use the two quieter ones where the louder one fails: each restriction is the
boundary of a counterexample (section 3).

### Resolutions
A process per `-resolve` and one for the daemon; `StatBoth`, `PreserveLoser`,
`CopyWinner`, `RecordPair`, `ResolveConflict` are `ApplyResolution` cut at its writes,
and run by either.  With `UsersWait` users leave the file alone while somebody applies a
resolution to it or the guard covers it; without, an edit that comes between
`PreserveLoser` and the copy is lost (`resol_edit`).  `Starts` chooses the contents at
the start and whether the behaviour contains what the heartbeat cannot exclude: a
command that writes beside the daemon or beside another command (`overlap`).  `Stands`
is promised without it only.

### WatchTree
The disk is a tree of inodes over `Paths`, a finite set of names closed under prefixes;
what the watcher puts together from old notices may be any path (`AnyPath`), on disk or
not.  `mark` is the kernel's watch of an inode, `kq` its queue; `byWd` and `byPath` are
the two maps of tree.go.  A watch belongs to an inode and the registry to a path; users
rename while notices with old names are queued.  `job[0]` is the read loop, busy with
one notice until its walk (`WalkWatch`, `WalkRegister`, `WalkRead`, `WalkSkip`) and its
scan (`ScanVisit`) are over; `job[c]` is the goroutine of the expired half rename with
cookie `c`.  Every directory visited is a step, so users come in between.  `in.Add` and
`tree.add` (watcher.go:184, 191) are two: `WalkWatch` keeps the descriptor in `placed`
until `WalkRegister`, and in a timer's goroutine the read loop may handle the
directory's removal before that.  `WalkAdd` is both at once, for the loop's own walk
while nobody else could touch the registry (`FilesOnly`): then what users do in between
is read later either way.  `view` replays the events into what they make of the other
side.  At `MaxWatches` `inotify_add_watch` fails, the walk ends (`blind`), and what is
below is not watched: docs/INSTALACAO.md:309-312 announces this, so `Announced` is not
claimed from then on, but `Registry` and `Watched` are: no directory is taken for
another one.

### TreeSync
Directories `d`, files `<<d, x>>`, versions ordered by age.  `job` is what the worker
(or, in a barrier, the loop: `job.scope`) is doing, one step per system call on a
directory or write to the db: `Mkdir`, `CopyOne`..., `Note`, `WalkA`, `WalkB` are
propagateDir with recordSubtree; `Inspect`, `MoveAside`, `RmTree`, `Unrecord` are
removeDir and the rows; `MoveDir`, `Renote` are propagateMove; `StartResync`, `Scan`,
`Reconcile...` are reconcile over its snapshot.  `kept` are the `.sync-conflict-`
copies, which the matcher excludes, `aside` the directories removeDir preserves.
`Guarded` is the expectation on the subtree the operation writes; `Leak` is an echo
that comes after ForgetSubtree.

### The users' distance
SyncPair (`Pace`), WatchTree and TreeSync (`Hurry`) say how near to the daemon users
act.  With `Hurry = {}` they still act while other paths are being handled, on both
sides, and while their own events are pending; each member of `Hurries` lifts one
restriction, and section 3 shows what the code does then.  `moves` and `again` of
WatchTree are restrictions that `watch_tree` lifts: they are what `WatchesAll` and
`AnnouncesAll` (section 4) keep.  In `watch_tree` a watcher at rest holds users back from
nothing but a rename over an empty directory (`replace`).

### Abstractions to keep in mind
* Stamps are distinguishable: edits within `Unchanged`'s one-second tolerance that
  keep the size are not modelled.  Sampled digests are not modelled.
* Statements on the database do not fail; the digests of a reconciliation count as
  read by its walk; the send on `e.failed` and the `inflight.Done` after it are one
  step; the `status` column's updates are left out, since no decision reads them.
* A preserved copy has a name of its own (names have a resolution of one second).
* `a-wins` and `b-wins` discard the other side's version by policy: `NoSilentLoss`
  is not claimed for them, and no run uses them.
* In Resolutions nobody deletes files.  resolve.go:84-89 accepts that events are ignored
  while the guard covers the path; it does not speak of an edit that is overwritten.
  `UsersWait` excludes both, and is a hypothesis of two theorems.

## 3. The runs

Passing runs:

| Run | Bounds | What it shows |
|---|---|---|
| `debounce` | 1 side, 2 paths, 3 pushes, channel of 1, Moves, shutdown by a signal | types; no send on the closed channel; the last event of a key is never lost before shutdown; every event is delivered; Close returns |
| `loop_safety` | 2 workers, 3 paths in 2 subtrees, renames, 3 events, 1 failure, 1 outside resync | types; barriers are exclusive; subtree order |
| `loop_live` | 2 workers, 2 events, 3 failures, room for 2 | an event that is not applied is in a channel, a hand, the retry queue or covered by a resync; a cancellation ends the process, full channels or not; until `e.failed` is full every event is applied, and a dead watcher ends the process unless Close is stuck behind a Move |
| `pair_edits` | 3 versions, both sides, each of the three policies, 1 crash or overflow | sides converge; baseline true; newer-wins keeps the last write; preserve and manual lose no version |
| `pair_deletes` | 4 operations on A, touches when all is quiet | writes, deletions and touches converge; a deletion removes nothing that was not synchronised |
| `pair_late` | 2 versions, any expectation may expire, 1 failed copy, 2 attempts | the retry repairs a torn destination; no ping-pong of contents without layer 1 |
| `pair_race` | 3 versions of A written at any moment, each policy, at most three echoes, 1 crash or overflow | an origin that changes inside a handler or after the scan still converges, and the baseline is true |
| `resol` | 2 commands and the daemon, 3 versions (2 beside each other), 1 fault, also a file on one side only; users wait | no user's version is lost; every request is answered; a choice resolved alone stays and the conflict stays closed |
| `watch_tree` | 7 paths (4 levels), 4 operations, 4 watches, timers that expire before the other half is read, stop | what byPath says leads back; at rest every directory is watched and nothing else; everything that exists was announced, nothing else; the watcher catches up; losing the root is fatal |
| `tree_sync` | 2 directories with a file each, 3 versions, 5 operations on both sides, 1 crash | no version is lost; trees and rows converge; nothing deleted comes back; the machinery comes to rest |

Why these bounds are enough: the hazards need at most two slots or two paths (a
rename), two workers (one of them ahead), a channel that is full with one element,
and one fault at a chosen step; three versions are a baseline and an edit on each
side.  A retry that is given up needs two failures, a full `e.failed` of two one more.
`loop_live` gives up at the second failure that meets a pending item (`RetryMax = 2`) and
covers it with a resync; with more attempts its properties hold for two failures, and
`loop_retry_older` below is what a third one does.
Larger values of each bound repeat these shapes.  A directory that is overtaken needs
a second one to be renamed to or from, and one level below it to be stale; four
operations are make, fill, move, make again.  `tree_sync` was also explored with 6
operations (3.5 million states) and with one directory of two files, `watch_tree`
without the limit and with 5 operations (5.2 million), without new outcomes.  Its
bounds are not enough for one thing: `again`, the last of "Where the passing runs
stop", breaks `Watched` at the eighth operation.

Two runs end in a violation, and `PROJECT.json` quotes the line each contradicts:

| Run | What happens |
|---|---|
| `pair_swallowed` | rsync causes two events, three were announced: the third claims a user's edit |
| `watch_overflow` | the notice of a new directory is lost; the resync copies the directory but nobody watches it, and what is put into it later is never announced |

### Where the passing runs stop

A passing run that holds users at a distance (`Pace`, one writer, no touch beside a
write, no chmod, `UsersWait`, `Hurry`) or rsync to its announced echoes does so because the
step beyond it fails.  One more
configuration for each of these boundaries stands beside the runs; TLC finds the
counterexample under it in seconds (`tlc -config pair_racing.cfg MCSyncPair`).

| Configuration | Breaks | What the code does |
|---|---|---|
| `debounce_fatal_move` | `CloseReturns` | fatal path, full channel: Push holds the lock over the send of a Move, Close waits for the lock (debounce.go:84) |
| `loop_stuck` | `AlwaysRetried` | the loop waits for a worker, the worker for room in `e.failed`, which the loop empties (engine.go:235) |
| `debounce_move_order` | `MoveSupersedesPending` | an already fired timer's event follows the Move that was to invalidate it (debounce.go:77-82) |
| `loop_lost_rename` | `NothingForgotten` | an edit of the new name drops the retry of the rename; the old name stays (engine.go:222-224) |
| `loop_resync_error` | `NothingForgotten` | a resync that fails is not requested again (engine.go:236) |
| `loop_retry_older` | `NothingForgotten` | with 8 attempts, the default, and three failures: such an older event is dispatched behind the newer one, both fail, and the older, reported last, takes the newer one's place in the queue (retry.go:68).  With `RetryIsNewest` for the invariant it ends at the first stale retry: a failure still in `e.failed` is queued after a newer event of its path |
| `pair_attrib_hides` | `Converged` | write then touch in one window: ATTRIB wins, the content is not copied (debounce.go:141).  With `RetryMax = 1`, `Expiry = TRUE` and `Settles` for the property: after that layer 2 never applies, and ATTRIB echoes bounce for ever (engine.go:392) |
| `pair_chmod` | `Converged` | a chmod alone: size and mtime are as recorded, so alreadySynced drops the event (engine.go:387, hash.go:152) and the mode stays different until a full resync, although event.go:50 and docs/DECISOES-ABERTAS.md:148-152 have modes synchronised.  With `UserOps = {"touch"}` and `Pace = "racing"`: a touch between scan and recordPair is recorded as synchronised (resync.go:553) |
| `pair_delete_edit` | `NoSilentLoss` | a deletion removes an unsynchronised edit of the other side (engine.go:467) |
| `pair_stale_delete` | `Converged` | a DELETE is applied although its file is back (engine.go:345) |
| `pair_stale_rows` | `NoSilentLoss` | crash between Remove and its rows: a later file is deleted at boot (engine.go:468) |
| `pair_torn_back` | `TornStaysLocal` | a half-written destination is copied back over the origin (engine.go:413) |
| `pair_resync_fails` | `Converged` | a copy that fails inside a reconciliation is retried by nobody (resync.go:213) |
| `pair_retry_forever` | `Settles` | attempts are forgotten at each retry: never given up (retry.go:107) |
| `pair_racing` | `NoSilentLoss` | an edit between detectConflict and rsync is overwritten (engine.go:400) |
| `resol_changed_mind` | `RequestHonoured` | a request that replaces the one being applied is closed with it (state.go:530) |
| `resol_cli_beside` | `CliAlone` | during the first sync the heartbeat is old: the command writes beside the daemon (conflicts.go:157) |
| `resol_edit` | `NothingLost` | an edit of the losing side between preserveLoser and the copy is overwritten (resolve.go:95-120) |
| `resol_both` | `BothOnBoth` | the guard swallows the events of the copy that `both` wants synchronised (resolve.go:174) |
| `watch_rename` | `Watched` | `mkdir a; mv a b` before the creation is read: the walk finds no `a`, renameSubtree finds nothing registered to rename, and `b` is never watched (tree.go:82, watcher.go:325) |
| `watch_reuse` | `Announced` | the orphan timer of a directory that left announces its removal, and drops watches, after a new one of that name was announced (watcher.go:366) |
| `watch_replace` | `Watched` | a rename over an empty directory: the late DELETE_SELF of the replaced one is taken for its successor's (watcher.go:276) |
| `watch_scan` | `Announced` | `mkdir a`; with `a` just read by its walk, `mkdir a/c` and a file `a/c/f`: the rescan of `a` announces what is in `a/c`, which nobody watches before its own creation is read; `rm a/c/f` until then is told by nobody, and the file stays in the view (watcher.go:386); a full resync finds such files too |
| `watch_walk` | `Watched` | a directory is moved in and its timer's goroutine places the watch; the directory is removed, the loop reads its IGNORED and the parent's DELETE, and only then the goroutine registers it: the entry stays (watcher.go:184, 191) |
| `watch_stop` | `NoSendOnClosed` | the timer of a half rename sends on the closed `w.out` after the read loop returned (watcher.go:353) |

`pair_race` stops at the same places: with a fourth echo of an rsync that creates the file
(`EchoNew <- RsyncNew`), with expectations that expire, deletions, copies that fail, or
users on both sides, its properties fail.

The members of `Hurries` in TreeSync are reproduced by adding them to `Hurry` in
`tree_sync.cfg`, one at a time:

| `Hurry` | Breaks | What the code does |
|---|---|---|
| `stale` | `NothingLost` | a copy whose source is gone fails after its MkdirAll: the empty directory it left is an unclaimed creation and overwrites or revives (transfer.go:89-95) |
| `race` | `NothingLost` | changes on both sides of one directory cross: the whole-tree copy or removal of one does not look at the other's (delete.go:33, engine.go:438) |
| `busy` | `Converged` | users change the directory between two steps of the operation; the subtree expectation claims their events (guard.go:179-192) |
| `late` | `Settles` | an echo after ForgetSubtree is taken for a user's: a creation is propagated backwards, a rename is done again (a directory is never `alreadySynced`), and two of them chase each other for as long as echoes come late (engine.go:422, 478) |
| `kept` | `NothingLost` | `.sync-conflict-` copies in the removed directory are destroyed: unsyncedUnder skips excluded names (delete.go:99), although docs/INSTALACAO.md:410 says of such a copy 'Nada se perde' |
| `half` | `NothingLost` | CopyTree overwrites and recordSubtree records files only the destination has; the deletions of `rm -r` then remove what was never synchronised |
| `order` | `StaysDead` | a file's event before its directory's creates the directory and records the file only; a DELETE pending below a renamed directory keeps the old path (transfer.go:89) |
| `torn` | `Converged` | a crash between RmTree and its rows, or Move and its rows (engine.go:461, 517) |
| `behind` | `Converged` | a resync overtakes pending deletions and renames, which are believed afterwards without a look at the source (engine.go:345) |

With two crashes (`MaxCrashes = 2`, `MaxOps = 3`, `MaxVersion = 1`) `StaysDead` fails as
well: after the first, a directory exists on both sides and reconcileBothSides records
nothing about it (resync.go:513); removed while the service is down the second time, it
looks new to the next first sync, which brings it and its files back.

`Watched` and `Announced` hold in `watch_tree` with `again`, that is with a directory
made while there still is news of an earlier one of its name, because it ends at four
operations.  `tree.add` gives a path a new descriptor and leaves the old one in `byWd`
(tree.go:33-36), an alias that `removeSubtree`, which looks through `byPath`, cannot reach
(tree.go:64-77).  `mkdir a`, `mkdir a/c` while `a` is walked, remove both, and make both
again: the walk that still has the old `c` on its list watches the new one, which is then
removed and made a third time.  Two DELETE_SELF for `a/c` come after that, and the second
announces the removal of the directory that is there, and drops its watch
(watcher.go:276-287).  `watch_replace.cfg` shows it in seconds with
`Paths <- Chain`, `Hurry = {"again"}`, `MaxInodes = 3`, `MaxWd = 8` and `MaxOps = 8`; with
7 operations on these three paths it holds.  By `WatchesAll`, what breaks `Watched` always
takes such a directory, or one that is moved, or a notice that is lost.

The attempts count has effect only with `retry_max_attempts` 0 or 1, by the same line as
`pair_retry_forever`.

Every property of a passing run has a mutant: a definition with a plausible bug
(`ClaimsAlways`, `DispatchUncounted`, `KeptNothing`, ...) under which the run fails.

### Fairness
* Goroutines that can run do run: weak fairness of their steps.
* Go's select chooses at random among ready cases, so a branch that is ready again
  and again is taken: strong fairness of the loop's branches (`HandleFailure`,
  `Exit`, `StartBarrier("resync")`, `StartResync`, `Heartbeat`).
* Go's mutex is starvation-free: strong fairness of the takers of `d.mu`.
* Windows and backoffs end: weak fairness of `TimerFires` (the debouncer's, and the
  half rename's in WatchTree), `Release`, `RetryDue`.
* The read loop, each walk and the engine's answer to an overflow go on (WatchTree);
  the worker takes what there is and a reconciliation goes on (TreeSync's `Daemon`).
* systemd restarts the service (`Restart=`): weak fairness of `Boot`.
* Users, faults, renames, the sweep and operators owe nothing.

## 4. What is proved

`Debounce_proofs`, for every number of sides, paths and pushes and every capacity,
from `ConstantsAssumption`:

* `TypeCorrect`: `Spec => []TypeOK`.
* `NoPanicOnClose`: `Spec => []NoSendOnClosed`.  The inductive invariant `CloseInv`
  states the three ordered steps of Close: once it had the lock (`closed`) no Move is
  being emitted, and the channel is closed only with no emission registered.
* `NothingDropped`: `Spec => []NoEventDropped`.  `OwedInv` adds that the slot of a key
  holds an event of that key; the step that matters is `Callback`, which hands over the
  slot's event only if the slot is still its own.
* `ImplementsMailbox`: `Spec => IsMailbox`, the refinement `debounce` checks.  A step of
  Debounce is a step of the mailbox only if what is held changes by exactly one event;
  since `held` is a set of three sources, that needs `MailInv`: events are numbered as
  pushed (so a new one differs from all held ones), a slot holds an event of its own
  key, never a Move, and never one a callback already took; nothing is in a slot after
  `CloseLocked`.  `PushAccepts` and `PushMoveAccepts` are the steps that accept,
  `StepMaps` goes through the others.

`EngineLoop_proofs`, for any number of workers, paths, events and failures, any
partition and any capacity, from `LoopAssumption`:

* `TypeCorrect`: `Spec => []TypeOK`.  Most of it is `TypeInv` (who is inside an
  operation has an event in hand); that `inflight` stays a natural number, which Go
  enforces with a panic, needs the counting invariant below.
* `ExclusiveBarrier`: `Spec => []BarrierExclusive`.  `Counted` says that `inflight` is
  the number of events in channels and in workers' hands, plus the one the loop has
  announced and not sent yet; `Alone`, that it is zero while the loop works behind a
  barrier.  `WorkArrives`, `WorkMoves` and `WorkLeaves` are the three ways work changes;
  the step that matters is `Dispatch`, which raises the counter before the send.

* `KeepsOrder`: `Spec => InOrder`.  `Orders` says why one worker per subtree is
  enough: the fresh events in a worker's channel are numbered upwards and all newer
  than the last it has begun, the one in the loop's hand is the newest received, and a
  rename between subtrees is carried out behind a barrier, with the channels empty.
* `ForgetsOnlyByOverwriting`: `Spec /\ [][~Overwrites]_vars => []NothingForgotten`, for
  every `RetryMax`.  It assumes `Direct`: no renames and no resync that fails, each of
  which forgets an event (`loop_lost_rename`, `loop_resync_error`).  `Overwrites` is
  one step: `handleFailure` puts an older event's retry in the place of a newer one's.
  The default is eight attempts, so for the code as it is delivered the theorem says
  what is left to fear, and `loop_retry_older` shows that it happens.
  `RetryInv` is the argument: no event on its way is newer than what is owed to its
  path (`Straight`), a retry is filed under its path and has been tried (`RetryFiled`),
  and the newest unapplied event of a path is somewhere (`OwedKept`).  A receipt drops
  the path's retry only since what it brings is newer; a second failure gives up only
  since it asks for a resync; a resync covers what is owed, since it runs behind the
  barrier (`JobEnds`) and reads the disk.

`Resolutions_proofs`, for any number of commands, versions and faults, with or
without commands beside the daemon and each other, from `ResolutionsAssumption`, and the
last two from `UsersWait`:

* `TypeCorrect`: `Spec => []TypeOK`.
* `LosesNothing`: `Spec => NothingLost`.  `Covered` says that whoever is about to copy
  overwrites something spare (nothing, a torn file, or a version that is kept) or equal
  to what replaces it, and that when two copy in opposite directions both sides are
  spare: otherwise the first, failing half-way, would destroy one copy of a version and
  the second the other.  No lock between the processes is needed for it.
* `ResolutionStands`: `Spec => []Stands`.  While no two write at once (`Alone`: a command
  applies only while the daemon is down, and alone), whoever is past the copy finds the
  two sides equal (`Stages`), so recordPair records what was chosen; from then on
  (`Settled`) rows, both sides and the inventory of a reconciliation are that version,
  and every handler, late event and restart finds nothing to do, until a user writes.

`SyncPair_proofs`, from `PairAssumption`:

* `TypeCorrect`: `Spec => []TypeOK`, for every pace, fault and echo.
* Four theorems assume `Calm`: users only write, at the pace *apart*, the first sync
  is a union, faults are crashes and overflows, and rsync's echoes hold no DELETE.
  They hold for any number of versions and faults, any `RetryMax`, any echoes of any
  length and with expectations that expire; `pair_edits` is an instance of `Calm`.

  - `LosesNothing`: `Spec => NoSilentLoss`.  `CalmInv` is the argument: a recorded
    version is one both sides had (`Rows`), so a destination that still has its
    recorded stamp holds nothing new, and what the worker found out about the file in
    hand is still true when it writes (`Found`).  The step that matters is `Detect`.
  - `Converges`: `Spec => []Converged`, and `BaselineHolds`: `Spec => []BaselineTrue`.
    At rest nothing is carried; so it has to be shown that a side that has left its
    record is always carried by somebody (`Pending`): by a notice, a slot, a channel,
    the worker, the failures, the retry queue, or else a reconciliation is due
    (`Reconciled`).  `Decide` may drop the event of a side that equals its record only
    since that side needs none (`Inhand`); `HandleFailure` may give up only since it
    asks for a resync.  Equal files are recorded before the engine rests (`Settling`),
    and a resync, whose failures nobody retries, never meets one (`Present`): that is
    where faults of its copies would break the proof, as `pair_resync_fails` shows.
  - `LastWins`: `Spec => []LastWriteWins`: no copy goes from an older version to a
    newer one (`Forward`), since the rows only lag behind the disk (`Grown`).

`WatchTree_proofs`, for every finite tree of paths, any number of inodes, watches,
descriptors and operations, and every `Hurry`, from `ConstantsAssumption`:

* `TypeCorrect`: `Spec => []TypeOK`, and `RegistryHolds`: `Spec => []Registry`, from one
  inductive invariant `Inv`.  What was hard is arithmetic on paths: `renameSubtree` puts
  the new name before what follows the old one, for every registered path at once, and
  every path leads back afterwards since that is injective on the paths below the old name.
  What was registered under the new name is overwritten and keeps its entry in `byWd`: the
  theorem is about one direction only, no two paths share a descriptor, and says nothing
  of aliases and stale names in the other.  `DiskOK` adds that
  whatever exists is in a directory; `WorkOK`, that a walk that reads has a directory to
  read.
* `WatchesAll`: `Spec => []Watched`, for users who make and remove directories in any
  order, and write, move and remove files, at any distance from the watcher, with late
  timers, resyncs at any time, a table of watches that is full, and stops.  Its
  hypothesis excludes `again` and `overflow`, with which it is false, and `moves`, with
  which it is false too once users are in a hurry (`watch_rename`, `watch_replace`).
  `Watched` is about a watcher at rest and says nothing before; `Sound` says what is on
  its way instead. A directory that is not watched is `Called` (its creation is queued,
  or that of a directory above it) or `Walked` (a walk has it, or one above it, on its
  list), unless the limit was met (`Reached`).  A path that is registered but gone has
  its DELETE_SELF queued or in hand (`Entries`, `Removed`), and the loss of the root is
  raised or about to be (`RootKept`).  What makes that inductive is again what may *not*
  be under way: no removal is reported of a directory that exists (`Notices`), so
  `Unwatch` never drops a watch that is in use (`NothingToDrop`), nor do the half
  renames, which are files' (`FileTasks`) and leave the walks to the loop
  (`NoHalfWalk`). Since a walk registers a directory by its path while a notice means an
  inode, `Places` and `Marks` keep the two together.
* `AnnouncesAll`: `Spec => []Announced`, for the same users, with two more hypotheses, each
  with a configuration that shows what happens without it: no name is taken again while
  the watcher holds half a rename of it (`watch_reuse`, which fails with renames of files
  alone too: `Paths <- Tree`, `Hurry = {"reuse"}`, `MaxOps = 5`), and nothing goes that was
  found before its directory was watched (`watch_scan`).  Notices about files may be lost to an
  overflow.  `Reported` follows every event to what it adds to the view.  What exists and
  is not in the view is `Rising` (its creation or that of a directory above it is queued,
  waits as half a rename, or is in the hand of a walk, a scan or a timer), what is in the
  view and gone is `Falling`, or else a full resync `Rereads` the disk (`Untold`,
  `Ghosts`).  Events come late, so most of `Reported` says what may still be announced
  wrongly.  A deletion that is read after its file is back takes the new file out of the
  view, and a rename whose target is gone again puts a ghost into it: both are told again
  behind it, in the same directory (`Back`, `Away`), up to the moment of the event
  (`Latest`).  The half that left is queued before the half that arrived, and its old name stays
  free (`Ordered`, `Left`, `InHalves`, `InTimers`), so the pair takes nothing from the
  view that exists.  What `IGNORED` makes the registry forget was heard to be gone before
  (`Parted`): no news of an existing path is lost with a descriptor.

`TreeSync_proofs`, for any directories, names, versions and crashes and every `Hurry`,
from `TreeAssumption`:

* `TypeCorrect`: `Spec => []TypeOK`.  The part that is not about types is that a file is
  always in a directory that exists, which needs `JobOK`: an operation copies only files
  of its own directory, and only directories are renamed.

`TreeSync_versions`, for any directories, names, versions and crashes, from
`TreeAssumption` and `Unhurried`: users make directories and write and delete files, and
neither `race` nor `busy` is in `Hurry` (the other seven may be, `torn` and `late` with
them):

* `KeepsVersions`: `Spec => []NothingLost`.  What the engine overwrites without a copy
  beside it must be dead or on the other side.  `Twin` says so of one file, and
  `VersionInv` says where it has to hold before it is needed: of a recorded version that
  is going to be overwritten as known (`Blame`), of what a deletion on its way is about
  (`Departure`), of every file of a directory that is going to be copied over its twin,
  from the event on and even if the event is an echo that came too late (`Arrival`,
  `Copied`), and of what a reconciliation has planned (`Planned`: nothing of it has
  changed since the scan).  That part does not depend on what users do to directories.
* `KeepsConverged`: `Spec => []Converged`, and `KeepsDead`: `Spec => []StaysDead`.  Both
  are about the engine at rest and say nothing before, so they are far from inductive.
  `AgreeInv` says where every path is on its way there (`Accounted`): it is `Agreed`; or
  one side `Leads`, having changed what both had recorded; or both gave a new file the
  name (`Rivals`); or a walk has recorded the only copy (`HalfKnown`); or a copy is still
  to be recorded (`Unrecorded`).  In all but the first something is under way for it
  (`Told`, `InWork`): its own event, that of its directory, or a reconciliation (`Due`).
  `DirKnown` says the same of directories.  At rest nothing is under way and only
  `Agreed` is left, which includes that no dead version is there.

  What makes it inductive is what may *not* be under way.  Where `s` leads, the other side
  has no deletion and no copy coming: either would put an old version over the new one,
  by an event that tells of the past.  A deletion that is believed without a look is
  harmless since a file that is back is heard of again behind it (`Rewritten`); what a
  copy has yet to record still has its file (`JobReady`); events and rows have a directory
  to be in (`Placed`); equal versions are the same file (`Origins`, so a deletion is never
  mistaken for an edit that went back); and a crash leaves no event behind (`Silent`), so
  the scan that follows it is about everything.  A path of the plan leaves it only agreed,
  told of, or with the whole plan to be made again.

  With removals both fail after a second crash ("Where the passing runs stop"), so there
  is no such theorem for every number of crashes.  What `order`, `torn`, `behind` and the
  others do to a removal or a rename, they do not do to users without either.

`TreeSync_removals`, for any directories, names, versions and crashes, from
`TreeAssumption` and `Careful`: users also remove directories, and `Hurry` has at most
`order` (windows of a directory and of its files close in any order):

* `KeepsVersionsRemoved`: `Spec => []NothingLost`.  A removal destroys a tree, and
  decides what may go by rows read two steps earlier.  `Removals` says of every
  directory that is `Gone` from a side (its deletion is on its way, at work, or what the
  next reconciliation concludes from a row without a directory) that the other side has
  nothing to lose: what is recorded there is dead or here too, what is not will be set
  aside.  `Inspected` carries that from the inspection to the removal, `Undisturbed` and
  `CaughtUp` keep new deletions out of what the engine works on, and `EventInv` orders
  the events so that news of a directory never comes after its deletion.  Removals that
  come while the engine works on the directory or its twin has news are the `busy` and
  `race` of "Where the passing runs stop"; renames are left to the run.

Only model-checked: all liveness (the prover has neither fairness nor ENABLED);
of WatchTree, `Watched` and `Announced` when directories are moved, which brings in the
pairing of their halves and the renaming of the registry, or, for as long as they hold,
made again while there is news of them; of TreeSync, `Converged` and `StaysDead` when users
remove or rename directories, where they hold for at most one crash, and `NothingLost`
when users rename them;
and what SyncPair does outside `Calm`: deletions, touches, copies that fail, and edits
that race the engine.

## 5. Not modelled, and the plan

Not modelled, and why:

* *Migrations* run once, alone, before anything else starts.  What a model would show
  can be read off: a statement of migrations.go and `user_version` are not one
  transaction, `RENAME COLUMN` and `ADD COLUMN` cannot be repeated, so a crash between
  them (migrations.go:70-80) leaves a database that Open refuses until it is repaired.
* *Configuration, logging, status, listings, preflight*: no state the properties are
  about.  `backoff`, `partition`, `Compare` and `Unchanged` are pure functions with unit
  tests; their results appear as constants or equalities.
* *Type conflicts* (a file on one side, a directory on the other), attributes of
  directories, `dir_delete_policy: force`, renames of single files (propagateMove of a
  file), unmount notices, excluded names in the watcher, nested directories in TreeSync.
* *Sampled digests* and the one-second tolerance: contents and stamps differ if written
  twice.

| Next | What | What it is to say |
|---|---|---|
| 1 | propagateMove of files in `SyncPair` or `TreeSync` | renames racing edits of either name |
| 2 | `TwoWaySync` | what the service promises for one path, as an abstract specification that SyncPair implements under `Calm` |
| 3 | stamps with a resolution in `SyncPair` | what the one-second tolerance hides |
| 4 | `Migrate` | daemon and command line opening the database at the same time |
| 5 | `TreeSync_removals`, with users who rename directories | `NothingLost`: what a rename on the other side carries along, and what it leaves behind when it falls back to a reconciliation |

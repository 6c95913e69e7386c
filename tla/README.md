# A verification of CodeCompass

CodeCompass keeps a search index of a source tree beside the tree and serves it
to coding agents. Several processes share one cache directory: MCP sessions
(`CodeCompass.Mcp`), `codecompass watch`, and terminal commands
(`CodeCompass.Cli`). This project models the parts whose correctness depends on
orders nobody can write tests for: what a process leaves on disk when it dies,
what others conclude from it, what a file's timestamp may vouch for, and how a
change of the tree finds its way into the index.

Paths below are relative to the repository (`src/CodeCompass.*`). `PROJECT.json`
holds the map from every definition to its lines of code, the runs, the mutants
that show each property can fail, the hazards and the findings.

## 1. The system

| Component | State it keeps | Operations | Correct when |
|---|---|---|---|
| Change ledger (`DiskSnapshot`, `SnapshotBaseFile`) | memory-mapped base, journal, tombstones, manifest; an overlay in memory | set, remove, save, compact, write a whole ledger, load, migrate the old JSON file | what loads after a crash is what was committed; all readers agree; no base in use is overwritten |
| Ledger trust (`LedgerTrust`) | the sign of an entry's modified time, `hashedAt`, the ledger's time of writing | first look, second look, judgement of a listing | an update skips a file only if it holds the bytes that were hashed |
| Text index (`SegmentedIndex`, `SegmentMerger`) | segments, tombstones, a lazy path map, the buffer, manifest, tombstone file | set and remove a document, flush, save, compact, build, load, recover without a manifest | one live copy of a path; removals hit the right document; a crash loses nothing committed |
| Symbol index (`SegmentedSymbolIndex`) | the same, of symbols | the same | the same |
| Write lock and generation (`IndexWriteLock`) | one lock file, a depth, four flags, the generation file with two tokens | acquire, nest, commit, skip, sources unchanged, dispose | every write is published; no session keeps an old index or an old C# model |
| Write operations (`RepositoryIndexer`) | none of its own: index, ledger, meta | build, update, live batch, prune, compact, load | the ledger claims only what the index holds; nothing is reverted |
| MCP session (`ServerContext`) | loaded index, cached ledger, generation, state, queue of captured edits, hold and retry, role, watcher, C# model | load, reload, batch, drain, reconcile, rebuild, re-point, take the role over, shut down | serves what is on disk; no edit of the tree is lost; no deadlock of its gates |
| File watcher (`RepositoryWatcher`) | queue of changed paths, overflow, timer, flush gate, the system's watcher | event handlers, error handler, restart, flush, dispose | every change is handed on, once watching; no flush after Dispose |
| Directory walk (`FileWalker`) | queue of folders, counter of outstanding folders, bounded output | serial and parallel walk, leaving early | every folder is walked or counted as dropped; no hang |
| Full build (`RepositoryIndexer.BuildLocked`) | pooled workers with their buffers, segment counters, the files written | walk, index, flush, merge, publish, clean up | every file is indexed once or known to be missing; an interrupted build leaves the old index or the new |
| Byte budget (`ByteBudget`) | bytes available, two tickets | acquire, release | never over budget, first come first served, no starvation |
| Live-watch role (`WriteOwnership`) | an exclusive handle | take, release | one holder |
| Linked roots (`ServerContext`, `LinkStore`, `LinkManager`) | `links.json`; the linked roots of a session, each an object with loaded index, generation, watcher, role, reconcile, held-back edits | link, unlink, purge, load, reload, batch, reconcile, retry, take over, give up | as for the session; nothing goes on for a root that was let go of; no deadlock of the four locks |
| Sidecars (`PositionalSidecar`, `SidecarCache`, `LargeFileIndexer`) | block filters on disk, a bounded cache of them | write, open, evict | no candidate block is missed; no use after eviction |
| C# semantics (`RoslynCSharpAnalyzer`, `ReferenceMerge`) | a model, its sources token | build, update in place, evict, merge | never older than the sources it is labelled with |
| Ignore rules, configuration, symbol extraction, text helpers, diagnostics, MCP tools, hooks | none or settings | pure functions and formatting | by example tests |

**How they meet.** A change of the tree raises an event; the watcher records it,
debounces it and hands a batch to `ServerContext.OnChanges` (or to the CLI's
watch). The consumer takes `BuildGate`, then the cache's `IndexWriteLock`, then
the session's reader-writer lock; reloads the index if another process moved the
generation; applies the batch (`RepositoryIndexer.ApplyChanges`), which asks
`LedgerTrust` what to record; saves text index, symbols, then ledger; and commits
a new generation. Other sessions compare generations on each query and reload.
When edits cannot be applied (a build is under way, the index does not load) they
wait in the session's queue.

**What is hard.** Crashes between disk steps, in six files with three commit
points. Readers that hold mapped files while writers replace them. A nested hold
of the lock that speaks for the outer one. Processes that die between saving and
publishing. Time: coarse stamps, other machines' clocks, tools that set dates.
Callbacks on pool threads, a timer, a single-flight flush and a Dispose that must
be a barrier. Unreadable files and folders that must not look like deletions. A walk whose
end is a counter that many threads move, and a build that can stop at any of its steps.

## 2. Modules

| Module | Models | Stands on |
|---|---|---|
| `NumberedFiles` | `AtomicFile.NextNumber` | - |
| `PathLedger` | what the ledger promises: a map of paths to file states, edited in memory and committed in one step | - |
| `DiskSnapshot` | how base, journal, tombstones, overlay and manifest keep that promise, with one writer and crashes | `NumberedFiles`, `PathLedger` (refinement) |
| `DocumentMap` | what the text index promises: a map of paths to contents, edited in memory and committed in one step | - |
| `SegmentedIndex` | how segments, tombstones, buffer, path map and manifest keep that promise | `NumberedFiles`, `DocumentMap` (refinement) |
| `SegmentedIndexProofs` | theorems on the text index, and that it implements the map | `SegmentedIndex` |
| `IndexWriteLock` | the lock's nested holds, its flags, the two tokens, the sessions that compare them | - |
| `IndexWriteLockProofs` | theorems on the lock | `IndexWriteLock` |
| `SharedCache` | sessions, watches and commands on one cache, over the promises of the three above | (their abstractions) |
| `SharedCacheProofs` | theorems on the shared cache | `SharedCache` |
| `LedgerTrust` | one file, its stamps, its entry, and who reads it when | - |
| `LedgerProofs` | theorems on the ledger, that it implements the map, its numbering, and trust | `DiskSnapshot`, `LedgerTrust` |
| `RepositoryWatcher` | events, queue, timer, flush, restart, Dispose | - |
| `RepositoryWatcherProofs` | theorems on the watcher | `RepositoryWatcher` |
| `LiveSession` | a session's batches, queue, hold, retry, drains, rebuilds, startup tasks, the takeover and the giving up of the role | (the promises of the watcher, the lock and `SharedCache`) |
| `LiveSessionProofs` | theorems on the session | `LiveSession` |
| `LinkedRoot` | one linked root of a session, from link to unlink and again: its batches, reconcile, retry, reloads, role | (the promises of the watcher, the lock and `SharedCache`) |
| `LinkedRootProofs` | theorems on a linked root | `LinkedRoot` |
| `DirectoryWalk` | the parallel walk of a tree, its threads, buffer and caller | - |
| `ByteBudget` | the gate on the bytes in memory: tickets, sleepers, pulses | - |
| `IndexBuild` | a full build, or the measuring of a tree, over the two above | `DirectoryWalk`, `ByteBudget` (composed) |
| `IndexBuildProofs` | theorems on the walk, the budget and the build | `IndexBuild`, `DirectoryWalk` |

`MC*.tla` and the `.cfg` files instantiate them.

### DiskSnapshot, PathLedger

State: the directory (`bases`, `journal`, `manifest`, `legacy`), the writer's
memory (its base, overlay and tombstones), the step of a save in progress, and
what was committed last. Each disk step of `Save`, `Compact` and `Write` is an action, so
`Crash` falls between any two. A delete may fail, a file may be found damaged
(`Faults`). Row layout, sorting and hash encoding are abstracted away: a base is
a function. A base whose name is taken again while mapped is what
`BasesAreImmutable` excludes. `ImplementsLedger` is the refinement: what a lookup in the open
ledger answers is `PathLedger`'s `view`, `saved` its `committed`. It is `certain` that an open finds the latter
when no journal has outlived its base and no file is damaged (`JournalFresh`, `BaseIntact`): that too is a
function of the files, and only a fold, a build's write or damage may end it.

### SegmentedIndex, DocumentMap

A document is a path and a content; trigrams and postings are functions of the
content and left out. The buffer is a sequence, segments are sequences,
tombstones sets of (segment, local id), the path map a function built lazily and
dropped after a merge. `ImplementsDocumentMap` is the refinement: what is live in
memory maps to `DocumentMap`'s memory, what the manifest's files say to its
disk. Removing a document flushes the buffer first exactly when the document is
in it, as the code does. Writing the buffer can fail in two places: the write throws and the
documents stay in it (`FlushFails`), or the segment is written, the buffer gone, and the new reader throws
(`FlushLoses`, `SegmentedIndex.cs:671-674`). The caller logs the second and goes on with an index whose path map promises
documents at the places the next buffer takes. Two ghosts follow it: `lost` of the open index, `short` of what is committed
from it, until the process ends or a build commits; `Sure` is the absence of these and of a recovery. No path is
live twice even then; `DocumentMap`'s view is in doubt (`Slip`).

### IndexWriteLock

One action per call of the class and per step of a session around it: the token
is read, then the index, then installed. Threads stand for the writers of all
processes (only one can hold the lock file; nesting is per thread). A holder may
die at any step; a token may fail to be written. `ApplyBatch` is a session's own batch: it reloads
first, saves from its own copy, and drops its C# model or updates it in place (`_csharpUpdatedInPlace`),
and then `TakeCommitted` takes the token with `AdoptSourcesToken`. What a hold may say of its
writes (`SkipBump`, `SourcesUnchanged`) is asked of this hold's own writes only, `dirty` and `dirtySources`: it
knows nothing of what an earlier holder left when it died. The properties name that as `left` and `untold`:
a hold ended without publishing what it wrote; sessions whose C# model misses such a change, and that no
new sources token has told so.

### SharedCache

The index and the ledger are maps here; the lock is `op # None`; the generation,
a GUID that is only compared, is the set of sessions whose `_loadedGen` is the
one on disk. Actions are the halves of an operation that a failure or another
process can separate: take the lock, reload and apply; save the index; save the
ledger; publish. Two ghosts name the exclusions of the properties: `stray`, paths
that a failed or killed save, or an unreadable file, left different on disk, in memory or from
the tree, until they agree again; `missed`, sessions whose generation is the one
on disk although a killed writer saved since. The violation runs state the
properties without these exclusions.

### LedgerTrust

One file and its entry. Our clock counts from `Start` to `End`; the file system
stamps by `clock`, any monotone function of ours that lags less than `Margin`
and whose ticks are shorter than `Settle`: exactly what the comments in
`LedgerTrust.cs` choose the margins for (`ClockAssumption`). A read
has a first stat, the bytes and a second stat, and the file may be written,
replaced or redated between them; a read under a write returns anything. Two
ghosts: `ahead`, a tool once dated the file beyond its file system's clock;
`redated`, a tool set its time since the entry's read began (where the handle
cannot tell).

### RepositoryWatcher

Real paths and folders, the events the system has raised and not handed on (handled in any order; they
may overflow), the handlers that record, the timer with its due time, callbacks already dispatched, the flush behind its
gate, and the three steps of Dispose. Time is a counter that only the debounce
and the max wait compare, kept relative so that the state space is finite. Ghosts:
`unseen`, changes that no batch or reconcile has covered yet; `blind`, those of
them made while the dead system watcher had not been replaced.

### LiveSession

What `ServerContext` does with a batch from its callback to the index. The queue is
a record (`_pendingPaths`, `_pendingReconcile`, `_holdWantsRebuild`, `_heldBack`,
`_unsurePaths`, `_unsureDue`); the other fields keep their names. A thread is idle,
or between two steps of `OnChanges`, `DrainPending`, `Rebuild` or a startup task
(`op`). What runs under the gate for long (a build, a merge, a walk, a prune) begins and
ends in steps of its own, so that edits, queries and other tasks fall in between;
what holds the gate and the lock briefly is one step. A round of a drain is one
action per way it can end. Other processes update, purge or replace the index while
the gate is free; loads, saves and builds fail at most `MaxFaults` times; a
share leaves paths unanswered.

What no lock covers has steps of its own. A batch that was not captured looks at the state
(`LookAtState`) before it waits for the gate, and is lost if that has just left "Ready". A query takes the role over
in four (`LookAtRole`, `TakeRole`, `StartWatcher`, `CatchUp`), and several may be at it; one that
had looked when a give-up was called is `overtaken`. A give-up is a record of what it captured at the call,
the watcher, the role or neither; its task releases that watcher, then that role, and whatever has taken
their place is left alone (`ReferenceEquals`): a capture is cleared in every record once what it names is gone.
Two give-ups with the same captures count as one.

The index is abstracted to `stale`, the paths whose last change it lacks, and the
watcher to `events` and `overflow`. Ghosts: `unreported`, the stale paths changed
while this session did not watch; `missed`, those changed since the running walk began (a walk
may have passed them); `dropped`, stale paths the code lets go of knowingly or in a
way section 4 lists; `spent`, a drain that ended early; `late`, a role taken by an overtaken query;
`crossed`, a give-up called between a query's taking of the role and its start of the watcher. A session is judged
only while it serves, can read the index, and holds a role that no task is about to release, with
nothing crossed (`Serving`).

`EditsAreKept` says that a change this session's watcher saw is in the index, or in
the hands of something that will apply it (`InHand`: the watcher, the batch in
progress, the queue with somebody due to look at it, a walk that has not missed it), or
every answer says that results may be stale; where walks run unasked it says the same of changes
made while nobody watched and of a batch that was lost. To violate it takes an edit, a capture
and a failure or another process's write, in an order nobody planned.

### LinkedRoot

A linked root is another tree whose index the session reads beside its own, and writes while it holds that
index's live-watch role. Its locks are apart here: `_linkedGate` (`life`, what its holder is
at), `BuildGate` (`GateFree`), the index's write lock inside it (`LockFree`, which other processes take as
well) and `Rw`, held for reading by a query (`reading`) and for writing within one step (`Unread`). Each link makes a
new object (`root[o]`), which threads may hold after its unlink: the watcher's callback, the load's
reconcile with what is chained to it, the retries of the one timer (`op`). They look the root up by its
path when they enter, and once more when they install, as the code does. The session's own root, and other linked
ones, are there as users of `BuildGate` (`OthersHold`) and of the timer (`OthersArm`).

A load, an update, a walk and their installs are steps of their own where others can come between: the generation is
read before the index is loaded, and written before the files are swapped. A teardown is three
waits (`StopWatching`, `CancelLoad`, `LetGo`) with everything else free to go on. An index is a state (there, gone,
or a newer CodeCompass's), the number of its contents, and its generation. Paths a share does not answer for, a
re-pointed session and the shutdown are left out. The second or more of the retry's delay is taken
to outlast the two steps from arming the timer to the end of the batch that armed it (`RetryFires`).

Ghosts: `stale`, the paths whose last change the index lacks; `dropped`, those of them the code lets go of
with a line in the log, or leaves in an object that was unlinked; `missed`, changed since the running walk
began; `passed`, a root's held-back edits were passed by by a timer armed for another root.

`SomebodyCanGoOn` is the absence of deadlock: whenever anybody is at work, holds a lock or waits for one, or for another
thread to end, somebody's guard holds (`SomebodyIsReady`) and some step of those at work (`Work`; not an edit, a tool or a
new query) can be taken.

### DirectoryWalk, ByteBudget, IndexBuild

`DirectoryWalk` has one action per step of a thread of `WalkParallel` that another can
see: taking a folder, reading it, counting a subfolder, queueing it, delivering a file, leaving
the folder, and ending; then the continuation after all threads and the caller's enumeration. An
attempt to list a folder succeeds, comes back empty, finds the folder gone or fails, and a share
tries again. Anything else that is thrown kills the thread (`Fault`). `lost`, a ghost, has the
folders that were taken for empty or gone: for these the code makes no claim.

`ByteBudget` splits `Acquire` at the monitor: a request takes a ticket, and is then awake,
asleep or granted. A pulse wakes the sleepers, who look again one at a time.

`IndexBuild` composes the two, as `INSTANCE`s on its own variables, with the loop over
the files: tasks that come and go, the pool of workers they use, a document's way into
the buffers, then into a segment, the ledger's share, the merge, and the two manifests and the
ledger that make the new index. A segment is the set of its files. `Cancel` is noticed where
the code looks; a failure is out of memory (the file is skipped and the build goes on) or
anything else (the build ends). A kill is no action: `StoppedIsOldOrNew` says of every state
what an open would load from it. Streamed large files go the way of the others with a
reservation of their own; positional sidecars are left out, since a search does without.
`Left` is a list of what a build has left to do, the weightiest first: its phases, folders to take up, what each
thread has in hand, files to hand out, requests for bytes, workers to merge.

## 3. Runs, bounds and what they show

| Run | Bounds | Distinct states | Shows |
|---|---|---|---|
| `ledger` | 2 paths, 2 states, bases 0-1, fold above 2 changes, all faults | 269 k | nothing committed is lost by any crash or damaged file; exact counts; immutable bases |
| `segments` | 2 paths, 2 contents, 3 segment numbers, a buffer of 1, failed writes, written segments that do not open, and a lost manifest | 727 k | one live copy, exact map and count, what loads is what was committed; the refinement of `DocumentMap` |
| `write_lock` | 2 threads, 1 reader, 4 tokens, nesting 2 | 258 k | every write published, no missed reload, no stale C# model |
| `shared` | a server, a watch and a terminal command, 2 paths, 1 text or none, any tree to start from, 2 edits, 1 fault | 1.4 M | no lost update, current sessions serve the disk, the ledger matches, the live index is fresh |
| `shared_skip` | as `shared` | violated | finding 1 |
| `ledger_trust` | 2 contents of one size, times 5 to 9, an old and a new date to start from, margin 3, settle 2, two clocks | 3.5 M | no update skips an edit; a trusted stamp is never given again |
| `watcher` | 1 path that is a file or folder, of an ordinary or an ignored type's name; debounce and max wait 1, a queue that may be full, one death | 4.7 M | nothing is left without a wakeup; Dispose is a barrier |
| `watcher_live` | fairness, files only, debounce 1, max wait 2 | 452 k | every change is delivered under an endless storm |
| `session` | 2 paths, 2 pool threads beside the watcher's, a query taking over, 2 rounds, a queue of at most 1 path, 2 edits with 1 external write and 1 fault, or 2 external writes with 1 edit or fault | 3.0 M | no edit is lost unsaid, unwatched changes are caught up with, what is held back is retried, the role is given back |
| `session_takeover` | 1 edit, no external write, no fault | violated | finding 2 |
| `linked` | 2 paths, 1 retry thread, linked at most twice, 2 changes of `links.json`, 2 of edits, others' writes and others' retries together, a hold of 1 path, 2 faults | 2.1 M | what is owned is watched, what is let go of is quiet and closed, no edit is lost unsaid, what is held back is retried, old handles are noticed, a given-up role is handed back, somebody can always go on |
| `build` | 3 folders, 3 files (one binary and larger than the budget), 2 threads each for walk and loop, an output of 1, 2 faults in the walk and 1 after it, an older index or none; with fairness | 505 k | no file is lost unsaid or indexed twice, the budget is kept, a cancelled build leaves nothing, a killed one the old index or the new, every build ends |

**Why the bounds are enough.** Two paths are what it takes for one operation to
be right about one file and wrong about another, and for a journal, a tombstone
or a segment index to name the wrong one; paths are otherwise independent in the
code. Two contents tell "old" from "new". Three segment numbers allow a merge of
two and a later one; two base numbers allow a fold over a mapped base. One fault
at a time is what the code promises to survive. In `IndexWriteLock` one reader suffices because sessions meet
only through the lock and the generation: readers do not read each other; the
proofs cover any number. In `LedgerTrust`, four ticks after `Start` hold a read, an edit in its
tick, a second look `Settle` later and an update after it, with a margin larger
than the settle time as in the code. In the watcher, one path suffices for what can happen to a change; the
rest of the tree is what fills the queue (`Fullness`); the debounce and the max wait only matter by
their order. In the session, two paths and a queue of one let the queue overflow into a
rebuild or not; two rounds instead of five let a drain use its rounds up; two pool threads
let a drain, a reconcile and a rebuild meet, with the watcher's own. One query suffices to be overtaken and
to be crossed, as what two do to one another is decided under the lock by whoever comes first (the proofs cover any number).
A fault with an edit and two writes passes as well (3.8 M) and is left out for its time.
In the shared cache so do two servers with a watch (6.5 M states), and two servers with a terminal command
(4.6 M). For a linked root, two links let the threads of the first meet
the second; two paths and a hold of one let the hold overflow into a rebuild; every step of the model is taken. One path with three events, two
links and one fault passes as well (6.0 M). In the build, two subfolders let one thread finish a folder while another is
still queueing its sibling, which is when a counter that closes the queue too early shows; an output of 1
is always full; a budget of 2 against files of 1, 2 and 4 bytes has a request that fits, one that must wait
and one that is clamped; two failures after the walk pass as well (0.9 M).

**Symmetry** is used only in runs of invariants and action properties, over sets
whose members are only compared.

**Deadlock** is checked in the runs of the ledger, the segments, the lock, the
shared cache, the session and the linked root. It is off for `LedgerTrust`, whose clock ends, for the watcher,
which is done once disposed, and for the build, which ends (`BuildEnds` says that it gets there).

**Fairness** (`watcher_live` and `build`). In the watcher, `FairSpec` asks weak fairness of the steps the runtime
takes by itself: each event the system has raised is handed on; a handler that has
started arms the timer; the clock ticks; a due timer fires; its callback runs, and goes
through its steps once in the gate; a Dispose that has begun goes on. No fairness is
asked of edits, of overflows or of a call of Dispose. That is what a thread pool
that is not stuck gives; weak fairness is enough, as each of these steps
stays enabled until taken. A timer that fires may find another flush running and
leave, as in the code. Liveness is not claimed when the watcher has
died (a limit of section 4) or the consumer never returns. In the build, every thread of the walk and of the
loop goes on when it can (weak fairness of each: a task that waits for bytes sleeps, and is asked to go on only
once somebody has pulsed it), as do the caller and the steps of the build itself. Nothing has to fail, and nobody
has to cancel or to leave.

## 4. Findings, and limits

Each finding has a run that violates a sentence the repository states.

1. `shared_skip`: a `watch` that saved a batch and then walks the tree under the same
   hold can release it without publishing: the nested hold's "nothing written" also
   speaks for the batch.
2. `session_takeover`: a session that takes the live-watch role over while its own
   build runs does not reconcile; an edit made after the build's walk passed, and before the
   takeover, is in no queue and no index.

Limits that the properties of the passing runs exclude, by name, and say nothing of:

- a file that a tool dated ahead of the clock is trusted by the second look, and an edit
  made just when the clock reaches that date is skipped: `ahead`;
- an entry of an older ledger that is too young to be trusted becomes trusted when the ledger is
  written again for other files: `TrustIsKept` holds it to its promise until then;
- a live batch, or a drain, whose save fails logs it and does not put its edits back; a startup
  reconcile that fails is not tried again; a batch that comes while a newer CodeCompass's
  index is on disk is left to other sessions even if a build that would replace that index is under
  way: `dropped`;
- a batch that was not captured is lost, with no note, if the state leaves "Ready" before `ServerContext.cs:2032`: a
  background build that finds the index unreadable (`:1798`) or fails (`:1819`) takes it down even after a reindex has put it
  up. Where walks run unasked, the reconcile of the next load is to find the edits (`EditsAreKept` says so); where
  they do not, nothing does: `unreported`;
- a give-up that falls between a query's look at `_newerFormat` (`:341`) and its taking of the role (`:345-347`) captures
  no role and releases none; the next give-up call returns at once, as the format is known. The session
  then keeps a role it cannot use, though the comment at `:339-340` says that it would not take it: `late`;
- one that falls between the taking (`:347`) and the start of the watcher (`:350`) captures the role and no watcher: a
  watcher goes on without the role, and what the next give-up then captures can leave a role without a watcher: `crossed`;
- the note that events were lost goes when the index on disk is dated after them, and a
  prune dates it without walking: `dropped`. So a merge by another process can take the note off
  a network root that no walk has confirmed;
- when the system's watcher dies, its replacement is a task of its own, and the full reconcile can come before
  the fresh watcher watches (`RepositoryWatcher.cs:121`); a change between the two is seen by neither, though line 113
  has the next reconcile catch what was lost: `blind`;
- a linked root's edits are held back with the timer armed (`ServerContext.cs:991`) before the flag that tells the timer of
  them (`:999`). A timer that was already armed, for the session's own root or another linked one, can fire between
  and pass them by, and none is armed after it; the comment at `:86-87` has them retried: `passed`;
- a retry on the timer's thread (`:482`) is not among what a teardown waits for (`:867-868`): it can write the index,
  or build it again if it was purged, after the unlink, though `:868` says that nothing does: `SettledIsWhole` speaks of the
  watcher and the reconcile, and edits such a retry leaves in the old object are `dropped`;
- `GiveUpLinkedRoot` bars a root from being taken over by a far date in `RetryPromoteAtMs` (`:518`), and a watch that fails to start at
  that moment overwrites it (`:577`); the session may then take the role of an index it cannot write and keep
  it, though `:510-511` says "never take it again this session": `SettledIsWhole` asks for the date (`never`);
- a linked root's rebuild for lost events that fails is not tried again as a rebuild (`:988`): `dropped`;
- a drain that used its rounds leaves what came during the last one; the next event takes
  the waiting paths with it, but not a waiting request to reconcile, nor paths that a share
  did not answer for: `spent`;
- a journal that outlives the base it was written over (a kill, or a failed delete, after the manifest's replace)
  is merged over the next one: `LoadedIsSaved` excludes it (`JournalFresh`);
- once a buffer was written to a segment that does not open, its documents are not found, the count is off, and a later
  removal of one of them can take another file's document with it (`SegmentedIndex.cs:672-674`, `lost` and `short`):
  the next full build sets it right, and the end of the process does when nothing was committed since;
- an index committed empty and killed before its old files are deleted has them loaded again
  (`SegmentedIndex.cs:804` takes an empty manifest for none): `Names` in `CommittedIsLoaded`, and `recovered`;
- once the manifest of segments is lost (a share whose replace is not atomic), the index is inexact until the
  next build: `recovered`, and `MayLose` of `DocumentMap`;
- a build numbers its segments from the directory alone, so a number whose file is gone can
  be used again: `SegmentsAreImmutable` speaks of files that exist;
- a writer killed between its save and the new generation leaves the others current, and their
  next save may revert its work: `missed` (`left` in `IndexWriteLock`);
- if what it saved were C# sources, the next commit of a batch without any carries the old sources token
  (`IndexWriteLock.cs:99-103`, `ServerContext.cs:2078-2079`), so the others reload the index and
  keep a C# model that is behind; and a session that was behind and updates its model in place
  adopts the new token for it (`AdoptSourcesToken`): `untold`, until the model is built again or another writer's new sources token tells it;
- what a failed or killed save, or an unreadable file, left different between index, ledger and tree is
  not claimed of until they agree again: `stray`. This includes a file
  that a build left out and an older ledger still claims, and a new file that is
  indexed, not recorded, and then deleted;
- a first build that is killed, or fails with anything but memory, leaves the segments it wrote, and with no
  manifest the next open loads them as an index (`SegmentedIndex.cs:804`); only a cancelled build cleans
  up, and if it cannot delete a file, that stays as well (`littered`): of a kill `StoppedIsOldOrNew` speaks in
  builds over an index, of a cancelled one when deletions succeed;
- a build killed between its new index and its ledger (`RepositoryIndexer.cs:474-478`) leaves the older ledger: a
  file that this build skipped under memory pressure is in no index and claimed by the ledger, and no
  update looks at it until it is edited, though the comment at line 379 has it re-indexed by the next update;
- a folder whose listing comes back empty, in the retry after a failure too, is taken for empty and not counted
  (`FileWalker.ReadDir`), though the comment on `DroppedDirs` speaks of listings that "failed (or came
  back empty) even after a network retry": `lost`.

Seen on the way, and not in a model: `LinkStore.Add` and `Remove` read `links.json`, change the list and write it whole with
no lock (`LinkStore.cs:75`), so of two tools at once one's link is lost; a follow-up reconcile is chained to `LoadReconcile` by a
read and a write with no lock (`ServerContext.cs:1109`), which is exact from the watcher's thread and not from a retry's; a cancelled build deletes its sidecars by names that come
from the path alone, hence also those of the live index (`RepositoryIndexer.cs:428`; searches are only slower); and in
the vendored TRACE32 scanner `IsSign` compares `glyph == '+' && glyph <= '-'`, which no minus sign
satisfies (`grammars/tree-sitter-t32/src/scanner.c`).

## 5. Proofs

Theorems hold for every value of the constants, under each module's named
assumptions (constants' types, sentinels outside the data).

*The ledger* (`LedgerProofs`). The invariant is that of the overlay and its base: a
tombstone names a path the base holds and the overlay does not set; the manifest
names a readable base; a save in progress is at a step whose files are those it has
written so far. It is needed since "what loads is what was committed" speaks of the
disk alone, and is only preserved because memory and disk are related at every
step. It gives `TypeCorrect`, `CrashKeepsLedger` (`LoadedIsSaved`), `OneLedger`
(`ReadersAgree`), `HeaderCountExact` (`CountIsExact`, by cardinality of finite sets)
and `ImmutableBases`; `NextNumberIsFresh` is the numbering rule on which the last
rests.

`LedgerIsAMap` (`ImplementsLedger`) is proved step by step over the same invariant and one more fact, that the rows of a
fold in progress are what the open ledger answers (`FoldIsView`). Upserts and removals are
`PathLedger`'s `Edit`; a journal's rename, a manifest's replace and the empty save are its `Commit`, and no other step
of a save or a fold shows, at whatever step it fails; a build's ledger and a migrated one are `Replace`; the delete of the
old journal is `Settle`; a crash or a dispose is `Close`. The abstract `Open` must return what was committed as long as that is
`certain`, so the crash's promise is part of what is refined.

*The text index* (`SegmentedIndexProofs`). Its documents are one function from locations to documents; writing the buffer
under an unused number changes none of it (`Flushed`), as the buffer's documents were promised the places they get. The invariant says
that the open index's next number is above every file, that until a recovery no path has two live documents and the path
map finds each (`Finds`), whatever buffer was lost, and that the map has nothing else while the index is `Sure` (`Exactly`; all in
`MemoryInv`), that the manifest's files open and hold what was committed (`ManifestInv`), what the rest of a save
relies on from its earlier steps (`ShapeInv`), and that a build's segments are new, apart from the manifest's, and
hold each path once (`BuildInv`). A build's index is exact even while `recovered` still says that the old one was not (`ToBuild`); the commit that
clears the flag depends on it. A merge is a bijection between the live locations and the new ones, and keeps the
set of live documents (`MergedDocuments`). It gives
`TypeCorrect`, `LiveDocumentsAreExact` (`LiveIsExact`), `CommittedSurvives` (`CommittedIsLoaded`), `SegmentsStay`
(`SegmentsAreImmutable`) and, step by step over the same invariant, `IndexIsADocumentMap` (`ImplementsDocumentMap`): edits are the map's `Put` and `Drop`, the
manifest's replace its `Commit`, a build's `Replace` or `Rebuild`, a crash, an abandoned build or the lost manifest of an
empty index `Revert`, a recovery `Recover` or nothing, a lost manifest `Lose`, a lost buffer `Slip`, the commit of an index
that lost one `CommitInDoubt`; flushes, compactions, tombstone files and cleanups are
stutters. All for any paths, contents, bounds and faults. `NumberIsFresh` repeats the ledger's numbering rule.

*The lock* (`IndexWriteLockProofs`). The invariant ties the flags of each nested
hold to what has been written since (`HoldInv`): an uncommitted hold will move the token on release, and a token that was
returned is the one on disk. A copy that is being loaded under the generation on disk is up to date (`CopyInv`); the
session whose batch is being committed has the index it saved, and a model that misses only what it was
not told of (`BatchInv`). A bump's token is one nobody holds, or the sources token carried (`BumpIsFresh`). It gives `TypeCorrect`, `AlwaysPublished`,
`ReloadsAreSeen` and `ModelsAreCurrent` for any number of threads, sessions, tokens and
levels of nesting.

*The shared cache* (`SharedCacheProofs`). At rest, off the paths an accident left wrong (`stray`), the ledger claims
what the index holds, the sessions that are current hold both, so do the copies that are about to be
installed as current, and what the role holder has no edit pending for is as the tree has it
(`AtRest`). While an operation writes, that is claimed of the operation instead: what it has not
saved differs from the disk only in the paths it set out to change, what it has saved is on disk, its
two maps agree, a batch is in its session's memory too, and it has what the tree has but for the edits still pending
(`Writing`). An action that takes the lock turns the first into the second, each that ends the
operation, at whatever step and by whatever failure, turns it back (`WhatIsLeft`); of an operation whose session missed
a write that was never published nothing is claimed, and its end marks every path. This rests on who can hold
the lock at which step (`WhoWrites`), and on a watch that has loaded nothing, which is told of no edit, still having
to walk (`StartedOwes`). It gives `TypeCorrect`, `CurrentServesDiskHolds`, `LedgerMatchesIndexHolds`,
`LiveIndexIsFreshHolds` and `NothingIsReverted` (`NoLostUpdate`) for any sessions, commands,
paths, texts, edits and faults.

*The watcher* (`RepositoryWatcherProofs`). Two facts together say that no wakeup is lost. What is recorded has
somebody coming for it: a call of `Schedule`, the timer, a callback that has fired, a flush, or the look for more that
follows one (`Awake`). And until Dispose every change made with somebody watching is on its way, in an event, the record, the
flush's copy of it or its batch, in the form that its path needs by then: as structural, if it has become a folder, as
a folder, if it is named like an ignored file (`Accounted`). `Emptied` says what a flush's copy holds when; `Closed`
that no flush passes the look at `_disposed` once Dispose has had the gate. It gives `TypeCorrect`,
`DisposeStopsCalls` (`DisposeIsABarrier`) and `NoWakeupIsLost` (`QuietIsCaughtUp`), for any paths, waits, callbacks and deaths.

*Trust* (`LedgerProofs`, second part). The argument is the one the comments of `LedgerTrust.cs`
give in words, for every clock that `ClockAssumption` admits. The first look: the
file system was never a margin behind, so a stamp a margin older than the read
cannot be given again. The second look: the stamp was on the file when it was
recorded pending, a settle time before the read, and no tick lasts that long
(`TrustedIsOver`). The invariant adds what this rests on: the time the second look
counts from is one at which the file system had already reached that stamp
(`PendingInv`, where a foreign machine's clock or an old ledger would break it);
and a read whose stamp is over has seen only what the file holds, if its handle's
times did not move or nobody set the stamp back (`SeenInv`). It gives `TrustTypeCorrect` (`TrustTypeOK`),
`StampsAreOver` (`StampIsOver`) and `TrustKept` (`TrustIsKept`).

*The session* (`LiveSessionProofs`). `RoleIsGivenBack` is inductive with the types and one more fact, `LooksAreFresh`:
while the newer format is known, no query has a look that no give-up has overtaken, so a role that is taken then is
taken by one that was overtaken (`late`). Each step that finds the newer format (a query's load, a reload, a
batch, a drain's round, the startup build) starts in the same step a task that has captured the role, if there is one; a
capture goes only with the role it names; and a
rebuild that makes the index this version's own clears the knowledge, which is when a task may go without
releasing anything. The
types are proved in parts (tree, states, flags, count, queue, threads), one lemma each,
since an action disturbs few of them. `EditsAreKept` needs much more (`KeptInv`), since most of what keeps an edit
is not visible while the session cannot serve. `Locks`: one thread holds the gate, so a walk's
`missed` is empty as it begins, and `rebuilding` is the number of threads inside a rebuild, so a batch that finds the session
busy leaves its edits to somebody. `Watched`: what changes while nobody watches is unreported, and a captured
watcher runs until it is stopped, for which the task waits for the callback. `HandedOver`: with nothing crossed, who watches has the
role, and who has the role watches, is about to, or is about to hand it back; so a session that serves watches or is being taken over.
`ReportedIsCaught`: where an
index is loaded or can be, a change the watcher saw is on its way to the queue or in it, waits for the retry of an unanswered path,
is ahead of a drain's rebuild, or is behind the lost-events note with nothing having dated the index since; it must hold
before the index is served, as a load in another thread may make it served at any step, and whoever has the role.
`BatchesStay`: a batch that is about to be lost, since the state has left "Ready" under it, holds no change that a running walk has
missed, nor one that a build which only loads would leave out: what becomes unreported there is found by the reconcile of the next load.
`MissedIsFresh`: what the running walk missed came through the watcher, so the commit, which clears everything else, leaves it
caught. `UnreportedIsAwaited` and `MissedIsAwaited` say the same of changes nobody watched or whose batch was lost, with the
reconcile, or the takeover that is about to start one, in the place
of the queue; they fail of a takeover beside the session's own build, which the violation run shows, and hold because
the model counts those as let go of (section 4). `QueueIsAttended`: the queue of a served index has a timer, a task, a takeover or a
thread due to look at it. It gives `TypeCorrect`, `RoleGivenBack` and `EditsKept`, for any
tree, threads, queries, cap, rounds, edits, external writes and faults.

*The walk* (`IndexBuildProofs`, about the instance `W` of `DirectoryWalk`). Four facts make the invariant. The counter is the number of folders
queued or held, and of subfolders counted and about to be queued (`CounterInv`, by cardinality), so
while any thread has something to queue the queue is open. Every folder has one parent and is met once
(`TreeInv`), so what a thread queues is new and the counter stays right. A thread stops quietly only after the
caller has left, and otherwise ends on an empty closed queue; threads that died are in `dropped` once the caller is told the
end (`EndInv`). Until a thread dies or the caller leaves, each subfolder and file of a folder taken up has
arrived or is in the hands of the thread that holds the folder (`DeliveryInv`). It gives
`WalkTypeCorrect` and `WalkComplete`, for any tree, threads, buffer and errors, and `BuildWalkComplete`
of the walk in a build, whose steps are steps of the walk or leave it alone. That each folder has one
parent is an assumption (`Assumptions`): the code does not follow reparse points.

*The build* (`IndexBuildProofs`, second part). One invariant, `BuildInv`, of four parts. The loop (`LoopInv`): workers are
numbered as they are created, and each is idle or in the hands of one task, so a task without one finds
room in the pool (by the pigeonhole principle over the other tasks); from the request to the release a task's request is the one
for its file's bytes, so what is released is what was reserved, a file larger than the budget included. The documents (`Placed`, `Numbered`, per
kind of segment): a document is untouched, in one worker's buffer or in one segment of this build, whose numbers come after what was
there. The numbers (`Bounded`): each segment that is written takes a document that was in none, each that is
torn a fault, so the segment number stays within files and faults; this is what makes the types inductive. The ends (`AccountInv`,
`Claimed`, `ManifestInv`): unless a file failed the build each file found is untouched, logged or claimed; what a worker claims is in its buffer or its
segments; and a kind's manifest names what was there before, untouched, or all this build wrote, and the latter only
once every worker is merged. It gives `BuildTypeCorrect`, `BudgetKept` (`BudgetIsKept`), `EveryFileAccounted`
(`FilesAreAccounted`) and `StoppedBuildIsOldOrNew` (`StoppedIsOldOrNew`), for any files, sizes, threads, budget, faults, and a
cancellation at any step.

*That a build ends* (`IndexBuildProofs`, third part). `BuildEnds` is liveness and stays with TLC; what it rests on is proved, for all
constants. `NoRequestOversleeps`: while a request for bytes sleeps, another is awake or holds bytes, whose
release wakes the line; so the head of the line is not forgotten, be its file larger than the budget.
`BuildIsNeverStuck` (`NeverStuck`): in a build that has not ended some guard holds of a thread of the walk, of its caller, of a task or
of the build's own steps, without a fault, a cancellation or the caller's leaving. Its cases are those a deadlock would
need: an empty queue that is not closed has a thread that holds or is queueing a folder, by the counter's
invariant; a full buffer has a caller that reads it or has left (`WaitInv`), which in a build it does only by cancelling
(`CallerInv`); requests that are all asleep have somebody who holds bytes. `EveryStepOfABuildCounts`
(`EveryStepCounts`): every step, faults and cancellations too, leaves less to do; the first item of `Left` that it changes
becomes a proper subset. And `EveryBuildRunsOut`: the items are subsets of a finite set, so that order is
well-founded (`Order`, by the library's lexicographic products), and no build takes steps for ever. So a build always has a step
and cannot have infinitely many; what is left to TLC is that fairness takes the step whose guard holds.

*A linked root* (`LinkedRootProofs`). One invariant, `RootInv`, of nine parts beside the types; every action keeps
it. What a thread carries at each stage (`StageInv`): a retry has neither paths nor a rebuild of its own until it
enters. An object that no link has made yet is as new, and in nobody's hands (`KnownInv`); so the one that the next
link takes cannot be met by a thread of an earlier one. `LifeInv` says what the holder of `_linkedGate` is about at each phase, and
`OwnedInv` that an object is owned, watched, worked on, open or barred from ownership in the ways a settled root is, with the
exceptions its phase of being set up or torn down allows; at the end of each operation the exceptions are gone, which is
`SettledIsWhole`. `GenInv`: generations come from the index, whose own only rises; with it an object's generation proves its
handles old (`ServeInv`), from the load on, before the object is even linked. `GoneInv`: an index is purged only while nothing
of it is linked. `HeldInv`: a batch takes what is held back with it, under `BuildGate`, so what its failure puts back
replaces nothing; between that and the flag the batch's own thread is still to say so. `KeptInv`: a walk of a
watched root's batch misses only what its watcher reports again. It gives `RootTypeCorrect` (`TypeOK`), `SettledRootIsWhole`,
`LinkedHandlesServe` (`HandlesServe`) and `LinkedEditsKept` (`EditsAreKept`), for any files, pending cap, retries,
links, events and faults. `SomebodyHasItsTurn` is the part of `SomebodyCanGoOn` that is about locks and waits:
as long as anybody is at work, somebody has what it waits for, be it `_linkedGate`, `BuildGate`, the write lock,
`Rw`, or the threads a teardown waits for. The argument is the order of the waits: a query waits for nobody; the holder of
`BuildGate` waits at most for a query, or for the write lock, which only another process can then hold; while nobody holds
the gate, whoever waits for it may enter; and a teardown, which holds `_linkedGate`, waits for threads that
never want it. The proof showed two properties to be weaker than the code: `EditsAreKept` excepted a
root being given up or torn down and a retry still in its `finally`, and needs neither.

**Only model-checked.** Every property of every passing run is stated by a theorem but for
`SomebodyCanGoOn` of `LinkedRoot`, of which only the half without `ENABLED` is, and the liveness properties, `BuildEnds` and
`EveryChangeIsDelivered`. Liveness under fairness and `ENABLED` are out of the prover's reach, and so is induction over data: what a fold over a
sequence computes for every input. No module uses a `RECURSIVE` operator.

The other way round, `ImplementsLedger`, `NeverStuck` and `EveryStepCounts` are proved and in no run. TLC finds all three true
of the instances of `ledger` (without symmetry, 1.1 M states) and `build`.

## 6. Not modelled, and the plan

Not modelled: what computes answers from text (trigrams, posting lists, Bloom filters,
Tree-sitter, Roslyn, ignore patterns, decoding), what prints, and the profilers:
sequential functions that examples test well. Nor is the only C in the repository, the vendored TRACE32
grammar: 99 % of it is one table that a generator wrote. The system itself is C#. `PROJECT.json` lists each component with
its reason.

In order of importance, the plan from here:

1. `LiveSession`: liveness of the queue under the retry timer; its gates as separate locks, as `LinkedRoot`
   has them; re-pointing. `LinkedRoot`: a variant as `IndexBuild` has it, so that every wait ends.
2. Several linked roots with one re-pointed session, the symbol index's own path map, the sidecar cache, eviction of the C# model.
3. Reference checks of pure algorithms: varints, posting-list intersection, block
   candidates, reference merge.

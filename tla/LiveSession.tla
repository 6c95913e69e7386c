----------------------------- MODULE LiveSession -----------------------------
(***************************************************************************)
(* The live indexing of one server session (ServerContext.cs): the edits   *)
(* its watcher hands over, the queue they wait in while they cannot be     *)
(* applied, the drains, retries, rebuilds and startup tasks that empty it, *)
(* and what other processes do to the index meanwhile.                     *)
(*                                                                         *)
(* Threads are the watcher's callback and a pool.  A thread that runs a    *)
(* build, a merge or a walk holds the build gate and the index's write     *)
(* lock from its first step to its last; everything shorter is one step    *)
(* under those locks.  The watcher itself is RepositoryWatcher, here the   *)
(* set of changes it has still to deliver; the write lock and generations  *)
(* are IndexWriteLock, here "current": the loaded index is the one on      *)
(* disk.  Production initialises the context once (Program.cs), so epochs  *)
(* and cancellation, which serve a second Init, do not occur.              *)
(***************************************************************************)
EXTENDS Naturals, FiniteSets

CONSTANTS
  Paths,        \* the files of the tree
  Watcher,      \* the thread of the watcher's callback
  Pool,         \* the pool's threads, the reindex tool's among them
  Queries,      \* the queries that may be taking the role over at once
  Rounds,       \* of a drain (5 in the code)
  MaxPending,   \* edits queued before the list is dropped for a rebuild (50,000)
  MaxEdits, MaxWrites, MaxFaults  \* bounds of the instance

ASSUME LiveSessionAssumption ==
  /\ Watcher \notin Pool /\ IsFiniteSet(Pool)
  /\ Rounds \in Nat \ {0} /\ MaxPending \in Nat
  /\ MaxEdits \in Nat /\ MaxWrites \in Nat /\ MaxFaults \in Nat

VARIABLES
  auto,        \* AutoReconciles(Root): may a walk run unasked here?
  disk,        \* the index on disk: "ok", "gone" (missing or corrupt), "newer"
  stale,       \* the paths whose last change the index on disk lacks
  unreported,  \* those of them that nobody watched change, or whose batch was lost
  dropped,     \* those of them the code is known to let go of (see below)
  current,     \* the loaded index is of the generation on disk
  built,       \* what dated the index since events were lost: "none", "walk", "prune"
  state, newerFormat, eventsLost, rebuilding,
  role,        \* of live-watching: "ours", "other", "free"
  watching,    \* the watcher runs
  events, overflow,  \* what it has still to deliver
  queue,       \* _pendingPaths and its flags
  giveUps,     \* the tasks that give up, with the watcher and role they captured
  takeover,    \* how far each query is with taking the role over
  late,        \* ghost: the role was taken by a query that a give-up overtook
  crossed,     \* ghost: a give-up found a role taken and its watcher not started
  timer,       \* the retry timer is armed
  tasks,       \* started on the pool, not yet running
  op,          \* what each thread is doing
  missed,      \* changed since the running walk began
  spent,       \* a drain ended early: its rounds used up, or its rebuild failed
  edits, writes, faults

treeVars == <<stale, unreported, dropped>>
diskVars == <<disk, current, built>>
indexVars == <<state, newerFormat, eventsLost, rebuilding>>
watchVars == <<role, watching, events, overflow>>
handover == <<giveUps, takeover, late, crossed>>
wakeVars == <<timer, tasks, spent>>
bounds == <<edits, writes, faults>>
\* Let go of, with a line in the log or none: edits whose save failed, unwatched
\* changes whose reconcile failed or that a takeover beside a running build finds,
\* batches that come while a newer CodeCompass's index is on disk, and what the
\* lost-events note stood for when a prune's date takes it off.

vars == <<auto, treeVars, diskVars, indexVars, watchVars, handover, wakeVars, queue, op,
          missed, bounds>>

Threads == Pool \cup {Watcher}
Walks == {"rebuild", "drainBuild", "reconcile", "build", "reindex"}
Holding == Walks \cup {"compact", "prune"}
Steps == Holding \cup
         {"idle", "look", "batch", "drain", "drainEnds", "drainFails", "ends", "reconcileWaits"}
OpType == [at : Steps, paths : SUBSET Paths, full : BOOLEAN, round : 0..Rounds]
QueueType == [pending : SUBSET Paths, rec : BOOLEAN, holdWants : BOOLEAN,
              held : BOOLEAN, unsure : SUBSET Paths, due : BOOLEAN]
GiveUpType == [at : {"starts", "stopped"}, watcher : BOOLEAN, own : BOOLEAN]
TakeoverSteps == {"none", "looked", "overtaken", "took", "watches"}

Idle == [at |-> "idle", paths |-> {}, full |-> FALSE, round |-> 0]
At(step) == [Idle EXCEPT !.at = step]
Draining(round) == [Idle EXCEPT !.at = "drain", !.round = round]
Become(t, what) == op' = [op EXCEPT ![t] = what]

\* BuildGate and the write lock are free for the next holder.
GateFree == \A t \in Threads : op[t].at \notin Holding
Busy == state # "Ready" \/ rebuilding > 0

-----------------------------------------------------------------------------
(* The queue.                                                              *)

\* CaptureIfBusy: queue a batch, or past the cap ask for a rebuild instead.
Captured(q, paths, full) ==
  LET more == q.pending \cup paths
      rec == q.rec \/ full
  IN IF Cardinality(more) > MaxPending
       THEN [q EXCEPT !.pending = {}, !.rec = TRUE, !.holdWants = FALSE]
       ELSE [q EXCEPT !.pending = more, !.rec = rec,
                      !.holdWants = @ /\ ~rec]

\* HoldBackLocked: the index cannot be reloaded, the edits wait for a retry;
\* an index that is missing needs a rebuild too.
HeldBack(q, paths, why) ==
  LET more == q.pending \cup paths
      wants == why = "missing" /\ ~q.rec
  IN IF Cardinality(more) > MaxPending
       THEN [q EXCEPT !.pending = {}, !.rec = TRUE, !.holdWants = FALSE, !.held = TRUE]
       ELSE [q EXCEPT !.pending = more, !.rec = @ \/ wants,
                      !.holdWants = @ \/ wants, !.held = TRUE]

\* ClearHoldLocked: the index loaded, a rebuild only the hold wanted is off.
HoldCleared(q) ==
  [q EXCEPT !.held = FALSE, !.rec = @ /\ ~q.holdWants, !.holdWants = FALSE]

HoldEnded(q) == [q EXCEPT !.held = FALSE]

\* TakePendingLocked: what waits rides along with the batch being applied.
Taken(q) == [(IF q.held THEN HoldCleared(q) ELSE q) EXCEPT !.pending = {}]

Forgotten(q) ==
  [q EXCEPT !.pending = {}, !.rec = FALSE, !.holdWants = FALSE, !.held = FALSE]

\* What a drain's round takes; unanswered paths only when their retry is due.
Work(q) == q.pending \cup (IF q.due THEN q.unsure ELSE {})
Retried(q) == IF q.due THEN q.unsure \ q.pending ELSE {}
Drained(q) ==
  [q EXCEPT !.pending = {}, !.rec = FALSE, !.holdWants = FALSE, !.due = FALSE,
            !.unsure = IF q.due THEN {} ELSE @]
\* Mutant: the round's paths stay out of the queue.
PutBack_Drops(q, paths, rec, wants) == [q EXCEPT !.rec = rec, !.holdWants = wants]

PutBack(q, paths, rec, wants) ==
  [q EXCEPT !.pending = @ \cup paths, !.rec = rec, !.holdWants = wants]

-----------------------------------------------------------------------------
(* Loading, applying, installing.                                          *)

MayFail == faults < MaxFaults
Pay(failed) == faults' = IF failed THEN faults + 1 ELSE faults

\* TryLoad: what it may answer.
Loads ==
  CASE disk = "ok" -> {"none"} \cup (IF MayFail THEN {"transient"} ELSE {})
    [] disk = "gone" -> {"missing"}
    [] disk = "newer" -> {"newer"}

\* RefreshIfStaleLocked: load only an index another process has moved.
Refresh == IF current THEN {"none"} ELSE Loads

\* GiveUpLiveIndexing: once, have the watcher and the role of now released.  Give-ups
\* that captured the same count as one.
GiveUpLiveIndexing ==
  /\ newerFormat' = TRUE
  /\ \/ newerFormat /\ UNCHANGED handover
     \/ /\ ~newerFormat
        /\ giveUps' = giveUps \cup
             {[at |-> "starts", watcher |-> watching, own |-> role = "ours"]}
        /\ takeover' = [q \in Queries |-> IF takeover[q] = "looked" THEN "overtaken"
                                                                  ELSE takeover[q]]
        /\ late' = FALSE
        /\ crossed' = (crossed \/ \E q \in Queries : takeover[q] = "took")

\* Serve nothing, hand the role back.
EnterNewerFormat(q) ==
  /\ state' = "NotStarted" /\ current' = FALSE
  /\ queue' = Forgotten(q)
  /\ unreported' = stale
  /\ GiveUpLiveIndexing
  /\ UNCHANGED <<stale, dropped, disk, built, eventsLost, rebuilding, wakeVars>>

\* ApplyIncremental: the share may leave some of the paths unanswered, which
\* are kept for a retry of their own; a failure is logged and the edits are
\* gone from the queue.
Apply(q, paths, retried) ==
  \/ \E unsure \in SUBSET paths :
       LET q1 == [q EXCEPT !.unsure = (@ \ paths) \cup unsure]
           done == paths \ unsure
       IN /\ unsure # {} => MayFail
          /\ Pay(unsure # {})
          /\ queue' = q1
          /\ stale' = stale \ done /\ unreported' = unreported \ done
          /\ dropped' = dropped \ paths
          /\ timer' = (timer \/ q1.unsure # {})
  \/ /\ MayFail /\ Pay(TRUE)
     /\ queue' = [q EXCEPT !.unsure = @ \cup retried]
     /\ dropped' = dropped \cup (paths \cap stale)
     /\ UNCHANGED <<stale, unreported, timer>>

\* Swap: a generation this session commits or loaded is the one on disk.
Swap == state' = "Ready" /\ current' = TRUE /\ newerFormat' = FALSE

\* A walk's commit: the index holds what the tree held as the walk passed.
Walked ==
  /\ disk # "newer"                       \* Build and Update refuse that one
  /\ Swap
  /\ disk' = "ok" /\ built' = "walk"
  /\ stale' = stale \cap missed
  /\ unreported' = unreported \cap missed
  /\ dropped' = dropped \cap missed
  /\ missed' = {}
  /\ UNCHANGED faults

\* A build, walk or merge that throws. What it had written publishes a
\* generation all the same.
Fails ==
  /\ \/ disk = "newer" /\ UNCHANGED faults
     \/ MayFail /\ Pay(TRUE)
  /\ current' \in {current, FALSE}
  /\ missed' = {}
  /\ UNCHANGED <<disk, stale, unreported, newerFormat>>

\* EndRebuildingLocked.
OneLess == IF rebuilding > 0 THEN rebuilding - 1 ELSE 0

\* ScheduleRetry: a timer already armed is left alone.
ScheduleRetry == timer' = TRUE

LoseEvents == eventsLost' = TRUE /\ built' = "none"

\* Mutant: one round too many.
NextRound_OneMore(t) ==
  IF op[t].round <= Rounds
    THEN Become(t, Draining(op[t].round + 1)) /\ UNCHANGED spent
    ELSE Become(t, Idle) /\ spent' = TRUE

NextRound(t) ==
  IF op[t].round < Rounds
    THEN Become(t, Draining(op[t].round + 1)) /\ UNCHANGED spent
    ELSE Become(t, Idle) /\ spent' = TRUE

-----------------------------------------------------------------------------
(* The tree and the other processes.                                       *)

Edit(p) ==
  /\ edits < MaxEdits /\ edits' = edits + 1
  /\ stale' = stale \cup {p}
  /\ dropped' = dropped \ {p}
  /\ missed' = IF \E t \in Threads : op[t].at \in Walks THEN missed \cup {p} ELSE missed
  /\ IF watching
       THEN /\ unreported' = unreported \ {p}
            /\ \/ events' = events \cup {p} /\ UNCHANGED overflow
               \/ overflow' = TRUE /\ UNCHANGED events
       ELSE unreported' = unreported \cup {p} /\ UNCHANGED <<events, overflow>>
  /\ UNCHANGED <<auto, handover, diskVars, indexVars, role, watching, wakeVars, queue, op,
                 writes, faults>>

\* Another process writes the index: an update or index that walks, one that
\* does not (a merge, a targeted update of other paths), a purge, or a newer
\* CodeCompass's own.
ExternalWrite ==
  /\ writes < MaxWrites /\ writes' = writes + 1
  /\ GateFree
  /\ current' = FALSE
  /\ \/ /\ disk' = "ok" /\ built' = "walk"
        /\ stale' = {} /\ unreported' = {} /\ dropped' = {}
     \/ /\ disk = "ok" /\ UNCHANGED <<disk, built, treeVars>>
     \/ /\ disk' = "gone" /\ UNCHANGED <<built, treeVars>>
     \/ /\ disk' = "newer" /\ built' = "walk"
        /\ stale' = {} /\ unreported' = {} /\ dropped' = {}
  /\ UNCHANGED <<auto, handover, indexVars, watchVars, wakeVars, queue, op, missed, edits,
                 faults>>

OwnerExits ==
  /\ role = "other" /\ role' = "free"
  /\ UNCHANGED <<auto, handover, treeVars, diskVars, indexVars, watching, events, overflow,
                 wakeVars, queue, op, missed, bounds>>

-----------------------------------------------------------------------------
(* What a query does before it reads the index.                            *)

\* An index found on disk: serve it, and catch up with what it missed.
Loaded == Swap /\ tasks' = tasks \cup {"reconcile"}

\* EnsureStartedLocked: load the index, or have one built.
EnsureStarted ==
  /\ state \in {"NotStarted", "NeedsCliBuild"}
  /\ \E why \in Loads :
       /\ Pay(why = "transient")
       /\ CASE why = "none" -> Loaded
            [] why = "transient" -> UNCHANGED <<state, current, newerFormat, tasks>>
            [] why = "newer" -> UNCHANGED <<state, current, tasks>>
            [] why = "missing" ->
                 /\ \/ state' = "NeedsCliBuild" /\ UNCHANGED tasks
                    \/ state' = "Building" /\ tasks' = tasks \cup {"build"}
                 /\ UNCHANGED <<current, newerFormat>>
       /\ IF why = "newer" THEN GiveUpLiveIndexing ELSE UNCHANGED handover
  /\ UNCHANGED <<auto, treeVars, disk, built, eventsLost, rebuilding, watchVars,
                 timer, spent, queue, op, missed, edits, writes>>

\* Mutant: take the role whatever index is on disk.
MayPromote_Anyway == state = "NotStarted" => faults > 0

\* A session that cannot write the index leaves the role to one that can.  The
\* query has looked for the index by then: none is loaded only if that failed.
MayPromote == ~newerFormat /\ (state = "NotStarted" => faults > 0)

Proceed(q, step) == takeover' = [takeover EXCEPT ![q] = step]

\* A query looks, without a lock, whether there is a role to take.
LookAtRole(q) ==
  /\ takeover[q] = "none" /\ role # "ours" /\ MayPromote
  /\ Proceed(q, "looked")
  /\ UNCHANGED <<role, watching, dropped, tasks, late, crossed>>

\* Under its lock it takes the role, if the holder is gone and no other query has.
TakeRole(q) ==
  /\ takeover[q] \in {"looked", "overtaken"}
  /\ \/ role = "free" /\ role' = "ours" /\ Proceed(q, "took")
        /\ late' = (newerFormat /\ takeover[q] = "overtaken")
     \/ role # "free" /\ Proceed(q, "none") /\ UNCHANGED <<role, late>>
  /\ UNCHANGED <<watching, dropped, tasks, crossed>>

\* Then, in steps of its own, it watches, and if an index is loaded, catches up.
StartWatcher(q) ==
  /\ takeover[q] = "took" /\ Proceed(q, "watches")
  /\ watching' = TRUE
  /\ UNCHANGED <<role, dropped, tasks, late, crossed>>

CatchUp(q) ==
  /\ takeover[q] = "watches" /\ Proceed(q, "none")
  /\ tasks' = IF state = "Ready" THEN tasks \cup {"reconcile"} ELSE tasks
  /\ dropped' = IF state = "Ready" THEN dropped ELSE dropped \cup unreported
  /\ UNCHANGED <<role, watching, late, crossed>>

MaybePromoteToOwner(q) ==
  /\ LookAtRole(q) \/ TakeRole(q) \/ StartWatcher(q) \/ CatchUp(q)
  /\ UNCHANGED <<auto, giveUps, stale, unreported, diskVars, indexVars, events, overflow,
                 timer, spent, queue, op, missed, bounds>>

\* ClearEventsLostIfRefreshed: the note goes when the index is dated after it.
RefreshedSince == built # "none"

MaybeReloadExternal ==
  /\ state = "Ready" /\ ~current /\ disk # "gone"
  /\ GateFree /\ rebuilding = 0
  /\ \/ /\ "none" \in Loads
        /\ Swap
        /\ eventsLost' = (eventsLost /\ ~RefreshedSince)
        /\ dropped' = IF eventsLost /\ built = "prune" THEN stale ELSE dropped
        /\ tasks' = IF queue.pending # {} THEN tasks \cup {"drain"} ELSE tasks
        /\ UNCHANGED <<stale, unreported, disk, built, queue, rebuilding, timer, spent,
                       handover>>
     \/ "newer" \in Loads /\ EnterNewerFormat(queue)
  /\ UNCHANGED <<auto, watchVars, op, missed, bounds>>

\* Rebuild, the reindex tool (refused while another process writes).
Reindex(t) ==
  /\ t \in Pool /\ op[t] = Idle /\ GateFree
  /\ \A u \in Pool : op[u].at # "reindex"
  /\ rebuilding' = rebuilding + 1
  /\ Become(t, At("reindex"))
  /\ UNCHANGED <<auto, handover, treeVars, diskVars, state, newerFormat, eventsLost, watchVars,
                 wakeVars, queue, missed, bounds>>

FinishReindex(t) ==
  /\ op[t].at = "reindex"
  /\ \/ Walked /\ eventsLost' = FALSE
     \/ Fails /\ UNCHANGED <<state, dropped, built, eventsLost>>
  /\ rebuilding' = OneLess
  /\ Become(t, Draining(1)) /\ spent' = FALSE
  /\ UNCHANGED <<auto, handover, watchVars, timer, tasks, queue, edits, writes>>

-----------------------------------------------------------------------------
(* Startup tasks: the background build, the reconcile and the prune.       *)

Take(t, task) ==
  /\ t \in Pool /\ op[t] = Idle
  /\ task \in tasks /\ tasks' = tasks \ {task}

BackgroundBuild(t) ==
  /\ Take(t, "build") /\ GateFree
  /\ \E why \in Loads :
       /\ Pay(why = "transient")
       /\ \/ /\ why = "none" /\ Swap
             /\ Become(t, Draining(1)) /\ spent' = FALSE
             /\ UNCHANGED <<unreported, queue>>
          \/ /\ why = "transient" /\ state' = "NotStarted"
             /\ Become(t, Idle)
             /\ UNCHANGED <<unreported, queue, current, newerFormat, spent>>
          \/ /\ why = "missing" /\ Become(t, At("build"))
             /\ UNCHANGED <<unreported, queue, state, current, newerFormat, spent>>
  /\ UNCHANGED <<auto, handover, stale, dropped, disk, built, eventsLost, rebuilding, watchVars,
                 timer, missed, edits, writes>>

\* ... and finds that a newer CodeCompass has written one meanwhile.
BackgroundBuildRefused(t) ==
  /\ t \in Pool /\ op[t] = Idle /\ "build" \in tasks /\ GateFree
  /\ "newer" \in Loads
  /\ state' = "NotStarted" /\ current' = FALSE
  /\ queue' = Forgotten(queue)
  /\ unreported' = stale
  /\ GiveUpLiveIndexing
  /\ tasks' = tasks \ {"build"}
  /\ UNCHANGED <<auto, stale, dropped, disk, built, eventsLost, rebuilding, watchVars,
                 timer, spent, op, missed, bounds>>

FinishBuild(t) ==
  /\ op[t].at = "build"
  /\ \/ /\ Walked
        /\ Become(t, Draining(1)) /\ spent' = FALSE
        /\ UNCHANGED queue
     \/ /\ Fails
        /\ state' = "NeedsCliBuild" /\ queue' = Forgotten(queue)
        /\ Become(t, Idle)
        /\ UNCHANGED <<dropped, built, spent>>
  /\ UNCHANGED <<auto, handover, eventsLost, rebuilding, watchVars, timer, tasks, edits, writes>>

\* MaybeReconcile: the role's holder catches up with what happened before, by
\* a walk or, where walks are for the user to run, by the cheap prune.
MaybeReconcile(t) ==
  /\ Take(t, "reconcile")
  /\ \/ /\ role # "ours" /\ UNCHANGED <<op, rebuilding, spent>>
     \/ /\ role = "ours" /\ auto
        /\ rebuilding' = rebuilding + 1
        /\ Become(t, At("reconcileWaits")) /\ UNCHANGED spent
     \/ /\ role = "ours" /\ ~auto /\ GateFree
        /\ rebuilding' = rebuilding + 1
        /\ Become(t, At("prune")) /\ UNCHANGED spent
     \/ /\ role = "ours" /\ ~auto          \* autoReconcile: false
        /\ Become(t, Draining(1)) /\ spent' = FALSE /\ UNCHANGED rebuilding
  /\ UNCHANGED <<auto, handover, treeVars, diskVars, state, newerFormat, eventsLost, watchVars,
                 timer, queue, missed, bounds>>

BeginReconcile(t) ==
  /\ op[t].at = "reconcileWaits" /\ GateFree
  /\ Become(t, At("reconcile"))
  /\ UNCHANGED <<auto, handover, treeVars, diskVars, indexVars, watchVars, wakeVars, queue,
                 missed, bounds>>

\* A reconcile that fails is logged; what it was to catch is not retried.
FinishReconcile(t) ==
  /\ op[t].at = "reconcile"
  /\ \/ Walked /\ eventsLost' = FALSE
     \/ /\ Fails /\ dropped' = dropped \cup unreported
        /\ UNCHANGED <<state, built, eventsLost>>
  /\ Become(t, At("ends"))
  /\ UNCHANGED <<auto, handover, rebuilding, watchVars, wakeVars, queue, edits, writes>>

\* PruneIgnored drops what is ignored now, and dates the index.
FinishPrune(t) ==
  /\ op[t].at = "prune"
  /\ \/ disk = "ok" /\ Swap /\ built' = "prune"
     \/ UNCHANGED <<state, current, newerFormat, built>>
  /\ Become(t, At("ends"))
  /\ UNCHANGED <<auto, handover, treeVars, disk, eventsLost, rebuilding, watchVars, wakeVars,
                 queue, missed, bounds>>

\* The gate goes first, then the rebuilding count, then the queue is drained.
EndRebuilding(t) ==
  /\ op[t].at = "ends"
  /\ rebuilding' = OneLess
  /\ Become(t, Draining(1)) /\ spent' = FALSE
  /\ UNCHANGED <<auto, handover, treeVars, diskVars, state, newerFormat, eventsLost, watchVars,
                 timer, tasks, queue, missed, bounds>>

\* GiveUpLiveIndexing's task.  Disposing the watcher waits for its callback; what another
\* takes in its place, or took before, is left alone (ReferenceEquals).
GiveUpWatcher(g) ==
  /\ g.at = "starts"
  /\ \/ ~newerFormat /\ giveUps' = giveUps \ {g} /\ UNCHANGED <<unreported, watchVars>>
     \/ /\ newerFormat /\ ~g.watcher /\ UNCHANGED <<unreported, watchVars>>
        /\ giveUps' = (giveUps \ {g}) \cup {[g EXCEPT !.at = "stopped"]}
     \/ /\ newerFormat /\ g.watcher /\ op[Watcher] = Idle
        /\ watching' = FALSE /\ events' = {} /\ overflow' = FALSE
        /\ unreported' = stale
        /\ giveUps' = {[h EXCEPT !.watcher = FALSE] :
                         h \in (giveUps \ {g}) \cup {[g EXCEPT !.at = "stopped"]}}
        /\ UNCHANGED role

GiveUpRole(g) ==
  /\ g.at = "stopped"
  /\ \/ /\ g.own /\ role' = "free"
        /\ giveUps' = {[h EXCEPT !.own = FALSE] : h \in giveUps \ {g}}
     \/ ~g.own /\ giveUps' = giveUps \ {g} /\ UNCHANGED role
  /\ UNCHANGED <<unreported, watching, events, overflow>>

GiveUp ==
  /\ \E g \in giveUps : GiveUpWatcher(g) \/ GiveUpRole(g)
  /\ UNCHANGED <<auto, stale, dropped, diskVars, indexVars, takeover, late, crossed, wakeVars,
                 queue, op, missed, bounds>>

-----------------------------------------------------------------------------
(* OnChanges: the watcher's callback.                                      *)

\* Keep the batch for later, or, with a newer CodeCompass's index on disk,
\* leave it to the session that can write it.
CaptureIfBusy(paths, full) ==
  IF newerFormat
    THEN dropped' = dropped \cup (stale \cap (IF full THEN stale ELSE paths))
         /\ UNCHANGED queue
    ELSE queue' = Captured(queue, paths, full) /\ UNCHANGED dropped

Deliver ==
  /\ watching /\ op[Watcher] = Idle
  /\ events # {} \/ overflow
  /\ events' = {} /\ overflow' = FALSE
  /\ LET paths == IF overflow THEN {} ELSE events
     IN IF Busy
          THEN CaptureIfBusy(paths, overflow) /\ UNCHANGED op
          ELSE /\ Become(Watcher, [At("look") EXCEPT !.paths = paths, !.full = overflow])
               /\ UNCHANGED <<queue, dropped>>
  /\ UNCHANGED <<auto, handover, stale, unreported, diskVars, indexVars, role, watching, wakeVars,
                 missed, bounds>>

Batch == op[Watcher]

\* With no lock yet, the callback looks at the state: a batch that comes while it leaves
\* "Ready" is neither queued nor applied.
LookAtState ==
  /\ Batch.at = "look"
  /\ \/ /\ state = "Ready" /\ Become(Watcher, [Batch EXCEPT !.at = "batch"])
        /\ UNCHANGED unreported
     \/ /\ state # "Ready" /\ Become(Watcher, Idle)
        /\ unreported' = IF overflow THEN unreported
             ELSE unreported \cup ({p \in stale : p \in Batch.paths \/ Batch.full} \ events)
  /\ UNCHANGED <<auto, handover, stale, dropped, diskVars, indexVars, watchVars, wakeVars,
                 queue, missed, bounds>>

\* Under the locks: what began meanwhile captures the batch after all.
CaptureLate ==
  /\ Batch.at = "batch" /\ GateFree /\ Busy
  /\ CaptureIfBusy(Batch.paths, Batch.full)
  /\ Become(Watcher, Idle)
  /\ UNCHANGED <<auto, handover, stale, unreported, diskVars, indexVars, watchVars, wakeVars,
                 missed, bounds>>

Applying == Batch.at = "batch" /\ GateFree /\ ~Busy /\ ~Batch.full

ApplyBatch ==
  /\ Applying /\ "none" \in Refresh
  /\ current' = TRUE
  /\ Apply(Taken(queue), queue.pending \cup Batch.paths, {})
  /\ \/ Become(Watcher, Idle) /\ UNCHANGED rebuilding
     \/ Become(Watcher, At("compact")) /\ rebuilding' = rebuilding + 1
  /\ UNCHANGED <<auto, handover, disk, built, state, newerFormat, eventsLost, watchVars, tasks,
                 spent, missed, edits, writes>>

HoldBatch ==
  /\ Applying
  /\ \E why \in Refresh \cap {"transient", "missing"} :
       Pay(why = "transient") /\ queue' = HeldBack(queue, Batch.paths, why)
  /\ ScheduleRetry
  /\ Become(Watcher, Idle)
  /\ UNCHANGED <<auto, handover, treeVars, diskVars, indexVars, watchVars, tasks, spent, missed,
                 edits, writes>>

LeaveToNewer ==
  /\ Applying /\ "newer" \in Refresh
  /\ EnterNewerFormat(queue)
  /\ Become(Watcher, Idle)
  /\ UNCHANGED <<auto, watchVars, missed, bounds>>

\* Events were lost: walk again, or where a walk is for the user to run, say so.
Reconcile ==
  /\ Batch.at = "batch" /\ GateFree /\ ~Busy /\ Batch.full
  /\ LoseEvents
  /\ \/ auto /\ Become(Watcher, At("rebuild")) /\ rebuilding' = rebuilding + 1
     \/ ~auto /\ Become(Watcher, Idle) /\ UNCHANGED rebuilding
  /\ UNCHANGED <<auto, handover, treeVars, disk, current, state, newerFormat, watchVars, wakeVars,
                 queue, missed, bounds>>

FinishRebuild ==
  /\ Batch.at = "rebuild"
  /\ \/ Walked /\ eventsLost' = FALSE
     \/ Fails /\ LoseEvents /\ state' = "Ready" /\ UNCHANGED dropped
  /\ rebuilding' = OneLess
  /\ Become(Watcher, Draining(1)) /\ spent' = FALSE
  /\ UNCHANGED <<auto, handover, watchVars, timer, tasks, queue, edits, writes>>

FinishCompact ==
  /\ Batch.at = "compact"
  /\ \/ Swap /\ UNCHANGED <<disk, stale, unreported, missed, faults>>
     \/ Fails /\ state' = "Ready"
  /\ rebuilding' = OneLess
  /\ Become(Watcher, Draining(1)) /\ spent' = FALSE
  /\ UNCHANGED <<auto, handover, dropped, built, eventsLost, watchVars, timer, tasks, queue,
                 edits, writes>>

-----------------------------------------------------------------------------
(* DrainPending, by whichever thread ended a build, or by the retry timer. *)

RetryFires(t) ==
  /\ timer /\ t \in Pool /\ op[t] = Idle
  /\ timer' = FALSE
  /\ queue' = [queue EXCEPT !.due = queue.unsure # {}]
  /\ Become(t, Draining(1)) /\ spent' = FALSE
  /\ UNCHANGED <<auto, handover, treeVars, diskVars, indexVars, watchVars, tasks, missed, bounds>>

StartDrain(t) ==
  /\ Take(t, "drain")
  /\ Become(t, Draining(1)) /\ spent' = FALSE
  /\ UNCHANGED <<auto, handover, treeVars, diskVars, indexVars, watchVars, timer, queue, missed,
                 bounds>>

NothingWaits(t) ==
  /\ op[t].at = "drain"
  /\ Work(queue) = {} /\ ~queue.rec
  /\ queue.due => GateFree
  /\ queue' = [queue EXCEPT !.due = FALSE]
  /\ Become(t, Idle)
  /\ UNCHANGED <<auto, handover, treeVars, diskVars, indexVars, watchVars, wakeVars, missed,
                 bounds>>

\* A round: under the locks, with something to do.
Round(t) ==
  /\ op[t].at = "drain" /\ GateFree
  /\ Work(queue) # {} \/ queue.rec

\* A rebuild that only a hold asked for, with an index loaded meanwhile.
ByHold == queue.rec /\ queue.holdWants /\ state = "Ready"
Applies == state = "Ready" /\ (~queue.rec \/ queue.holdWants)

\* The index loads: the held edits just apply (there are some: a hold that wants
\* a rebuild has edits in the queue).
DrainApplies(t) ==
  /\ Round(t) /\ Applies /\ "none" \in Refresh
  /\ current' = TRUE
  /\ Apply(HoldCleared(Drained(queue)), Work(queue), Retried(queue))
  /\ NextRound(t)
  /\ UNCHANGED <<auto, handover, disk, built, indexVars, watchVars, tasks, missed, edits, writes>>

\* It does not load: hold the edits back, now or again.
DrainHolds(t) ==
  /\ Round(t) /\ Applies
  /\ \/ /\ "transient" \in Refresh /\ Pay(TRUE)
        /\ queue' = IF ByHold THEN PutBack(Drained(queue), Work(queue), TRUE, TRUE)
                              ELSE HeldBack(Drained(queue), Work(queue), "transient")
        /\ ScheduleRetry
        /\ Become(t, Idle) /\ UNCHANGED spent
     \/ /\ "missing" \in Refresh /\ ~ByHold /\ UNCHANGED <<faults, timer>>
        /\ queue' = HeldBack(Drained(queue), Work(queue), "missing")
        /\ NextRound(t)
  /\ UNCHANGED <<auto, handover, treeVars, diskVars, indexVars, watchVars, tasks, missed, edits,
                 writes>>

DrainLeavesToNewer(t) ==
  /\ Round(t) /\ Applies /\ "newer" \in Refresh
  /\ EnterNewerFormat(Drained(queue))
  /\ Become(t, Idle)
  /\ UNCHANGED <<auto, watchVars, missed, bounds>>

\* No index is loaded yet: keep it all for when one is.
DrainWaits(t) ==
  /\ Round(t) /\ state # "Ready"
  /\ queue' = PutBack(Drained(queue), Work(queue), queue.rec, FALSE)
  /\ Become(t, Idle)
  /\ UNCHANGED <<auto, handover, treeVars, diskVars, indexVars, watchVars, wakeVars, missed,
                 bounds>>

DrainReconciles(t) ==
  /\ Round(t) /\ state = "Ready" /\ queue.rec
  /\ queue.holdWants => "missing" \in Refresh
  /\ rebuilding' = rebuilding + 1
  /\ \/ /\ auto /\ queue' = Drained(queue)
        /\ Become(t, [op[t] EXCEPT !.at = "drainBuild"])
        /\ UNCHANGED <<eventsLost, built>>
     \/ /\ ~auto /\ queue' = HoldEnded(Drained(queue))
        /\ LoseEvents
        /\ Become(t, [op[t] EXCEPT !.at = "drainEnds"])
  /\ UNCHANGED <<auto, handover, treeVars, disk, current, state, newerFormat, watchVars, wakeVars,
                 missed, bounds>>

FinishDrainBuild(t) ==
  /\ op[t].at = "drainBuild"
  /\ \/ /\ Walked /\ eventsLost' = FALSE
        /\ Become(t, [op[t] EXCEPT !.at = "drainEnds"])
     \/ /\ Fails /\ LoseEvents /\ UNCHANGED <<state, dropped>>
        /\ Become(t, [op[t] EXCEPT !.at = "drainFails"])
  /\ queue' = HoldEnded(queue)
  /\ UNCHANGED <<auto, handover, rebuilding, watchVars, wakeVars, edits, writes>>

EndDrainBuild(t) ==
  /\ \/ op[t].at = "drainEnds" /\ NextRound(t)
     \/ op[t].at = "drainFails" /\ Become(t, Idle) /\ spent' = TRUE
  /\ rebuilding' = OneLess
  /\ UNCHANGED <<auto, handover, treeVars, diskVars, state, newerFormat, eventsLost, watchVars,
                 timer, tasks, queue, missed, bounds>>

-----------------------------------------------------------------------------
EmptyQueue == [pending |-> {}, rec |-> FALSE, holdWants |-> FALSE, held |-> FALSE,
               unsure |-> {}, due |-> FALSE]

Init ==
  /\ auto \in BOOLEAN
  /\ disk \in {"ok", "gone", "newer"} /\ current = FALSE /\ built = "none"
  /\ stale \in SUBSET Paths /\ unreported = stale /\ dropped = {}
  /\ state = "NotStarted" /\ newerFormat = FALSE /\ eventsLost = FALSE /\ rebuilding = 0
  /\ role \in {"ours", "other"}
  /\ watching = (role = "ours") /\ events = {} /\ overflow = FALSE
  /\ giveUps = {} /\ takeover = [q \in Queries |-> "none"]
  /\ late = FALSE /\ crossed = FALSE
  /\ queue = EmptyQueue /\ timer = FALSE /\ tasks = {} /\ spent = FALSE
  /\ op = [t \in Threads |-> Idle] /\ missed = {}
  /\ edits = 0 /\ writes = 0 /\ faults = 0

Query ==
  \/ EnsureStarted \/ MaybeReloadExternal
  \/ \E q \in Queries : MaybePromoteToOwner(q)

Drain(t) ==
  \/ RetryFires(t) \/ StartDrain(t) \/ NothingWaits(t)
  \/ DrainApplies(t) \/ DrainHolds(t) \/ DrainLeavesToNewer(t) \/ DrainWaits(t)
  \/ DrainReconciles(t) \/ FinishDrainBuild(t) \/ EndDrainBuild(t)

Startup(t) ==
  \/ BackgroundBuild(t) \/ BackgroundBuildRefused(t) \/ FinishBuild(t)
  \/ MaybeReconcile(t) \/ BeginReconcile(t) \/ FinishReconcile(t)
  \/ FinishPrune(t) \/ EndRebuilding(t)

OnChanges ==
  \/ Deliver \/ LookAtState \/ CaptureLate \/ ApplyBatch \/ HoldBatch \/ LeaveToNewer
  \/ Reconcile \/ FinishRebuild \/ FinishCompact

Next ==
  \/ \E p \in Paths : Edit(p)
  \/ ExternalWrite \/ OwnerExits
  \/ Query \/ GiveUp \/ OnChanges
  \/ \E t \in Pool : Reindex(t) \/ FinishReindex(t) \/ Startup(t)
  \/ \E t \in Threads : Drain(t)

Spec == Init /\ [][Next]_vars

-----------------------------------------------------------------------------
TypeOK ==
  /\ auto \in BOOLEAN
  /\ disk \in {"ok", "gone", "newer"} /\ current \in BOOLEAN
  /\ built \in {"none", "walk", "prune"}
  /\ stale \subseteq Paths /\ unreported \subseteq stale /\ dropped \subseteq stale
  /\ state \in {"NotStarted", "Building", "Ready", "NeedsCliBuild"}
  /\ newerFormat \in BOOLEAN /\ eventsLost \in BOOLEAN /\ rebuilding \in Nat
  /\ role \in {"ours", "other", "free"} /\ watching \in BOOLEAN
  /\ events \subseteq Paths /\ overflow \in BOOLEAN
  /\ queue \in QueueType
  /\ timer \in BOOLEAN /\ tasks \subseteq {"build", "reconcile", "drain"}
  /\ giveUps \subseteq GiveUpType /\ takeover \in [Queries -> TakeoverSteps]
  /\ late \in BOOLEAN /\ crossed \in BOOLEAN
  /\ spent \in BOOLEAN /\ missed \subseteq Paths
  /\ op \in [Threads -> OpType]

\* A query has taken the role and is about to watch and catch up.
TakingOver == \E q \in Queries : takeover[q] \in {"took", "watches"}

\* Somebody will look at the queue again without a further edit or query.
Attended ==
  \/ timer \/ spent \/ TakingOver
  \/ tasks \cap {"drain", "reconcile"} # {}
  \/ \E t \in Threads : op[t].at \notin {"idle", "look", "batch"}

\* The role is about to be handed back: its watcher was stopped.
Releasing == \E g \in giveUps : g.at = "stopped" /\ g.own

\* A path whose last change the index lacks is in somebody's hands.
InHand(p) ==
  \/ p \in events \/ overflow
  \/ Batch.at \in {"look", "batch"} /\ (p \in Batch.paths \/ Batch.full)
  \/ (p \in queue.pending \/ queue.rec \/ p \in queue.unsure) /\ Attended
  \/ "reconcile" \in tasks
  \/ p \in unreported /\ TakingOver
  \/ \E t \in Threads : \/ op[t].at \in Walks /\ p \notin missed
                        \/ op[t].at = "reconcileWaits"

Serving ==
  /\ state = "Ready" /\ role = "ours" /\ ~newerFormat
  /\ ~Releasing /\ ~crossed

\* A change this session's watcher saw (where walks run unasked, one made while
\* nobody watched, or whose batch was lost, as well) is in the index, in the hands of
\* something that will apply it, or every answer says the results may be stale: through
\* captures, holds, retries, rebuilds that fail, give-ups and takeovers of the role, and the
\* writes of other processes (ServerContext.cs, OnChanges, DrainPending and the startup
\* tasks).  While answers say that edits are held back and being retried, they are
\* (HeldBackNote, ServerContext.cs:487-493).
EditsAreKept ==
  Serving =>
    /\ \A p \in stale \ dropped :
         (p \in unreported => auto) => InHand(p) \/ eventsLost
    /\ queue.held /\ (queue.pending # {} \/ queue.rec) => Attended

\* A session that cannot write the index on disk does not sit on the role of
\* writing it, but for one whose takeover a give-up overtook (MaybePromoteToOwner,
\* GiveUpLiveIndexing).
RoleIsGivenBack ==
  newerFormat /\ role = "ours" /\ ~late => \E g \in giveUps : g.own

\* What EditsAreKept says of changes made while nobody watched, for a session too that
\* takes the role over while its own build runs: a takeover "reconciles once to catch the
\* edits made while nobody was watching" (ServerContext.cs:330-331).
TakeoverCatchesUp ==
  Serving /\ auto => \A p \in unreported : InHand(p) \/ eventsLost
=============================================================================

------------------------------ MODULE LinkedRoot ------------------------------
(***************************************************************************)
(* One linked root of a server session (ServerContext.cs): another tree    *)
(* whose index the session reads beside its own, and writes while it holds *)
(* that index's live-watch role.  The root is linked, unlinked, purged,    *)
(* taken over and given up while its watcher's batches, its startup        *)
(* reconcile, the retry timer and the queries' reloads are under way.      *)
(*                                                                         *)
(* Four locks order them: _linkedGate, held by "life" from its first step  *)
(* to its last; BuildGate; the index's write lock, inside it; and Rw, held *)
(* for reading by a query and for writing within one step of ours.  Each   *)
(* link makes a LinkedRoot object of its own, which threads still at work  *)
(* for an unlinked one keep.  The session's own root and its other linked  *)
(* roots are here as users of BuildGate and of the one retry timer.  Trees *)
(* are local: paths a share does not answer for are in LiveSession.  No    *)
(* re-point and no shutdown, as there.                                     *)
(***************************************************************************)
EXTENDS Naturals, FiniteSets

CONSTANTS
  Paths,       \* the files of the root
  Pool,        \* the threads that retries run on, numbered
  MaxPending,  \* edits held back before a rebuild replaces them (50,000)
  MaxLinks,    \* objects: how often the root is linked
  MaxLinkEdits,  \* bound on the changes of links.json
  MaxEvents,     \* bound on edits, other processes' writes, and other roots' retries
  MaxFaults      \* bound on the failures

ASSUME LinkedRootAssumption ==
  /\ Pool \subseteq Nat
  /\ MaxPending \in Nat /\ MaxLinks \in Nat \ {0}
  /\ MaxLinkEdits \in Nat /\ MaxEvents \in Nat /\ MaxFaults \in Nat

Objs == 1..MaxLinks
Free == 0                  \* of the role: nobody holds it
Elsewhere == MaxLinks + 1  \* another session does
Callback(o) == <<"callback", o>>  \* the watcher's thread, in OnLinkedChanges
Load(o) == <<"load", o>>          \* LoadReconcile and what is chained to it
Retry(k) == <<"retry", k>>
Query == <<"query", 0>>           \* in MaybeReloadLinked
Others == <<"others", 0>>         \* whoever else takes BuildGate
Watches == {Callback(o) : o \in Objs}
Loads == {Load(o) : o \in Objs}
Retries == {Retry(k) : k \in Pool}
Batches == Watches \cup Retries
Threads == Batches \cup Loads \cup {Query, Others}

VARIABLES
  auto,      \* ShouldAutoReconcile: a walk may run unasked here
  stale,     \* the paths whose last change the index on disk lacks
  dropped,   \* ghost: those of them the code lets go of with a line in the log, or
             \* leaves with an object that has been unlinked since
  missed,    \* ghost: changed since the running walk began
  index,     \* the index on disk: its state, its contents' number, its generation
  other,     \* another process holds the write lock, its write not yet published
  role,      \* of live-watching the root: Free, Elsewhere, or an object's
  links,     \* links.json, and the signature of it last acted on
  linked,    \* the object in _linked, 0 for none
  root,      \* the LinkedRoot objects
  life,      \* what the holder of _linkedGate is doing
  giveUps,   \* GiveUpLinkedRoot's tasks, not yet begun
  op,        \* what each thread is doing
  events, overflow,  \* what the root's watcher has still to deliver
  timer,     \* the retry timer is armed
  reading,   \* a query under Rw: the object and the contents it reads
  happened, faults  \* events and failures so far

treeVars == <<auto, stale, dropped, missed>>
diskVars == <<index, other>>
watchVars == <<events, overflow>>
bounds == <<happened, faults>>
lifeVars == <<links, linked, life>>
vars == <<treeVars, diskVars, role, lifeVars, root, giveUps, op, watchVars, timer,
          reading, bounds>>

Stages == {"idle", "fired", "queued", "waits", "lock", "walk", "install", "catch",
           "finally", "reload", "other"}
Phases == {"idle", "load", "publish", "watch", "stop", "drain", "join"}
OpType == [at : Stages, obj : 0..MaxLinks, paths : SUBSET Paths, full : BOOLEAN,
           bump : BOOLEAN, arms : BOOLEAN, gen : Nat]
RootType == [handle : Nat, gen : Nat, failed : Nat, held : SUBSET Paths,
             flag : BOOLEAN, newer : BOOLEAN, never : BOOLEAN, watch : BOOLEAN,
             live : BOOLEAN, again : BOOLEAN, passed : BOOLEAN]
LifeType == [at : Phases, obj : 0..MaxLinks, gen : Nat, sig : Nat, unlinks : BOOLEAN]

Idle == [at |-> "idle", obj |-> 0, paths |-> {}, full |-> FALSE, bump |-> FALSE,
         arms |-> FALSE, gen |-> 0]
At(stage) == [Idle EXCEPT !.at = stage]
AtRest == [at |-> "idle", obj |-> 0, gen |-> 0, sig |-> 0, unlinks |-> FALSE]
NewRoot == [handle |-> 0, gen |-> 0, failed |-> 0, held |-> {}, flag |-> FALSE,
            newer |-> FALSE, never |-> FALSE, watch |-> FALSE, live |-> FALSE,
            again |-> FALSE, passed |-> FALSE]

Become(t, what) == op' = [op EXCEPT ![t] = what]
Advance(t, stage) == op' = [op EXCEPT ![t].at = stage]
Holding == {"lock", "walk", "install", "catch", "finally", "reload", "other"}

\* Mutant: BuildGate is not taken by a query's reload.
GateFree_Query == \A t \in Threads \ {Query} : op[t].at \notin Holding

GateFree == \A t \in Threads : op[t].at \notin Holding
LockFree == ~other /\ \A t \in Threads : op[t].at \notin {"walk", "install"}

Unread == reading.obj = 0  \* nobody holds Rw for reading

HeldBy(o) == IF o = 0 THEN {} ELSE root[o].held

MayFail == faults < MaxFaults
Pay == MayFail /\ faults' = faults + 1
Happens == happened < MaxEvents /\ happened' = happened + 1

\* Changes that are with the watcher, held back, or in a thread's hands.
Carried == events \cup HeldBy(linked) \cup UNION {op[t].paths : t \in Threads}

Init ==
  /\ auto \in BOOLEAN /\ stale = {} /\ dropped = {} /\ missed = {}
  /\ index = [is |-> "ok", ver |-> 1, gen |-> 1] /\ other = FALSE
  /\ role \in {Free, Elsewhere}
  /\ links = [wanted |-> TRUE, sig |-> 1, seen |-> 0]
  /\ linked = 0 /\ root = [o \in Objs |-> NewRoot] /\ life = AtRest /\ giveUps = {}
  /\ op = [t \in Threads |-> Idle]
  /\ events = {} /\ overflow = FALSE /\ timer = FALSE
  /\ reading = [obj |-> 0, ver |-> 0]
  /\ happened = 0 /\ faults = 0

-----------------------------------------------------------------------------
(* A batch: OnLinkedChanges, on the watcher's thread or a retry's.         *)

\* The watcher delivers; after an overflow there are no paths to name.
Deliver(o) ==
  /\ root[o].watch
  /\ op[Callback(o)] = Idle /\ (events # {} \/ overflow)
  /\ Become(Callback(o), [At("waits") EXCEPT !.paths = IF overflow THEN {} ELSE events,
                                             !.full = overflow])
  /\ events' = {} /\ overflow' = FALSE
  /\ UNCHANGED <<treeVars, diskVars, role, lifeVars, root, giveUps, timer, reading, bounds>>

\* RetryHeldBack.  The second or more between arming and firing outlasts the two
\* steps from the arming to the end of the batch that armed it.
RetryFires(k) ==
  /\ timer /\ timer' = FALSE
  /\ ~\E t \in Threads : op[t].at = "finally" /\ op[t].arms
  /\ op[Retry(k)] = Idle /\ Become(Retry(k), At("fired"))
  /\ UNCHANGED <<treeVars, diskVars, role, lifeVars, root, giveUps, watchVars,
                 reading, bounds>>

\* ... which looks at the flag, not at what BuildGate guards: it passes by a root
\* whose batch has held edits back and not said so yet (the ghost "passed").
RetryLooks(k) ==
  /\ op[Retry(k)].at = "fired"
  /\ LET o == linked
         takes == o # 0 /\ root[o].flag
     IN /\ Become(Retry(k), IF takes THEN At("waits") ELSE Idle)
        /\ root' = IF o # 0 /\ ~takes /\ root[o].held # {}
                     THEN [root EXCEPT ![o].passed = TRUE] ELSE root
  /\ UNCHANGED <<treeVars, diskVars, role, lifeVars, giveUps, watchVars, timer,
                 reading, bounds>>

\* Mutant: a batch with nothing to do forgets to let go of BuildGate.
Released_Not(t) == At("other")

\* The end of a batch, in its finally.
Released(t) == Idle

Leave(t, o, held) ==
  /\ Become(t, Released(t))
  /\ root' = IF o = 0 THEN root
             ELSE [root EXCEPT ![o].held = held, ![o].flag = held # {},
                               ![o].passed = @ /\ held # {}]

\* Mutant: what is held back waits for the timer, and the batch goes alone.
Merged_Not(held, paths) == paths

Merged(held, paths) == held \cup paths

\* Under BuildGate: find the root by its path, and take what is held back along.
Enter(t) ==
  /\ op[t].at = "waits" /\ t \notin Loads /\ GateFree
  /\ LET held == HeldBy(linked)
         over == held # {} /\ Cardinality(held) + Cardinality(op[t].paths) > MaxPending
         paths == Merged(IF over THEN {} ELSE held, op[t].paths)
         full == op[t].full \/ over
         newer == linked # 0 /\ root[linked].newer
     IN IF newer \/ (paths = {} /\ ~full)
          THEN /\ Leave(t, linked, {})
               /\ dropped' = dropped \cup (IF full THEN stale \ events ELSE stale \cap paths)
          ELSE /\ Become(t, [At("lock") EXCEPT !.obj = linked, !.paths = paths,
                                               !.full = full])
               /\ root' = IF linked = 0 THEN root ELSE [root EXCEPT ![linked].held = {}]
               /\ UNCHANGED dropped
  /\ UNCHANGED <<auto, stale, missed, diskVars, role, lifeVars, giveUps, watchVars, timer,
                 reading, bounds>>

\* Lost events where a walk is for the user to run: logged, and left.
SkipRebuild(t) ==
  /\ op[t].at = "lock" /\ op[t].full /\ ~auto /\ LockFree
  /\ Leave(t, op[t].obj, HeldBy(op[t].obj) \cup op[t].paths)
  /\ dropped' = dropped \cup
       (stale \ (events \cup IF op[t].obj = linked THEN op[t].paths ELSE {}))
  /\ UNCHANGED <<auto, stale, missed, diskVars, role, lifeVars, giveUps, watchVars, timer,
                 reading, bounds>>

\* UpdatePaths on an index that loads.  An ignore file among the paths has a
\* reconcile follow, chained to the root's own while it is live-indexed.
Update(t) ==
  /\ op[t].at = "lock" /\ t \notin Loads /\ ~op[t].full /\ LockFree
  /\ index.is = "ok"
  /\ LET touched == stale \cap op[t].paths # {}
         written == [op EXCEPT ![t].at = "install", ![t].bump = touched, ![t].paths = {}]
     IN /\ stale' = stale \ op[t].paths /\ dropped' = dropped \ op[t].paths
        /\ index' = IF touched THEN [index EXCEPT !.ver = @ + 1] ELSE index
        /\ \/ op' = written /\ UNCHANGED root
           \/ /\ touched /\ linked # 0 /\ root[linked].live
              /\ IF op[Load(linked)] = Idle
                   THEN op' = [written EXCEPT ![Load(linked)] = At("queued")] /\ UNCHANGED root
                   ELSE op' = written /\ root' = [root EXCEPT ![linked].again = TRUE]
  /\ UNCHANGED <<auto, missed, other, role, lifeVars, giveUps, watchVars, timer, reading, bounds>>

\* Build, for lost events or because the index is gone; and a load's Update.
BeginWalk(t) ==
  /\ op[t].at = "lock" /\ LockFree /\ index.is # "newer"
  /\ IF t \in Loads THEN root[t[2]].live
                    ELSE IF op[t].full THEN auto ELSE index.is = "gone"
  /\ missed' = {} /\ Advance(t, "walk")
  /\ UNCHANGED <<auto, stale, dropped, diskVars, role, lifeVars, root, giveUps, watchVars,
                 timer, reading, bounds>>

\* A reconcile that finds nothing to do writes nothing; a build always does.
EndWalk(t) ==
  /\ op[t].at = "walk"
  /\ LET untouched == t \in Loads /\ index.is = "ok" /\ stale \subseteq missed
     IN /\ index' = IF untouched THEN index ELSE [index EXCEPT !.is = "ok", !.ver = @ + 1]
        /\ op' = [op EXCEPT ![t].at = "install", ![t].bump = ~untouched, ![t].paths = {}]
  /\ stale' = stale \cap missed /\ dropped' = dropped \cap missed
  /\ missed' = {}
  /\ UNCHANGED <<auto, other, role, lifeVars, root, giveUps, watchVars, timer, reading, bounds>>

\* Commit and SwapLinked, the write lock still held; the end of the batch.
\* SwapLinked finds the object by the root's path once more.
Install(t) ==
  /\ op[t].at = "install" /\ Unread
  /\ LET gen == IF op[t].bump THEN index.gen + 1 ELSE index.gen
         r == IF linked = 0 THEN root
              ELSE [root EXCEPT ![linked].handle = index.ver, ![linked].gen = gen]
     IN /\ index' = [index EXCEPT !.gen = gen]
        /\ IF t \in Loads
             THEN /\ Become(t, IF root[t[2]].again THEN At("queued") ELSE Idle)
                  /\ root' = [r EXCEPT ![t[2]].again = FALSE]
             ELSE /\ Become(t, Released(t))
                  /\ root' = IF op[t].obj = 0 THEN r
                             ELSE [r EXCEPT ![op[t].obj].flag = HeldBy(op[t].obj) # {},
                                       ![op[t].obj].passed = FALSE]
  /\ UNCHANGED <<treeVars, other, role, lifeVars, giveUps, watchVars, timer, reading, bounds>>

\* The update throws: the index cannot be read now or is a newer CodeCompass's,
\* which publishes nothing, or it fails half-way, which does.
Throw(t) ==
  /\ t \notin Loads
  /\ \/ /\ op[t].at = "lock" /\ LockFree /\ (op[t].full => auto)
        /\ \/ index.is = "newer" /\ UNCHANGED <<index, faults>>
           \/ Pay /\ index' \in {index, [index EXCEPT !.gen = @ + 1]}
     \/ op[t].at = "walk" /\ Pay /\ index' = [index EXCEPT !.gen = @ + 1]
  /\ Advance(t, "catch") /\ missed' = {}
  /\ UNCHANGED <<auto, stale, dropped, other, role, lifeVars, root, giveUps, watchVars, timer,
                 reading, happened>>

\* GiveUpLinkedRoot: what it does at once; the rest is a task's.
GivenUp(r) ==
  IF linked = 0 \/ root[linked].newer THEN r
  ELSE [r EXCEPT ![linked].newer = TRUE, ![linked].never = TRUE]
GiveUpBegins ==
  giveUps' = IF linked = 0 \/ root[linked].newer THEN giveUps ELSE giveUps \cup {linked}

\* ScheduleRetry: one that is armed is left alone.
ScheduleRetry(held) == timer \/ held # {}

\* The handler: keep the edits and have them retried, unless a newer CodeCompass
\* wrote the index.  The rebuild that lost events asked for is not asked for again.
Catch(t) ==
  /\ op[t].at = "catch"
  /\ LET o == op[t].obj
         held == HeldBy(o) \cup (IF o = 0 THEN {} ELSE op[t].paths)
         kept == IF index.is = "newer" THEN {} ELSE held
         r == IF o = 0 THEN root ELSE [root EXCEPT ![o].held = kept, ![o].passed = FALSE]
     IN /\ root' = IF index.is = "newer" THEN GivenUp(r) ELSE r
        /\ IF index.is = "newer" THEN GiveUpBegins ELSE UNCHANGED giveUps
        /\ timer' = ScheduleRetry(kept)
        /\ op' = [op EXCEPT ![t] = [At("finally") EXCEPT !.obj = o,
                                      !.arms = ~timer /\ timer']]
        /\ dropped' = dropped \cup (IF op[t].full THEN stale \ (events \cup kept) ELSE {})
                              \cup (IF index.is = "newer" \/ o # linked THEN stale \cap held ELSE {})
  /\ UNCHANGED <<auto, stale, missed, diskVars, role, lifeVars, watchVars, reading, bounds>>

Finally(t) ==
  /\ op[t].at = "finally"
  /\ Leave(t, op[t].obj, HeldBy(op[t].obj))
  /\ UNCHANGED <<treeVars, diskVars, role, lifeVars, giveUps, watchVars, timer, reading, bounds>>

-----------------------------------------------------------------------------
(* The root's reconcile: its token is cancelled when the root is let go.   *)

LoadEnds(o) ==
  /\ Become(Load(o), IF root[o].again THEN At("queued") ELSE Idle)
  /\ root' = [root EXCEPT ![o].again = FALSE]

\* Not begun: gated off, cancelled before or while it waits.
LoadSkips(o) ==
  /\ \/ op[Load(o)].at = "queued" /\ (~auto \/ ~root[o].live)
     \/ op[Load(o)].at \in {"waits", "lock"} /\ ~root[o].live
  /\ LoadEnds(o)
  /\ dropped' = dropped \cup (stale \ Carried)
  /\ UNCHANGED <<auto, stale, missed, diskVars, role, lifeVars, giveUps, watchVars, timer,
                 reading, bounds>>

LoadStarts(o) ==
  /\ op[Load(o)].at = "queued" /\ auto /\ root[o].live
  /\ Advance(Load(o), "waits")
  /\ UNCHANGED <<treeVars, diskVars, role, lifeVars, root, giveUps, watchVars, timer,
                 reading, bounds>>

LoadEnters(o) ==
  /\ op[Load(o)].at = "waits" /\ root[o].live /\ GateFree
  /\ op' = [op EXCEPT ![Load(o)].at = "lock", ![Load(o)].obj = o]
  /\ UNCHANGED <<treeVars, diskVars, role, lifeVars, root, giveUps, watchVars, timer,
                 reading, bounds>>

\* It throws, cancelled in its walk among the reasons: logged, and not retried.
LoadFails(o) ==
  /\ \/ /\ op[Load(o)].at = "lock" /\ LockFree
        /\ (index.is = "newer" /\ UNCHANGED faults) \/ Pay
        /\ UNCHANGED index
     \/ /\ op[Load(o)].at = "walk"
        /\ (~root[o].live /\ UNCHANGED faults) \/ Pay
        /\ index' = [index EXCEPT !.gen = @ + 1]
  /\ LoadEnds(o)
  /\ missed' = {}
  /\ dropped' = dropped \cup (stale \ Carried)
  /\ UNCHANGED <<auto, stale, other, role, lifeVars, giveUps, watchVars, timer, reading,
                 happened>>

-----------------------------------------------------------------------------
(* A query: MaybeReloadLinked, then the read itself.                       *)

\* BuildGate.Wait(0), and the generation once more under it.
Reload ==
  /\ op[Query] = Idle /\ GateFree /\ linked # 0
  /\ index.gen \notin {root[linked].gen, root[linked].failed}
  /\ Become(Query, [At("reload") EXCEPT !.obj = linked, !.gen = index.gen])
  /\ UNCHANGED <<treeVars, diskVars, role, lifeVars, root, giveUps, watchVars, timer,
                 reading, bounds>>

\* TryLoad and SwapLinked; a newer CodeCompass's index is tried again once it moves.
Reloaded ==
  /\ op[Query].at = "reload"
  /\ LET o == op[Query].obj
     IN \/ /\ index.is = "ok" /\ Unread
           /\ LET r == IF linked = 0 THEN root
                       ELSE [root EXCEPT ![linked].handle = index.ver,
                                         ![linked].gen = op[Query].gen]
              IN root' = [r EXCEPT ![o].failed = 0, ![o].newer = FALSE,
                                   ![o].never = @ /\ ~root[o].newer]
           /\ UNCHANGED <<giveUps, faults>>
        \/ /\ index.is = "newer"
           /\ root' = GivenUp([root EXCEPT ![o].failed = op[Query].gen])
           /\ GiveUpBegins
           /\ UNCHANGED faults
        \/ /\ index.is = "gone" /\ UNCHANGED <<root, giveUps, faults>>
        \/ /\ index.is = "ok" /\ Pay /\ UNCHANGED <<root, giveUps>>
  /\ Become(Query, Idle)
  /\ UNCHANGED <<treeVars, diskVars, role, lifeVars, watchVars, timer, reading, happened>>

Read ==
  /\ Unread /\ linked # 0
  /\ reading' = [obj |-> linked, ver |-> root[linked].handle]
  /\ UNCHANGED <<treeVars, diskVars, role, lifeVars, root, giveUps, op, watchVars, timer, bounds>>

EndRead ==
  /\ ~Unread /\ reading' = [obj |-> 0, ver |-> 0]
  /\ UNCHANGED <<treeVars, diskVars, role, lifeVars, root, giveUps, op, watchVars, timer, bounds>>

-----------------------------------------------------------------------------
(* The lifecycle, under _linkedGate.                                       *)

LifeFree == life.at = "idle"

\* MaybeReconcileLinks has done what links.json said at the signature it read.
LinksDone(sig) == life' = AtRest /\ links' = [links EXCEPT !.seen = sig]

\* ReconcileTo, the set as it was.
Reconciled ==
  /\ LifeFree /\ links.sig # links.seen /\ links.wanted = (linked # 0)
  /\ LinksDone(links.sig)
  /\ UNCHANGED <<treeVars, diskVars, role, linked, root, giveUps, op, watchVars, timer,
                 reading, bounds>>

\* ReconcileTo, a root more: read the generation first, then load the index.
NextObj == CHOOSE o \in Objs : /\ root[o].gen = 0
                               /\ \A older \in 1..(o - 1) : root[older].gen # 0
Link ==
  /\ LifeFree /\ links.sig # links.seen /\ links.wanted /\ linked = 0
  /\ \E o \in Objs : root[o].gen = 0
  /\ life' = [AtRest EXCEPT !.at = "load", !.gen = index.gen, !.sig = links.sig]
  /\ UNCHANGED <<treeVars, diskVars, role, links, linked, root, giveUps, op, watchVars, timer,
                 reading, bounds>>

LinkLoads ==
  /\ life.at = "load"
  /\ \/ /\ index.is = "ok"
        /\ LET o == NextObj
           IN /\ root' = [root EXCEPT ![o].handle = index.ver, ![o].gen = life.gen]
              /\ life' = [life EXCEPT !.at = "publish", !.obj = o]
              /\ role' = IF role = Free THEN o ELSE role
        /\ UNCHANGED <<faults, links>>
     \/ /\ (index.is # "ok" /\ UNCHANGED faults) \/ Pay
        /\ LinksDone(life.sig)
        /\ UNCHANGED <<root, role>>
  /\ UNCHANGED <<treeVars, diskVars, linked, giveUps, op, watchVars, timer, reading, happened>>

\* Mutant: the generation is read once the index is loaded.
PublishedGen_After(o) == index.gen

PublishedGen(o) == root[o].gen

Publish ==
  /\ life.at = "publish" /\ Unread
  /\ linked' = life.obj
  /\ root' = [root EXCEPT ![life.obj].gen = PublishedGen(life.obj)]
  /\ IF role = life.obj
       THEN life' = [life EXCEPT !.at = "watch"] /\ UNCHANGED links
       ELSE LinksDone(life.sig)
  /\ UNCHANGED <<treeVars, diskVars, role, giveUps, op, watchVars, timer, reading, bounds>>

\* StartLinkedWatch: watch, and reconcile for what came before; or hand the role
\* back, to try again later.
StartLinkedWatch ==
  /\ life.at = "watch"
  /\ LET o == life.obj
     IN \/ /\ root' = [root EXCEPT ![o].watch = TRUE, ![o].live = TRUE]
           /\ op' = [op EXCEPT ![Load(o)] = At("queued")]
           /\ UNCHANGED <<role, faults>>
        \/ /\ Pay
           /\ root' = [root EXCEPT ![o].never = FALSE]
           /\ role' = Free
           /\ UNCHANGED op
  /\ LinksDone(life.sig)
  /\ UNCHANGED <<treeVars, diskVars, linked, giveUps, watchVars, timer, reading, happened>>

\* MaybePromoteLinked: the role is free, and this object not barred from it.
\* (A back-off is no guard: time passes.)
MaybePromoteLinked ==
  /\ LifeFree /\ linked # 0 /\ role = Free /\ ~root[linked].never
  /\ role' = linked
  /\ life' = [AtRest EXCEPT !.at = "watch", !.obj = linked, !.sig = links.seen]
  /\ UNCHANGED <<treeVars, diskVars, links, linked, root, giveUps, op, watchVars, timer,
                 reading, bounds>>

\* ReconcileTo, a root less: out of _linked first, so that no query finds it.
Unlink ==
  /\ LifeFree /\ links.sig # links.seen /\ ~links.wanted /\ linked # 0 /\ Unread
  /\ linked' = 0
  /\ life' = [at |-> "stop", obj |-> linked, gen |-> 0, sig |-> links.sig, unlinks |-> TRUE]
  /\ UNCHANGED <<treeVars, diskVars, role, links, root, giveUps, op, watchVars, timer,
                 reading, bounds>>

\* GiveUpLinkedRoot's task.
GiveUp(o) ==
  /\ LifeFree /\ o \in giveUps /\ giveUps' = giveUps \ {o}
  /\ life' = [AtRest EXCEPT !.at = "stop", !.obj = o, !.sig = links.seen]
  /\ UNCHANGED <<treeVars, diskVars, role, links, linked, root, op, watchVars, timer, reading,
                 bounds>>

\* Watcher.Dispose: no more events, then wait for the batch it is in.
StopWatching ==
  /\ life.at = "stop" /\ life' = [life EXCEPT !.at = "drain"]
  /\ root' = [root EXCEPT ![life.obj].watch = FALSE]
  /\ IF root[life.obj].watch THEN events' = {} /\ overflow' = FALSE ELSE UNCHANGED watchVars
  /\ UNCHANGED <<treeVars, diskVars, role, links, linked, giveUps, op, timer, reading, bounds>>

\* StopLoadReconcile: cancel it ...
CancelLoad ==
  /\ life.at = "drain" /\ op[Callback(life.obj)] = Idle /\ life' = [life EXCEPT !.at = "join"]
  /\ root' = [root EXCEPT ![life.obj].live = FALSE]
  /\ UNCHANGED <<treeVars, diskVars, role, links, linked, giveUps, op, watchVars, timer,
                 reading, bounds>>

\* Mutant: ... and do not wait.
Joined_Not(o) == TRUE

\* ... wait for it, and let go of the role; of the handles too, if unlinked.
Joined(o) == op[Load(o)] = Idle

LetGo ==
  /\ life.at = "join" /\ Joined(life.obj)
  /\ role' = IF role = life.obj THEN Free ELSE role
  /\ root' = IF life.unlinks THEN [root EXCEPT ![life.obj].handle = 0] ELSE root
  /\ LinksDone(life.sig)
  /\ UNCHANGED <<treeVars, diskVars, linked, giveUps, op, watchVars, timer, reading, bounds>>

-----------------------------------------------------------------------------
(* links.json and the tools.                                               *)

\* LinkManager.Add and Remove write links.json, here or in a terminal.
EditLinks ==
  /\ links.sig <= MaxLinkEdits
  /\ links' = [links EXCEPT !.wanted = ~@, !.sig = @ + 1]
  /\ UNCHANGED <<treeVars, diskVars, role, linked, life, root, giveUps, op, watchVars, timer,
                 reading, bounds>>

\* The end of a reindex has the links looked at again (_linksChecked).
Recheck ==
  /\ LifeFree /\ links.wanted /\ linked = 0 /\ links.seen # 0
  /\ links' = [links EXCEPT !.seen = 0]
  /\ UNCHANGED <<treeVars, diskVars, role, linked, life, root, giveUps, op, watchVars, timer,
                 reading, bounds>>

\* The index's files are all closed: a directory with an open one is not moved.
Closed == (\A o \in Objs : root[o].handle = 0) /\ role = Free /\ LockFree

\* manage_links remove purge, once ReconcileLinksNow has returned.
Purge ==
  /\ ~links.wanted /\ linked = 0 /\ LifeFree /\ links.seen = links.sig
  /\ index.is # "gone" /\ Closed
  /\ index' = [index EXCEPT !.is = "gone", !.gen = @ + 1]
  /\ UNCHANGED <<treeVars, other, role, lifeVars, root, giveUps, op, watchVars, timer, reading,
                 bounds>>

-----------------------------------------------------------------------------
(* The tree, the other processes, and the rest of this session.            *)

Edit(p) ==
  /\ Happens
  /\ stale' = stale \cup {p} /\ dropped' = dropped \ {p}
  /\ missed' = IF \E t \in Threads : op[t].at = "walk" THEN missed \cup {p} ELSE missed
  /\ IF \E o \in Objs : root[o].watch
       THEN \/ events' = events \cup {p} /\ UNCHANGED overflow
            \/ overflow' = TRUE /\ UNCHANGED events
       ELSE UNCHANGED watchVars
  /\ UNCHANGED <<auto, diskVars, role, lifeVars, root, giveUps, op, timer, reading, faults>>

\* Another process, of this version or a newer one, writes the index ...
OtherWrites ==
  /\ Happens
  /\ LockFree /\ other' = TRUE
  /\ \E is \in {"ok", "newer"} : index' = [index EXCEPT !.is = is, !.ver = @ + 1]
  /\ stale' = {} /\ dropped' = {}
  /\ UNCHANGED <<auto, missed, role, lifeVars, root, giveUps, op, watchVars, timer, reading, faults>>

\* ... and publishes it.
OtherPublishes ==
  /\ other /\ other' = FALSE
  /\ index' = [index EXCEPT !.gen = @ + 1]
  /\ UNCHANGED <<treeVars, role, lifeVars, root, giveUps, op, watchVars, timer, reading, bounds>>

\* Another session takes the role, or ends.
RoleMoves ==
  /\ \/ role = Elsewhere /\ role' = Free
     \/ role = Free /\ role' = Elsewhere
  /\ UNCHANGED <<treeVars, diskVars, lifeVars, root, giveUps, op, watchVars, timer, reading, bounds>>

\* The session's own root, or another linked one, has edits to retry.
OthersArm ==
  /\ Happens
  /\ ~timer /\ timer' = TRUE
  /\ UNCHANGED <<treeVars, diskVars, role, lifeVars, root, giveUps, op, watchVars, reading, faults>>

OthersHold ==
  /\ op[Others] = Idle /\ GateFree /\ Become(Others, At("other"))
  /\ UNCHANGED <<treeVars, diskVars, role, lifeVars, root, giveUps, watchVars, timer, reading,
                 bounds>>

OthersRelease ==
  /\ op[Others].at = "other" /\ Become(Others, Idle)
  /\ UNCHANGED <<treeVars, diskVars, role, lifeVars, root, giveUps, watchVars, timer, reading,
                 bounds>>

-----------------------------------------------------------------------------
\* What goes on by itself once begun.
BatchWorks(t) ==
  \/ Enter(t) \/ SkipRebuild(t) \/ Update(t) \/ BeginWalk(t) \/ EndWalk(t)
  \/ Install(t) \/ Throw(t) \/ Catch(t) \/ Finally(t)

LoadWorks(o) ==
  \/ LoadSkips(o) \/ LoadStarts(o) \/ LoadEnters(o) \/ LoadFails(o)
  \/ BeginWalk(Load(o)) \/ EndWalk(Load(o)) \/ Install(Load(o))

LifeWorks ==
  LinkLoads \/ Publish \/ StartLinkedWatch \/ StopWatching \/ CancelLoad \/ LetGo

Work ==
  \/ \E t \in Batches : BatchWorks(t)
  \/ \E k \in Pool : RetryLooks(k)
  \/ \E o \in Objs : LoadWorks(o)
  \/ LifeWorks \/ Reloaded \/ EndRead \/ OthersRelease \/ OtherPublishes

\* What begins.
Begin ==
  \/ \E o \in Objs : Deliver(o) \/ GiveUp(o)
  \/ \E k \in Pool : RetryFires(k)
  \/ Reload \/ Read \/ Reconciled \/ Link \/ MaybePromoteLinked \/ Unlink \/ OthersHold

Environment ==
  \/ EditLinks \/ Recheck \/ Purge
  \/ \E p \in Paths : Edit(p)
  \/ OtherWrites \/ RoleMoves \/ OthersArm

Next == Work \/ Begin \/ Environment

Spec == Init /\ [][Next]_vars

-----------------------------------------------------------------------------
(* Properties.                                                             *)

\* Every variable has its type, and at most one thread holds BuildGate.
TypeOK ==
  /\ auto \in BOOLEAN /\ stale \subseteq Paths
  /\ dropped \subseteq stale /\ missed \subseteq Paths
  /\ index \in [is : {"ok", "gone", "newer"}, ver : Nat, gen : Nat] /\ other \in BOOLEAN
  /\ role \in 0..(MaxLinks + 1)
  /\ links \in [wanted : BOOLEAN, sig : Nat, seen : Nat]
  /\ linked \in 0..MaxLinks /\ root \in [Objs -> RootType] /\ life \in LifeType
  /\ giveUps \subseteq Objs
  /\ op \in [Threads -> OpType]
  /\ \A t, u \in Threads : op[t].at \in Holding /\ op[u].at \in Holding => t = u
  /\ events \subseteq Paths /\ overflow \in BOOLEAN /\ timer \in BOOLEAN
  /\ reading \in [obj : 0..MaxLinks, ver : Nat]
  /\ happened \in Nat /\ faults \in Nat

\* Whatever was under way when a root was set up or torn down, once that is done
\*   - it is watched exactly while this session holds its role: "owned but unwatched,
\*     nothing would ever update it, and no other session could take it over"
\*     (ServerContext.cs:561-562);
\*   - if it is not, its watcher and its reconcile run no more, and an unlinked root's
\*     files are closed (ReconcileTo, GiveUpLinkedRoot, StopLoadReconcile);
\*   - if the session cannot write the index, a task hands the role back ("and never
\*     take it again this session", ServerContext.cs:510-511), unless a watch that
\*     failed has since reset the mark.
SettledIsWhole ==
  \A o \in Objs \ {life.obj} :
    /\ role = o <=> root[o].watch
    /\ ~root[o].watch => op[Callback(o)] = Idle /\ op[Load(o)] = Idle
    /\ o # linked => ~root[o].watch /\ root[o].handle = 0
    /\ root[o].newer /\ root[o].never /\ role = o => o \in giveUps

\* A query reads handles that stay open under it, though a batch, a reload or an
\* unlink replaces or closes them; and handles older than the index on disk are
\* noticed: by their generation, unless the write is still to be published, or the
\* answer says the index is a newer CodeCompass's (MaybeReloadLinked, HeldBackNote).
HandlesServe ==
  LET o == linked
      publishing == other \/ \E t \in Threads : op[t].at = "install" /\ op[t].bump
  IN /\ reading.obj # 0 => root[reading.obj].handle = reading.ver
     /\ o # 0 /\ root[o].handle < index.ver =>
          \/ publishing
          \/ index.gen # root[o].gen /\ (index.gen = root[o].failed => root[o].newer)

\* What is held back will be retried: the timer is armed, or its thread on the way;
\* but for what the timer of another root has passed by.
Retried(o) ==
  \/ timer \/ root[o].passed
  \/ \E t \in Retries : op[t].at \in {"fired", "waits"}

\* In somebody's hands: the watcher's, a batch's, a retry's, or the reconcile's.
InHand(o, p) ==
  \/ p \in events \cup root[o].held \/ overflow
  \/ \E t \in Batches : \/ /\ op[t].at \in {"waits", "lock", "catch"}
                           /\ p \in op[t].paths \/ op[t].full
                        \/ op[t].at = "walk" /\ p \notin missed
  \/ op[Load(o)].at \in {"queued", "waits", "lock"}
  \/ op[Load(o)].at = "walk" /\ p \notin missed

\* Edits held back are retried ("merged into the next one, and retried",
\* ServerContext.cs:86-87); and while a root is live-indexed here, a change its index
\* lacks is in somebody's hands, or was let go of with a line in the log: "keep the
\* edits for the next update or a retry rather than lose them" (985-987).
EditsAreKept ==
  LET o == linked
  IN /\ o # 0 /\ root[o].held # {} => Retried(o)
     /\ o # 0 /\ root[o].watch => \A p \in stale \ dropped : InHand(o, p)

\* Nothing a thread waits for is in its way: BuildGate where it is to enter (a load can
\* also be cancelled there), the write lock, the readers where a handle is replaced.
Ready(t) ==
  /\ op[t].at # "idle"
  /\ op[t].at = "waits" => GateFree \/ (t \in Loads /\ ~root[t[2]].live)
  /\ op[t].at = "lock" => LockFree
  /\ op[t].at = "install" => Unread
  /\ op[t].at = "reload" => Unread \/ index.is # "ok"
  /\ op[t].at = "other" => t = Others

\* So for the holder of _linkedGate, which also waits for two of its root's threads.
LifeReady ==
  /\ life.at # "idle"
  /\ life.at = "publish" => Unread
  /\ life.at = "drain" => op[Callback(life.obj)] = Idle
  /\ life.at = "join" => op[Load(life.obj)] = Idle

AtWork == life # AtRest \/ (\E t \in Threads : op[t] # Idle) \/ ~Unread
SomebodyIsReady == (\E t \in Threads : Ready(t)) \/ LifeReady \/ ~Unread \/ other

\* No deadlock of BuildGate, the write lock, Rw, _linkedGate and the waits of a
\* teardown for other threads: as long as somebody is at work here, somebody has what
\* it waits for, and can go on ("Every write takes the gates in ONE order",
\* ServerContext.cs:2034).
SomebodyCanGoOn == AtWork => SomebodyIsReady /\ ENABLED Work
=============================================================================

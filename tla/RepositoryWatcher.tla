-------------------------- MODULE RepositoryWatcher --------------------------
(***************************************************************************)
(* The file watcher (RepositoryWatcher.cs): event handlers record paths    *)
(* and arm a timer, timer callbacks flush what is recorded to a consumer,  *)
(* one at a time, and Dispose waits for the flush that is running.  Events *)
(* overflow, and the system's watcher dies and is replaced, under way.     *)
(*                                                                         *)
(* A path is a file or a folder; a folder that is created, moved or        *)
(* deleted raises its own event only, and its files none.  Paths below an  *)
(* ignored directory raise nothing of interest and are left out.  The      *)
(* consumer looks at the paths of a batch, or at the whole tree, when it   *)
(* is called: `unseen` are the paths that have changed since.              *)
(***************************************************************************)
EXTENDS Naturals

CONSTANTS Paths,
          Kinds,           \* what a path can be: "file", "folder"
          None,
          Debounce, MaxWait,  \* in units of the clock
          Fullness,        \* {FALSE}, or BOOLEAN if the queue may reach MaxPendingPaths
          MaxCallbacks,    \* bound on the timer callbacks not yet begun
          MaxDeaths        \* bound on the deaths of the system's watcher

VARIABLES ignored,     \* the paths named like an ignored file type (Contoso.Lib)
          tree,        \* what each path is
          raised,      \* events raised and not handled
          error,       \* an error raised and not handled: "overflow", "dead" or None
          pending,     \* recorded paths: None, "changed" or "structural"
          ifFolder,    \* recorded paths to pass on only if they are folders
          overflow,
          calls,       \* calls of Schedule under way: is it now?
          timer,       \* time until the timer fires, or None
          waited,      \* time since the first event after a flush: 0 is none
          dispatched,  \* timer callbacks not yet begun
          flush,       \* what the callback that holds _flushGate is doing
          checking,    \* a callback has let go of the gate and looks for more
          alive, restarting, deaths,
          disposal,    \* how far Dispose has come
          unseen,      \* ghost: what the consumer has not been told of
          blind        \* ghost: of these, what changed with nobody watching

world == <<ignored, tree>>
ghosts == <<unseen, blind>>
events == <<raised, error>>
recorded == <<pending, ifFolder, overflow>>
clockwork == <<timer, waited, dispatched>>
watching == <<alive, restarting, deaths>>
vars == <<world, events, recorded, calls, clockwork, flush, checking, watching, disposal,
          ghosts>>

Event == [path : Paths, what : {"changed", "in", "gone"}]
Stages == {"free", "entered", "started", "taken", "calling", "leaving"}
Flush == [at : Stages, pending : [Paths -> {None, "changed", "structural"}],
          ifFolder : SUBSET Paths, overflow : BOOLEAN, batch : SUBSET Paths]

ASSUME Assumptions ==
  /\ Kinds \subseteq {"file", "folder"}
  /\ None \notin {"changed", "structural", "file", "folder", "overflow", "dead"}
  /\ None \notin 0 .. Debounce
  /\ Debounce \in Nat \ {0} /\ MaxWait \in Nat \ {0}
  /\ Fullness \subseteq BOOLEAN /\ FALSE \in Fullness
  /\ MaxCallbacks \in Nat \ {0} /\ MaxDeaths \in Nat

Disposed == disposal # "no"

TypeOK ==
  /\ ignored \subseteq Paths
  /\ tree \in [Paths -> Kinds \cup {None}] /\ raised \subseteq Event /\ error \in {None, "overflow", "dead"}
  /\ pending \in [Paths -> {None, "changed", "structural"}]
  /\ ifFolder \subseteq ignored /\ overflow \in BOOLEAN
  /\ calls \subseteq BOOLEAN
  /\ timer \in 0 .. Debounce \cup {None} /\ waited \in 0 .. MaxWait
  /\ timer # None => ~Disposed
  /\ dispatched \in 0 .. MaxCallbacks /\ flush \in Flush /\ checking \in BOOLEAN
  /\ alive \in BOOLEAN /\ restarting \in BOOLEAN /\ deaths \in 0 .. MaxDeaths
  /\ disposal \in {"no", "marked", "draining", "returned"}
  /\ unseen \subseteq Paths /\ blind \subseteq unseen
-----------------------------------------------------------------------------
(* The source tree and the system's watcher *)

\* A file that is named like an ignored type is not indexed, whatever happens to
\* it; a folder of that name is.
Matters(p, before, after) ==
  p \notin ignored \/ "folder" \in {before, after}

Raise(p, what) ==
  /\ raised' = IF alive THEN raised \cup {[path |-> p, what |-> what]} ELSE raised
  /\ UNCHANGED error

\* A file is written, or an entry of a folder is: the folder's timestamp moves,
\* and the entry has an event of its own.
Touch(p) ==
  /\ tree[p] # None
  /\ Raise(p, "changed")
  /\ IF tree[p] = "file" /\ Matters(p, "file", "file")
     THEN /\ unseen' = unseen \cup {p}
          /\ blind' = IF alive THEN blind ELSE blind \cup {p}
     ELSE UNCHANGED ghosts
  /\ UNCHANGED <<world, recorded, calls, clockwork, flush, checking, watching, disposal>>

\* A path is created, moved in, moved away or deleted.
Change(p, kind) ==
  /\ tree[p] # kind /\ None \in {tree[p], kind}
  /\ tree' = [tree EXCEPT ![p] = kind]
  /\ Raise(p, IF kind = None THEN "gone" ELSE "in")
  /\ IF Matters(p, tree[p], kind)
     THEN /\ unseen' = unseen \cup {p}
          /\ blind' = IF alive THEN blind ELSE blind \cup {p}
     ELSE UNCHANGED ghosts
  /\ UNCHANGED <<ignored, recorded, calls, clockwork, flush, checking, watching, disposal>>

\* The system's buffer overflows: events are lost, and it goes on watching.
BufferOverflows ==
  /\ alive /\ raised # {} /\ error = None
  /\ raised' = {} /\ error' = "overflow"
  /\ UNCHANGED <<world, recorded, calls, clockwork, flush, checking, watching, disposal, ghosts>>

\* A share fails, or a directory handle is invalidated: no more events.
WatcherDies ==
  /\ alive /\ error = None /\ deaths < MaxDeaths
  /\ alive' = FALSE /\ deaths' = deaths + 1
  /\ raised' = {} /\ error' = "dead"
  /\ UNCHANGED <<world, recorded, calls, clockwork, flush, checking, restarting, disposal, ghosts>>
-----------------------------------------------------------------------------
(* Event handlers *)

\* The event may be of a folder that is named like an ignored file type: a gone
\* path may have been one, and a new one is looked at when it is flushed.
Reacts(e) == e.path \notin ignored \/ e.what = "gone"

Merged_Last(p, what) == IF what = "changed" THEN "changed" ELSE "structural"
Merged(p, what) ==
  IF what = "changed" /\ pending[p] # "structural" THEN "changed" ELSE "structural"

\* The rest of the tree may have filled the queue: it is then flushed now.
ScheduleIfFull == \E full \in Fullness : calls' = calls \cup {full}

HandleEvent(e) ==
  /\ e \in raised
  /\ raised' = raised \ {e}
  /\ \/ /\ Reacts(e)
        /\ pending' = [pending EXCEPT ![e.path] = Merged(e.path, e.what)]
        /\ ScheduleIfFull
        /\ UNCHANGED ifFolder
     \/ /\ ~Reacts(e) /\ e.what = "in"
        /\ ifFolder' = ifFolder \cup {e.path}
        /\ calls' = calls \cup {FALSE}
        /\ UNCHANGED pending
     \/ /\ ~Reacts(e) /\ e.what # "in"
        /\ UNCHANGED <<pending, ifFolder, calls>>
  /\ UNCHANGED <<world, error, overflow, clockwork, flush, checking, watching, disposal, ghosts>>

HandleError ==
  /\ error # None
  /\ error' = None
  /\ overflow' = TRUE
  /\ calls' = calls \cup {FALSE}
  /\ restarting' = (restarting \/ error = "dead")
  /\ UNCHANGED <<world, raised, pending, ifFolder, clockwork, flush, checking, alive, deaths, disposal, ghosts>>

\* Off the event thread: a fresh watcher, unless Dispose came first or the
\* folder cannot be watched now.
Restart ==
  /\ restarting
  /\ restarting' = FALSE
  /\ alive' \in IF Disposed THEN {alive} ELSE BOOLEAN
  /\ UNCHANGED <<world, events, recorded, calls, clockwork, flush, checking, deaths, disposal, ghosts>>
-----------------------------------------------------------------------------
(* The timer *)

Due_Quiet(now) == IF now THEN 0 ELSE Debounce
Due(now) == IF now \/ waited = MaxWait THEN 0 ELSE Debounce

Scheduled_Always(now) == Due(now)
Scheduled(now) == IF Disposed THEN timer ELSE Due(now)
Schedule(now) ==
  /\ now \in calls
  /\ calls' = calls \ {now}
  /\ timer' = Scheduled(now)
  /\ waited' = IF Disposed \/ waited # 0 THEN waited ELSE 1
  /\ UNCHANGED <<world, events, recorded, dispatched, flush, checking, watching, disposal, ghosts>>

Tick ==
  /\ \/ timer \notin {None, 0}
     \/ waited \notin {0, MaxWait}
  /\ timer' = IF timer \in {None, 0} THEN timer ELSE timer - 1
  /\ waited' = IF waited \in {0, MaxWait} THEN waited ELSE waited + 1
  /\ UNCHANGED <<world, events, recorded, calls, dispatched, flush, checking, watching, disposal, ghosts>>

Fire ==
  /\ timer = 0 /\ dispatched < MaxCallbacks
  /\ timer' = None /\ dispatched' = dispatched + 1
  /\ UNCHANGED <<world, events, recorded, calls, waited, flush, checking, watching, disposal, ghosts>>
-----------------------------------------------------------------------------
(* A flush *)

Idle == [at |-> "free", pending |-> [p \in Paths |-> None], ifFolder |-> {},
         overflow |-> FALSE, batch |-> {}]
Reach(stage) == flush' = [flush EXCEPT !.at = stage]

\* A callback that finds a flush running just leaves.
TryEnter ==
  /\ dispatched > 0
  /\ dispatched' = dispatched - 1
  /\ IF flush.at = "free" THEN Reach("entered") ELSE UNCHANGED flush
  /\ UNCHANGED <<world, events, recorded, calls, timer, waited, checking, watching, disposal, ghosts>>

MayStart_Anyway == TRUE
MayStart == ~Disposed
StartFlush ==
  /\ flush.at = "entered"
  /\ IF MayStart
     THEN Reach("started") /\ waited' = 0
     ELSE Reach("leaving") /\ UNCHANGED waited
  /\ UNCHANGED <<world, events, recorded, calls, timer, dispatched, checking, watching, disposal, ghosts>>

Take ==
  /\ flush.at = "started"
  /\ flush' = [flush EXCEPT !.at = "taken", !.pending = pending, !.ifFolder = ifFolder,
                            !.overflow = overflow]
  /\ pending' = [p \in Paths |-> None] /\ ifFolder' = {} /\ overflow' = FALSE
  /\ UNCHANGED <<world, events, calls, clockwork, checking, watching, disposal, ghosts>>

\* A folder that only changed is dropped: what changed in it has an event.
Batch ==
  {p \in Paths : \/ flush.pending[p] = "structural"
                 \/ flush.pending[p] = "changed" /\ tree[p] # "folder"}
    \cup {p \in flush.ifFolder : tree[p] = "folder"}
Probe ==
  /\ flush.at = "taken"
  /\ flush' = IF flush.overflow \/ Batch # {}
              THEN [Idle EXCEPT !.at = "calling", !.batch = IF flush.overflow THEN {} ELSE Batch,
                                !.overflow = flush.overflow]
              ELSE [Idle EXCEPT !.at = "leaving"]
  /\ UNCHANGED <<world, events, recorded, calls, clockwork, checking, watching, disposal, ghosts>>

\* _onFlush: whatever it throws is swallowed.
Deliver ==
  /\ flush.at = "calling"
  /\ flush' = [Idle EXCEPT !.at = "leaving"]
  /\ unseen' = IF flush.overflow THEN {} ELSE unseen \ flush.batch
  /\ blind' = IF flush.overflow THEN {} ELSE blind \ flush.batch
  /\ UNCHANGED <<world, events, recorded, calls, clockwork, checking, watching, disposal>>

\* The gate is free before the callback looks for more.
LeaveGate ==
  /\ flush.at = "leaving"
  /\ flush' = Idle
  /\ checking' = TRUE
  /\ UNCHANGED <<world, events, recorded, calls, clockwork, watching, disposal, ghosts>>

More == overflow \/ ifFolder # {} \/ \E p \in Paths : pending[p] # None
CheckForMore ==
  /\ checking
  /\ checking' = FALSE
  /\ IF More THEN ScheduleIfFull ELSE UNCHANGED calls
  /\ UNCHANGED <<world, events, recorded, clockwork, flush, watching, disposal, ghosts>>
-----------------------------------------------------------------------------
(* Dispose *)

MarkDisposed ==
  /\ disposal = "no"
  /\ disposal' = "marked" /\ timer' = None
  /\ UNCHANGED <<world, events, recorded, calls, waited, dispatched, flush, checking, watching, ghosts>>

StopEvents ==
  /\ disposal = "marked"
  /\ disposal' = "draining" /\ alive' = FALSE /\ raised' = {}
  /\ UNCHANGED <<world, error, recorded, calls, clockwork, flush, checking, restarting, deaths, ghosts>>

Drain ==
  /\ disposal = "draining" /\ flush.at = "free"
  /\ disposal' = "returned"
  /\ UNCHANGED <<world, events, recorded, calls, clockwork, flush, checking, watching, ghosts>>
-----------------------------------------------------------------------------
Init ==
  /\ ignored \in SUBSET Paths
  /\ tree \in [Paths -> Kinds \cup {None}]
  /\ raised = {} /\ error = None
  /\ pending = [p \in Paths |-> None] /\ ifFolder = {} /\ overflow = FALSE
  /\ calls = {} /\ timer = None /\ waited = 0 /\ dispatched = 0
  /\ flush = Idle /\ checking = FALSE
  /\ alive = TRUE /\ restarting = FALSE /\ deaths = 0
  /\ disposal = "no"
  /\ unseen = {} /\ blind = {}

Handlers == (\E e \in Event : HandleEvent(e)) \/ HandleError \/ Restart
FlushSteps == StartFlush \/ Take \/ Probe \/ Deliver \/ LeaveGate

Next ==
  \/ \E p \in Paths : Touch(p) \/ \E kind \in Kinds \cup {None} : Change(p, kind)
  \/ BufferOverflows \/ WatcherDies
  \/ Handlers
  \/ \E now \in BOOLEAN : Schedule(now)
  \/ Tick \/ Fire
  \/ TryEnter \/ FlushSteps \/ CheckForMore
  \/ MarkDisposed \/ StopEvents \/ Drain

Spec == Init /\ [][Next]_vars

\* The system hands events on in order, so none waits for ever, and every
\* thread that can go on does.  Nobody has to edit, or to dispose.
Fairness ==
  /\ \A e \in Event : WF_vars(HandleEvent(e))
  /\ WF_vars(HandleError) /\ WF_vars(Restart)
  /\ \A now \in BOOLEAN : WF_vars(Schedule(now))
  /\ WF_vars(Tick) /\ WF_vars(Fire)
  /\ WF_vars(TryEnter) /\ WF_vars(FlushSteps) /\ WF_vars(CheckForMore)
  /\ WF_vars(StopEvents) /\ WF_vars(Drain)

FairSpec == Spec /\ Fairness
-----------------------------------------------------------------------------
(* Properties *)

\* Nothing is in flight: no event, call, timer or callback.
Quiet ==
  /\ raised = {} /\ error = None /\ calls = {} /\ timer = None /\ dispatched = 0
  /\ flush.at = "free" /\ ~checking /\ ~restarting /\ ~Disposed

\* No wakeup is lost: when the watcher is quiet the consumer has been told of
\* every change but those made with nobody watching.
QuietIsCaughtUp == Quiet => unseen \subseteq blind

\* Once Dispose has returned the consumer is not called, nor being called.
DisposeIsABarrier == disposal = "returned" => flush.at # "calling"

\* However long a storm of events lasts, each change comes to be delivered.
EveryChangeIsDelivered ==
  \A p \in Paths : p \in unseen \ blind ~> p \notin unseen \/ p \in blind \/ Disposed
=============================================================================

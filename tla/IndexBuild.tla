------------------------------ MODULE IndexBuild ------------------------------
(***************************************************************************)
(* A full build of a repository's index (RepositoryIndexer.BuildLocked):   *)
(* the whole tree is walked, the files are indexed by a pool of workers    *)
(* under a budget of bytes in memory, each worker's last segments are      *)
(* written, and the new index is published.  A build is cancelled, runs    *)
(* out of memory, or fails at any of these steps; it may also be killed,   *)
(* and what is on disk at that instant is what the next open loads.        *)
(*                                                                         *)
(* A caller that only measures the tree (ExceedsAutoLimit) walks it the    *)
(* same way and may leave early.  A segment is the set of the files in it. *)
(* Positional sidecars, which searches can do without, are left out.       *)
(***************************************************************************)
EXTENDS Integers, FiniteSets

CONSTANTS Dirs, Root, Sub, Files, In, Walkers, Capacity, MaxWalkFaults, None, \* the walk
          Tasks, Budget,  \* the loop's threads, the budget of bytes
          Footprint,      \* bytes to reserve for each file
          Binary,         \* files whose content is not text
          Parsed,         \* files whose symbols are extracted
          Full,           \* documents that fill a buffer, per kind of segment
          MaxFaults,      \* bound on what goes wrong after the walk
          Gone            \* a file of the previous index that is no longer in the tree

Kinds == {"text", "symbols"}
Numbers == 1 .. Cardinality(Files) + Cardinality(Tasks) + MaxFaults + 2
Pool == 1 .. Cardinality(Tasks)   \* a worker is created when none is idle

VARIABLES network, pending, queue, closed, walker, output, finished, cancelled, dropped,
          caller, found, walked, lost, faults     \* the walk
VARIABLES available, nextTicket, serving, request \* the budget
VARIABLES previous, \* is there an index already?
          phase,
          todo,     \* files not handed out
          task,     \* what each thread of the loop is doing
          idle,     \* workers handed back by a task that retired
          workers,  \* every worker created
          buffer,   \* per kind and worker: the documents not in a segment yet
          claims,   \* per worker: the files it has recorded for the ledger
          merged,   \* workers whose last segments are written
          counter,  \* per kind: the next segment number
          own,      \* per kind: the segments this build has written
          skipped,  \* files that a log line says are not indexed
          stopping, \* has the caller cancelled the build, has a file failed it?
          trouble,  \* counts what went wrong after the walk
          disk,     \* per kind: the documents of each segment file; none if there is
                    \* no file or it was not written to its end, which an open skips
          manifest, \* per kind: the segments that are the index
          ledger    \* the files the ledger claims

walk == <<network, pending, queue, closed, walker, output, finished, cancelled, dropped,
          caller, found, walked, lost, faults>>
budget == <<available, nextTicket, serving, request>>
pool == <<idle, workers>>
records == <<buffer, claims, skipped>>
segments == <<counter, own, disk>>
published == <<manifest, ledger>>
vars == <<walk, budget, previous, phase, todo, task, pool, records, merged, segments,
          stopping, trouble, published>>

W == INSTANCE DirectoryWalk WITH MaxFaults <- MaxWalkFaults
Reads == INSTANCE ByteBudget

Task == [at : {"off", "ready", "asking", "flushing", "releasing"},
         file : Files \cup {None}, worker : Pool \cup {None}]
Off == [at |-> "off", file |-> None, worker |-> None]
Ended == {"done", "cancelled", "littered", "failed", "measured"}
Phases == {"walk", "measure", "loop", "merge", "cleanup", "text", "symbols", "ledger"} \cup Ended
Segment == SUBSET (Files \cup {Gone})

ASSUME Assumptions ==
  /\ W!Assumptions /\ Reads!BudgetAssumption
  /\ Footprint \in [Files -> Nat] /\ Full \in [Kinds -> Nat \ {0}]
  /\ Binary \subseteq Files /\ Parsed \subseteq Files \ Binary
  /\ IsFiniteSet(Files) /\ IsFiniteSet(Tasks) /\ Tasks # {}
  /\ None \notin Files \cup Pool /\ Gone \notin Files /\ MaxFaults \in Nat

TypeOK ==
  /\ W!TypeOK /\ Reads!TypeOK
  /\ previous \in BOOLEAN /\ phase \in Phases /\ todo \subseteq found
  /\ task \in [Tasks -> Task] /\ idle \subseteq workers /\ workers \subseteq Pool
  /\ buffer \in [Kinds -> [Pool -> SUBSET Files]] /\ claims \in [Pool -> SUBSET Files]
  /\ merged \subseteq workers
  /\ counter \in [Kinds -> Numbers] /\ own \in [Kinds -> SUBSET Numbers]
  /\ skipped \subseteq Files
  /\ stopping \in [cancelled : BOOLEAN, failed : BOOLEAN] /\ trouble \in 0 .. MaxFaults
  /\ disk \in [Kinds -> [Numbers -> Segment]]
  /\ manifest \in [Kinds -> SUBSET Numbers] /\ ledger \subseteq Files \cup {Gone}
  \* A worker is in the hands of one task, or of none.
  /\ \A t, u \in Tasks : task[t].worker # None =>
       task[t].worker \notin idle /\ (t # u => task[t].worker # task[u].worker)
-----------------------------------------------------------------------------
(* The walk *)

Walking(Step) ==
  /\ phase \in {"walk", "measure"} /\ Step
  /\ UNCHANGED <<budget, previous, phase, todo, task, pool, records, merged, segments,
                 stopping, trouble, published>>

\* Only a caller that measures leaves early.  It waits two seconds at most for
\* the threads to unwind; here, until they have.
LeaveEarly == phase = "measure" /\ Walking(W!LeaveEarly)
Measured ==
  /\ phase = "measure" /\ caller # "reading" /\ W!AllExited
  /\ phase' = "measured"
  /\ UNCHANGED <<walk, budget, previous, todo, task, pool, records, merged, segments,
                 stopping, trouble, published>>

\* The whole list is there before the first file is read.
BeginLoop ==
  /\ phase = "walk" /\ caller = "ended"
  /\ phase' = "loop" /\ todo' = found
  /\ UNCHANGED <<walk, budget, previous, task, pool, records, merged, segments, stopping,
                 trouble, published>>
-----------------------------------------------------------------------------
(* The loop over the files *)

Stopping == stopping.cancelled \/ stopping.failed
Trouble == trouble < MaxFaults /\ trouble' = trouble + 1

\* The loop starts a task with a worker that a retired one has handed back, or
\* with a new one.
StillIdle_Shared(w) == idle
StillIdle(w) == idle \ {w}
StartTask(t) ==
  /\ phase = "loop" /\ task[t].at = "off" /\ todo # {} /\ ~Stopping
  /\ \E w \in IF idle # {} THEN idle ELSE {Cardinality(workers) + 1} :
       /\ task' = [task EXCEPT ![t] = [Off EXCEPT !.at = "ready", !.worker = w]]
       /\ idle' = StillIdle(w) /\ workers' = workers \cup {w}
  /\ UNCHANGED <<walk, budget, previous, phase, todo, records, merged, segments, stopping,
                 trouble, published>>

\* One file at a time is handed out, and its bytes are reserved.
NextFile(t) ==
  /\ task[t].at = "ready" /\ ~Stopping
  /\ \E f \in todo :
       /\ todo' = todo \ {f}
       /\ task' = [task EXCEPT ![t] = [@ EXCEPT !.at = "asking", !.file = f]]
       /\ Reads!Acquire(t, Footprint[f])
  /\ UNCHANGED <<walk, previous, phase, pool, records, merged, segments, stopping, trouble,
                 published>>

AwaitBytes(t) ==
  /\ Reads!TakeBytes(t) \/ Reads!Wait(t)
  /\ UNCHANGED <<walk, previous, phase, todo, task, pool, records, merged, segments, stopping,
                 trouble, published>>

MayRead(t) == task[t].at = "asking" /\ request[t].at = "granted"

\* A worker's buffers once it has added file f to those of some kinds.
Added(w, f, kinds) ==
  [k \in Kinds |-> IF k \in kinds THEN [buffer[k] EXCEPT ![w] = @ \cup {f}] ELSE buffer[k]]
KindsOf(f) == IF f \in Binary THEN {} ELSE IF f \in Parsed THEN Kinds ELSE {"text"}
Claims(w, f) == [claims EXCEPT ![w] = @ \cup {f}]
Go(t, at) == task' = [task EXCEPT ![t].at = at]

\* A file that is binary is recorded and not indexed.
IndexFile(t) ==
  LET f == task[t].file
      w == task[t].worker
  IN
  /\ MayRead(t)
  /\ buffer' = Added(w, f, KindsOf(f)) /\ claims' = Claims(w, f)
  /\ Go(t, IF f \in Binary THEN "releasing" ELSE "flushing")
  /\ UNCHANGED <<walk, budget, previous, phase, todo, pool, skipped, merged, segments,
                 stopping, trouble, published>>

\* The file cannot be read, or memory runs out when part of it may already be in
\* the buffers: it is left out of the ledger.
SkipClaims_Recorded(w, f) == Claims(w, f)
SkipClaims(w, f) == claims
SkipFile(t) ==
  LET f == task[t].file
      w == task[t].worker
  IN
  /\ MayRead(t) /\ Trouble
  /\ \E kinds \in {{}, {"text"}, Kinds} :
       kinds \subseteq KindsOf(f) /\ buffer' = Added(w, f, kinds)
  /\ claims' = SkipClaims(w, f)
  /\ skipped' = skipped \cup {f}
  /\ Go(t, "releasing")
  /\ UNCHANGED <<walk, budget, previous, phase, todo, pool, merged, segments, stopping,
                 published>>

\* Anything else that is thrown ends the build, once the other tasks have done
\* their file.
FileFails(t) ==
  /\ MayRead(t) /\ Trouble
  /\ stopping' = [stopping EXCEPT !.failed = TRUE]
  /\ Go(t, "releasing")
  /\ UNCHANGED <<walk, budget, previous, phase, todo, pool, records, merged, segments,
                 published>>
-----------------------------------------------------------------------------
(* Segments *)

\* Worker w's buffers of these kinds become segments with the next number.
Advance(kinds) == [k \in Kinds |-> IF k \in kinds THEN counter[k] + 1 ELSE counter[k]]
Flush(w, kinds) ==
  /\ counter' = Advance(kinds)
  /\ disk' = [k \in Kinds |-> IF k \in kinds THEN [disk[k] EXCEPT ![counter[k]] = buffer[k][w]]
                              ELSE disk[k]]
  /\ own' = [k \in Kinds |-> IF k \in kinds THEN own[k] \cup {counter[k]} ELSE own[k]]
  /\ buffer' = [k \in Kinds |-> IF k \in kinds THEN [buffer[k] EXCEPT ![w] = {}] ELSE buffer[k]]

\* A segment that cannot be written keeps its documents in the buffer, and what
\* there is of its file stays on disk; a kind before it is written.
FlushFails(w, before, kind) ==
  /\ counter' = Advance(before \cup {kind})
  /\ disk' = [k \in Kinds |->
                IF k \in before THEN [disk[k] EXCEPT ![counter[k]] = buffer[k][w]]
                ELSE IF k = kind THEN [disk[k] EXCEPT ![counter[k]] = {}] ELSE disk[k]]
  /\ own' = [k \in Kinds |-> IF k \in before THEN own[k] \cup {counter[k]} ELSE own[k]]
  /\ buffer' = [k \in Kinds |-> IF k \in before THEN [buffer[k] EXCEPT ![w] = {}] ELSE buffer[k]]

IsFull(w) == {k \in Kinds : Cardinality(buffer[k][w]) >= Full[k]}
Unwritten(w) == {k \in Kinds : buffer[k][w] # {}}
Before(kinds, kind) == IF kind = "symbols" THEN kinds \ {kind} ELSE {}

FlushFull(t) ==
  /\ task[t].at = "flushing"
  /\ Flush(task[t].worker, IsFull(task[t].worker))
  /\ Go(t, "releasing")
  /\ UNCHANGED <<walk, budget, previous, phase, todo, pool, claims, skipped, merged, stopping,
                 trouble, published>>

\* Out of memory skips the file, though it is in the buffers and recorded.
FlushFullFails(t) ==
  LET w == task[t].worker IN
  /\ task[t].at = "flushing" /\ Trouble
  /\ \E kind \in IsFull(w) : FlushFails(w, Before(IsFull(w), kind), kind)
  /\ \/ skipped' = skipped \cup {task[t].file} /\ UNCHANGED stopping
     \/ stopping' = [stopping EXCEPT !.failed = TRUE] /\ UNCHANGED skipped
  /\ Go(t, "releasing")
  /\ UNCHANGED <<walk, budget, previous, phase, todo, pool, claims, merged, published>>

\* The task goes on with the next file, or its time slice is over and it retires.
ReleaseBytes(t) ==
  /\ task[t].at = "releasing"
  /\ Reads!Release(t, Footprint[task[t].file])
  /\ \/ task' = [task EXCEPT ![t] = [@ EXCEPT !.at = "ready", !.file = None]]
        /\ UNCHANGED idle
     \/ task' = [task EXCEPT ![t] = Off] /\ idle' = idle \cup {task[t].worker}
  /\ UNCHANGED <<walk, previous, phase, todo, workers, records, merged, segments, stopping,
                 trouble, published>>

Retire(t) ==
  /\ task[t].at = "ready" /\ (todo = {} \/ Stopping)
  /\ task' = [task EXCEPT ![t] = Off] /\ idle' = idle \cup {task[t].worker}
  /\ UNCHANGED <<walk, budget, previous, phase, todo, workers, records, merged, segments,
                 stopping, trouble, published>>

\* A failure wins over a cancellation; nothing is cleaned up after it.
Outcome(next) ==
  IF stopping.failed THEN "failed" ELSE IF stopping.cancelled THEN "cleanup" ELSE next

EndLoop ==
  /\ phase = "loop" /\ (todo = {} \/ Stopping)
  /\ \A t \in Tasks : task[t] = Off
  /\ phase' = Outcome("merge")
  /\ UNCHANGED <<walk, budget, previous, todo, task, pool, records, merged, segments, stopping,
                 trouble, published>>

\* Each worker's last segments, and its share of the ledger.
MergeWorker(w) ==
  /\ phase = "merge" /\ ~Stopping /\ w \in workers \ merged
  /\ Flush(w, Unwritten(w))
  /\ merged' = merged \cup {w}
  /\ UNCHANGED <<walk, budget, previous, phase, todo, task, pool, claims, skipped, stopping,
                 trouble, published>>
MergeFails(w) ==
  /\ phase = "merge" /\ ~Stopping /\ w \in workers \ merged /\ Trouble
  /\ \E kind \in Unwritten(w) : FlushFails(w, Before(Unwritten(w), kind), kind)
  /\ stopping' = [stopping EXCEPT !.failed = TRUE]
  /\ UNCHANGED <<walk, budget, previous, phase, todo, task, pool, claims, skipped, merged,
                 published>>

MergeIsOver == Stopping \/ merged = workers
EndMerge ==
  /\ phase = "merge" /\ MergeIsOver
  /\ phase' = Outcome("text")
  /\ UNCHANGED <<walk, budget, previous, todo, task, pool, records, merged, segments, stopping,
                 trouble, published>>
-----------------------------------------------------------------------------
(* Cancellation, and the new index *)

\* The session is re-pointed or shuts down.  A cancellation during the walk is
\* noticed when the loop begins, one that comes later than here not at all.
Cancel ==
  /\ phase \in {"loop", "merge"} /\ ~stopping.cancelled
  /\ stopping' = [stopping EXCEPT !.cancelled = TRUE]
  /\ UNCHANGED <<walk, budget, previous, phase, todo, task, pool, records, merged, segments,
                 trouble, published>>

\* The segments this build wrote are deleted, if they can be.
Without(k, numbers) == [n \in Numbers |-> IF n \in numbers THEN {} ELSE disk[k][n]]
Deleted(k) == own[k]
CleanUp ==
  /\ phase = "cleanup"
  /\ \/ /\ disk' = [k \in Kinds |-> Without(k, Deleted(k))]
        /\ phase' = "cancelled" /\ UNCHANGED trouble
     \/ /\ Trouble /\ phase' = "littered"
        /\ \E k \in Kinds, n \in Numbers :
             /\ n \in own[k]
             /\ disk' = [[j \in Kinds |-> Without(j, own[j])] EXCEPT ![k][n] = disk[k][n]]
  /\ UNCHANGED <<walk, budget, previous, todo, task, pool, records, merged, counter, own,
                 stopping, published>>

\* The manifest names the new segments, and the files it does not name go.
Publish(kind, next) ==
  /\ phase = kind
  /\ manifest' = [manifest EXCEPT ![kind] = own[kind]]
  /\ disk' = [disk EXCEPT ![kind] = Without(kind, Numbers \ own[kind])]
  /\ phase' = next
  /\ UNCHANGED <<walk, budget, previous, todo, task, pool, records, merged, counter, own,
                 stopping, trouble, ledger>>

SaveLedger ==
  /\ phase = "ledger"
  /\ ledger' = UNION {claims[w] : w \in merged}
  /\ phase' = "done"
  /\ UNCHANGED <<walk, budget, previous, todo, task, pool, records, merged, segments, stopping,
                 trouble, manifest>>

PublishFails ==
  /\ phase \in {"text", "symbols", "ledger"} /\ Trouble
  /\ phase' = "failed"
  /\ UNCHANGED <<walk, budget, previous, todo, task, pool, records, merged, segments, stopping,
                 published>>
-----------------------------------------------------------------------------
Earlier == IF previous THEN Files \cup {Gone} ELSE {}

\* Numbers start after those in the cache folder.
FirstNumber_Reused == 1
FirstNumber == IF previous THEN 2 ELSE 1

Init ==
  /\ W!Init /\ Reads!Init
  /\ previous \in BOOLEAN /\ phase \in {"walk", "measure"}
  /\ todo = {} /\ task = [t \in Tasks |-> Off] /\ idle = {} /\ workers = {}
  /\ buffer = [k \in Kinds |-> [w \in Pool |-> {}]] /\ claims = [w \in Pool |-> {}]
  /\ merged = {} /\ skipped = {} /\ trouble = 0
  /\ stopping = [cancelled |-> FALSE, failed |-> FALSE]
  /\ disk = [k \in Kinds |-> [n \in Numbers |-> IF n = 1 /\ previous THEN Earlier ELSE {}]]
  /\ manifest = [k \in Kinds |-> IF previous THEN {1} ELSE {}] /\ ledger = Earlier
  /\ counter = [k \in Kinds |-> FirstNumber] /\ own = [k \in Kinds |-> {}]

WalkOn(v) == Walking(W!WorkOn(v))
CallerOn == Walking(W!GetFile \/ W!EndOfFiles)
CountFaulted == Walking(W!CountFaulted)
WorkOn(t) ==
  \/ StartTask(t) \/ NextFile(t) \/ AwaitBytes(t) \/ IndexFile(t) \/ FlushFull(t)
  \/ ReleaseBytes(t) \/ Retire(t)
GoOn ==
  \/ Measured \/ BeginLoop \/ EndLoop \/ EndMerge \/ CleanUp
  \/ \E w \in Pool : MergeWorker(w)
  \/ Publish("text", "symbols") \/ Publish("symbols", "ledger") \/ SaveLedger

Next ==
  \/ \E v \in Walkers : WalkOn(v) \/ Walking(W!Fault(v))
  \/ CallerOn \/ CountFaulted \/ LeaveEarly
  \/ \E t \in Tasks : WorkOn(t) \/ SkipFile(t) \/ FileFails(t) \/ FlushFullFails(t)
  \/ \E w \in Pool : MergeFails(w)
  \/ GoOn \/ Cancel \/ PublishFails

Spec == Init /\ [][Next]_vars

\* Every thread goes on when it can.  Nothing has to fail, nor anybody to cancel.
Fairness ==
  /\ \A v \in Walkers : WF_vars(WalkOn(v))
  /\ WF_vars(CallerOn) /\ WF_vars(CountFaulted)
  /\ \A t \in Tasks : WF_vars(WorkOn(t))
  /\ WF_vars(GoOn)

FairSpec == Spec /\ Fairness
-----------------------------------------------------------------------------
(* Properties *)

\* A walk that ended and counted nothing as dropped has delivered every file of
\* the root and of every subfolder it was told of, whatever its threads did.
WalkIsComplete == W!WalkIsComplete

\* The bytes reserved by the files in memory and those still available make up
\* the budget: a file larger than the budget, skipped or failed, gives back what
\* it took.
BudgetIsKept == Reads!BudgetIsKept

\* What an open loads: the segments the manifest names or, without a manifest,
\* every segment there is.
Loaded(k) ==
  UNION {disk[k][n] : n \in IF manifest[k] # {} THEN manifest[k] ELSE Numbers}

\* Every file the walk found is recorded or was logged as left out; a text file
\* that is recorded is in one segment of the text index and, if it has symbols,
\* in one of the symbol index.  An update will not look at it again.
FilesAreAccounted ==
  phase = "done" =>
    /\ found \subseteq ledger \cup skipped
    /\ \A f \in ledger : \A k \in KindsOf(f) :
         Cardinality({n \in manifest[k] : f \in disk[k][n]}) = 1

\* Whenever a build over an index is killed, an open loads all of the index that
\* was there or all of the new one; and a build that was cancelled has left nothing
\* that an open would load, whether or not there was an index before it.  (The second
\* disjunct says that all of the new index is loaded, which is nothing before a worker
\* exists, not that only it is: that each file is there once, FilesAreAccounted says.)
StoppedIsOldOrNew ==
  /\ previous =>
       \A k \in Kinds :
         \/ Loaded(k) = Earlier
         \/ /\ merged = workers
            /\ \A w \in workers : \A f \in claims[w] : k \in KindsOf(f) => f \in Loaded(k)
  /\ phase = "cancelled" => \A k \in Kinds : Loaded(k) = Earlier

\* However walk and loop go, the build comes to an end: no thread waits for ever
\* for a folder, for room in the buffer or for its share of the budget.
BuildEnds == <>(phase \in Ended)

\* Who can take a step of those that need no fault, cancellation or early leave: a thread
\* of the walk, its caller, a task, or the build itself.
WalkerReady(v) ==
  \/ walker[v].at \in {"reading", "counted", "leaving"}
  \/ /\ walker[v].at = "listed"
     /\ walker[v].files = {} \/ walker[v].subs # {} \/ cancelled \/ Cardinality(output) < Capacity
  \/ walker[v].at = "waiting" /\ (cancelled \/ queue # {} \/ closed)
CallerReady == caller = "reading" /\ (output # {} \/ finished)
WalkReady ==
  /\ phase \in {"walk", "measure"}
  /\ (\E v \in Walkers : WalkerReady(v)) \/ CallerReady \/ (W!AllExited /\ ~finished)
TaskReady(t) ==
  \/ task[t].at = "off" /\ phase = "loop" /\ todo # {} /\ ~Stopping
  \/ task[t].at = "asking" /\ request[t].at # "asleep"
  \/ task[t].at \in {"ready", "flushing", "releasing"}
PhaseReady ==
  \/ phase = "measure" /\ caller # "reading" /\ W!AllExited
  \/ phase = "walk" /\ caller = "ended"
  \/ phase = "loop" /\ (todo = {} \/ Stopping) /\ \A t \in Tasks : task[t].at = "off"
  \/ phase \in {"merge", "cleanup", "text", "symbols", "ledger"}
SomebodyIsReady == WalkReady \/ (\E t \in Tasks : TaskReady(t)) \/ PhaseReady

\* What BuildEnds rests on besides fairness: until it has ended, a build can go on.
NeverStuck == phase \notin Ended => SomebodyIsReady

\* What is left to do, the weightiest first: phases, and ways to stop the build; folders to
\* take up, and what the walk's threads have in hand; files for the caller, and its wait;
\* files to hand out, how far the tasks are with theirs and with their bytes; and workers
\* to merge.
After ==
  CASE phase = "walk" -> {"loop", "merge", "text", "symbols", "ledger", "end"}
    [] phase = "loop" -> {"merge", "text", "symbols", "ledger", "end"}
    [] phase = "merge" -> {"text", "symbols", "ledger", "end"}
    [] phase = "text" -> {"symbols", "ledger", "end"}
    [] phase = "symbols" -> {"ledger", "end"}
    [] phase \in {"ledger", "cleanup", "measure"} -> {"end"}
    [] phase \in Ended -> {}
Stops == {why \in {"cancelled", "failed"} : ~stopping[why]}
WalkersAt(at) == {v \in Walkers : walker[v].at = at}
SubsInHand == {x \in Walkers \X Dirs : x[2] \in walker[x[1]].subs}
FilesInHand == {x \in Walkers \X Files : x[2] \in walker[x[1]].files}
Unfinished == IF finished THEN {} ELSE {"finished"}
Enumerating == IF caller = "reading" THEN {"reading"} ELSE {}
TasksAt(at) == {t \in Tasks : task[t].at = at}
ToTurn == TasksAt(IF todo = {} \/ Stopping THEN "ready" ELSE "off")
InLine == {t \in Tasks : request[t].at \in {"awake", "asleep"}}
Awake == {t \in Tasks : request[t].at = "awake"}
Left ==
  << After, Stops,
     Dirs \ walked, WalkersAt("reading"), SubsInHand, FilesInHand,
     WalkersAt("listed"), WalkersAt("counted"), WalkersAt("leaving"), WalkersAt("waiting"),
     Unfinished, output, Enumerating,
     todo, TasksAt("asking"), TasksAt("flushing"), TasksAt("releasing"), ToTurn,
     InLine, Awake, Pool \ merged >>
Fewer(S, T) == S \subseteq T /\ S # T

\* Every step of a build, a fault or a cancellation too, leaves less to do: what it leaves
\* is less by the first item on the list that it changes.
EveryStepCounts ==
  [][\E i \in DOMAIN Left :
       Fewer(Left'[i], Left[i]) /\ \A j \in 1 .. i - 1 : Left'[j] = Left[j]]_vars
=============================================================================

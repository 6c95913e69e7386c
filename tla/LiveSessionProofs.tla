-------------------------- MODULE LiveSessionProofs --------------------------
(***************************************************************************)
(* Proofs about LiveSession, for any tree, number of threads, cap of the   *)
(* queue and rounds of a drain, and any number of edits, external writes   *)
(* and faults: its types; that a role nobody here can use is given back;   *)
(* and that edits are kept.  The last rests on an inductive invariant,     *)
(* KeptInv, whose parts have a section each: who holds the locks and is    *)
(* counted, who watches and has the role, where a change the watcher saw   *)
(* is, what will find one that nobody saw, and who empties the queue.      *)
(***************************************************************************)
EXTENDS LiveSession, FiniteSetTheorems, TLAPS

\* The parts of TypeOK, each kept by a lemma of its own.
TreeType ==
  stale \subseteq Paths /\ unreported \subseteq stale /\ dropped \subseteq stale

RestType ==
  /\ disk \in {"ok", "gone", "newer"} /\ built \in {"none", "walk", "prune"}
  /\ state \in {"NotStarted", "Building", "Ready", "NeedsCliBuild"}
  /\ role \in {"ours", "other", "free"}
  /\ events \subseteq Paths /\ missed \subseteq Paths
  /\ tasks \subseteq {"build", "reconcile", "drain"}

FlagType ==
  /\ auto \in BOOLEAN /\ current \in BOOLEAN /\ newerFormat \in BOOLEAN
  /\ eventsLost \in BOOLEAN /\ watching \in BOOLEAN /\ overflow \in BOOLEAN
  /\ timer \in BOOLEAN /\ spent \in BOOLEAN

HandType ==
  /\ giveUps \subseteq GiveUpType /\ takeover \in [Queries -> TakeoverSteps]
  /\ late \in BOOLEAN /\ crossed \in BOOLEAN

\* TypeOK is the conjunction of its parts.
LEMMA TypeParts ==
  TypeOK <=> /\ TreeType /\ RestType /\ FlagType /\ HandType
             /\ rebuilding \in Nat /\ queue \in QueueType
             /\ op \in [Threads -> OpType]
BY DEF TypeOK, TreeType, RestType, FlagType, HandType

-----------------------------------------------------------------------------
(* The operators on the queue and the threads *)

\* Each operation on the queue makes a queue of a queue.
LEMMA QueueOperators ==
  ASSUME NEW q \in QueueType, NEW paths \in SUBSET Paths,
         NEW full \in BOOLEAN, NEW wants \in BOOLEAN, NEW why
  PROVE  /\ Captured(q, paths, full) \in QueueType
         /\ HeldBack(q, paths, why) \in QueueType
         /\ HoldCleared(q) \in QueueType
         /\ HoldEnded(q) \in QueueType
         /\ Taken(q) \in QueueType
         /\ Forgotten(q) \in QueueType
         /\ Drained(q) \in QueueType
         /\ PutBack(q, paths, full, wants) \in QueueType
         /\ Work(q) \in SUBSET Paths
         /\ Retried(q) \in SUBSET Paths
<1> USE DEF QueueType
<1>1. Captured(q, paths, full) \in QueueType
  BY DEF Captured
<1>2. HeldBack(q, paths, why) \in QueueType
  BY DEF HeldBack
<1>3. HoldCleared(q) \in QueueType
  BY DEF HoldCleared
<1>4. HoldEnded(q) \in QueueType
  BY DEF HoldEnded
<1>5. Taken(q) \in QueueType
  BY <1>3 DEF Taken
<1>6. Forgotten(q) \in QueueType
  BY DEF Forgotten
<1>7. Drained(q) \in QueueType
  BY DEF Drained
<1>8. PutBack(q, paths, full, wants) \in QueueType
  BY DEF PutBack
<1>9. Work(q) \in SUBSET Paths /\ Retried(q) \in SUBSET Paths
  BY DEF Work, Retried
<1> QED BY <1>1, <1>2, <1>3, <1>4, <1>5, <1>6, <1>7, <1>8, <1>9

\* Applying paths leaves a queue, whatever the share answers.
LEMMA ApplyQueue ==
  ASSUME NEW q \in QueueType, NEW paths \in SUBSET Paths,
         NEW retried \in SUBSET Paths, Apply(q, paths, retried)
  PROVE  queue' \in QueueType
<1>1. \A more \in SUBSET Paths : [q EXCEPT !.unsure = (@ \ paths) \cup more] \in QueueType
  BY DEF QueueType
<1>2. [q EXCEPT !.unsure = @ \cup retried] \in QueueType
  BY DEF QueueType
<1> QED BY <1>1, <1>2 DEF Apply

\* What the handlers write of a thread is something it can do.
LEMMA OpRecords ==
  /\ \A step \in Steps : At(step) \in OpType
  /\ \A paths \in SUBSET Paths, full \in BOOLEAN :
       [At("look") EXCEPT !.paths = paths, !.full = full] \in OpType
  /\ \A round \in 1..Rounds : Draining(round) \in OpType
  /\ Idle \in OpType
<1>1. 0 \in 0..Rounds /\ \A round \in 1..Rounds : round \in 0..Rounds
  BY LiveSessionAssumption
<1> QED BY <1>1 DEF OpType, At, Draining, Idle, Steps, Holding, Walks

\* A thread that turns to something it can do leaves the others as they are.
LEMMA Becoming ==
  ASSUME op \in [Threads -> OpType],
         NEW t \in Threads, NEW what \in OpType, Become(t, what)
  PROVE  op' \in [Threads -> OpType]
BY DEF Become

\* A drain that goes on stays within its rounds.
LEMMA NextRounds ==
  ASSUME op \in [Threads -> OpType], NEW t \in Threads, NextRound(t)
  PROVE  op' \in [Threads -> OpType]
<1>1. op[t].round \in 0..Rounds
  BY DEF OpType
<1>2. op[t].round < Rounds => op[t].round + 1 \in 1..Rounds
  BY <1>1, LiveSessionAssumption
<1> QED BY <1>2, OpRecords, Becoming DEF NextRound

-----------------------------------------------------------------------------
(* Types *)

\* What a query finds on disk when no index is loaded.
LEMMA EnsureStartedFinds ==
  ASSUME TypeOK, EnsureStarted
  PROVE  \/ Loaded /\ UNCHANGED handover
         \/ UNCHANGED <<state, current, newerFormat, tasks, handover>>
         \/ GiveUpLiveIndexing /\ UNCHANGED <<state, current, tasks>>
         \/ /\ UNCHANGED <<current, newerFormat, handover>> /\ "missing" \in Loads
            /\ \/ state' = "NeedsCliBuild" /\ UNCHANGED tasks
               \/ state' = "Building" /\ tasks' = tasks \cup {"build"}
<1>1. PICK why \in Loads :
        /\ why = "none" => Loaded
        /\ why = "transient" => UNCHANGED <<state, current, newerFormat, tasks>>
        /\ why = "newer" => UNCHANGED <<state, current, tasks>>
        /\ why = "missing" =>
             /\ \/ state' = "NeedsCliBuild" /\ UNCHANGED tasks
                \/ state' = "Building" /\ tasks' = tasks \cup {"build"}
             /\ UNCHANGED <<current, newerFormat>>
        /\ IF why = "newer" THEN GiveUpLiveIndexing ELSE UNCHANGED handover
  BY DEF EnsureStarted
<1>2. disk \in {"ok", "gone", "newer"} => why \in {"none", "transient", "newer", "missing"}
  BY DEF Loads
<1>3. disk \in {"ok", "gone", "newer"}
  BY DEF TypeOK
<1> QED BY <1>1, <1>2, <1>3

\* What a thread does next is something it can do.
LEMMA OpStep ==
  ASSUME TypeOK, Next
  PROVE  op' \in [Threads -> OpType]
<1>a. op \in [Threads -> OpType]
  BY DEF TypeOK
<1>b. 1 \in 1..Rounds
  BY LiveSessionAssumption
<1>c. events \in SUBSET Paths /\ overflow \in BOOLEAN
  BY DEF TypeOK
<1> USE OpRecords, Becoming, NextRounds DEF Threads, Steps, Holding, Walks
<1>1. ASSUME ExternalWrite \/ OwnerExits \/ EnsureStarted \/
             (\E q \in Queries : MaybePromoteToOwner(q)) \/ MaybeReloadExternal \/ GiveUp
      PROVE  op' \in [Threads -> OpType]
  BY <1>1, <1>a, <1>b DEF ExternalWrite, OwnerExits, EnsureStarted,
       MaybePromoteToOwner, MaybeReloadExternal, GiveUp
<1>2. ASSUME NEW p \in Paths, Edit(p) PROVE op' \in [Threads -> OpType]
  BY <1>2, <1>a, <1>b DEF Edit
<1>3. ASSUME Deliver PROVE op' \in [Threads -> OpType]
  BY <1>3, <1>a, <1>c DEF Deliver
<1>31. ASSUME LookAtState PROVE op' \in [Threads -> OpType]
  <2>1. [op[Watcher] EXCEPT !.at = "batch"] \in OpType
    BY <1>a DEF OpType
  <2> QED BY <1>31, <1>a, <2>1 DEF LookAtState, Batch
<1>4. ASSUME CaptureLate PROVE op' \in [Threads -> OpType]
  BY <1>4, <1>a, <1>b DEF CaptureLate
<1>5. ASSUME ApplyBatch PROVE op' \in [Threads -> OpType]
  BY <1>5, <1>a, <1>b DEF ApplyBatch
<1>6. ASSUME HoldBatch PROVE op' \in [Threads -> OpType]
  BY <1>6, <1>a, <1>b DEF HoldBatch
<1>7. ASSUME LeaveToNewer PROVE op' \in [Threads -> OpType]
  BY <1>7, <1>a, <1>b DEF LeaveToNewer
<1>8. ASSUME Reconcile PROVE op' \in [Threads -> OpType]
  BY <1>8, <1>a, <1>b DEF Reconcile, Batch
<1>9. ASSUME FinishRebuild PROVE op' \in [Threads -> OpType]
  BY <1>9, <1>a, <1>b DEF FinishRebuild
<1>10. ASSUME FinishCompact PROVE op' \in [Threads -> OpType]
  BY <1>10, <1>a, <1>b DEF FinishCompact
<1>11. ASSUME NEW t \in Pool, Reindex(t) PROVE op' \in [Threads -> OpType]
  BY <1>11, <1>a, <1>b DEF Reindex
<1>12. ASSUME NEW t \in Pool, FinishReindex(t)
       PROVE  op' \in [Threads -> OpType]
  BY <1>12, <1>a, <1>b DEF FinishReindex
<1>13. ASSUME NEW t \in Pool, BackgroundBuild(t)
       PROVE  op' \in [Threads -> OpType]
  BY <1>13, <1>a, <1>b DEF BackgroundBuild
<1>14. ASSUME NEW t \in Pool, BackgroundBuildRefused(t)
       PROVE  op' \in [Threads -> OpType]
  BY <1>14, <1>a, <1>b DEF BackgroundBuildRefused
<1>15. ASSUME NEW t \in Pool, FinishBuild(t) PROVE op' \in [Threads -> OpType]
  BY <1>15, <1>a, <1>b DEF FinishBuild
<1>16. ASSUME NEW t \in Pool, MaybeReconcile(t)
       PROVE  op' \in [Threads -> OpType]
  BY <1>16, <1>a, <1>b DEF MaybeReconcile
<1>17. ASSUME NEW t \in Pool, BeginReconcile(t)
       PROVE  op' \in [Threads -> OpType]
  BY <1>17, <1>a, <1>b DEF BeginReconcile
<1>18. ASSUME NEW t \in Pool, FinishReconcile(t)
       PROVE  op' \in [Threads -> OpType]
  BY <1>18, <1>a, <1>b DEF FinishReconcile
<1>19. ASSUME NEW t \in Pool, FinishPrune(t) PROVE op' \in [Threads -> OpType]
  BY <1>19, <1>a, <1>b DEF FinishPrune
<1>20. ASSUME NEW t \in Pool, EndRebuilding(t)
       PROVE  op' \in [Threads -> OpType]
  BY <1>20, <1>a, <1>b DEF EndRebuilding
<1>21. ASSUME NEW t \in Threads, RetryFires(t)
       PROVE  op' \in [Threads -> OpType]
  BY <1>21, <1>a, <1>b DEF RetryFires
<1>22. ASSUME NEW t \in Threads, StartDrain(t)
       PROVE  op' \in [Threads -> OpType]
  BY <1>22, <1>a, <1>b DEF StartDrain
<1>23. ASSUME NEW t \in Threads, NothingWaits(t)
       PROVE  op' \in [Threads -> OpType]
  BY <1>23, <1>a, <1>b DEF NothingWaits
<1>24. ASSUME NEW t \in Threads, DrainApplies(t)
       PROVE  op' \in [Threads -> OpType]
  BY <1>24, <1>a, <1>b DEF DrainApplies
<1>25. ASSUME NEW t \in Threads, DrainHolds(t)
       PROVE  op' \in [Threads -> OpType]
  BY <1>25, <1>a, <1>b DEF DrainHolds
<1>26. ASSUME NEW t \in Threads, DrainLeavesToNewer(t)
       PROVE  op' \in [Threads -> OpType]
  BY <1>26, <1>a, <1>b DEF DrainLeavesToNewer
<1>27. ASSUME NEW t \in Threads, DrainWaits(t)
       PROVE  op' \in [Threads -> OpType]
  BY <1>27, <1>a, <1>b DEF DrainWaits
<1>28. ASSUME NEW t \in Threads, DrainReconciles(t)
       PROVE  op' \in [Threads -> OpType]
  <2>1. \A step \in Steps : [op[t] EXCEPT !.at = step] \in OpType
    BY <1>28, <1>a DEF OpType
  <2> QED BY <1>28, <1>a, <2>1 DEF DrainReconciles
<1>29. ASSUME NEW t \in Threads, FinishDrainBuild(t)
       PROVE  op' \in [Threads -> OpType]
  <2>1. \A step \in Steps : [op[t] EXCEPT !.at = step] \in OpType
    BY <1>29, <1>a DEF OpType
  <2> QED BY <1>29, <1>a, <2>1 DEF FinishDrainBuild
<1>30. ASSUME NEW t \in Threads, EndDrainBuild(t)
       PROVE  op' \in [Threads -> OpType]
  BY <1>30, <1>a DEF EndDrainBuild
<1> QED BY <1>1, <1>2, <1>3, <1>4, <1>5, <1>6, <1>7, <1>8, <1>9, <1>10, <1>11,
       <1>12, <1>13, <1>14, <1>15, <1>16, <1>17, <1>18, <1>19, <1>20, <1>21,
       <1>22, <1>23, <1>24, <1>25, <1>26, <1>27, <1>28, <1>29, <1>30, <1>31 DEF Next,
       Query, OnChanges, Startup, Drain, Threads

\* The queue keeps its shape.
LEMMA QueueStep ==
  ASSUME TypeOK, Next
  PROVE  queue' \in QueueType
<1>a. queue \in QueueType /\ queue.pending \in SUBSET Paths /\ queue.rec \in BOOLEAN
  BY DEF TypeOK, QueueType
<1>b. /\ op[Watcher].paths \in SUBSET Paths /\ op[Watcher].full \in BOOLEAN
      /\ events \in SUBSET Paths /\ overflow \in BOOLEAN
  BY DEF TypeOK, Threads, OpType
<1>c. \A due \in BOOLEAN : [queue EXCEPT !.due = due] \in QueueType
  BY <1>a DEF QueueType
<1> USE QueueOperators DEF vars
<1>1. ASSUME ExternalWrite \/ OwnerExits \/ EnsureStarted \/
             (\E q \in Queries : MaybePromoteToOwner(q)) \/ GiveUp \/ Reconcile \/
             FinishRebuild \/
             FinishCompact \/ LookAtState
      PROVE  queue' \in QueueType
  BY <1>1, <1>a, <1>b DEF ExternalWrite, OwnerExits, EnsureStarted,
       MaybePromoteToOwner, GiveUp, Reconcile, FinishRebuild, FinishCompact,
       LookAtState
<1>2. ASSUME NEW t \in Threads, Reindex(t) \/ FinishReindex(t) \/
             MaybeReconcile(t) \/ BeginReconcile(t) \/ FinishReconcile(t) \/
             FinishPrune(t) \/ EndRebuilding(t) \/ StartDrain(t) \/
             EndDrainBuild(t)
      PROVE  queue' \in QueueType
  BY <1>2, <1>a, <1>b DEF Reindex, FinishReindex, MaybeReconcile,
       BeginReconcile, FinishReconcile, FinishPrune, EndRebuilding,
       StartDrain, EndDrainBuild
<1>3. ASSUME NEW p \in Paths, Edit(p) PROVE queue' \in QueueType
  BY <1>3, <1>a, <1>b DEF Edit
<1>4. ASSUME MaybeReloadExternal PROVE queue' \in QueueType
  BY <1>4, <1>a, <1>b DEF MaybeReloadExternal, EnterNewerFormat
<1>5. ASSUME Deliver PROVE queue' \in QueueType
  BY <1>5, <1>a, <1>b DEF Deliver, CaptureIfBusy
<1>6. ASSUME CaptureLate PROVE queue' \in QueueType
  BY <1>6, <1>a, <1>b DEF CaptureLate, CaptureIfBusy, Batch
<1>7. ASSUME ApplyBatch PROVE queue' \in QueueType
  <2>1. /\ Taken(queue) \in QueueType
        /\ queue.pending \cup op[Watcher].paths \in SUBSET Paths
        /\ Apply(Taken(queue), queue.pending \cup op[Watcher].paths, {})
    BY <1>7, <1>a, <1>b DEF ApplyBatch, Batch
  <2> QED BY <2>1, ApplyQueue
<1>8. ASSUME HoldBatch PROVE queue' \in QueueType
  BY <1>8, <1>a, <1>b DEF HoldBatch, Batch
<1>9. ASSUME LeaveToNewer PROVE queue' \in QueueType
  BY <1>9, <1>a, <1>b DEF LeaveToNewer, EnterNewerFormat
<1>10. ASSUME NEW t \in Pool, BackgroundBuild(t) PROVE queue' \in QueueType
  BY <1>10, <1>a, <1>b DEF BackgroundBuild
<1>11. ASSUME NEW t \in Pool, BackgroundBuildRefused(t)
       PROVE  queue' \in QueueType
  BY <1>11, <1>a, <1>b DEF BackgroundBuildRefused, EnterNewerFormat
<1>12. ASSUME NEW t \in Pool, FinishBuild(t) PROVE queue' \in QueueType
  BY <1>12, <1>a, <1>b DEF FinishBuild
<1>13. ASSUME NEW t \in Threads, RetryFires(t) PROVE queue' \in QueueType
  BY <1>13, <1>a, <1>c DEF RetryFires
<1>14. ASSUME NEW t \in Threads, NothingWaits(t) PROVE queue' \in QueueType
  BY <1>14, <1>a, <1>c DEF NothingWaits
<1>15. ASSUME NEW t \in Threads, DrainApplies(t) PROVE queue' \in QueueType
  <2>1. /\ HoldCleared(Drained(queue)) \in QueueType
        /\ Work(queue) \in SUBSET Paths /\ Retried(queue) \in SUBSET Paths
        /\ Apply(HoldCleared(Drained(queue)), Work(queue), Retried(queue))
    BY <1>15, <1>a DEF DrainApplies
  <2> QED BY <2>1, ApplyQueue
<1>16. ASSUME NEW t \in Threads, DrainHolds(t) PROVE queue' \in QueueType
  <2>1. Drained(queue) \in QueueType /\ Work(queue) \in SUBSET Paths
    BY <1>a
  <2>2. /\ PutBack(Drained(queue), Work(queue), TRUE, TRUE) \in QueueType
        /\ \A why : HeldBack(Drained(queue), Work(queue), why) \in QueueType
    BY <2>1
  <2> QED BY <1>16, <2>2 DEF DrainHolds
<1>17. ASSUME NEW t \in Threads, DrainLeavesToNewer(t)
       PROVE  queue' \in QueueType
  BY <1>17, <1>a, <1>b DEF DrainLeavesToNewer, EnterNewerFormat
<1>18. ASSUME NEW t \in Threads, DrainWaits(t) PROVE queue' \in QueueType
  BY <1>18, <1>a, <1>b DEF DrainWaits
<1>19. ASSUME NEW t \in Threads, DrainReconciles(t) PROVE queue' \in QueueType
  BY <1>19, <1>a, <1>b DEF DrainReconciles
<1>20. ASSUME NEW t \in Threads, FinishDrainBuild(t) PROVE queue' \in QueueType
  BY <1>20, <1>a, <1>b DEF FinishDrainBuild
<1> QED BY <1>1, <1>2, <1>3, <1>4, <1>5, <1>6, <1>7, <1>8, <1>9, <1>10, <1>11,
       <1>12, <1>13, <1>14, <1>15, <1>16, <1>17, <1>18, <1>19, <1>20 DEF Next,
       Query, OnChanges, Startup, Drain, Threads

\* What a session lets go of, or did not see, is something the index lacks.
LEMMA TreeStep ==
  ASSUME TypeOK, Next
  PROVE  TreeType'
<1> USE DEF TypeOK, TreeType, treeVars, diskVars, indexVars, watchVars,
     wakeVars, bounds
<1>1. ASSUME OwnerExits \/ EnsureStarted \/ HoldBatch \/ Reconcile
      PROVE  TreeType'
  BY <1>1 DEF OwnerExits, EnsureStarted, HoldBatch, Reconcile
<1>2. ASSUME NEW t \in Threads, Reindex(t) \/ MaybeReconcile(t) \/
             BeginReconcile(t) \/ FinishPrune(t) \/ EndRebuilding(t) \/
             RetryFires(t) \/ StartDrain(t) \/ NothingWaits(t) \/ DrainHolds(t)
             \/ DrainWaits(t) \/ DrainReconciles(t) \/ EndDrainBuild(t)
      PROVE  TreeType'
  BY <1>2 DEF Reindex, MaybeReconcile, BeginReconcile, FinishPrune,
       EndRebuilding, RetryFires, StartDrain, NothingWaits, DrainHolds,
       DrainWaits, DrainReconciles, EndDrainBuild
<1>3. ASSUME NEW p \in Paths, Edit(p) PROVE TreeType'
  BY <1>3 DEF Edit
<1>4. ASSUME ExternalWrite PROVE TreeType'
  BY <1>4 DEF ExternalWrite
<1>5. ASSUME NEW q \in Queries, MaybePromoteToOwner(q) PROVE TreeType'
  BY <1>5 DEF MaybePromoteToOwner, LookAtRole, TakeRole,
       StartWatcher, CatchUp, MayPromote
<1>6. ASSUME MaybeReloadExternal PROVE TreeType'
  BY <1>6 DEF MaybeReloadExternal, Swap, EnterNewerFormat, GiveUpLiveIndexing
<1>7. ASSUME GiveUp PROVE TreeType'
  BY <1>7 DEF GiveUp, GiveUpWatcher, GiveUpRole
<1>8. ASSUME Deliver PROVE TreeType'
  BY <1>8 DEF Deliver, CaptureIfBusy
<1>22. ASSUME LookAtState PROVE TreeType'
  BY <1>22 DEF LookAtState
<1>9. ASSUME CaptureLate PROVE TreeType'
  BY <1>9 DEF CaptureLate, CaptureIfBusy
<1>10. ASSUME ApplyBatch PROVE TreeType'
  BY <1>10 DEF ApplyBatch, Apply
<1>11. ASSUME LeaveToNewer PROVE TreeType'
  BY <1>11 DEF LeaveToNewer, EnterNewerFormat, GiveUpLiveIndexing
<1>12. ASSUME FinishRebuild PROVE TreeType'
  BY <1>12 DEF FinishRebuild, Walked, Fails, Swap
<1>13. ASSUME FinishCompact PROVE TreeType'
  BY <1>13 DEF FinishCompact, Fails, Swap
<1>14. ASSUME NEW t \in Pool, FinishReindex(t) PROVE TreeType'
  BY <1>14 DEF FinishReindex, Walked, Fails, Swap
<1>15. ASSUME NEW t \in Pool, BackgroundBuild(t) PROVE TreeType'
  BY <1>15 DEF BackgroundBuild, Take, Swap
<1>16. ASSUME NEW t \in Pool, BackgroundBuildRefused(t) PROVE TreeType'
  BY <1>16 DEF BackgroundBuildRefused, Take, EnterNewerFormat, GiveUpLiveIndexing
<1>17. ASSUME NEW t \in Pool, FinishBuild(t) PROVE TreeType'
  BY <1>17 DEF FinishBuild, Walked, Fails, Swap
<1>18. ASSUME NEW t \in Pool, FinishReconcile(t) PROVE TreeType'
  BY <1>18 DEF FinishReconcile, Walked, Fails, Swap
<1>19. ASSUME NEW t \in Threads, DrainApplies(t) PROVE TreeType'
  BY <1>19 DEF DrainApplies, Apply
<1>20. ASSUME NEW t \in Threads, DrainLeavesToNewer(t) PROVE TreeType'
  BY <1>20 DEF DrainLeavesToNewer, EnterNewerFormat, GiveUpLiveIndexing
<1>21. ASSUME NEW t \in Threads, FinishDrainBuild(t) PROVE TreeType'
  BY <1>21 DEF FinishDrainBuild, Walked, Fails, Swap
<1> QED BY <1>1, <1>2, <1>3, <1>4, <1>5, <1>6, <1>7, <1>8, <1>9, <1>10, <1>11,
       <1>12, <1>13, <1>14, <1>15, <1>16, <1>17, <1>18, <1>19, <1>20, <1>21, <1>22
       DEF Next, Query, OnChanges, Startup, Drain, Threads

\* The states, roles, tasks and events stay among those there are.
LEMMA RestStep ==
  ASSUME TypeOK, Next
  PROVE  RestType'
<1> USE DEF TypeOK, RestType, treeVars, diskVars, indexVars, watchVars,
     wakeVars, bounds
<1>1. ASSUME CaptureLate \/ LookAtState PROVE RestType'
  BY <1>1 DEF CaptureLate, LookAtState
<1>2. ASSUME NEW t \in Threads, NothingWaits(t) \/ BeginReconcile(t) \/
             DrainWaits(t) \/ Reindex(t) \/ EndRebuilding(t) \/
             EndDrainBuild(t)
      PROVE  RestType'
  BY <1>2 DEF NothingWaits, BeginReconcile, DrainWaits, Reindex, EndRebuilding,
       EndDrainBuild
<1>3. ASSUME NEW p \in Paths, Edit(p) PROVE RestType'
  BY <1>3 DEF Edit
<1>4. ASSUME ExternalWrite PROVE RestType'
  BY <1>4 DEF ExternalWrite
<1>5. ASSUME OwnerExits PROVE RestType'
  BY <1>5 DEF OwnerExits
<1>6. ASSUME EnsureStarted PROVE RestType'
  BY <1>6 DEF EnsureStarted, Loaded, Swap, GiveUpLiveIndexing, Loads
<1>7. ASSUME NEW q \in Queries, MaybePromoteToOwner(q) PROVE RestType'
  BY <1>7 DEF MaybePromoteToOwner, LookAtRole, TakeRole,
       StartWatcher, CatchUp, MayPromote
<1>8. ASSUME MaybeReloadExternal PROVE RestType'
  BY <1>8 DEF MaybeReloadExternal, Swap, EnterNewerFormat, GiveUpLiveIndexing
<1>9. ASSUME GiveUp PROVE RestType'
  BY <1>9 DEF GiveUp, GiveUpWatcher, GiveUpRole
<1>10. ASSUME Deliver PROVE RestType'
  BY <1>10 DEF Deliver
<1>11. ASSUME ApplyBatch PROVE RestType'
  BY <1>11 DEF ApplyBatch, Apply
<1>12. ASSUME HoldBatch PROVE RestType'
  BY <1>12 DEF HoldBatch, ScheduleRetry
<1>13. ASSUME LeaveToNewer PROVE RestType'
  BY <1>13 DEF LeaveToNewer, EnterNewerFormat, GiveUpLiveIndexing
<1>14. ASSUME Reconcile PROVE RestType'
  BY <1>14 DEF Reconcile, LoseEvents
<1>15. ASSUME FinishRebuild PROVE RestType'
  BY <1>15 DEF FinishRebuild, Walked, Fails, Swap, LoseEvents
<1>16. ASSUME FinishCompact PROVE RestType'
  BY <1>16 DEF FinishCompact, Fails, Swap
<1>17. ASSUME NEW t \in Pool, FinishReindex(t) PROVE RestType'
  BY <1>17 DEF FinishReindex, Walked, Fails, Swap
<1>18. ASSUME NEW t \in Pool, BackgroundBuild(t) PROVE RestType'
  BY <1>18 DEF BackgroundBuild, Take, Swap
<1>19. ASSUME NEW t \in Pool, BackgroundBuildRefused(t) PROVE RestType'
  BY <1>19 DEF BackgroundBuildRefused, Take, EnterNewerFormat, GiveUpLiveIndexing
<1>20. ASSUME NEW t \in Pool, FinishBuild(t) PROVE RestType'
  BY <1>20 DEF FinishBuild, Walked, Fails, Swap
<1>21. ASSUME NEW t \in Pool, MaybeReconcile(t) PROVE RestType'
  BY <1>21 DEF MaybeReconcile, Take
<1>22. ASSUME NEW t \in Pool, FinishReconcile(t) PROVE RestType'
  BY <1>22 DEF FinishReconcile, Walked, Fails, Swap
<1>23. ASSUME NEW t \in Pool, FinishPrune(t) PROVE RestType'
  BY <1>23 DEF FinishPrune, Swap
<1>24. ASSUME NEW t \in Threads, RetryFires(t) PROVE RestType'
  BY <1>24 DEF RetryFires
<1>25. ASSUME NEW t \in Threads, StartDrain(t) PROVE RestType'
  BY <1>25 DEF StartDrain, Take
<1>26. ASSUME NEW t \in Threads, DrainApplies(t) PROVE RestType'
  BY <1>26 DEF DrainApplies, NextRound, Apply
<1>27. ASSUME NEW t \in Threads, DrainHolds(t) PROVE RestType'
  BY <1>27 DEF DrainHolds, NextRound, ScheduleRetry
<1>28. ASSUME NEW t \in Threads, DrainLeavesToNewer(t) PROVE RestType'
  BY <1>28 DEF DrainLeavesToNewer, EnterNewerFormat, GiveUpLiveIndexing
<1>29. ASSUME NEW t \in Threads, DrainReconciles(t) PROVE RestType'
  BY <1>29 DEF DrainReconciles, LoseEvents
<1>30. ASSUME NEW t \in Threads, FinishDrainBuild(t) PROVE RestType'
  BY <1>30 DEF FinishDrainBuild, Walked, Fails, Swap, LoseEvents
<1> QED BY <1>1, <1>2, <1>3, <1>4, <1>5, <1>6, <1>7, <1>8, <1>9, <1>10, <1>11,
       <1>12, <1>13, <1>14, <1>15, <1>16, <1>17, <1>18, <1>19, <1>20, <1>21,
       <1>22, <1>23, <1>24, <1>25, <1>26, <1>27, <1>28, <1>29, <1>30 DEF Next,
       Query, OnChanges, Startup, Drain, Threads

\* The flags are flags.
LEMMA FlagStep ==
  ASSUME TypeOK, Next
  PROVE  FlagType'
<1> USE Zenon DEF TypeOK, FlagType, treeVars, diskVars, indexVars, watchVars,
     wakeVars, bounds
<1>1. ASSUME OwnerExits PROVE FlagType'
  BY <1>1 DEF OwnerExits
<1>2. ASSUME NEW p \in Paths, Edit(p) PROVE FlagType'
  BY <1>2 DEF Edit
<1>3. ASSUME ExternalWrite PROVE FlagType'
  BY <1>3 DEF ExternalWrite
<1>4. ASSUME EnsureStarted PROVE FlagType'
  <2>1. UNCHANGED <<auto, eventsLost, watching, overflow, timer, spent>>
    BY <1>4 DEF EnsureStarted
  <2>2. current' \in BOOLEAN /\ newerFormat' \in BOOLEAN
    BY <1>4, EnsureStartedFinds DEF Loaded, Swap, GiveUpLiveIndexing
  <2> QED BY <2>1, <2>2
<1>5. ASSUME NEW q \in Queries, MaybePromoteToOwner(q) PROVE FlagType'
  BY <1>5 DEF MaybePromoteToOwner, LookAtRole, TakeRole,
       StartWatcher, CatchUp, MayPromote
<1>6. ASSUME MaybeReloadExternal PROVE FlagType'
  BY <1>6 DEF MaybeReloadExternal, Swap, EnterNewerFormat, GiveUpLiveIndexing
<1>7. ASSUME GiveUp PROVE FlagType'
  BY <1>7 DEF GiveUp, GiveUpWatcher, GiveUpRole
<1>8. ASSUME Deliver PROVE FlagType'
  BY <1>8 DEF Deliver
<1>9. ASSUME CaptureLate \/ LookAtState PROVE FlagType'
  BY <1>9 DEF CaptureLate, LookAtState
<1>10. ASSUME ApplyBatch PROVE FlagType'
  BY <1>10 DEF ApplyBatch, Apply
<1>11. ASSUME HoldBatch PROVE FlagType'
  BY <1>11 DEF HoldBatch, ScheduleRetry
<1>12. ASSUME LeaveToNewer PROVE FlagType'
  BY <1>12 DEF LeaveToNewer, EnterNewerFormat, GiveUpLiveIndexing
<1>13. ASSUME Reconcile PROVE FlagType'
  BY <1>13 DEF Reconcile, LoseEvents
<1>14. ASSUME FinishRebuild PROVE FlagType'
  BY <1>14 DEF FinishRebuild, Walked, Fails, Swap, LoseEvents
<1>15. ASSUME FinishCompact PROVE FlagType'
  BY <1>15 DEF FinishCompact, Fails, Swap
<1>16. ASSUME NEW t \in Pool, Reindex(t) PROVE FlagType'
  BY <1>16 DEF Reindex
<1>17. ASSUME NEW t \in Pool, FinishReindex(t) PROVE FlagType'
  BY <1>17 DEF FinishReindex, Walked, Fails, Swap
<1>18. ASSUME NEW t \in Pool, BackgroundBuild(t) PROVE FlagType'
  BY <1>18 DEF BackgroundBuild, Take, Swap
<1>19. ASSUME NEW t \in Pool, BackgroundBuildRefused(t) PROVE FlagType'
  BY <1>19 DEF BackgroundBuildRefused, Take, EnterNewerFormat, GiveUpLiveIndexing
<1>20. ASSUME NEW t \in Pool, FinishBuild(t) PROVE FlagType'
  BY <1>20 DEF FinishBuild, Walked, Fails, Swap
<1>21. ASSUME NEW t \in Pool, MaybeReconcile(t) PROVE FlagType'
  BY <1>21 DEF MaybeReconcile, Take
<1>22. ASSUME NEW t \in Pool, BeginReconcile(t) PROVE FlagType'
  BY <1>22 DEF BeginReconcile
<1>23. ASSUME NEW t \in Pool, FinishReconcile(t) PROVE FlagType'
  BY <1>23 DEF FinishReconcile, Walked, Fails, Swap
<1>24. ASSUME NEW t \in Pool, FinishPrune(t) PROVE FlagType'
  BY <1>24 DEF FinishPrune, Swap
<1>25. ASSUME NEW t \in Pool, EndRebuilding(t) PROVE FlagType'
  BY <1>25 DEF EndRebuilding
<1>26. ASSUME NEW t \in Threads, RetryFires(t) PROVE FlagType'
  BY <1>26 DEF RetryFires
<1>27. ASSUME NEW t \in Threads, StartDrain(t) PROVE FlagType'
  BY <1>27 DEF StartDrain, Take
<1>28. ASSUME NEW t \in Threads, NothingWaits(t) PROVE FlagType'
  BY <1>28 DEF NothingWaits
<1>29. ASSUME NEW t \in Threads, DrainApplies(t) PROVE FlagType'
  BY <1>29 DEF DrainApplies, NextRound, Apply
<1>30. ASSUME NEW t \in Threads, DrainHolds(t) PROVE FlagType'
  BY <1>30 DEF DrainHolds, NextRound, ScheduleRetry
<1>31. ASSUME NEW t \in Threads, DrainLeavesToNewer(t) PROVE FlagType'
  BY <1>31 DEF DrainLeavesToNewer, EnterNewerFormat, GiveUpLiveIndexing
<1>32. ASSUME NEW t \in Threads, DrainWaits(t) PROVE FlagType'
  BY <1>32 DEF DrainWaits
<1>33. ASSUME NEW t \in Threads, DrainReconciles(t) PROVE FlagType'
  BY <1>33 DEF DrainReconciles, LoseEvents
<1>34. ASSUME NEW t \in Threads, FinishDrainBuild(t) PROVE FlagType'
  BY <1>34 DEF FinishDrainBuild, Walked, Fails, Swap, LoseEvents
<1>35. ASSUME NEW t \in Threads, EndDrainBuild(t) PROVE FlagType'
  BY <1>35 DEF EndDrainBuild, NextRound
<1> QED BY <1>1, <1>2, <1>3, <1>4, <1>5, <1>6, <1>7, <1>8, <1>9, <1>10, <1>11,
       <1>12, <1>13, <1>14, <1>15, <1>16, <1>17, <1>18, <1>19, <1>20, <1>21,
       <1>22, <1>23, <1>24, <1>25, <1>26, <1>27, <1>28, <1>29, <1>30, <1>31,
       <1>32, <1>33, <1>34, <1>35 DEF Next, Query, OnChanges, Startup, Drain,
       Threads

\* The rebuilding count does not go below zero.
LEMMA CountStep ==
  ASSUME TypeOK, Next
  PROVE  rebuilding' \in Nat
<1> USE DEF TypeOK, OneLess, treeVars, diskVars, indexVars, watchVars,
     wakeVars, bounds
<1>1. ASSUME ExternalWrite \/ OwnerExits \/ EnsureStarted \/
             (\E q \in Queries : MaybePromoteToOwner(q)) \/ GiveUp \/ Deliver \/ CaptureLate \/
             HoldBatch \/ LookAtState
      PROVE  rebuilding' \in Nat
  BY <1>1 DEF ExternalWrite, OwnerExits, EnsureStarted, MaybePromoteToOwner,
       GiveUp, Deliver, CaptureLate, HoldBatch, LookAtState
<1>2. ASSUME NEW t \in Threads, BackgroundBuild(t) \/ FinishBuild(t) \/
             BeginReconcile(t) \/ FinishReconcile(t) \/ FinishPrune(t) \/
             RetryFires(t) \/ StartDrain(t) \/ NothingWaits(t) \/
             DrainApplies(t) \/ DrainHolds(t) \/ DrainWaits(t) \/
             FinishDrainBuild(t)
      PROVE  rebuilding' \in Nat
  BY <1>2 DEF BackgroundBuild, FinishBuild, BeginReconcile, FinishReconcile,
       FinishPrune, RetryFires, StartDrain, NothingWaits, DrainApplies,
       DrainHolds, DrainWaits, FinishDrainBuild
<1>3. ASSUME NEW p \in Paths, Edit(p) PROVE rebuilding' \in Nat
  BY <1>3 DEF Edit
<1>4. ASSUME MaybeReloadExternal PROVE rebuilding' \in Nat
  BY <1>4 DEF MaybeReloadExternal, EnterNewerFormat
<1>5. ASSUME ApplyBatch PROVE rebuilding' \in Nat
  BY <1>5 DEF ApplyBatch
<1>6. ASSUME LeaveToNewer PROVE rebuilding' \in Nat
  BY <1>6 DEF LeaveToNewer, EnterNewerFormat
<1>7. ASSUME Reconcile PROVE rebuilding' \in Nat
  BY <1>7 DEF Reconcile
<1>8. ASSUME FinishRebuild PROVE rebuilding' \in Nat
  BY <1>8 DEF FinishRebuild
<1>9. ASSUME FinishCompact PROVE rebuilding' \in Nat
  BY <1>9 DEF FinishCompact
<1>10. ASSUME NEW t \in Pool, Reindex(t) PROVE rebuilding' \in Nat
  BY <1>10 DEF Reindex
<1>11. ASSUME NEW t \in Pool, FinishReindex(t) PROVE rebuilding' \in Nat
  BY <1>11 DEF FinishReindex
<1>12. ASSUME NEW t \in Pool, BackgroundBuildRefused(t)
       PROVE  rebuilding' \in Nat
  BY <1>12 DEF BackgroundBuildRefused, EnterNewerFormat
<1>13. ASSUME NEW t \in Pool, MaybeReconcile(t) PROVE rebuilding' \in Nat
  BY <1>13 DEF MaybeReconcile
<1>14. ASSUME NEW t \in Pool, EndRebuilding(t) PROVE rebuilding' \in Nat
  BY <1>14 DEF EndRebuilding
<1>15. ASSUME NEW t \in Threads, DrainLeavesToNewer(t)
       PROVE  rebuilding' \in Nat
  BY <1>15 DEF DrainLeavesToNewer, EnterNewerFormat
<1>16. ASSUME NEW t \in Threads, DrainReconciles(t) PROVE rebuilding' \in Nat
  BY <1>16 DEF DrainReconciles
<1>17. ASSUME NEW t \in Threads, EndDrainBuild(t) PROVE rebuilding' \in Nat
  BY <1>17 DEF EndDrainBuild
<1> QED BY <1>1, <1>2, <1>3, <1>4, <1>5, <1>6, <1>7, <1>8, <1>9, <1>10, <1>11,
       <1>12, <1>13, <1>14, <1>15, <1>16, <1>17 DEF Next, Query, OnChanges,
       Startup, Drain, Threads

\* The steps that leave the give-ups and the takeovers alone.
LEMMA HandStays ==
  ASSUME Next
  PROVE  \/ handover' = handover \/ GiveUpLiveIndexing \/ GiveUp
         \/ \E q \in Queries : MaybePromoteToOwner(q)
<1> USE Zenon
<1>1. ASSUME NEW p \in Paths, Edit(p) PROVE handover' = handover
  BY <1>1 DEF Edit
<1>2. ASSUME ExternalWrite \/ OwnerExits \/ Deliver \/ LookAtState \/ CaptureLate
             \/ ApplyBatch \/ HoldBatch \/ Reconcile \/ FinishRebuild
             \/ FinishCompact
      PROVE  handover' = handover
  BY <1>2 DEF ExternalWrite, OwnerExits, Deliver, LookAtState, CaptureLate,
       ApplyBatch, HoldBatch, Reconcile, FinishRebuild, FinishCompact
<1>3. ASSUME EnsureStarted \/ MaybeReloadExternal \/ LeaveToNewer
      PROVE  handover' = handover \/ GiveUpLiveIndexing
  BY <1>3 DEF EnsureStarted, MaybeReloadExternal, LeaveToNewer, EnterNewerFormat
<1>4. ASSUME NEW t \in Pool, Reindex(t) \/ FinishReindex(t) \/ BackgroundBuild(t)
             \/ FinishBuild(t) \/ MaybeReconcile(t) \/ BeginReconcile(t)
             \/ FinishReconcile(t) \/ FinishPrune(t) \/ EndRebuilding(t)
      PROVE  handover' = handover
  BY <1>4 DEF Reindex, FinishReindex, BackgroundBuild, FinishBuild,
       MaybeReconcile, BeginReconcile, FinishReconcile, FinishPrune, EndRebuilding
<1>5. ASSUME NEW t \in Pool, BackgroundBuildRefused(t) PROVE GiveUpLiveIndexing
  BY <1>5 DEF BackgroundBuildRefused
<1>6. ASSUME NEW t \in Threads, RetryFires(t) \/ StartDrain(t) \/ NothingWaits(t)
             \/ DrainApplies(t) \/ DrainHolds(t) \/ DrainWaits(t)
             \/ DrainReconciles(t) \/ FinishDrainBuild(t) \/ EndDrainBuild(t)
      PROVE  handover' = handover
  BY <1>6 DEF RetryFires, StartDrain, NothingWaits, DrainApplies, DrainHolds,
       DrainWaits, DrainReconciles, FinishDrainBuild, EndDrainBuild
<1>7. ASSUME NEW t \in Threads, DrainLeavesToNewer(t) PROVE GiveUpLiveIndexing
  BY <1>7 DEF DrainLeavesToNewer, EnterNewerFormat
<1> QED BY <1>1, <1>2, <1>3, <1>4, <1>5, <1>6, <1>7 DEF Next, Query, OnChanges,
       Startup, Drain

\* The newer format becomes known by giving up, and only there.
LEMMA NewerIsGivenUp ==
  ASSUME TypeOK, Next, newerFormat'
  PROVE  newerFormat \/ GiveUpLiveIndexing
<1> USE Zenon DEF indexVars
<1>1. ASSUME NEW p \in Paths, Edit(p) PROVE newerFormat
  BY <1>1 DEF Edit
<1>2. ASSUME ExternalWrite \/ OwnerExits \/ Deliver \/ LookAtState \/ CaptureLate
             \/ ApplyBatch \/ HoldBatch \/ Reconcile \/ GiveUp
      PROVE  newerFormat
  BY <1>2 DEF ExternalWrite, OwnerExits, Deliver, LookAtState, CaptureLate,
       ApplyBatch, HoldBatch, Reconcile, GiveUp
<1>3. ASSUME NEW q \in Queries, MaybePromoteToOwner(q) PROVE newerFormat
  BY <1>3 DEF MaybePromoteToOwner
<1>4. ASSUME EnsureStarted PROVE newerFormat \/ GiveUpLiveIndexing
  BY <1>4, EnsureStartedFinds DEF Loaded, Swap
<1>5. ASSUME MaybeReloadExternal \/ LeaveToNewer
      PROVE  newerFormat \/ GiveUpLiveIndexing
  BY <1>5 DEF MaybeReloadExternal, LeaveToNewer, EnterNewerFormat, Swap
<1>6. ASSUME FinishRebuild \/ FinishCompact PROVE newerFormat
  BY <1>6 DEF FinishRebuild, FinishCompact, Walked, Fails, Swap
<1>7. ASSUME NEW t \in Pool, Reindex(t) \/ FinishReindex(t) \/ BackgroundBuild(t)
             \/ FinishBuild(t) \/ MaybeReconcile(t) \/ BeginReconcile(t)
             \/ FinishReconcile(t) \/ FinishPrune(t) \/ EndRebuilding(t)
      PROVE  newerFormat
  BY <1>7 DEF Reindex, FinishReindex, BackgroundBuild, FinishBuild, Walked, Fails,
       Swap, MaybeReconcile, BeginReconcile, FinishReconcile, FinishPrune,
       EndRebuilding
<1>8. ASSUME NEW t \in Pool, BackgroundBuildRefused(t) PROVE GiveUpLiveIndexing
  BY <1>8 DEF BackgroundBuildRefused
<1>9. ASSUME NEW t \in Threads, RetryFires(t) \/ StartDrain(t) \/ NothingWaits(t)
             \/ DrainApplies(t) \/ DrainHolds(t) \/ DrainWaits(t)
             \/ DrainReconciles(t) \/ FinishDrainBuild(t) \/ EndDrainBuild(t)
      PROVE  newerFormat
  BY <1>9 DEF RetryFires, StartDrain, NothingWaits, DrainApplies, DrainHolds,
       DrainWaits, DrainReconciles, FinishDrainBuild, EndDrainBuild, Walked, Fails,
       Swap
<1>10. ASSUME NEW t \in Threads, DrainLeavesToNewer(t) PROVE GiveUpLiveIndexing
  BY <1>10 DEF DrainLeavesToNewer, EnterNewerFormat
<1> QED BY <1>1, <1>2, <1>3, <1>4, <1>5, <1>6, <1>7, <1>8, <1>9, <1>10 DEF Next,
       Query, OnChanges, Startup, Drain

\* Only a takeover or a give-up moves the role to or from this session.
LEMMA RoleStays ==
  ASSUME Next, ~GiveUp, ~\E q \in Queries : MaybePromoteToOwner(q)
  PROVE  /\ (role' = "ours") <=> (role = "ours")
         /\ ~OwnerExits => role' = role
         /\ watching' = watching
<1> USE Zenon DEF watchVars
<1>1. ASSUME NEW p \in Paths, Edit(p) PROVE role' = role /\ watching' = watching
  BY <1>1 DEF Edit
<1>2. ASSUME ExternalWrite \/ Deliver \/ LookAtState \/ CaptureLate
             \/ ApplyBatch \/ HoldBatch \/ Reconcile \/ LeaveToNewer
             \/ FinishRebuild \/ FinishCompact \/ EnsureStarted
             \/ MaybeReloadExternal
      PROVE  role' = role /\ watching' = watching
  BY <1>2 DEF ExternalWrite, Deliver, LookAtState, CaptureLate, ApplyBatch,
       HoldBatch, Reconcile, LeaveToNewer, FinishRebuild, FinishCompact,
       EnsureStarted, MaybeReloadExternal
<1>3. ASSUME OwnerExits
      PROVE  role = "other" /\ role' = "free" /\ watching' = watching
  BY <1>3 DEF OwnerExits
<1>4. "other" # "ours" /\ "free" # "ours"
  OBVIOUS
<1>5. ASSUME NEW t \in Pool, Reindex(t) \/ FinishReindex(t) \/ BackgroundBuild(t)
             \/ BackgroundBuildRefused(t)
             \/ FinishBuild(t) \/ MaybeReconcile(t) \/ BeginReconcile(t)
             \/ FinishReconcile(t) \/ FinishPrune(t) \/ EndRebuilding(t)
      PROVE  role' = role /\ watching' = watching
  BY <1>5 DEF Reindex, FinishReindex, BackgroundBuild, BackgroundBuildRefused,
       FinishBuild, MaybeReconcile, BeginReconcile, FinishReconcile, FinishPrune,
       EndRebuilding
<1>6. ASSUME NEW t \in Threads, RetryFires(t) \/ StartDrain(t) \/ NothingWaits(t)
             \/ DrainApplies(t) \/ DrainHolds(t) \/ DrainWaits(t)
             \/ DrainLeavesToNewer(t)
             \/ DrainReconciles(t) \/ FinishDrainBuild(t) \/ EndDrainBuild(t)
      PROVE  role' = role /\ watching' = watching
  BY <1>6 DEF RetryFires, StartDrain, NothingWaits, DrainApplies, DrainHolds,
       DrainWaits, DrainLeavesToNewer, DrainReconciles, FinishDrainBuild,
       EndDrainBuild
<1>7. \/ role' = role /\ watching' = watching
      \/ OwnerExits /\ role = "other" /\ role' = "free" /\ watching' = watching
  BY <1>1, <1>2, <1>3, <1>5, <1>6 DEF Next, Query, OnChanges, Startup, Drain
<1> QED BY <1>4, <1>7

\* A give-up's record with a capture dropped, or a step further, is one still.
LEMMA GiveUpRecords ==
  ASSUME NEW g \in GiveUpType
  PROVE  /\ [g EXCEPT !.at = "stopped"] \in GiveUpType
         /\ [g EXCEPT !.watcher = FALSE] \in GiveUpType
         /\ [g EXCEPT !.own = FALSE] \in GiveUpType
BY DEF GiveUpType

\* So are the records and the steps of the give-ups and the takeovers.
LEMMA HandStep ==
  ASSUME TypeOK, Next
  PROVE  HandType'
<1>a. HandType
  BY TypeParts
<1>1. ASSUME handover' = handover PROVE HandType'
  BY <1>1, <1>a DEF HandType, handover
<1>2. ASSUME GiveUpLiveIndexing PROVE HandType'
  <2>1. CASE handover' = handover
    BY <2>1, <1>1
  <2>2. CASE ~newerFormat /\ handover' # handover
    <3>1. /\ giveUps' = giveUps \cup
                 {[at |-> "starts", watcher |-> watching, own |-> role = "ours"]}
          /\ takeover' = [q \in Queries |-> IF takeover[q] = "looked" THEN "overtaken"
                                                                     ELSE takeover[q]]
          /\ late' = FALSE
          /\ crossed' = (crossed \/ \E q \in Queries : takeover[q] = "took")
      BY <1>2, <2>2, Zenon DEF GiveUpLiveIndexing
    <3>2. (role = "ours") \in BOOLEAN /\ watching \in BOOLEAN
      BY DEF TypeOK
    <3>3. [at |-> "starts", watcher |-> watching, own |-> role = "ours"] \in GiveUpType
      <4> HIDE DEF TypeOK
      <4> DEFINE mine == role = "ours"
      <4>1. mine \in BOOLEAN
        BY <3>2
      <4> HIDE DEF mine
      <4>2. [at |-> "starts", watcher |-> watching, own |-> mine] \in GiveUpType
        BY <4>1, <3>2 DEF GiveUpType
      <4> QED BY <4>2 DEF mine
    <3>4. giveUps' \subseteq GiveUpType
      BY <3>1, <3>3, <1>a DEF HandType
    <3>5. takeover' \in [Queries -> TakeoverSteps]
      BY <3>1, <1>a DEF HandType, TakeoverSteps
    <3>6. late' \in BOOLEAN /\ crossed' \in BOOLEAN
      BY <3>1, <1>a, Zenon DEF HandType
    <3> QED BY <3>4, <3>5, <3>6 DEF HandType
  <2> QED BY <1>2, <2>1, <2>2 DEF GiveUpLiveIndexing
<1>3. ASSUME GiveUp PROVE HandType'
  <2>1. takeover' = takeover /\ late' = late /\ crossed' = crossed
    BY <1>3 DEF GiveUp
  <2>2. PICK g \in giveUps : GiveUpWatcher(g) \/ GiveUpRole(g)
    BY <1>3 DEF GiveUp
  <2>3. giveUps' \subseteq GiveUpType
    <3>1. giveUps \subseteq GiveUpType /\ g \in GiveUpType
      BY <1>a, <2>2 DEF HandType
    <3>2. (giveUps \ {g}) \cup {[g EXCEPT !.at = "stopped"]} \subseteq GiveUpType
      BY <3>1, GiveUpRecords
    <3>3. \A G \in SUBSET GiveUpType :
            /\ {[h EXCEPT !.watcher = FALSE] : h \in G} \subseteq GiveUpType
            /\ {[h EXCEPT !.own = FALSE] : h \in G} \subseteq GiveUpType
      BY GiveUpRecords
    <3>4. CASE GiveUpWatcher(g)
      BY <3>1, <3>2, <3>3, <3>4, Zenon DEF GiveUpWatcher
    <3>5. CASE GiveUpRole(g)
      <4>1. giveUps \ {g} \in SUBSET GiveUpType
        BY <3>1
      <4> QED BY <4>1, <3>3, <3>5, Zenon DEF GiveUpRole
    <3> QED BY <2>2, <3>4, <3>5
  <2> QED BY <2>1, <2>3, <1>a DEF HandType
<1>4. ASSUME NEW q \in Queries, MaybePromoteToOwner(q) PROVE HandType'
  <2>1. giveUps' = giveUps /\ crossed' = crossed
    BY <1>4 DEF MaybePromoteToOwner, LookAtRole, TakeRole, StartWatcher, CatchUp
  <2>2. late' \in BOOLEAN
    BY <1>4, <1>a, Zenon DEF HandType, MaybePromoteToOwner, LookAtRole, TakeRole,
         StartWatcher, CatchUp
  <2>3. \E step \in TakeoverSteps : takeover' = [takeover EXCEPT ![q] = step]
    BY <1>4 DEF MaybePromoteToOwner, LookAtRole, TakeRole, StartWatcher, CatchUp,
         Proceed, TakeoverSteps
  <2> QED BY <2>1, <2>2, <2>3, <1>a DEF HandType
<1> QED BY HandStays, <1>1, <1>2, <1>3, <1>4

\* The initial states have their types.
LEMMA TypeInit == Init => TypeOK
<1>1. Init => TreeType /\ RestType /\ rebuilding \in Nat
  BY DEF Init, TreeType, RestType
<1>2. Init => FlagType
  BY Zenon DEF Init, FlagType
<1>3. Init => queue \in QueueType
  BY DEF Init, EmptyQueue, QueueType
<1>4. Init => op \in [Threads -> OpType]
  BY OpRecords DEF Init
<1>5. Init => HandType
  BY DEF Init, HandType, TakeoverSteps
<1> QED BY <1>1, <1>2, <1>3, <1>4, <1>5, TypeParts

\* A step that changes nothing keeps them.
LEMMA TypeStutter == TypeOK /\ UNCHANGED vars => TypeOK'
BY DEF TypeOK, vars, treeVars, diskVars, indexVars, watchVars, handover, wakeVars,
   bounds

\* So does every step of the session.
LEMMA TypeNext == TypeOK /\ Next => TypeOK'
<1> SUFFICES ASSUME TypeOK, Next PROVE TypeOK'
  OBVIOUS
<1>1. /\ TreeType' /\ RestType' /\ FlagType' /\ HandType'
      /\ (rebuilding \in Nat)' /\ (queue \in QueueType)'
      /\ op' \in [Threads -> OpType]
  BY TreeStep, RestStep, FlagStep, HandStep, CountStep, QueueStep, OpStep
<1> QED BY <1>1 DEF TypeOK, TreeType, RestType, FlagType, HandType

\* Every variable of LiveSession keeps its type.
THEOREM TypeCorrect == Spec => []TypeOK
<1>1. TypeOK /\ [Next]_vars => TypeOK'
  BY TypeNext, TypeStutter
<1> QED BY TypeInit, <1>1, PTL DEF Spec

-----------------------------------------------------------------------------
(* The role *)

\* A query that looked when the index was of this format, and was not overtaken since,
\* takes the role of an index of this format.
LooksAreFresh == newerFormat => \A q \in Queries : takeover[q] # "looked"

LEMMA LooksStay ==
  ASSUME TypeOK, LooksAreFresh, Next
  PROVE  LooksAreFresh'
<1> USE DEF LooksAreFresh
<1>1. ASSUME handover' = handover, newerFormat' => newerFormat PROVE LooksAreFresh'
  BY <1>1 DEF handover
<1>2. ASSUME GiveUpLiveIndexing PROVE LooksAreFresh'
  BY <1>2 DEF GiveUpLiveIndexing, handover
<1>3. ASSUME GiveUp PROVE LooksAreFresh'
  BY <1>3 DEF GiveUp, indexVars
<1>4. ASSUME NEW q \in Queries, MaybePromoteToOwner(q) PROVE LooksAreFresh'
  BY <1>4 DEF MaybePromoteToOwner, LookAtRole, TakeRole, StartWatcher, CatchUp,
       Proceed, MayPromote, indexVars, TypeOK
<1> QED BY HandStays, NewerIsGivenUp, <1>1, <1>2, <1>3, <1>4

\* Who finds the newer format captures the role of now; only the task that releases it,
\* once done, and a load of an index of this format need it no more.  A query that a
\* give-up overtook takes the role all the same: late.
LEMMA RoleStep ==
  ASSUME TypeOK, LooksAreFresh, RoleIsGivenBack, Next
  PROVE  RoleIsGivenBack'
<1> USE DEF RoleIsGivenBack
<1>1. ASSUME handover' = handover, newerFormat' => newerFormat,
             role' = "ours" => role = "ours"
      PROVE  RoleIsGivenBack'
  BY <1>1 DEF handover
<1>2. ASSUME GiveUpLiveIndexing, role' = role PROVE RoleIsGivenBack'
  <2>1. CASE newerFormat
    BY <1>2, <2>1 DEF GiveUpLiveIndexing, handover
  <2>2. CASE ~newerFormat /\ role = "ours"
    <3>1. [at |-> "starts", watcher |-> watching, own |-> role = "ours"] \in giveUps'
      BY <1>2, <2>2 DEF GiveUpLiveIndexing
    <3>2. [at |-> "starts", watcher |-> watching, own |-> role = "ours"].own
      BY <2>2
    <3> QED BY <3>1, <3>2, Zenon
  <2> QED BY <1>2, <2>1, <2>2
<1>3. ASSUME GiveUp PROVE RoleIsGivenBack'
  <2>1. newerFormat' = newerFormat /\ late' = late
    BY <1>3 DEF GiveUp, indexVars
  <2>2. PICK g \in giveUps : GiveUpWatcher(g) \/ GiveUpRole(g)
    BY <1>3 DEF GiveUp
  <2>3. ASSUME newerFormat, role' = "ours", ~late, NEW h \in giveUps, h.own, role = "ours"
        PROVE  \E k \in giveUps' : k.own
    <3>0. g \in GiveUpType /\ h \in GiveUpType
      BY <2>2 DEF TypeOK
    <3>1. CASE GiveUpWatcher(g)
      <4>1. [g EXCEPT !.at = "stopped"].own = g.own
        BY <3>0 DEF GiveUpType
      <4>2. \A k \in GiveUpType : [k EXCEPT !.watcher = FALSE].own = k.own
        BY DEF GiveUpType
      <4>3. CASE g.watcher
        <5>1. giveUps' = {[k EXCEPT !.watcher = FALSE] :
                            k \in (giveUps \ {g}) \cup {[g EXCEPT !.at = "stopped"]}}
          BY <3>1, <4>3, <2>3 DEF GiveUpWatcher
        <5>2. PICK k \in (giveUps \ {g}) \cup {[g EXCEPT !.at = "stopped"]} : k.own
          BY <2>3, <4>1
        <5>3. k \in GiveUpType
          BY <5>2, <3>0, GiveUpRecords DEF TypeOK
        <5>4. [k EXCEPT !.watcher = FALSE] \in giveUps' /\ [k EXCEPT !.watcher = FALSE].own
          BY <5>1, <5>2, <5>3, <4>2
        <5> QED BY <5>4
      <4>4. CASE ~g.watcher
        BY <3>1, <4>4, <4>1, <2>3 DEF GiveUpWatcher
      <4> QED BY <4>3, <4>4
    <3>2. CASE GiveUpRole(g)
      <4>1. ~g.own /\ giveUps' = giveUps \ {g}
        BY <3>2, <2>3 DEF GiveUpRole
      <4> QED BY <4>1, <2>3
    <3> QED BY <2>2, <3>1, <3>2
  <2>4. role' = "ours" => role = "ours"
    BY <2>2 DEF GiveUpWatcher, GiveUpRole, watchVars
  <2> QED BY <2>1, <2>3, <2>4
<1>4. ASSUME NEW q \in Queries, MaybePromoteToOwner(q) PROVE RoleIsGivenBack'
  <2>1. giveUps' = giveUps /\ newerFormat' = newerFormat
    BY <1>4 DEF MaybePromoteToOwner, indexVars
  <2>2. CASE TakeRole(q)
    <3>1. takeover[q] = "looked" => ~newerFormat
      BY DEF LooksAreFresh
    <3>2. \/ late' = late /\ role' = role
          \/ late' = (newerFormat /\ takeover[q] = "overtaken")
      BY <2>2, Zenon DEF TakeRole
    <3>3. takeover[q] = "looked" \/ takeover[q] = "overtaken"
      BY <2>2 DEF TakeRole
    <3>4. newerFormat => takeover[q] = "overtaken"
      BY <3>1, <3>3
    <3>5. CASE late' = (newerFormat /\ takeover[q] = "overtaken")
      BY <2>1, <3>4, <3>5
    <3>6. CASE late' = late /\ role' = role
      BY <2>1, <3>6
    <3> QED BY <3>2, <3>5, <3>6
  <2>3. CASE role' = role /\ late' = late
    BY <2>1, <2>3
  <2> QED BY <1>4, <2>2, <2>3 DEF MaybePromoteToOwner, LookAtRole, StartWatcher, CatchUp
<1> QED BY HandStays, NewerIsGivenUp, RoleStays, <1>1, <1>2, <1>3, <1>4

\* A session that cannot write the index on disk does not keep the live-watch role
\* from one that can: the task that gives it up is on its way, or its takeover came late.
THEOREM RoleGivenBack == Spec => []RoleIsGivenBack
<1>1. Init => LooksAreFresh /\ RoleIsGivenBack
  BY DEF Init, LooksAreFresh, RoleIsGivenBack
<1>2. TypeOK /\ LooksAreFresh /\ RoleIsGivenBack /\ [Next]_vars
        => LooksAreFresh' /\ RoleIsGivenBack'
  <2>1. LooksAreFresh /\ RoleIsGivenBack /\ UNCHANGED vars
          => LooksAreFresh' /\ RoleIsGivenBack'
    BY DEF LooksAreFresh, RoleIsGivenBack, vars, indexVars, watchVars, handover
  <2> QED BY <2>1, LooksStay, RoleStep
<1> QED BY <1>1, <1>2, TypeCorrect, PTL DEF Spec

-----------------------------------------------------------------------------
(* The inductive invariant behind EditsAreKept: who holds the locks *)

\* The steps _rebuilding counts a thread in.
CountedSteps == {"reconcileWaits", "reconcile", "prune", "ends", "reindex", "rebuild",
                 "compact", "drainBuild", "drainEnds", "drainFails"}
Counted == {t \in Threads : op[t].at \in CountedSteps}

\* One thread at a time holds the locks; a build runs where no index is on disk, a
\* rebuild or a merge where one is loaded, a prune where walks are not run unasked;
\* changes are missed by a running walk only; the rebuilding count counts threads; and
\* retries that are due are about to be taken by a drain.
Locks ==
  /\ \A t, u \in Threads : op[t].at \in Holding /\ op[u].at \in Holding => t = u
  /\ \A t \in Threads : /\ op[t].at = "build" => disk = "gone"
                        /\ op[t].at \in {"rebuild", "compact"} => state = "Ready"
                        /\ op[t].at = "prune" => ~auto
  /\ missed # {} => \E t \in Threads : op[t].at \in Walks
  /\ rebuilding = Cardinality(Counted)
  /\ queue.due => \E t \in Threads : op[t].at = "drain"

\* What every step of thread t does to those: it takes the locks only when they are
\* free, changes the index on disk or leaves "Ready" only under them, and goes into
\* and out of a counted step with the count.
Moves(t) ==
  /\ \A u \in Threads : u # t => op'[u] = op[u]
  /\ op'[t].at \in Holding => GateFree \/ op[t].at \in Holding
  /\ op'[t].at = "build" => disk' = "gone"
  /\ op'[t].at \in {"rebuild", "compact"} => state' = "Ready"
  /\ auto' = auto /\ (op'[t].at = "prune" => ~auto)
  /\ disk' = disk \/ op[t].at \in Holding
  /\ state = "Ready" => state' = "Ready" \/ GateFree \/ op[t].at \in Holding
  /\ missed' = {} \/ (missed' = missed /\ op[t].at \notin Walks)
  /\ rebuilding' = IF op'[t].at \in CountedSteps /\ op[t].at \notin CountedSteps
                     THEN rebuilding + 1
                   ELSE IF op[t].at \in CountedSteps /\ op'[t].at \notin CountedSteps
                     THEN OneLess
                   ELSE rebuilding
  /\ queue'.due => queue.due \/ op'[t].at = "drain"
  /\ op[t].at = "drain" /\ op'[t].at # "drain" => ~queue'.due

\* A step of no thread.
Stays ==
  /\ op' = op /\ rebuilding' = rebuilding /\ queue'.due = queue.due /\ auto' = auto
  /\ disk' = disk \/ GateFree
  /\ state = "Ready" => state' = "Ready" \/ GateFree
  /\ \/ missed' = missed
     \/ (\E p \in Paths : Edit(p)) /\ \E t \in Threads : op[t].at \in Walks

\* What a thread's record says.
LEMMA StepFields ==
  /\ \A step : At(step).at = step /\ At(step).paths = {} /\ ~At(step).full
  /\ \A round : Draining(round).at = "drain"
  /\ Idle.at = "idle"
  /\ \A paths, full : LET b == [At("look") EXCEPT !.paths = paths, !.full = full]
                      IN b.at = "look" /\ b.paths = paths /\ b.full = full
BY DEF At, Draining, Idle

\* The queue asks for a rebuild of its own, which stands for every edit.
WholeQ(q) == q.rec /\ ~q.holdWants

\* What each operation on the queue keeps: the edits, or the rebuild that stands for
\* all of them.
LEMMA QueueFields ==
  ASSUME NEW q \in QueueType
  PROVE  /\ LET k == Taken(q)
            IN /\ k.unsure = q.unsure /\ k.due = q.due /\ k.pending = {}
               /\ WholeQ(q) => WholeQ(k)
               /\ k.rec => q.rec
         /\ LET c == HoldCleared(q)
            IN c.unsure = q.unsure /\ c.due = q.due /\ c.pending = q.pending
               /\ (c.rec => q.rec)
         /\ LET d == Drained(q)
            IN /\ d.pending = {} /\ ~d.rec /\ ~d.holdWants /\ ~d.due
               /\ d.unsure = IF q.due THEN {} ELSE q.unsure
         /\ LET e == HoldEnded(q)
            IN /\ e.pending = q.pending /\ e.unsure = q.unsure /\ e.due = q.due
               /\ e.rec = q.rec /\ e.holdWants = q.holdWants
         /\ LET f == Forgotten(q)
            IN f.pending = {} /\ ~f.rec /\ f.unsure = q.unsure /\ f.due = q.due
<1> USE DEF QueueType, WholeQ
<1>1. LET k == Taken(q)
      IN /\ k.unsure = q.unsure /\ k.due = q.due /\ k.pending = {}
         /\ WholeQ(q) => WholeQ(k)
         /\ k.rec => q.rec
  BY DEF Taken, HoldCleared
<1>2. LET c == HoldCleared(q)
      IN c.unsure = q.unsure /\ c.due = q.due /\ c.pending = q.pending
         /\ (c.rec => q.rec)
  BY DEF HoldCleared
<1>3. LET d == Drained(q)
      IN /\ d.pending = {} /\ ~d.rec /\ ~d.holdWants /\ ~d.due
         /\ d.unsure = IF q.due THEN {} ELSE q.unsure
  BY DEF Drained
<1>4. LET e == HoldEnded(q)
      IN /\ e.pending = q.pending /\ e.unsure = q.unsure /\ e.due = q.due
         /\ e.rec = q.rec /\ e.holdWants = q.holdWants
  BY DEF HoldEnded
<1>5. LET f == Forgotten(q)
      IN f.pending = {} /\ ~f.rec /\ f.unsure = q.unsure /\ f.due = q.due
  BY DEF Forgotten
<1> QED BY <1>1, <1>2, <1>3, <1>4, <1>5

\* So do those that put paths into it.
LEMMA CapturedFields ==
  ASSUME NEW q \in QueueType, NEW paths \in SUBSET Paths, NEW full \in BOOLEAN
  PROVE  LET c == Captured(q, paths, full)
         IN /\ c.unsure = q.unsure /\ c.due = q.due
            /\ WholeQ(c) \/ q.pending \cup paths \subseteq c.pending
            /\ WholeQ(q) \/ full => WholeQ(c)
BY DEF Captured, QueueType, WholeQ

\* Holding edits back does as well.
LEMMA HeldBackFields ==
  ASSUME NEW q \in QueueType, NEW paths \in SUBSET Paths, NEW why
  PROVE  LET h == HeldBack(q, paths, why)
         IN /\ h.unsure = q.unsure /\ h.due = q.due
            /\ WholeQ(h) \/ q.pending \cup paths \subseteq h.pending
            /\ WholeQ(q) => WholeQ(h)
BY DEF HeldBack, QueueType, WholeQ

\* Putting a round's work back keeps it as it was.
LEMMA PutBackFields ==
  ASSUME NEW q \in QueueType, NEW paths \in SUBSET Paths,
         NEW rec \in BOOLEAN, NEW wants \in BOOLEAN
  PROVE  LET b == PutBack(q, paths, rec, wants)
         IN /\ b.pending = q.pending \cup paths /\ b.unsure = q.unsure
            /\ b.due = q.due /\ b.rec = rec /\ b.holdWants = wants
BY DEF PutBack, QueueType

\* Applying paths only adds some of them, or those that were retried, to the ones
\* that wait for an answer.
LEMMA ApplyFields ==
  ASSUME NEW q \in QueueType, NEW paths \in SUBSET Paths,
         NEW retried \in SUBSET Paths, Apply(q, paths, retried)
  PROVE  /\ queue'.due = q.due /\ queue'.pending = q.pending
         /\ queue'.rec = q.rec /\ queue'.holdWants = q.holdWants
<1>1. \A more \in SUBSET Paths :
        LET q1 == [q EXCEPT !.unsure = (@ \ paths) \cup more]
        IN q1.due = q.due /\ q1.pending = q.pending /\ q1.rec = q.rec
           /\ q1.holdWants = q.holdWants
  BY DEF QueueType
<1>2. LET q1 == [q EXCEPT !.unsure = @ \cup retried]
      IN q1.due = q.due /\ q1.pending = q.pending /\ q1.rec = q.rec
         /\ q1.holdWants = q.holdWants
  BY DEF QueueType
<1> QED BY <1>1, <1>2 DEF Apply

\* A thread that turns to something is at it, and the others where they were.
LEMMA BecomeFields ==
  ASSUME op \in [Threads -> OpType], NEW t \in Threads, NEW what, Become(t, what)
  PROVE  op'[t] = what /\ \A u \in Threads : u # t => op'[u] = op[u]
BY DEF Become

\* A drain that ends a round is draining or idle.
LEMMA NextRoundFields ==
  ASSUME op \in [Threads -> OpType], NEW t \in Threads, NextRound(t)
  PROVE  /\ \A u \in Threads : u # t => op'[u] = op[u]
         /\ \/ op'[t].at = "drain" /\ spent' = spent
            \/ op'[t].at = "idle" /\ spent' = TRUE
BY BecomeFields, StepFields DEF NextRound

\* The operations of the queue, at the queue there is.
LEMMA QueueNow ==
  ASSUME TypeOK
  PROVE  /\ queue \in QueueType /\ queue.pending \in SUBSET Paths
         /\ queue.unsure \in SUBSET Paths
         /\ queue.rec \in BOOLEAN /\ queue.holdWants \in BOOLEAN
         /\ queue.due \in BOOLEAN /\ queue.held \in BOOLEAN
         /\ op \in [Threads -> OpType] /\ Watcher \in Threads
         /\ op[Watcher].paths \in SUBSET Paths /\ op[Watcher].full \in BOOLEAN
         /\ events \in SUBSET Paths /\ overflow \in BOOLEAN
         /\ Pool \subseteq Threads
BY DEF TypeOK, QueueType, OpType, Threads

\* What putting paths into the queue there is leaves of the retries.
LEMMA DueStays ==
  ASSUME TypeOK
  PROVE  /\ \A paths \in SUBSET Paths, full \in BOOLEAN :
              Captured(queue, paths, full).due = queue.due
         /\ \A paths \in SUBSET Paths : \A why :
              HeldBack(queue, paths, why).due = queue.due
         /\ \A why : ~HeldBack(Drained(queue), Work(queue), why).due
         /\ \A rec, wants \in BOOLEAN :
              ~PutBack(Drained(queue), Work(queue), rec, wants).due
<1>1. queue \in QueueType
  BY QueueNow
<1>2. Drained(queue) \in QueueType /\ Work(queue) \in SUBSET Paths /\ ~Drained(queue).due
  BY <1>1, QueueOperators, QueueFields
<1>3. \A paths \in SUBSET Paths, full \in BOOLEAN :
        Captured(queue, paths, full).due = queue.due
  BY <1>1, CapturedFields
<1>4. ASSUME NEW q \in QueueType, NEW paths \in SUBSET Paths, NEW why
      PROVE  HeldBack(q, paths, why).due = q.due
  BY HeldBackFields
<1>5. \A rec, wants \in BOOLEAN : ~PutBack(Drained(queue), Work(queue), rec, wants).due
  BY <1>2 DEF PutBack, QueueType
<1> QED BY <1>1, <1>2, <1>3, <1>4, <1>5

\* The steps of the callback.
LEMMA CallbackMoves ==
  ASSUME TypeOK, Locks, (Deliver /\ op' # op) \/ LookAtState \/ CaptureLate \/ ApplyBatch
         \/ HoldBatch \/ LeaveToNewer \/ Reconcile \/ FinishRebuild \/ FinishCompact
  PROVE  Moves(Watcher)
<1>a. /\ queue \in QueueType /\ op \in [Threads -> OpType] /\ Watcher \in Threads
      /\ op[Watcher].paths \in SUBSET Paths /\ op[Watcher].full \in BOOLEAN
      /\ events \in SUBSET Paths /\ overflow \in BOOLEAN
  BY QueueNow
<1> USE StepFields, BecomeFields DEF Moves, Holding, Walks, CountedSteps, treeVars,
     diskVars, indexVars, watchVars, wakeVars, bounds
<1>1. CASE Deliver /\ op' # op
  <2>1. /\ op[Watcher] = Idle
        /\ Become(Watcher, [At("look") EXCEPT !.paths = IF overflow THEN {} ELSE events,
                                              !.full = overflow])
        /\ UNCHANGED <<auto, queue, disk, state, missed, rebuilding>>
    BY <1>1 DEF Deliver
  <2>2. op'[Watcher].at = "look" /\ \A u \in Threads : u # Watcher => op'[u] = op[u]
    <3> DEFINE b == [At("look") EXCEPT !.paths = IF overflow THEN {} ELSE events,
                                       !.full = overflow]
    <3>1. b.at = "look"
      BY StepFields
    <3>2. Become(Watcher, b)
      BY <2>1
    <3> HIDE DEF b
    <3> QED BY <1>a, <3>1, <3>2
  <2> QED BY <2>1, <2>2
<1>9. CASE LookAtState
  <2>1. /\ op'[Watcher].at \in {"batch", "idle"}
        /\ \A u \in Threads : u # Watcher => op'[u] = op[u]
    <3>1. [op[Watcher] EXCEPT !.at = "batch"].at = "batch"
      BY <1>a DEF OpType
    <3> DEFINE b == [op[Watcher] EXCEPT !.at = "batch"]
    <3>2. Become(Watcher, b) \/ Become(Watcher, Idle)
      BY <1>9 DEF LookAtState, Batch
    <3>3. b.at = "batch"
      BY <3>1
    <3> HIDE DEF b
    <3> QED BY <1>a, <3>2, <3>3
  <2> QED BY <1>9, <2>1 DEF LookAtState, Batch
<1>2. CASE CaptureLate
  <2>1. queue'.due = queue.due
    BY <1>2, <1>a, DueStays DEF CaptureLate, CaptureIfBusy, Batch
  <2>2. op'[Watcher].at = "idle" /\ \A u \in Threads : u # Watcher => op'[u] = op[u]
    BY <1>2, <1>a DEF CaptureLate
  <2> QED BY <1>2, <2>1, <2>2 DEF CaptureLate, Batch
<1>3. CASE ApplyBatch
  <2>1. queue'.due = queue.due
    <3>1. /\ Taken(queue) \in QueueType /\ Taken(queue).due = queue.due
          /\ queue.pending \cup op[Watcher].paths \in SUBSET Paths
          /\ Apply(Taken(queue), queue.pending \cup op[Watcher].paths, {})
      BY <1>3, <1>a, QueueNow, QueueOperators, QueueFields DEF ApplyBatch, Batch
    <3> QED BY <3>1, ApplyFields
  <2>2. /\ op'[Watcher].at \in {"idle", "compact"}
        /\ \A u \in Threads : u # Watcher => op'[u] = op[u]
        /\ rebuilding' = IF op'[Watcher].at = "compact" THEN rebuilding + 1 ELSE rebuilding
    BY <1>3, <1>a DEF ApplyBatch
  <2> QED BY <1>3, <2>1, <2>2 DEF ApplyBatch, Applying, Busy, Batch
<1>4. CASE HoldBatch
  <2>1. queue'.due = queue.due
    BY <1>4, <1>a, DueStays DEF HoldBatch, Batch, Pay
  <2>2. op'[Watcher].at = "idle" /\ \A u \in Threads : u # Watcher => op'[u] = op[u]
    BY <1>4, <1>a DEF HoldBatch
  <2> QED BY <1>4, <2>1, <2>2 DEF HoldBatch, Applying, Batch
<1>5. CASE LeaveToNewer
  <2>1. queue'.due = queue.due
    BY <1>5, <1>a, QueueFields DEF LeaveToNewer, EnterNewerFormat
  <2>2. op'[Watcher].at = "idle" /\ \A u \in Threads : u # Watcher => op'[u] = op[u]
    BY <1>5, <1>a DEF LeaveToNewer
  <2> QED BY <1>5, <2>1, <2>2 DEF LeaveToNewer, EnterNewerFormat, Applying, Batch
<1>6. CASE Reconcile
  <2>1. /\ op'[Watcher].at \in {"idle", "rebuild"}
        /\ \A u \in Threads : u # Watcher => op'[u] = op[u]
        /\ rebuilding' = IF op'[Watcher].at = "rebuild" THEN rebuilding + 1 ELSE rebuilding
    BY <1>6, <1>a DEF Reconcile
  <2> QED BY <1>6, <2>1 DEF Reconcile, Busy, Batch
<1>7. CASE FinishRebuild
  <2>1. op'[Watcher].at = "drain" /\ \A u \in Threads : u # Watcher => op'[u] = op[u]
    BY <1>7, <1>a DEF FinishRebuild
  <2> QED BY <1>7, <2>1 DEF FinishRebuild, Walked, Fails, Swap, Batch
<1>8. CASE FinishCompact
  <2>1. op'[Watcher].at = "drain" /\ \A u \in Threads : u # Watcher => op'[u] = op[u]
    BY <1>8, <1>a DEF FinishCompact
  <2> QED BY <1>8, <2>1 DEF FinishCompact, Fails, Swap, Batch
<1> QED BY <1>1, <1>2, <1>3, <1>4, <1>5, <1>6, <1>7, <1>8, <1>9

\* The steps of the pool's own tasks.
LEMMA PoolMoves ==
  ASSUME TypeOK, Locks, NEW t \in Pool,
         Reindex(t) \/ FinishReindex(t) \/ BackgroundBuild(t) \/ FinishBuild(t)
         \/ (MaybeReconcile(t) /\ role = "ours") \/ BeginReconcile(t) \/ FinishReconcile(t)
         \/ FinishPrune(t) \/ EndRebuilding(t)
  PROVE  Moves(t)
<1>a. queue \in QueueType /\ op \in [Threads -> OpType] /\ t \in Threads
  BY QueueNow
<1> USE StepFields, BecomeFields DEF Moves, Holding, Walks, CountedSteps, treeVars,
     diskVars, indexVars, watchVars, wakeVars, bounds
<1>1. CASE Reindex(t)
  <2>1. op'[t].at = "reindex" /\ \A u \in Threads : u # t => op'[u] = op[u]
    BY <1>1, <1>a DEF Reindex
  <2> QED BY <1>1, <2>1 DEF Reindex
<1>2. CASE FinishReindex(t)
  <2>1. op'[t].at = "drain" /\ \A u \in Threads : u # t => op'[u] = op[u]
    BY <1>2, <1>a DEF FinishReindex
  <2> QED BY <1>2, <2>1 DEF FinishReindex, Walked, Fails, Swap
<1>3. CASE BackgroundBuild(t)
  <2>1. /\ op'[t].at \in {"drain", "idle", "build"}
        /\ \A u \in Threads : u # t => op'[u] = op[u]
        /\ op'[t].at = "build" => disk = "gone"
    <3>1. PICK why \in Loads :
            \/ why = "none" /\ Become(t, Draining(1))
            \/ why = "transient" /\ Become(t, Idle)
            \/ why = "missing" /\ Become(t, At("build"))
      BY <1>3 DEF BackgroundBuild
    <3>2. why = "missing" => disk = "gone"
      BY <3>1 DEF Loads, TypeOK
    <3> QED BY <1>a, <3>1, <3>2
  <2>2. UNCHANGED <<auto, queue, disk, missed, rebuilding>> /\ op[t].at = "idle" /\ GateFree
    BY <1>3 DEF BackgroundBuild, Take
  <2> QED BY <2>1, <2>2
<1>4. CASE FinishBuild(t)
  <2>1. op'[t].at \in {"drain", "idle"} /\ \A u \in Threads : u # t => op'[u] = op[u]
    BY <1>4, <1>a DEF FinishBuild
  <2>2. queue'.due = queue.due
    <3>1. Forgotten(queue).due = queue.due
      BY <1>a DEF Forgotten, QueueType
    <3> QED BY <1>4, <3>1 DEF FinishBuild
  <2> QED BY <1>4, <2>1, <2>2 DEF FinishBuild, Walked, Fails, Swap
<1>5. CASE MaybeReconcile(t) /\ role = "ours"
  <2>1. /\ op'[t].at \in {"reconcileWaits", "prune", "drain"}
        /\ \A u \in Threads : u # t => op'[u] = op[u]
        /\ op'[t].at = "prune" => GateFree /\ ~auto
        /\ rebuilding' = IF op'[t].at = "drain" THEN rebuilding ELSE rebuilding + 1
    BY <1>5, <1>a DEF MaybeReconcile
  <2> QED BY <1>5, <2>1 DEF MaybeReconcile, Take
<1>6. CASE BeginReconcile(t)
  <2>1. op'[t].at = "reconcile" /\ \A u \in Threads : u # t => op'[u] = op[u]
    BY <1>6, <1>a DEF BeginReconcile
  <2> QED BY <1>6, <2>1 DEF BeginReconcile
<1>7. CASE FinishReconcile(t)
  <2>1. op'[t].at = "ends" /\ \A u \in Threads : u # t => op'[u] = op[u]
    BY <1>7, <1>a DEF FinishReconcile
  <2> QED BY <1>7, <2>1 DEF FinishReconcile, Walked, Fails, Swap
<1>8. CASE FinishPrune(t)
  <2>1. op'[t].at = "ends" /\ \A u \in Threads : u # t => op'[u] = op[u]
    BY <1>8, <1>a DEF FinishPrune
  <2> QED BY <1>8, <2>1 DEF FinishPrune, Swap
<1>9. CASE EndRebuilding(t)
  <2>1. op'[t].at = "drain" /\ \A u \in Threads : u # t => op'[u] = op[u]
    BY <1>9, <1>a DEF EndRebuilding
  <2> QED BY <1>9, <2>1 DEF EndRebuilding
<1> QED BY <1>1, <1>2, <1>3, <1>4, <1>5, <1>6, <1>7, <1>8, <1>9

\* The steps of a drain.
LEMMA DrainMoves ==
  ASSUME TypeOK, Locks, NEW t \in Threads, Drain(t)
  PROVE  Moves(t)
<1>a. /\ queue \in QueueType /\ op \in [Threads -> OpType]
      /\ queue.rec \in BOOLEAN /\ queue.due \in BOOLEAN
  BY QueueNow
<1>b. /\ HoldCleared(Drained(queue)) \in QueueType /\ Drained(queue) \in QueueType
      /\ Work(queue) \in SUBSET Paths /\ Retried(queue) \in SUBSET Paths
      /\ ~Drained(queue).due
  BY <1>a, QueueOperators, QueueFields, QueueNow
<1>c. /\ ~HoldCleared(Drained(queue)).due
      /\ ~HoldEnded(Drained(queue)).due
      /\ ~Forgotten(Drained(queue)).due
      /\ \A full, wants \in BOOLEAN :
           ~PutBack(Drained(queue), Work(queue), full, wants).due
      /\ \A why : ~HeldBack(Drained(queue), Work(queue), why).due
      /\ HoldEnded(queue).due = queue.due
  BY <1>a, <1>b, QueueFields, DueStays
<1>d. \A step : Become(t, [op[t] EXCEPT !.at = step]) =>
        op'[t].at = step /\ \A u \in Threads : u # t => op'[u] = op[u]
  BY <1>a DEF OpType, Become
<1> USE StepFields, BecomeFields, NextRoundFields DEF Moves, Holding, Walks,
     CountedSteps, treeVars, diskVars, indexVars, watchVars, wakeVars, bounds
<1>1. CASE RetryFires(t)
  <2>1. op'[t].at = "drain" /\ \A u \in Threads : u # t => op'[u] = op[u]
    BY <1>1, <1>a DEF RetryFires
  <2> QED BY <1>1, <2>1 DEF RetryFires
<1>2. CASE StartDrain(t)
  <2>1. op'[t].at = "drain" /\ \A u \in Threads : u # t => op'[u] = op[u]
    BY <1>2, <1>a DEF StartDrain
  <2> QED BY <1>2, <2>1 DEF StartDrain, Take
<1>3. CASE NothingWaits(t)
  <2>1. op'[t].at = "idle" /\ \A u \in Threads : u # t => op'[u] = op[u]
    BY <1>3, <1>a DEF NothingWaits
  <2>2. ~queue'.due
    BY <1>3, <1>a DEF NothingWaits, QueueType
  <2> QED BY <1>3, <2>1, <2>2 DEF NothingWaits
<1>4. CASE DrainApplies(t)
  <2>1. ~queue'.due
    <3>1. Apply(HoldCleared(Drained(queue)), Work(queue), Retried(queue))
      BY <1>4 DEF DrainApplies
    <3> QED BY <1>b, <1>c, <3>1, ApplyFields
  <2>2. op'[t].at \in {"drain", "idle"} /\ \A u \in Threads : u # t => op'[u] = op[u]
    BY <1>4, <1>a DEF DrainApplies
  <2>3. UNCHANGED <<auto, disk, state, missed, rebuilding>> /\ op[t].at = "drain"
    BY <1>4 DEF DrainApplies, Round
  <2> QED BY <2>1, <2>2, <2>3
<1>5. CASE DrainHolds(t)
  <2>1. ~queue'.due
    <3>1. \/ queue' = PutBack(Drained(queue), Work(queue), TRUE, TRUE)
          \/ \E why : queue' = HeldBack(Drained(queue), Work(queue), why)
      BY <1>5 DEF DrainHolds
    <3>2. ~PutBack(Drained(queue), Work(queue), TRUE, TRUE).due
      BY <1>b DEF PutBack, QueueType
    <3>3. ASSUME NEW why PROVE ~HeldBack(Drained(queue), Work(queue), why).due
      BY <1>c
    <3>4. CASE \E why : queue' = HeldBack(Drained(queue), Work(queue), why)
      <4>1. PICK why : queue' = HeldBack(Drained(queue), Work(queue), why)
        BY <3>4
      <4> QED BY <3>3, <4>1
    <3> QED BY <3>1, <3>2, <3>4
  <2>2. op'[t].at \in {"drain", "idle"} /\ \A u \in Threads : u # t => op'[u] = op[u]
    BY <1>5, <1>a DEF DrainHolds
  <2>3. UNCHANGED <<auto, disk, state, missed, rebuilding>> /\ op[t].at = "drain"
    BY <1>5 DEF DrainHolds, Round
  <2> QED BY <2>1, <2>2, <2>3
<1>6. CASE DrainLeavesToNewer(t)
  <2>1. ~queue'.due
    BY <1>6, <1>c DEF DrainLeavesToNewer, EnterNewerFormat
  <2>2. op'[t].at = "idle" /\ \A u \in Threads : u # t => op'[u] = op[u]
    BY <1>6, <1>a DEF DrainLeavesToNewer
  <2> QED BY <1>6, <2>1, <2>2 DEF DrainLeavesToNewer, EnterNewerFormat, Round
<1>7. CASE DrainWaits(t)
  <2>1. ~queue'.due
    BY <1>7, <1>a, <1>b, <1>c DEF DrainWaits
  <2>2. op'[t].at = "idle" /\ \A u \in Threads : u # t => op'[u] = op[u]
    BY <1>7, <1>a DEF DrainWaits
  <2> QED BY <1>7, <2>1, <2>2 DEF DrainWaits, Round
<1>8. CASE DrainReconciles(t)
  <2>1. ~queue'.due
    BY <1>8, <1>b, <1>c DEF DrainReconciles
  <2>2. op'[t].at \in {"drainBuild", "drainEnds"}
        /\ \A u \in Threads : u # t => op'[u] = op[u]
    BY <1>8, <1>d DEF DrainReconciles
  <2> QED BY <1>8, <2>1, <2>2 DEF DrainReconciles, Round
<1>9. CASE FinishDrainBuild(t)
  <2>1. op'[t].at \in {"drainEnds", "drainFails"}
        /\ \A u \in Threads : u # t => op'[u] = op[u]
    BY <1>9, <1>d DEF FinishDrainBuild
  <2>2. queue'.due = queue.due
    BY <1>9, <1>c DEF FinishDrainBuild
  <2> QED BY <1>9, <2>1, <2>2 DEF FinishDrainBuild, Walked, Fails, Swap
<1>10. CASE EndDrainBuild(t)
  <2>1. op'[t].at \in {"drain", "idle"} /\ \A u \in Threads : u # t => op'[u] = op[u]
    BY <1>10, <1>a DEF EndDrainBuild
  <2> QED BY <1>10, <2>1 DEF EndDrainBuild
<1> QED BY <1>1, <1>2, <1>3, <1>4, <1>5, <1>6, <1>7, <1>8, <1>9, <1>10 DEF Drain

\* The steps of no thread.
LEMMA OthersStay ==
  ASSUME TypeOK, Locks,
         (\E p \in Paths : Edit(p)) \/ ExternalWrite \/ OwnerExits \/ Query \/ GiveUp
         \/ (Deliver /\ op' = op)
         \/ \E t \in Pool : BackgroundBuildRefused(t) \/ (MaybeReconcile(t) /\ role # "ours")
  PROVE  Stays
<1>a. /\ queue \in QueueType
      /\ events \in SUBSET Paths /\ overflow \in BOOLEAN
  BY QueueNow
<1>b. Forgotten(queue).due = queue.due
  BY <1>a DEF Forgotten, QueueType
<1> USE DEF Stays, treeVars, diskVars, indexVars, watchVars, wakeVars, bounds
<1>1. CASE \E p \in Paths : Edit(p)
  BY <1>1 DEF Edit
<1>2. CASE ExternalWrite
  BY <1>2 DEF ExternalWrite
<1>3. CASE OwnerExits
  BY <1>3 DEF OwnerExits
<1>4. CASE EnsureStarted
  BY <1>4 DEF EnsureStarted
<1>5. CASE \E q \in Queries : MaybePromoteToOwner(q)
  BY <1>5 DEF MaybePromoteToOwner
<1>6. CASE MaybeReloadExternal
  BY <1>6, <1>b DEF MaybeReloadExternal, EnterNewerFormat, Swap
<1>7. CASE GiveUp
  BY <1>7 DEF GiveUp
<1>8. CASE Deliver /\ op' = op
  <2>1. queue'.due = queue.due
    BY <1>8, <1>a, DueStays DEF Deliver, CaptureIfBusy
  <2> QED BY <1>8, <2>1 DEF Deliver
<1>9. CASE \E t \in Pool : BackgroundBuildRefused(t)
  BY <1>9, <1>b DEF BackgroundBuildRefused
<1>10. CASE \E t \in Pool : MaybeReconcile(t) /\ role # "ours"
  BY <1>10 DEF MaybeReconcile
<1> QED BY <1>1, <1>2, <1>3, <1>4, <1>5, <1>6, <1>7, <1>8, <1>9, <1>10 DEF Query

\* A step is of one thread or of none.
LEMMA EveryStep ==
  ASSUME TypeOK, Locks, Next
  PROVE  Stays \/ \E t \in Threads : Moves(t)
<1>1. CASE OnChanges
  <2>1. Deliver /\ op' = op => Stays
    BY OthersStay
  <2>2. Watcher \in Threads
    BY QueueNow
  <2> QED BY <1>1, <2>1, <2>2, CallbackMoves DEF OnChanges
<1>2. CASE \E t \in Pool : Reindex(t) \/ FinishReindex(t) \/ Startup(t)
  <2>1. PICK t \in Pool : Reindex(t) \/ FinishReindex(t) \/ Startup(t)
    BY <1>2
  <2>2. BackgroundBuildRefused(t) \/ (MaybeReconcile(t) /\ role # "ours") => Stays
    BY OthersStay
  <2>3. t \in Threads
    BY QueueNow
  <2>4. \/ Reindex(t) \/ FinishReindex(t) \/ BackgroundBuild(t) \/ FinishBuild(t)
        \/ (MaybeReconcile(t) /\ role = "ours") \/ BeginReconcile(t)
        \/ FinishReconcile(t) \/ FinishPrune(t) \/ EndRebuilding(t)
        => Moves(t)
    BY PoolMoves
  <2> QED BY <2>1, <2>2, <2>3, <2>4 DEF Startup
<1>3. CASE \E t \in Threads : Drain(t)
  BY <1>3, DrainMoves
<1>4. CASE (\E p \in Paths : Edit(p)) \/ ExternalWrite \/ OwnerExits \/ Query \/ GiveUp
  BY <1>4, OthersStay
<1> QED BY <1>1, <1>2, <1>3, <1>4 DEF Next

\* The counted threads are finitely many.
LEMMA CountedIsFinite == ASSUME TypeOK PROVE IsFiniteSet(Counted)
<1>1. IsFiniteSet(Threads)
  BY LiveSessionAssumption, FS_AddElement DEF Threads
<1> QED BY <1>1, FS_Subset DEF Counted

\* The locks' invariant is kept.
LEMMA LocksNext ==
  ASSUME TypeOK, Locks, Next
  PROVE  Locks'
<1>1. CASE Stays
  <2>1. Counted' = Counted
    BY <1>1 DEF Stays, Counted
  <2> QED BY <1>1, <2>1 DEF Stays, Locks, GateFree, Holding, Walks
<1>2. CASE \E t \in Threads : Moves(t)
  <2>1. PICK t \in Threads : Moves(t)
    BY <1>2
  <2>2. \A u, v \in Threads : op'[u].at \in Holding /\ op'[v].at \in Holding => u = v
    BY <2>1 DEF Moves, Locks, GateFree
  <2>3. \A u \in Threads : /\ op'[u].at = "build" => disk' = "gone"
                           /\ op'[u].at \in {"rebuild", "compact"} => state' = "Ready"
                           /\ op'[u].at = "prune" => ~auto'
    <3>1. TAKE u \in Threads
    <3>2. CASE u = t
      BY <2>1, <3>2 DEF Moves
    <3>3. CASE u # t
      <4>1. op'[u] = op[u]
        BY <2>1, <3>3 DEF Moves
      <4>2. op[u].at \in Holding => op[t].at \notin Holding /\ ~GateFree
        BY <3>3 DEF Locks, GateFree
      <4> QED BY <2>1, <4>1, <4>2 DEF Moves, Locks, Holding, Walks
    <3> QED BY <3>2, <3>3
  <2>4. missed' # {} => \E u \in Threads : op'[u].at \in Walks
    BY <2>1 DEF Moves, Locks
  <2>5. queue'.due => \E u \in Threads : op'[u].at = "drain"
    BY <2>1 DEF Moves, Locks
  <2>6. rebuilding' = Cardinality(Counted')
    <3>1. IsFiniteSet(Counted) /\ Cardinality(Counted) \in Nat
      BY CountedIsFinite, FS_CardinalityType
    <3>2. CASE op'[t].at \in CountedSteps /\ op[t].at \notin CountedSteps
      <4>1. t \notin Counted /\ Counted' = Counted \cup {t}
        BY <2>1, <3>2 DEF Counted, Moves
      <4> QED BY <2>1, <3>1, <3>2, <4>1, FS_AddElement DEF Moves, Locks
    <3>3. CASE op[t].at \in CountedSteps /\ op'[t].at \notin CountedSteps
      <4>1. t \in Counted /\ Counted' = Counted \ {t}
        BY <2>1, <3>3 DEF Counted, Moves
      <4>2. Cardinality(Counted') = Cardinality(Counted) - 1
        BY <3>1, <4>1, FS_RemoveElement
      <4>3. Cardinality(Counted) # 0
        BY <3>1, <4>1, FS_EmptySet
      <4> QED BY <2>1, <3>1, <3>3, <4>2, <4>3 DEF Moves, Locks, OneLess
    <3>4. CASE op[t].at \in CountedSteps <=> op'[t].at \in CountedSteps
      <4>1. Counted' = Counted
        BY <2>1, <3>4 DEF Counted, Moves
      <4> QED BY <2>1, <3>4, <4>1 DEF Moves, Locks
    <3> QED BY <3>2, <3>3, <3>4
  <2> QED BY <2>2, <2>3, <2>4, <2>5, <2>6 DEF Locks
<1> QED BY <1>1, <1>2, EveryStep

-----------------------------------------------------------------------------
(* Who watches *)

\* While nobody here watches, everything the index lacks is unreported; a batch that is
\* looked at came from a watcher that runs, and a watcher that a give-up captured runs
\* until one of them stops it.
Watched ==
  /\ ~watching => unreported = stale
  /\ op[Watcher].at = "look" => watching
  /\ \A g \in giveUps : g.watcher => watching

\* Only a delivery brings a batch to look at.
LEMMA LookComes ==
  ASSUME TypeOK, Locks, Next, op'[Watcher].at = "look"
  PROVE  op'[Watcher] = op[Watcher] \/ (Deliver /\ ~Busy)
<1>a. /\ op \in [Threads -> OpType] /\ Watcher \in Threads /\ Pool \subseteq Threads
  BY QueueNow
<1>b. \A t \in Pool : t # Watcher
  BY LiveSessionAssumption
<1>1. CASE \/ \E p \in Paths : Edit(p)
           \/ ExternalWrite \/ OwnerExits \/ Query \/ GiveUp
  <2>1. Stays
    BY <1>1, OthersStay
  <2> QED BY <2>1 DEF Stays
<1>2. ASSUME NEW t \in Pool, Reindex(t) \/ FinishReindex(t) \/ Startup(t)
      PROVE  op'[Watcher] = op[Watcher]
  BY <1>2, <1>a, <1>b, BecomeFields DEF Reindex, FinishReindex, Startup, BackgroundBuild,
     BackgroundBuildRefused, FinishBuild, MaybeReconcile, BeginReconcile, FinishReconcile,
     FinishPrune, EndRebuilding
<1>3. ASSUME NEW t \in Threads, Drain(t) PROVE op'[Watcher] = op[Watcher]
  <2>1. \A u \in Threads : u # t => op'[u] = op[u]
    BY <1>a, <1>3, BecomeFields, NextRoundFields DEF Drain, RetryFires, StartDrain,
       NothingWaits, DrainApplies, DrainHolds, DrainLeavesToNewer, DrainWaits,
       DrainReconciles, FinishDrainBuild, EndDrainBuild
  <2>2. \A step : Become(t, [op[t] EXCEPT !.at = step]) => op'[t].at = step
    BY <1>a DEF OpType, Become
  <2>3. op'[t].at # "look"
    <3>1. CASE RetryFires(t) \/ StartDrain(t) \/ NothingWaits(t) \/ DrainLeavesToNewer(t)
               \/ DrainWaits(t)
      BY <1>a, <3>1, BecomeFields, StepFields DEF RetryFires, StartDrain, NothingWaits,
         DrainLeavesToNewer, DrainWaits
    <3>2. CASE DrainApplies(t) \/ DrainHolds(t) \/ EndDrainBuild(t)
      BY <1>a, <3>2, BecomeFields, StepFields, NextRoundFields DEF DrainApplies,
         DrainHolds, EndDrainBuild
    <3>3. CASE DrainReconciles(t) \/ FinishDrainBuild(t)
      BY <2>2, <3>3 DEF DrainReconciles, FinishDrainBuild
    <3> QED BY <1>3, <3>1, <3>2, <3>3 DEF Drain
  <2> QED BY <1>a, <2>1, <2>3
<1>4. CASE OnChanges
  <2>1. CASE Deliver
    BY <2>1, Zenon DEF Deliver
  <2>2. CASE LookAtState
    <3>1. [op[Watcher] EXCEPT !.at = "batch"].at = "batch"
      BY <1>a DEF OpType
    <3> DEFINE b == [op[Watcher] EXCEPT !.at = "batch"]
    <3>2. Become(Watcher, b) \/ Become(Watcher, Idle)
      BY <2>2 DEF LookAtState, Batch
    <3>3. b.at = "batch"
      BY <3>1
    <3> HIDE DEF b
    <3> QED BY <1>a, <3>2, <3>3, BecomeFields, StepFields
  <2>3. CASE CaptureLate \/ ApplyBatch \/ HoldBatch \/ LeaveToNewer \/ Reconcile
             \/ FinishRebuild \/ FinishCompact
    BY <1>a, <2>3, BecomeFields, StepFields DEF CaptureLate, ApplyBatch, HoldBatch,
       LeaveToNewer, Reconcile, FinishRebuild, FinishCompact
  <2> QED BY <1>4, <2>1, <2>2, <2>3 DEF OnChanges
<1> QED BY <1>1, <1>2, <1>3, <1>4 DEF Next

\* Nobody watches: only a walk or an application takes off what is unreported, from
\* what the index lacks as well.
LEMMA UnwatchedStays ==
  ASSUME TypeOK, Next, unreported = stale, ~watching, op[Watcher].at # "look",
         ~GiveUp, ~\E q \in Queries : MaybePromoteToOwner(q)
  PROVE  unreported' = stale'
<1> USE DEF TypeOK, treeVars, diskVars, indexVars, watchVars, wakeVars, bounds
<1>1. ASSUME EnsureStarted \/ HoldBatch \/ Reconcile \/ Deliver \/ CaptureLate
             \/ OwnerExits
      PROVE  unreported' = stale'
  <2>1. UNCHANGED <<stale, unreported>>
    BY <1>1 DEF EnsureStarted, HoldBatch, Reconcile, Deliver, CaptureLate, OwnerExits
  <2> QED BY <2>1
<1>0. ASSUME LookAtState PROVE unreported' = stale'
  BY <1>0 DEF LookAtState, Batch
<1>2. ASSUME NEW t \in Threads, Reindex(t) \/ MaybeReconcile(t) \/
             BeginReconcile(t) \/ FinishPrune(t) \/ EndRebuilding(t) \/
             RetryFires(t) \/ StartDrain(t) \/ NothingWaits(t) \/ DrainHolds(t)
             \/ DrainWaits(t) \/ DrainReconciles(t) \/ EndDrainBuild(t)
             \/ BackgroundBuild(t)
      PROVE  unreported' = stale'
  <2>1. stale' = stale
    BY <1>2 DEF Reindex, MaybeReconcile, BeginReconcile, FinishPrune,
         EndRebuilding, RetryFires, StartDrain, NothingWaits, DrainHolds,
         DrainWaits, DrainReconciles, EndDrainBuild, BackgroundBuild
  <2>2. unreported' = unreported
    BY <1>2 DEF Reindex, MaybeReconcile, BeginReconcile, FinishPrune,
         EndRebuilding, RetryFires, StartDrain, NothingWaits, DrainHolds,
         DrainWaits, DrainReconciles, EndDrainBuild, BackgroundBuild
  <2> QED BY <2>1, <2>2
<1>3. ASSUME NEW p \in Paths, Edit(p) PROVE unreported' = stale'
  BY <1>3 DEF Edit
<1>4. ASSUME ExternalWrite PROVE unreported' = stale'
  BY <1>4 DEF ExternalWrite
<1>6. ASSUME MaybeReloadExternal PROVE unreported' = stale'
  BY <1>6 DEF MaybeReloadExternal, Swap, EnterNewerFormat
<1>8. ASSUME ApplyBatch PROVE unreported' = stale'
  BY <1>8 DEF ApplyBatch, Apply
<1>9. ASSUME LeaveToNewer PROVE unreported' = stale'
  BY <1>9 DEF LeaveToNewer, EnterNewerFormat
<1>10. ASSUME FinishRebuild PROVE unreported' = stale'
  BY <1>10 DEF FinishRebuild, Walked, Fails
<1>11. ASSUME FinishCompact PROVE unreported' = stale'
  BY <1>11 DEF FinishCompact, Fails
<1>12. ASSUME NEW t \in Pool, FinishReindex(t) PROVE unreported' = stale'
  BY <1>12 DEF FinishReindex, Walked, Fails
<1>13. ASSUME NEW t \in Pool, BackgroundBuildRefused(t) PROVE unreported' = stale'
  BY <1>13 DEF BackgroundBuildRefused
<1>14. ASSUME NEW t \in Pool, FinishBuild(t) PROVE unreported' = stale'
  BY <1>14 DEF FinishBuild, Walked, Fails
<1>15. ASSUME NEW t \in Pool, FinishReconcile(t) PROVE unreported' = stale'
  BY <1>15 DEF FinishReconcile, Walked, Fails
<1>16. ASSUME NEW t \in Threads, DrainApplies(t) PROVE unreported' = stale'
  BY <1>16 DEF DrainApplies, Apply
<1>17. ASSUME NEW t \in Threads, DrainLeavesToNewer(t) PROVE unreported' = stale'
  BY <1>17 DEF DrainLeavesToNewer, EnterNewerFormat
<1>18. ASSUME NEW t \in Threads, FinishDrainBuild(t) PROVE unreported' = stale'
  BY <1>18 DEF FinishDrainBuild, Walked, Fails
<1> QED BY <1>0, <1>1, <1>2, <1>3, <1>4, <1>6, <1>8, <1>9, <1>10, <1>11,
       <1>12, <1>13, <1>14, <1>15, <1>16, <1>17, <1>18
       DEF Next, Query, OnChanges, Startup, Drain, Threads

\* What a give-up does to the watcher.
LEMMA GiveUpStops ==
  ASSUME GiveUp
  PROVE  /\ stale' = stale /\ op' = op /\ takeover' = takeover
         /\ \/ UNCHANGED <<unreported, watching, events, overflow>>
            \/ \E g \in giveUps :
                 /\ g.at = "starts" /\ g.watcher /\ op[Watcher] = Idle
                 /\ ~watching' /\ unreported' = stale /\ role' = role
                 /\ giveUps' = {[h EXCEPT !.watcher = FALSE] :
                      h \in (giveUps \ {g}) \cup {[g EXCEPT !.at = "stopped"]}}
<1>1. stale' = stale /\ op' = op /\ takeover' = takeover
  BY DEF GiveUp
<1>2. PICK g \in giveUps : GiveUpWatcher(g) \/ GiveUpRole(g)
  BY DEF GiveUp
<1>3. CASE GiveUpWatcher(g)
  BY <1>1, <1>2, <1>3 DEF GiveUpWatcher, watchVars
<1>4. CASE GiveUpRole(g)
  BY <1>1, <1>4 DEF GiveUpRole
<1> QED BY <1>2, <1>3, <1>4

\* Where a give-up's records come from: those that were, with a capture less or a step
\* further.
LEMMA GiveUpsCome ==
  ASSUME TypeOK, GiveUp, NEW k \in giveUps'
  PROVE  \E h \in giveUps : (k.watcher => h.watcher) /\ (k.own => h.own)
<1>1. PICK g \in giveUps : GiveUpWatcher(g) \/ GiveUpRole(g)
  BY DEF GiveUp
<1>2. giveUps \subseteq GiveUpType /\ g \in GiveUpType
  BY <1>1 DEF TypeOK
<1>3. \A h \in GiveUpType :
        /\ [h EXCEPT !.at = "stopped"].watcher = h.watcher
        /\ [h EXCEPT !.at = "stopped"].own = h.own
        /\ ~[h EXCEPT !.watcher = FALSE].watcher
        /\ [h EXCEPT !.watcher = FALSE].own = h.own
        /\ [h EXCEPT !.own = FALSE].watcher = h.watcher
        /\ ~[h EXCEPT !.own = FALSE].own
  BY DEF GiveUpType
<1>4. CASE GiveUpRole(g)
  <2>1. CASE k \in giveUps
    BY <2>1
  <2>2. CASE k \notin giveUps
    <3>1. PICK h \in giveUps \ {g} : k = [h EXCEPT !.own = FALSE]
      BY <1>4, <2>2 DEF GiveUpRole
    <3> QED BY <1>2, <1>3, <3>1
  <2> QED BY <2>1, <2>2
<1>5. CASE GiveUpWatcher(g)
  <2>1. CASE ~(newerFormat /\ g.watcher)
    <3>1. k \in giveUps \/ k = [g EXCEPT !.at = "stopped"]
      BY <1>5, <2>1 DEF GiveUpWatcher
    <3>2. CASE k \in giveUps
      BY <3>2
    <3>3. CASE k = [g EXCEPT !.at = "stopped"]
      <4>1. (k.watcher => g.watcher) /\ (k.own => g.own)
        BY <1>2, <1>3, <3>3
      <4> QED BY <1>1, <4>1
    <3> QED BY <3>1, <3>2, <3>3
  <2>2. CASE newerFormat /\ g.watcher
    <3>1. PICK h \in (giveUps \ {g}) \cup {[g EXCEPT !.at = "stopped"]} :
            k = [h EXCEPT !.watcher = FALSE]
      BY <1>5, <2>2 DEF GiveUpWatcher
    <3>2. h \in GiveUpType
      BY <1>2, <3>1, GiveUpRecords
    <3>3. ~k.watcher /\ k.own = h.own
      BY <1>3, <3>1, <3>2
    <3>4. CASE h = [g EXCEPT !.at = "stopped"]
      BY <1>2, <1>3, <3>3, <3>4
    <3>5. CASE h \in giveUps
      BY <3>3, <3>5
    <3> QED BY <3>1, <3>4, <3>5
  <2> QED BY <2>1, <2>2
<1> QED BY <1>1, <1>4, <1>5

\* What a give-up that is called captures.
LEMMA GiveUpCaptures ==
  ASSUME TypeOK, GiveUpLiveIndexing, handover' # handover
  PROVE  /\ crossed' = (crossed \/ \E q \in Queries : takeover[q] = "took")
         /\ \A q \in Queries : takeover'[q] = "took" <=> takeover[q] = "took"
         /\ TakingOver => TakingOver'
         /\ \E g \in giveUps' :
              /\ giveUps' = giveUps \cup {g}
              /\ g.at = "starts" /\ g.watcher = watching /\ (g.own <=> role = "ours")
<1>1. /\ giveUps' = giveUps \cup
             {[at |-> "starts", watcher |-> watching, own |-> role = "ours"]}
      /\ takeover' = [q \in Queries |-> IF takeover[q] = "looked" THEN "overtaken"
                                                                 ELSE takeover[q]]
      /\ crossed' = (crossed \/ \E q \in Queries : takeover[q] = "took")
  BY Zenon DEF GiveUpLiveIndexing
<1>2. \A q \in Queries : takeover'[q] = IF takeover[q] = "looked" THEN "overtaken"
                                                               ELSE takeover[q]
  BY <1>1
<1>3. /\ \A q \in Queries : takeover'[q] = "took" <=> takeover[q] = "took"
      /\ TakingOver => TakingOver'
  BY <1>2 DEF TakingOver
<1>4. LET g == [at |-> "starts", watcher |-> watching, own |-> role = "ours"]
      IN g \in giveUps' /\ g.at = "starts" /\ g.watcher = watching /\ g.own = (role = "ours")
  BY <1>1
<1> QED BY <1>1, <1>3, <1>4, Zenon

\* What nobody watched stays unreported, and a captured watcher runs.
LEMMA WatchedNext ==
  ASSUME TypeOK, Locks, Watched, Next
  PROVE  Watched'
<1>a. ~watching' => unreported' = stale'
  <2> SUFFICES ASSUME ~watching' PROVE unreported' = stale'
    OBVIOUS
  <2>1. CASE \E p \in Paths : Edit(p)
    BY <2>1 DEF Edit, Watched, watchVars
  <2>2. CASE GiveUp
    BY <2>2, GiveUpStops DEF Watched
  <2>3. CASE \E q \in Queries : MaybePromoteToOwner(q)
    BY <2>3 DEF MaybePromoteToOwner, LookAtRole, TakeRole, StartWatcher, CatchUp, Watched
  <2>4. CASE ~GiveUp /\ ~\E q \in Queries : MaybePromoteToOwner(q)
    <3>1. unreported = stale /\ op[Watcher].at # "look" /\ ~watching
      BY <2>4, RoleStays DEF Watched
    <3> QED BY <2>1, <2>4, <3>1, UnwatchedStays
  <2> QED BY <2>2, <2>3, <2>4
<1>b. op'[Watcher].at = "look" => watching'
  <2> SUFFICES ASSUME op'[Watcher].at = "look" PROVE watching'
    OBVIOUS
  <2>1. watching
    BY LookComes DEF Watched, Deliver
  <2>2. CASE GiveUp
    <3>1. op' = op /\ op[Watcher] # Idle
      BY <2>2, GiveUpStops, StepFields
    <3> QED BY <2>1, <2>2, <3>1, GiveUpStops
  <2>3. CASE \E q \in Queries : MaybePromoteToOwner(q)
    BY <2>1, <2>3 DEF MaybePromoteToOwner, LookAtRole, TakeRole, StartWatcher, CatchUp
  <2> QED BY <2>1, <2>2, <2>3, RoleStays
<1>c. ASSUME NEW g \in giveUps', g.watcher PROVE watching'
  <2>1. CASE GiveUp
    <3>1. watching
      BY <1>c, <2>1, GiveUpsCome DEF Watched
    <3>2. ASSUME NEW h \in giveUps,
                 giveUps' = {[k EXCEPT !.watcher = FALSE] :
                      k \in (giveUps \ {h}) \cup {[h EXCEPT !.at = "stopped"]}}
          PROVE  FALSE
      <4>1. PICK k \in (giveUps \ {h}) \cup {[h EXCEPT !.at = "stopped"]} :
              g = [k EXCEPT !.watcher = FALSE]
        BY <3>2
      <4>2. k \in GiveUpType
        BY <4>1, GiveUpRecords DEF TypeOK
      <4> QED BY <1>c, <4>1, <4>2 DEF GiveUpType
    <3> QED BY <2>1, <3>1, <3>2, GiveUpStops
  <2>2. CASE \E q \in Queries : MaybePromoteToOwner(q)
    BY <1>c, <2>2 DEF MaybePromoteToOwner, LookAtRole, TakeRole, StartWatcher, CatchUp, Watched
  <2>3. CASE ~GiveUp /\ ~\E q \in Queries : MaybePromoteToOwner(q)
    <3>1. watching' = watching
      BY <2>3, RoleStays
    <3>2. CASE handover' = handover
      BY <1>c, <3>1, <3>2 DEF handover, Watched
    <3>3. CASE GiveUpLiveIndexing /\ handover' # handover
      BY <1>c, <3>1, <3>3, GiveUpCaptures DEF Watched
    <3> QED BY <2>3, <3>2, <3>3, HandStays
  <2> QED BY <2>1, <2>2, <2>3
<1> QED BY <1>a, <1>b, <1>c DEF Watched

\* But for a takeover that a give-up crossed: who watches has the role, and who has the
\* role watches, is about to, or is about to hand it back; what a give-up captured is
\* still what there is, and it captured no watcher without the role.
HandedOver ==
  ~crossed =>
    /\ watching => role = "ours"
    /\ role = "ours" => watching \/ Releasing \/ \E q \in Queries : takeover[q] = "took"
    /\ \A q \in Queries : takeover[q] = "took" =>
         role = "ours" /\ ~\E g \in giveUps : g.own
    /\ \A g \in giveUps : /\ g.own => role = "ours"
                          /\ g.watcher => g.own /\ g.at = "starts"
                          /\ g.own /\ ~g.watcher => ~watching

\* Takeovers and give-ups keep to that.
LEMMA HandedOverNext ==
  ASSUME TypeOK, Watched, HandedOver, Next
  PROVE  HandedOver'
<1>a. giveUps \subseteq GiveUpType
  BY DEF TypeOK
<1>b. "free" # "ours"
  OBVIOUS
<1> SUFFICES ASSUME ~crossed' PROVE HandedOver'
  BY DEF HandedOver
<1>1. CASE ~GiveUp /\ ~\E q \in Queries : MaybePromoteToOwner(q)
  <2>1. (role' = "ours" <=> role = "ours") /\ watching' = watching
    BY <1>1, RoleStays
  <2>2. CASE handover' = handover
    BY <2>1, <2>2 DEF HandedOver, handover, Releasing
  <2>3. CASE GiveUpLiveIndexing /\ handover' # handover
    <3>1. PICK g \in giveUps' : /\ giveUps' = giveUps \cup {g} /\ g.at = "starts"
                                /\ g.watcher = watching /\ (g.own <=> role = "ours")
      BY <2>3, GiveUpCaptures
    <3>2. ~crossed /\ ~\E q \in Queries : takeover[q] = "took"
      BY <2>3, GiveUpCaptures
    <3>3. \A q \in Queries : takeover'[q] # "took"
      BY <2>3, <3>2, GiveUpCaptures
    <3>4. Releasing => Releasing'
      BY <3>1 DEF Releasing
    <3> QED BY <2>1, <3>1, <3>2, <3>3, <3>4 DEF HandedOver
  <2> QED BY <1>1, <2>2, <2>3, HandStays
<1>2. ASSUME NEW q \in Queries, MaybePromoteToOwner(q) PROVE HandedOver'
  <2>1. giveUps' = giveUps /\ crossed' = crossed /\ takeover \in [Queries -> TakeoverSteps]
        /\ Releasing' = Releasing
    BY <1>2 DEF MaybePromoteToOwner, LookAtRole, TakeRole, StartWatcher, CatchUp, TypeOK,
       Releasing
  <2>2. CASE LookAtRole(q)
    <3>1. \A r \in Queries : takeover'[r] = "took" <=> takeover[r] = "took"
      BY <2>1, <2>2 DEF LookAtRole, Proceed
    <3> QED BY <2>1, <2>2, <3>1 DEF LookAtRole, HandedOver
  <2>3. CASE TakeRole(q) /\ role = "free"
    <3>1. role' = "ours" /\ takeover'[q] = "took" /\ watching' = watching
      BY <2>1, <2>3, <1>b DEF TakeRole, Proceed
    <3>2. ~watching /\ ~\E g \in giveUps : g.own
      BY <1>b, <2>1, <2>3 DEF HandedOver
    <3> QED BY <2>1, <3>1, <3>2 DEF HandedOver
  <2>4. CASE TakeRole(q) /\ role # "free"
    <3>1. \A r \in Queries : takeover'[r] = "took" <=> takeover[r] = "took"
      BY <2>1, <2>4 DEF TakeRole, Proceed
    <3>2. role' = role /\ watching' = watching
      BY <2>4 DEF TakeRole
    <3> QED BY <2>1, <3>1, <3>2 DEF HandedOver
  <2>5. CASE StartWatcher(q)
    <3>1. role = "ours" /\ ~\E g \in giveUps : g.own
      BY <2>1, <2>5 DEF HandedOver, StartWatcher
    <3>2. \A r \in Queries : takeover'[r] = "took" => takeover[r] = "took"
      BY <2>1, <2>5 DEF StartWatcher, Proceed
    <3>3. watching' /\ role' = role
      BY <2>5 DEF StartWatcher
    <3> QED BY <2>1, <3>1, <3>2, <3>3 DEF HandedOver
  <2>6. CASE CatchUp(q)
    <3>1. \A r \in Queries : takeover'[r] = "took" <=> takeover[r] = "took"
      BY <2>1, <2>6 DEF CatchUp, Proceed
    <3> QED BY <2>1, <2>6, <3>1 DEF CatchUp, HandedOver
  <2> QED BY <1>2, <2>2, <2>3, <2>4, <2>5, <2>6 DEF MaybePromoteToOwner
<1>3. CASE GiveUp
  <2>1. takeover' = takeover /\ ~crossed
    BY <1>3 DEF GiveUp
  <2>2. PICK g \in giveUps : GiveUpWatcher(g) \/ GiveUpRole(g)
    BY <1>3 DEF GiveUp
  <2>3. \A h \in GiveUpType :
          /\ [h EXCEPT !.at = "stopped"].watcher = h.watcher
          /\ [h EXCEPT !.at = "stopped"].own = h.own
          /\ [h EXCEPT !.at = "stopped"].at = "stopped"
          /\ ~[h EXCEPT !.watcher = FALSE].watcher
          /\ [h EXCEPT !.watcher = FALSE].own = h.own
          /\ [h EXCEPT !.watcher = FALSE].at = h.at
          /\ [h EXCEPT !.own = FALSE].watcher = h.watcher
          /\ ~[h EXCEPT !.own = FALSE].own
          /\ [h EXCEPT !.own = FALSE].at = h.at
    BY DEF GiveUpType
  <2>4. CASE GiveUpWatcher(g) /\ newerFormat /\ g.watcher
    <3> DEFINE G == (giveUps \ {g}) \cup {[g EXCEPT !.at = "stopped"]}
    <3>1. giveUps' = {[h EXCEPT !.watcher = FALSE] : h \in G} /\ ~watching' /\ role' = role
      BY <2>4 DEF GiveUpWatcher
    <3>2. g \in GiveUpType /\ g.own /\ role = "ours"
      BY <1>a, <2>1, <2>2, <2>4 DEF HandedOver
    <3>3. Releasing'
      <4>1. [g EXCEPT !.at = "stopped"] \in G /\ [g EXCEPT !.at = "stopped"] \in GiveUpType
        BY <3>2, GiveUpRecords
      <4> DEFINE k == [[g EXCEPT !.at = "stopped"] EXCEPT !.watcher = FALSE]
      <4>2. k \in giveUps'
        BY <3>1, <4>1
      <4>3. k.at = "stopped" /\ k.own
        BY <2>3, <3>2, <4>1
      <4> HIDE DEF k, G
      <4> QED BY <4>2, <4>3 DEF Releasing
    <3>4. \A k \in giveUps' : ~k.watcher
      <4>1. TAKE k \in giveUps'
      <4>2. PICK h \in G : k = [h EXCEPT !.watcher = FALSE]
        BY <3>1
      <4>3. h \in GiveUpType
        BY <1>a, <3>2, <4>2, GiveUpRecords
      <4> QED BY <2>3, <4>2, <4>3
    <3>5. ~\E q \in Queries : takeover'[q] = "took"
      BY <2>1, <2>2, <3>2 DEF HandedOver
    <3> HIDE DEF G
    <3> QED BY <3>1, <3>2, <3>3, <3>4, <3>5 DEF HandedOver
  <2>5. CASE GiveUpWatcher(g) /\ ~(newerFormat /\ g.watcher)
    <3>1. UNCHANGED <<role, watching>>
      BY <2>5 DEF GiveUpWatcher, watchVars
    <3>2. ~newerFormat => giveUps' = giveUps \ {g}
      BY <2>5 DEF GiveUpWatcher
    <3>3. newerFormat => /\ giveUps' = (giveUps \ {g}) \cup {[g EXCEPT !.at = "stopped"]}
                         /\ ~g.watcher
      BY <2>5 DEF GiveUpWatcher
    <3>4. g \in GiveUpType /\ g.at = "starts"
      BY <1>a, <2>2, <2>5 DEF GiveUpWatcher
    <3>5. Releasing => Releasing'
      BY <3>2, <3>3, <3>4 DEF Releasing
    <3>6. CASE ~newerFormat
      BY <2>1, <3>1, <3>2, <3>5, <3>6 DEF HandedOver
    <3>7. CASE newerFormat
      <4>1. ASSUME NEW k \in giveUps', k \notin giveUps
            PROVE  ~k.watcher /\ (k.own <=> g.own) /\ ~g.watcher
        <5>1. k = [g EXCEPT !.at = "stopped"] /\ ~g.watcher
          BY <3>3, <3>7, <4>1
        <5>2. k.watcher = g.watcher /\ k.own = g.own
          BY <2>3, <3>4, <5>1
        <5> QED BY <5>1, <5>2
      <4> QED BY <2>1, <2>2, <3>1, <3>5, <4>1 DEF HandedOver
    <3> QED BY <3>6, <3>7
  <2>6. CASE GiveUpRole(g) /\ g.own
    <3>1. /\ role' = "free" /\ watching' = watching
          /\ giveUps' = {[h EXCEPT !.own = FALSE] : h \in giveUps \ {g}}
      BY <2>6 DEF GiveUpRole
    <3>2. g.at = "stopped" /\ ~g.watcher /\ ~watching
      BY <2>1, <2>2, <2>6 DEF GiveUpRole, HandedOver
    <3>3. \A k \in giveUps' : ~k.own /\ ~k.watcher
      <4>1. TAKE k \in giveUps'
      <4>2. PICK h \in giveUps \ {g} : k = [h EXCEPT !.own = FALSE]
        BY <3>1
      <4>3. ~h.watcher
        BY <3>2, <4>2 DEF Watched
      <4> QED BY <1>a, <2>3, <4>2, <4>3
    <3>4. ~\E q \in Queries : takeover'[q] = "took"
      BY <2>1, <2>2, <2>6 DEF HandedOver
    <3> QED BY <1>b, <3>1, <3>2, <3>3, <3>4 DEF HandedOver
  <2>7. CASE GiveUpRole(g) /\ ~g.own
    <3>1. giveUps' = giveUps \ {g} /\ UNCHANGED <<role, watching>>
      BY <2>7 DEF GiveUpRole
    <3>2. Releasing => Releasing'
      BY <2>7, <3>1 DEF Releasing
    <3> QED BY <2>1, <3>1, <3>2 DEF HandedOver
  <2> QED BY <2>2, <2>4, <2>5, <2>6, <2>7
<1> QED BY <1>1, <1>2, <1>3

-----------------------------------------------------------------------------
(* Changes the watcher saw *)

\* A reported change is still on its way to the queue, or in it.
Fresh(p) ==
  \/ p \in events \/ overflow
  \/ op[Watcher].at \in {"look", "batch"} /\ (p \in op[Watcher].paths \/ op[Watcher].full)
  \/ p \in queue.pending \/ WholeQ(queue)

\* The note that events were lost stands for it, and no walk has dated the index since.
Lost == eventsLost /\ built # "walk"

\* A drain's rebuild runs and will find it.
Rewalked(p) == \E t \in Threads : op[t].at = "drainBuild" /\ p \notin missed

\* Something has the change: it is fresh, or covered by a note, a rebuild or a retry.
Caught(p) ==
  \/ Fresh(p) \/ Lost \/ Rewalked(p)
  \/ p \in queue.unsure /\ (timer \/ queue.due)

\* The changes the index lacks that were not let go of, and those the watcher saw.
Open == stale \ dropped
Reported == Open \ unreported

\* A change that a running walk missed is fresh: it will be there when the walk ends.
MissedIsFresh == \A p \in Reported \cap missed : Fresh(p)

\* While an index can be served, every reported change is caught by something.  Where
\* none is on disk, the walk that makes one will find it.
ReportedIsCaught ==
  (state = "Ready" \/ disk = "ok") => \A p \in Reported : Caught(p)

\* A batch that is kept for later stays fresh, or is let go of.
LEMMA CapturedIsFresh ==
  ASSUME TypeOK, NEW paths \in SUBSET Paths, NEW full \in BOOLEAN,
         CaptureIfBusy(paths, full),
         UNCHANGED stale, NEW p \in Open',
         \/ p \in paths \/ full \/ p \in queue.pending \/ WholeQ(queue)
  PROVE  p \in queue'.pending \/ WholeQ(queue)'
<1>1. queue \in QueueType
  BY QueueNow
<1>2. CASE newerFormat
  <2>1. dropped' = dropped \cup (stale \cap (IF full THEN stale ELSE paths)) /\ queue' = queue
    BY <1>2 DEF CaptureIfBusy
  <2>2. ~full /\ p \notin paths
    BY <2>1 DEF Reported, Open
  <2> QED BY <2>1, <2>2 DEF WholeQ
<1>3. CASE ~newerFormat
  <2>1. queue' = Captured(queue, paths, full)
    BY <1>3 DEF CaptureIfBusy
  <2>2. LET c == Captured(queue, paths, full)
        IN /\ WholeQ(c) \/ queue.pending \cup paths \subseteq c.pending
           /\ WholeQ(queue) \/ full => WholeQ(c)
    BY <1>1, CapturedFields
  <2> QED BY <2>1, <2>2 DEF WholeQ
<1> QED BY <1>2, <1>3

\* Nothing that ran while a walk ran loses what it missed.
LEMMA MissedIsFreshNext ==
  ASSUME TypeOK, Locks, Watched, MissedIsFresh, Next
  PROVE  MissedIsFresh'
<1>a. /\ queue \in QueueType /\ op \in [Threads -> OpType] /\ Watcher \in Threads
      /\ op[Watcher].paths \in SUBSET Paths /\ op[Watcher].full \in BOOLEAN
      /\ events \in SUBSET Paths /\ overflow \in BOOLEAN /\ Pool \subseteq Threads
  BY QueueNow
<1>b. GateFree => missed = {}
  BY DEF GateFree, Locks, Holding
<1>c. \A t \in Pool : t # Watcher
  BY LiveSessionAssumption
<1> SUFFICES ASSUME missed' # {}, NEW p \in Reported' \cap missed' PROVE Fresh(p)'
  BY DEF MissedIsFresh
<1> USE DEF MissedIsFresh, Reported, Open, Fresh, WholeQ, treeVars, diskVars, indexVars,
     watchVars, wakeVars, bounds
<1>1. CASE \E q \in Paths : Edit(q)
  <2>1. PICK q \in Paths : Edit(q)
    BY <1>1
  <2>2. CASE watching
    <3>1. CASE p = q
      BY <2>1, <2>2, <3>1 DEF Edit
    <3>2. CASE p # q
      BY <2>1, <2>2, <3>2 DEF Edit
    <3> QED BY <3>1, <3>2
  <2>3. CASE ~watching
    BY <2>1, <2>3 DEF Edit, Watched
  <2> QED BY <2>2, <2>3
<1>2. CASE OwnerExits \/ EnsureStarted \/ \E q \in Queries : MaybePromoteToOwner(q)
  <2>1. UNCHANGED <<stale, events, overflow, queue, op, missed>>
    BY <1>2 DEF OwnerExits, EnsureStarted, MaybePromoteToOwner
  <2>2. unreported' = unreported /\ dropped \subseteq dropped'
    BY <1>2 DEF OwnerExits, EnsureStarted, MaybePromoteToOwner, LookAtRole, TakeRole,
       StartWatcher, CatchUp
  <2> QED BY <2>1, <2>2
<1>3. CASE GiveUp
  <2>1. UNCHANGED <<stale, dropped, queue, op, missed>>
    BY <1>3 DEF GiveUp
  <2>2. UNCHANGED <<unreported, events, overflow>>
    BY <1>3, <2>1, GiveUpStops
  <2> QED BY <2>1, <2>2
<1>8. CASE LookAtState
  <2>1. /\ UNCHANGED <<stale, dropped, events, overflow, queue, missed>>
        /\ unreported \subseteq unreported'
    BY <1>8 DEF LookAtState
  <2>2. Fresh(p)
    BY <2>1
  <2>3. CASE state = "Ready"
    <3>1. Become(Watcher, [op[Watcher] EXCEPT !.at = "batch"])
      BY <1>8, <2>3 DEF LookAtState, Batch
    <3>2. /\ op'[Watcher].at = "batch" /\ op'[Watcher].paths = op[Watcher].paths
          /\ op'[Watcher].full = op[Watcher].full
      BY <1>a, <3>1 DEF Become, OpType
    <3> QED BY <2>1, <2>2, <3>2
  <2>4. CASE state # "Ready"
    <3>1. overflow \/ p \in events \/ ~(p \in op[Watcher].paths \/ op[Watcher].full)
      BY <1>8, <2>1, <2>4 DEF LookAtState, Batch
    <3> QED BY <2>1, <2>2, <3>1
  <2> QED BY <2>3, <2>4
<1>4. CASE Deliver
  <2>1. p \in Reported
    BY <1>4 DEF Deliver, CaptureIfBusy
  <2>2. Fresh(p)
    BY <1>4, <2>1 DEF Deliver
  <2> DEFINE paths == IF overflow THEN {} ELSE events
  <2>3. CASE Busy
    <3>1. CaptureIfBusy(paths, overflow)
      BY <1>4, <2>3 DEF Deliver
    <3>2. p \in paths \/ overflow \/ p \in queue.pending \/ WholeQ(queue)
      BY <1>4, <2>2 DEF Deliver, Idle
    <3>3. UNCHANGED stale /\ p \in Open'
      BY <1>4 DEF Deliver
    <3>4. p \in queue'.pending \/ WholeQ(queue)'
      BY <1>a, <3>1, <3>2, <3>3, CapturedIsFresh
    <3> QED BY <3>4
  <2>4. CASE ~Busy
    <3>1. /\ Become(Watcher, [At("look") EXCEPT !.paths = paths, !.full = overflow])
          /\ queue' = queue
      BY <1>4, <2>4 DEF Deliver
    <3>2. /\ op'[Watcher].at = "look" /\ op'[Watcher].paths = paths
          /\ op'[Watcher].full = overflow
      <4> DEFINE b == [At("look") EXCEPT !.paths = paths, !.full = overflow]
      <4>1. Become(Watcher, b)
        BY <3>1
      <4>2. b.at = "look" /\ b.paths = paths /\ b.full = overflow
        BY StepFields
      <4> HIDE DEF b, paths
      <4> QED BY <1>a, <4>1, <4>2, BecomeFields
    <3> QED BY <1>4, <2>2, <3>1, <3>2 DEF Deliver, Idle
  <2> QED BY <2>3, <2>4
<1>5. CASE CaptureLate \/ ApplyBatch \/ HoldBatch \/ LeaveToNewer \/ Reconcile
           \/ FinishRebuild \/ FinishCompact \/ ExternalWrite \/ MaybeReloadExternal
  <2>1. CASE FinishRebuild \/ FinishCompact
    <3>1. missed' = {} \/ (missed' = missed /\ op[Watcher].at = "compact")
      BY <2>1 DEF FinishRebuild, FinishCompact, Walked, Fails, Batch
    <3>2. op[Watcher].at = "compact" => missed = {}
      BY <1>a DEF Locks, Holding, Walks
    <3> QED BY <3>1, <3>2
  <2>2. CASE CaptureLate \/ ApplyBatch \/ HoldBatch \/ LeaveToNewer \/ Reconcile
    BY <2>2, <1>b DEF CaptureLate, ApplyBatch, HoldBatch, LeaveToNewer, Reconcile, Applying
  <2>3. CASE ExternalWrite \/ MaybeReloadExternal
    BY <2>3, <1>b DEF ExternalWrite, MaybeReloadExternal
  <2> QED BY <1>5, <2>1, <2>2, <2>3
<1>6. CASE \E t \in Pool : Reindex(t) \/ FinishReindex(t) \/ Startup(t)
  <2>1. PICK t \in Pool : Reindex(t) \/ FinishReindex(t) \/ Startup(t)
    BY <1>6
  <2>2. CASE Reindex(t) \/ FinishReindex(t) \/ BackgroundBuild(t) \/
             BackgroundBuildRefused(t) \/ FinishBuild(t) \/ BeginReconcile(t) \/
             FinishReconcile(t)
    BY <2>2, <1>b DEF Reindex, FinishReindex, BackgroundBuild, BackgroundBuildRefused,
       FinishBuild, BeginReconcile, FinishReconcile, Walked, Fails
  <2>3. CASE MaybeReconcile(t) \/ FinishPrune(t) \/ EndRebuilding(t)
    <3>1. op'[Watcher] = op[Watcher]
      BY <1>a, <1>c, <2>3, BecomeFields DEF MaybeReconcile, FinishPrune, EndRebuilding
    <3>2. UNCHANGED <<stale, dropped, unreported, events, overflow, queue, missed>>
      BY <2>3 DEF MaybeReconcile, FinishPrune, EndRebuilding
    <3> QED BY <3>1, <3>2
  <2> QED BY <2>1, <2>2, <2>3 DEF Startup
<1>7. CASE \E t \in Threads : Drain(t)
  <2>1. PICK t \in Threads : Drain(t)
    BY <1>7
  <2>2. CASE DrainApplies(t) \/ DrainHolds(t) \/ DrainLeavesToNewer(t) \/ DrainWaits(t)
             \/ DrainReconciles(t) \/ FinishDrainBuild(t)
    BY <2>2, <1>b DEF DrainApplies, DrainHolds, DrainLeavesToNewer, DrainWaits,
       DrainReconciles, FinishDrainBuild, Walked, Fails, Round
  <2>3. CASE RetryFires(t) \/ StartDrain(t) \/ NothingWaits(t) \/ EndDrainBuild(t)
    <3>1. op'[Watcher] = op[Watcher] \/ op[Watcher].at \notin {"look", "batch"}
      <4>1. \A u \in Threads : u # t => op'[u] = op[u]
        BY <1>a, <2>3, BecomeFields, NextRoundFields DEF RetryFires, StartDrain,
           NothingWaits, EndDrainBuild
      <4>2. op[t].at \notin {"look", "batch"}
        BY <2>3, StepFields DEF RetryFires, StartDrain, NothingWaits, EndDrainBuild, Take
      <4> QED BY <1>a, <4>1, <4>2
    <3>2. UNCHANGED <<stale, dropped, unreported, events, overflow, missed>>
      BY <2>3 DEF RetryFires, StartDrain, NothingWaits, EndDrainBuild
    <3>3. UNCHANGED <<queue.pending, queue.rec, queue.holdWants>>
      BY <1>a, <2>3 DEF RetryFires, StartDrain, NothingWaits, EndDrainBuild, QueueType
    <3> QED BY <3>1, <3>2, <3>3
  <2> QED BY <2>1, <2>2, <2>3 DEF Drain
<1> QED BY <1>1, <1>2, <1>3, <1>4, <1>5, <1>6, <1>7, <1>8 DEF Next, Query, OnChanges

\* Loading answers "newer" or "none" of the index on disk only.
LEMMA LoadsSay ==
  ASSUME TypeOK
  PROVE  /\ "newer" \in Loads => disk = "newer"
         /\ "none" \in Loads => disk = "ok"
         /\ "missing" \in Loads => disk = "gone"
BY DEF Loads, TypeOK

\* What is caught stays so in a step that leaves the queue and what is about to come
\* to it alone.
LEMMA CaughtStays ==
  ASSUME op \in [Threads -> OpType], Watcher \in Threads, NEW p, Caught(p),
         UNCHANGED <<events, overflow, queue, missed>>,
         timer => timer', Lost => Lost',
         \A u \in Threads : op'[u] = op[u] \/ op[u].at \notin {"look", "batch", "drainBuild"}
  PROVE  Caught(p)'
<1>1. Fresh(p) => Fresh(p)'
  BY DEF Fresh, WholeQ
<1>2. Rewalked(p) => Rewalked(p)'
  BY DEF Rewalked
<1> QED BY <1>1, <1>2 DEF Caught

\* The steps that begin, wait or load, and leave every change where it is.
LEMMA BeginningsPass ==
  ASSUME TypeOK, Watched, watching => watching', NEW p \in Open',
         state' = "Ready" \/ disk' = "ok",
         (state = "Ready" \/ disk = "ok") /\ p \in Open => Caught(p),
         \/ OwnerExits \/ EnsureStarted \/ ExternalWrite
         \/ MaybeReloadExternal \/ GiveUp
         \/ \E t \in Pool : \/ Reindex(t) \/ BackgroundBuild(t) \/ BackgroundBuildRefused(t)
                            \/ MaybeReconcile(t) \/ BeginReconcile(t) \/ FinishPrune(t)
                            \/ EndRebuilding(t)
         \/ \E t \in Threads : StartDrain(t) \/ EndDrainBuild(t)
  PROVE  Caught(p)'
<1>a. op \in [Threads -> OpType] /\ Watcher \in Threads /\ Pool \subseteq Threads
  BY QueueNow
<1> USE DEF treeVars, diskVars, indexVars, watchVars, wakeVars, bounds
<1>1. CASE OwnerExits
  <2>1. UNCHANGED <<stale, dropped, events, overflow, queue, missed, timer, eventsLost, built,
                    op, state, disk>>
    BY <1>1 DEF OwnerExits
  <2>2. Caught(p)
    BY <2>1 DEF Open
  <2> QED BY <1>a, <2>1, <2>2, CaughtStays DEF Lost
<1>2. CASE EnsureStarted
  <2>1. UNCHANGED <<stale, unreported, dropped, events, overflow, queue, missed, timer,
                    eventsLost, built, op, role, disk>>
    BY <1>2 DEF EnsureStarted
  <2>2. disk = "ok"
    <3>1. state' = "Ready" => disk = "ok"
      BY <1>2 DEF EnsureStarted, Loads, TypeOK
    <3> QED BY <2>1, <3>1
  <2>3. Caught(p)
    BY <2>1, <2>2 DEF Open
  <2> QED BY <1>a, <2>1, <2>3, CaughtStays DEF Lost
<1>4. CASE ExternalWrite
  <2>1. CASE stale' = {}
    BY <2>1 DEF Open
  <2>2. CASE stale' # {}
    <3>1. UNCHANGED <<stale, unreported, dropped, events, overflow, queue, missed, timer,
                      eventsLost, built, op, role, state>> /\ (disk' = "ok" => disk = "ok")
      BY <1>4, <2>2 DEF ExternalWrite
    <3>2. Caught(p)
      BY <3>1 DEF Open
    <3> QED BY <1>a, <3>1, <3>2, CaughtStays DEF Lost
  <2> QED BY <2>1, <2>2
<1>5. CASE MaybeReloadExternal
  <2>1. CASE state' # "Ready"
    BY <1>5, <2>1, LoadsSay DEF MaybeReloadExternal, Swap, EnterNewerFormat
  <2>2. CASE state' = "Ready"
    <3>1. /\ UNCHANGED <<stale, unreported, events, overflow, queue, missed, timer,
                         built, op, role, disk>>
          /\ eventsLost' = (eventsLost /\ ~RefreshedSince)
          /\ dropped' = IF eventsLost /\ built = "prune" THEN stale ELSE dropped
          /\ state = "Ready"
      BY <1>5, <2>2 DEF MaybeReloadExternal, EnterNewerFormat
    <3>2. ~(eventsLost /\ built = "prune") /\ dropped' = dropped
      BY <3>1 DEF Open
    <3>3. Caught(p)
      BY <3>1, <3>2 DEF Open
    <3>4. Lost => Lost'
      BY <3>1, <3>2 DEF Lost, RefreshedSince, TypeOK
    <3> QED BY <1>a, <3>1, <3>3, <3>4, CaughtStays
  <2> QED BY <2>1, <2>2
<1>6. CASE GiveUp
  <2>1. UNCHANGED <<stale, dropped, queue, missed, timer, eventsLost, built, op, state, disk>>
    BY <1>6 DEF GiveUp
  <2>2. UNCHANGED <<events, overflow>>
    BY <1>6, GiveUpStops DEF Watched
  <2>3. Caught(p)
    BY <2>1 DEF Open
  <2> QED BY <1>a, <2>1, <2>2, <2>3, CaughtStays DEF Lost
<1>7. ASSUME NEW t \in Pool, BackgroundBuildRefused(t) PROVE Caught(p)'
  BY <1>7, LoadsSay DEF BackgroundBuildRefused
<1>8. ASSUME NEW t \in Threads,
             \/ Reindex(t) \/ BackgroundBuild(t) \/ MaybeReconcile(t)
             \/ BeginReconcile(t) \/ FinishPrune(t) \/ EndRebuilding(t)
             \/ StartDrain(t) \/ EndDrainBuild(t)
      PROVE  Caught(p)'
  <2>1. UNCHANGED <<stale, dropped, events, overflow, missed, timer, eventsLost, role, disk>>
    BY <1>8 DEF Reindex, BackgroundBuild, MaybeReconcile, BeginReconcile, FinishPrune,
       EndRebuilding, StartDrain, EndDrainBuild
  <2>2. unreported' = unreported /\ queue' = queue
    BY <1>8 DEF Reindex, BackgroundBuild, MaybeReconcile, BeginReconcile, FinishPrune,
       EndRebuilding, StartDrain, EndDrainBuild
  <2>3. built' \in {built, "prune"}
    BY <1>8 DEF Reindex, BackgroundBuild, MaybeReconcile, BeginReconcile, FinishPrune,
       EndRebuilding, StartDrain, EndDrainBuild
  <2>4. state' = "Ready" => state = "Ready" \/ disk = "ok"
    <3>1. CASE BackgroundBuild(t)
      <4>1. state' = "Ready" => state = "Ready" \/ "none" \in Loads
        BY <3>1 DEF BackgroundBuild
      <4> QED BY <4>1, LoadsSay
    <3>2. CASE FinishPrune(t)
      BY <3>2 DEF FinishPrune
    <3> QED BY <1>8, <3>1, <3>2 DEF Reindex, MaybeReconcile, BeginReconcile,
       EndRebuilding, StartDrain, EndDrainBuild
  <2>5. Caught(p)
    BY <2>1, <2>2, <2>4 DEF Open
  <2>6. \A u \in Threads : u # t => op'[u] = op[u]
    BY <1>8, <1>a, BecomeFields, NextRoundFields DEF Reindex, BackgroundBuild, MaybeReconcile,
       BeginReconcile, FinishPrune, EndRebuilding, StartDrain, EndDrainBuild
  <2>7. op[t].at \notin {"look", "batch", "drainBuild"}
    BY <1>8, StepFields DEF Reindex, BackgroundBuild, MaybeReconcile, BeginReconcile,
       FinishPrune, EndRebuilding, StartDrain, EndDrainBuild, Take
  <2> QED BY <1>a, <2>1, <2>2, <2>3, <2>5, <2>6, <2>7, CaughtStays DEF Lost
<1> QED BY <1>a, <1>1, <1>2, <1>4, <1>5, <1>6, <1>7, <1>8

\* The steps that end a walk or a build that failed, or a merge.
LEMMA EndingsPass ==
  ASSUME TypeOK, Locks, NEW p \in Open',
         state' = "Ready" \/ disk' = "ok",
         (state = "Ready" \/ disk = "ok") /\ p \in Open => Caught(p),
         FinishCompact \/ ~Walked,
         \/ FinishRebuild \/ FinishCompact
         \/ \E t \in Pool : FinishReindex(t) \/ FinishBuild(t) \/ FinishReconcile(t)
         \/ \E t \in Threads : FinishDrainBuild(t)
  PROVE  Caught(p)'
<1>a. /\ op \in [Threads -> OpType] /\ Watcher \in Threads /\ Pool \subseteq Threads
      /\ queue \in QueueType
  BY QueueNow
<1>b. \A t \in Pool : t # Watcher
  BY LiveSessionAssumption
<1>c. FinishCompact \/ ~Walked
  OBVIOUS
<1> USE DEF treeVars, diskVars, indexVars, watchVars, wakeVars, bounds
<1>1. ASSUME FinishRebuild, ~Walked PROVE Caught(p)'
  BY <1>1 DEF FinishRebuild, LoseEvents, Caught, Lost
<1>2. CASE FinishCompact
  <2>1. /\ UNCHANGED <<stale, unreported, dropped, events, overflow, queue, timer,
                       eventsLost, built, role, disk>>
        /\ missed' = {} \/ missed' = missed
        /\ op[Watcher].at = "compact"
    BY <1>2 DEF FinishCompact, Fails, Batch
  <2>2. missed = {} /\ state = "Ready"
    BY <1>a, <2>1 DEF Locks, Holding, Walks
  <2>3. Caught(p)
    BY <2>1, <2>2 DEF Open
  <2>4. \A u \in Threads : op'[u] = op[u] \/ op[u].at \notin {"look", "batch", "drainBuild"}
    BY <1>2, <1>a, <2>1, BecomeFields DEF FinishCompact
  <2> QED BY <1>a, <2>1, <2>2, <2>3, <2>4, CaughtStays DEF Lost
<1>3. ASSUME NEW t \in Pool, FinishReindex(t) \/ FinishReconcile(t), ~Walked PROVE Caught(p)'
  <2>1. /\ UNCHANGED <<events, overflow, queue, timer, role>>
        /\ op[t].at \in {"reindex", "reconcile"}
        /\ \A u \in Threads : u # t => op'[u] = op[u]
    BY <1>3, <1>a, BecomeFields DEF FinishReindex, FinishReconcile
  <2>2. /\ UNCHANGED <<stale, unreported, disk, state, built, eventsLost>>
        /\ dropped \subseteq dropped' /\ missed' = {}
    BY <1>3 DEF FinishReindex, FinishReconcile, Fails
  <2>3. Caught(p)
    BY <2>1, <2>2 DEF Open
  <2>4. op[Watcher].at \in {"look", "batch"} => op'[Watcher] = op[Watcher]
    BY <1>a, <1>b, <2>1
  <2>5. Rewalked(p) => Rewalked(p)'
    BY <2>1, <2>2 DEF Rewalked
  <2> QED BY <2>1, <2>2, <2>3, <2>4, <2>5 DEF Caught, Fresh, Lost, WholeQ
<1>4. ASSUME NEW t \in Pool, FinishBuild(t), ~Walked PROVE Caught(p)'
  <2>1. op[t].at = "build" /\ disk' = disk /\ state' = "NeedsCliBuild"
    BY <1>4 DEF FinishBuild, Fails
  <2> QED BY <1>a, <2>1 DEF Locks
<1>5. ASSUME NEW t \in Threads, FinishDrainBuild(t), ~Walked PROVE Caught(p)'
  BY <1>5 DEF FinishDrainBuild, LoseEvents, Caught, Lost
<1> QED BY <1>c, <1>1, <1>2, <1>3, <1>4, <1>5

\* Paths that are applied are in the index, wait for their own retry, or are let go of.
LEMMA ApplyCatches ==
  ASSUME TypeOK, NEW q \in QueueType, NEW paths \in SUBSET Paths,
         NEW retried \in SUBSET Paths, Apply(q, paths, retried),
         NEW p \in Open'
  PROVE  /\ p \in Open \/ p \in paths
         /\ p \in paths => p \in queue'.unsure /\ timer'
         /\ p \in q.unsure => p \in queue'.unsure
         /\ timer => timer'
<1>1. \A more \in SUBSET Paths :
        LET q1 == [q EXCEPT !.unsure = (@ \ paths) \cup more]
        IN q1.unsure = (q.unsure \ paths) \cup more
  BY DEF QueueType
<1>2. LET q1 == [q EXCEPT !.unsure = @ \cup retried]
      IN q1.unsure = q.unsure \cup retried
  BY DEF QueueType
<1>3. CASE \E more \in SUBSET paths :
             LET q1 == [q EXCEPT !.unsure = (@ \ paths) \cup more]
             IN /\ queue' = q1
                /\ stale' = stale \ (paths \ more)
                /\ unreported' = unreported \ (paths \ more)
                /\ dropped' = dropped \ paths
                /\ timer' = (timer \/ q1.unsure # {})
  <2>1. PICK more \in SUBSET paths :
             LET q1 == [q EXCEPT !.unsure = (@ \ paths) \cup more]
             IN /\ queue' = q1
                /\ stale' = stale \ (paths \ more)
                /\ unreported' = unreported \ (paths \ more)
                /\ dropped' = dropped \ paths
                /\ timer' = (timer \/ q1.unsure # {})
    BY <1>3
  <2>2. /\ queue'.unsure = (q.unsure \ paths) \cup more
        /\ timer' = (timer \/ (q.unsure \ paths) \cup more # {})
    BY <1>1, <2>1
  <2>3. p \in paths => p \in more
    BY <2>1 DEF Open
  <2>4. p \in Open \/ p \in paths
    BY <2>1 DEF Open
  <2> QED BY <2>2, <2>3, <2>4
<1>4. CASE /\ queue' = [q EXCEPT !.unsure = @ \cup retried]
           /\ dropped' = dropped \cup (paths \cap stale)
           /\ UNCHANGED <<stale, unreported, timer>>
  BY <1>2, <1>4 DEF Open
<1> QED BY <1>3, <1>4 DEF Apply

\* An edit: the watcher that runs has it, or has lost events.
LEMMA EditPasses ==
  ASSUME TypeOK, NEW q \in Paths, Edit(q), NEW p \in Open', p # q \/ watching,
         state' = "Ready" \/ disk' = "ok",
         p # q /\ (state = "Ready" \/ disk = "ok") /\ p \in Open => Caught(p)
  PROVE  Caught(p)'
<1> USE DEF treeVars, diskVars, indexVars, watchVars, wakeVars, bounds
<1>1. UNCHANGED <<disk, built, state, eventsLost, queue, op, timer>>
  BY DEF Edit
<1>2. /\ p # q => p \in Open /\ (p \in missed' => p \in missed)
      /\ events \subseteq events' /\ (overflow => overflow')
      /\ watching => q \in events' \/ overflow'
  BY <1>1 DEF Edit, Open
<1>3. CASE p = q
  BY <1>2, <1>3 DEF Caught, Fresh
<1>4. CASE p # q
  <2>1. Caught(p)
    BY <1>1, <1>2, <1>4
  <2>2. Fresh(p) => Fresh(p)'
    BY <1>1, <1>2 DEF Fresh, WholeQ
  <2>3. Rewalked(p) => Rewalked(p)'
    BY <1>1, <1>2, <1>4 DEF Rewalked
  <2> QED BY <1>1, <2>1, <2>2, <2>3 DEF Caught, Lost
<1> QED BY <1>3, <1>4

\* The steps of the watcher's callback before it walks.
LEMMA CallbackPasses ==
  ASSUME TypeOK, Locks, NEW p \in Open',
         state' = "Ready" \/ disk' = "ok",
         (state = "Ready" \/ disk = "ok") /\ p \in Open => Caught(p),
         \/ Deliver \/ CaptureLate \/ ApplyBatch \/ HoldBatch \/ LeaveToNewer \/ Reconcile
  PROVE  Caught(p)'
<1>a. /\ op \in [Threads -> OpType] /\ Watcher \in Threads /\ Pool \subseteq Threads
      /\ queue \in QueueType /\ queue.pending \in SUBSET Paths
      /\ op[Watcher].paths \in SUBSET Paths /\ op[Watcher].full \in BOOLEAN
      /\ events \in SUBSET Paths /\ overflow \in BOOLEAN
  BY QueueNow
<1> USE DEF treeVars, diskVars, indexVars, watchVars, wakeVars, bounds
<1>2. CASE Deliver
  <2> DEFINE paths == IF overflow THEN {} ELSE events
  <2>1. /\ UNCHANGED <<stale, unreported, disk, built, state, eventsLost, role, timer, missed>>
        /\ dropped \subseteq dropped'
        /\ op[Watcher] = Idle
    BY <1>2 DEF Deliver, CaptureIfBusy
  <2>2. p \in Open /\ Caught(p)
    BY <2>1 DEF Open
  <2>3. CASE Busy
    <3>1. CaptureIfBusy(paths, overflow) /\ op' = op
      BY <1>2, <2>3 DEF Deliver
    <3>2. queue'.unsure = queue.unsure /\ queue'.due = queue.due
      <4>1. ASSUME NEW more \in SUBSET Paths, NEW full \in BOOLEAN
            PROVE  LET c == Captured(queue, more, full)
                   IN c.unsure = queue.unsure /\ c.due = queue.due
        BY <1>a, CapturedFields
      <4>2. paths \in SUBSET Paths
        BY <1>a
      <4> HIDE DEF paths
      <4> QED BY <1>a, <3>1, <4>1, <4>2 DEF CaptureIfBusy
    <3>3. Fresh(p) => p \in paths \/ overflow \/ p \in queue.pending \/ WholeQ(queue)
      BY <2>1 DEF Fresh, Idle
    <3>4. Fresh(p) => p \in queue'.pending \/ WholeQ(queue)'
      BY <1>a, <2>1, <3>1, <3>3, CapturedIsFresh
    <3> QED BY <2>1, <2>2, <3>1, <3>2, <3>4 DEF Caught, Fresh, Rewalked, Lost
  <2>4. CASE ~Busy
    <3>1. /\ Become(Watcher, [At("look") EXCEPT !.paths = paths, !.full = overflow])
          /\ queue' = queue
      BY <1>2, <2>4 DEF Deliver
    <3>2. /\ op'[Watcher].at = "look" /\ op'[Watcher].paths = paths
          /\ op'[Watcher].full = overflow
          /\ \A u \in Threads : u # Watcher => op'[u] = op[u]
      <4> DEFINE b == [At("look") EXCEPT !.paths = paths, !.full = overflow]
      <4>1. Become(Watcher, b)
        BY <3>1
      <4>2. b.at = "look" /\ b.paths = paths /\ b.full = overflow
        BY StepFields
      <4> HIDE DEF b, paths
      <4> QED BY <1>a, <4>1, <4>2, BecomeFields
    <3>3. Fresh(p) => Fresh(p)'
      BY <2>1, <3>1, <3>2 DEF Fresh, Idle, WholeQ
    <3>4. Rewalked(p) => Rewalked(p)'
      BY <2>1, <3>2 DEF Rewalked, Idle
    <3> QED BY <2>1, <2>2, <3>1, <3>3, <3>4 DEF Caught, Lost
  <2> QED BY <2>3, <2>4
<1>3. CASE CaptureLate
  <2>1. /\ UNCHANGED <<stale, unreported, disk, built, state, eventsLost, role, timer, missed,
                       events, overflow>>
        /\ dropped \subseteq dropped' /\ op[Watcher].at = "batch"
        /\ CaptureIfBusy(op[Watcher].paths, op[Watcher].full)
        /\ \A u \in Threads : u # Watcher => op'[u] = op[u]
    BY <1>3, <1>a, BecomeFields DEF CaptureLate, CaptureIfBusy, Batch
  <2>2. p \in Open /\ Caught(p)
    BY <2>1 DEF Open
  <2>3. queue'.unsure = queue.unsure /\ queue'.due = queue.due
    <3>1. ASSUME NEW paths \in SUBSET Paths, NEW full \in BOOLEAN
          PROVE  LET c == Captured(queue, paths, full)
                 IN c.unsure = queue.unsure /\ c.due = queue.due
      BY <1>a, CapturedFields
    <3> QED BY <1>a, <2>1, <3>1 DEF CaptureIfBusy
  <2>4. Fresh(p) => p \in events \/ overflow \/ p \in queue'.pending \/ WholeQ(queue)'
    BY <1>a, <2>1, CapturedIsFresh DEF Fresh
  <2>5. Rewalked(p) => Rewalked(p)'
    BY <2>1 DEF Rewalked
  <2> QED BY <2>1, <2>2, <2>3, <2>4, <2>5 DEF Caught, Fresh, Lost
<1>4. CASE ApplyBatch
  <2>1. /\ UNCHANGED <<disk, built, state, eventsLost, role, missed, events, overflow>>
        /\ op[Watcher].at = "batch" /\ ~op[Watcher].full
        /\ Apply(Taken(queue), queue.pending \cup op[Watcher].paths, {})
        /\ \A u \in Threads : u # Watcher => op'[u] = op[u]
    BY <1>4, <1>a, BecomeFields DEF ApplyBatch, Applying, Batch
  <2>2. /\ Taken(queue) \in QueueType /\ Taken(queue).unsure = queue.unsure
        /\ Taken(queue).due = queue.due /\ (WholeQ(queue) => WholeQ(Taken(queue)))
        /\ queue.pending \cup op[Watcher].paths \in SUBSET Paths
    BY <1>a, QueueOperators, QueueFields
  <2>3. /\ p \in Open \/ p \in queue.pending \cup op[Watcher].paths
        /\ p \in queue.pending \cup op[Watcher].paths => p \in queue'.unsure /\ timer'
        /\ p \in queue.unsure => p \in queue'.unsure
        /\ timer => timer'
    BY <2>1, <2>2, ApplyCatches
  <2>4. queue'.due = queue.due /\ (WholeQ(queue) => WholeQ(queue)')
    BY <2>1, <2>2, ApplyFields DEF WholeQ
  <2>5. p \in Open => Caught(p)
    BY <2>1
  <2>6. Rewalked(p) => Rewalked(p)'
    BY <2>1 DEF Rewalked
  <2> QED BY <2>1, <2>3, <2>4, <2>5, <2>6 DEF Caught, Fresh, Lost
<1>5. CASE HoldBatch
  <2>1. /\ UNCHANGED <<stale, unreported, dropped, disk, built, state, eventsLost, role, missed,
                       events, overflow>>
        /\ op[Watcher].at = "batch" /\ ~op[Watcher].full /\ timer'
        /\ \A u \in Threads : u # Watcher => op'[u] = op[u]
    BY <1>5, <1>a, BecomeFields DEF HoldBatch, Applying, Batch, ScheduleRetry
  <2>2. PICK why : queue' = HeldBack(queue, op[Watcher].paths, why)
    BY <1>5 DEF HoldBatch, Batch, Pay
  <2>3. /\ queue'.unsure = queue.unsure /\ queue'.due = queue.due
        /\ WholeQ(queue') \/ queue.pending \cup op[Watcher].paths \subseteq queue'.pending
        /\ WholeQ(queue) => WholeQ(queue')
    BY <1>a, <2>2, HeldBackFields
  <2>4. Caught(p)
    BY <2>1 DEF Open
  <2>5. Rewalked(p) => Rewalked(p)'
    BY <2>1 DEF Rewalked
  <2> QED BY <2>1, <2>3, <2>4, <2>5 DEF Caught, Fresh, Lost
<1>6. CASE LeaveToNewer
  <2>1. "newer" \in Loads /\ EnterNewerFormat(queue)
    <3>1. "newer" \in Refresh /\ EnterNewerFormat(queue)
      BY <1>6 DEF LeaveToNewer
    <3> QED BY <3>1 DEF Refresh
  <2> QED BY <2>1, LoadsSay DEF EnterNewerFormat
<1>7. CASE Reconcile
  BY <1>7 DEF Reconcile, LoseEvents, Caught, Lost
<1> QED BY <1>2, <1>3, <1>4, <1>5, <1>6, <1>7

\* A batch whose delivery finds the index no longer served does not hold the change, or
\* a further event does.
Lookable(p) ==
  \/ state = "Ready" \/ p \in events \/ overflow
  \/ op[Watcher].at = "look" => p \notin op[Watcher].paths /\ ~op[Watcher].full

\* The callback's look at the state, when it drops no such change.
LEMMA LookPasses ==
  ASSUME TypeOK, NEW p, Caught(p), LookAtState, Lookable(p)
  PROVE  Caught(p)'
<1>a. op \in [Threads -> OpType] /\ Watcher \in Threads
  BY QueueNow
<1>1. /\ UNCHANGED <<built, eventsLost, timer, missed, events, overflow, queue>>
      /\ op[Watcher].at = "look"
      /\ \A u \in Threads : u # Watcher => op'[u] = op[u]
  BY <1>a, BecomeFields
     DEF LookAtState, Batch, indexVars, diskVars, watchVars, wakeVars
<1>2. Fresh(p) => Fresh(p)'
  <2>1. CASE state = "Ready"
    <3>1. Become(Watcher, [op[Watcher] EXCEPT !.at = "batch"])
      BY <2>1 DEF LookAtState, Batch
    <3>2. /\ op'[Watcher].at = "batch" /\ op'[Watcher].paths = op[Watcher].paths
          /\ op'[Watcher].full = op[Watcher].full
      BY <1>a, <3>1 DEF Become, OpType
    <3> QED BY <1>1, <3>2 DEF Fresh, WholeQ
  <2>2. CASE state # "Ready"
    BY <1>1, <2>2 DEF Fresh, Lookable, WholeQ
  <2> QED BY <2>1, <2>2
<1>3. Rewalked(p) => Rewalked(p)'
  BY <1>1 DEF Rewalked
<1> QED BY <1>1, <1>2, <1>3 DEF Caught, Lost

\* The steps of a drain.
LEMMA DrainsPass ==
  ASSUME TypeOK, Locks, NEW t \in Threads, NEW p \in Open',
         state' = "Ready" \/ disk' = "ok",
         (state = "Ready" \/ disk = "ok") /\ p \in Open => Caught(p),
         \/ RetryFires(t) \/ NothingWaits(t) \/ DrainApplies(t) \/ DrainHolds(t)
         \/ DrainLeavesToNewer(t) \/ DrainWaits(t) \/ DrainReconciles(t)
  PROVE  Caught(p)'
<1>a. /\ op \in [Threads -> OpType] /\ Watcher \in Threads
      /\ queue \in QueueType /\ queue.pending \in SUBSET Paths
      /\ queue.unsure \in SUBSET Paths
      /\ queue.rec \in BOOLEAN /\ queue.holdWants \in BOOLEAN /\ queue.due \in BOOLEAN
  BY QueueNow
<1>b. /\ Drained(queue) \in QueueType /\ HoldCleared(Drained(queue)) \in QueueType
      /\ Work(queue) \in SUBSET Paths /\ Retried(queue) \in SUBSET Paths
  BY <1>a, QueueOperators
<1>c. /\ Drained(queue).pending = {} /\ ~Drained(queue).rec /\ ~Drained(queue).due
      /\ Drained(queue).unsure = IF queue.due THEN {} ELSE queue.unsure
      /\ HoldCleared(Drained(queue)).unsure = Drained(queue).unsure
  BY <1>a, <1>b, QueueFields
<1>d. Work(queue) = queue.pending \cup (IF queue.due THEN queue.unsure ELSE {})
  BY DEF Work
<1> USE DEF treeVars, diskVars, indexVars, watchVars, wakeVars, bounds
<1>1. CASE RetryFires(t)
  <2>1. /\ UNCHANGED <<stale, unreported, dropped, disk, built, state, eventsLost, role, missed,
                       events, overflow>>
        /\ op[t] = Idle
        /\ \A u \in Threads : u # t => op'[u] = op[u]
        /\ queue' = [queue EXCEPT !.due = queue.unsure # {}]
    BY <1>1, <1>a, BecomeFields DEF RetryFires
  <2>2. /\ UNCHANGED <<queue.pending, queue.rec, queue.holdWants, queue.unsure>>
        /\ queue.unsure # {} => queue'.due
    BY <1>a, <2>1 DEF QueueType
  <2>3. Caught(p)
    BY <2>1 DEF Open
  <2>4. Fresh(p) => Fresh(p)'
    BY <1>a, <2>1, <2>2 DEF Fresh, WholeQ, Idle
  <2>5. Rewalked(p) => Rewalked(p)'
    BY <2>1 DEF Rewalked, Idle
  <2> QED BY <2>1, <2>2, <2>3, <2>4, <2>5 DEF Caught, Lost
<1>2. CASE NothingWaits(t)
  <2>1. /\ UNCHANGED <<stale, unreported, dropped, disk, built, state, eventsLost, role, missed,
                       events, overflow, timer>>
        /\ op[t].at = "drain" /\ Work(queue) = {}
        /\ \A u \in Threads : u # t => op'[u] = op[u]
        /\ queue' = [queue EXCEPT !.due = FALSE]
    BY <1>2, <1>a, BecomeFields DEF NothingWaits
  <2>2. UNCHANGED <<queue.pending, queue.rec, queue.holdWants, queue.unsure>>
    BY <1>a, <2>1 DEF QueueType
  <2>3. Caught(p) /\ ~(p \in queue.unsure /\ queue.due)
    BY <1>d, <2>1 DEF Open
  <2>4. Fresh(p) => Fresh(p)'
    BY <1>a, <2>1, <2>2 DEF Fresh, WholeQ
  <2>5. Rewalked(p) => Rewalked(p)'
    BY <2>1 DEF Rewalked
  <2> QED BY <2>1, <2>2, <2>3, <2>4, <2>5 DEF Caught, Lost
<1>3. CASE DrainApplies(t)
  <2>1. /\ UNCHANGED <<disk, built, state, eventsLost, role, missed, events, overflow>>
        /\ op[t].at = "drain" /\ ~WholeQ(queue)
        /\ Apply(HoldCleared(Drained(queue)), Work(queue), Retried(queue))
        /\ \A u \in Threads : u # t => op'[u] = op[u]
    BY <1>3, <1>a, NextRoundFields DEF DrainApplies, Applies, Round, WholeQ
  <2>2. /\ p \in Open \/ p \in Work(queue)
        /\ p \in Work(queue) => p \in queue'.unsure /\ timer'
        /\ p \in Drained(queue).unsure => p \in queue'.unsure
        /\ timer => timer'
    BY <1>b, <1>c, <2>1, ApplyCatches
  <2>3. p \in Open => Caught(p)
    BY <2>1
  <2>4. CASE p \in Work(queue)
    BY <2>2, <2>4 DEF Caught
  <2>5. CASE p \notin Work(queue)
    <3>1. Fresh(p) => Fresh(p)'
      BY <1>a, <1>d, <2>1, <2>5 DEF Fresh
    <3>2. Rewalked(p) => Rewalked(p)'
      BY <2>1 DEF Rewalked
    <3>3. p \in queue.unsure /\ (timer \/ queue.due) => p \in queue'.unsure /\ timer'
      BY <1>c, <1>d, <2>2, <2>5
    <3> QED BY <2>1, <2>2, <2>3, <2>5, <3>1, <3>2, <3>3 DEF Caught, Lost
  <2> QED BY <2>4, <2>5
<1>4. CASE DrainHolds(t)
  <2>1. /\ UNCHANGED <<stale, unreported, dropped, disk, built, state, eventsLost, role, missed,
                       events, overflow>>
        /\ op[t].at = "drain" /\ ~WholeQ(queue)
    BY <1>4, <1>a DEF DrainHolds, Applies, Round, WholeQ
  <2>a. timer => timer'
    BY <1>4 DEF DrainHolds, ScheduleRetry
  <2>b. \A u \in Threads : u # t => op'[u] = op[u]
    BY <1>4, <1>a, BecomeFields, NextRoundFields DEF DrainHolds
  <2>2. \/ queue' = PutBack(Drained(queue), Work(queue), TRUE, TRUE)
        \/ queue' = HeldBack(Drained(queue), Work(queue), "transient")
        \/ queue' = HeldBack(Drained(queue), Work(queue), "missing")
    BY <1>4 DEF DrainHolds
  <2>3. /\ queue'.unsure = Drained(queue).unsure
        /\ WholeQ(queue') \/ Work(queue) \subseteq queue'.pending
    <3>1. CASE queue' = PutBack(Drained(queue), Work(queue), TRUE, TRUE)
      BY <1>b, <3>1 DEF PutBack, QueueType
    <3>2. ASSUME NEW why, queue' = HeldBack(Drained(queue), Work(queue), why)
          PROVE  /\ queue'.unsure = Drained(queue).unsure
                 /\ WholeQ(queue') \/ Work(queue) \subseteq queue'.pending
      BY <1>b, <1>c, <3>2, HeldBackFields
    <3> QED BY <2>2, <3>1, <3>2
  <2>4. Caught(p)
    BY <2>1 DEF Open
  <2>5. CASE p \in Work(queue)
    BY <2>3, <2>5 DEF Caught, Fresh
  <2>6. CASE p \notin Work(queue)
    <3>1. Fresh(p) => Fresh(p)'
      BY <1>a, <1>d, <2>1, <2>b, <2>6 DEF Fresh
    <3>2. Rewalked(p) => Rewalked(p)'
      BY <2>1, <2>b DEF Rewalked
    <3>3. p \in queue.unsure /\ (timer \/ queue.due) => p \in queue'.unsure /\ timer'
      BY <1>c, <1>d, <2>a, <2>3, <2>6
    <3> QED BY <2>1, <2>4, <3>1, <3>2, <3>3 DEF Caught, Lost
  <2> QED BY <2>5, <2>6
<1>5. CASE DrainLeavesToNewer(t)
  <2>1. "newer" \in Loads /\ EnterNewerFormat(Drained(queue))
    <3>1. "newer" \in Refresh /\ EnterNewerFormat(Drained(queue))
      BY <1>5 DEF DrainLeavesToNewer
    <3> QED BY <3>1 DEF Refresh
  <2> QED BY <2>1, LoadsSay DEF EnterNewerFormat
<1>6. CASE DrainWaits(t)
  <2>1. /\ UNCHANGED <<stale, unreported, dropped, disk, built, state, eventsLost, role, missed,
                       events, overflow, timer>>
        /\ op[t].at = "drain"
        /\ queue' = PutBack(Drained(queue), Work(queue), queue.rec, FALSE)
        /\ \A u \in Threads : u # t => op'[u] = op[u]
    BY <1>6, <1>a, BecomeFields DEF DrainWaits, Round
  <2>2. /\ queue'.pending = Work(queue) /\ queue'.rec = queue.rec /\ ~queue'.holdWants
        /\ queue'.unsure = Drained(queue).unsure
    BY <1>a, <1>b, <1>c, <2>1 DEF PutBack, QueueType
  <2>3. Caught(p)
    BY <2>1 DEF Open
  <2>4. Fresh(p) => Fresh(p)'
    BY <1>a, <1>d, <2>1, <2>2 DEF Fresh, WholeQ
  <2>5. Rewalked(p) => Rewalked(p)'
    BY <2>1 DEF Rewalked
  <2>6. p \in queue.unsure /\ (timer \/ queue.due)
        => p \in queue'.pending \/ (p \in queue'.unsure /\ timer')
    BY <1>c, <1>d, <2>1, <2>2
  <2> QED BY <2>1, <2>3, <2>4, <2>5, <2>6 DEF Caught, Lost, Fresh
<1>7. CASE DrainReconciles(t)
  <2>1. CASE auto
    <3>1. op'[t].at = "drainBuild" /\ missed' = missed /\ GateFree
      BY <1>7, <1>a, <2>1 DEF DrainReconciles, Round, Become, OpType
    <3>2. missed = {}
      BY <3>1 DEF Locks, GateFree, Holding
    <3> QED BY <3>1, <3>2 DEF Caught, Rewalked
  <2>2. CASE ~auto
    BY <1>7, <2>2 DEF DrainReconciles, LoseEvents, Caught, Lost
  <2> QED BY <2>1, <2>2
<1> QED BY <1>1, <1>2, <1>3, <1>4, <1>5, <1>6, <1>7

\* A walk of this session commits.
Commits ==
  /\ Walked
  /\ \/ FinishRebuild
     \/ \E t \in Pool : FinishReindex(t) \/ FinishBuild(t) \/ FinishReconcile(t)
     \/ \E t \in Threads : FinishDrainBuild(t)

\* Whatever the step, but for an edit of the path, a takeover or a commit: a change
\* that was caught, or let go of, is caught.
LEMMA StepPasses ==
  ASSUME TypeOK, Locks, Watched, Next, NEW p \in Open',
         watching => watching', LookAtState => Lookable(p),
         state' = "Ready" \/ disk' = "ok",
         (state = "Ready" \/ disk = "ok") /\ p \in Open => Caught(p),
         ~(\E q \in Queries : MaybePromoteToOwner(q)), ~Commits, ~(\E q \in Paths : Edit(q))
  PROVE  Caught(p)'
<1>1. CASE ExternalWrite \/ OwnerExits \/ Query \/ GiveUp
  BY <1>1, BeginningsPass DEF Query
<1>2. CASE OnChanges
  <2>1. CASE \/ Deliver \/ CaptureLate \/ ApplyBatch \/ HoldBatch \/ LeaveToNewer
             \/ Reconcile
    BY <2>1, CallbackPasses
  <2>2. CASE FinishCompact
    BY <2>2, EndingsPass
  <2>3. CASE FinishRebuild
    BY <2>3, EndingsPass DEF Commits
  <2>4. CASE LookAtState
    <3>1. UNCHANGED <<stale, dropped, state, disk>>
      BY <2>4 DEF LookAtState, diskVars, indexVars
    <3>2. Caught(p)
      BY <3>1 DEF Open
    <3> QED BY <2>4, <3>2, LookPasses
  <2> QED BY <1>2, <2>1, <2>2, <2>3, <2>4 DEF OnChanges
<1>3. CASE \E t \in Pool : Reindex(t) \/ FinishReindex(t) \/ Startup(t)
  <2>1. PICK t \in Pool : Reindex(t) \/ FinishReindex(t) \/ Startup(t)
    BY <1>3
  <2>2. CASE \/ Reindex(t) \/ BackgroundBuild(t) \/ BackgroundBuildRefused(t)
             \/ MaybeReconcile(t) \/ BeginReconcile(t) \/ FinishPrune(t) \/ EndRebuilding(t)
    BY <2>2, BeginningsPass
  <2>3. CASE FinishReindex(t) \/ FinishBuild(t) \/ FinishReconcile(t)
    BY <2>3, EndingsPass DEF Commits
  <2> QED BY <2>1, <2>2, <2>3 DEF Startup
<1>4. CASE \E t \in Threads : Drain(t)
  <2>1. PICK t \in Threads : Drain(t)
    BY <1>4
  <2>2. CASE StartDrain(t) \/ EndDrainBuild(t)
    BY <2>2, BeginningsPass
  <2>3. CASE FinishDrainBuild(t)
    BY <2>3, EndingsPass DEF Commits
  <2>4. CASE \/ RetryFires(t) \/ NothingWaits(t) \/ DrainApplies(t) \/ DrainHolds(t)
             \/ DrainLeavesToNewer(t) \/ DrainWaits(t) \/ DrainReconciles(t)
    BY <2>4, DrainsPass
  <2> QED BY <2>1, <2>2, <2>3, <2>4 DEF Drain
<1> QED BY <1>1, <1>2, <1>3, <1>4 DEF Next

\* A commit leaves the changes its walk missed; the queue and the roles stay.
LEMMA CommitLeaves ==
  ASSUME TypeOK, Commits
  PROVE  /\ UNCHANGED <<events, overflow, queue.pending, queue.rec, queue.holdWants,
                        role, auto, tasks>>
         /\ op[Watcher].at \in {"look", "batch"} => op'[Watcher] = op[Watcher]
         /\ \A u \in Threads : op[u].at = "reconcileWaits" => op'[u] = op[u]
         /\ stale' = stale \cap missed /\ unreported' = unreported \cap missed
         /\ dropped' = dropped \cap missed /\ missed' = {}
<1>a. /\ op \in [Threads -> OpType] /\ Watcher \in Threads /\ Pool \subseteq Threads
      /\ queue \in QueueType
  BY QueueNow
<1>b. \A t \in Pool : t # Watcher
  BY LiveSessionAssumption
<1>c. /\ HoldEnded(queue).pending = queue.pending
      /\ HoldEnded(queue).rec = queue.rec /\ HoldEnded(queue).holdWants = queue.holdWants
  BY <1>a, QueueFields
<1> USE DEF Commits, treeVars, diskVars, indexVars, watchVars, wakeVars, bounds
<1>1. /\ stale' = stale \cap missed /\ unreported' = unreported \cap missed
      /\ dropped' = dropped \cap missed /\ missed' = {} /\ state' = "Ready"
  BY DEF Walked, Swap
<1>2. CASE FinishRebuild
  <2>1. op[Watcher].at = "rebuild" /\ \A u \in Threads : u # Watcher => op'[u] = op[u]
    BY <1>2, <1>a, BecomeFields DEF FinishRebuild, Batch
  <2>2. UNCHANGED <<events, overflow, queue, role, auto, tasks>>
    BY <1>2 DEF FinishRebuild
  <2> QED BY <1>1, <2>1, <2>2
<1>3. ASSUME NEW t \in Pool, FinishReindex(t) \/ FinishBuild(t) \/ FinishReconcile(t)
      PROVE  /\ UNCHANGED <<events, overflow, queue.pending, queue.rec, queue.holdWants,
                            role, auto, tasks>>
             /\ op[Watcher].at \in {"look", "batch"} => op'[Watcher] = op[Watcher]
             /\ \A u \in Threads : op[u].at = "reconcileWaits" => op'[u] = op[u]
  <2>1. /\ op[t].at \in {"reindex", "build", "reconcile"}
        /\ \A u \in Threads : u # t => op'[u] = op[u]
    BY <1>3, <1>a, BecomeFields DEF FinishReindex, FinishBuild, FinishReconcile
  <2>2. UNCHANGED <<events, overflow, queue, role, auto, tasks>>
    BY <1>1, <1>3 DEF FinishReindex, FinishBuild, FinishReconcile
  <2> QED BY <1>a, <1>b, <2>1, <2>2
<1>4. ASSUME NEW t \in Threads, FinishDrainBuild(t)
      PROVE  /\ UNCHANGED <<events, overflow, queue.pending, queue.rec, queue.holdWants,
                            role, auto, tasks>>
             /\ op[Watcher].at \in {"look", "batch"} => op'[Watcher] = op[Watcher]
             /\ \A u \in Threads : op[u].at = "reconcileWaits" => op'[u] = op[u]
  <2>1. op[t].at = "drainBuild" /\ \A u \in Threads : u # t => op'[u] = op[u]
    BY <1>4, <1>a, BecomeFields DEF FinishDrainBuild
  <2>2. UNCHANGED <<events, overflow, role, auto, tasks>> /\ queue' = HoldEnded(queue)
    BY <1>4 DEF FinishDrainBuild
  <2>3. UNCHANGED <<queue.pending, queue.rec, queue.holdWants>>
    BY <1>c, <2>2
  <2> QED BY <1>a, <2>1, <2>2, <2>3
<1> QED BY <1>1, <1>2, <1>3, <1>4

\* Only an edit that is seen makes an unreported change of the index a reported one.
LEMMA UnreportedStays ==
  ASSUME TypeOK, Next, NEW p \in unreported, p \in stale', p \notin unreported'
  PROVE  \E q \in Paths : Edit(q)
<1> SUFFICES ASSUME ~(\E q \in Paths : Edit(q)) PROVE FALSE
  OBVIOUS
<1> USE DEF TypeOK, treeVars, diskVars, indexVars, watchVars, wakeVars, bounds
<1>1. CASE OwnerExits \/ EnsureStarted \/ HoldBatch \/ Reconcile \/ Deliver
           \/ LookAtState \/ CaptureLate \/ \E q \in Queries : MaybePromoteToOwner(q)
  BY <1>1 DEF OwnerExits, EnsureStarted, HoldBatch, Reconcile, Deliver, LookAtState,
     CaptureLate, MaybePromoteToOwner
<1>2. ASSUME NEW t \in Threads, Reindex(t) \/ MaybeReconcile(t) \/
             BeginReconcile(t) \/ FinishPrune(t) \/ EndRebuilding(t) \/
             RetryFires(t) \/ StartDrain(t) \/ NothingWaits(t) \/ DrainHolds(t)
             \/ DrainWaits(t) \/ DrainReconciles(t) \/ EndDrainBuild(t)
             \/ BackgroundBuild(t)
      PROVE  FALSE
  BY <1>2 DEF Reindex, MaybeReconcile, BeginReconcile, FinishPrune,
     EndRebuilding, RetryFires, StartDrain, NothingWaits, DrainHolds,
     DrainWaits, DrainReconciles, EndDrainBuild, BackgroundBuild
<1>3. CASE ExternalWrite \/ MaybeReloadExternal
  BY <1>3 DEF ExternalWrite, MaybeReloadExternal, EnterNewerFormat
<1>7. CASE GiveUp
  BY <1>7, GiveUpStops
<1>4. CASE ApplyBatch \/ LeaveToNewer \/ FinishRebuild \/ FinishCompact
  BY <1>4 DEF ApplyBatch, Apply, LeaveToNewer, EnterNewerFormat, FinishRebuild,
     FinishCompact, Walked, Fails
<1>5. ASSUME NEW t \in Threads, FinishReindex(t) \/ BackgroundBuildRefused(t)
             \/ FinishBuild(t) \/ FinishReconcile(t) \/ FinishDrainBuild(t)
      PROVE  FALSE
  BY <1>5 DEF FinishReindex, BackgroundBuildRefused, FinishBuild, FinishReconcile,
     FinishDrainBuild, Walked, Fails
<1>6. ASSUME NEW t \in Threads, DrainApplies(t) \/ DrainLeavesToNewer(t)
      PROVE  FALSE
  BY <1>6 DEF DrainApplies, Apply, DrainLeavesToNewer, EnterNewerFormat
<1> QED BY <1>1, <1>2, <1>3, <1>4, <1>5, <1>6, <1>7
     DEF Next, Query, OnChanges, Startup, Drain, Threads

\* Every reported change stays caught.
LEMMA ReportedIsCaughtNext ==
  ASSUME TypeOK, Locks, Watched, MissedIsFresh, ReportedIsCaught, Next
  PROVE  ReportedIsCaught'
<1> SUFFICES ASSUME NEW p \in Reported', state' = "Ready" \/ disk' = "ok"
             PROVE  Caught(p)'
  BY DEF ReportedIsCaught
<1>1. p \in Open' /\ p \in stale' /\ p \notin unreported'
  BY DEF Reported, Open
<1>2. p \notin unreported /\ (state = "Ready" \/ disk = "ok") /\ p \in Open
      => Caught(p)
  BY DEF ReportedIsCaught, Reported
<1>3. CASE \E q \in Paths : Edit(q)
  <2>1. PICK q \in Paths : Edit(q)
    BY <1>3
  <2>2. IF watching THEN unreported' = unreported \ {q} ELSE unreported' = unreported \cup {q}
    BY <2>1 DEF Edit
  <2>3. p # q \/ watching
    BY <1>1, <2>2
  <2>4. p # q => p \notin unreported
    BY <1>1, <2>2
  <2> QED BY <1>1, <1>2, <2>1, <2>3, <2>4, EditPasses
<1>4. CASE \E q \in Queries : MaybePromoteToOwner(q)
  <2>1. /\ UNCHANGED <<stale, unreported, state, disk, events, overflow, queue, missed, timer,
                       eventsLost, built, op>>
        /\ dropped \subseteq dropped'
    BY <1>4 DEF MaybePromoteToOwner, LookAtRole, TakeRole, StartWatcher, CatchUp,
       diskVars, indexVars
  <2>2. Caught(p)
    BY <1>1, <1>2, <2>1 DEF Open
  <2> QED BY <2>1, <2>2, QueueNow, CaughtStays DEF Lost
<1>5. CASE Commits
  <2>1. p \in Reported \cap missed
    BY <1>1, <1>5, CommitLeaves DEF Reported, Open
  <2>2. Fresh(p)
    BY <2>1 DEF MissedIsFresh
  <2> QED BY <1>5, <2>2, CommitLeaves DEF Caught, Fresh, WholeQ
<1>6. CASE /\ ~(\E q \in Paths : Edit(q)) /\ ~(\E q \in Queries : MaybePromoteToOwner(q))
           /\ ~Commits
  <2>1. p \notin unreported
    BY <1>1, <1>6, UnreportedStays
  <2>2. watching => watching'
    <3>1. CASE GiveUp
      BY <1>1, <3>1, GiveUpStops
    <3> QED BY <1>6, <3>1, RoleStays
  <2>3. LookAtState => Lookable(p)
    BY <1>1 DEF LookAtState, Lookable, Batch
  <2> QED BY <1>1, <1>2, <1>6, <2>1, <2>2, <2>3, StepPasses
<1> QED BY <1>3, <1>4, <1>5, <1>6

\* While a delivered batch is looked at, what it holds is not lost to a walk that is to
\* publish the index, nor to a background build that will find one: the batch is looked at
\* while the index is served, unless a further event has the change as well.
BatchesStay ==
  op[Watcher].at = "look" =>
    \A p \in Open : p \in missed \/ ("build" \in tasks /\ disk = "ok") => Lookable(p)

\* What the other steps do while a batch waits to be looked at.
LEMMA LookWaits ==
  ASSUME TypeOK, Locks, Next, op[Watcher].at = "look", op'[Watcher] = op[Watcher],
         ~\E q \in Paths : Edit(q), state' # "Ready"
  PROVE  /\ UNCHANGED <<events, overflow>>
         /\ Open' \subseteq Open
         /\ "build" \in tasks' /\ disk' = "ok" /\ Open' # {}
              => state # "Ready" /\ "build" \in tasks /\ disk = "ok"
<1> DEFINE Kept == /\ UNCHANGED <<events, overflow>>
                   /\ Open' \subseteq Open
                   /\ "build" \in tasks' /\ disk' = "ok" /\ Open' # {}
                        => state # "Ready" /\ "build" \in tasks /\ disk = "ok"
<1>a. /\ op \in [Threads -> OpType] /\ Watcher \in Threads /\ Pool \subseteq Threads
  BY QueueNow
<1>b. "newer" \in Refresh => "newer" \in Loads
  BY DEF Refresh
<1> USE DEF Open, treeVars, diskVars, indexVars, watchVars, wakeVars, bounds
<1>1. CASE ExternalWrite
  BY <1>1 DEF ExternalWrite
<1>2. CASE OwnerExits
  BY <1>2 DEF OwnerExits
<1>3. CASE EnsureStarted
  <2>1. UNCHANGED <<stale, dropped, events, overflow, disk>> /\ state # "Ready"
    BY <1>3 DEF EnsureStarted
  <2>2. "build" \in tasks' => "build" \in tasks \/ "missing" \in Loads
    BY <1>3, EnsureStartedFinds DEF Loaded
  <2> QED BY <2>1, <2>2, LoadsSay
<1>4. CASE \E q \in Queries : MaybePromoteToOwner(q)
  <2>1. UNCHANGED <<stale, events, overflow, disk, state>> /\ dropped \subseteq dropped'
    BY <1>4 DEF MaybePromoteToOwner, LookAtRole, TakeRole, StartWatcher, CatchUp
  <2>2. "build" \in tasks' => "build" \in tasks
    BY <1>4 DEF MaybePromoteToOwner, LookAtRole, TakeRole, StartWatcher, CatchUp
  <2> QED BY <2>1, <2>2
<1>5. CASE MaybeReloadExternal
  <2>1. "newer" \in Loads /\ EnterNewerFormat(queue) /\ UNCHANGED watchVars
    BY <1>5 DEF MaybeReloadExternal, Swap
  <2> QED BY <2>1, LoadsSay DEF EnterNewerFormat
<1>6. CASE GiveUp
  <2>1. UNCHANGED <<stale, dropped, tasks, disk, state>>
    BY <1>6 DEF GiveUp
  <2>2. UNCHANGED <<events, overflow>>
    BY <1>6, GiveUpStops, StepFields
  <2>3. state # "Ready"
    BY <2>1
  <2> QED BY <2>1, <2>2, <2>3
<1>7. CASE OnChanges
  <2>1. CASE LookAtState
    <3>1. [op[Watcher] EXCEPT !.at = "batch"].at = "batch"
      BY <1>a DEF OpType
    <3> DEFINE b == [op[Watcher] EXCEPT !.at = "batch"]
    <3>2. Become(Watcher, b) \/ Become(Watcher, Idle)
      BY <2>1 DEF LookAtState, Batch
    <3>3. b.at = "batch"
      BY <3>1
    <3> HIDE DEF b
    <3>4. op'[Watcher].at \in {"batch", "idle"}
      BY <1>a, <3>2, <3>3, BecomeFields, StepFields
    <3> QED BY <3>4
  <2> QED BY <1>7, <2>1, StepFields DEF OnChanges, Deliver, CaptureLate, ApplyBatch, HoldBatch,
       LeaveToNewer, Reconcile, FinishRebuild, FinishCompact, Applying, Batch
<1>8. ASSUME NEW t \in Pool, Reindex(t) \/ MaybeReconcile(t) \/ BeginReconcile(t)
             \/ EndRebuilding(t)
      PROVE  Kept
  <2>1. UNCHANGED <<stale, dropped, events, overflow, state, disk>>
    BY <1>8 DEF Reindex, MaybeReconcile, BeginReconcile, EndRebuilding
  <2>2. "build" \in tasks' => "build" \in tasks
    BY <1>8 DEF Reindex, MaybeReconcile, BeginReconcile, EndRebuilding, Take
  <2> QED BY <2>1, <2>2
<1>9. ASSUME NEW t \in Pool, FinishPrune(t) PROVE Kept
  <2>1. UNCHANGED <<stale, dropped, events, overflow, state, disk, tasks>>
    BY <1>9 DEF FinishPrune, Swap
  <2> QED BY <2>1
<1>10. ASSUME NEW t \in Pool, FinishReindex(t) \/ FinishReconcile(t) PROVE Kept
  <2>1. ~Walked
    BY DEF Walked, Swap
  <2>2. UNCHANGED <<stale, events, overflow, state, disk, tasks>> /\ dropped \subseteq dropped'
    BY <1>10, <2>1 DEF FinishReindex, FinishReconcile, Fails
  <2> QED BY <2>2
<1>11. ASSUME NEW t \in Pool, FinishBuild(t) PROVE Kept
  <2>1. ~Walked
    BY DEF Walked, Swap
  <2>2. UNCHANGED <<stale, dropped, events, overflow, disk, tasks>> /\ op[t].at = "build"
    BY <1>11, <2>1 DEF FinishBuild, Fails
  <2>3. disk = "gone"
    BY <1>a, <2>2 DEF Locks
  <2> QED BY <2>2, <2>3
<1>12. ASSUME NEW t \in Pool, BackgroundBuild(t) \/ BackgroundBuildRefused(t) PROVE Kept
  <2>1. UNCHANGED <<stale, dropped, events, overflow>> /\ "build" \notin tasks'
    BY <1>12 DEF BackgroundBuild, BackgroundBuildRefused, Take
  <2> QED BY <2>1
<1>13. ASSUME NEW t \in Threads, RetryFires(t) \/ StartDrain(t) \/ NothingWaits(t)
              \/ DrainHolds(t) \/ DrainWaits(t) \/ DrainReconciles(t) \/ EndDrainBuild(t)
       PROVE  Kept
  <2>1. UNCHANGED <<stale, dropped, events, overflow, state, disk>>
    BY <1>13 DEF RetryFires, StartDrain, NothingWaits, DrainHolds, DrainWaits,
       DrainReconciles, EndDrainBuild
  <2>2. "build" \in tasks' => "build" \in tasks
    BY <1>13 DEF RetryFires, StartDrain, NothingWaits, DrainHolds, DrainWaits,
       DrainReconciles, EndDrainBuild, Take
  <2> QED BY <2>1, <2>2
<1>14. ASSUME NEW t \in Threads, DrainApplies(t) PROVE FALSE
  BY <1>14 DEF DrainApplies, Applies
<1>15. ASSUME NEW t \in Threads, DrainLeavesToNewer(t) PROVE Kept
  <2>1. "newer" \in Loads /\ EnterNewerFormat(Drained(queue)) /\ UNCHANGED watchVars
    BY <1>15, <1>b DEF DrainLeavesToNewer
  <2> QED BY <2>1, LoadsSay DEF EnterNewerFormat
<1>16. ASSUME NEW t \in Threads, FinishDrainBuild(t) PROVE Kept
  <2>1. ~Walked
    BY DEF Walked, Swap
  <2>2. UNCHANGED <<stale, dropped, events, overflow, state, disk, tasks>>
    BY <1>16, <2>1 DEF FinishDrainBuild, Fails
  <2> QED BY <2>2
<1> HIDE DEF Kept
<1>17. Kept
  BY <1>1, <1>2, <1>3, <1>4, <1>5, <1>6, <1>7, <1>8, <1>9, <1>10, <1>11, <1>12, <1>13,
     <1>14, <1>15, <1>16 DEF Next, Query, Startup, Drain, Kept
<1> QED BY <1>17 DEF Kept

\* Batches keep to that.
LEMMA BatchesStayNext ==
  ASSUME TypeOK, Locks, Watched, BatchesStay, Next
  PROVE  BatchesStay'
<1> SUFFICES ASSUME op'[Watcher].at = "look", NEW p \in Open', state' # "Ready",
                    p \in missed' \/ ("build" \in tasks' /\ disk' = "ok"),
                    p \notin events', ~overflow',
                    p \in op'[Watcher].paths \/ op'[Watcher].full
             PROVE  FALSE
  BY DEF BatchesStay, Lookable
<1>1. op'[Watcher] = op[Watcher]
  <2>1. ~(Deliver /\ ~Busy)
    BY DEF Deliver, Busy, indexVars
  <2> QED BY <2>1, LookComes
<1>2. op[Watcher].at = "look" /\ (p \in op[Watcher].paths \/ op[Watcher].full) /\ watching
  BY <1>1 DEF Watched
<1>3. CASE \E q \in Paths : Edit(q)
  <2>1. PICK q \in Paths : Edit(q)
    BY <1>3
  <2>2. /\ p # q /\ p \in Open /\ (p \in missed' => p \in missed)
        /\ p \notin events /\ ~overflow
    BY <1>2, <2>1 DEF Edit, Open
  <2>3. UNCHANGED <<state, tasks, disk>>
    BY <2>1 DEF Edit, diskVars, indexVars, wakeVars
  <2> QED BY <1>2, <2>2, <2>3 DEF BatchesStay, Lookable
<1>4. CASE ~\E q \in Paths : Edit(q)
  <2>1. /\ UNCHANGED <<events, overflow>> /\ p \in Open
        /\ "build" \in tasks' /\ disk' = "ok" =>
             state # "Ready" /\ "build" \in tasks /\ disk = "ok"
    BY <1>1, <1>2, <1>4, LookWaits
  <2>2. p \in missed' => p \in missed /\ state # "Ready"
    <3> SUFFICES ASSUME p \in missed' PROVE p \in missed /\ state # "Ready"
      OBVIOUS
    <3>1. missed' = missed
      BY <1>4, EveryStep DEF Stays, Moves
    <3>2. PICK u \in Threads : op[u].at \in Walks
      BY <3>1 DEF Locks
    <3>3. ~GateFree
      BY <3>2 DEF GateFree, Holding
    <3>4. CASE Stays
      BY <3>1, <3>3, <3>4 DEF Stays
    <3>5. ASSUME NEW t \in Threads, Moves(t) PROVE state # "Ready"
      <4>1. op[t].at \notin Walks
        BY <3>5 DEF Moves
      <4>2. op[t].at \notin Holding
        BY <3>2, <4>1 DEF Locks, Holding
      <4> QED BY <3>3, <3>5, <4>2 DEF Moves
    <3> QED BY <3>1, <3>4, <3>5, EveryStep
  <2> QED BY <1>2, <2>1, <2>2 DEF BatchesStay, Lookable
<1> QED BY <1>3, <1>4

-----------------------------------------------------------------------------
(* Changes nobody watched *)

\* The role is this session's own, and is not about to be handed back.
Owning == role = "ours" /\ ~Releasing /\ ~crossed

\* A reconcile is on its way, for everything that is unreported.
Awaited ==
  "reconcile" \in tasks \/ \E t \in Threads : op[t].at = "reconcileWaits"

\* It runs and will find the change.
Reconciled(p) == \E t \in Threads : op[t].at = "reconcile" /\ p \notin missed

\* An index is served, or is about to be without a further reconcile: a background build
\* that finds one on disk just serves it.
Loading == state = "Ready" \/ ("build" \in tasks /\ disk = "ok")

\* Where walks run unasked, what is unreported and was not let go of will be found by a
\* reconcile, a takeover's included, or is caught as a reported change is.
UnreportedIsAwaited ==
  Owning /\ auto /\ Loading =>
    \A p \in unreported \ dropped : TakingOver \/ Awaited \/ Reconciled(p) \/ Caught(p)

\* What a running walk missed is awaited: it will be there when the walk ends.
MissedIsAwaited ==
  Owning /\ auto => \A p \in (unreported \cap missed) \ dropped : TakingOver \/ Awaited

\* A give-up that stops the watcher is about to release the role; one that does neither
\* leaves both.
LEMMA StopReleases ==
  ASSUME TypeOK, Watched, HandedOver, GiveUp, Owning'
  PROVE  Owning /\ UNCHANGED <<unreported, watching, events, overflow>>
<1>a. giveUps \subseteq GiveUpType
  BY DEF TypeOK
<1>b. role' = "ours" /\ ~crossed /\ ~Releasing'
  BY DEF Owning, GiveUp
<1>1. PICK g \in giveUps : GiveUpWatcher(g) \/ GiveUpRole(g)
  BY DEF GiveUp
<1>2. \A h \in GiveUpType :
        /\ [h EXCEPT !.at = "stopped"].own = h.own
        /\ [h EXCEPT !.at = "stopped"].at = "stopped"
        /\ [h EXCEPT !.watcher = FALSE].own = h.own
        /\ [h EXCEPT !.watcher = FALSE].at = h.at
  BY DEF GiveUpType
<1>3. CASE GiveUpWatcher(g) /\ newerFormat /\ g.watcher
  <2>1. g \in GiveUpType /\ g.own
    BY <1>a, <1>b, <1>1, <1>3 DEF HandedOver
  <2> DEFINE k == [[g EXCEPT !.at = "stopped"] EXCEPT !.watcher = FALSE]
  <2>2. k \in giveUps'
    BY <1>3 DEF GiveUpWatcher
  <2>3. [g EXCEPT !.at = "stopped"] \in GiveUpType
    BY <2>1, GiveUpRecords
  <2>4. k.at = "stopped" /\ k.own
    BY <1>2, <2>1, <2>3
  <2> HIDE DEF k
  <2> QED BY <1>b, <2>2, <2>4 DEF Releasing
<1>4. CASE GiveUpWatcher(g) /\ ~(newerFormat /\ g.watcher)
  <2>1. UNCHANGED <<unreported, watching, events, overflow, role>>
    BY <1>4 DEF GiveUpWatcher, watchVars
  <2>2. giveUps' = giveUps \ {g} \/ giveUps' = (giveUps \ {g}) \cup {[g EXCEPT !.at = "stopped"]}
    BY <1>4 DEF GiveUpWatcher
  <2>3. Releasing => Releasing'
    BY <1>4, <2>2 DEF Releasing, GiveUpWatcher
  <2> QED BY <1>b, <2>1, <2>3 DEF Owning
<1>5. CASE GiveUpRole(g)
  <2>1. ~g.own /\ giveUps' = giveUps \ {g}
    BY <1>b, <1>5 DEF GiveUpRole
  <2>2. UNCHANGED <<unreported, watching, events, overflow, role>>
    BY <1>5, <2>1 DEF GiveUpRole
  <2>3. Releasing => Releasing'
    BY <2>1 DEF Releasing
  <2> QED BY <1>b, <2>2, <2>3 DEF Owning
<1> QED BY <1>1, <1>3, <1>4, <1>5

\* But for a takeover, the role was this session's before.
LEMMA OwningWas ==
  ASSUME TypeOK, Watched, HandedOver, Next, Owning',
         ~\E q \in Queries : MaybePromoteToOwner(q)
  PROVE  Owning
<1>1. CASE GiveUp
  BY <1>1, StopReleases
<1>2. CASE ~GiveUp
  <2>1. role = "ours"
    BY <1>2, RoleStays DEF Owning
  <2>2. CASE handover' = handover
    BY <2>1, <2>2 DEF handover, Owning, Releasing
  <2>3. CASE GiveUpLiveIndexing /\ handover' # handover
    <3>1. crossed => crossed'
      BY <2>3, GiveUpCaptures
    <3>2. giveUps \subseteq giveUps'
      BY <2>3, GiveUpCaptures
    <3> QED BY <2>1, <3>1, <3>2 DEF Owning, Releasing
  <2> QED BY <1>2, <2>2, <2>3, HandStays
<1> QED BY <1>1, <1>2

\* A takeover goes on until its query ends it.
LEMMA TakingStays ==
  ASSUME TypeOK, Next, TakingOver, ~\E q \in Queries : MaybePromoteToOwner(q)
  PROVE  TakingOver'
<1>1. CASE GiveUp
  BY <1>1, GiveUpStops DEF TakingOver
<1>2. CASE handover' = handover
  BY <1>2 DEF handover, TakingOver
<1>3. CASE GiveUpLiveIndexing /\ handover' # handover
  BY <1>3, GiveUpCaptures
<1> QED BY <1>1, <1>2, <1>3, HandStays

\* A reconcile that is on its way stays so until it runs.
LEMMA AwaitedStays ==
  ASSUME TypeOK, Next, Awaited, role' = "ours", auto
  PROVE  Awaited' \/ \E t \in Pool : BeginReconcile(t)
<1>a. /\ op \in [Threads -> OpType] /\ Watcher \in Threads /\ Pool \subseteq Threads
  BY QueueNow
<1> USE DEF treeVars, diskVars, indexVars, watchVars, wakeVars, bounds
<1>1. CASE OnChanges \/ OwnerExits \/ ExternalWrite \/ (\E q \in Paths : Edit(q))
           \/ \E q \in Queries : MaybePromoteToOwner(q)
  <2>1. \A u \in Threads : op'[u] = op[u] \/ op[u].at \notin {"reconcileWaits"}
    <3>1. CASE OnChanges
      <4>1. \A u \in Threads : u # Watcher => op'[u] = op[u]
        BY <1>a, <3>1, BecomeFields DEF OnChanges, Deliver, LookAtState, CaptureLate,
           ApplyBatch, HoldBatch, LeaveToNewer, Reconcile, FinishRebuild, FinishCompact
      <4>2. op'[Watcher] = op[Watcher] \/ op[Watcher].at # "reconcileWaits"
        BY <3>1, StepFields DEF OnChanges, Deliver, LookAtState, CaptureLate, ApplyBatch,
           HoldBatch, LeaveToNewer, Reconcile, FinishRebuild, FinishCompact, Applying, Batch
      <4> QED BY <4>1, <4>2
    <3>2. CASE OwnerExits \/ ExternalWrite \/ (\E q \in Paths : Edit(q))
               \/ \E q \in Queries : MaybePromoteToOwner(q)
      BY <3>2 DEF OwnerExits, ExternalWrite, MaybePromoteToOwner, Edit
    <3> QED BY <1>1, <3>1, <3>2
  <2>2. "reconcile" \in tasks => "reconcile" \in tasks'
    <3>1. CASE OnChanges
      BY <3>1 DEF OnChanges, Deliver, LookAtState, CaptureLate, ApplyBatch, HoldBatch,
         LeaveToNewer, Reconcile, FinishRebuild, FinishCompact, EnterNewerFormat
    <3>2. CASE OwnerExits \/ ExternalWrite \/ (\E q \in Paths : Edit(q))
               \/ \E q \in Queries : MaybePromoteToOwner(q)
      BY <3>2 DEF OwnerExits, ExternalWrite, MaybePromoteToOwner, LookAtRole, TakeRole,
         StartWatcher, CatchUp, Edit
    <3> QED BY <1>1, <3>1, <3>2
  <2> QED BY <2>1, <2>2 DEF Awaited
<1>2. CASE EnsureStarted \/ MaybeReloadExternal \/ GiveUp
  <2>1. op' = op
    BY <1>2 DEF EnsureStarted, MaybeReloadExternal, GiveUp
  <2>2. "reconcile" \in tasks => "reconcile" \in tasks'
    <3>1. CASE EnsureStarted
      BY <3>1, EnsureStartedFinds DEF Loaded
    <3>2. CASE MaybeReloadExternal
      BY <3>2 DEF MaybeReloadExternal, EnterNewerFormat
    <3>3. CASE GiveUp
      BY <3>3 DEF GiveUp
    <3> QED BY <1>2, <3>1, <3>2, <3>3
  <2> QED BY <2>1, <2>2 DEF Awaited
<1>3. ASSUME NEW t \in Pool, Reindex(t) \/ FinishReindex(t) \/ Startup(t)
      PROVE  Awaited' \/ BeginReconcile(t)
  <2>1. CASE MaybeReconcile(t)
    <3>1. Become(t, At("reconcileWaits"))
      BY <2>1 DEF MaybeReconcile
    <3>2. op'[t].at = "reconcileWaits"
      BY <1>a, <3>1, BecomeFields, StepFields
    <3> QED BY <1>a, <3>2 DEF Awaited
  <2>2. CASE Reindex(t) \/ FinishReindex(t) \/ BackgroundBuild(t) \/ FinishBuild(t)
             \/ FinishReconcile(t) \/ FinishPrune(t) \/ EndRebuilding(t)
    <3>1. \A u \in Threads : u # t => op'[u] = op[u]
      BY <1>a, <2>2, BecomeFields DEF Reindex, FinishReindex, BackgroundBuild, FinishBuild,
         FinishReconcile, FinishPrune, EndRebuilding
    <3>2. op[t].at # "reconcileWaits"
      BY <2>2, StepFields DEF Reindex, FinishReindex, BackgroundBuild, FinishBuild,
         FinishReconcile, FinishPrune, EndRebuilding, Take
    <3>3. "reconcile" \in tasks => "reconcile" \in tasks'
      BY <2>2 DEF Reindex, FinishReindex, BackgroundBuild, FinishBuild,
         FinishReconcile, FinishPrune, EndRebuilding, Take
    <3> QED BY <3>1, <3>2, <3>3 DEF Awaited
  <2>3. CASE BackgroundBuildRefused(t)
    BY <2>3 DEF BackgroundBuildRefused, Awaited
  <2> QED BY <1>3, <2>1, <2>2, <2>3 DEF Startup
<1>4. ASSUME NEW t \in Threads, Drain(t) PROVE Awaited'
  <2>1. \A u \in Threads : u # t => op'[u] = op[u]
    BY <1>a, <1>4, BecomeFields, NextRoundFields DEF Drain, RetryFires, StartDrain,
       NothingWaits, DrainApplies, DrainHolds, DrainLeavesToNewer, DrainWaits,
       DrainReconciles, FinishDrainBuild, EndDrainBuild
  <2>2. op[t].at # "reconcileWaits"
    BY <1>4, StepFields DEF Drain, RetryFires, StartDrain,
       NothingWaits, DrainApplies, DrainHolds, DrainLeavesToNewer, DrainWaits,
       DrainReconciles, FinishDrainBuild, EndDrainBuild, Take, Round
  <2>3. "reconcile" \in tasks => "reconcile" \in tasks'
    BY <1>4 DEF Drain, RetryFires, StartDrain,
       NothingWaits, DrainApplies, DrainHolds, DrainLeavesToNewer, DrainWaits,
       DrainReconciles, FinishDrainBuild, EndDrainBuild, Take, EnterNewerFormat
  <2> QED BY <2>1, <2>2, <2>3 DEF Awaited
<1> QED BY <1>1, <1>2, <1>3, <1>4 DEF Next, Query

\* A reconcile that runs goes on until it finishes.
LEMMA ReconciledStays ==
  ASSUME TypeOK, Next, NEW u \in Threads, op[u].at = "reconcile"
  PROVE  op'[u] = op[u] \/ \E t \in Pool : FinishReconcile(t)
<1>a. /\ op \in [Threads -> OpType] /\ Watcher \in Threads /\ Pool \subseteq Threads
  BY QueueNow
<1> USE DEF treeVars, diskVars, indexVars, watchVars, wakeVars, bounds
<1>1. CASE OnChanges
  <2>1. u # Watcher => op'[u] = op[u]
    BY <1>a, <1>1, BecomeFields DEF OnChanges, Deliver, LookAtState, CaptureLate, ApplyBatch,
       HoldBatch, LeaveToNewer, Reconcile, FinishRebuild, FinishCompact
  <2>2. op'[Watcher] = op[Watcher] \/ op[Watcher].at # "reconcile"
    BY <1>1, StepFields DEF OnChanges, Deliver, LookAtState, CaptureLate, ApplyBatch,
       HoldBatch, LeaveToNewer, Reconcile, FinishRebuild, FinishCompact, Applying, Batch
  <2> QED BY <2>1, <2>2
<1>2. CASE OwnerExits \/ ExternalWrite \/ Query \/ GiveUp \/ (\E q \in Paths : Edit(q))
  BY <1>2 DEF OwnerExits, ExternalWrite, MaybePromoteToOwner, Edit, Query, EnsureStarted,
     MaybeReloadExternal, GiveUp
<1>3. ASSUME NEW t \in Pool, Reindex(t) \/ FinishReindex(t) \/ Startup(t)
      PROVE  op'[u] = op[u] \/ FinishReconcile(t)
  <2>1. u # t => op'[u] = op[u]
    BY <1>a, <1>3, BecomeFields DEF Reindex, FinishReindex, Startup, BackgroundBuild,
       BackgroundBuildRefused, FinishBuild, MaybeReconcile, BeginReconcile, FinishReconcile,
       FinishPrune, EndRebuilding
  <2>2. u = t => op'[u] = op[u] \/ FinishReconcile(t)
    BY <1>3, StepFields DEF Reindex, FinishReindex, Startup, BackgroundBuild,
       BackgroundBuildRefused, FinishBuild, MaybeReconcile, BeginReconcile,
       FinishPrune, EndRebuilding, Take
  <2> QED BY <2>1, <2>2
<1>4. ASSUME NEW t \in Threads, Drain(t) PROVE op'[u] = op[u]
  <2>1. u # t => op'[u] = op[u]
    BY <1>a, <1>4, BecomeFields, NextRoundFields DEF Drain, RetryFires, StartDrain,
       NothingWaits, DrainApplies, DrainHolds, DrainLeavesToNewer, DrainWaits,
       DrainReconciles, FinishDrainBuild, EndDrainBuild
  <2>2. u # t
    BY <1>4, StepFields DEF Drain, RetryFires, StartDrain,
       NothingWaits, DrainApplies, DrainHolds, DrainLeavesToNewer, DrainWaits,
       DrainReconciles, FinishDrainBuild, EndDrainBuild, Take, Round
  <2> QED BY <2>1, <2>2
<1> QED BY <1>1, <1>2, <1>3, <1>4 DEF Next

\* What an edit does while this session watches: with the role its own and no takeover
\* under way, it does.
LEMMA EditSeen ==
  ASSUME TypeOK, HandedOver, NEW q \in Paths, Edit(q), Owning, ~TakingOver
  PROVE  /\ watching /\ unreported' = unreported \ {q}
         /\ UNCHANGED <<state, disk, tasks, op, auto>>
         /\ dropped' = dropped \ {q} /\ missed' \subseteq missed \cup {q}
<1>1. watching
  BY DEF HandedOver, Owning, TakingOver
<1> QED BY <1>1 DEF Edit, diskVars, indexVars, wakeVars

\* A step of a takeover goes on with it, awaits a reconcile, or lets go of what is
\* unreported; or it ends before the role is taken.
LEMMA TakeoverAwaits ==
  ASSUME TypeOK, NEW q \in Queries, MaybePromoteToOwner(q)
  PROVE  /\ UNCHANGED <<stale, unreported, state, disk, events, overflow, queue, missed, timer,
                        eventsLost, built, op, auto>>
         /\ \/ TakingOver' \/ Awaited' \/ unreported' \subseteq dropped'
            \/ UNCHANGED <<role, giveUps, crossed, dropped, tasks>> /\ ~TakingOver
<1>a. takeover \in [Queries -> TakeoverSteps]
  BY DEF TypeOK
<1>1. UNCHANGED <<stale, unreported, state, disk, events, overflow, queue, missed, timer,
                  eventsLost, built, op, auto, giveUps>>
  BY DEF MaybePromoteToOwner, diskVars, indexVars
<1>2. \A step : Proceed(q, step) => takeover'[q] = step /\ \A r \in Queries \ {q} :
                                                              takeover'[r] = takeover[r]
  BY <1>a DEF Proceed
<1>3. takeover[q] \notin {"took", "watches"} /\ TakingOver => TakingOver'
  <2> SUFFICES ASSUME takeover[q] \notin {"took", "watches"}, TakingOver PROVE TakingOver'
    OBVIOUS
  <2>1. PICK r \in Queries : takeover[r] \in {"took", "watches"}
    BY DEF TakingOver
  <2>2. \E step : Proceed(q, step)
    BY DEF MaybePromoteToOwner, LookAtRole, TakeRole, StartWatcher, CatchUp
  <2>3. takeover'[r] = takeover[r]
    BY <1>2, <2>1, <2>2
  <2> QED BY <2>1, <2>3 DEF TakingOver
<1>4. CASE LookAtRole(q)
  BY <1>1, <1>3, <1>4 DEF LookAtRole
<1>5. CASE TakeRole(q)
  <2>1. CASE role = "free"
    BY <1>1, <1>2, <1>5, <2>1 DEF TakeRole, TakingOver
  <2>2. CASE role # "free"
    BY <1>1, <1>3, <1>5, <2>2 DEF TakeRole
  <2> QED BY <2>1, <2>2
<1>6. CASE StartWatcher(q)
  BY <1>1, <1>2, <1>6 DEF StartWatcher, TakingOver
<1>7. CASE CatchUp(q)
  BY <1>1, <1>7 DEF CatchUp, Awaited
<1> QED BY <1>1, <1>4, <1>5, <1>6, <1>7 DEF MaybePromoteToOwner

\* While a walk runs, an unreported change it missed stays awaited; when it ends, no
\* change is missed.
LEMMA MissedIsAwaitedNext ==
  ASSUME TypeOK, Locks, Watched, HandedOver, BatchesStay, MissedIsAwaited, Next
  PROVE  MissedIsAwaited'
<1> SUFFICES ASSUME Owning', auto', NEW p \in (unreported' \cap missed') \ dropped',
                    ~TakingOver'
             PROVE  Awaited'
  BY DEF MissedIsAwaited
<1>a. GateFree => missed = {}
  BY DEF GateFree, Locks, Holding
<1>b. auto' = auto
  BY EveryStep DEF Stays, Moves
<1>1. CASE \E q \in Queries : MaybePromoteToOwner(q)
  <2>1. PICK q \in Queries : MaybePromoteToOwner(q)
    BY <1>1
  <2>2. ~(unreported' \subseteq dropped')
    OBVIOUS
  <2>3. CASE Awaited'
    BY <2>3
  <2>4. CASE ~Awaited'
    <3>1. /\ UNCHANGED <<unreported, missed, op>> /\ ~TakingOver
          /\ UNCHANGED <<role, giveUps, crossed, dropped, tasks>>
      BY <2>1, <2>2, <2>4, TakeoverAwaits
    <3>2. Owning
      BY <3>1 DEF Owning, Releasing
    <3>3. Awaited
      BY <1>b, <3>1, <3>2 DEF MissedIsAwaited
    <3> QED BY <3>1, <3>3 DEF Awaited
  <2> QED BY <2>3, <2>4
<1>2. CASE ~\E q \in Queries : MaybePromoteToOwner(q)
  <2>a. Owning /\ ~TakingOver
    BY <1>2, OwningWas, TakingStays
  <2>1. CASE \E q \in Paths : Edit(q)
    <3>1. PICK q \in Paths : Edit(q)
      BY <2>1
    <3>2. p \in (unreported \cap missed) \ dropped
      BY <2>a, <3>1, EditSeen
    <3>3. Awaited
      BY <1>b, <2>a, <3>2 DEF MissedIsAwaited
    <3> QED BY <2>a, <3>1, <3>3, EditSeen DEF Awaited
  <2>2. CASE ~(\E q \in Paths : Edit(q)) /\ missed = missed'
    <3>1. ~GateFree
      BY <1>a, <2>2
    <3>2. p \in unreported /\ p \notin dropped
      <4> USE <2>2, <3>1 DEF treeVars, diskVars, indexVars, watchVars, wakeVars, bounds
      <4>1. CASE OwnerExits \/ ExternalWrite \/ EnsureStarted \/ MaybeReloadExternal
        BY <4>1 DEF OwnerExits, ExternalWrite, EnsureStarted, MaybeReloadExternal
      <4>5. CASE GiveUp
        BY <4>5, StopReleases DEF GiveUp
      <4>6. CASE LookAtState
        <5>1. UNCHANGED <<dropped, stale>> /\ op[Watcher].at = "look"
          BY <4>6 DEF LookAtState, Batch
        <5>2. CASE p \notin unreported
          <6>1. /\ state # "Ready" /\ ~overflow /\ p \notin events /\ p \in stale
                /\ p \in op[Watcher].paths \/ op[Watcher].full
            BY <4>6, <5>2 DEF LookAtState, Batch
          <6>2. p \in Open /\ p \in missed
            BY <5>1, <6>1 DEF Open
          <6> QED BY <5>1, <6>1, <6>2 DEF BatchesStay, Lookable
        <5> QED BY <5>1, <5>2
      <4>2. CASE OnChanges /\ ~LookAtState
        <5>1. ~Walked /\ ~Fails
          BY DEF Walked, Fails
        <5> QED BY <4>2, <5>1 DEF OnChanges, Deliver, CaptureLate, ApplyBatch, HoldBatch,
           LeaveToNewer, Reconcile, FinishRebuild, FinishCompact, Applying, CaptureIfBusy
      <4>3. ASSUME NEW t \in Pool, Reindex(t) \/ FinishReindex(t) \/ Startup(t)
            PROVE  p \in unreported /\ p \notin dropped
        <5>1. ~Walked /\ ~Fails
          BY DEF Walked, Fails
        <5> QED BY <4>3, <5>1 DEF Reindex, FinishReindex, Startup, BackgroundBuild,
           BackgroundBuildRefused, FinishBuild, MaybeReconcile, BeginReconcile,
           FinishReconcile, FinishPrune, EndRebuilding
      <4>4. ASSUME NEW t \in Threads, Drain(t)
            PROVE  p \in unreported /\ p \notin dropped
        <5>1. ~Walked /\ ~Fails
          BY DEF Walked, Fails
        <5> QED BY <4>4, <5>1 DEF Drain, RetryFires, StartDrain, NothingWaits, DrainApplies,
           DrainHolds, DrainWaits, DrainLeavesToNewer, DrainReconciles, FinishDrainBuild,
           EndDrainBuild, Round
      <4> QED BY <1>2, <4>1, <4>2, <4>3, <4>4, <4>5, <4>6 DEF Next, Query
    <3>3. Awaited
      BY <1>b, <2>a, <2>2, <3>2 DEF MissedIsAwaited
    <3>4. ~(\E t \in Pool : BeginReconcile(t))
      BY <3>1 DEF BeginReconcile
    <3> QED BY <1>b, <3>3, <3>4, AwaitedStays DEF Owning
  <2>3. CASE ~(\E q \in Paths : Edit(q)) /\ missed' # missed
    BY <2>3, EveryStep DEF Stays, Moves
  <2> QED BY <2>1, <2>2, <2>3
<1> QED BY <1>1, <1>2

\* Only a step that brings a reconcile along, a commit or a takeover makes an index
\* served, or adds to what is unreported of one that is.
LEMMA UnreportedWas ==
  ASSUME TypeOK, Locks, Watched, HandedOver, BatchesStay, Next, Owning', auto, Loading',
         ~(\E q \in Queries : MaybePromoteToOwner(q)), ~Commits, ~(\E q \in Paths : Edit(q)),
         NEW p \in unreported' \ dropped'
  PROVE  Awaited' \/ (Loading /\ p \in unreported)
<1>a. /\ op \in [Threads -> OpType] /\ Watcher \in Threads /\ Pool \subseteq Threads
  BY QueueNow
<1>b. /\ disk \in {"ok", "gone", "newer"}
      /\ tasks \subseteq {"build", "reconcile", "drain"}
  BY DEF TypeOK
<1>c. "newer" \in Refresh => "newer" \in Loads
  BY DEF Refresh
<1> USE DEF treeVars, diskVars, indexVars, watchVars, wakeVars, bounds
<1>1. CASE OwnerExits \/ Reconcile \/ Deliver \/ CaptureLate \/ HoldBatch
  BY <1>1 DEF OwnerExits, Reconcile, Deliver, CaptureLate, HoldBatch, Loading
<1>18. CASE LookAtState
  <2>1. UNCHANGED <<state, disk, tasks, stale, dropped>> /\ op[Watcher].at = "look"
    BY <1>18 DEF LookAtState, Batch
  <2>2. CASE p \in unreported
    BY <2>1, <2>2 DEF Loading
  <2>3. CASE p \notin unreported
    <3>1. /\ state # "Ready" /\ ~overflow /\ p \notin events /\ p \in stale
          /\ p \in op[Watcher].paths \/ op[Watcher].full
      BY <1>18, <2>3 DEF LookAtState, Batch
    <3>2. p \in Open /\ "build" \in tasks /\ disk = "ok"
      BY <2>1, <3>1 DEF Open, Loading
    <3> QED BY <2>1, <3>1, <3>2 DEF BatchesStay, Lookable
  <2> QED BY <2>2, <2>3
<1>2. CASE ExternalWrite
  BY <1>2 DEF ExternalWrite, Loading
<1>3. CASE EnsureStarted
  <2>1. UNCHANGED <<unreported, disk>>
    BY <1>3 DEF EnsureStarted
  <2>2. CASE Loaded
    BY <2>2 DEF Loaded, Awaited
  <2>3. CASE UNCHANGED <<state, tasks>>
    BY <2>1, <2>3 DEF Loading
  <2>4. CASE ~Loaded /\ ~UNCHANGED <<state, tasks>>
    <3>1. state' # "Ready" /\ "missing" \in Loads
      BY <1>3, <2>4, EnsureStartedFinds
    <3> QED BY <2>1, <3>1, LoadsSay DEF Loading
  <2> QED BY <2>2, <2>3, <2>4
<1>4. CASE MaybeReloadExternal
  BY <1>4 DEF MaybeReloadExternal, EnterNewerFormat, Loading, Loads
<1>5. CASE GiveUp
  <2>1. UNCHANGED <<state, disk, tasks, unreported>>
    BY <1>5, StopReleases DEF GiveUp
  <2> QED BY <2>1 DEF Loading
<1>6. CASE ApplyBatch
  BY <1>6 DEF ApplyBatch, Apply, Loading
<1>7. CASE LeaveToNewer
  BY <1>7, <1>c, LoadsSay DEF LeaveToNewer, EnterNewerFormat, Loading
<1>8. CASE FinishRebuild \/ FinishCompact
  <2>1. state = "Ready"
    BY <1>8, <1>a DEF FinishRebuild, FinishCompact, Locks, Batch
  <2>2. FinishRebuild => ~Walked
    BY DEF Commits
  <2> QED BY <1>8, <2>1, <2>2 DEF FinishRebuild, FinishCompact, Fails, Loading
<1>9. ASSUME NEW t \in Pool, Reindex(t) \/ MaybeReconcile(t) \/ BeginReconcile(t)
             \/ EndRebuilding(t)
      PROVE  Loading /\ p \in unreported
  BY <1>9 DEF Reindex, MaybeReconcile, BeginReconcile, EndRebuilding, Loading, Take
<1>10. ASSUME NEW t \in Pool, FinishReindex(t) \/ FinishBuild(t) \/ FinishReconcile(t)
       PROVE  Loading /\ p \in unreported
  <2>1. ~Walked
    BY <1>10 DEF Commits
  <2> QED BY <1>10, <2>1 DEF FinishReindex, FinishBuild, FinishReconcile, Fails, Loading
<1>11. ASSUME NEW t \in Pool, FinishPrune(t)
       PROVE  FALSE
  BY <1>11, <1>a DEF FinishPrune, Locks
<1>12. ASSUME NEW t \in Pool, BackgroundBuild(t)
       PROVE  Loading /\ p \in unreported
  <2>1. PICK why \in Loads :
           \/ why = "none" /\ UNCHANGED unreported
           \/ why = "transient" /\ state' = "NotStarted" /\ UNCHANGED unreported
           \/ why = "missing" /\ UNCHANGED <<unreported, state>>
    BY <1>12 DEF BackgroundBuild
  <2>2. /\ UNCHANGED disk /\ "build" \in tasks /\ tasks' = tasks \ {"build"}
    BY <1>12 DEF BackgroundBuild, Take
  <2> QED BY <2>1, <2>2, LoadsSay DEF Loading
<1>13. ASSUME NEW t \in Pool, BackgroundBuildRefused(t)
       PROVE  FALSE
  BY <1>13, LoadsSay DEF BackgroundBuildRefused, Loading
<1>14. ASSUME NEW t \in Threads, RetryFires(t) \/ StartDrain(t) \/ NothingWaits(t)
              \/ DrainHolds(t) \/ DrainWaits(t) \/ DrainReconciles(t) \/ EndDrainBuild(t)
       PROVE  Loading /\ p \in unreported
  BY <1>14 DEF RetryFires, StartDrain, NothingWaits, DrainHolds, DrainWaits,
     DrainReconciles, EndDrainBuild, Loading, Take
<1>15. ASSUME NEW t \in Threads, DrainApplies(t)
       PROVE  Loading /\ p \in unreported
  BY <1>15 DEF DrainApplies, Apply, Loading
<1>16. ASSUME NEW t \in Threads, DrainLeavesToNewer(t)
       PROVE  FALSE
  BY <1>16, <1>c, LoadsSay DEF DrainLeavesToNewer, EnterNewerFormat, Loading
<1>17. ASSUME NEW t \in Threads, FinishDrainBuild(t)
       PROVE  Loading /\ p \in unreported
  <2>1. ~Walked
    BY <1>17 DEF Commits
  <2> QED BY <1>17, <2>1 DEF FinishDrainBuild, Fails, Loading
<1> QED BY <1>1, <1>2, <1>3, <1>4, <1>5, <1>6, <1>7, <1>8, <1>9, <1>10, <1>11, <1>12,
       <1>13, <1>14, <1>15, <1>16, <1>17, <1>18 DEF Next, Query, OnChanges, Startup, Drain

\* Every unreported change of an index that is served stays awaited or caught.
LEMMA UnreportedIsAwaitedNext ==
  ASSUME TypeOK, Locks, Watched, HandedOver, BatchesStay, MissedIsAwaited,
         UnreportedIsAwaited, Next
  PROVE  UnreportedIsAwaited'
<1> SUFFICES ASSUME Owning', auto', Loading', NEW p \in unreported' \ dropped', ~TakingOver'
             PROVE  Awaited' \/ Reconciled(p)' \/ Caught(p)'
  BY DEF UnreportedIsAwaited
<1>a. /\ p \in Open' /\ p \in stale' /\ (state' = "Ready" \/ disk' = "ok")
      /\ unreported \subseteq stale
  BY TypeNext DEF TypeOK, Open, Loading
<1>b. auto' = auto
  BY EveryStep DEF Stays, Moves
<1>c. \/ missed' = missed \/ missed' = {}
      \/ \E q \in Paths : Edit(q)
  BY EveryStep DEF Stays, Moves
<1>1. CASE \E q \in Queries : MaybePromoteToOwner(q)
  <2>1. PICK q \in Queries : MaybePromoteToOwner(q)
    BY <1>1
  <2>2. CASE ~Awaited'
    <3>1. /\ UNCHANGED <<unreported, state, disk, events, overflow, queue, missed, timer,
                         eventsLost, built, op>> /\ ~TakingOver
          /\ UNCHANGED <<role, giveUps, crossed, dropped, tasks>>
      BY <2>1, <2>2, TakeoverAwaits
    <3>2. Owning /\ Loading
      BY <3>1 DEF Owning, Releasing, Loading
    <3>3. Awaited \/ Reconciled(p) \/ Caught(p)
      BY <1>b, <3>1, <3>2 DEF UnreportedIsAwaited
    <3>4. Caught(p) => Caught(p)'
      BY <3>1, QueueNow, CaughtStays DEF Lost
    <3> QED BY <3>1, <3>3, <3>4 DEF Awaited, Reconciled
  <2> QED BY <2>2
<1>2. CASE ~\E q \in Queries : MaybePromoteToOwner(q)
  <2>a. Owning /\ ~TakingOver
    BY <1>2, OwningWas, TakingStays
  <2>b. watching => watching'
    BY <1>2, RoleStays, StopReleases
  <2>1. CASE \E q \in Paths : Edit(q)
    <3>1. PICK q \in Paths : Edit(q)
      BY <2>1
    <3>2. /\ Loading /\ p \in unreported \ dropped /\ p # q
          /\ missed' \subseteq missed \cup {q} /\ op' = op /\ tasks' = tasks
      <4>1. /\ unreported' = unreported \ {q} /\ dropped' = dropped \ {q}
            /\ UNCHANGED <<state, disk, tasks, op>> /\ missed' \subseteq missed \cup {q}
        BY <2>a, <3>1, EditSeen
      <4> QED BY <4>1 DEF Loading
    <3>3. Awaited \/ Reconciled(p) \/ Caught(p)
      BY <1>b, <2>a, <3>2 DEF UnreportedIsAwaited
    <3>4. Awaited => Awaited'
      BY <3>2 DEF Awaited
    <3>5. Reconciled(p) => Reconciled(p)'
      BY <3>2 DEF Reconciled
    <3>6. Caught(p) => Caught(p)'
      BY <1>a, <3>1, <3>2, EditPasses
    <3> QED BY <3>3, <3>4, <3>5, <3>6
  <2>2. CASE Commits
    <3>1. p \in (unreported \cap missed) \ dropped
      BY <2>2, CommitLeaves
    <3>2. Awaited
      BY <1>b, <2>a, <3>1 DEF MissedIsAwaited
    <3> QED BY <2>2, <3>2, CommitLeaves DEF Awaited
  <2>3. CASE ~(\E q \in Paths : Edit(q)) /\ ~Commits
    <3>a. LookAtState => UNCHANGED <<stale, dropped, state, disk, tasks>>
                         /\ op[Watcher].at = "look"
      BY DEF LookAtState, Batch, diskVars, indexVars, wakeVars
    <3>b. LookAtState => Lookable(p)
      BY <1>a, <3>a DEF BatchesStay, Lookable, Loading, Open
    <3>1. CASE p \notin Open
      BY <1>2, <1>a, <2>b, <2>3, <3>b, <3>1, StepPasses
    <3>2. CASE p \in Open /\ ~Awaited'
      <4>1. Loading /\ p \in unreported \ dropped
        BY <1>2, <1>b, <2>3, <3>2, UnreportedWas DEF Open
      <4>2. CASE Awaited
        <5>1. PICK t \in Pool : BeginReconcile(t)
          BY <1>b, <3>2, <4>2, AwaitedStays DEF Owning
        <5>2. op'[t].at = "reconcile" /\ missed = {} /\ missed' = missed /\ t \in Threads
          BY <5>1, QueueNow, BecomeFields, StepFields
             DEF BeginReconcile, GateFree, Locks, Holding
        <5> QED BY <5>2 DEF Reconciled
      <4>3. CASE Reconciled(p)
        <5>1. PICK u \in Threads : op[u].at = "reconcile" /\ p \notin missed
          BY <4>3 DEF Reconciled
        <5>2. CASE op'[u] = op[u]
          BY <1>c, <2>3, <5>1, <5>2 DEF Reconciled
        <5>3. ASSUME NEW t \in Pool, FinishReconcile(t) PROVE FALSE
          <6>1. ~Walked
            BY <2>3, <5>3 DEF Commits
          <6> QED BY <4>1, <5>3, <6>1 DEF FinishReconcile
        <5> QED BY <5>1, <5>2, <5>3, ReconciledStays
      <4>4. CASE Caught(p)
        BY <1>2, <1>a, <2>b, <2>3, <3>b, <4>4, StepPasses
      <4> QED BY <1>b, <2>a, <4>1, <4>2, <4>3, <4>4 DEF UnreportedIsAwaited
    <3> QED BY <3>1, <3>2
  <2> QED BY <2>1, <2>2, <2>3
<1> QED BY <1>1, <1>2

-----------------------------------------------------------------------------
(* Who empties the queue *)

\* What waits in the queue of a session that serves an index will be looked at again
\* without a further edit or query.
QueueIsAttended ==
  state = "Ready" /\ role = "ours" /\ (queue.pending # {} \/ queue.rec) => Attended

\* A thread at work attends to the queue.
LEMMA WorkAttends ==
  ASSUME NEW t \in Threads, op[t].at \notin {"idle", "look", "batch"}
  PROVE  Attended
BY DEF Attended

\* While the session is busy with an index it serves, some thread is at work.
LEMMA BusyWorks ==
  ASSUME TypeOK, Locks, Busy, state = "Ready"
  PROVE  \E t \in Threads : op[t].at \in CountedSteps
<1>1. rebuilding > 0 /\ rebuilding = Cardinality(Counted)
  BY DEF Busy, Locks
<1>2. Counted # {}
  BY <1>1, FS_EmptySet
<1> QED BY <1>2 DEF Counted

\* The queue stays attended in a step that only idle threads or the batch take.
LEMMA AttendedStays ==
  ASSUME Attended, timer => timer', spent => spent', TakingOver => TakingOver',
         \A task \in {"drain", "reconcile"} : task \in tasks => task \in tasks',
         \A u \in Threads : op'[u] = op[u] \/ op[u].at \in {"idle", "look", "batch"}
  PROVE  Attended'
BY DEF Attended

\* A step of a takeover goes on with it, wants a reconcile, or is before the role is taken
\* or after the catching up.
LEMMA TakeoverTakes ==
  ASSUME TypeOK, NEW q \in Queries, MaybePromoteToOwner(q), state = "Ready"
  PROVE  \/ TakingOver' \/ "reconcile" \in tasks'
         \/ UNCHANGED <<role, tasks>> /\ ~TakingOver
<1>a. takeover \in [Queries -> TakeoverSteps]
  BY DEF TypeOK
<1>1. CASE CatchUp(q)
  BY <1>1 DEF CatchUp
<1>2. CASE StartWatcher(q) \/ (TakeRole(q) /\ role = "free")
  BY <1>a, <1>2 DEF StartWatcher, TakeRole, Proceed, TakingOver
<1>3. CASE LookAtRole(q) \/ (TakeRole(q) /\ role # "free")
  <2>1. UNCHANGED <<role, tasks>>
    BY <1>3 DEF LookAtRole, TakeRole
  <2>2. TakingOver => TakingOver'
    BY <1>a, <1>3 DEF LookAtRole, TakeRole, Proceed, TakingOver
  <2> QED BY <2>1, <2>2
<1> QED BY <1>1, <1>2, <1>3 DEF MaybePromoteToOwner

\* A step that leaves the takeovers alone leaves those that are under way.
LEMMA HandoverKeeps == ASSUME UNCHANGED handover PROVE TakingOver => TakingOver'
BY DEF handover, TakingOver

\* The queue of an index that is served stays attended.
LEMMA QueueIsAttendedNext ==
  ASSUME TypeOK, Locks, QueueIsAttended, Next
  PROVE  QueueIsAttended'
<1> SUFFICES ASSUME state' = "Ready", role' = "ours", queue'.pending # {} \/ queue'.rec
             PROVE  Attended'
  BY DEF QueueIsAttended
<1>a. /\ op \in [Threads -> OpType] /\ Watcher \in Threads /\ Pool \subseteq Threads
      /\ queue \in QueueType
  BY QueueNow
<1>b. ASSUME NEW t \in Threads, op'[t].at \notin {"idle", "look", "batch"} PROVE Attended'
  BY <1>b DEF Attended
<1> USE DEF treeVars, diskVars, indexVars, watchVars, wakeVars, bounds
<1>1. CASE OwnerExits \/ ExternalWrite \/ GiveUp \/ (\E q \in Paths : Edit(q))
  <2>1. /\ UNCHANGED <<state, queue, timer, spent, op>> /\ role = "ours"
        /\ \A task \in {"drain", "reconcile"} : task \in tasks => task \in tasks'
    BY <1>1 DEF OwnerExits, ExternalWrite, GiveUp, GiveUpWatcher, GiveUpRole, Edit
  <2>2. Attended
    BY <2>1 DEF QueueIsAttended
  <2>3. TakingOver => TakingOver'
    <3>1. CASE GiveUp
      BY <3>1, GiveUpStops DEF TakingOver
    <3>2. CASE OwnerExits \/ ExternalWrite \/ (\E q \in Paths : Edit(q))
      BY <3>2, HandoverKeeps DEF OwnerExits, ExternalWrite, Edit
    <3> QED BY <1>1, <3>1, <3>2
  <2> QED BY <2>1, <2>2, <2>3, AttendedStays
<1>2. CASE EnsureStarted
  <2>1. state # "Ready"
    BY <1>2 DEF EnsureStarted
  <2>2. Loaded
    BY <1>2, <2>1, EnsureStartedFinds
  <2> QED BY <2>2 DEF Loaded, Attended
<1>3. CASE \E q \in Queries : MaybePromoteToOwner(q)
  <2>1. PICK q \in Queries : MaybePromoteToOwner(q)
    BY <1>3
  <2>2. UNCHANGED <<state, queue, timer, spent, op>>
    BY <2>1 DEF MaybePromoteToOwner
  <2>3. \/ TakingOver' \/ "reconcile" \in tasks'
        \/ UNCHANGED <<role, tasks>> /\ ~TakingOver
    BY <2>1, <2>2, TakeoverTakes
  <2>4. CASE UNCHANGED <<role, tasks>> /\ ~TakingOver
    <3>1. Attended
      BY <2>2, <2>4 DEF QueueIsAttended
    <3> QED BY <2>2, <2>4, <3>1, AttendedStays
  <2> QED BY <2>3, <2>4 DEF Attended
<1>4. CASE MaybeReloadExternal
  <2>1. /\ UNCHANGED <<state, queue, timer, spent, op, role>>
        /\ \A task \in {"drain", "reconcile"} : task \in tasks => task \in tasks'
    BY <1>4 DEF MaybeReloadExternal, EnterNewerFormat, Swap
  <2>2. Attended
    BY <2>1 DEF QueueIsAttended
  <2>3. TakingOver => TakingOver'
    BY <1>4, HandoverKeeps DEF MaybeReloadExternal, EnterNewerFormat, handover
  <2> QED BY <2>1, <2>2, <2>3, AttendedStays
<1>5. CASE Deliver \/ LookAtState \/ CaptureLate
  <2>t. TakingOver => TakingOver'
    BY <1>5, HandoverKeeps DEF Deliver, LookAtState, CaptureLate
  <2>1. /\ UNCHANGED <<state, rebuilding, timer, spent, tasks, role>>
        /\ \A u \in Threads : \/ op'[u] = op[u]
                              \/ u = Watcher /\ op[u].at \in {"idle", "look", "batch"}
    <3>1. UNCHANGED <<state, rebuilding, timer, spent, tasks, role>>
      BY <1>5 DEF Deliver, LookAtState, CaptureLate
    <3>2. op[Watcher].at \in {"idle", "look", "batch"}
      BY <1>5, StepFields DEF Deliver, LookAtState, CaptureLate, Batch
    <3>3. \A u \in Threads : u # Watcher => op'[u] = op[u]
      BY <1>5, <1>a, BecomeFields DEF Deliver, LookAtState, CaptureLate
    <3> QED BY <3>1, <3>2, <3>3
  <2>2. CASE Busy
    <3>1. PICK t \in Threads : op[t].at \in CountedSteps
      BY <2>1, <2>2, BusyWorks
    <3>2. op'[t].at \notin {"idle", "look", "batch"}
      BY <2>1, <3>1 DEF CountedSteps
    <3> QED BY <1>b, <3>2
  <2>3. CASE ~Busy
    <3>1. UNCHANGED queue
      BY <1>5, <2>3 DEF Deliver, LookAtState, CaptureLate
    <3>2. Attended
      BY <2>1, <3>1 DEF QueueIsAttended
    <3> QED BY <2>1, <2>t, <3>2, AttendedStays
  <2> QED BY <2>2, <2>3
<1>6. CASE ApplyBatch
  <2>1. Taken(queue).pending = {} /\ (Taken(queue).rec => queue.rec)
        /\ Taken(queue) \in QueueType
        /\ queue.pending \cup op[Watcher].paths \in SUBSET Paths
    BY <1>a, QueueFields, QueueOperators, QueueNow
  <2>2. queue'.pending = {} /\ (queue'.rec => queue.rec)
    <3>1. Apply(Taken(queue), queue.pending \cup op[Watcher].paths, {})
      BY <1>6 DEF ApplyBatch, Batch
    <3> QED BY <2>1, <3>1, ApplyFields
  <2>3. /\ UNCHANGED <<state, spent, tasks, role>> /\ (timer => timer')
        /\ op[Watcher].at = "batch"
        /\ \A u \in Threads : u # Watcher => op'[u] = op[u]
    <3>1. UNCHANGED <<state, spent, tasks, role>> /\ op[Watcher].at = "batch"
      BY <1>6 DEF ApplyBatch, Applying, Batch
    <3>2. timer => timer'
      BY <1>6 DEF ApplyBatch, Apply
    <3>3. \A u \in Threads : u # Watcher => op'[u] = op[u]
      BY <1>6, <1>a, BecomeFields DEF ApplyBatch
    <3> QED BY <3>1, <3>2, <3>3
  <2>4. Attended
    BY <2>2, <2>3 DEF QueueIsAttended
  <2>5. TakingOver => TakingOver'
    BY <1>6, HandoverKeeps DEF ApplyBatch
  <2> QED BY <2>3, <2>4, <2>5, AttendedStays
<1>7. CASE HoldBatch
  BY <1>7 DEF HoldBatch, ScheduleRetry, Attended
<1>8. CASE LeaveToNewer
  BY <1>8 DEF LeaveToNewer, EnterNewerFormat
<1>9. CASE Reconcile
  <2>1. /\ UNCHANGED <<state, queue, timer, spent, tasks, role>> /\ op[Watcher].at = "batch"
        /\ \A u \in Threads : u # Watcher => op'[u] = op[u]
    BY <1>9, <1>a, BecomeFields DEF Reconcile, Batch
  <2>2. Attended
    BY <2>1 DEF QueueIsAttended
  <2>3. TakingOver => TakingOver'
    BY <1>9, HandoverKeeps DEF Reconcile
  <2> QED BY <2>1, <2>2, <2>3, AttendedStays
<1>10. CASE FinishRebuild \/ FinishCompact
  <2>1. op'[Watcher].at = "drain"
    BY <1>10, <1>a, BecomeFields, StepFields DEF FinishRebuild, FinishCompact
  <2> QED BY <1>a, <1>b, <2>1
<1>11. ASSUME NEW t \in Pool, Reindex(t) \/ FinishReindex(t) \/ BeginReconcile(t)
              \/ FinishReconcile(t) \/ FinishPrune(t) \/ EndRebuilding(t)
       PROVE  Attended'
  <2>1. op'[t].at \in {"reindex", "drain", "reconcile", "ends"}
    BY <1>11, <1>a, BecomeFields, StepFields DEF Reindex, FinishReindex, BeginReconcile,
       FinishReconcile, FinishPrune, EndRebuilding
  <2> QED BY <1>a, <1>b, <2>1
<1>12. ASSUME NEW t \in Pool, BackgroundBuild(t) PROVE Attended'
  <2>1. \/ Become(t, Draining(1)) \/ Become(t, At("build")) \/ state' = "NotStarted"
    BY <1>12 DEF BackgroundBuild
  <2>2. op'[t].at \in {"drain", "build"}
    BY <1>a, <2>1, BecomeFields, StepFields
  <2> QED BY <1>a, <1>b, <2>2
<1>13. ASSUME NEW t \in Pool, BackgroundBuildRefused(t) PROVE Attended'
  BY <1>13 DEF BackgroundBuildRefused
<1>14. ASSUME NEW t \in Pool, FinishBuild(t) PROVE Attended'
  <2>1. Become(t, Draining(1))
    BY <1>14 DEF FinishBuild
  <2> QED BY <1>a, <1>b, <2>1, BecomeFields, StepFields
<1>15. ASSUME NEW t \in Pool, MaybeReconcile(t) PROVE Attended'
  <2>1. \/ Become(t, At("reconcileWaits")) \/ Become(t, At("prune"))
        \/ Become(t, Draining(1))
    BY <1>15 DEF MaybeReconcile
  <2>2. op'[t].at \in {"reconcileWaits", "prune", "drain"}
    BY <1>a, <2>1, BecomeFields, StepFields
  <2> QED BY <1>a, <1>b, <2>2
<1>16. ASSUME NEW t \in Threads, RetryFires(t) \/ StartDrain(t) PROVE Attended'
  <2>1. Become(t, Draining(1))
    BY <1>16 DEF RetryFires, StartDrain
  <2> QED BY <1>b, <1>a, <2>1, BecomeFields, StepFields
<1>17. ASSUME NEW t \in Threads, NothingWaits(t) PROVE Attended'
  <2>1. queue' = [queue EXCEPT !.due = FALSE] /\ queue.pending = {} /\ ~queue.rec
    BY <1>17 DEF NothingWaits, Work
  <2> QED BY <1>a, <2>1 DEF QueueType
<1>18. ASSUME NEW t \in Threads, NextRound(t) PROVE Attended'
  <2>1. op'[t].at = "drain" \/ spent'
    BY <1>18, <1>a, NextRoundFields
  <2> QED BY <1>b, <2>1 DEF Attended
<1>19. ASSUME NEW t \in Threads, DrainApplies(t) \/ DrainHolds(t) \/ EndDrainBuild(t)
       PROVE  Attended'
  <2>1. NextRound(t) \/ timer' \/ spent'
    BY <1>19 DEF DrainApplies, DrainHolds, EndDrainBuild, ScheduleRetry
  <2> QED BY <1>18, <2>1 DEF Attended
<1>20. ASSUME NEW t \in Threads, DrainLeavesToNewer(t) \/ DrainWaits(t) PROVE Attended'
  BY <1>20 DEF DrainLeavesToNewer, EnterNewerFormat, DrainWaits
<1>21. ASSUME NEW t \in Threads, DrainReconciles(t) \/ FinishDrainBuild(t) PROVE Attended'
  <2>1. \E step \in {"drainBuild", "drainEnds", "drainFails"} :
          Become(t, [op[t] EXCEPT !.at = step])
    BY <1>21 DEF DrainReconciles, FinishDrainBuild
  <2>2. op'[t].at \in {"drainBuild", "drainEnds", "drainFails"}
    BY <1>a, <2>1 DEF Become, OpType
  <2> QED BY <1>b, <2>2
<1> QED BY <1>1, <1>2, <1>3, <1>4, <1>5, <1>6, <1>7, <1>8, <1>9, <1>10, <1>11, <1>12,
       <1>13, <1>14, <1>15, <1>16, <1>17, <1>19, <1>20, <1>21
       DEF Next, Query, OnChanges, Startup, Drain

-----------------------------------------------------------------------------
(* EditsAreKept *)

\* The inductive invariant.
KeptInv ==
  /\ TypeOK /\ Locks /\ Watched /\ HandedOver
  /\ MissedIsFresh /\ ReportedIsCaught /\ BatchesStay
  /\ MissedIsAwaited /\ UnreportedIsAwaited
  /\ QueueIsAttended

\* At the start no thread works, nothing waits and what the index lacks is unreported.
LEMMA KeptInit == Init => KeptInv
<1> SUFFICES ASSUME Init PROVE KeptInv
  OBVIOUS
<1>1. TypeOK
  BY TypeInit
<1>2. \A t \in Threads : op[t].at = "idle"
  BY StepFields DEF Init
<1>3. Locks
  <2>1. Counted = {}
    BY <1>2 DEF Counted, CountedSteps
  <2>2. rebuilding = Cardinality(Counted)
    BY <2>1, FS_EmptySet DEF Init
  <2> QED BY <1>2, <2>2 DEF Init, Locks, Holding, Walks, EmptyQueue
<1>4. Watched /\ HandedOver
  <2>1. op[Watcher].at # "look"
    BY <1>1, <1>2, QueueNow
  <2> QED BY <2>1 DEF Init, Watched, HandedOver
<1>5. MissedIsFresh /\ ReportedIsCaught /\ BatchesStay
  BY DEF Init, MissedIsFresh, ReportedIsCaught, BatchesStay, Reported, Open
<1>6. MissedIsAwaited /\ UnreportedIsAwaited
  BY DEF Init, MissedIsAwaited, UnreportedIsAwaited, Loading
<1>7. QueueIsAttended
  BY DEF Init, QueueIsAttended
<1> QED BY <1>1, <1>3, <1>4, <1>5, <1>6, <1>7 DEF KeptInv

\* A stutter keeps it.
LEMMA KeptStutter == KeptInv /\ UNCHANGED vars => KeptInv'
BY DEF KeptInv, vars, treeVars, diskVars, indexVars, watchVars, wakeVars, bounds,
   TypeOK, Locks, Watched, MissedIsFresh, ReportedIsCaught, MissedIsAwaited,
   UnreportedIsAwaited, QueueIsAttended, Counted, Reported, Open, Fresh, Lost, Rewalked,
   Caught, WholeQ, Loading, Awaited, Reconciled, Attended, handover, HandedOver, BatchesStay,
   Lookable, Owning, TakingOver, Releasing

\* A change that is caught is in somebody's hands, or the answers say so.
LEMMA CaughtIsInHand ==
  ASSUME KeptInv, Serving, NEW p, Caught(p)
  PROVE  InHand(p) \/ eventsLost
<1>1. CASE Fresh(p)
  BY <1>1 DEF Fresh, InHand, KeptInv, QueueIsAttended, Serving, Batch, WholeQ
<1>2. CASE Lost
  BY <1>2 DEF Lost
<1>3. CASE Rewalked(p)
  BY <1>3 DEF Rewalked, InHand, Walks
<1>4. CASE p \in queue.unsure /\ (timer \/ queue.due)
  <2>1. Attended
    BY <1>4 DEF KeptInv, Locks, Attended
  <2> QED BY <1>4, <2>1 DEF InHand
<1> QED BY <1>1, <1>2, <1>3, <1>4 DEF Caught

\* EditsAreKept: every change the index lacks and that was not let go of is in the hands
\* of something that will apply it, or the answers say that events were lost.
THEOREM EditsKept == Spec => []EditsAreKept
<1>1. KeptInv /\ [Next]_vars => KeptInv'
  <2> SUFFICES ASSUME KeptInv, Next PROVE KeptInv'
    BY KeptStutter
  <2> USE DEF KeptInv
  <2>1. TypeOK' /\ Locks' /\ Watched' /\ HandedOver'
    BY TypeNext, LocksNext, WatchedNext, HandedOverNext
  <2>2. MissedIsFresh' /\ ReportedIsCaught' /\ BatchesStay'
    BY MissedIsFreshNext, ReportedIsCaughtNext, BatchesStayNext
  <2>3. MissedIsAwaited' /\ UnreportedIsAwaited'
    BY MissedIsAwaitedNext, UnreportedIsAwaitedNext
  <2>4. QueueIsAttended'
    BY QueueIsAttendedNext
  <2> QED BY <2>1, <2>2, <2>3, <2>4
<1>2. KeptInv => EditsAreKept
  <2> SUFFICES ASSUME KeptInv, Serving PROVE EditsAreKept
    BY DEF EditsAreKept
  <2>1. ASSUME NEW p \in stale \ dropped, p \in unreported => auto
        PROVE  InHand(p) \/ eventsLost
    <3>1. CASE p \notin unreported
      <4>1. Caught(p)
        BY <2>1, <3>1 DEF KeptInv, ReportedIsCaught, Reported, Open, Serving
      <4> QED BY <4>1, CaughtIsInHand
    <3>2. CASE p \in unreported
      <4>1. TakingOver \/ Awaited \/ Reconciled(p) \/ Caught(p)
        BY <2>1, <3>2 DEF KeptInv, UnreportedIsAwaited, Serving, Owning, Loading
      <4> QED BY <3>2, <4>1, CaughtIsInHand DEF Awaited, Reconciled, InHand, Walks
    <3> QED BY <3>1, <3>2
  <2>2. queue.held /\ (queue.pending # {} \/ queue.rec) => Attended
    BY DEF KeptInv, QueueIsAttended, Serving
  <2> QED BY <2>1, <2>2 DEF EditsAreKept
<1> QED BY KeptInit, <1>1, <1>2, PTL DEF Spec
=============================================================================

--------------------------- MODULE IndexBuildProofs ---------------------------
(***************************************************************************)
(* Proofs about IndexBuild and the walk it runs.  The first part is about  *)
(* the walk alone (DirectoryWalk, here W), for any tree, number of         *)
(* threads, size of the buffer and number of faults: its types, and that a *)
(* walk that ended and counted nothing as dropped is complete.  The build  *)
(* moves the walk only by steps of the walk, so that holds in a build too, *)
(* with the loop, the merge, cancellations and failures.                   *)
(*                                                                         *)
(* The second part is about the build, for any number of threads, files,   *)
(* bytes and faults: its types, that the budget is kept, that every file   *)
(* is accounted for, and that a build that stops leaves the old index or   *)
(* the new one.  All four follow from one invariant, BuildInv: a document  *)
(* is untouched, in one worker's buffer or in one new segment; a segment   *)
(* takes a document or a fault, so numbers do not run out; and a manifest  *)
(* names what was there until everything new is written.                   *)
(*                                                                         *)
(* The third part is about what moves the build on.  No release leaves a   *)
(* sleeper behind that it could serve, so in a build that goes on some     *)
(* step can be taken (NeverStuck).  And each step, a fault too, makes what *)
(* is left less: the steps are compared with a list of what there is left  *)
(* to do (Left), whose lexicographic order is well-founded.                *)
(***************************************************************************)
EXTENDS IndexBuild, FiniteSetTheorems, WellFoundedInduction, TLAPS

\* The threads that hold a folder, and those about to queue a subfolder they counted.
Holders == {v \in Walkers : walker[v].at \in {"reading", "listed", "counted", "leaving"}}
Counters == {v \in Walkers : walker[v].at = "counted"}

\* The counter is the number of the folders queued or held by a thread, and of the
\* subfolders about to be queued; once the queue is closed, there are none.
CounterInv ==
  /\ pending = Cardinality(queue) + Cardinality(Holders) + Cardinality(Counters)
  /\ closed => pending = 0

\* No folder is met twice: what a thread is still to read or to queue is new.
Unmet == Dirs \ (walked \cup queue)
TreeInv ==
  /\ \A d \in walked \cup queue : d = Root \/ \E e \in walked : d \in Sub[e]
  /\ queue \cap walked = {}
  /\ \A v \in Holders : walker[v].dir \in walked
  /\ \A v, w \in Holders : v # w => walker[v].dir # walker[w].dir
  /\ \A v \in Holders : walker[v].at = "reading" => Sub[walker[v].dir] \subseteq Unmet
  /\ \A v \in Holders : walker[v].at \in {"listed", "counted"} =>
       walker[v].subs \subseteq Sub[walker[v].dir] \cap Unmet

\* How the walk ends.  A thread stops quietly only if the caller has left, or ends
\* when there is nothing more to take.
EndInv ==
  /\ caller = "reading" => ~cancelled
  /\ caller = "ended" => finished /\ output = {}
  /\ finished => W!AllExited
  /\ finished /\ dropped = 0 => \A v \in Walkers : walker[v].at # "faulted"
  /\ \A v \in Walkers : walker[v].exit # "next" => walker[v].at = "leaving"
  /\ \A v \in Walkers : walker[v].exit = "stop" => caller = "left"
  /\ caller # "left" /\ (\E v \in Walkers : walker[v].at = "exited") =>
       closed /\ queue = {}

\* Nothing of a folder is lost while no thread died and the caller has not left:
\* it has arrived, or the thread that holds the folder is still to bring it.
NoFault == \A v \in Walkers : walker[v].at # "faulted" /\ walker[v].exit # "fault"
Brings(v, d, s) ==
  /\ walker[v].dir = d
  /\ walker[v].at = "reading" \/ (walker[v].at \in {"listed", "counted"} /\ s \in walker[v].subs)
Hands(v, d, f) ==
  /\ walker[v].dir = d
  /\ walker[v].at = "reading" \/ (walker[v].at \in {"listed", "counted"} /\ f \in walker[v].files)
FolderIsKept(d) ==
  /\ \A s \in Sub[d] : s \in walked \cup queue \/ \E v \in Walkers : Brings(v, d, s)
  /\ \A f \in In[d] : f \in found \cup output \/ \E v \in Walkers : Hands(v, d, f)
DeliveryInv ==
  caller # "left" /\ dropped = 0 /\ NoFault =>
    /\ Root \in walked \cup queue
    /\ \A d \in walked \ lost : FolderIsKept(d)

IInv == W!TypeOK /\ CounterInv /\ TreeInv /\ EndInv /\ DeliveryInv
-----------------------------------------------------------------------------
(* Types and numbers *)

\* Sizes mean in the walk's module what they mean here.
LEMMA SameSizes ==
  ASSUME NEW S
  PROVE  (W!IsFiniteSet(S) <=> IsFiniteSet(S)) /\ W!Cardinality(S) = Cardinality(S)
<1>1. (W!IsFiniteSet(S) <=> IsFiniteSet(S))
  BY Zenon DEF W!IsFiniteSet, IsFiniteSet
<1>2. W!Cardinality(S) = Cardinality(S)
  BY Zenon DEF W!Cardinality, Cardinality
<1> QED
  BY <1>1, <1>2

\* The sets that are counted are finite.
LEMMA Sizes ==
  ASSUME W!Assumptions, W!TypeOK
  PROVE  /\ IsFiniteSet(queue) /\ Cardinality(queue) \in Nat
         /\ IsFiniteSet(Holders) /\ Cardinality(Holders) \in Nat
         /\ IsFiniteSet(Counters) /\ Cardinality(Counters) \in Nat
<1>1. IsFiniteSet(Dirs) /\ IsFiniteSet(Walkers)
  BY SameSizes DEF W!Assumptions
<1>2. queue \subseteq Dirs /\ Holders \subseteq Walkers /\ Counters \subseteq Walkers
  BY DEF W!TypeOK, Holders, Counters
<1>3. IsFiniteSet(queue) /\ IsFiniteSet(Holders) /\ IsFiniteSet(Counters)
  BY <1>1, <1>2, FS_Subset
<1> QED
  BY <1>3, FS_CardinalityType

\* A thread that holds a folder is counted.
LEMMA HolderIsCounted ==
  ASSUME W!Assumptions, W!TypeOK, CounterInv, NEW v \in Holders
  PROVE  pending \in Nat \ {0} /\ ~closed
<1>1. Cardinality(Holders) # 0
  BY Sizes, FS_EmptySet
<1> QED
  BY <1>1, Sizes DEF CounterInv, W!TypeOK

\* A thread that goes on with parts of what it had is still a thread.
LEMMA Threads ==
  ASSUME W!TypeOK, NEW v \in Walkers, NEW subs \in SUBSET Dirs, NEW files \in SUBSET Files
  PROVE  /\ walker[v].subs \subseteq Dirs /\ walker[v].files \subseteq Files
         /\ walker[v].dir \in Dirs \cup {None}
         /\ [walker[v] EXCEPT !.at = "listed", !.subs = subs, !.files = files] \in W!Walker
         /\ [walker[v] EXCEPT !.at = "listed", !.subs = subs] \in W!Walker
         /\ [walker[v] EXCEPT !.files = files] \in W!Walker
         /\ \A exit \in W!Exits : [walker[v] EXCEPT !.at = "leaving", !.exit = exit] \in W!Walker
<1>1. walker[v] \in W!Walker
  BY DEF W!TypeOK
<1> QED
  BY <1>1 DEF W!Walker, W!Exits

\* Types are kept.
LEMMA TypeStep ==
  ASSUME W!Assumptions, W!TypeOK, CounterInv, TreeInv, [W!Next]_(W!vars)
  PROVE  W!TypeOK'
<1> USE DEF W!TypeOK, W!Walker, W!Waiting, W!Exits
<1>1. ASSUME NEW v \in Walkers, W!Take(v) PROVE W!TypeOK'
  <2> PICK d \in queue : walker' = [walker EXCEPT ![v] = [W!Waiting EXCEPT !.at = "reading", !.dir = d]]
                          /\ queue' = queue \ {d} /\ walked' = walked \cup {d}
    BY <1>1 DEF W!Take
  <2>1. [W!Waiting EXCEPT !.at = "reading", !.dir = d] \in W!Walker
    OBVIOUS
  <2>2. walker' \in [Walkers -> W!Walker]
    BY <2>1
  <2>3. queue' \subseteq Dirs /\ walked' \subseteq Dirs /\ lost' \subseteq walked'
    BY <1>1 DEF W!Take
  <2> QED
    BY <1>1, <2>2, <2>3 DEF W!Take, W!ends
<1>2. ASSUME NEW v \in Walkers, NEW first \in W!Attempts, NEW second \in W!Attempts,
             W!ReadDir(v, first, second)
      PROVE W!TypeOK'
  <2> DEFINE read == W!Read(walker[v].dir, first, second)
  <2>1. read.subs \in SUBSET Dirs /\ read.files \in SUBSET Files
    <3>1. walker[v].dir \in Dirs
      BY <1>2 DEF W!ReadDir, TreeInv, Holders
    <3> QED
      BY <3>1 DEF W!Read, W!Entries, W!Nothing, W!Assumptions
  <2>4. walker' \in [Walkers -> W!Walker]
    <3>1. walker' = [walker EXCEPT ![v] = [@ EXCEPT !.at = "listed", !.subs = read.subs,
                                                    !.files = read.files]]
      BY <1>2 DEF W!ReadDir
    <3> HIDE DEF read, W!Walker
    <3> QED
      BY <2>1, <3>1, Threads
  <2>2. lost' \subseteq walked'
    BY <1>2 DEF W!ReadDir, TreeInv, Holders
  <2>3. dropped' \in Nat /\ faults' \in Nat
    BY <1>2 DEF W!ReadDir
  <2> QED
    BY <1>2, <2>4, <2>2, <2>3 DEF W!ReadDir, W!ends
<1>3. ASSUME NEW v \in Walkers, W!CountChild(v) PROVE W!TypeOK'
  BY <1>3 DEF W!CountChild, W!ends, W!ghosts
<1>4. ASSUME NEW v \in Walkers, W!AddChild(v) PROVE W!TypeOK'
  <2> HIDE DEF W!Walker
  <2>1. CASE closed
    BY <1>4, <2>1, Threads DEF W!AddChild, W!ends, W!ghosts
  <2>2. CASE ~closed
    <3> PICK s \in walker[v].subs :
          /\ queue' = queue \cup {s}
          /\ walker' = [walker EXCEPT ![v] = [@ EXCEPT !.at = "listed",
                                                   !.subs = walker[v].subs \ {s}]]
      BY <1>4, <2>2 DEF W!AddChild
    <3>1. walker[v].subs \subseteq Dirs /\ walker[v].subs \ {s} \in SUBSET Dirs
      BY Threads
    <3>2. [walker[v] EXCEPT !.at = "listed", !.subs = walker[v].subs \ {s}] \in W!Walker
      BY <3>1, Threads
    <3>3. queue' \subseteq Dirs
      BY <3>1
    <3>4. walker' \in [Walkers -> W!Walker]
      BY <3>2
    <3> QED
      BY <1>4, <2>2, <3>3, <3>4 DEF W!AddChild, W!ends, W!ghosts
  <2> QED
    BY <2>1, <2>2
<1>5. ASSUME NEW v \in Walkers, W!AddFile(v) PROVE W!TypeOK'
  <2> HIDE DEF W!Walker
  <2>1. CASE cancelled
    BY <1>5, <2>1, Threads DEF W!AddFile, W!ends, W!ghosts
  <2>2. CASE ~cancelled
    <3> PICK f \in walker[v].files :
          /\ output' = output \cup {f}
          /\ walker' = [walker EXCEPT ![v].files = @ \ {f}]
      BY <1>5, <2>2 DEF W!AddFile
    <3>1. walker[v].files \subseteq Files /\ walker[v].files \ {f} \in SUBSET Files
      BY Threads
    <3>2. [walker[v] EXCEPT !.files = walker[v].files \ {f}] \in W!Walker
      BY <3>1, Threads
    <3>3. output' \subseteq Files /\ walker' \in [Walkers -> W!Walker]
      BY <3>1, <3>2
    <3> QED
      BY <1>5, <2>2, <3>3 DEF W!AddFile, W!ends, W!ghosts
  <2> QED
    BY <2>1, <2>2
<1>6. ASSUME NEW v \in Walkers, W!Fault(v) PROVE W!TypeOK'
  <2>1. walker' \in [Walkers -> W!Walker]
    BY <1>6 DEF W!Fault
  <2> QED
    BY <1>6, <2>1 DEF W!Fault, W!ends
<1>7. ASSUME NEW v \in Walkers, W!LeaveDir(v) PROVE W!TypeOK'
  <2>1. v \in Holders
    BY <1>7 DEF W!LeaveDir, W!Leaves, Holders
  <2>2. pending' \in Nat
    BY <1>7, <2>1, HolderIsCounted DEF W!LeaveDir
  <2>3. closed' \in BOOLEAN
    BY <1>7 DEF W!LeaveDir
  <2>4. walker' \in [Walkers -> W!Walker]
    BY <1>7 DEF W!LeaveDir, W!AfterExit
  <2> QED
    BY <1>7, <2>2, <2>3, <2>4 DEF W!LeaveDir, W!ends, W!ghosts
<1>8. ASSUME NEW v \in Walkers, W!Exit(v) PROVE W!TypeOK'
  BY <1>8 DEF W!Exit, W!ends, W!ghosts
<1>9. ASSUME W!CountFaulted PROVE W!TypeOK'
  <2>1. Cardinality({v \in Walkers : walker[v].at = "faulted"}) \in Nat
    BY SameSizes, FS_Subset, FS_CardinalityType DEF W!Assumptions
  <2> QED
    BY <1>9, <2>1, SameSizes DEF W!CountFaulted, W!thread, W!ghosts
<1>10. ASSUME W!GetFile PROVE W!TypeOK'
  BY <1>10 DEF W!GetFile, W!thread, W!ends, W!ghosts
<1>11. ASSUME W!EndOfFiles PROVE W!TypeOK'
  BY <1>11 DEF W!EndOfFiles, W!thread, W!ghosts
<1>12. ASSUME W!LeaveEarly PROVE W!TypeOK'
  BY <1>12 DEF W!LeaveEarly, W!thread, W!ghosts
<1>13. ASSUME UNCHANGED W!vars PROVE W!TypeOK'
  BY <1>13 DEF W!vars
<1> QED
  BY <1>1, <1>2, <1>3, <1>4, <1>5, <1>6, <1>7, <1>8, <1>9, <1>10, <1>11, <1>12, <1>13
  DEF W!Next, W!Walk, W!WorkOn
-----------------------------------------------------------------------------
(* The counter *)

\* Steps of the caller and of the end move nothing that is counted.
LEMMA OthersKeepThreads ==
  ASSUME W!CountFaulted \/ W!GetFile \/ W!EndOfFiles \/ W!LeaveEarly \/ UNCHANGED W!vars
  PROVE  UNCHANGED <<network, pending, queue, closed, walker, walked, lost>>
BY DEF W!CountFaulted, W!GetFile, W!EndOfFiles, W!LeaveEarly, W!vars, W!thread, W!ghosts

\* A subfolder that is queued was not in the queue.
LEMMA CounterStep ==
  ASSUME W!Assumptions, W!TypeOK, CounterInv, TreeInv, [W!Next]_(W!vars)
  PROVE  CounterInv'
<1>0. /\ IsFiniteSet(queue) /\ IsFiniteSet(Holders) /\ IsFiniteSet(Counters)
      /\ Cardinality(queue) \in Nat /\ Cardinality(Holders) \in Nat
      /\ Cardinality(Counters) \in Nat /\ pending \in Nat
  BY Sizes DEF W!TypeOK
<1>w. walker \in [Walkers -> W!Walker]
  BY DEF W!TypeOK
<1>1. ASSUME NEW v \in Walkers, W!Take(v) PROVE CounterInv'
  <2> PICK d \in queue : walker' = [walker EXCEPT ![v] = [W!Waiting EXCEPT !.at = "reading", !.dir = d]]
                          /\ queue' = queue \ {d}
    BY <1>1 DEF W!Take
  <2>1. Holders' = Holders \cup {v} /\ v \notin Holders /\ Counters' = Counters
    BY <1>1, <1>w DEF W!Take, Holders, Counters, W!Waiting, W!Walker
  <2>2. Cardinality(queue') = Cardinality(queue) - 1
    BY <1>0, FS_RemoveElement
  <2>3. Cardinality(Holders') = Cardinality(Holders) + 1
    BY <1>0, <2>1, FS_AddElement
  <2>4. pending' = pending /\ closed' = closed /\ Cardinality(Counters') = Cardinality(Counters)
    BY <1>1, <2>1 DEF W!Take
  <2> QED
    BY <1>0, <2>2, <2>3, <2>4 DEF CounterInv
<1>2. ASSUME NEW v \in Walkers, NEW first \in W!Attempts, NEW second \in W!Attempts,
             W!ReadDir(v, first, second)
      PROVE CounterInv'
  <2>1. Holders' = Holders /\ Counters' = Counters
    BY <1>2, <1>w DEF W!ReadDir, Holders, Counters, W!Walker
  <2> QED
    BY <1>2, <2>1 DEF W!ReadDir, CounterInv
<1>3. ASSUME NEW v \in Walkers, W!CountChild(v) PROVE CounterInv'
  <2>1. Holders' = Holders /\ Counters' = Counters \cup {v} /\ v \notin Counters /\ v \in Holders
    BY <1>3, <1>w DEF W!CountChild, Holders, Counters, W!Walker
  <2>2. Cardinality(Counters') = Cardinality(Counters) + 1 /\ Cardinality(Holders') = Cardinality(Holders)
    BY <1>0, <2>1, FS_AddElement
  <2>3. pending' = pending + 1 /\ queue' = queue /\ closed' = closed
    BY <1>3 DEF W!CountChild
  <2>4. ~closed
    BY <2>1, HolderIsCounted
  <2> QED
    BY <1>0, <2>2, <2>3, <2>4 DEF CounterInv
<1>4. ASSUME NEW v \in Walkers, W!AddChild(v) PROVE CounterInv'
  <2>1. v \in Holders /\ v \in Counters /\ ~closed
    BY <1>4, HolderIsCounted DEF W!AddChild, Holders, Counters
  <2> PICK s \in walker[v].subs :
        /\ queue' = queue \cup {s}
        /\ walker' = [walker EXCEPT ![v] = [@ EXCEPT !.at = "listed",
                                                   !.subs = walker[v].subs \ {s}]]
    BY <1>4, <2>1 DEF W!AddChild
  <2>2. s \notin queue
    BY <1>4, <2>1 DEF TreeInv, Unmet, W!AddChild
  <2>3. Holders' = Holders /\ Counters' = Counters \ {v}
    BY <1>w, <2>1 DEF Holders, Counters, W!Walker
  <2>4. /\ Cardinality(queue') = Cardinality(queue) + 1
        /\ Cardinality(Counters') = Cardinality(Counters) - 1
        /\ Cardinality(Holders') = Cardinality(Holders)
    BY <1>0, <2>1, <2>2, <2>3, FS_AddElement, FS_RemoveElement
  <2>5. pending' = pending /\ closed' = closed
    BY <1>4 DEF W!AddChild
  <2> QED
    BY <1>0, <2>1, <2>4, <2>5 DEF CounterInv
<1>5. ASSUME NEW v \in Walkers, W!AddFile(v) PROVE CounterInv'
  <2>1. CASE cancelled
    BY <1>5, <1>w, <2>1 DEF W!AddFile, Holders, Counters, W!Walker, CounterInv
  <2>2. CASE ~cancelled
    <3>1. \A w \in Walkers : walker'[w].at = walker[w].at
      BY <1>5, <1>w, <2>2 DEF W!AddFile, W!Walker
    <3>2. Holders' = Holders /\ Counters' = Counters
      BY <3>1 DEF Holders, Counters
    <3> QED
      BY <1>5, <3>2 DEF W!AddFile, CounterInv
  <2> QED
    BY <2>1, <2>2
<1>6. ASSUME NEW v \in Walkers, W!Fault(v) PROVE CounterInv'
  <2>1. Holders' = Holders /\ Counters' = Counters
    BY <1>6, <1>w DEF W!Fault, Holders, Counters, W!Walker
  <2> QED
    BY <1>6, <2>1 DEF W!Fault, CounterInv
<1>7. ASSUME NEW v \in Walkers, W!LeaveDir(v) PROVE CounterInv'
  <2>1. Holders' = Holders \ {v} /\ Counters' = Counters /\ v \in Holders
    BY <1>7, <1>w DEF W!LeaveDir, W!Leaves, W!AfterExit, W!Waiting, W!Exits, Holders, Counters, W!Walker
  <2>2. Cardinality(Holders') = Cardinality(Holders) - 1 /\ Cardinality(Counters') = Cardinality(Counters)
    BY <1>0, <2>1, FS_RemoveElement
  <2>3. pending' = pending - 1 /\ queue' = queue /\ (closed' => closed \/ pending' = 0)
    BY <1>7 DEF W!LeaveDir
  <2>4. ~closed
    BY <2>1, HolderIsCounted
  <2> QED
    BY <1>0, <2>2, <2>3, <2>4 DEF CounterInv
<1>8. ASSUME NEW v \in Walkers, W!Exit(v) PROVE CounterInv'
  <2>1. Holders' = Holders /\ Counters' = Counters
    BY <1>8, <1>w DEF W!Exit, Holders, Counters, W!Walker
  <2> QED
    BY <1>8, <2>1 DEF W!Exit, CounterInv
<1>9. ASSUME W!CountFaulted \/ W!GetFile \/ W!EndOfFiles \/ W!LeaveEarly \/ UNCHANGED W!vars
      PROVE CounterInv'
  <2>1. Holders' = Holders /\ Counters' = Counters
    BY <1>9, OthersKeepThreads DEF Holders, Counters
  <2> QED
    BY <1>9, <2>1, OthersKeepThreads DEF CounterInv
<1> QED
  BY <1>1, <1>2, <1>3, <1>4, <1>5, <1>6, <1>7, <1>8, <1>9 DEF W!Next, W!Walk, W!WorkOn
-----------------------------------------------------------------------------
(* The folders *)

\* A step that takes or queues no folder, and in which no thread holds more than
\* before, keeps the folders apart.
LEMMA TreeKept ==
  ASSUME TreeInv, queue' = queue, walked' = walked, Holders' \subseteq Holders,
         \A w \in Holders' :
           /\ walker'[w].dir = walker[w].dir
           /\ walker'[w].at = "reading" => walker[w].at = "reading"
           /\ walker'[w].at \in {"listed", "counted"} =>
                walker'[w].subs \subseteq Sub[walker[w].dir] \cap Unmet
  PROVE  TreeInv'
<1>1. Unmet' = Unmet
  BY DEF Unmet
<1> QED
  BY <1>1 DEF TreeInv

\* Taking a folder: its subfolders were never met, since each folder has one parent.
LEMMA TakeTree ==
  ASSUME W!Assumptions, W!TypeOK, TreeInv, NEW v \in Walkers, W!Take(v)
  PROVE  TreeInv'
<1>w. walker \in [Walkers -> W!Walker] /\ queue \subseteq Dirs /\ walked \subseteq Dirs
  BY DEF W!TypeOK
<1> PICK d \in queue : /\ walker' = [walker EXCEPT ![v] = [W!Waiting EXCEPT !.at = "reading", !.dir = d]]
                       /\ queue' = queue \ {d} /\ walked' = walked \cup {d}
  BY DEF W!Take
<1>1. d \in Dirs /\ d \notin walked /\ walked' \cup queue' = walked \cup queue
  BY <1>w DEF TreeInv
<1>2. Unmet' = Unmet
  BY <1>1 DEF Unmet
<1>3. Sub[d] \subseteq Unmet
  <2> SUFFICES ASSUME NEW s \in Sub[d] PROVE s \in Dirs /\ s \notin walked \cup queue
    BY DEF Unmet
  <2>1. s \in Dirs /\ s # Root
    BY <1>1 DEF W!Assumptions
  <2>2. ASSUME s \in walked \cup queue PROVE FALSE
    <3> PICK e \in walked : s \in Sub[e]
      BY <2>1, <2>2 DEF TreeInv
    <3> QED
      BY <1>1, <1>w DEF W!Assumptions
  <2> QED
    BY <2>1, <2>2
<1>4. Holders' = Holders \cup {v} /\ v \notin Holders
  BY <1>w DEF W!Take, Holders, W!Waiting, W!Walker
<1>5. walker'[v].dir = d /\ walker'[v].at = "reading"
  BY <1>w DEF W!Waiting
<1>6. \A w \in Holders : walker'[w] = walker[w]
  BY <1>4, <1>w DEF Holders
<1>7. \A w \in Holders : walker[w].dir # d
  BY <1>1 DEF TreeInv
<1>8. \A e \in walked' \cup queue' : e = Root \/ \E p \in walked' : e \in Sub[p]
  BY <1>1 DEF TreeInv
<1>9. queue' \cap walked' = {}
  BY <1>1 DEF TreeInv
<1>10. \A w \in Holders' : walker'[w].dir \in walked'
  BY <1>4, <1>5, <1>6 DEF TreeInv
<1>11. \A u, w \in Holders' : u # w => walker'[u].dir # walker'[w].dir
  BY <1>4, <1>5, <1>6, <1>7 DEF TreeInv
<1>12. \A w \in Holders' : walker'[w].at = "reading" => Sub[walker'[w].dir] \subseteq Unmet'
  BY <1>2, <1>3, <1>4, <1>5, <1>6 DEF TreeInv
<1>13. \A w \in Holders' : walker'[w].at \in {"listed", "counted"} =>
         walker'[w].subs \subseteq Sub[walker'[w].dir] \cap Unmet'
  BY <1>2, <1>4, <1>5, <1>6 DEF TreeInv
<1> QED
  BY <1>8, <1>9, <1>10, <1>11, <1>12, <1>13 DEF TreeInv

\* Queueing a subfolder: no other thread has it to queue.
LEMMA AddTree ==
  ASSUME W!Assumptions, W!TypeOK, CounterInv, TreeInv, NEW v \in Walkers, W!AddChild(v)
  PROVE  TreeInv'
<1>w. walker \in [Walkers -> W!Walker] /\ queue \subseteq Dirs /\ walked \subseteq Dirs
  BY DEF W!TypeOK
<1>a. v \in Holders /\ walker[v].at = "counted" /\ walked' = walked
  BY DEF W!AddChild, Holders, W!ghosts
<1>0. v \in Holders /\ walker[v].at = "counted" /\ ~closed /\ walked' = walked
  BY <1>a, HolderIsCounted
<1> PICK s \in walker[v].subs :
      /\ queue' = queue \cup {s}
      /\ walker' = [walker EXCEPT ![v] = [@ EXCEPT !.at = "listed",
                                                   !.subs = walker[v].subs \ {s}]]
  BY <1>0 DEF W!AddChild
<1>1. s \in Sub[walker[v].dir] /\ s \in Unmet /\ walker[v].dir \in walked
  BY <1>0 DEF TreeInv
<1>2. Unmet' = Unmet \ {s}
  BY <1>0 DEF Unmet
<1>3. Holders' = Holders
  BY <1>w, <1>0 DEF Holders, W!Walker
<1>4. /\ walker'[v].at = "listed" /\ walker'[v].dir = walker[v].dir
      /\ walker'[v].subs = walker[v].subs \ {s}
      /\ \A w \in Walkers \ {v} : walker'[w] = walker[w]
  BY <1>w DEF W!Walker
<1>5. \A w \in Holders \ {v} : s \notin Sub[walker[w].dir]
  BY <1>0, <1>1, <1>w DEF TreeInv, W!Assumptions
<1>6. \A e \in walked' \cup queue' : e = Root \/ \E p \in walked' : e \in Sub[p]
  BY <1>0, <1>1 DEF TreeInv
<1>7. queue' \cap walked' = {}
  BY <1>0, <1>1 DEF TreeInv, Unmet
<1>8. \A w \in Holders' : walker'[w].dir \in walked'
  BY <1>0, <1>3, <1>4 DEF TreeInv, Holders
<1>9. \A u, w \in Holders' : u # w => walker'[u].dir # walker'[w].dir
  BY <1>3, <1>4 DEF TreeInv, Holders
<1>10. \A w \in Holders' : walker'[w].at = "reading" => Sub[walker'[w].dir] \subseteq Unmet'
  BY <1>2, <1>3, <1>4, <1>5 DEF TreeInv, Holders
<1>11. \A w \in Holders' : walker'[w].at \in {"listed", "counted"} =>
         walker'[w].subs \subseteq Sub[walker'[w].dir] \cap Unmet'
  <2> SUFFICES ASSUME NEW w \in Holders', walker'[w].at \in {"listed", "counted"}
               PROVE  walker'[w].subs \subseteq Sub[walker'[w].dir] \cap Unmet'
    OBVIOUS
  <2>1. CASE w = v
    BY <2>1, <1>0, <1>2, <1>4 DEF TreeInv
  <2>2. CASE w # v
    BY <2>2, <1>2, <1>3, <1>4, <1>5 DEF TreeInv, Holders
  <2> QED
    BY <2>1, <2>2
<1> QED
  BY <1>6, <1>7, <1>8, <1>9, <1>10, <1>11 DEF TreeInv

\* Folders stay apart in every step.
LEMMA TreeStep ==
  ASSUME W!Assumptions, W!TypeOK, CounterInv, TreeInv, [W!Next]_(W!vars)
  PROVE  TreeInv'
<1>w. walker \in [Walkers -> W!Walker] /\ queue \subseteq Dirs /\ walked \subseteq Dirs
  BY DEF W!TypeOK
<1>1. ASSUME NEW v \in Walkers, W!Take(v) PROVE TreeInv'
  BY <1>1, TakeTree
<1>2. ASSUME NEW v \in Walkers, NEW first \in W!Attempts, NEW second \in W!Attempts,
             W!ReadDir(v, first, second)
      PROVE TreeInv'
  <2> DEFINE read == W!Read(walker[v].dir, first, second)
  <2>1. v \in Holders /\ walker[v].at = "reading" /\ Holders' = Holders
    BY <1>2, <1>w DEF W!ReadDir, Holders, W!Walker
  <2>2. read.subs \subseteq Sub[walker[v].dir]
    BY DEF W!Read, W!Entries, W!Nothing
  <2>3. read.subs \subseteq Sub[walker[v].dir] \cap Unmet
    BY <2>1, <2>2 DEF TreeInv
  <2>4. walker' = [walker EXCEPT ![v] = [@ EXCEPT !.at = "listed", !.subs = read.subs,
                                                  !.files = read.files]]
    BY <1>2 DEF W!ReadDir
  <2> HIDE DEF read
  <2>5. /\ walker'[v].at = "listed" /\ walker'[v].dir = walker[v].dir
        /\ walker'[v].subs = read.subs /\ \A w \in Walkers \ {v} : walker'[w] = walker[w]
    BY <2>4, <1>w DEF W!Walker
  <2>6. \A w \in Holders' :
           /\ walker'[w].dir = walker[w].dir
           /\ walker'[w].at = "reading" => walker[w].at = "reading"
           /\ walker'[w].at \in {"listed", "counted"} =>
                walker'[w].subs \subseteq Sub[walker[w].dir] \cap Unmet
    BY <2>1, <2>3, <2>5 DEF TreeInv, Holders
  <2> QED
    BY <1>2, <2>1, <2>6, TreeKept DEF W!ReadDir
<1>4. ASSUME NEW v \in Walkers, W!AddChild(v) PROVE TreeInv'
  BY <1>4, AddTree
<1>5. ASSUME NEW v \in Walkers,
             W!CountChild(v) \/ W!AddFile(v) \/ W!Fault(v) \/ W!LeaveDir(v) \/ W!Exit(v)
      PROVE TreeInv'
  <2>1. queue' = queue /\ walked' = walked /\ \A w \in Walkers \ {v} : walker'[w] = walker[w]
    BY <1>5, <1>w DEF W!CountChild, W!AddFile, W!Fault, W!LeaveDir, W!Exit, W!ghosts
  <2>2. v \in Holders' =>
          /\ walker[v].at = "listed" /\ walker'[v].dir = walker[v].dir
          /\ walker'[v].subs = walker[v].subs /\ walker'[v].at # "reading"
    <3>1. CASE W!CountChild(v)
      BY <3>1, <1>w DEF W!CountChild, W!Walker
    <3>2. CASE W!AddFile(v)
      BY <3>2, <1>w DEF W!AddFile, W!Walker
    <3>3. CASE W!Fault(v)
      BY <3>3, <1>w DEF W!Fault, W!Walker
    <3>4. CASE W!LeaveDir(v) \/ W!Exit(v)
      BY <3>4, <1>w DEF W!LeaveDir, W!AfterExit, W!Waiting, W!Exit, Holders, W!Walker, W!Exits
    <3> QED
      BY <1>5, <3>1, <3>2, <3>3, <3>4
  <2>3. Holders' \subseteq Holders
    BY <2>1, <2>2 DEF Holders
  <2>4. \A w \in Holders' :
           /\ walker'[w].dir = walker[w].dir
           /\ walker'[w].at = "reading" => walker[w].at = "reading"
           /\ walker'[w].at \in {"listed", "counted"} =>
                walker'[w].subs \subseteq Sub[walker[w].dir] \cap Unmet
    BY <2>1, <2>2, <2>3 DEF TreeInv, Holders
  <2> QED
    BY <2>1, <2>3, <2>4, TreeKept
<1>9. ASSUME W!CountFaulted \/ W!GetFile \/ W!EndOfFiles \/ W!LeaveEarly \/ UNCHANGED W!vars
      PROVE TreeInv'
  <2>1. Holders' = Holders /\ walker' = walker /\ queue' = queue /\ walked' = walked
    BY <1>9, OthersKeepThreads DEF Holders
  <2> QED
    BY <2>1, TreeKept DEF TreeInv
<1> QED
  BY <1>1, <1>2, <1>4, <1>5, <1>9 DEF W!Next, W!Walk, W!WorkOn
-----------------------------------------------------------------------------
(* The end *)

\* A step of a thread that is at work keeps what is known of the end, if that
\* thread itself stops or ends for the right reason.
LEMMA EndKept ==
  ASSUME EndInv, NEW v \in Walkers, walker[v].at \notin {"exited", "faulted"},
         caller' = caller, cancelled' = cancelled, finished' = finished,
         \A w \in Walkers \ {v} : walker'[w] = walker[w],
         closed /\ queue = {} => closed' /\ queue' = {},
         walker'[v].exit # "next" => walker'[v].at = "leaving",
         walker'[v].exit = "stop" => caller = "left",
         walker'[v].at = "exited" => caller = "left" \/ (closed' /\ queue' = {})
  PROVE  EndInv'
<1>1. ~finished
  BY DEF EndInv, W!AllExited
<1>2. caller' # "ended"
  BY <1>1 DEF EndInv
<1>3. \A w \in Walkers : walker'[w].exit # "next" => walker'[w].at = "leaving"
  BY DEF EndInv
<1>4. \A w \in Walkers : walker'[w].exit = "stop" => caller' = "left"
  BY DEF EndInv
<1>5. caller' # "left" /\ (\E w \in Walkers : walker'[w].at = "exited") =>
        closed' /\ queue' = {}
  BY DEF EndInv
<1>6. caller' = "reading" => ~cancelled'
  BY DEF EndInv
<1> QED
  BY <1>1, <1>2, <1>3, <1>4, <1>5, <1>6 DEF EndInv

\* While a thread is at work, only the caller that leaves cancels the walk.
LEMMA CancelledByCaller ==
  ASSUME W!TypeOK, EndInv, cancelled, NEW v \in Walkers,
         walker[v].at \notin {"exited", "faulted"}
  PROVE  caller = "left"
BY DEF EndInv, W!AllExited, W!TypeOK

\* What is known of the end holds after every step.
LEMMA EndStep ==
  ASSUME W!Assumptions, W!TypeOK, CounterInv, TreeInv, EndInv, [W!Next]_(W!vars)
  PROVE  EndInv'
<1>w. walker \in [Walkers -> W!Walker] /\ \A v \in Walkers : walker[v] \in W!Walker
  BY DEF W!TypeOK
<1>1. ASSUME NEW v \in Walkers, W!Take(v) PROVE EndInv'
  <2> PICK d \in queue : walker' = [walker EXCEPT ![v] = [W!Waiting EXCEPT !.at = "reading", !.dir = d]]
    BY <1>1 DEF W!Take
  <2>1. walker'[v].exit = "next" /\ walker'[v].at = "reading"
    BY <1>w DEF W!Waiting
  <2> QED
    BY <1>1, <1>w, <2>1, EndKept DEF W!Take, W!ends
<1>2. ASSUME NEW v \in Walkers, NEW first \in W!Attempts, NEW second \in W!Attempts,
             W!ReadDir(v, first, second)
      PROVE EndInv'
  <2>1. walker[v].at = "reading" /\ walker[v].exit = "next"
    BY <1>2 DEF W!ReadDir, EndInv
  <2>2. walker'[v].exit = "next" /\ walker'[v].at = "listed"
    BY <1>2, <1>w, <2>1 DEF W!ReadDir, W!Walker
  <2> QED
    BY <1>2, <1>w, <2>1, <2>2, EndKept DEF W!ReadDir, W!ends
<1>3. ASSUME NEW v \in Walkers, W!CountChild(v) PROVE EndInv'
  <2>1. walker[v].at = "listed" /\ walker[v].exit = "next"
    BY <1>3 DEF W!CountChild, EndInv
  <2>2. walker'[v].exit = "next" /\ walker'[v].at = "counted"
    BY <1>3, <1>w, <2>1 DEF W!CountChild, W!Walker
  <2> QED
    BY <1>3, <1>w, <2>1, <2>2, EndKept DEF W!CountChild, W!ends
<1>4. ASSUME NEW v \in Walkers, W!AddChild(v) PROVE EndInv'
  <2>1. walker[v].at = "counted" /\ walker[v].exit = "next" /\ v \in Holders
    BY <1>4 DEF W!AddChild, EndInv, Holders
  <2>2. ~closed
    BY <2>1, HolderIsCounted
  <2>3. PICK s \in walker[v].subs :
          walker' = [walker EXCEPT ![v] = [@ EXCEPT !.at = "listed",
                                                    !.subs = walker[v].subs \ {s}]]
    BY <1>4, <2>2 DEF W!AddChild
  <2>4. walker'[v].exit = "next" /\ walker'[v].at = "listed"
    BY <2>1, <2>3, <1>w DEF W!Walker
  <2>5. \A w \in Walkers \ {v} : walker'[w] = walker[w]
    BY <2>3, <1>w
  <2> QED
    BY <1>4, <2>1, <2>2, <2>4, <2>5, EndKept DEF W!AddChild, W!ends
<1>5. ASSUME NEW v \in Walkers, W!AddFile(v) PROVE EndInv'
  <2>1. walker[v].at = "listed" /\ walker[v].exit = "next"
    BY <1>5 DEF W!AddFile, EndInv
  <2>2. \A w \in Walkers \ {v} : walker'[w] = walker[w]
    BY <1>5, <1>w DEF W!AddFile
  <2>3. CASE cancelled
    <3>1. caller = "left"
      BY <2>1, <2>3, CancelledByCaller
    <3>2. walker'[v] = [walker[v] EXCEPT !.at = "leaving", !.exit = "stop"]
      BY <1>5, <1>w, <2>3 DEF W!AddFile
    <3>3. walker[v] \in W!Walker
      BY <1>w
    <3>4. walker'[v].at = "leaving"
      BY <3>2, <3>3 DEF W!Walker
    <3> QED
      BY <1>5, <2>1, <2>2, <3>1, <3>4, EndKept DEF W!AddFile, W!ends
  <2>4. CASE ~cancelled
    <3>1. walker'[v].at = "listed" /\ walker'[v].exit = "next"
      BY <1>5, <1>w, <2>1, <2>4 DEF W!AddFile, W!Walker
    <3> QED
      BY <1>5, <2>1, <2>2, <3>1, EndKept DEF W!AddFile, W!ends
  <2> QED
    BY <2>3, <2>4
<1>6. ASSUME NEW v \in Walkers, W!Fault(v) PROVE EndInv'
  <2>1. walker[v].at = "listed" /\ walker'[v].at = "leaving" /\ walker'[v].exit = "fault"
    BY <1>6, <1>w DEF W!Fault, W!Walker
  <2> QED
    BY <1>6, <1>w, <2>1, EndKept DEF W!Fault, W!ends
<1>7. ASSUME NEW v \in Walkers, W!LeaveDir(v) PROVE EndInv'
  <2>1. walker[v].at \in {"listed", "leaving"} /\ walker[v].exit \in W!Exits
    BY <1>7, <1>w DEF W!LeaveDir, W!Leaves, W!Walker
  <2>2. walker'[v] = W!AfterExit(walker[v].exit) /\ \A w \in Walkers \ {v} : walker'[w] = walker[w]
    BY <1>7, <1>w DEF W!LeaveDir
  <2>3. walker'[v].exit = "next"
    BY <2>1, <2>2 DEF W!AfterExit, W!Waiting, W!Exits
  <2>4. walker'[v].at = "exited" => caller = "left"
    BY <2>1, <2>2 DEF W!AfterExit, W!Waiting, W!Exits, EndInv
  <2>5. closed => closed'
    BY <1>7 DEF W!LeaveDir
  <2> QED
    BY <1>7, <2>1, <2>2, <2>3, <2>4, <2>5, EndKept DEF W!LeaveDir, W!ends
<1>8. ASSUME NEW v \in Walkers, W!Exit(v) PROVE EndInv'
  <2>1. walker[v].at = "waiting" /\ walker[v].exit = "next"
    BY <1>8 DEF W!Exit, EndInv
  <2>2. caller = "left" \/ (closed /\ queue = {})
    BY <1>8, <2>1, CancelledByCaller DEF W!Exit
  <2>3. walker'[v].exit = "next" /\ \A w \in Walkers \ {v} : walker'[w] = walker[w]
    BY <1>8, <1>w, <2>1 DEF W!Exit, W!Walker
  <2> QED
    BY <1>8, <2>1, <2>2, <2>3, EndKept DEF W!Exit, W!ends
<1>9. ASSUME W!CountFaulted PROVE EndInv'
  <2> DEFINE dead == {v \in Walkers : walker[v].at = "faulted"}
  <2>1. IsFiniteSet(dead) /\ Cardinality(dead) \in Nat
    BY SameSizes, FS_Subset, FS_CardinalityType DEF W!Assumptions
  <2>2. dropped' = dropped + Cardinality(dead) /\ dropped \in Nat
    BY <1>9, SameSizes DEF W!CountFaulted, W!TypeOK
  <2>3. dropped' = 0 => dead = {}
    <3> HIDE DEF dead
    <3> QED
      BY <2>1, <2>2, FS_EmptySet
  <2> QED
    BY <1>9, <2>3 DEF W!CountFaulted, W!thread, EndInv, W!AllExited
<1>10. ASSUME W!GetFile PROVE EndInv'
  BY <1>10 DEF W!GetFile, W!thread, W!ends, EndInv, W!AllExited
<1>11. ASSUME W!EndOfFiles PROVE EndInv'
  BY <1>11 DEF W!EndOfFiles, W!thread, EndInv, W!AllExited
<1>12. ASSUME W!LeaveEarly PROVE EndInv'
  BY <1>12 DEF W!LeaveEarly, W!thread, EndInv, W!AllExited
<1>13. ASSUME UNCHANGED W!vars PROVE EndInv'
  BY <1>13 DEF W!vars, EndInv, W!AllExited
<1> QED
  BY <1>1, <1>2, <1>3, <1>4, <1>5, <1>6, <1>7, <1>8, <1>9, <1>10, <1>11, <1>12, <1>13
  DEF W!Next, W!Walk, W!WorkOn
-----------------------------------------------------------------------------
(* The delivery *)

\* What thread v was still to bring of a folder it has brought, or still is to.
Carries(v, d) ==
  /\ \A s \in Sub[d] : Brings(v, d, s) => s \in walked' \cup queue' \/ Brings(v, d, s)'
  /\ \A f \in In[d] : Hands(v, d, f) => f \in found' \cup output' \/ Hands(v, d, f)'

\* A step of a thread that carries on with every folder, and by which nothing that
\* has arrived goes away, keeps the delivery.
LEMMA DeliveryKept ==
  ASSUME DeliveryInv, NEW v \in Walkers,
         walked \cup queue \subseteq walked' \cup queue',
         found \cup output \subseteq found' \cup output',
         lost \subseteq lost', caller' = caller, dropped' = 0 => dropped = 0,
         \A w \in Walkers \ {v} : walker'[w] = walker[w],
         NoFault' => walker[v].at # "faulted" /\ walker[v].exit # "fault",
         caller # "left" /\ dropped' = 0 /\ NoFault' =>
           \A d \in walked' \ lost' : IF d \in walked THEN Carries(v, d) ELSE FolderIsKept(d)'
  PROVE  DeliveryInv'
<1> SUFFICES ASSUME caller # "left", dropped' = 0, NoFault'
             PROVE  Root \in walked' \cup queue' /\ \A d \in walked' \ lost' : FolderIsKept(d)'
  BY DEF DeliveryInv
<1>1. NoFault
  BY DEF NoFault
<1>2. Root \in walked \cup queue /\ \A d \in walked \ lost : FolderIsKept(d)
  BY <1>1 DEF DeliveryInv
<1>3. ASSUME NEW d \in walked' \ lost' PROVE FolderIsKept(d)'
  <2>1. CASE d \in walked
    <3>1. FolderIsKept(d) /\ Carries(v, d)
      BY <1>2, <2>1
    <3>2. ASSUME NEW s \in Sub[d]
          PROVE  s \in walked' \cup queue' \/ \E w \in Walkers : Brings(w, d, s)'
      <4>1. CASE s \in walked \cup queue
        BY <4>1
      <4>2. CASE \E w \in Walkers : Brings(w, d, s)
        <5> PICK w \in Walkers : Brings(w, d, s)
          BY <4>2
        <5>1. CASE w = v
          BY <5>1, <3>1 DEF Carries
        <5>2. CASE w # v
          BY <5>2 DEF Brings
        <5> QED
          BY <5>1, <5>2
      <4> QED
        BY <3>1, <4>1, <4>2 DEF FolderIsKept
    <3>3. ASSUME NEW f \in In[d]
          PROVE  f \in found' \cup output' \/ \E w \in Walkers : Hands(w, d, f)'
      <4>1. CASE f \in found \cup output
        BY <4>1
      <4>2. CASE \E w \in Walkers : Hands(w, d, f)
        <5> PICK w \in Walkers : Hands(w, d, f)
          BY <4>2
        <5>1. CASE w = v
          BY <5>1, <3>1 DEF Carries
        <5>2. CASE w # v
          BY <5>2 DEF Hands
        <5> QED
          BY <5>1, <5>2
      <4> QED
        BY <3>1, <4>1, <4>2 DEF FolderIsKept
    <3> QED
      BY <3>2, <3>3 DEF FolderIsKept
  <2>2. CASE d \notin walked
    BY <2>2
  <2> QED
    BY <2>1, <2>2
<1> QED
  BY <1>2, <1>3

\* A listing that is neither counted as dropped nor taken for empty is the folder's.
LEMMA HonestListing ==
  ASSUME NEW d, NEW first \in W!Attempts, NEW second \in W!Attempts,
         ~W!GivesUp(first, second), ~W!LooksEmpty(first, second)
  PROVE  W!Read(d, first, second) = W!Entries(d)
BY DEF W!Attempts, W!GivesUp, W!LooksEmpty, W!Read, W!Last

\* The delivery is kept by every step.
LEMMA DeliveryStep ==
  ASSUME W!Assumptions, W!TypeOK, CounterInv, TreeInv, EndInv, DeliveryInv, [W!Next]_(W!vars)
  PROVE  DeliveryInv'
<1>w. walker \in [Walkers -> W!Walker] /\ dropped \in Nat
  BY DEF W!TypeOK
<1>1. ASSUME NEW v \in Walkers, W!Take(v) PROVE DeliveryInv'
  <2> PICK d \in queue : /\ walker' = [walker EXCEPT ![v] = [W!Waiting EXCEPT !.at = "reading", !.dir = d]]
                         /\ queue' = queue \ {d} /\ walked' = walked \cup {d}
    BY <1>1 DEF W!Take
  <2>1. walker[v].at = "waiting" /\ walker[v].exit = "next"
    BY <1>1 DEF W!Take, EndInv
  <2>2. walker'[v].at = "reading" /\ walker'[v].dir = d
    BY <1>w DEF W!Waiting
  <2>3. \A e : Carries(v, e)
    BY <2>1 DEF Carries, Brings, Hands
  <2>4. FolderIsKept(d)'
    BY <2>2 DEF FolderIsKept, Brings, Hands
  <2>5. \A w \in Walkers \ {v} : walker'[w] = walker[w]
    BY <1>w
  <2>6. /\ walked \cup queue \subseteq walked' \cup queue'
        /\ found' = found /\ output' = output /\ lost' = lost /\ caller' = caller
        /\ dropped' = dropped
    BY <1>1 DEF W!Take, W!ends
  <2> QED
    BY <2>1, <2>3, <2>4, <2>5, <2>6, DeliveryKept
<1>2. ASSUME NEW v \in Walkers, NEW first \in W!Attempts, NEW second \in W!Attempts,
             W!ReadDir(v, first, second)
      PROVE DeliveryInv'
  <2> DEFINE read == W!Read(walker[v].dir, first, second)
  <2>1. walker[v].at = "reading" /\ walker[v].exit = "next"
    BY <1>2 DEF W!ReadDir, EndInv
  <2>2. walker' = [walker EXCEPT ![v] = [@ EXCEPT !.at = "listed", !.subs = read.subs,
                                                  !.files = read.files]]
    BY <1>2 DEF W!ReadDir
  <2>3. /\ \A w \in Walkers \ {v} : walker'[w] = walker[w]
        /\ walker'[v].at = "listed" /\ walker'[v].dir = walker[v].dir
        /\ walker'[v].subs = read.subs /\ walker'[v].files = read.files
    <3> HIDE DEF read
    <3> QED
      BY <2>2, <1>w DEF W!Walker
  <2>4. ASSUME dropped' = 0, NEW d \in walked' \ lost'
        PROVE  Carries(v, d)
    <3>1. CASE walker[v].dir = d
      <4>1. ~W!GivesUp(first, second) /\ ~W!LooksEmpty(first, second)
        BY <1>2, <1>w, <2>4, <3>1 DEF W!ReadDir
      <4>2. read = W!Entries(d)
        BY <3>1, <4>1, HonestListing
      <4>3. walker'[v].subs = Sub[d] /\ walker'[v].files = In[d]
        BY <2>3, <4>2 DEF W!Entries
      <4> QED
        BY <2>3, <3>1, <4>3 DEF Carries, Brings, Hands
    <3>2. CASE walker[v].dir # d
      BY <3>2 DEF Carries, Brings, Hands
    <3> QED
      BY <3>1, <3>2
  <2>5. /\ walked' = walked /\ queue' = queue /\ found' = found /\ output' = output
        /\ lost \subseteq lost' /\ caller' = caller /\ (dropped' = 0 => dropped = 0)
    BY <1>2, <1>w DEF W!ReadDir, W!ends
  <2> QED
    BY <2>1, <2>3, <2>4, <2>5, DeliveryKept
<1>3. ASSUME NEW v \in Walkers, W!CountChild(v) PROVE DeliveryInv'
  <2>1. walker[v].at = "listed" /\ walker[v].exit = "next"
    BY <1>3 DEF W!CountChild, EndInv
  <2>2. /\ \A w \in Walkers \ {v} : walker'[w] = walker[w]
        /\ walker'[v].at = "counted" /\ walker'[v].dir = walker[v].dir
        /\ walker'[v].subs = walker[v].subs /\ walker'[v].files = walker[v].files
    BY <1>3, <1>w DEF W!CountChild, W!Walker
  <2>3. \A d : Carries(v, d)
    BY <2>1, <2>2 DEF Carries, Brings, Hands
  <2>4. UNCHANGED <<walked, queue, found, output, lost, caller, dropped>>
    BY <1>3 DEF W!CountChild, W!ends, W!ghosts
  <2> QED
    BY <2>1, <2>2, <2>3, <2>4, DeliveryKept
<1>4. ASSUME NEW v \in Walkers, W!AddChild(v) PROVE DeliveryInv'
  <2>1. walker[v].at = "counted" /\ walker[v].exit = "next" /\ v \in Holders
    BY <1>4 DEF W!AddChild, EndInv, Holders
  <2>2. ~closed
    BY <2>1, HolderIsCounted
  <2>3. PICK s \in walker[v].subs :
          /\ queue' = queue \cup {s}
          /\ walker' = [walker EXCEPT ![v] = [@ EXCEPT !.at = "listed",
                                                    !.subs = walker[v].subs \ {s}]]
    BY <1>4, <2>2 DEF W!AddChild
  <2>4. /\ walker'[v].at = "listed" /\ walker'[v].dir = walker[v].dir
        /\ walker'[v].subs = walker[v].subs \ {s} /\ walker'[v].files = walker[v].files
    BY <2>3, <1>w DEF W!Walker
  <2>5. \A w \in Walkers \ {v} : walker'[w] = walker[w]
    BY <2>3, <1>w
  <2>6. UNCHANGED <<walked, found, output, lost, caller, dropped>>
    BY <1>4 DEF W!AddChild, W!ends, W!ghosts
  <2>7. \A d : Carries(v, d)
    BY <2>1, <2>3, <2>4 DEF Carries, Brings, Hands
  <2> QED
    BY <2>1, <2>3, <2>5, <2>6, <2>7, DeliveryKept
<1>5. ASSUME NEW v \in Walkers, W!AddFile(v) PROVE DeliveryInv'
  <2>1. walker[v].at = "listed" /\ walker[v].exit = "next" /\ walker[v] \in W!Walker
    BY <1>5, <1>w DEF W!AddFile, EndInv
  <2>2. UNCHANGED <<queue, walked, found, lost, caller, dropped>>
    BY <1>5 DEF W!AddFile, W!ends, W!ghosts
  <2>3. CASE cancelled
    <3>1. caller' = "left"
      BY <2>1, <2>2, <2>3, CancelledByCaller
    <3> QED
      BY <3>1 DEF DeliveryInv
  <2>4. CASE ~cancelled
    <3> PICK f \in walker[v].files : /\ output' = output \cup {f}
                                     /\ walker' = [walker EXCEPT ![v].files = @ \ {f}]
      BY <1>5, <2>4 DEF W!AddFile
    <3>1. /\ walker'[v].at = "listed" /\ walker'[v].dir = walker[v].dir
          /\ walker'[v].subs = walker[v].subs /\ walker'[v].files = walker[v].files \ {f}
      BY <1>w, <2>1 DEF W!Walker
    <3>2. \A w \in Walkers \ {v} : walker'[w] = walker[w]
      BY <1>w
    <3>3. \A d : Carries(v, d)
      BY <2>1, <3>1 DEF Carries, Brings, Hands
    <3> QED
      BY <2>1, <2>2, <3>2, <3>3, DeliveryKept
  <2> QED
    BY <2>3, <2>4
<1>6. ASSUME NEW v \in Walkers, W!Fault(v) PROVE DeliveryInv'
  <2>1. walker'[v].exit = "fault"
    BY <1>6, <1>w DEF W!Fault, W!Walker
  <2> QED
    BY <2>1 DEF DeliveryInv, NoFault
<1>7. ASSUME NEW v \in Walkers, W!LeaveDir(v) PROVE DeliveryInv'
  <2>1. /\ \/ walker[v].at = "leaving"
           \/ walker[v].at = "listed" /\ walker[v].subs = {} /\ walker[v].files = {}
        /\ walker[v].exit \in W!Exits
    BY <1>7, <1>w DEF W!LeaveDir, W!Leaves, W!Walker
  <2>2. walker'[v] = W!AfterExit(walker[v].exit) /\ \A w \in Walkers \ {v} : walker'[w] = walker[w]
    BY <1>7, <1>w DEF W!LeaveDir
  <2>3. NoFault' => walker[v].exit # "fault"
    BY <2>2 DEF W!AfterExit, NoFault, W!Waiting
  <2>4. \A d : Carries(v, d)
    BY <2>1 DEF Carries, Brings, Hands
  <2>5. UNCHANGED <<walked, queue, found, output, lost, caller, dropped>>
    BY <1>7 DEF W!LeaveDir, W!ends, W!ghosts
  <2> QED
    BY <2>1, <2>2, <2>3, <2>4, <2>5, DeliveryKept
<1>8. ASSUME NEW v \in Walkers, W!Exit(v) PROVE DeliveryInv'
  <2>1. walker[v].at = "waiting" /\ walker[v].exit = "next"
    BY <1>8 DEF W!Exit, EndInv
  <2>2. \A w \in Walkers \ {v} : walker'[w] = walker[w]
    BY <1>8, <1>w DEF W!Exit
  <2>3. \A d : Carries(v, d)
    BY <2>1 DEF Carries, Brings, Hands
  <2>4. UNCHANGED <<walked, queue, found, output, lost, caller, dropped>>
    BY <1>8 DEF W!Exit, W!ends, W!ghosts
  <2> QED
    BY <2>1, <2>2, <2>3, <2>4, DeliveryKept
<1>9. ASSUME W!CountFaulted \/ W!GetFile \/ W!EndOfFiles \/ W!LeaveEarly \/ UNCHANGED W!vars
      PROVE DeliveryInv'
  <2>1. UNCHANGED <<queue, walker, walked, lost>>
    BY <1>9, OthersKeepThreads
  <2>2. found' \cup output' = found \cup output
    BY <1>9 DEF W!CountFaulted, W!GetFile, W!EndOfFiles, W!LeaveEarly, W!vars
  <2>3. caller' # "left" => caller # "left"
    BY <1>9 DEF W!CountFaulted, W!GetFile, W!EndOfFiles, W!LeaveEarly, W!vars, W!ends
  <2>4. dropped' = 0 => dropped = 0
    <3>1. Cardinality({v \in Walkers : walker[v].at = "faulted"}) \in Nat
      BY SameSizes, FS_Subset, FS_CardinalityType DEF W!Assumptions
    <3> QED
      BY <1>9, <1>w, <3>1, SameSizes DEF W!CountFaulted, W!GetFile, W!EndOfFiles, W!LeaveEarly, W!vars, W!ends
  <2>5. NoFault' = NoFault
    BY <2>1 DEF NoFault
  <2>6. \A d : FolderIsKept(d) => FolderIsKept(d)'
    BY <2>1, <2>2 DEF FolderIsKept, Brings, Hands
  <2> QED
    BY <2>1, <2>3, <2>4, <2>5, <2>6 DEF DeliveryInv
<1> QED
  BY <1>1, <1>2, <1>3, <1>4, <1>5, <1>6, <1>7, <1>8, <1>9 DEF W!Next, W!Walk, W!WorkOn
-----------------------------------------------------------------------------
(* The theorems *)

\* The walk starts right.
LEMMA Start ==
  ASSUME W!Assumptions, W!Init
  PROVE  IInv
<1>1. W!TypeOK
  BY DEF W!Init, W!TypeOK, W!Assumptions, W!Walker, W!Waiting, W!Exits
<1>2. Holders = {} /\ Counters = {}
  BY DEF W!Init, Holders, Counters, W!Waiting
<1>3. CounterInv
  BY <1>2, FS_Singleton, FS_EmptySet DEF W!Init, CounterInv
<1>4. TreeInv
  BY <1>2 DEF W!Init, TreeInv
<1>5. EndInv
  BY DEF W!Init, EndInv, W!Waiting
<1>6. DeliveryInv
  BY DEF W!Init, DeliveryInv
<1> QED
  BY <1>1, <1>3, <1>4, <1>5, <1>6 DEF IInv

\* At the end the queue is empty and no thread holds a folder, so what was kept
\* has arrived.
LEMMA EndIsComplete ==
  ASSUME W!Assumptions, IInv
  PROVE  W!WalkIsComplete
<1> SUFFICES ASSUME caller = "ended", dropped = 0
             PROVE  /\ Root \in walked
                    /\ \A d \in walked \ lost : Sub[d] \subseteq walked /\ In[d] \subseteq found
  BY DEF W!WalkIsComplete
<1>1. output = {} /\ \A v \in Walkers : walker[v].at = "exited" /\ walker[v].exit = "next"
  BY DEF IInv, EndInv, W!AllExited
<1>2. queue = {}
  BY <1>1 DEF IInv, EndInv, W!Assumptions
<1>3. NoFault
  BY <1>1 DEF NoFault
<1>4. Root \in walked \cup queue /\ \A d \in walked \ lost : FolderIsKept(d)
  BY <1>3 DEF IInv, DeliveryInv
<1>5. \A v \in Walkers, d \in walked : /\ \A s \in Sub[d] : ~Brings(v, d, s)
                                       /\ \A f \in In[d] : ~Hands(v, d, f)
  BY <1>1 DEF Brings, Hands
<1> QED
  BY <1>1, <1>2, <1>4, <1>5 DEF FolderIsKept

\* The inductive invariant: the counter, the tree, the end and the delivery.
LEMMA Invariance ==
  ASSUME W!Assumptions
  PROVE  W!Spec => []IInv
<1>1. W!Init => IInv
  BY Start
<1>2. IInv /\ [W!Next]_(W!vars) => IInv'
  BY TypeStep, CounterStep, TreeStep, EndStep, DeliveryStep DEF IInv
<1> QED
  BY <1>1, <1>2, PTL DEF W!Spec

\* The variables have their types: the counter of folders never falls below zero,
\* and only folders of the tree are taken up (FileWalker.WalkParallel).
THEOREM WalkTypeCorrect ==
  ASSUME W!Assumptions
  PROVE  W!Spec => []W!TypeOK
<1>1. IInv => W!TypeOK
  BY DEF IInv
<1> QED
  BY <1>1, Invariance, PTL

\* A walk that ended and counted nothing as dropped has delivered the whole tree,
\* but for folders that were gone or came back empty, whatever the tree, the number
\* of threads, the size of the buffer and the errors met on the way.
THEOREM WalkComplete ==
  ASSUME W!Assumptions
  PROVE  W!Spec => []W!WalkIsComplete
<1>1. IInv => W!WalkIsComplete
  BY EndIsComplete
<1> QED
  BY <1>1, Invariance, PTL
\* A step of a task leaves the walk alone.
LEMMA TasksLeaveWalk ==
  ASSUME NEW t \in Tasks, WorkOn(t) \/ SkipFile(t) \/ FileFails(t) \/ FlushFullFails(t)
  PROVE  UNCHANGED walk
BY DEF WorkOn, StartTask, NextFile, AwaitBytes, IndexFile, FlushFull, ReleaseBytes, Retire,
       SkipFile, FileFails, FlushFullFails

\* So does a step of the build itself.
LEMMA BuildLeavesWalk ==
  ASSUME GoOn \/ Cancel \/ PublishFails \/ \E w \in Pool : MergeFails(w)
  PROVE  UNCHANGED walk
BY DEF GoOn, Measured, BeginLoop, EndLoop, EndMerge, CleanUp, MergeWorker, MergeFails, Publish,
       SaveLedger, Cancel, PublishFails

\* The build's steps are steps of the walk, or leave it alone.
LEMMA WalkSteps ==
  ASSUME [Next]_vars
  PROVE  [W!Next]_(W!vars)
<1>1. ASSUME NEW v \in Walkers, WalkOn(v) \/ Walking(W!Fault(v)) PROVE W!Next
  BY <1>1 DEF WalkOn, Walking, W!Next, W!Walk
<1>2. ASSUME CallerOn \/ CountFaulted \/ LeaveEarly PROVE W!Next
  BY <1>2 DEF CallerOn, CountFaulted, LeaveEarly, Walking, W!Next, W!Walk
<1>3. ASSUME UNCHANGED walk PROVE UNCHANGED W!vars
  BY <1>3 DEF walk, W!vars
<1>4. ASSUME UNCHANGED vars PROVE UNCHANGED walk
  BY <1>4 DEF vars
<1> QED
  BY <1>1, <1>2, <1>3, <1>4, TasksLeaveWalk, BuildLeavesWalk DEF Next

\* Whatever the loop, the merge, a cancellation or a failure do meanwhile, a walk that
\* ended and counted nothing as dropped has delivered every file of the tree, but
\* for folders that were gone or came back empty (RepositoryIndexer.BuildLocked over
\* FileWalker.WalkParallel).
THEOREM BuildWalkComplete ==
  Spec => []WalkIsComplete
<1>1. Init => W!Init
  BY DEF Init
<1>2. W!Assumptions
  BY Assumptions DEF Assumptions
<1>3. Spec => W!Spec
  BY <1>1, WalkSteps, PTL DEF Spec, W!Spec
<1> QED
  BY <1>2, <1>3, WalkComplete, PTL DEF WalkIsComplete
-----------------------------------------------------------------------------
(* The budget of bytes *)

\* The constants of the loop.
LEMMA LoopConstants ==
  /\ IsFiniteSet(Files) /\ Cardinality(Files) \in Nat
  /\ IsFiniteSet(Tasks) /\ Cardinality(Tasks) \in Nat
  /\ Budget \in Nat \ {0} /\ MaxFaults \in Nat
  /\ \A f \in Files : Footprint[f] \in Nat
  /\ \A k \in Kinds : Full[k] \in Nat \ {0}
  /\ None \notin Files /\ Gone \notin Files /\ None \notin Pool
<1>1. Budget \in Nat \ {0}
  BY Assumptions DEF Assumptions, Reads!BudgetAssumption
<1>2. IsFiniteSet(Files) /\ IsFiniteSet(Tasks)
  BY Assumptions DEF Assumptions
<1>3. Cardinality(Files) \in Nat /\ Cardinality(Tasks) \in Nat
  BY <1>2, FS_CardinalityType
<1> QED
  BY <1>1, <1>2, <1>3, Assumptions DEF Assumptions

\* The bytes reserved under the requests r.
BytesOf(r) == {b \in Tasks \X (1 .. Budget) : r[b[1]].at = "granted" /\ b[2] <= r[b[1]].need}

\* They are finitely many.
LEMMA BytesAreFinite ==
  ASSUME NEW r
  PROVE  IsFiniteSet(BytesOf(r)) /\ Cardinality(BytesOf(r)) \in Nat
<1>1. 1 \in Int /\ Budget \in Int
  BY LoopConstants
<1>2. IsFiniteSet(1 .. Budget)
  BY <1>1, FS_Interval
<1>3. IsFiniteSet(Tasks \X (1 .. Budget))
  BY <1>2, LoopConstants, FS_Product
<1>4. BytesOf(r) \subseteq Tasks \X (1 .. Budget)
  BY DEF BytesOf
<1>5. IsFiniteSet(BytesOf(r))
  BY <1>3, <1>4, FS_Subset
<1> QED
  BY <1>5, FS_CardinalityType

\* Where nothing is granted there are none.
LEMMA NoBytes ==
  ASSUME NEW r, \A t \in Tasks : r[t].at # "granted"
  PROVE  Cardinality(BytesOf(r)) = 0
<1>1. BytesOf(r) = {}
  BY DEF BytesOf
<1> QED
  BY <1>1, FS_EmptySet

\* Requests that differ only in who sleeps reserve the same.
LEMMA SameBytes ==
  ASSUME NEW r, NEW q,
         \A t \in Tasks : /\ r[t].at = "granted" <=> q[t].at = "granted"
                          /\ r[t].need = q[t].need
  PROVE  BytesOf(q) = BytesOf(r)
BY DEF BytesOf

\* One grant more is as many bytes more as it needs.
LEMMA Granted ==
  ASSUME NEW r, NEW q, NEW t \in Tasks, NEW n \in 0 .. Budget,
         r[t].at # "granted", q[t].at = "granted", q[t].need = n,
         \A u \in Tasks \ {t} : /\ r[u].at = "granted" <=> q[u].at = "granted"
                                /\ r[u].need = q[u].need
  PROVE  Cardinality(BytesOf(q)) = Cardinality(BytesOf(r)) + n
<1> DEFINE X == {t} \X (1 .. n)
<1>1. n \in Nat /\ 1 \in Int /\ n \in Int
  BY LoopConstants
<1>2. IsFiniteSet(1 .. n) /\ Cardinality(1 .. n) = n
  <2>1. IsFiniteSet(1 .. n) /\ Cardinality(1 .. n) = IF 1 > n THEN 0 ELSE n - 1 + 1
    BY <1>1, FS_Interval
  <2> QED
    BY <1>1, <2>1
<1>3. IsFiniteSet(X) /\ Cardinality(X) = n
  <2>1. IsFiniteSet({t}) /\ Cardinality({t}) = 1
    BY FS_Singleton
  <2>2. IsFiniteSet(X) /\ Cardinality(X) = 1 * n
    BY <1>2, <2>1, FS_Product
  <2> QED
    BY <1>1, <2>2
<1>4. BytesOf(q) = BytesOf(r) \cup X
  <2>1. ASSUME NEW b \in BytesOf(q) PROVE b \in BytesOf(r) \cup X
    <3>1. b[1] \in Tasks /\ b[2] \in 1 .. Budget /\ b = <<b[1], b[2]>>
      BY DEF BytesOf
    <3>2. CASE b[1] = t
      <4>1. b[2] <= n
        BY <3>2 DEF BytesOf
      <4>2. b[2] \in 1 .. n
        BY <1>1, <3>1, <4>1, LoopConstants
      <4> QED
        BY <3>1, <3>2, <4>2
    <3>3. CASE b[1] # t
      BY <3>1, <3>3 DEF BytesOf
    <3> QED
      BY <3>2, <3>3
  <2>2. ASSUME NEW b \in BytesOf(r) PROVE b \in BytesOf(q)
    <3>1. b[1] \in Tasks /\ b[1] # t
      BY DEF BytesOf
    <3> QED
      BY <3>1 DEF BytesOf
  <2>3. ASSUME NEW b \in X PROVE b \in BytesOf(q)
    <3>1. b[1] = t /\ b[2] \in 1 .. n /\ b = <<b[1], b[2]>>
      OBVIOUS
    <3>2. b[2] \in 1 .. Budget /\ b[2] <= n
      BY <1>1, <3>1, LoopConstants
    <3> QED
      BY <3>1, <3>2 DEF BytesOf
  <2> QED
    BY <2>1, <2>2, <2>3
<1>5. BytesOf(r) \cap X = {}
  BY DEF BytesOf
<1>6. Cardinality(BytesOf(r)) \in Nat /\ IsFiniteSet(BytesOf(r))
  BY BytesAreFinite
<1> HIDE DEF X
<1>7. Cardinality(BytesOf(q)) = Cardinality(BytesOf(r)) + Cardinality(X) - Cardinality({})
  BY <1>3, <1>4, <1>5, <1>6, FS_Union
<1> QED
  BY <1>1, <1>3, <1>6, <1>7, FS_EmptySet
-----------------------------------------------------------------------------
(* The invariant of the loop *)

BudgetTypes ==
  /\ available \in 0 .. Budget /\ nextTicket \in Nat /\ serving \in 0 .. nextTicket
  /\ request \in [Tasks -> Reads!Request]
PoolTypes == task \in [Tasks -> Task] /\ idle \subseteq workers /\ workers \subseteq Pool

\* The bytes of the granted requests are those that are missing; a ticket was given out.
BudgetInv ==
  /\ available + Cardinality(BytesOf(request)) = Budget
  /\ \A t \in Tasks : request[t].at # "none" => request[t].ticket < nextTicket

\* A task has a worker, and from the request to the release the bytes of its file.
TaskInv ==
  \A t \in Tasks :
    /\ task[t].at = "off" => task[t] = Off
    /\ task[t].at # "off" => task[t].worker \in workers \ idle
    /\ task[t].at \in {"off", "ready"} => request[t].at = "none"
    /\ task[t].at \notin {"off", "ready"} =>
         /\ task[t].file \in Files /\ request[t].at # "none"
         /\ request[t].need = Reads!Reserve(Footprint[task[t].file])
    /\ task[t].at \in {"flushing", "releasing"} => request[t].at = "granted"

\* The workers are numbered as they are created; each is idle or in one task's hands.
PoolInv ==
  /\ workers = 1 .. Cardinality(workers)
  /\ \A w \in workers \ idle : \E t \in Tasks : task[t].worker = w
  /\ \A t, u \in Tasks : t # u /\ task[t].worker = task[u].worker => task[t].worker = None

LoopInv == BudgetTypes /\ PoolTypes /\ BudgetInv /\ TaskInv /\ PoolInv
-----------------------------------------------------------------------------
(* The loop's tasks *)

\* Waking sleepers changes nothing but that.
LEMMA Pulsed ==
  ASSUME NEW r \in [Tasks -> Reads!Request], NEW q, q = Reads!PulseAll(r)
  PROVE  /\ q \in [Tasks -> Reads!Request]
         /\ \A t \in Tasks : /\ q[t].need = r[t].need /\ q[t].ticket = r[t].ticket
                             /\ q[t].at = "granted" <=> r[t].at = "granted"
                             /\ q[t].at = "none" <=> r[t].at = "none"
<1>1. ASSUME NEW t \in Tasks
      PROVE  /\ q[t] = IF r[t].at = "asleep" THEN [r[t] EXCEPT !.at = "awake"] ELSE r[t]
             /\ r[t] \in Reads!Request
  BY DEF Reads!PulseAll
<1>2. ASSUME NEW t \in Tasks
      PROVE  /\ q[t] \in Reads!Request
             /\ q[t].need = r[t].need /\ q[t].ticket = r[t].ticket
             /\ q[t].at = "granted" <=> r[t].at = "granted"
             /\ q[t].at = "none" <=> r[t].at = "none"
  BY <1>1 DEF Reads!Request
<1> QED
  BY <1>2 DEF Reads!PulseAll

\* A reservation is within the budget.
LEMMA Reservation ==
  ASSUME NEW f \in Files
  PROVE  Reads!Reserve(Footprint[f]) \in 0 .. Budget
BY LoopConstants DEF Reads!Reserve

\* Asking: the request waits with the next ticket.
LEMMA AcquireStep ==
  ASSUME BudgetTypes, BudgetInv, NEW t \in Tasks, NEW f \in Files, Reads!Acquire(t, Footprint[f])
  PROVE  /\ (BudgetTypes /\ BudgetInv)' /\ request'[t].at = "awake"
         /\ request'[t].need = Reads!Reserve(Footprint[f])
         /\ \A u \in Tasks \ {t} : request'[u] = request[u]
<1> DEFINE q == [at |-> "awake", ticket |-> nextTicket, need |-> Reads!Reserve(Footprint[f])]
<1>1. /\ request' = [request EXCEPT ![t] = q] /\ request[t].at = "none"
      /\ nextTicket' = nextTicket + 1 /\ UNCHANGED <<available, serving>>
  BY DEF Reads!Acquire
<1>2. q \in Reads!Request /\ nextTicket \in Nat
  BY Reservation DEF Reads!Request, BudgetTypes
<1>3. /\ request' \in [Tasks -> Reads!Request] /\ request'[t] = q
      /\ \A u \in Tasks \ {t} : request'[u] = request[u]
  BY <1>1, <1>2 DEF BudgetTypes
<1>4. request'[t].at = "awake" /\ request'[t].ticket = nextTicket
  BY <1>3
<1>5. BytesOf(request') = BytesOf(request)
  BY <1>1, <1>3, <1>4 DEF BytesOf
<1>6. BudgetTypes'
  BY <1>1, <1>2, <1>3 DEF BudgetTypes
<1>7. ASSUME NEW u \in Tasks, request'[u].at # "none" PROVE request'[u].ticket < nextTicket'
  <2>1. CASE u = t
    BY <1>1, <1>2, <1>4, <2>1
  <2>2. CASE u # t
    <3>1. request[u].ticket < nextTicket /\ request[u].ticket \in Nat
      BY <1>3, <1>7, <2>2 DEF BudgetInv, BudgetTypes, Reads!Request
    <3> QED
      BY <1>1, <1>2, <1>3, <2>2, <3>1
  <2> QED
    BY <2>1, <2>2
<1>8. BudgetInv'
  BY <1>1, <1>5, <1>7 DEF BudgetInv
<1> QED
  BY <1>3, <1>6, <1>8

\* The head of the line gets its bytes, or goes to sleep.
LEMMA AwaitStep ==
  ASSUME BudgetTypes, BudgetInv, NEW t \in Tasks, Reads!TakeBytes(t) \/ Reads!Wait(t)
  PROVE  /\ (BudgetTypes /\ BudgetInv)'
         /\ \A u \in Tasks : /\ request'[u].at = "none" <=> request[u].at = "none"
                             /\ request[u].at = "granted" => request'[u].at = "granted"
                             /\ request'[u].need = request[u].need
<1>1. request[t] \in Reads!Request /\ request \in [Tasks -> Reads!Request]
  BY DEF BudgetTypes
<1>2. CASE Reads!Wait(t)
  <2>1. /\ request[t].at = "awake" /\ request' = [request EXCEPT ![t].at = "asleep"]
        /\ UNCHANGED <<available, nextTicket, serving>>
    BY <1>2 DEF Reads!Wait
  <2>2. [request[t] EXCEPT !.at = "asleep"] \in Reads!Request
    BY <1>1 DEF Reads!Request
  <2>3. /\ request' \in [Tasks -> Reads!Request]
        /\ request'[t] = [request[t] EXCEPT !.at = "asleep"]
        /\ \A u \in Tasks \ {t} : request'[u] = request[u]
    BY <1>1, <2>1, <2>2
  <2>4. /\ request'[t].at = "asleep" /\ request'[t].need = request[t].need
        /\ request'[t].ticket = request[t].ticket
    BY <1>1, <2>3 DEF Reads!Request
  <2>5. \A u \in Tasks : /\ request'[u].at = "none" <=> request[u].at = "none"
                         /\ request[u].at = "granted" <=> request'[u].at = "granted"
                         /\ request'[u].need = request[u].need
                         /\ request'[u].ticket = request[u].ticket
    BY <2>1, <2>3, <2>4
  <2>6. BytesOf(request') = BytesOf(request)
    BY <2>5, SameBytes
  <2>7. BudgetTypes' /\ BudgetInv'
    BY <2>1, <2>3, <2>5, <2>6 DEF BudgetTypes, BudgetInv
  <2> QED
    BY <2>5, <2>7
<1>3. CASE Reads!TakeBytes(t)
  <2> DEFINE r == [request EXCEPT ![t].at = "granted"]
  <2>1. /\ request[t].at = "awake" /\ request[t].ticket = serving /\ available >= request[t].need
        /\ available' = available - request[t].need /\ serving' = serving + 1
        /\ request' = Reads!PulseAll(r) /\ nextTicket' = nextTicket
    BY <1>3 DEF Reads!TakeBytes, Reads!MayTake
  <2>2. [request[t] EXCEPT !.at = "granted"] \in Reads!Request
    BY <1>1 DEF Reads!Request
  <2>3. /\ r \in [Tasks -> Reads!Request]
        /\ r[t] = [request[t] EXCEPT !.at = "granted"]
        /\ \A u \in Tasks \ {t} : r[u] = request[u]
    BY <1>1, <2>2
  <2>4. /\ r[t].at = "granted" /\ r[t].need = request[t].need /\ r[t].ticket = request[t].ticket
    BY <1>1, <2>3 DEF Reads!Request
  <2> HIDE DEF r
  <2>5. /\ request' \in [Tasks -> Reads!Request]
        /\ \A u \in Tasks : /\ request'[u].need = r[u].need /\ request'[u].ticket = r[u].ticket
                            /\ request'[u].at = "granted" <=> r[u].at = "granted"
                            /\ request'[u].at = "none" <=> r[u].at = "none"
    BY <2>1, <2>3, Pulsed
  <2>6. \A u \in Tasks : /\ request'[u].at = "none" <=> request[u].at = "none"
                         /\ request[u].at = "granted" => request'[u].at = "granted"
                         /\ request'[u].need = request[u].need
                         /\ request'[u].ticket = request[u].ticket
    BY <2>1, <2>3, <2>4, <2>5
  <2>7. Cardinality(BytesOf(request')) = Cardinality(BytesOf(request)) + request[t].need
    <3>1. request[t].need \in 0 .. Budget
      BY <1>1 DEF Reads!Request
    <3>2. request[t].at # "granted" /\ request'[t].at = "granted"
      BY <2>1, <2>4, <2>5
    <3>3. \A u \in Tasks \ {t} : /\ request[u].at = "granted" <=> request'[u].at = "granted"
                                 /\ request[u].need = request'[u].need
      BY <2>3, <2>5
    <3>4. request'[t].need = request[t].need
      BY <2>6
    <3> QED
      BY <3>1, <3>2, <3>3, <3>4, Granted
  <2>8. /\ available \in Nat /\ request[t].need \in Nat /\ available <= Budget /\ Budget \in Nat
        /\ Cardinality(BytesOf(request)) \in Nat /\ serving \in Nat /\ nextTicket \in Nat
    BY <1>1, BytesAreFinite, LoopConstants DEF BudgetTypes, Reads!Request
  <2>9. serving < nextTicket
    BY <2>1 DEF BudgetInv
  <2>10. available' \in 0 .. Budget /\ serving' \in 0 .. nextTicket'
    BY <2>1, <2>8, <2>9
  <2>11. available' + Cardinality(BytesOf(request')) = Budget
    BY <2>1, <2>7, <2>8 DEF BudgetInv
  <2>12. BudgetTypes'
    BY <2>1, <2>5, <2>8, <2>10 DEF BudgetTypes
  <2>13. BudgetInv'
    BY <2>1, <2>6, <2>11 DEF BudgetInv
  <2> QED
    BY <2>6, <2>12, <2>13
<1> QED
  BY <1>2, <1>3

\* The bytes of a file are given back, all that were taken and no more.
LEMMA ReleaseStep ==
  ASSUME BudgetTypes, BudgetInv, NEW t \in Tasks, NEW f \in Files, Reads!Release(t, Footprint[f]),
         request[t].need = Reads!Reserve(Footprint[f])
  PROVE  /\ (BudgetTypes /\ BudgetInv)' /\ request'[t].at = "none"
         /\ \A u \in Tasks \ {t} : /\ request'[u].at = "none" <=> request[u].at = "none"
                                   /\ request[u].at = "granted" => request'[u].at = "granted"
                                   /\ request'[u].need = request[u].need
<1> DEFINE r == [request EXCEPT ![t] = Reads!NoRequest]
<1>1. request[t] \in Reads!Request /\ request \in [Tasks -> Reads!Request]
  BY DEF BudgetTypes
<1>2. /\ request[t].at = "granted" /\ request' = Reads!PulseAll(r)
      /\ available' = available + request[t].need /\ UNCHANGED <<nextTicket, serving>>
  BY DEF Reads!Release, Reads!Returned
<1>3. Reads!NoRequest \in Reads!Request /\ Reads!NoRequest.at = "none"
  BY LoopConstants DEF Reads!NoRequest, Reads!Request
<1>4. r \in [Tasks -> Reads!Request] /\ r[t].at = "none" /\ \A u \in Tasks \ {t} : r[u] = request[u]
  BY <1>1, <1>3
<1> HIDE DEF r
<1>5. /\ request' \in [Tasks -> Reads!Request]
      /\ \A u \in Tasks : /\ request'[u].need = r[u].need /\ request'[u].ticket = r[u].ticket
                          /\ request'[u].at = "granted" <=> r[u].at = "granted"
                          /\ request'[u].at = "none" <=> r[u].at = "none"
  BY <1>2, <1>4, Pulsed
<1>6. request'[t].at = "none" /\ request'[t].at # "granted"
  BY <1>4, <1>5
<1>7. \A u \in Tasks \ {t} : /\ request'[u].at = "none" <=> request[u].at = "none"
                             /\ request'[u].at = "granted" <=> request[u].at = "granted"
                             /\ request'[u].need = request[u].need
                             /\ request'[u].ticket = request[u].ticket
  BY <1>4, <1>5
<1>8. Cardinality(BytesOf(request)) = Cardinality(BytesOf(request')) + request[t].need
  <2>1. request[t].need \in 0 .. Budget
    BY <1>1 DEF Reads!Request
  <2> QED
    BY <1>2, <1>6, <1>7, <2>1, Granted
<1>9. /\ available \in Nat /\ request[t].need \in Nat /\ Budget \in Nat
      /\ Cardinality(BytesOf(request)) \in Nat /\ Cardinality(BytesOf(request')) \in Nat
  BY <1>1, BytesAreFinite, LoopConstants DEF BudgetTypes, Reads!Request
<1>10. available' + Cardinality(BytesOf(request')) = Budget
  BY <1>2, <1>8, <1>9 DEF BudgetInv
<1>11. available' \in 0 .. Budget
  BY <1>2, <1>9, <1>10
<1>12. BudgetTypes'
  BY <1>2, <1>5, <1>11 DEF BudgetTypes
<1>13. BudgetInv'
  BY <1>2, <1>6, <1>7, <1>10 DEF BudgetInv
<1> QED
  BY <1>6, <1>7, <1>12, <1>13
-----------------------------------------------------------------------------
(* The pool *)

\* A task goes on to another stage with its file and its worker.
LEMMA GoesOn ==
  ASSUME PoolTypes, NEW t \in Tasks, task[t].at # "off", NEW at \in {"flushing", "releasing"}, Go(t, at)
  PROVE  /\ task' \in [Tasks -> Task]
         /\ task'[t].at = at /\ task'[t].file = task[t].file /\ task'[t].worker = task[t].worker
         /\ \A u \in Tasks \ {t} : task'[u] = task[u]
<1>1. task[t] \in Task /\ task' = [task EXCEPT ![t].at = at] /\ task \in [Tasks -> Task]
  BY DEF PoolTypes, Go
<1>2. /\ [task[t] EXCEPT !.at = at] \in Task
      /\ [task[t] EXCEPT !.at = at].at = at
      /\ [task[t] EXCEPT !.at = at].file = task[t].file
      /\ [task[t] EXCEPT !.at = at].worker = task[t].worker
  BY <1>1 DEF Task
<1>3. task'[t] = [task[t] EXCEPT !.at = at] /\ \A u \in Tasks \ {t} : task'[u] = task[u]
  BY <1>1
<1> QED
  BY <1>1, <1>2, <1>3

\* So do the loop's facts, once its bytes are granted.
LEMMA GoKeepsLoop ==
  ASSUME LoopInv, NEW t \in Tasks, task[t].at \notin {"off", "ready"}, request[t].at = "granted",
         NEW at \in {"flushing", "releasing"}, Go(t, at), UNCHANGED <<budget, pool>>
  PROVE  LoopInv'
<1>1. /\ task' \in [Tasks -> Task]
      /\ task'[t].at = at /\ task'[t].file = task[t].file /\ task'[t].worker = task[t].worker
      /\ \A u \in Tasks \ {t} : task'[u] = task[u]
  BY GoesOn DEF LoopInv
<1>2. UNCHANGED <<available, nextTicket, serving, request, idle, workers>>
  BY DEF budget, pool
<1>3. (BudgetTypes /\ BudgetInv)'
  BY <1>2 DEF LoopInv, BudgetTypes, BudgetInv
<1>4. PoolTypes'
  BY <1>1, <1>2 DEF LoopInv, PoolTypes
<1>5. TaskInv'
  <2> SUFFICES ASSUME NEW u \in Tasks
               PROVE  /\ task'[u].at = "off" => task'[u] = Off
                      /\ task'[u].at # "off" => task'[u].worker \in workers \ idle
                      /\ task'[u].at \in {"off", "ready"} => request[u].at = "none"
                      /\ task'[u].at \notin {"off", "ready"} =>
                           /\ task'[u].file \in Files /\ request[u].at # "none"
                           /\ request[u].need = Reads!Reserve(Footprint[task'[u].file])
                      /\ task'[u].at \in {"flushing", "releasing"} => request[u].at = "granted"
    BY <1>2 DEF TaskInv
  <2>1. CASE u = t
    BY <1>1, <2>1 DEF LoopInv, TaskInv
  <2>2. CASE u # t
    BY <1>1, <2>2 DEF LoopInv, TaskInv
  <2> QED
    BY <2>1, <2>2
<1>6. PoolInv'
  <2>1. \A u \in Tasks : task'[u].worker = task[u].worker
    BY <1>1
  <2> QED
    BY <1>2, <2>1 DEF LoopInv, PoolInv
<1> QED
  BY <1>3, <1>4, <1>5, <1>6 DEF LoopInv

\* With no idle worker there are fewer workers than tasks while a task is off.
LEMMA RoomInPool ==
  ASSUME LoopInv, NEW t \in Tasks, task[t].at = "off", idle = {}
  PROVE  /\ IsFiniteSet(workers) /\ Cardinality(workers) \in Nat
         /\ Cardinality(workers) + 1 \in Pool /\ Cardinality(workers) + 1 \notin workers
         /\ Cardinality(workers \cup {Cardinality(workers) + 1}) = Cardinality(workers) + 1
         /\ workers \cup {Cardinality(workers) + 1} = 1 .. Cardinality(workers) + 1
<1> DEFINE T == Tasks \ {t}
           f == [w \in workers |-> CHOOSE u \in T : task[u].worker = w]
           n == Cardinality(workers)
<1>1. IsFiniteSet(workers)
  <2>1. 1 \in Int /\ Cardinality(Tasks) \in Int
    BY LoopConstants
  <2>2. IsFiniteSet(Pool)
    BY <2>1, FS_Interval DEF Pool
  <2> QED
    BY <2>2, FS_Subset DEF LoopInv, PoolTypes
<1>2. n \in Nat
  BY <1>1, FS_CardinalityType
<1>3. IsFiniteSet(T) /\ Cardinality(T) = Cardinality(Tasks) - 1
  BY LoopConstants, FS_RemoveElement
<1>4. ASSUME NEW w \in workers PROVE \E u \in T : task[u].worker = w
  <2>1. PICK u \in Tasks : task[u].worker = w
    BY DEF LoopInv, PoolInv
  <2>2. task[t].worker = None
    BY DEF LoopInv, TaskInv, Off
  <2>3. w # None
    BY LoopConstants DEF LoopInv, PoolTypes
  <2> QED
    BY <2>1, <2>2, <2>3
<1>5. \A w \in workers : f[w] \in T /\ task[f[w]].worker = w
  BY <1>4
<1>6. f \in [workers -> T]
  BY <1>5
<1>7. ~\E v, w \in workers : v # w /\ f[v] = f[w]
  BY <1>5
<1> HIDE DEF f, T
<1>8. ~(Cardinality(T) < n)
  BY <1>1, <1>3, <1>6, <1>7, FS_PigeonHole
<1>9. n + 1 \in 1 .. Cardinality(Tasks)
  BY <1>2, <1>3, <1>8, LoopConstants
<1>10. workers = 1 .. n
  BY DEF LoopInv, PoolInv
<1> HIDE DEF n
<1>11. n + 1 \notin workers /\ workers \cup {n + 1} = 1 .. n + 1
  BY <1>2, <1>10
<1>12. Cardinality(workers \cup {n + 1}) = n + 1
  BY <1>1, <1>11, FS_AddElement DEF n
<1> QED
  BY <1>1, <1>2, <1>9, <1>11, <1>12 DEF n, Pool

\* A task starts with an idle worker, or a new one.
LEMMA StartKeepsLoop ==
  ASSUME LoopInv, NEW t \in Tasks, StartTask(t)
  PROVE  LoopInv'
<1>1. /\ task[t].at = "off" /\ task[t] = Off
      /\ UNCHANGED <<available, nextTicket, serving, request>>
  BY DEF StartTask, LoopInv, TaskInv, budget
<1>2. PICK w \in IF idle # {} THEN idle ELSE {Cardinality(workers) + 1} :
        /\ task' = [task EXCEPT ![t] = [Off EXCEPT !.at = "ready", !.worker = w]]
        /\ idle' = idle \ {w} /\ workers' = workers \cup {w}
  BY DEF StartTask, StillIdle
<1>3. /\ w \in Pool /\ w # None
      /\ workers' = 1 .. Cardinality(workers')
      /\ w \in idle \/ w \notin workers
  <2>1. CASE idle # {}
    <3>1. w \in idle /\ w \in workers /\ w \in Pool /\ workers' = workers
      BY <1>2, <2>1 DEF LoopInv, PoolTypes
    <3> QED
      BY <3>1, LoopConstants DEF LoopInv, PoolInv
  <2>2. CASE idle = {}
    <3>1. w = Cardinality(workers) + 1
      BY <1>2, <2>2
    <3>2. /\ w \in Pool /\ w \notin workers /\ Cardinality(workers \cup {w}) = w
          /\ workers \cup {w} = 1 .. w
      BY <1>1, <2>2, <3>1, RoomInPool
    <3> QED
      BY <1>2, <3>2, LoopConstants
  <2> QED
    BY <2>1, <2>2
<1> DEFINE ready == [Off EXCEPT !.at = "ready", !.worker = w]
<1>4. Off \in Task
  BY DEF Off, Task
<1>5. ready \in Task /\ ready.at = "ready" /\ ready.worker = w
  BY <1>3, <1>4 DEF Task
<1>6. /\ task' \in [Tasks -> Task] /\ task'[t] = ready
      /\ \A u \in Tasks \ {t} : task'[u] = task[u]
  BY <1>2, <1>5 DEF LoopInv, PoolTypes
<1> HIDE DEF ready
<1>7. PoolTypes'
  BY <1>2, <1>3, <1>6 DEF LoopInv, PoolTypes
<1>8. (BudgetTypes /\ BudgetInv)'
  BY <1>1 DEF LoopInv, BudgetTypes, BudgetInv
<1>9. ASSUME NEW u \in Tasks \ {t} PROVE task[u].worker # w
  <2>1. CASE task[u].at = "off"
    BY <1>3, <2>1 DEF LoopInv, TaskInv, Off
  <2>2. CASE task[u].at # "off"
    <3>1. task[u].worker \in workers \ idle
      BY <2>2 DEF LoopInv, TaskInv
    <3> QED
      BY <1>3, <3>1
  <2> QED
    BY <2>1, <2>2
<1>10. TaskInv'
  <2> SUFFICES ASSUME NEW u \in Tasks
               PROVE  /\ task'[u].at = "off" => task'[u] = Off
                      /\ task'[u].at # "off" => task'[u].worker \in workers' \ idle'
                      /\ task'[u].at \in {"off", "ready"} => request[u].at = "none"
                      /\ task'[u].at \notin {"off", "ready"} =>
                           /\ task'[u].file \in Files /\ request[u].at # "none"
                           /\ request[u].need = Reads!Reserve(Footprint[task'[u].file])
                      /\ task'[u].at \in {"flushing", "releasing"} => request[u].at = "granted"
    BY <1>1 DEF TaskInv
  <2>1. CASE u = t
    <3>1. request[t].at = "none"
      BY <1>1 DEF LoopInv, TaskInv
    <3> QED
      BY <1>2, <1>5, <1>6, <2>1, <3>1
  <2>2. CASE u # t
    BY <1>2, <1>6, <2>2 DEF LoopInv, TaskInv
  <2> QED
    BY <2>1, <2>2
<1>11. PoolInv'
  <2>1. ASSUME NEW x \in workers' \ idle' PROVE \E u \in Tasks : task'[u].worker = x
    <3>1. CASE x = w
      BY <1>5, <1>6, <3>1
    <3>2. CASE x # w
      <4>1. x \in workers \ idle
        BY <1>2, <3>2
      <4>2. PICK u \in Tasks : task[u].worker = x
        BY <4>1 DEF LoopInv, PoolInv
      <4>3. u # t
        <5>1. x # None
          BY <4>1, LoopConstants DEF LoopInv, PoolTypes
        <5> QED
          BY <1>1, <4>2, <5>1 DEF Off
      <4> QED
        BY <1>6, <4>2, <4>3
    <3> QED
      BY <3>1, <3>2
  <2>2. ASSUME NEW u \in Tasks, NEW v \in Tasks, u # v, task'[u].worker = task'[v].worker
        PROVE  task'[u].worker = None
    <3>1. CASE u # t /\ v # t
      BY <1>6, <2>2, <3>1 DEF LoopInv, PoolInv
    <3>2. CASE u = t
      BY <1>5, <1>6, <1>9, <2>2, <3>2
    <3>3. CASE v = t
      BY <1>5, <1>6, <1>9, <2>2, <3>3
    <3> QED
      BY <3>1, <3>2, <3>3
  <2> QED
    BY <1>3, <2>1, <2>2 DEF PoolInv
<1> QED
  BY <1>7, <1>8, <1>10, <1>11 DEF LoopInv

\* The next file, and the request for its bytes.
LEMMA NextFileKeepsLoop ==
  ASSUME LoopInv, NEW t \in Tasks, NextFile(t), todo \subseteq Files
  PROVE  /\ LoopInv'
         /\ \E f \in todo : /\ todo' = todo \ {f} /\ task'[t].at = "asking" /\ task'[t].file = f
                            /\ \A u \in Tasks \ {t} : task'[u] = task[u]
<1>1. task[t].at = "ready" /\ UNCHANGED <<idle, workers>> /\ task \in [Tasks -> Task] /\ task[t] \in Task
  BY DEF NextFile, pool, LoopInv, PoolTypes
<1>2. PICK f \in todo : /\ todo' = todo \ {f}
                        /\ task' = [task EXCEPT ![t] = [@ EXCEPT !.at = "asking", !.file = f]]
                        /\ Reads!Acquire(t, Footprint[f])
  BY DEF NextFile
<1> DEFINE r == [task[t] EXCEPT !.at = "asking", !.file = f]
<1>3. r \in Task /\ r.at = "asking" /\ r.file = f /\ r.worker = task[t].worker
  BY <1>1 DEF Task
<1>4. task' \in [Tasks -> Task] /\ task'[t] = r /\ \A u \in Tasks \ {t} : task'[u] = task[u]
  BY <1>1, <1>2, <1>3
<1> HIDE DEF r
<1>5. /\ (BudgetTypes /\ BudgetInv)' /\ request'[t].at = "awake"
      /\ request'[t].need = Reads!Reserve(Footprint[f])
      /\ \A u \in Tasks \ {t} : request'[u] = request[u]
  BY <1>2, AcquireStep DEF LoopInv
<1>6. PoolTypes'
  BY <1>1, <1>4 DEF LoopInv, PoolTypes
<1>7. TaskInv'
  <2> SUFFICES ASSUME NEW u \in Tasks
               PROVE  /\ task'[u].at = "off" => task'[u] = Off
                      /\ task'[u].at # "off" => task'[u].worker \in workers \ idle
                      /\ task'[u].at \in {"off", "ready"} => request'[u].at = "none"
                      /\ task'[u].at \notin {"off", "ready"} =>
                           /\ task'[u].file \in Files /\ request'[u].at # "none"
                           /\ request'[u].need = Reads!Reserve(Footprint[task'[u].file])
                      /\ task'[u].at \in {"flushing", "releasing"} => request'[u].at = "granted"
    BY <1>1 DEF TaskInv
  <2>1. CASE u = t
    BY <1>1, <1>3, <1>4, <1>5, <2>1 DEF LoopInv, TaskInv
  <2>2. CASE u # t
    BY <1>4, <1>5, <2>2 DEF LoopInv, TaskInv
  <2> QED
    BY <2>1, <2>2
<1>8. PoolInv'
  <2>1. \A u \in Tasks : task'[u].worker = task[u].worker
    BY <1>3, <1>4
  <2> QED
    BY <1>1, <2>1 DEF LoopInv, PoolInv
<1> QED
  BY <1>2, <1>3, <1>4, <1>5, <1>6, <1>7, <1>8 DEF LoopInv

\* Waiting for bytes is nothing to the pool.
LEMMA AwaitKeepsLoop ==
  ASSUME LoopInv, NEW t \in Tasks, AwaitBytes(t)
  PROVE  LoopInv'
<1>1. UNCHANGED <<task, idle, workers>> /\ (Reads!TakeBytes(t) \/ Reads!Wait(t))
  BY DEF AwaitBytes, pool
<1>2. /\ (BudgetTypes /\ BudgetInv)'
      /\ \A u \in Tasks : /\ request'[u].at = "none" <=> request[u].at = "none"
                          /\ request[u].at = "granted" => request'[u].at = "granted"
                          /\ request'[u].need = request[u].need
  BY <1>1, AwaitStep DEF LoopInv
<1>3. TaskInv'
  BY <1>1, <1>2 DEF LoopInv, TaskInv
<1>4. PoolTypes' /\ PoolInv'
  BY <1>1 DEF LoopInv, PoolTypes, PoolInv
<1> QED
  BY <1>2, <1>3, <1>4 DEF LoopInv

\* A task retires: its worker is idle, and nobody else had it.
LEMMA RetiredKeepsPool ==
  ASSUME PoolTypes, PoolInv, TaskInv, NEW t \in Tasks, task[t].at # "off",
         task' = [task EXCEPT ![t] = Off], idle' = idle \cup {task[t].worker}, workers' = workers
  PROVE  /\ PoolTypes' /\ PoolInv' /\ task'[t] = Off
         /\ \A u \in Tasks \ {t} : task'[u] = task[u] /\ task[u].worker # task[t].worker
<1>1. Off \in Task /\ Off.worker = None
  BY DEF Off, Task
<1>2. /\ task' \in [Tasks -> Task] /\ task'[t] = Off
      /\ \A u \in Tasks \ {t} : task'[u] = task[u]
  BY <1>1 DEF PoolTypes
<1>3. task[t].worker \in workers /\ task[t].worker # None
  BY LoopConstants DEF TaskInv, PoolTypes
<1>4. \A u \in Tasks \ {t} : task[u].worker # task[t].worker
  BY <1>3 DEF PoolInv
<1>5. PoolTypes'
  BY <1>2, <1>3 DEF PoolTypes
<1>6. ASSUME NEW w \in workers' \ idle' PROVE \E u \in Tasks : task'[u].worker = w
  <2>1. w \in workers \ idle /\ w # task[t].worker
    BY <1>6
  <2>2. PICK u \in Tasks : task[u].worker = w
    BY <2>1 DEF PoolInv
  <2> QED
    BY <1>2, <2>1, <2>2
<1>7. ASSUME NEW u \in Tasks, NEW v \in Tasks, u # v, task'[u].worker = task'[v].worker
      PROVE  task'[u].worker = None
  BY <1>1, <1>2, <1>7 DEF PoolInv
<1>8. PoolInv'
  BY <1>6, <1>7 DEF PoolInv
<1> QED
  BY <1>2, <1>4, <1>5, <1>8

\* A task with nothing more to do retires.
LEMMA RetireKeepsLoop ==
  ASSUME LoopInv, NEW t \in Tasks, Retire(t)
  PROVE  LoopInv'
<1>1. /\ task[t].at = "ready" /\ task' = [task EXCEPT ![t] = Off]
      /\ idle' = idle \cup {task[t].worker}
      /\ UNCHANGED <<workers, available, nextTicket, serving, request>>
  BY DEF Retire, budget
<1>2. /\ PoolTypes' /\ PoolInv' /\ task'[t] = Off
      /\ \A u \in Tasks \ {t} : task'[u] = task[u] /\ task[u].worker # task[t].worker
  BY <1>1, RetiredKeepsPool DEF LoopInv
<1>3. (BudgetTypes /\ BudgetInv)'
  BY <1>1 DEF LoopInv, BudgetTypes, BudgetInv
<1>4. TaskInv'
  <2> SUFFICES ASSUME NEW u \in Tasks
               PROVE  /\ task'[u].at = "off" => task'[u] = Off
                      /\ task'[u].at # "off" => task'[u].worker \in workers \ idle'
                      /\ task'[u].at \in {"off", "ready"} => request[u].at = "none"
                      /\ task'[u].at \notin {"off", "ready"} =>
                           /\ task'[u].file \in Files /\ request[u].at # "none"
                           /\ request[u].need = Reads!Reserve(Footprint[task'[u].file])
                      /\ task'[u].at \in {"flushing", "releasing"} => request[u].at = "granted"
    BY <1>1 DEF TaskInv
  <2>1. CASE u = t
    BY <1>1, <1>2, <2>1 DEF LoopInv, TaskInv, Off
  <2>2. CASE u # t
    BY <1>1, <1>2, <2>2 DEF LoopInv, TaskInv
  <2> QED
    BY <2>1, <2>2
<1> QED
  BY <1>2, <1>3, <1>4 DEF LoopInv

\* The bytes go back with what was taken; the task has another file or retires.
LEMMA ReleaseKeepsLoop ==
  ASSUME LoopInv, NEW t \in Tasks, ReleaseBytes(t)
  PROVE  /\ LoopInv' /\ task'[t].at \in {"off", "ready"}
         /\ \A u \in Tasks \ {t} : task'[u] = task[u]
<1>1. /\ task[t].at = "releasing" /\ Reads!Release(t, Footprint[task[t].file])
      /\ UNCHANGED workers /\ task \in [Tasks -> Task] /\ task[t] \in Task
  BY DEF ReleaseBytes, LoopInv, PoolTypes
<1>2. /\ task[t].file \in Files /\ request[t].need = Reads!Reserve(Footprint[task[t].file])
      /\ task[t].worker \in workers \ idle
  BY <1>1 DEF LoopInv, TaskInv
<1>3. /\ (BudgetTypes /\ BudgetInv)' /\ request'[t].at = "none"
      /\ \A u \in Tasks \ {t} : /\ request'[u].at = "none" <=> request[u].at = "none"
                                /\ request[u].at = "granted" => request'[u].at = "granted"
                                /\ request'[u].need = request[u].need
  BY <1>1, <1>2, ReleaseStep DEF LoopInv
<1>4. /\ PoolTypes' /\ PoolInv' /\ task'[t].at \in {"off", "ready"}
      /\ task'[t].at = "off" => task'[t] = Off
      /\ task'[t].at # "off" => task'[t].worker \in workers' \ idle'
      /\ \A u \in Tasks \ {t} : /\ task'[u] = task[u]
                                /\ task[u].at # "off" => task[u].worker \in workers' \ idle'
  <2>1. CASE task' = [task EXCEPT ![t] = [@ EXCEPT !.at = "ready", !.file = None]] /\ idle' = idle
    <3> DEFINE r == [task[t] EXCEPT !.at = "ready", !.file = None]
    <3>1. r \in Task /\ r.at = "ready" /\ r.worker = task[t].worker
      BY <1>1 DEF Task
    <3>2. task' \in [Tasks -> Task] /\ task'[t] = r /\ \A u \in Tasks \ {t} : task'[u] = task[u]
      BY <1>1, <2>1, <3>1
    <3> HIDE DEF r
    <3>3. \A u \in Tasks : task'[u].worker = task[u].worker
      BY <3>1, <3>2
    <3>4. PoolTypes' /\ PoolInv'
      BY <1>1, <2>1, <3>2, <3>3 DEF LoopInv, PoolTypes, PoolInv
    <3> QED
      BY <1>1, <1>2, <2>1, <3>1, <3>2, <3>4 DEF LoopInv, TaskInv
  <2>2. CASE task' = [task EXCEPT ![t] = Off] /\ idle' = idle \cup {task[t].worker}
    <3>1. /\ PoolTypes' /\ PoolInv' /\ task'[t] = Off
          /\ \A u \in Tasks \ {t} : task'[u] = task[u] /\ task[u].worker # task[t].worker
      BY <1>1, <2>2, RetiredKeepsPool DEF LoopInv
    <3> QED
      BY <1>1, <2>2, <3>1 DEF LoopInv, TaskInv, Off
  <2> QED
    BY <2>1, <2>2 DEF ReleaseBytes
<1>5. TaskInv'
  <2> SUFFICES ASSUME NEW u \in Tasks
               PROVE  /\ task'[u].at = "off" => task'[u] = Off
                      /\ task'[u].at # "off" => task'[u].worker \in workers' \ idle'
                      /\ task'[u].at \in {"off", "ready"} => request'[u].at = "none"
                      /\ task'[u].at \notin {"off", "ready"} =>
                           /\ task'[u].file \in Files /\ request'[u].at # "none"
                           /\ request'[u].need = Reads!Reserve(Footprint[task'[u].file])
                      /\ task'[u].at \in {"flushing", "releasing"} => request'[u].at = "granted"
    BY DEF TaskInv
  <2>1. CASE u = t
    BY <1>3, <1>4, <2>1
  <2>2. CASE u # t
    BY <1>3, <1>4, <2>2 DEF LoopInv, TaskInv
  <2> QED
    BY <2>1, <2>2
<1> QED
  BY <1>3, <1>4, <1>5 DEF LoopInv

\* What leaves the tasks, the workers and the requests alone keeps all of this.
LEMMA LoopKept ==
  ASSUME LoopInv, UNCHANGED <<task, pool, budget>>
  PROVE  LoopInv'
<1>1. UNCHANGED <<task, idle, workers, available, nextTicket, serving, request>>
  BY DEF pool, budget
<1>2. (BudgetTypes /\ BudgetInv)'
  BY <1>1 DEF LoopInv, BudgetTypes, BudgetInv
<1>3. (PoolTypes /\ PoolInv /\ TaskInv)'
  BY <1>1 DEF LoopInv, PoolTypes, PoolInv, TaskInv
<1> QED
  BY <1>2, <1>3 DEF LoopInv

\* A build that is not one of its tasks leaves them alone.
LEMMA BuildLeavesTasks ==
  ASSUME \/ \E v \in Walkers : WalkOn(v) \/ Walking(W!Fault(v))
         \/ CallerOn \/ CountFaulted \/ LeaveEarly
         \/ GoOn \/ Cancel \/ PublishFails \/ \E w \in Pool : MergeFails(w)
  PROVE  UNCHANGED <<task, pool, budget>>
BY DEF WalkOn, CallerOn, CountFaulted, LeaveEarly, Walking,
       GoOn, Measured, BeginLoop, EndLoop, EndMerge, CleanUp, MergeWorker, MergeFails, Publish,
       SaveLedger, Cancel, PublishFails

\* Every step keeps the loop's facts.
LEMMA LoopStep ==
  ASSUME LoopInv, todo \subseteq Files, [Next]_vars
  PROVE  LoopInv'
<1>1. ASSUME NEW t \in Tasks, WorkOn(t) \/ SkipFile(t) \/ FileFails(t) \/ FlushFullFails(t)
      PROVE  LoopInv'
  <2>1. CASE StartTask(t)
    BY <2>1, StartKeepsLoop
  <2>2. CASE NextFile(t)
    BY <2>2, NextFileKeepsLoop
  <2>3. CASE AwaitBytes(t)
    BY <2>3, AwaitKeepsLoop
  <2>4. CASE ReleaseBytes(t)
    BY <2>4, ReleaseKeepsLoop
  <2>5. CASE Retire(t)
    BY <2>5, RetireKeepsLoop
  <2>6. CASE IndexFile(t) \/ SkipFile(t) \/ FileFails(t)
    <3>1. /\ MayRead(t) /\ UNCHANGED <<budget, pool>>
          /\ \E at \in {"flushing", "releasing"} : Go(t, at)
      BY <2>6 DEF IndexFile, SkipFile, FileFails
    <3>2. task[t].at \notin {"off", "ready"} /\ request[t].at = "granted"
      BY <3>1 DEF MayRead
    <3> QED
      BY <3>1, <3>2, GoKeepsLoop
  <2>7. CASE FlushFull(t) \/ FlushFullFails(t)
    <3>1. task[t].at = "flushing" /\ UNCHANGED <<budget, pool>> /\ Go(t, "releasing")
      BY <2>7 DEF FlushFull, FlushFullFails
    <3>2. request[t].at = "granted"
      BY <3>1 DEF LoopInv, TaskInv
    <3> QED
      BY <3>1, <3>2, GoKeepsLoop
  <2> QED
    BY <1>1, <2>1, <2>2, <2>3, <2>4, <2>5, <2>6, <2>7 DEF WorkOn
<1>2. ASSUME UNCHANGED vars PROVE UNCHANGED <<task, pool, budget>>
  BY <1>2 DEF vars
<1> QED
  BY <1>1, <1>2, BuildLeavesTasks, LoopKept DEF Next
-----------------------------------------------------------------------------
(* Where the documents are, per kind of segment *)

\* Files that no worker has had yet, or is only waiting to read.
Asked == {f \in Files : \E t \in Tasks : task[t].at = "asking" /\ task[t].file = f}
Untouched == todo \cup Asked

KindTypes(k) ==
  /\ buffer[k] \in [Pool -> SUBSET Files] /\ own[k] \subseteq Numbers /\ counter[k] \in Numbers
  /\ disk[k] \in [Numbers -> Segment]

\* A document is in one buffer or in one new segment.
Placed(k) ==
  /\ \A w \in Pool : buffer[k][w] \cap Untouched = {}
  /\ \A n \in own[k] : disk[k][n] \subseteq Files \ Untouched
  /\ \A v, w \in Pool : v # w => buffer[k][v] \cap buffer[k][w] = {}
  /\ \A w \in Pool, n \in own[k] : buffer[k][w] \cap disk[k][n] = {}
  /\ \A m, n \in own[k] : m # n => disk[k][m] \cap disk[k][n] = {}

\* The new segments are numbered after what was there, and nothing else is.
Numbered(k) ==
  /\ FirstNumber <= counter[k]
  /\ \A n \in own[k] : FirstNumber <= n /\ n < counter[k]
  /\ \A n \in Numbers : disk[k][n] # {} => n \in own[k] \/ (n = 1 /\ previous)

\* What a worker claims it has in its buffer or in a new segment.
Claimed(k) ==
  \A w \in Pool : \A f \in claims[w] :
    k \in KindsOf(f) => f \in buffer[k][w] \/ \E n \in own[k] : f \in disk[k][n]

KindInv(k) == KindTypes(k) /\ Placed(k) /\ Numbered(k)

\* Each segment takes a document at least, so numbers do not run out.
Written(k) == UNION {disk[k][n] : n \in own[k]}
Bounded(k) == counter[k] + Cardinality(Files \ Written(k)) <= 2 + Cardinality(Files) + trouble

\* The three things a flush does to a kind: it writes a segment, fails to, or neither.
SegmentWritten(k, w) ==
  /\ own'[k] = own[k] \cup {counter[k]} /\ counter'[k] = counter[k] + 1
  /\ disk'[k] = [disk[k] EXCEPT ![counter[k]] = buffer[k][w]]
  /\ buffer'[k] = [buffer[k] EXCEPT ![w] = {}]
SegmentTorn(k) ==
  /\ own'[k] = own[k] /\ counter'[k] = counter[k] + 1
  /\ disk'[k] = [disk[k] EXCEPT ![counter[k]] = {}] /\ buffer'[k] = buffer[k]
KindKept(k) ==
  own'[k] = own[k] /\ counter'[k] = counter[k] /\ disk'[k] = disk[k] /\ buffer'[k] = buffer[k]

\* The numbers of the segments, and the first of this build.
LEMMA NumbersArePositive ==
  /\ FirstNumber \in {1, 2} /\ (previous => FirstNumber = 2) /\ Numbers \subseteq Nat
  /\ \A n \in Nat : n >= 1 /\ n <= 2 + Cardinality(Files) + MaxFaults => n \in Numbers
BY LoopConstants DEF FirstNumber, Numbers

\* The new segment has the buffer's documents, and they are nowhere else.
LEMMA WrittenKeepsKind ==
  ASSUME NEW k, KindInv(k), NEW w \in Pool, SegmentWritten(k, w), counter'[k] \in Numbers,
         UNCHANGED previous, Untouched' \subseteq Untouched
  PROVE  /\ KindInv(k)'
         /\ disk'[k][counter[k]] = buffer[k][w] /\ counter[k] \in own'[k] /\ buffer'[k][w] = {}
         /\ \A n \in own[k] : n \in own'[k] /\ disk'[k][n] = disk[k][n]
         /\ \A v \in Pool \ {w} : buffer'[k][v] = buffer[k][v]
         /\ own'[k] = own[k] \cup {counter[k]}
<1> DEFINE c == counter[k]
<1>1. c \in Numbers /\ c \in Nat /\ c \notin own[k] /\ own[k] \subseteq Numbers
  <2>1. c \in Numbers /\ own[k] \subseteq Numbers
    BY DEF KindInv, KindTypes
  <2>2. c \in Nat
    BY <2>1, NumbersArePositive
  <2>3. \A n \in own[k] : n < c
    BY DEF KindInv, Numbered
  <2> QED
    BY <2>1, <2>2, <2>3
<1>2. /\ own'[k] = own[k] \cup {c} /\ counter'[k] = c + 1
      /\ disk'[k] = [disk[k] EXCEPT ![c] = buffer[k][w]]
      /\ buffer'[k] = [buffer[k] EXCEPT ![w] = {}]
  BY DEF SegmentWritten
<1>3. buffer[k] \in [Pool -> SUBSET Files] /\ disk[k] \in [Numbers -> Segment]
  BY DEF KindInv, KindTypes
<1>4. buffer[k][w] \in Segment
  BY <1>3 DEF Segment
<1>5. /\ buffer'[k] \in [Pool -> SUBSET Files] /\ buffer'[k][w] = {}
      /\ \A v \in Pool \ {w} : buffer'[k][v] = buffer[k][v]
  BY <1>2, <1>3
<1>6. /\ disk'[k] \in [Numbers -> Segment] /\ disk'[k][c] = buffer[k][w]
      /\ \A n \in Numbers \ {c} : disk'[k][n] = disk[k][n]
  BY <1>1, <1>2, <1>3, <1>4
<1>7. \A n \in own[k] : n \in own'[k] /\ disk'[k][n] = disk[k][n]
  BY <1>1, <1>2, <1>6
<1>8. KindTypes(k)'
  BY <1>1, <1>2, <1>5, <1>6 DEF KindTypes
<1>9. Placed(k)'
  <2>1. \A v \in Pool : buffer'[k][v] \cap Untouched' = {}
    BY <1>5 DEF KindInv, Placed
  <2>2. \A n \in own'[k] : disk'[k][n] \subseteq Files \ Untouched'
    <3>1. disk'[k][c] \subseteq Files \ Untouched'
      BY <1>3, <1>6 DEF KindInv, Placed
    <3> QED
      BY <1>2, <1>7, <3>1 DEF KindInv, Placed
  <2>3. \A u, v \in Pool : u # v => buffer'[k][u] \cap buffer'[k][v] = {}
    BY <1>5 DEF KindInv, Placed
  <2>4. \A v \in Pool, n \in own'[k] : buffer'[k][v] \cap disk'[k][n] = {}
    <3>1. ASSUME NEW v \in Pool PROVE buffer'[k][v] \cap disk'[k][c] = {}
      BY <1>5, <1>6 DEF KindInv, Placed
    <3>2. ASSUME NEW v \in Pool, NEW n \in own[k] PROVE buffer'[k][v] \cap disk'[k][n] = {}
      BY <1>5, <1>7 DEF KindInv, Placed
    <3> QED
      BY <1>2, <3>1, <3>2
  <2>5. \A m, n \in own'[k] : m # n => disk'[k][m] \cap disk'[k][n] = {}
    <3>1. ASSUME NEW n \in own[k] PROVE disk'[k][c] \cap disk'[k][n] = {}
      BY <1>6, <1>7 DEF KindInv, Placed
    <3>2. ASSUME NEW m \in own[k], NEW n \in own[k], m # n PROVE disk'[k][m] \cap disk'[k][n] = {}
      BY <1>7, <3>2 DEF KindInv, Placed
    <3> QED
      BY <1>2, <3>1, <3>2
  <2> QED
    BY <2>1, <2>2, <2>3, <2>4, <2>5 DEF Placed
<1>10. FirstNumber' = FirstNumber /\ FirstNumber \in Nat
  BY NumbersArePositive DEF FirstNumber
<1>11. Numbered(k)'
  <2>1. \A n \in own[k] : n \in Nat /\ FirstNumber <= n /\ n < c
    BY <1>1, NumbersArePositive DEF KindInv, Numbered
  <2>2. FirstNumber <= c
    BY DEF KindInv, Numbered
  <2>3. \A n \in own'[k] : FirstNumber <= n /\ n < c + 1
    BY <1>1, <1>2, <1>10, <2>1, <2>2
  <2>4. FirstNumber <= c + 1
    BY <1>1, <1>10, <2>2
  <2>5. \A n \in Numbers : disk'[k][n] # {} => n \in own'[k] \/ (n = 1 /\ previous)
    BY <1>2, <1>6 DEF KindInv, Numbered
  <2> QED
    BY <1>2, <1>10, <2>3, <2>4, <2>5 DEF Numbered
<1> QED
  BY <1>2, <1>5, <1>6, <1>7, <1>8, <1>9, <1>11 DEF KindInv

\* A segment that was not written holds nothing; its number is gone.
LEMMA TornKeepsKind ==
  ASSUME NEW k, KindInv(k), SegmentTorn(k), counter'[k] \in Numbers,
         UNCHANGED previous, Untouched' \subseteq Untouched
  PROVE  /\ KindInv(k)' /\ own'[k] = own[k] /\ buffer'[k] = buffer[k]
         /\ \A n \in own[k] : disk'[k][n] = disk[k][n]
<1> DEFINE c == counter[k]
<1>1. c \in Numbers /\ c \in Nat /\ c \notin own[k] /\ own[k] \subseteq Numbers
  <2>1. c \in Numbers /\ own[k] \subseteq Numbers
    BY DEF KindInv, KindTypes
  <2>2. c \in Nat
    BY <2>1, NumbersArePositive
  <2>3. \A n \in own[k] : n < c
    BY DEF KindInv, Numbered
  <2> QED
    BY <2>1, <2>2, <2>3
<1>2. /\ own'[k] = own[k] /\ counter'[k] = c + 1 /\ buffer'[k] = buffer[k]
      /\ disk'[k] = [disk[k] EXCEPT ![c] = {}]
  BY DEF SegmentTorn
<1>3. disk[k] \in [Numbers -> Segment] /\ {} \in Segment
  BY DEF KindInv, KindTypes, Segment
<1>4. /\ disk'[k] \in [Numbers -> Segment] /\ disk'[k][c] = {}
      /\ \A n \in Numbers \ {c} : disk'[k][n] = disk[k][n]
  BY <1>1, <1>2, <1>3
<1>5. \A n \in own[k] : disk'[k][n] = disk[k][n]
  BY <1>1, <1>4
<1>6. KindTypes(k)'
  BY <1>2, <1>4 DEF KindInv, KindTypes
<1>7. Placed(k)'
  BY <1>2, <1>5 DEF KindInv, Placed
<1>8. FirstNumber' = FirstNumber /\ FirstNumber \in Nat
  BY NumbersArePositive DEF FirstNumber
<1>9. Numbered(k)'
  <2>1. \A n \in own[k] : n \in Nat /\ FirstNumber <= n /\ n < c
    BY <1>1, NumbersArePositive DEF KindInv, Numbered
  <2>2. FirstNumber <= c
    BY DEF KindInv, Numbered
  <2>3. \A n \in own'[k] : FirstNumber <= n /\ n < c + 1
    BY <1>1, <1>2, <1>8, <2>1
  <2>4. FirstNumber <= c + 1
    BY <1>1, <1>8, <2>2
  <2>5. \A n \in Numbers : disk'[k][n] # {} => n \in own'[k] \/ (n = 1 /\ previous)
    BY <1>2, <1>4 DEF KindInv, Numbered
  <2> QED
    BY <1>2, <1>8, <2>3, <2>4, <2>5 DEF Numbered
<1> QED
  BY <1>2, <1>5, <1>6, <1>7, <1>9 DEF KindInv

\* A kind that is left alone keeps its facts while fewer files are untouched.
LEMMA KeptKeepsKind ==
  ASSUME NEW k, KindInv(k), KindKept(k), UNCHANGED previous, Untouched' \subseteq Untouched
  PROVE  KindInv(k)'
BY DEF KindInv, KindTypes, Placed, Numbered, KindKept, FirstNumber

\* A segment that is deleted, if it is, takes no document anywhere else.
LEMMA DeletedKeepsKind ==
  ASSUME NEW k, KindInv(k), UNCHANGED <<own, counter, buffer, previous>>, Untouched' \subseteq Untouched,
         disk'[k] \in [Numbers -> Segment], \A n \in Numbers : disk'[k][n] \in {disk[k][n], {}}
  PROVE  KindInv(k)'
<1>1. own[k] \subseteq Numbers
  BY DEF KindInv, KindTypes
<1>2. \A n \in own[k] : disk'[k][n] \subseteq disk[k][n]
  BY <1>1
<1>3. KindTypes(k)'
  BY DEF KindInv, KindTypes
<1>4. Placed(k)'
  BY <1>2 DEF KindInv, Placed
<1>5. Numbered(k)'
  BY DEF KindInv, Numbered, FirstNumber
<1> QED
  BY <1>3, <1>4, <1>5 DEF KindInv

BufferAdded(k, w, f) == buffer'[k] = [buffer[k] EXCEPT ![w] = @ \cup {f}]

\* A worker reads a file nobody has had: it has it in its buffer alone.
LEMMA AddedKeepsKind ==
  ASSUME NEW k, KindInv(k), NEW w \in Pool, NEW f \in Untouched, f \in Files,
         UNCHANGED <<own, counter, disk, previous>>,
         BufferAdded(k, w, f),
         Untouched' \subseteq Untouched \ {f}
  PROVE  /\ KindInv(k)' /\ buffer'[k][w] = buffer[k][w] \cup {f}
         /\ \A v \in Pool \ {w} : buffer'[k][v] = buffer[k][v]
<1>1. buffer[k] \in [Pool -> SUBSET Files]
  BY DEF KindInv, KindTypes
<1>2. /\ buffer'[k] \in [Pool -> SUBSET Files] /\ buffer'[k][w] = buffer[k][w] \cup {f}
      /\ \A v \in Pool \ {w} : buffer'[k][v] = buffer[k][v]
  BY <1>1 DEF BufferAdded
<1>3. KindTypes(k)'
  BY <1>2 DEF KindInv, KindTypes
<1>4. Placed(k)'
  <2>1. \A v \in Pool : buffer'[k][v] \cap Untouched' = {}
    BY <1>2 DEF KindInv, Placed
  <2>2. \A n \in own[k] : disk[k][n] \subseteq Files \ Untouched'
    BY DEF KindInv, Placed
  <2>3. \A u, v \in Pool : u # v => buffer'[k][u] \cap buffer'[k][v] = {}
    <3>1. \A v \in Pool : f \notin buffer[k][v]
      BY DEF KindInv, Placed
    <3>2. \A v \in Pool \ {w} : buffer'[k][v] \cap buffer'[k][w] = {}
      BY <1>2, <3>1 DEF KindInv, Placed
    <3> QED
      BY <1>2, <3>2 DEF KindInv, Placed
  <2>4. \A v \in Pool, n \in own[k] : buffer'[k][v] \cap disk[k][n] = {}
    <3>1. \A n \in own[k] : f \notin disk[k][n]
      BY DEF KindInv, Placed
    <3> QED
      BY <1>2, <3>1 DEF KindInv, Placed
  <2>5. \A m, n \in own[k] : m # n => disk[k][m] \cap disk[k][n] = {}
    BY DEF KindInv, Placed
  <2> QED
    BY <2>1, <2>2, <2>3, <2>4, <2>5 DEF Placed
<1>5. Numbered(k)'
  BY DEF KindInv, Numbered, FirstNumber
<1> QED
  BY <1>2, <1>3, <1>4, <1>5 DEF KindInv

\* The numbers last as long as there are documents to write or faults to come.
LEMMA BoundedIsInRange ==
  ASSUME NEW k, Bounded(k), counter[k] \in Nat, counter[k] >= 1, trouble \in 0 .. MaxFaults
  PROVE  counter[k] \in Numbers
<1>1. IsFiniteSet(Files \ Written(k))
  BY LoopConstants, FS_Difference
<1>2. Cardinality(Files \ Written(k)) \in Nat
  BY <1>1, FS_CardinalityType
<1>3. counter[k] <= 2 + Cardinality(Files) + MaxFaults
  BY <1>2, LoopConstants DEF Bounded
<1> QED
  BY <1>3, NumbersArePositive

\* A segment that is written holds a document that was in none.
LEMMA WrittenIsBounded ==
  ASSUME NEW k, KindInv(k), NEW w \in Pool, SegmentWritten(k, w), buffer[k][w] # {}, Bounded(k),
         trouble \in 0 .. MaxFaults, trouble' \in 0 .. MaxFaults, trouble' >= trouble
  PROVE  Bounded(k)' /\ counter'[k] \in Numbers
<1> DEFINE c == counter[k]
<1>1. c \in Numbers /\ c \in Nat /\ c >= 1 /\ c \notin own[k] /\ own[k] \subseteq Numbers
  <2>1. c \in Numbers /\ own[k] \subseteq Numbers
    BY DEF KindInv, KindTypes
  <2>2. c \in Nat /\ c >= 1
    BY <2>1, LoopConstants DEF Numbers
  <2>3. \A n \in own[k] : n < c
    BY DEF KindInv, Numbered
  <2> QED
    BY <2>1, <2>2, <2>3
<1>2. /\ own'[k] = own[k] \cup {c} /\ counter'[k] = c + 1
      /\ disk'[k] = [disk[k] EXCEPT ![c] = buffer[k][w]]
  BY DEF SegmentWritten
<1>3. /\ disk'[k][c] = buffer[k][w] /\ \A n \in own[k] : disk'[k][n] = disk[k][n]
  BY <1>1, <1>2 DEF KindInv, KindTypes
<1>4. Written(k)' = Written(k) \cup buffer[k][w]
  BY <1>2, <1>3 DEF Written
<1>5. PICK f \in Files : f \in buffer[k][w] /\ f \notin Written(k)
  <2>1. buffer[k][w] \subseteq Files
    BY DEF KindInv, KindTypes
  <2>2. buffer[k][w] \cap Written(k) = {}
    BY DEF KindInv, Placed, Written
  <2> QED
    BY <2>1, <2>2
<1> DEFINE A == Files \ Written(k)
           B == Files \ Written(k)'
<1>6. IsFiniteSet(A) /\ B \in SUBSET A /\ A # B
  <2>1. IsFiniteSet(A)
    BY LoopConstants, FS_Difference
  <2> QED
    BY <1>4, <1>5, <2>1
<1>7. Cardinality(A) \in Nat /\ Cardinality(B) \in Nat /\ Cardinality(B) < Cardinality(A)
  <2>1. IsFiniteSet(B) /\ Cardinality(B) <= Cardinality(A) /\ Cardinality(A) # Cardinality(B)
    BY <1>6, FS_Subset
  <2>2. Cardinality(A) \in Nat /\ Cardinality(B) \in Nat
    BY <1>6, <2>1, FS_CardinalityType
  <2> QED
    BY <2>1, <2>2
<1>8. c + Cardinality(A) <= 2 + Cardinality(Files) + trouble
  BY DEF Bounded
<1> HIDE DEF A
<1>9. c + 1 + Cardinality(B) <= 2 + Cardinality(Files) + trouble'
  <2> HIDE DEF B, c
  <2>1. trouble \in Nat /\ trouble' \in Nat /\ Cardinality(Files) \in Nat
    BY LoopConstants
  <2> QED
    BY <1>1, <1>7, <1>8, <2>1
<1>10. Bounded(k)'
  BY <1>2, <1>9 DEF Bounded
<1>11. counter'[k] \in Nat /\ counter'[k] >= 1
  BY <1>1, <1>2
<1>12. counter'[k] \in Numbers
  <2>1. c + 1 <= 2 + Cardinality(Files) + MaxFaults
    <3> HIDE DEF B, c
    <3> QED
      BY <1>1, <1>7, <1>9, LoopConstants
  <2> QED
    BY <1>2, <1>11, <2>1, NumbersArePositive
<1> QED
  BY <1>10, <1>12

\* A segment that is not written is one of the faults.
LEMMA TornIsBounded ==
  ASSUME NEW k, KindInv(k), SegmentTorn(k), Bounded(k),
         trouble \in 0 .. MaxFaults, trouble' \in 0 .. MaxFaults, trouble' = trouble + 1
  PROVE  Bounded(k)' /\ counter'[k] \in Numbers
<1> DEFINE c == counter[k]
<1>1. c \in Numbers /\ c \in Nat /\ c >= 1 /\ c \notin own[k] /\ own[k] \subseteq Numbers
  <2>1. c \in Numbers /\ own[k] \subseteq Numbers
    BY DEF KindInv, KindTypes
  <2>2. c \in Nat /\ c >= 1
    BY <2>1, LoopConstants DEF Numbers
  <2>3. \A n \in own[k] : n < c
    BY DEF KindInv, Numbered
  <2> QED
    BY <2>1, <2>2, <2>3
<1>2. /\ own'[k] = own[k] /\ counter'[k] = c + 1 /\ disk'[k] = [disk[k] EXCEPT ![c] = {}]
  BY DEF SegmentTorn
<1>3. \A n \in own[k] : disk'[k][n] = disk[k][n]
  BY <1>1, <1>2 DEF KindInv, KindTypes
<1>4. Written(k)' = Written(k)
  BY <1>2, <1>3 DEF Written
<1> DEFINE B == Files \ Written(k)
<1>5. Cardinality(B) \in Nat
  <2>1. IsFiniteSet(B)
    BY LoopConstants, FS_Difference
  <2> QED
    BY <2>1, FS_CardinalityType
<1>6. c + Cardinality(B) <= 2 + Cardinality(Files) + trouble
  BY DEF Bounded
<1>7. c + 1 + Cardinality(B) <= 2 + Cardinality(Files) + trouble' /\ c + 1 <= 2 + Cardinality(Files) + MaxFaults
  <2> HIDE DEF B, c
  <2>1. trouble \in Nat /\ Cardinality(Files) \in Nat /\ MaxFaults \in Nat
    BY LoopConstants
  <2> QED
    BY <1>1, <1>5, <1>6, <2>1
<1>8. Bounded(k)'
  BY <1>2, <1>4, <1>7 DEF Bounded
<1>9. counter'[k] \in Numbers
  BY <1>1, <1>2, <1>7, NumbersArePositive
<1> QED
  BY <1>8, <1>9

\* What a flush of worker w's buffers may have done to a kind.
KindFlushed(k, w) ==
  \/ KindKept(k)
  \/ SegmentWritten(k, w) /\ buffer[k][w] # {}
  \/ SegmentTorn(k) /\ trouble' = trouble + 1

\* A flush writes a segment of each of the kinds and leaves the others.
LEMMA FlushEffect ==
  ASSUME NEW w, NEW kinds, Flush(w, kinds), NEW k \in Kinds
  PROVE  IF k \in kinds THEN SegmentWritten(k, w) ELSE KindKept(k)
<1>1. /\ counter'[k] = IF k \in kinds THEN counter[k] + 1 ELSE counter[k]
      /\ own'[k] = IF k \in kinds THEN own[k] \cup {counter[k]} ELSE own[k]
  BY DEF Flush, Advance
<1>2. disk'[k] = IF k \in kinds THEN [disk[k] EXCEPT ![counter[k]] = buffer[k][w]] ELSE disk[k]
  BY DEF Flush
<1>3. buffer'[k] = IF k \in kinds THEN [buffer[k] EXCEPT ![w] = {}] ELSE buffer[k]
  BY DEF Flush
<1>4. CASE k \in kinds
  BY <1>1, <1>2, <1>3, <1>4, Zenon DEF SegmentWritten
<1>5. CASE k \notin kinds
  BY <1>1, <1>2, <1>3, <1>5, Zenon DEF KindKept
<1> QED
  BY <1>4, <1>5

\* A flush that fails has written the kinds before, and torn a segment of one.
LEMMA FlushFailsEffect ==
  ASSUME NEW w, NEW before, NEW kind, FlushFails(w, before, kind), kind \notin before, NEW k \in Kinds
  PROVE  IF k \in before THEN SegmentWritten(k, w)
         ELSE IF k = kind THEN SegmentTorn(k) ELSE KindKept(k)
<1>1. /\ counter'[k] = IF k \in before \cup {kind} THEN counter[k] + 1 ELSE counter[k]
      /\ own'[k] = IF k \in before THEN own[k] \cup {counter[k]} ELSE own[k]
  BY DEF FlushFails, Advance
<1>2. disk'[k] = IF k \in before THEN [disk[k] EXCEPT ![counter[k]] = buffer[k][w]]
                 ELSE IF k = kind THEN [disk[k] EXCEPT ![counter[k]] = {}] ELSE disk[k]
  BY DEF FlushFails
<1>3. buffer'[k] = IF k \in before THEN [buffer[k] EXCEPT ![w] = {}] ELSE buffer[k]
  BY DEF FlushFails
<1>4. CASE k \in before
  BY <1>1, <1>2, <1>3, <1>4, Zenon DEF SegmentWritten
<1>5. CASE k \notin before /\ k = kind
  BY <1>1, <1>2, <1>3, <1>5, Zenon DEF SegmentTorn
<1>6. CASE k \notin before /\ k # kind
  <2>1. k \notin before \cup {kind}
    BY <1>6
  <2> QED
    BY <1>1, <1>2, <1>3, <1>6, <2>1, Zenon DEF KindKept
<1> QED
  BY <1>4, <1>5, <1>6

\* A buffer that is full is not empty.
LEMMA FullIsNotEmpty ==
  ASSUME NEW k \in Kinds, NEW w, k \in IsFull(w)
  PROVE  buffer[k][w] # {}
<1>1. Cardinality(buffer[k][w]) >= Full[k] /\ Full[k] \in Nat \ {0}
  BY LoopConstants DEF IsFull
<1>2. Cardinality({}) = 0
  BY FS_EmptySet
<1> QED
  BY <1>1, <1>2

\* Of full or unwritten buffers, each kind is written, torn or kept.
LEMMA FlushWrites ==
  ASSUME NEW w, NEW kinds, \A k \in Kinds : k \in kinds => buffer[k][w] # {}, NEW k \in Kinds,
         \/ Flush(w, kinds)
         \/ trouble' = trouble + 1 /\ \E kind \in kinds : FlushFails(w, Before(kinds, kind), kind)
  PROVE  KindFlushed(k, w)
<1>1. CASE Flush(w, kinds)
  BY <1>1, FlushEffect, Zenon DEF KindFlushed
<1>2. ASSUME trouble' = trouble + 1, NEW kind \in kinds, FlushFails(w, Before(kinds, kind), kind)
      PROVE  KindFlushed(k, w)
  <2>1. kind \notin Before(kinds, kind) /\ Before(kinds, kind) \subseteq kinds
    BY DEF Before
  <2>2. IF k \in Before(kinds, kind) THEN SegmentWritten(k, w)
        ELSE IF k = kind THEN SegmentTorn(k) ELSE KindKept(k)
    BY <1>2, <2>1, FlushFailsEffect
  <2>3. k \in Before(kinds, kind) => buffer[k][w] # {}
    BY <2>1
  <2> QED
    BY <1>2, <2>2, <2>3, Zenon DEF KindFlushed
<1> QED
  BY <1>1, <1>2

\* What a flush leaves of a kind: every fact about where its documents are, and every
\* other worker's buffer; nothing that was there before the build is touched.
LEMMA FlushedKeepsKind ==
  ASSUME NEW k, KindInv(k), Bounded(k), NEW w \in Pool, KindFlushed(k, w),
         UNCHANGED previous, Untouched' \subseteq Untouched,
         trouble \in 0 .. MaxFaults, trouble' \in 0 .. MaxFaults, trouble' >= trouble
  PROVE  /\ KindInv(k)' /\ Bounded(k)'
         /\ \A n \in own[k] : n \in own'[k] /\ disk'[k][n] = disk[k][n]
         /\ \A v \in Pool \ {w} : buffer'[k][v] = buffer[k][v]
         /\ \/ buffer'[k][w] = buffer[k][w]
            \/ buffer'[k][w] = {} /\ \E n \in own'[k] : disk'[k][n] = buffer[k][w]
         /\ previous => disk'[k][1] = disk[k][1]
<1>1. previous => /\ 1 \in Numbers /\ counter[k] # 1
                  /\ disk[k] \in [Numbers -> Segment] /\ counter[k] \in Numbers
  <2>1. FirstNumber <= counter[k] /\ counter[k] \in Numbers /\ disk[k] \in [Numbers -> Segment]
    BY DEF KindInv, KindTypes, Numbered
  <2>2. 1 \in Numbers
    BY NumbersArePositive, LoopConstants
  <2>3. ASSUME previous PROVE counter[k] # 1
    BY <2>1, <2>3 DEF FirstNumber
  <2> QED
    BY <2>1, <2>2, <2>3
<1>2. CASE KindKept(k)
  <2>1. KindInv(k)'
    BY <1>2, KeptKeepsKind
  <2>2. Bounded(k)'
    <3>1. counter'[k] = counter[k] /\ Written(k)' = Written(k)
      BY <1>2 DEF KindKept, Written
    <3>2. Cardinality(Files \ Written(k)) \in Nat
      <4>1. IsFiniteSet(Files \ Written(k))
        BY LoopConstants, FS_Difference
      <4> QED
        BY <4>1, FS_CardinalityType
    <3>3. counter[k] \in Nat
      BY NumbersArePositive DEF KindInv, KindTypes
    <3> QED
      BY <3>1, <3>2, <3>3, LoopConstants DEF Bounded
  <2> QED
    BY <1>2, <2>1, <2>2 DEF KindKept
<1>3. CASE SegmentWritten(k, w) /\ buffer[k][w] # {}
  <2>1. Bounded(k)' /\ counter'[k] \in Numbers
    BY <1>3, WrittenIsBounded
  <2>2. /\ KindInv(k)'
        /\ disk'[k][counter[k]] = buffer[k][w] /\ counter[k] \in own'[k] /\ buffer'[k][w] = {}
        /\ \A n \in own[k] : n \in own'[k] /\ disk'[k][n] = disk[k][n]
        /\ \A v \in Pool \ {w} : buffer'[k][v] = buffer[k][v]
    BY <1>3, <2>1, WrittenKeepsKind
  <2>3. previous => disk'[k][1] = disk[k][1]
    BY <1>1, <1>3 DEF SegmentWritten
  <2> QED
    BY <2>1, <2>2, <2>3
<1>4. CASE SegmentTorn(k) /\ trouble' = trouble + 1
  <2>1. Bounded(k)' /\ counter'[k] \in Numbers
    BY <1>4, TornIsBounded
  <2>2. /\ KindInv(k)' /\ own'[k] = own[k] /\ buffer'[k] = buffer[k]
        /\ \A n \in own[k] : disk'[k][n] = disk[k][n]
    BY <1>4, <2>1, TornKeepsKind
  <2>3. previous => disk'[k][1] = disk[k][1]
    BY <1>1, <1>4 DEF SegmentTorn
  <2> QED
    BY <2>1, <2>2, <2>3
<1> QED
  BY <1>2, <1>3, <1>4 DEF KindFlushed
-----------------------------------------------------------------------------
(* The invariant of a build *)

\* The types of what is not in the loop, nor per kind.
FlagTypes ==
  /\ previous \in BOOLEAN /\ phase \in Phases /\ todo \subseteq found
  /\ stopping \in [cancelled : BOOLEAN, failed : BOOLEAN] /\ trouble \in 0 .. MaxFaults
  /\ claims \in [Pool -> SUBSET Files] /\ merged \subseteq workers /\ skipped \subseteq Files
  /\ ledger \subseteq Files \cup {Gone}
Shaped ==
  /\ buffer = [k \in Kinds |-> buffer[k]] /\ counter = [k \in Kinds |-> counter[k]]
  /\ own = [k \in Kinds |-> own[k]] /\ disk = [k \in Kinds |-> disk[k]]
  /\ manifest = [k \in Kinds |-> manifest[k]]

\* No two tasks ask for the same file, and a file that is asked for is handed out.
AskInv ==
  /\ \A t, u \in Tasks :
       t # u /\ task[t].at = "asking" /\ task[u].at = "asking" => task[t].file # task[u].file
  /\ todo \cap Asked = {}

\* How far each phase is.
Early == {"walk", "measure", "measured"}
Publishing == {"text", "symbols", "ledger", "done"}
PhaseInv ==
  /\ phase \in Early => todo = {} /\ workers = {} /\ \A k \in Kinds : own[k] = {}
  /\ phase \in Early \cup {"loop"} => merged = {}
  /\ phase # "loop" => \A t \in Tasks : task[t].at = "off"
  /\ phase \in Publishing \cup {"merge"} => todo = {}
  /\ phase \in Publishing => ~Stopping /\ merged = workers
  /\ phase = "done" => ledger = UNION {claims[w] : w \in merged}

\* A worker that was merged has nothing left in its buffers; one that does not exist yet
\* has nothing at all.
WorkerInv ==
  /\ \A w \in merged : \A k \in Kinds : buffer[k][w] = {}
  /\ \A w \in Pool \ workers : claims[w] = {} /\ \A k \in Kinds : buffer[k][w] = {}

\* Unless a file failed the build, each file is untouched, logged or claimed.
AccountInv ==
  phase \notin Early /\ ~stopping.failed =>
    \A f \in found : f \in Untouched \/ f \in skipped \/ \E w \in workers : f \in claims[w]

\* A kind's manifest names what was there before, which is still there, or what this
\* build has written, once that is everything.
Published(k) == phase \in (IF k = "text" THEN {"symbols", "ledger", "done"} ELSE {"ledger", "done"})
OldKind(k) ==
  /\ manifest[k] = (IF previous THEN {1} ELSE {}) /\ ~Published(k)
  /\ previous => disk[k][1] = Earlier
NewKind(k) ==
  /\ manifest[k] = own[k] /\ merged = workers
  /\ Published(k) \/ phase = "failed"
ManifestInv(k) ==
  /\ OldKind(k) \/ NewKind(k)
  /\ phase = "cancelled" => \A n \in own[k] : disk[k][n] = {}

Building == {"walk", "measure", "loop", "merge"}
Stopped == {"cancelled", "littered"}
BuildInv ==
  /\ LoopInv /\ FlagTypes /\ Shaped /\ AskInv /\ PhaseInv /\ WorkerInv /\ AccountInv
  /\ \A k \in Kinds : /\ KindInv(k) /\ ManifestInv(k)
                      /\ phase \in Building => Bounded(k)
                      /\ phase \notin Stopped => Claimed(k)
-----------------------------------------------------------------------------
(* The files nobody has read *)

\* Nobody but a task that gets its bytes stops asking, nobody but one that is handed
\* a file starts.
LEMMA AskedStays ==
  ASSUME AskInv, UNCHANGED todo,
         \A t \in Tasks : \/ task'[t] = task[t]
                          \/ task[t].at # "asking" /\ task'[t].at # "asking"
  PROVE  AskInv' /\ Untouched' = Untouched
<1>1. Asked' = Asked
  BY DEF Asked
<1>2. AskInv'
  BY <1>1 DEF AskInv
<1> QED
  BY <1>1, <1>2 DEF Untouched

\* A file that is handed out is as untouched as before.
LEMMA HandedOut ==
  ASSUME AskInv, todo \subseteq Files, NEW t \in Tasks, task[t].at # "asking", NEW f \in todo,
         todo' = todo \ {f}, task'[t].at = "asking", task'[t].file = f,
         \A u \in Tasks \ {t} : task'[u] = task[u]
  PROVE  AskInv' /\ Untouched' = Untouched
<1>1. f \in Files /\ f \notin Asked
  BY DEF AskInv
<1>2. Asked' = Asked \cup {f}
  BY <1>1 DEF Asked
<1>3. \A u \in Tasks \ {t} : task[u].at = "asking" => task[u].file # f
  BY <1>1 DEF Asked
<1>4. AskInv'
  <2>1. ASSUME NEW u \in Tasks, NEW v \in Tasks, u # v, task'[u].at = "asking", task'[v].at = "asking"
        PROVE  task'[u].file # task'[v].file
    <3>1. CASE u = t
      BY <1>3, <2>1, <3>1
    <3>2. CASE v = t
      BY <1>3, <2>1, <3>2
    <3>3. CASE u # t /\ v # t
      BY <2>1, <3>3 DEF AskInv
    <3> QED
      BY <3>1, <3>2, <3>3
  <2>2. todo' \cap Asked' = {}
    BY <1>2 DEF AskInv
  <2> QED
    BY <2>1, <2>2 DEF AskInv
<1> QED
  BY <1>2, <1>4 DEF Untouched

\* A task that has its bytes has its file to itself.
LEMMA ReadOut ==
  ASSUME AskInv, LoopInv, NEW t \in Tasks, task[t].at = "asking", UNCHANGED todo,
         task'[t].at # "asking", \A u \in Tasks \ {t} : task'[u] = task[u]
  PROVE  /\ AskInv' /\ task[t].file \in Files /\ task[t].file \in Untouched
         /\ Untouched' = Untouched \ {task[t].file}
<1>1. task[t].file \in Files
  BY DEF LoopInv, TaskInv
<1>2. task[t].file \in Asked
  BY <1>1 DEF Asked
<1>3. Asked' = Asked \ {task[t].file}
  <2>1. ASSUME NEW f \in Asked' PROVE f \in Asked /\ f # task[t].file
    <3>1. PICK u \in Tasks : task'[u].at = "asking" /\ task'[u].file = f /\ f \in Files
      BY DEF Asked
    <3>2. u # t /\ task[u].at = "asking" /\ task[u].file = f
      BY <3>1
    <3> QED
      BY <3>1, <3>2 DEF Asked, AskInv
  <2>2. ASSUME NEW f \in Asked, f # task[t].file PROVE f \in Asked'
    <3>1. PICK u \in Tasks : task[u].at = "asking" /\ task[u].file = f /\ f \in Files
      BY DEF Asked
    <3>2. u # t
      BY <2>2, <3>1
    <3>3. task'[u].at = "asking" /\ task'[u].file = f
      BY <3>1, <3>2
    <3> QED
      BY <3>1, <3>3 DEF Asked
  <2> QED
    BY <2>1, <2>2
<1>4. task[t].file \notin todo
  BY <1>2 DEF AskInv
<1>5. Untouched' = Untouched \ {task[t].file}
  BY <1>3, <1>4 DEF Untouched
<1>6. AskInv'
  <2>1. ASSUME NEW u \in Tasks, NEW v \in Tasks, u # v, task'[u].at = "asking", task'[v].at = "asking"
        PROVE  task'[u].file # task'[v].file
    <3>1. u # t /\ v # t
      BY <2>1
    <3> QED
      BY <2>1, <3>1 DEF AskInv
  <2>2. todo' \cap Asked' = {}
    BY <1>3 DEF AskInv
  <2> QED
    BY <2>1, <2>2 DEF AskInv
<1> QED
  BY <1>1, <1>2, <1>5, <1>6 DEF Untouched
-----------------------------------------------------------------------------
(* Steps that write nothing *)

\* A kind that is left alone keeps the bound on its numbers.
LEMMA BoundKept ==
  ASSUME NEW k, Bounded(k), KindInv(k), UNCHANGED <<own, counter, disk>>,
         trouble \in 0 .. MaxFaults, trouble' \in 0 .. MaxFaults, trouble' >= trouble
  PROVE  Bounded(k)'
<1>1. Written(k)' = Written(k)
  BY DEF Written
<1>2. IsFiniteSet(Files \ Written(k))
  BY LoopConstants, FS_Difference
<1>3. Cardinality(Files \ Written(k)) \in Nat
  BY <1>2, FS_CardinalityType
<1>4. counter[k] \in Nat
  BY NumbersArePositive DEF KindInv, KindTypes
<1> QED
  BY <1>1, <1>3, <1>4, LoopConstants DEF Bounded

\* While files are read and merged the manifests are as they were.
LEMMA StillOld ==
  ASSUME NEW k, ManifestInv(k), phase \in {"loop", "merge", "cleanup"}
  PROVE  OldKind(k)
BY DEF ManifestInv, NewKind, Published

\* A task that starts, asks, waits, releases or retires changes no document.
LEMMA QuietKeeps ==
  ASSUME BuildInv, phase = "loop", (LoopInv /\ FlagTypes /\ AskInv)', Untouched' = Untouched,
         workers \subseteq workers',
         UNCHANGED <<records, segments, published, merged, previous, phase, stopping, trouble, found>>
  PROVE  BuildInv'
<1>1. UNCHANGED <<buffer, claims, skipped, counter, own, disk, manifest, ledger>>
  BY DEF records, segments, published
<1>2. Shaped'
  BY <1>1 DEF BuildInv, Shaped
<1>3. PhaseInv'
  BY DEF BuildInv, PhaseInv, Early, Publishing
<1>4. WorkerInv'
  BY <1>1 DEF BuildInv, WorkerInv
<1>5. AccountInv'
  BY <1>1 DEF BuildInv, AccountInv
<1>6. ASSUME NEW k \in Kinds PROVE (KindInv(k) /\ ManifestInv(k) /\ Bounded(k) /\ Claimed(k))'
  <2>1. KindInv(k) /\ ManifestInv(k) /\ Bounded(k) /\ Claimed(k)
    BY DEF BuildInv, Building, Stopped
  <2>2. KindInv(k)'
    BY <1>1, <2>1, KeptKeepsKind DEF KindKept
  <2>3. Bounded(k)'
    BY <1>1, <2>1, BoundKept DEF BuildInv, FlagTypes
  <2>4. Claimed(k)'
    BY <1>1, <2>1 DEF Claimed
  <2>5. OldKind(k)'
    BY <1>1, <2>1, StillOld DEF OldKind, Published, Earlier
  <2> QED
    BY <2>2, <2>3, <2>4, <2>5 DEF ManifestInv
<1> QED
  BY <1>2, <1>3, <1>4, <1>5, <1>6 DEF BuildInv

\* A task is only busy during the loop.
LEMMA BusyInLoop ==
  ASSUME BuildInv, NEW t \in Tasks, task[t].at # "off"
  PROVE  phase = "loop"
BY DEF BuildInv, PhaseInv

\* The quiet steps of the tasks.
LEMMA QuietTask ==
  ASSUME BuildInv, LoopInv', found \subseteq Files, NEW t \in Tasks,
         StartTask(t) \/ NextFile(t) \/ AwaitBytes(t) \/ ReleaseBytes(t) \/ Retire(t)
  PROVE  BuildInv'
<1>1. /\ UNCHANGED <<records, segments, published, merged, previous, phase, stopping, trouble, found>>
      /\ UNCHANGED <<claims, skipped, ledger>>
  BY DEF StartTask, NextFile, AwaitBytes, ReleaseBytes, Retire, walk, records, published
<1>2. phase = "loop"
  <2>1. CASE StartTask(t)
    BY <2>1 DEF StartTask
  <2>2. CASE AwaitBytes(t)
    <3>1. request[t].at = "awake"
      BY <2>2 DEF AwaitBytes, Reads!TakeBytes, Reads!Wait
    <3>2. task[t].at # "off"
      BY <3>1 DEF BuildInv, LoopInv, TaskInv
    <3> QED
      BY <3>2, BusyInLoop
  <2>3. CASE NextFile(t) \/ ReleaseBytes(t) \/ Retire(t)
    BY <2>3, BusyInLoop DEF NextFile, ReleaseBytes, Retire
  <2> QED
    BY <2>1, <2>2, <2>3
<1>3. workers \subseteq workers'
  BY DEF StartTask, NextFile, AwaitBytes, ReleaseBytes, Retire, pool
<1>4. todo' \subseteq todo
  BY DEF StartTask, NextFile, AwaitBytes, ReleaseBytes, Retire
<1>5. FlagTypes'
  BY <1>1, <1>3, <1>4 DEF BuildInv, FlagTypes
<1>6. LoopInv /\ AskInv /\ todo \subseteq Files
  BY DEF BuildInv, FlagTypes
<1>7. AskInv' /\ Untouched' = Untouched
  <2>0. task \in [Tasks -> Task]
    BY <1>6 DEF LoopInv, PoolTypes
  <2>1. CASE StartTask(t)
    <3>1. PICK w : task' = [task EXCEPT ![t] = [Off EXCEPT !.at = "ready", !.worker = w]]
      BY <2>1 DEF StartTask
    <3>2. task[t].at = "off" /\ UNCHANGED todo
      BY <2>1 DEF StartTask
    <3>3. task'[t].at = "ready" /\ \A u \in Tasks \ {t} : task'[u] = task[u]
      BY <2>0, <3>1 DEF Off
    <3> QED
      BY <1>6, <3>2, <3>3, AskedStays
  <2>2. CASE NextFile(t)
    <3>1. \E f \in todo : /\ todo' = todo \ {f} /\ task'[t].at = "asking" /\ task'[t].file = f
                          /\ \A u \in Tasks \ {t} : task'[u] = task[u]
      BY <1>6, <2>2, NextFileKeepsLoop
    <3>2. task[t].at # "asking"
      BY <2>2 DEF NextFile
    <3> QED
      BY <1>6, <3>1, <3>2, HandedOut
  <2>3. CASE AwaitBytes(t)
    BY <1>6, <2>3, AskedStays DEF AwaitBytes
  <2>4. CASE ReleaseBytes(t)
    <3>1. task'[t].at \in {"off", "ready"} /\ \A u \in Tasks \ {t} : task'[u] = task[u]
      BY <1>6, <2>4, ReleaseKeepsLoop
    <3>2. task[t].at = "releasing" /\ UNCHANGED todo
      BY <2>4 DEF ReleaseBytes
    <3> QED
      BY <1>6, <3>1, <3>2, AskedStays
  <2>5. CASE Retire(t)
    <3>1. task[t].at = "ready" /\ task' = [task EXCEPT ![t] = Off] /\ UNCHANGED todo
      BY <2>5 DEF Retire
    <3>2. task'[t].at = "off" /\ \A u \in Tasks \ {t} : task'[u] = task[u]
      BY <2>0, <3>1 DEF Off
    <3> QED
      BY <1>6, <3>1, <3>2, AskedStays
  <2> QED
    BY <2>1, <2>2, <2>3, <2>4, <2>5
<1> QED
  BY <1>1, <1>2, <1>3, <1>5, <1>7, QuietKeeps

\* During the walk there is nothing else.
LEMMA WalkKeeps ==
  ASSUME BuildInv, phase \in {"walk", "measure"}, LoopInv',
         UNCHANGED <<previous, phase, todo, task, pool, records, merged, segments, stopping,
                     trouble, published>>
  PROVE  BuildInv'
<1>1. UNCHANGED <<buffer, claims, skipped, counter, own, disk, manifest, ledger, idle, workers>>
  BY DEF records, segments, published, pool
<1>2. todo = {}
  BY DEF BuildInv, PhaseInv, Early
<1>3. FlagTypes' /\ Shaped'
  BY <1>1, <1>2 DEF BuildInv, FlagTypes, Shaped
<1>4. AskInv' /\ Untouched' = Untouched
  BY AskedStays DEF BuildInv
<1>5. PhaseInv' /\ WorkerInv'
  BY <1>1 DEF BuildInv, PhaseInv, WorkerInv, Stopping
<1>6. AccountInv'
  BY DEF AccountInv, Early
<1>7. ASSUME NEW k \in Kinds PROVE (KindInv(k) /\ ManifestInv(k) /\ Bounded(k) /\ Claimed(k))'
  <2>1. KindInv(k) /\ ManifestInv(k) /\ Bounded(k) /\ Claimed(k)
    BY DEF BuildInv, Building, Stopped
  <2>2. KindInv(k)'
    BY <1>1, <1>4, <2>1, KeptKeepsKind DEF KindKept
  <2>3. Bounded(k)'
    BY <1>1, <2>1, BoundKept DEF BuildInv, FlagTypes
  <2>4. Claimed(k)'
    BY <1>1, <2>1 DEF Claimed
  <2>5. ManifestInv(k)'
    BY <1>1, <2>1 DEF ManifestInv, OldKind, NewKind, Published, Earlier
  <2> QED
    BY <2>2, <2>3, <2>4, <2>5
<1> QED
  BY <1>3, <1>4, <1>5, <1>6, <1>7 DEF BuildInv
-----------------------------------------------------------------------------
(* Steps that read and write documents *)

\* A task that has read file f has it in the buffers of its worker alone.
LEMMA ReadKeepsKind ==
  ASSUME NEW k \in Kinds, KindInv(k), Claimed(k), NEW w \in Pool, NEW f \in Files, NEW kinds,
         f \in Untouched, Untouched' = Untouched \ {f}, buffer' = Added(w, f, kinds),
         UNCHANGED <<own, counter, disk, previous>>, claims \in [Pool -> SUBSET Files],
         \/ claims' = claims
         \/ claims' = Claims(w, f) /\ (k \in KindsOf(f) => k \in kinds)
  PROVE  /\ KindInv(k)' /\ Claimed(k)'
         /\ \A v \in Pool \ {w} : buffer'[k][v] = buffer[k][v]
<1>1. buffer'[k] = IF k \in kinds THEN [buffer[k] EXCEPT ![w] = @ \cup {f}] ELSE buffer[k]
  BY DEF Added
<1>2. /\ KindInv(k)' /\ buffer'[k][w] = IF k \in kinds THEN buffer[k][w] \cup {f} ELSE buffer[k][w]
      /\ \A v \in Pool \ {w} : buffer'[k][v] = buffer[k][v]
  <2>1. CASE k \in kinds
    <3>1. BufferAdded(k, w, f)
      BY <1>1, <2>1, Zenon DEF BufferAdded
    <3> QED
      BY <2>1, <3>1, AddedKeepsKind
  <2>2. CASE k \notin kinds
    <3>1. KindKept(k)
      BY <1>1, <2>2 DEF KindKept
    <3> QED
      BY <2>2, <3>1, KeptKeepsKind DEF KindKept
  <2> QED
    BY <2>1, <2>2
<1>3. \A v \in Pool : buffer[k][v] \subseteq buffer'[k][v]
  BY <1>2
<1>4. ASSUME NEW v \in Pool, NEW g \in claims'[v], k \in KindsOf(g)
      PROVE  g \in buffer'[k][v] \/ \E n \in own[k] : g \in disk[k][n]
  <2>1. CASE g \in claims[v]
    BY <1>3, <1>4, <2>1 DEF Claimed
  <2>2. CASE g \notin claims[v]
    <3>1. claims' = Claims(w, f) /\ (k \in KindsOf(f) => k \in kinds)
      BY <1>4, <2>2
    <3>2. v = w /\ g = f
      BY <1>4, <2>2, <3>1 DEF Claims
    <3> QED
      BY <1>2, <1>4, <3>1, <3>2
  <2> QED
    BY <2>1, <2>2
<1>5. Claimed(k)'
  BY <1>4 DEF Claimed, KindsOf
<1> QED
  BY <1>2, <1>5

\* The two ways a file that was read ends: recorded, or left out.
LEMMA ReadKeeps ==
  ASSUME BuildInv, LoopInv', FlagTypes', NEW t \in Tasks, MayRead(t), found \subseteq Files,
         task'[t].at # "asking", \A u \in Tasks \ {t} : task'[u] = task[u],
         NEW kinds, buffer' = Added(task[t].worker, task[t].file, kinds),
         \/ claims' = claims /\ task[t].file \in skipped'
         \/ claims' = Claims(task[t].worker, task[t].file) /\ kinds = KindsOf(task[t].file),
         skipped \subseteq skipped', trouble' >= trouble,
         UNCHANGED <<segments, published, merged, previous, phase, stopping, found, todo, pool>>
  PROVE  BuildInv'
<1> DEFINE f == task[t].file
           w == task[t].worker
<1>1. UNCHANGED <<counter, own, disk, manifest, ledger, idle, workers>>
  BY DEF segments, published, pool
<1>2. phase = "loop" /\ task[t].at = "asking"
  BY BusyInLoop DEF MayRead
<1>3. w \in workers /\ w \in Pool /\ merged = {}
  BY <1>2 DEF BuildInv, LoopInv, TaskInv, PoolTypes, PhaseInv
<1>4. AskInv' /\ f \in Files /\ f \in Untouched /\ Untouched' = Untouched \ {f}
  BY <1>2, ReadOut DEF BuildInv
<1>5. Shaped'
  <2>1. buffer' = [k \in Kinds |-> buffer'[k]]
    BY DEF Added
  <2> QED
    BY <1>1, <2>1 DEF BuildInv, Shaped
<1>6. PhaseInv'
  BY <1>2, <1>3 DEF PhaseInv, Early, Publishing
<1>7. claims \in [Pool -> SUBSET Files]
  BY DEF BuildInv, FlagTypes
<1>8. /\ \A v \in Pool \ {w} : claims'[v] = claims[v]
      /\ \A v \in Pool : claims[v] \subseteq claims'[v]
      /\ f \in claims'[w] \/ f \in skipped'
  BY <1>3, <1>7 DEF Claims
<1>9. ASSUME NEW k \in Kinds
      PROVE  /\ (KindInv(k) /\ ManifestInv(k) /\ Bounded(k) /\ Claimed(k))'
             /\ \A v \in Pool \ {w} : buffer'[k][v] = buffer[k][v]
  <2>1. KindInv(k) /\ ManifestInv(k) /\ Bounded(k) /\ Claimed(k)
    BY <1>2 DEF BuildInv, Building, Stopped
  <2>2. claims' = claims \/ (claims' = Claims(w, f) /\ (k \in KindsOf(f) => k \in kinds))
    OBVIOUS
  <2>3. /\ KindInv(k)' /\ Claimed(k)' /\ \A v \in Pool \ {w} : buffer'[k][v] = buffer[k][v]
    <3> HIDE DEF f, w
    <3>1. buffer' = Added(w, f, kinds)
      BY DEF f, w
    <3> QED
      BY <1>1, <1>3, <1>4, <1>7, <2>1, <2>2, <3>1, ReadKeepsKind
  <2>4. Bounded(k)'
    BY <1>1, <2>1, BoundKept DEF BuildInv, FlagTypes
  <2>5. OldKind(k)'
    BY <1>1, <1>2, <2>1, StillOld DEF OldKind, Published, Earlier
  <2> QED
    BY <1>1, <1>2, <2>3, <2>4, <2>5 DEF ManifestInv
<1>10. WorkerInv'
  BY <1>1, <1>3, <1>8, <1>9 DEF BuildInv, WorkerInv
<1>11. AccountInv'
  <2> SUFFICES ASSUME ~stopping.failed, NEW g \in found
               PROVE  g \in Untouched' \/ g \in skipped' \/ \E v \in workers : g \in claims'[v]
    BY <1>1 DEF AccountInv
  <2>1. g \in Untouched \/ g \in skipped \/ \E v \in workers : g \in claims[v]
    BY <1>2 DEF BuildInv, AccountInv, Early
  <2>2. CASE g = f
    BY <1>3, <1>8, <2>2
  <2>3. CASE g # f
    <3>1. workers \subseteq Pool
      BY DEF BuildInv, LoopInv, PoolTypes
    <3> QED
      BY <1>4, <1>8, <2>1, <2>3, <3>1
  <2> QED
    BY <2>2, <2>3
<1> QED
  BY <1>4, <1>5, <1>6, <1>9, <1>10, <1>11 DEF BuildInv

\* A step with a fault counts it.
LEMMA FaultCounts ==
  ASSUME FlagTypes, Trouble
  PROVE  trouble' \in 0 .. MaxFaults /\ trouble' = trouble + 1 /\ trouble' >= trouble
BY LoopConstants DEF FlagTypes, Trouble

\* A task that reads its file.
LEMMA ReadTask ==
  ASSUME BuildInv, LoopInv', found \subseteq Files, NEW t \in Tasks, IndexFile(t) \/ SkipFile(t)
  PROVE  BuildInv'
<1>1. /\ UNCHANGED <<segments, published, merged, previous, phase, stopping, found, todo, pool>>
      /\ MayRead(t) /\ \E at \in {"flushing", "releasing"} : Go(t, at)
      /\ UNCHANGED <<ledger, workers>>
  BY DEF IndexFile, SkipFile, walk, published, pool
<1>2. /\ LoopInv /\ PoolTypes /\ FlagTypes /\ task[t].at = "asking"
      /\ task[t].file \in Files /\ task[t].worker \in Pool
  BY <1>1 DEF BuildInv, MayRead, LoopInv, PoolTypes, TaskInv
<1>3. task'[t].at # "asking" /\ \A u \in Tasks \ {t} : task'[u] = task[u]
  BY <1>1, <1>2, GoesOn
<1>4. claims \in [Pool -> SUBSET Files]
  BY <1>2 DEF FlagTypes
<1>5. CASE IndexFile(t)
  <2>1. /\ buffer' = Added(task[t].worker, task[t].file, KindsOf(task[t].file))
        /\ claims' = Claims(task[t].worker, task[t].file) /\ UNCHANGED <<skipped, trouble>>
    BY <1>5 DEF IndexFile
  <2>2. claims' \in [Pool -> SUBSET Files]
    BY <1>2, <1>4, <2>1 DEF Claims
  <2>3. FlagTypes' /\ trouble' >= trouble
    BY <1>1, <1>2, <2>1, <2>2, LoopConstants DEF FlagTypes
  <2> QED
    BY <1>1, <1>3, <2>1, <2>3, ReadKeeps
<1>6. CASE SkipFile(t)
  <2>1. PICK kinds : buffer' = Added(task[t].worker, task[t].file, kinds)
    BY <1>6 DEF SkipFile
  <2>2. Trouble /\ claims' = claims /\ skipped' = skipped \cup {task[t].file}
    BY <1>6 DEF SkipFile, SkipClaims
  <2>3. trouble' \in 0 .. MaxFaults /\ trouble' >= trouble
    BY <1>2, <2>2, FaultCounts
  <2>4. FlagTypes'
    BY <1>1, <1>2, <2>2, <2>3 DEF FlagTypes
  <2>5. task[t].file \in skipped' /\ skipped \subseteq skipped'
    BY <2>2
  <2> QED
    BY <1>1, <1>3, <2>1, <2>2, <2>3, <2>4, <2>5, ReadKeeps
<1> QED
  BY <1>5, <1>6

\* A file that fails the build.
LEMMA FailsTask ==
  ASSUME BuildInv, LoopInv', found \subseteq Files, NEW t \in Tasks, FileFails(t)
  PROVE  BuildInv'
<1>1. /\ UNCHANGED <<records, segments, published, merged, previous, phase, found, todo, pool>>
      /\ MayRead(t) /\ Go(t, "releasing") /\ Trouble
      /\ stopping' = [stopping EXCEPT !.failed = TRUE]
      /\ UNCHANGED <<buffer, claims, skipped, counter, own, disk, manifest, ledger, workers>>
  BY DEF FileFails, walk, records, segments, published, pool
<1>2. LoopInv /\ PoolTypes /\ FlagTypes /\ AskInv /\ task[t].at = "asking"
  BY <1>1 DEF BuildInv, MayRead, LoopInv
<1>3. task'[t].at # "asking" /\ \A u \in Tasks \ {t} : task'[u] = task[u]
  BY <1>1, <1>2, GoesOn
<1>4. trouble' \in 0 .. MaxFaults /\ trouble' >= trouble
  BY <1>1, <1>2, FaultCounts
<1>5. stopping' \in [cancelled : BOOLEAN, failed : BOOLEAN] /\ stopping'.failed
  BY <1>1, <1>2 DEF FlagTypes
<1>6. FlagTypes' /\ Shaped'
  BY <1>1, <1>2, <1>4, <1>5 DEF FlagTypes, BuildInv, Shaped
<1>7. AskInv' /\ Untouched' \subseteq Untouched
  BY <1>1, <1>2, <1>3, ReadOut
<1>8. phase = "loop"
  BY <1>2, BusyInLoop
<1>9. PhaseInv' /\ WorkerInv' /\ AccountInv'
  BY <1>1, <1>5, <1>8 DEF BuildInv, PhaseInv, Early, Publishing, WorkerInv, AccountInv
<1>10. ASSUME NEW k \in Kinds PROVE (KindInv(k) /\ ManifestInv(k) /\ Bounded(k) /\ Claimed(k))'
  <2>1. KindInv(k) /\ ManifestInv(k) /\ Bounded(k) /\ Claimed(k)
    BY <1>8 DEF BuildInv, Building, Stopped
  <2>2. KindInv(k)'
    BY <1>1, <1>7, <2>1, KeptKeepsKind DEF KindKept
  <2>3. Bounded(k)'
    BY <1>1, <1>4, <2>1, BoundKept DEF BuildInv, FlagTypes
  <2>4. Claimed(k)'
    BY <1>1, <2>1 DEF Claimed
  <2>5. OldKind(k)'
    BY <1>1, <1>8, <2>1, StillOld DEF OldKind, Published, Earlier
  <2> QED
    BY <1>1, <1>8, <2>2, <2>3, <2>4, <2>5 DEF ManifestInv
<1> QED
  BY <1>6, <1>7, <1>9, <1>10 DEF BuildInv

\* A flush of a worker that is not merged keeps all of this, whether it fails or not.
LEMMA FlushKeeps ==
  ASSUME BuildInv, (LoopInv /\ FlagTypes /\ AskInv /\ Shaped)', Untouched' = Untouched,
         phase \in {"loop", "merge"}, phase # "loop" => UNCHANGED task,
         NEW w \in workers, w \notin merged, \A k \in Kinds : KindFlushed(k, w),
         skipped \subseteq skipped', stopping.failed => stopping'.failed, trouble' >= trouble,
         \/ merged' = merged
         \/ phase = "merge" /\ merged' = merged \cup {w} /\ \A k \in Kinds : buffer'[k][w] = {},
         UNCHANGED <<previous, phase, todo, found, pool, claims, published>>
  PROVE  BuildInv'
<1>1. UNCHANGED <<claims, manifest, ledger, workers>> /\ w \in Pool /\ workers \subseteq Pool
  BY DEF published, pool, BuildInv, LoopInv, PoolTypes
<1>2. ASSUME NEW k \in Kinds
      PROVE  /\ KindInv(k)' /\ Bounded(k)'
             /\ \A n \in own[k] : n \in own'[k] /\ disk'[k][n] = disk[k][n]
             /\ \A v \in Pool \ {w} : buffer'[k][v] = buffer[k][v]
             /\ \/ buffer'[k][w] = buffer[k][w]
                \/ buffer'[k][w] = {} /\ \E n \in own'[k] : disk'[k][n] = buffer[k][w]
             /\ previous => disk'[k][1] = disk[k][1]
  <2>1. KindInv(k) /\ Bounded(k) /\ trouble \in 0 .. MaxFaults
    BY DEF BuildInv, Building, FlagTypes
  <2>2. trouble' \in 0 .. MaxFaults /\ previous' = previous /\ Untouched' \subseteq Untouched
    BY DEF FlagTypes
  <2>3. KindFlushed(k, w)
    OBVIOUS
  <2> QED
    BY <1>1, <2>1, <2>2, <2>3, FlushedKeepsKind
<1>3. ASSUME NEW k \in Kinds PROVE Claimed(k)'
  <2> SUFFICES ASSUME NEW v \in Pool, NEW f \in claims[v], k \in KindsOf(f)
               PROVE  f \in buffer'[k][v] \/ \E n \in own'[k] : f \in disk'[k][n]
    BY <1>1 DEF Claimed, KindsOf
  <2>1. f \in buffer[k][v] \/ \E n \in own[k] : f \in disk[k][n]
    BY DEF BuildInv, Stopped, Claimed
  <2>2. CASE \E n \in own[k] : f \in disk[k][n]
    BY <1>2, <2>2
  <2>3. CASE f \in buffer[k][v]
    BY <1>2, <2>3
  <2> QED
    BY <2>1, <2>2, <2>3
<1>4. ASSUME NEW k \in Kinds PROVE ManifestInv(k)'
  <2>1. OldKind(k)
    BY StillOld DEF BuildInv
  <2>2. OldKind(k)'
    BY <1>1, <1>2, <2>1 DEF OldKind, Published, Earlier
  <2> QED
    BY <2>2 DEF ManifestInv
<1>5. PhaseInv'
  BY <1>1 DEF BuildInv, PhaseInv, Early, Publishing
<1>6. WorkerInv'
  <2>1. ASSUME NEW v \in merged', NEW k \in Kinds PROVE buffer'[k][v] = {}
    <3>1. CASE v \in merged
      <4>1. v # w /\ v \in Pool /\ buffer[k][v] = {}
        BY <1>1, <3>1 DEF BuildInv, FlagTypes, WorkerInv
      <4> QED
        BY <1>2, <4>1
    <3>2. CASE v \notin merged
      BY <2>1, <3>2
    <3> QED
      BY <3>1, <3>2
  <2>2. ASSUME NEW v \in Pool \ workers
        PROVE  claims[v] = {} /\ \A k \in Kinds : buffer'[k][v] = {}
    BY <1>2 DEF BuildInv, WorkerInv
  <2> QED
    BY <1>1, <2>1, <2>2 DEF WorkerInv
<1>7. AccountInv'
  BY <1>1 DEF BuildInv, AccountInv
<1> QED
  BY <1>2, <1>3, <1>4, <1>5, <1>6, <1>7 DEF BuildInv

\* A flush leaves the variables per kind what they are.
LEMMA FlushShape ==
  ASSUME NEW w, NEW kinds, UNCHANGED manifest, Shaped,
         Flush(w, kinds) \/ \E kind \in kinds : FlushFails(w, Before(kinds, kind), kind)
  PROVE  Shaped'
<1>1. CASE Flush(w, kinds)
  BY <1>1 DEF Shaped, Flush, Advance
<1>2. ASSUME NEW kind, NEW before, FlushFails(w, before, kind) PROVE Shaped'
  BY <1>2 DEF Shaped, FlushFails, Advance
<1> QED
  BY <1>1, <1>2

\* The full buffers of a task's worker are flushed.
LEMMA FlushTask ==
  ASSUME BuildInv, LoopInv', found \subseteq Files, NEW t \in Tasks, FlushFull(t) \/ FlushFullFails(t)
  PROVE  BuildInv'
<1> DEFINE w == task[t].worker
<1>1. /\ UNCHANGED <<published, merged, previous, phase, found, todo, pool, claims>>
      /\ task[t].at = "flushing" /\ Go(t, "releasing") /\ UNCHANGED <<manifest, ledger, workers>>
  BY DEF FlushFull, FlushFullFails, walk, published, pool
<1>2. LoopInv /\ PoolTypes /\ FlagTypes /\ AskInv /\ Shaped
  BY DEF BuildInv, LoopInv
<1>3. phase = "loop" /\ merged = {} /\ w \in workers /\ task[t].file \in Files
  BY <1>1, <1>2, BusyInLoop DEF BuildInv, PhaseInv, LoopInv, TaskInv
<1>4. task'[t].at = "releasing" /\ \A u \in Tasks \ {t} : task'[u] = task[u]
  BY <1>1, <1>2, GoesOn
<1>5. AskInv' /\ Untouched' = Untouched
  BY <1>1, <1>2, <1>4, AskedStays
<1>6. \A k \in Kinds : k \in IsFull(w) => buffer[k][w] # {}
  BY FullIsNotEmpty
<1> HIDE DEF w
<1>7. CASE FlushFull(t)
  <2>1. Flush(w, IsFull(w)) /\ UNCHANGED <<skipped, stopping, trouble>>
    BY <1>7 DEF FlushFull, w
  <2>2. \A k \in Kinds : KindFlushed(k, w)
    BY <1>6, <2>1, FlushWrites
  <2>3. Shaped'
    BY <1>1, <1>2, <2>1, FlushShape
  <2>4. FlagTypes' /\ trouble' >= trouble
    BY <1>1, <1>2, <2>1, LoopConstants DEF FlagTypes
  <2> QED
    BY <1>1, <1>3, <1>5, <2>1, <2>2, <2>3, <2>4, FlushKeeps
<1>8. CASE FlushFullFails(t)
  <2>1. Trouble /\ \E kind \in IsFull(w) : FlushFails(w, Before(IsFull(w), kind), kind)
    BY <1>8 DEF FlushFullFails, w
  <2>2. trouble' \in 0 .. MaxFaults /\ trouble' = trouble + 1 /\ trouble' >= trouble
    BY <1>2, <2>1, FaultCounts
  <2>3. \A k \in Kinds : KindFlushed(k, w)
    BY <1>6, <2>1, <2>2, FlushWrites
  <2>4. Shaped'
    BY <1>1, <1>2, <2>1, FlushShape
  <2>5. /\ skipped \subseteq skipped' /\ skipped' \subseteq Files
        /\ stopping' \in [cancelled : BOOLEAN, failed : BOOLEAN] /\ (stopping.failed => stopping'.failed)
    BY <1>2, <1>3, <1>8 DEF FlushFullFails, FlagTypes
  <2>6. FlagTypes'
    BY <1>1, <1>2, <2>2, <2>5 DEF FlagTypes
  <2> QED
    BY <1>1, <1>3, <1>5, <2>2, <2>3, <2>4, <2>5, <2>6, FlushKeeps
<1> QED
  BY <1>7, <1>8

\* A worker's last segments are written, or not.
LEMMA MergeKeeps ==
  ASSUME BuildInv, LoopInv', NEW w \in Pool, MergeWorker(w) \/ MergeFails(w)
  PROVE  BuildInv'
<1>1. /\ UNCHANGED <<published, previous, phase, found, todo, pool, claims, task, skipped>>
      /\ phase = "merge" /\ w \in workers \ merged /\ UNCHANGED <<manifest, ledger, workers>>
  BY DEF MergeWorker, MergeFails, walk, published, pool
<1>2. LoopInv /\ FlagTypes /\ AskInv /\ Shaped
  BY DEF BuildInv
<1>3. AskInv' /\ Untouched' = Untouched
  BY <1>1, <1>2, AskedStays
<1>4. \A k \in Kinds : k \in Unwritten(w) <=> buffer[k][w] # {}
  BY DEF Unwritten
<1>5. CASE MergeWorker(w)
  <2>1. Flush(w, Unwritten(w)) /\ UNCHANGED <<stopping, trouble>> /\ merged' = merged \cup {w}
    BY <1>5 DEF MergeWorker
  <2>2. \A k \in Kinds : KindFlushed(k, w)
    BY <1>4, <2>1, FlushWrites
  <2>3. Shaped'
    BY <1>1, <1>2, <2>1, FlushShape
  <2>4. FlagTypes' /\ trouble' >= trouble
    BY <1>1, <1>2, <2>1, LoopConstants DEF FlagTypes
  <2>5. ASSUME NEW k \in Kinds PROVE buffer'[k][w] = {}
    <3>1. IF k \in Unwritten(w) THEN SegmentWritten(k, w) ELSE KindKept(k)
      BY <2>1, FlushEffect
    <3>2. buffer[k] \in [Pool -> SUBSET Files]
      BY DEF BuildInv, KindInv, KindTypes
    <3> QED
      BY <1>4, <3>1, <3>2 DEF SegmentWritten, KindKept
  <2> QED
    BY <1>1, <1>3, <2>1, <2>2, <2>3, <2>4, <2>5, FlushKeeps
<1>6. CASE MergeFails(w)
  <2>1. /\ Trouble /\ \E kind \in Unwritten(w) : FlushFails(w, Before(Unwritten(w), kind), kind)
        /\ stopping' = [stopping EXCEPT !.failed = TRUE] /\ UNCHANGED merged
    BY <1>6 DEF MergeFails
  <2>2. trouble' \in 0 .. MaxFaults /\ trouble' = trouble + 1 /\ trouble' >= trouble
    BY <1>2, <2>1, FaultCounts
  <2>3. \A k \in Kinds : KindFlushed(k, w)
    BY <1>4, <2>1, <2>2, FlushWrites
  <2>4. Shaped'
    BY <1>1, <1>2, <2>1, FlushShape
  <2>5. stopping' \in [cancelled : BOOLEAN, failed : BOOLEAN] /\ stopping'.failed
    BY <1>2, <2>1 DEF FlagTypes
  <2>6. FlagTypes'
    BY <1>1, <1>2, <2>1, <2>2, <2>5 DEF FlagTypes
  <2> QED
    BY <1>1, <1>3, <2>1, <2>2, <2>3, <2>4, <2>5, <2>6, FlushKeeps
<1> QED
  BY <1>5, <1>6
-----------------------------------------------------------------------------
(* From one phase to the next *)

\* Before the loop there are no documents; all that was found is to be handed out.
LEMMA BeginKeeps ==
  ASSUME BuildInv, LoopInv', found \subseteq Files, BeginLoop
  PROVE  BuildInv'
<1>1. /\ phase = "walk" /\ phase' = "loop" /\ todo' = found
      /\ UNCHANGED <<found, previous, task, workers, merged, stopping, trouble>>
      /\ UNCHANGED <<buffer, claims, skipped, counter, own, disk, manifest, ledger>>
  BY DEF BeginLoop, walk, pool, records, segments, published
<1>2. /\ workers = {} /\ merged = {} /\ \A k \in Kinds : own[k] = {}
      /\ \A t \in Tasks : task[t].at = "off"
      /\ \A w \in Pool : \A k \in Kinds : buffer[k][w] = {}
  BY <1>1 DEF BuildInv, PhaseInv, Early, WorkerInv
<1>3. Asked' = {}
  BY <1>1, <1>2 DEF Asked
<1>4. AskInv'
  BY <1>1, <1>2, <1>3 DEF AskInv
<1>5. FlagTypes' /\ Shaped'
  BY <1>1 DEF BuildInv, FlagTypes, Shaped, Phases
<1>6. PhaseInv' /\ WorkerInv' /\ AccountInv'
  BY <1>1, <1>2 DEF BuildInv, PhaseInv, Early, Publishing, WorkerInv, AccountInv, Untouched
<1>7. ASSUME NEW k \in Kinds PROVE (KindInv(k) /\ ManifestInv(k) /\ Bounded(k) /\ Claimed(k))'
  <2>1. KindInv(k) /\ ManifestInv(k) /\ Bounded(k) /\ Claimed(k)
    BY <1>1 DEF BuildInv, Building, Stopped
  <2>2. KindTypes(k)' /\ Numbered(k)'
    BY <1>1, <2>1 DEF KindInv, KindTypes, Numbered, FirstNumber
  <2>3. Placed(k)'
    BY <1>1, <1>2 DEF Placed
  <2>4. Bounded(k)'
    BY <1>1, <2>1, BoundKept DEF BuildInv, FlagTypes
  <2>5. Claimed(k)'
    BY <1>1, <2>1 DEF Claimed, KindsOf
  <2>6. OldKind(k)
    BY <1>1, <2>1 DEF ManifestInv, NewKind, Published
  <2>7. OldKind(k)'
    BY <1>1, <2>6 DEF OldKind, Published, Earlier
  <2> QED
    BY <1>1, <2>2, <2>3, <2>4, <2>5, <2>7 DEF KindInv, ManifestInv
<1> QED
  BY <1>4, <1>5, <1>6, <1>7 DEF BuildInv

\* A step that only changes the phase, the flags or the ledger.
LEMMA PhaseKeeps ==
  ASSUME BuildInv, (LoopInv /\ FlagTypes /\ PhaseInv)', \A k \in Kinds : ManifestInv(k)',
         UNCHANGED <<task, pool, records, merged, segments, manifest, previous, found, todo>>,
         trouble' >= trouble, stopping.failed => stopping'.failed,
         phase \in Early => phase' \in Early, phase' \in Building => phase \in Building,
         phase \notin Stopped
  PROVE  BuildInv'
<1>1. UNCHANGED <<buffer, claims, skipped, counter, own, disk, workers>>
  BY DEF pool, records, segments
<1>2. Shaped' /\ WorkerInv'
  BY <1>1 DEF BuildInv, Shaped, WorkerInv
<1>3. AskInv' /\ Untouched' = Untouched
  BY AskedStays DEF BuildInv
<1>4. AccountInv'
  BY <1>1, <1>3 DEF BuildInv, AccountInv
<1>5. ASSUME NEW k \in Kinds
      PROVE  (KindInv(k) /\ (phase \in Building => Bounded(k)) /\ Claimed(k))'
  <2>1. KindInv(k) /\ (phase \in Building => Bounded(k)) /\ Claimed(k)
    BY DEF BuildInv
  <2>2. KindInv(k)'
    BY <1>1, <1>3, <2>1, KeptKeepsKind DEF KindKept
  <2>3. phase \in Building => Bounded(k)'
    BY <1>1, <2>1, BoundKept DEF BuildInv, FlagTypes
  <2>4. Claimed(k)'
    BY <1>1, <2>1 DEF Claimed, KindsOf
  <2> QED
    BY <2>2, <2>3, <2>4
<1> QED
  BY <1>2, <1>3, <1>4, <1>5 DEF BuildInv

\* The phases of a build that deletes nothing and names nothing.
LEMMA NextPhase ==
  ASSUME BuildInv, LoopInv', Measured \/ EndLoop \/ EndMerge \/ Cancel \/ SaveLedger \/ PublishFails
  PROVE  BuildInv'
<1>1. /\ UNCHANGED <<task, pool, records, merged, segments, manifest, previous, found, todo>>
      /\ UNCHANGED <<own, disk, workers, claims, skipped>>
  BY DEF Measured, EndLoop, EndMerge, Cancel, SaveLedger, PublishFails, walk, published, segments,
         pool, records
<1>2. FlagTypes /\ PhaseInv /\ trouble \in Nat /\ \A t \in Tasks : task[t] = Off => task[t].at = "off"
  BY LoopConstants DEF BuildInv, FlagTypes, Off
<1>3. \A k \in Kinds : ManifestInv(k)
  BY DEF BuildInv
<1>4. CASE Measured
  <2>1. phase = "measure" /\ phase' = "measured" /\ UNCHANGED <<stopping, trouble, ledger>>
    BY <1>4 DEF Measured, published
  <2>2. FlagTypes'
    BY <1>1, <1>2, <2>1 DEF FlagTypes, Phases, Ended
  <2>3. PhaseInv'
    BY <1>1, <1>2, <2>1 DEF PhaseInv, Early, Publishing
  <2>4. \A k \in Kinds : ManifestInv(k)'
    BY <1>1, <1>3, <2>1 DEF ManifestInv, OldKind, NewKind, Published, Earlier
  <2> QED
    BY <1>1, <1>2, <2>1, <2>2, <2>3, <2>4, PhaseKeeps DEF Early, Building, Stopped
<1>5. CASE EndLoop
  <2>1. /\ phase = "loop" /\ phase' \in {"failed", "cleanup", "merge"} /\ UNCHANGED <<stopping, trouble, ledger>>
        /\ phase' = "merge" => ~Stopping
        /\ todo = {} \/ Stopping
        /\ \A t \in Tasks : task[t] = Off
    BY <1>5 DEF EndLoop, Outcome, Stopping, published
  <2>2. FlagTypes'
    BY <1>1, <1>2, <2>1 DEF FlagTypes, Phases, Ended
  <2>3. PhaseInv'
    BY <1>1, <1>2, <2>1 DEF PhaseInv, Early, Publishing
  <2>4. \A k \in Kinds : ManifestInv(k)'
    BY <1>1, <1>3, <2>1 DEF ManifestInv, OldKind, NewKind, Published, Earlier
  <2> QED
    BY <1>1, <1>2, <2>1, <2>2, <2>3, <2>4, PhaseKeeps DEF Early, Building, Stopped
<1>6. CASE EndMerge
  <2>1. /\ phase = "merge" /\ phase' \in {"failed", "cleanup", "text"} /\ UNCHANGED <<stopping, trouble, ledger>>
        /\ phase' = "text" => ~Stopping /\ ~Stopping' /\ merged = workers
    BY <1>6 DEF EndMerge, MergeIsOver, Outcome, Stopping, published
  <2>2. FlagTypes'
    BY <1>1, <1>2, <2>1 DEF FlagTypes, Phases, Ended
  <2>3. PhaseInv'
    BY <1>1, <1>2, <2>1 DEF PhaseInv, Early, Publishing
  <2>4. \A k \in Kinds : ManifestInv(k)'
    BY <1>1, <1>3, <2>1 DEF ManifestInv, OldKind, NewKind, Published, Earlier
  <2> QED
    BY <1>1, <1>2, <2>1, <2>2, <2>3, <2>4, PhaseKeeps DEF Early, Building, Stopped
<1>7. CASE Cancel
  <2>1. /\ phase \in {"loop", "merge"} /\ stopping' = [stopping EXCEPT !.cancelled = TRUE]
        /\ UNCHANGED <<phase, trouble, ledger>>
    BY <1>7 DEF Cancel, published
  <2>2. stopping' \in [cancelled : BOOLEAN, failed : BOOLEAN] /\ (stopping.failed => stopping'.failed)
    BY <1>2, <2>1 DEF FlagTypes
  <2>3. FlagTypes'
    BY <1>1, <1>2, <2>1, <2>2 DEF FlagTypes
  <2>4. PhaseInv'
    BY <1>1, <1>2, <2>1 DEF PhaseInv, Early, Publishing
  <2>5. \A k \in Kinds : ManifestInv(k)'
    BY <1>1, <1>3, <2>1 DEF ManifestInv, OldKind, NewKind, Published, Earlier
  <2> QED
    BY <1>1, <1>2, <2>1, <2>2, <2>3, <2>4, <2>5, PhaseKeeps DEF Early, Building, Stopped
<1>8. CASE SaveLedger
  <2>1. /\ phase = "ledger" /\ phase' = "done" /\ ledger' = UNION {claims[w] : w \in merged}
        /\ UNCHANGED <<stopping, trouble>>
    BY <1>8 DEF SaveLedger
  <2>2. ledger' \subseteq Files
    BY <1>2, <2>1 DEF BuildInv, FlagTypes, LoopInv, PoolTypes
  <2>3. FlagTypes'
    BY <1>1, <1>2, <2>1, <2>2 DEF FlagTypes, Phases, Ended
  <2>4. PhaseInv'
    BY <1>1, <1>2, <2>1 DEF PhaseInv, Early, Publishing, Stopping
  <2>5. \A k \in Kinds : ManifestInv(k)'
    BY <1>1, <1>3, <2>1 DEF ManifestInv, OldKind, NewKind, Published, Earlier
  <2> QED
    BY <1>1, <1>2, <2>1, <2>3, <2>4, <2>5, PhaseKeeps DEF Early, Building, Stopped
<1>9. CASE PublishFails
  <2>1. /\ phase \in {"text", "symbols", "ledger"} /\ phase' = "failed" /\ Trouble
        /\ UNCHANGED <<stopping, ledger>>
    BY <1>9 DEF PublishFails, published
  <2>2. trouble' \in 0 .. MaxFaults /\ trouble' >= trouble
    BY <1>2, <2>1, FaultCounts
  <2>3. FlagTypes'
    BY <1>1, <1>2, <2>1, <2>2 DEF FlagTypes, Phases, Ended
  <2>4. PhaseInv'
    BY <1>1, <1>2, <2>1 DEF PhaseInv, Early, Publishing
  <2>5. \A k \in Kinds : ManifestInv(k)'
    BY <1>1, <1>3, <2>1 DEF ManifestInv, OldKind, NewKind, Published, Earlier
  <2> QED
    BY <1>1, <1>2, <2>1, <2>2, <2>3, <2>4, <2>5, PhaseKeeps DEF Early, Building, Stopped
<1> QED
  BY <1>4, <1>5, <1>6, <1>7, <1>8, <1>9

\* Segments are deleted: nothing is anywhere else, and a build that is over has claims no
\* more.
LEMMA CleanUpKeeps ==
  ASSUME BuildInv, LoopInv', CleanUp
  PROVE  BuildInv'
<1>1. /\ phase = "cleanup" /\ phase' \in Stopped
      /\ UNCHANGED <<previous, todo, found, task, merged, counter, own, stopping, manifest, ledger>>
      /\ UNCHANGED <<buffer, claims, skipped, workers>>
  BY DEF CleanUp, walk, pool, records, published, Stopped
<1>2. LoopInv /\ FlagTypes /\ \A k \in Kinds : KindTypes(k)
  BY DEF BuildInv, KindInv
<1>3. /\ disk' = [k \in Kinds |-> disk'[k]]
      /\ \A k \in Kinds : /\ disk'[k] \in [Numbers -> Segment]
                          /\ \A n \in Numbers : disk'[k][n] = disk[k][n] \/ (n \in own[k] /\ disk'[k][n] = {})
                          /\ phase' = "cancelled" => \A n \in own[k] : disk'[k][n] = {}
      /\ trouble' \in 0 .. MaxFaults
  <2>1. \A k \in Kinds : /\ Without(k, own[k]) \in [Numbers -> Segment]
                         /\ \A n \in Numbers : Without(k, own[k])[n] = IF n \in own[k] THEN {} ELSE disk[k][n]
    BY <1>2 DEF Without, KindTypes, Segment
  <2>2. CASE disk' = [k \in Kinds |-> Without(k, Deleted(k))] /\ UNCHANGED trouble
    <3>1. \A k \in Kinds : disk'[k] = Without(k, own[k])
      BY <2>2 DEF Deleted
    <3>2. \A k \in Kinds : \A n \in own[k] : n \in Numbers
      BY <1>2 DEF KindTypes
    <3> QED
      BY <1>2, <2>1, <2>2, <3>1, <3>2 DEF FlagTypes
  <2>3. ASSUME Trouble, phase' = "littered", NEW j \in Kinds, NEW m \in Numbers, m \in own[j],
               disk' = [[k \in Kinds |-> Without(k, own[k])] EXCEPT ![j][m] = disk[j][m]]
        PROVE  <1>3!1 /\ <1>3!2 /\ <1>3!3
    <3>1. disk' = [k \in Kinds |-> IF k = j THEN [Without(k, own[k]) EXCEPT ![m] = disk[j][m]]
                                   ELSE Without(k, own[k])]
      BY <2>3
    <3>2. \A k \in Kinds : disk'[k] = IF k = j THEN [Without(k, own[k]) EXCEPT ![m] = disk[j][m]]
                                      ELSE Without(k, own[k])
      BY <3>1
    <3>3. disk' = [k \in Kinds |-> disk'[k]]
      BY <3>1
    <3>4. ASSUME NEW k \in Kinds
          PROVE  /\ disk'[k] \in [Numbers -> Segment]
                 /\ \A n \in Numbers : disk'[k][n] = disk[k][n] \/ (n \in own[k] /\ disk'[k][n] = {})
      <4>1. disk[j][m] \in Segment
        BY <1>2, <2>3 DEF KindTypes
      <4>2. CASE k = j
        <5>1. disk'[k] = [Without(k, own[k]) EXCEPT ![m] = disk[j][m]]
          BY <3>2, <4>2
        <5> QED
          BY <2>1, <4>1, <4>2, <5>1
      <4>3. CASE k # j
        <5>1. disk'[k] = Without(k, own[k])
          BY <3>2, <4>3
        <5> QED
          BY <2>1, <5>1
      <4> QED
        BY <4>2, <4>3
    <3>5. trouble' \in 0 .. MaxFaults
      BY <1>2, <2>3, FaultCounts
    <3> QED
      BY <2>3, <3>3, <3>4, <3>5
  <2> QED
    BY <2>2, <2>3 DEF CleanUp
<1>4. FlagTypes' /\ Shaped'
  <2>1. Shaped'
    BY <1>1, <1>3 DEF BuildInv, Shaped
  <2>2. phase' \in Phases
    BY <1>1 DEF Stopped, Phases, Ended
  <2> QED
    BY <1>1, <1>2, <1>3, <2>1, <2>2 DEF FlagTypes
<1>5. AskInv' /\ Untouched' = Untouched
  BY <1>1, AskedStays DEF BuildInv
<1>6. PhaseInv' /\ WorkerInv' /\ AccountInv'
  BY <1>1, <1>5 DEF BuildInv, PhaseInv, Early, Publishing, Stopped, WorkerInv, AccountInv
<1>7. ASSUME NEW k \in Kinds PROVE (KindInv(k) /\ ManifestInv(k))'
  <2>1. KindInv(k) /\ ManifestInv(k)
    BY DEF BuildInv
  <2>2. /\ disk'[k] \in [Numbers -> Segment]
        /\ \A n \in Numbers : disk'[k][n] = disk[k][n] \/ (n \in own[k] /\ disk'[k][n] = {})
        /\ phase' = "cancelled" => \A n \in own[k] : disk'[k][n] = {}
    BY <1>3
  <2>3. KindInv(k)'
    <3>1. \A n \in Numbers : disk'[k][n] \in {disk[k][n], {}}
      BY <2>2
    <3> QED
      BY <1>1, <1>5, <2>1, <2>2, <3>1, DeletedKeepsKind
  <2>4. OldKind(k)
    BY <1>1, <2>1, StillOld
  <2>5. ASSUME previous PROVE disk'[k][1] = disk[k][1]
    <3>1. 1 \in Numbers
      BY NumbersArePositive, LoopConstants
    <3>2. 1 \notin own[k]
      BY <2>1, <2>5 DEF KindInv, Numbered, FirstNumber
    <3> QED
      BY <2>2, <3>1, <3>2
  <2>6. OldKind(k)'
    BY <1>1, <2>4, <2>5 DEF OldKind, Published, Earlier, Stopped
  <2> QED
    BY <1>1, <2>2, <2>3, <2>6 DEF ManifestInv
<1> QED
  BY <1>1, <1>4, <1>5, <1>6, <1>7 DEF BuildInv, Building, Stopped

\* The manifest of a kind names what the build wrote.
LEMMA PublishKeeps ==
  ASSUME BuildInv, LoopInv',
         NEW kind \in Kinds, NEW next, Publish(kind, next),
         (kind = "text" /\ next = "symbols") \/ (kind = "symbols" /\ next = "ledger")
  PROVE  BuildInv'
<1>1. /\ phase = kind /\ phase' = next /\ kind \in {"text", "symbols"} /\ next \in {"symbols", "ledger"}
      /\ UNCHANGED <<previous, todo, found, task, merged, counter, own, stopping, trouble, ledger>>
      /\ UNCHANGED <<buffer, claims, skipped, workers>>
  BY DEF Publish, walk, pool, records
<1>2. /\ manifest' = [manifest EXCEPT ![kind] = own[kind]]
      /\ disk' = [disk EXCEPT ![kind] = Without(kind, Numbers \ own[kind])]
  BY DEF Publish
<1>3. FlagTypes /\ Shaped /\ merged = workers /\ \A k \in Kinds : KindTypes(k)
  BY <1>1 DEF BuildInv, KindInv, PhaseInv, Publishing
<1>4. \A k \in Kinds : /\ manifest'[k] = IF k = kind THEN own[k] ELSE manifest[k]
                       /\ disk'[k] = IF k = kind THEN Without(k, Numbers \ own[k]) ELSE disk[k]
  <2>1. manifest = [k \in Kinds |-> manifest[k]] /\ disk = [k \in Kinds |-> disk[k]]
    BY <1>3 DEF Shaped
  <2>2. manifest' = [[k \in Kinds |-> manifest[k]] EXCEPT ![kind] = own[kind]]
    BY <1>2, <2>1
  <2>3. disk' = [[k \in Kinds |-> disk[k]] EXCEPT ![kind] = Without(kind, Numbers \ own[kind])]
    BY <1>2, <2>1
  <2> QED
    BY <2>2, <2>3
<1>5. Shaped'
  BY <1>1, <1>2, <1>3 DEF Shaped
<1>6. FlagTypes'
  BY <1>1, <1>3 DEF FlagTypes, Phases
<1>7. AskInv' /\ Untouched' = Untouched
  BY <1>1, AskedStays DEF BuildInv
<1>8. PhaseInv' /\ WorkerInv' /\ AccountInv'
  BY <1>1, <1>7 DEF BuildInv, PhaseInv, Early, Publishing, Stopping, WorkerInv, AccountInv
<1>9. ASSUME NEW k \in Kinds PROVE (KindInv(k) /\ ManifestInv(k) /\ Claimed(k))'
  <2>1. KindInv(k) /\ ManifestInv(k) /\ Claimed(k)
    BY <1>1 DEF BuildInv, Stopped
  <2>2. /\ disk'[k] \in [Numbers -> Segment]
        /\ \A n \in Numbers : disk'[k][n] = disk[k][n] \/ (n \notin own[k] /\ disk'[k][n] = {})
    <3>1. CASE k = kind
      <4>1. disk'[k] = Without(k, Numbers \ own[k])
        BY <1>4, <3>1
      <4> QED
        BY <1>3, <4>1 DEF Without, KindTypes, Segment
    <3>2. CASE k # kind
      BY <1>3, <1>4, <3>2 DEF KindTypes
    <3> QED
      BY <3>1, <3>2
  <2>3. KindInv(k)'
    <3>1. \A n \in Numbers : disk'[k][n] \in {disk[k][n], {}}
      BY <2>2
    <3> QED
      BY <1>1, <1>7, <2>1, <2>2, <3>1, DeletedKeepsKind
  <2>4. Claimed(k)'
    <3>1. \A n \in own[k] : disk'[k][n] = disk[k][n]
      BY <1>3, <2>2 DEF KindTypes
    <3> QED
      BY <1>1, <2>1, <3>1 DEF Claimed, KindsOf
  <2>5. ManifestInv(k)'
    <3>1. CASE k = kind
      BY <1>1, <1>3, <1>4, <3>1 DEF ManifestInv, NewKind, Published
    <3>2. CASE k # kind
      <4>1. manifest'[k] = manifest[k] /\ disk'[k] = disk[k] /\ phase \in {"text", "symbols"}
        BY <1>1, <1>4, <3>2
      <4>2. \/ kind = "text" /\ k = "symbols" /\ phase = "text" /\ phase' = "symbols"
            \/ kind = "symbols" /\ k = "text" /\ phase = "symbols" /\ phase' = "ledger"
        BY <1>1, <3>2 DEF Kinds
      <4> QED
        BY <1>1, <2>1, <4>1, <4>2 DEF ManifestInv, OldKind, NewKind, Published, Earlier
    <3> QED
      BY <3>1, <3>2
  <2> QED
    BY <2>3, <2>4, <2>5
<1> QED
  BY <1>1, <1>5, <1>6, <1>7, <1>8, <1>9 DEF BuildInv, Building
-----------------------------------------------------------------------------
(* The build as a whole *)

\* A build starts with nothing of its own.
LEMMA BuildStarts ==
  ASSUME Init
  PROVE  BuildInv
<1>1. /\ todo = {} /\ task = [t \in Tasks |-> Off] /\ idle = {} /\ workers = {}
      /\ buffer = [k \in Kinds |-> [w \in Pool |-> {}]] /\ claims = [w \in Pool |-> {}]
      /\ merged = {} /\ skipped = {} /\ trouble = 0
      /\ stopping = [cancelled |-> FALSE, failed |-> FALSE]
      /\ previous \in BOOLEAN /\ phase \in {"walk", "measure"}
  BY DEF Init
<1>2. /\ disk = [k \in Kinds |-> [n \in Numbers |-> IF n = 1 /\ previous THEN Earlier ELSE {}]]
      /\ manifest = [k \in Kinds |-> IF previous THEN {1} ELSE {}] /\ ledger = Earlier
      /\ counter = [k \in Kinds |-> FirstNumber] /\ own = [k \in Kinds |-> {}]
  BY DEF Init
<1>3. LoopInv
  <2>1. /\ available = Budget /\ nextTicket = 0 /\ serving = 0
        /\ request = [t \in Tasks |-> Reads!NoRequest]
    BY DEF Init, Reads!Init
  <2>2. Reads!NoRequest \in Reads!Request /\ Reads!NoRequest.at = "none" /\ Budget \in Nat
    BY LoopConstants DEF Reads!NoRequest, Reads!Request
  <2>3. BudgetTypes
    BY <2>1, <2>2 DEF BudgetTypes
  <2>4. \A t \in Tasks : request[t].at = "none"
    BY <2>1, <2>2
  <2>5. Cardinality(BytesOf(request)) = 0
    <3>1. \A t \in Tasks : request[t].at # "granted"
      BY <2>4
    <3> QED
      BY <3>1, NoBytes
  <2>6. BudgetInv
    BY <2>1, <2>2, <2>4, <2>5 DEF BudgetInv
  <2>7. Off \in Task /\ Off.at = "off"
    BY DEF Off, Task
  <2>8. PoolTypes /\ TaskInv
    BY <1>1, <2>4, <2>7 DEF PoolTypes, TaskInv
  <2>9. PoolInv
    <3>1. Cardinality(workers) = 0
      BY <1>1, FS_EmptySet
    <3>2. workers = 1 .. Cardinality(workers)
      BY <1>1, <3>1
    <3> QED
      BY <1>1, <3>2 DEF PoolInv, Off
  <2> QED
    BY <2>3, <2>6, <2>8, <2>9 DEF LoopInv
<1>4. FlagTypes
  BY <1>1, <1>2, LoopConstants DEF FlagTypes, Phases, Earlier
<1>5. Shaped
  BY <1>1, <1>2 DEF Shaped
<1>6. Asked = {} /\ \A t \in Tasks : task[t].at = "off"
  BY <1>1 DEF Asked, Off
<1>7. AskInv /\ PhaseInv /\ WorkerInv /\ AccountInv
  BY <1>1, <1>2, <1>6 DEF AskInv, PhaseInv, WorkerInv, AccountInv, Early, Publishing
<1>8. ASSUME NEW k \in Kinds PROVE KindInv(k) /\ ManifestInv(k) /\ Bounded(k) /\ Claimed(k)
  <2>1. /\ buffer[k] = [w \in Pool |-> {}] /\ own[k] = {} /\ counter[k] = FirstNumber
        /\ disk[k] = [n \in Numbers |-> IF n = 1 /\ previous THEN Earlier ELSE {}]
        /\ manifest[k] = IF previous THEN {1} ELSE {}
    BY <1>1, <1>2
  <2>2. 1 \in Numbers /\ FirstNumber \in Numbers /\ FirstNumber \in {1, 2}
    BY NumbersArePositive, LoopConstants
  <2>3. KindTypes(k)
    BY <2>1, <2>2 DEF KindTypes, Segment, Earlier
  <2>4. Placed(k)
    BY <2>1 DEF Placed
  <2>5. Numbered(k)
    BY <2>1, <2>2 DEF Numbered
  <2>6. ManifestInv(k)
    BY <1>1, <2>1, <2>2 DEF ManifestInv, OldKind, Published
  <2>7. Bounded(k)
    <3>1. Written(k) = {}
      BY <2>1 DEF Written
    <3>2. Files \ Written(k) = Files
      BY <3>1
    <3>3. counter[k] + Cardinality(Files) <= 2 + Cardinality(Files) + trouble
      BY <1>1, <2>1, <2>2, LoopConstants
    <3> QED
      BY <3>2, <3>3 DEF Bounded
  <2>8. Claimed(k)
    BY <1>1 DEF Claimed
  <2> QED
    BY <2>3, <2>4, <2>5, <2>6, <2>7, <2>8 DEF KindInv
<1> QED
  BY <1>3, <1>4, <1>5, <1>7, <1>8 DEF BuildInv

\* Every step of a build keeps what is known of it.
LEMMA BuildStep ==
  ASSUME BuildInv, W!TypeOK, [Next]_vars
  PROVE  BuildInv'
<1>1. found \subseteq Files
  BY DEF W!TypeOK
<1>2. LoopInv'
  <2>1. LoopInv /\ todo \subseteq Files
    BY <1>1 DEF BuildInv, FlagTypes
  <2> QED
    BY <2>1, LoopStep
<1>3. ASSUME NEW t \in Tasks, WorkOn(t) \/ SkipFile(t) \/ FileFails(t) \/ FlushFullFails(t)
      PROVE  BuildInv'
  BY <1>1, <1>2, <1>3, QuietTask, ReadTask, FailsTask, FlushTask DEF WorkOn
<1>4. ASSUME GoOn PROVE BuildInv'
  <2>1. ASSUME NEW w \in Pool, MergeWorker(w) PROVE BuildInv'
    BY <1>2, <2>1, MergeKeeps
  <2>2. ASSUME Publish("text", "symbols") \/ Publish("symbols", "ledger") PROVE BuildInv'
    BY <1>2, <2>2, PublishKeeps DEF Kinds
  <2> QED
    BY <1>1, <1>2, <1>4, <2>1, <2>2, BeginKeeps, NextPhase, CleanUpKeeps DEF GoOn
<1>5. ASSUME NEW w \in Pool, MergeFails(w) PROVE BuildInv'
  BY <1>2, <1>5, MergeKeeps
<1>6. ASSUME Cancel \/ PublishFails PROVE BuildInv'
  BY <1>2, <1>6, NextPhase
<1>7. ASSUME \/ \E v \in Walkers : WalkOn(v) \/ Walking(W!Fault(v))
             \/ CallerOn \/ CountFaulted \/ LeaveEarly
      PROVE  BuildInv'
  <2>1. /\ phase \in {"walk", "measure"}
        /\ UNCHANGED <<previous, phase, todo, task, pool, records, merged, segments, stopping,
                       trouble, published>>
    BY <1>7 DEF WalkOn, CallerOn, CountFaulted, LeaveEarly, Walking
  <2> QED
    BY <1>2, <2>1, WalkKeeps
<1>8. ASSUME UNCHANGED vars PROVE BuildInv'
  <2>1. /\ UNCHANGED <<previous, phase, todo, task, idle, workers, buffer, claims, skipped, merged,
                       counter, own, disk, stopping, trouble, manifest, ledger, found>>
    BY <1>8 DEF vars, walk, pool, records, segments, published
  <2>2. AskInv' /\ Untouched' = Untouched
    BY <2>1, AskedStays DEF BuildInv
  <2>3. FlagTypes' /\ Shaped' /\ PhaseInv' /\ WorkerInv' /\ AccountInv'
    BY <2>1, <2>2 DEF BuildInv, FlagTypes, Shaped, PhaseInv, WorkerInv, AccountInv, Stopping
  <2>4. ASSUME NEW k \in Kinds
        PROVE  /\ KindInv(k)' /\ ManifestInv(k)'
               /\ (phase \in Building => Bounded(k)') /\ (phase \notin Stopped => Claimed(k)')
    <3>1. /\ KindInv(k) /\ ManifestInv(k)
          /\ (phase \in Building => Bounded(k)) /\ (phase \notin Stopped => Claimed(k))
      BY DEF BuildInv
    <3>2. KindInv(k)'
      BY <2>1, <2>2, <3>1, KeptKeepsKind DEF KindKept
    <3>3. ManifestInv(k)'
      BY <2>1, <3>1 DEF ManifestInv, OldKind, NewKind, Published, Earlier
    <3>4. Bounded(k)' = Bounded(k) /\ Claimed(k)' = Claimed(k)
      BY <2>1, Zenon DEF Bounded, Claimed, Written
    <3> QED
      BY <3>1, <3>2, <3>3, <3>4
  <2> QED
    BY <1>2, <2>1, <2>2, <2>3, <2>4 DEF BuildInv
<1> QED
  BY <1>3, <1>4, <1>5, <1>6, <1>7, <1>8 DEF Next

\* What is known of the walk and of the build holds in every state of a build.
LEMMA BuildInvariance == Spec => [](W!TypeOK /\ BuildInv)
<1>1. Init => W!Init
  BY DEF Init
<1>2. W!Assumptions
  BY Assumptions DEF Assumptions
<1>3. Spec => W!Spec
  BY <1>1, WalkSteps, PTL DEF Spec, W!Spec
<1>4. Spec => []W!TypeOK
  BY <1>2, <1>3, WalkTypeCorrect, PTL
<1>5. Init => BuildInv
  BY BuildStarts
<1>6. BuildInv /\ W!TypeOK /\ [Next]_vars => BuildInv'
  BY BuildStep
<1> QED
  BY <1>4, <1>5, <1>6, PTL DEF Spec

\* Everything has its type; above all, no segment number runs past those there are and
\* no worker past the pool, and a worker is in the hands of one task.
THEOREM BuildTypeCorrect == Spec => []TypeOK
<1>1. W!TypeOK /\ BuildInv => TypeOK
  <2> SUFFICES ASSUME W!TypeOK, BuildInv PROVE TypeOK
    OBVIOUS
  <2>1. BudgetTypes /\ PoolTypes /\ FlagTypes /\ Shaped /\ \A k \in Kinds : KindTypes(k)
    BY DEF BuildInv, LoopInv, KindInv
  <2>2. Reads!TypeOK
    BY <2>1 DEF BudgetTypes, Reads!TypeOK
  <2>3. /\ buffer \in [Kinds -> [Pool -> SUBSET Files]]
        /\ counter \in [Kinds -> Numbers] /\ own \in [Kinds -> SUBSET Numbers]
        /\ disk \in [Kinds -> [Numbers -> Segment]]
    BY <2>1 DEF Shaped, KindTypes
  <2>4. manifest \in [Kinds -> SUBSET Numbers]
    <3>1. \A k \in Kinds : manifest[k] \subseteq Numbers
      <4>1. 1 \in Numbers
        BY NumbersArePositive, LoopConstants
      <4> QED
        BY <2>1, <4>1 DEF BuildInv, ManifestInv, OldKind, NewKind, KindTypes
    <3> QED
      BY <2>1, <3>1 DEF Shaped
  <2>5. \A t, u \in Tasks : task[t].worker # None =>
          task[t].worker \notin idle /\ (t # u => task[t].worker # task[u].worker)
    BY DEF BuildInv, LoopInv, TaskInv, PoolInv, Off
  <2> QED
    BY <2>1, <2>2, <2>3, <2>4, <2>5 DEF TypeOK, PoolTypes, FlagTypes
<1> QED
  BY <1>1, BuildInvariance, PTL

\* The bytes in memory and those available make up the budget, whatever the sizes of the
\* files, the order of the requests, the faults and the cancellation (ByteBudget.cs).
THEOREM BudgetKept == Spec => []BudgetIsKept
<1>1. BuildInv => BudgetIsKept
  <2> SUFFICES ASSUME BuildInv PROVE BudgetIsKept
    OBVIOUS
  <2>1. available + Cardinality(BytesOf(request)) = Budget /\ available \in Nat
    BY LoopConstants DEF BuildInv, LoopInv, BudgetInv, BudgetTypes
  <2>2. Reads!Reserved = BytesOf(request)
    BY DEF Reads!Reserved, BytesOf
  <2>3. Reads!Cardinality(Reads!Reserved) = Cardinality(Reads!Reserved)
    BY Zenon DEF Reads!Cardinality, Cardinality
  <2> QED
    BY <2>1, <2>2, <2>3 DEF BudgetIsKept, Reads!BudgetIsKept, Reads!InUse
<1> QED
  BY <1>1, BuildInvariance, PTL

\* In a build that ends well each file that was found is in the ledger or was logged, and
\* each document of the ledger is in exactly one of the segments that are the index
\* (RepositoryIndexer.BuildLocked).
THEOREM EveryFileAccounted == Spec => []FilesAreAccounted
<1>1. W!TypeOK /\ BuildInv => FilesAreAccounted
  <2> SUFFICES ASSUME W!TypeOK, BuildInv, phase = "done"
               PROVE  /\ found \subseteq ledger \cup skipped
                      /\ \A f \in ledger : \A k \in KindsOf(f) :
                           Cardinality({n \in manifest[k] : f \in disk[k][n]}) = 1
    BY DEF FilesAreAccounted
  <2>1. /\ ~stopping.failed /\ todo = {} /\ merged = workers
        /\ ledger = UNION {claims[w] : w \in workers} /\ \A t \in Tasks : task[t].at = "off"
    BY DEF BuildInv, PhaseInv, Publishing, Stopping
  <2>2. Untouched = {}
    BY <2>1 DEF Untouched, Asked
  <2>3. found \subseteq ledger \cup skipped
    BY <2>1, <2>2 DEF BuildInv, AccountInv, Early
  <2>4. ASSUME NEW f \in ledger, NEW k \in KindsOf(f)
        PROVE  Cardinality({n \in manifest[k] : f \in disk[k][n]}) = 1
    <3>1. PICK w \in workers : f \in claims[w]
      BY <2>1
    <3>2. k \in Kinds /\ w \in Pool /\ buffer[k][w] = {}
      BY <2>1 DEF KindsOf, Kinds, BuildInv, LoopInv, PoolTypes, WorkerInv
    <3>3. KindInv(k) /\ ManifestInv(k) /\ Claimed(k)
      BY <3>2 DEF BuildInv, Stopped
    <3>4. PICK n \in own[k] : f \in disk[k][n]
      BY <3>1, <3>2, <3>3 DEF Claimed
    <3>5. \A m \in own[k] : f \in disk[k][m] => m = n
      BY <3>3, <3>4 DEF KindInv, Placed
    <3>6. manifest[k] = own[k]
      BY <3>3 DEF ManifestInv, OldKind, NewKind, Published
    <3>7. {m \in manifest[k] : f \in disk[k][m]} = {n}
      BY <3>4, <3>5, <3>6
    <3> QED
      BY <3>7, FS_Singleton
  <2> QED
    BY <2>3, <2>4
<1> QED
  BY <1>1, BuildInvariance, PTL

\* Whenever a build is killed an open loads the old index or the new one, and a build
\* that was cancelled leaves nothing to load but what was there (RepositoryIndexer's
\* publication and its clean-up).
THEOREM StoppedBuildIsOldOrNew == Spec => []StoppedIsOldOrNew
<1>1. BuildInv => StoppedIsOldOrNew
  <2> SUFFICES ASSUME BuildInv PROVE StoppedIsOldOrNew
    OBVIOUS
  <2>1. ASSUME NEW k \in Kinds, previous, OldKind(k) PROVE Loaded(k) = Earlier
    BY <2>1 DEF OldKind, Loaded
  <2>2. ASSUME NEW k \in Kinds, NewKind(k), phase # "cancelled"
        PROVE  /\ merged = workers
               /\ \A w \in workers : \A f \in claims[w] : k \in KindsOf(f) => f \in Loaded(k)
    <3>1. KindInv(k) /\ Claimed(k) /\ manifest[k] = own[k] /\ merged = workers
      BY <2>2 DEF BuildInv, Stopped, NewKind, Published
    <3>2. ASSUME NEW w \in workers, NEW f \in claims[w], k \in KindsOf(f) PROVE f \in Loaded(k)
      <4>1. w \in Pool /\ buffer[k][w] = {}
        BY <3>1 DEF BuildInv, LoopInv, PoolTypes, WorkerInv
      <4>2. PICK n \in own[k] : f \in disk[k][n]
        BY <3>1, <3>2, <4>1 DEF Claimed
      <4> QED
        BY <3>1, <4>2 DEF Loaded
    <3> QED
      BY <3>1, <3>2
  <2>3. ASSUME NEW k \in Kinds, phase = "cancelled" PROVE Loaded(k) = Earlier
    <3>1. KindInv(k) /\ OldKind(k) /\ \A n \in own[k] : disk[k][n] = {}
      BY <2>3 DEF BuildInv, ManifestInv, NewKind, Published
    <3>2. CASE previous
      BY <2>1, <3>1, <3>2
    <3>3. CASE ~previous
      <4>1. manifest[k] = {} /\ \A n \in Numbers : disk[k][n] = {}
        BY <3>1, <3>3 DEF OldKind, KindInv, Numbered
      <4> QED
        BY <3>3, <4>1 DEF Loaded, Earlier
    <3> QED
      BY <3>2, <3>3
  <2>4. \A k \in Kinds : OldKind(k) \/ NewKind(k)
    BY DEF BuildInv, ManifestInv
  <2> QED
    BY <2>1, <2>2, <2>3, <2>4 DEF StoppedIsOldOrNew
<1> QED
  BY <1>1, BuildInvariance, PTL
-----------------------------------------------------------------------------
(* Nobody waits for ever *)

\* The requests that wait for their bytes, awake or asleep.
Waiters == {t \in Tasks : request[t].at \in {"awake", "asleep"}}

\* The line: each ticket from the one that is served on is one waiting request's, and
\* nobody sleeps whose turn it is and who would find enough.
LineInv ==
  /\ \A t \in Waiters : request[t].ticket >= serving
  /\ \A t, u \in Waiters : t # u => request[t].ticket # request[u].ticket
  /\ \A n \in serving .. (nextTicket - 1) : \E t \in Waiters : request[t].ticket = n
  /\ \A t \in Tasks : request[t].at = "asleep" => ~Reads!MayTake(t)

\* Once the sleepers are awake nobody sleeps, and the same requests wait.
LEMMA Woken ==
  ASSUME NEW r \in [Tasks -> Reads!Request], NEW q, q = Reads!PulseAll(r)
  PROVE  \A t \in Tasks : /\ q[t].at # "asleep" /\ q[t].ticket = r[t].ticket
                          /\ q[t].at \in {"awake", "asleep"} <=> r[t].at \in {"awake", "asleep"}
<1>1. ASSUME NEW t \in Tasks
      PROVE  /\ q[t] = IF r[t].at = "asleep" THEN [r[t] EXCEPT !.at = "awake"] ELSE r[t]
             /\ r[t] \in Reads!Request
  BY DEF Reads!PulseAll
<1> QED
  BY <1>1 DEF Reads!Request

\* Asking joins the end of the line.
LEMMA AcquireLine ==
  ASSUME BudgetTypes, BudgetInv, LineInv, NEW t \in Tasks, NEW f \in Files,
         Reads!Acquire(t, Footprint[f])
  PROVE  LineInv'
<1> DEFINE q == [at |-> "awake", ticket |-> nextTicket, need |-> Reads!Reserve(Footprint[f])]
<1>1. /\ request' = [request EXCEPT ![t] = q] /\ request[t].at = "none"
      /\ nextTicket' = nextTicket + 1 /\ available' = available /\ serving' = serving
  BY DEF Reads!Acquire
<1>2. request'[t] = q /\ \A u \in Tasks \ {t} : request'[u] = request[u]
  BY <1>1 DEF BudgetTypes
<1>3. request'[t].at = "awake" /\ request'[t].ticket = nextTicket
  BY <1>2
<1> HIDE DEF q
<1>4. Waiters' = Waiters \cup {t} /\ t \notin Waiters
  BY <1>1, <1>2, <1>3 DEF Waiters
<1>5. /\ nextTicket \in Nat /\ serving \in Nat /\ serving <= nextTicket
      /\ \A u \in Tasks : request[u].ticket \in Nat
  BY DEF BudgetTypes, Reads!Request
<1>6. \A u \in Waiters : u # t /\ u \in Tasks /\ request'[u] = request[u] /\ request[u].ticket < nextTicket
  BY <1>2, <1>4 DEF Waiters, BudgetInv
<1>7. \A u \in Waiters' : request'[u].ticket >= serving'
  BY <1>1, <1>3, <1>4, <1>5, <1>6 DEF LineInv
<1>8. ASSUME NEW u \in Waiters', NEW v \in Waiters', u # v
      PROVE  request'[u].ticket # request'[v].ticket
  <2>1. CASE u # t /\ v # t
    BY <1>4, <1>6, <1>8, <2>1 DEF LineInv
  <2>2. CASE u = t
    BY <1>3, <1>4, <1>5, <1>6, <1>8, <2>2 DEF Waiters
  <2>3. CASE v = t
    BY <1>3, <1>4, <1>5, <1>6, <1>8, <2>3 DEF Waiters
  <2> QED
    BY <2>1, <2>2, <2>3
<1>9. ASSUME NEW n \in serving' .. (nextTicket' - 1)
      PROVE  \E u \in Waiters' : request'[u].ticket = n
  <2>1. CASE n = nextTicket
    BY <1>3, <1>4, <2>1
  <2>2. CASE n # nextTicket
    <3>1. n \in serving .. (nextTicket - 1)
      BY <1>1, <1>5, <2>2
    <3>2. PICK u \in Waiters : request[u].ticket = n
      BY <3>1 DEF LineInv
    <3> QED
      BY <1>4, <1>6, <3>2
  <2> QED
    BY <2>1, <2>2
<1>10. ASSUME NEW u \in Tasks, request'[u].at = "asleep"
       PROVE  ~(Reads!MayTake(u))'
  <2>1. request[u] = request'[u]
    BY <1>2, <1>3, <1>10
  <2> QED
    BY <1>1, <1>10, <2>1 DEF LineInv, Reads!MayTake
<1> QED
  BY <1>7, <1>8, <1>9, <1>10 DEF LineInv

\* The head of the line leaves it, and wakes the others; who waits for longer sleeps.
LEMMA AwaitLine ==
  ASSUME BudgetTypes, BudgetInv, LineInv, NEW t \in Tasks, Reads!TakeBytes(t) \/ Reads!Wait(t)
  PROVE  LineInv'
<1>1. /\ request[t] \in Reads!Request /\ request \in [Tasks -> Reads!Request]
      /\ nextTicket \in Nat /\ serving \in Nat /\ \A u \in Tasks : request[u].ticket \in Nat
  BY DEF BudgetTypes, Reads!Request
<1>2. CASE Reads!Wait(t)
  <2>1. /\ request[t].at = "awake" /\ ~Reads!MayTake(t)
        /\ request' = [request EXCEPT ![t].at = "asleep"]
        /\ available' = available /\ nextTicket' = nextTicket /\ serving' = serving
    BY <1>2 DEF Reads!Wait
  <2>2. /\ request'[t] = [request[t] EXCEPT !.at = "asleep"]
        /\ \A u \in Tasks \ {t} : request'[u] = request[u]
    BY <1>1, <2>1
  <2>3. /\ request'[t].at = "asleep" /\ request'[t].need = request[t].need
        /\ request'[t].ticket = request[t].ticket
    BY <1>1, <2>2 DEF Reads!Request
  <2>4. Waiters' = Waiters /\ \A u \in Tasks : request'[u].ticket = request[u].ticket
    BY <2>1, <2>2, <2>3 DEF Waiters
  <2>5. ASSUME NEW u \in Tasks, request'[u].at = "asleep"
        PROVE  ~(Reads!MayTake(u))'
    <3>1. ~Reads!MayTake(u)
      BY <2>1, <2>2, <2>5 DEF LineInv
    <3>2. request'[u].ticket = request[u].ticket /\ request'[u].need = request[u].need
      BY <2>2, <2>3
    <3> QED
      BY <2>1, <3>1, <3>2 DEF Reads!MayTake
  <2>6. Waiters \subseteq Tasks
    BY DEF Waiters
  <2>7. /\ \A u \in Waiters' : request'[u].ticket >= serving'
        /\ \A u, v \in Waiters' : u # v => request'[u].ticket # request'[v].ticket
    BY <2>1, <2>4, <2>6 DEF LineInv
  <2>8. \A n \in serving' .. (nextTicket' - 1) : \E u \in Waiters' : request'[u].ticket = n
    BY <2>1, <2>4, <2>6 DEF LineInv
  <2> QED
    BY <2>5, <2>7, <2>8 DEF LineInv
<1>3. CASE Reads!TakeBytes(t)
  <2> DEFINE r == [request EXCEPT ![t].at = "granted"]
  <2>1. /\ request[t].at = "awake" /\ request[t].ticket = serving
        /\ serving' = serving + 1 /\ request' = Reads!PulseAll(r) /\ nextTicket' = nextTicket
    BY <1>3 DEF Reads!TakeBytes, Reads!MayTake
  <2>2. [request[t] EXCEPT !.at = "granted"] \in Reads!Request
    BY <1>1 DEF Reads!Request
  <2>3. /\ r \in [Tasks -> Reads!Request]
        /\ r[t] = [request[t] EXCEPT !.at = "granted"]
        /\ \A u \in Tasks \ {t} : r[u] = request[u]
    BY <1>1, <2>2
  <2>4. r[t].at = "granted" /\ r[t].ticket = request[t].ticket
    BY <1>1, <2>3 DEF Reads!Request
  <2> HIDE DEF r
  <2>5. \A u \in Tasks : /\ request'[u].at # "asleep" /\ request'[u].ticket = r[u].ticket
                         /\ request'[u].at \in {"awake", "asleep"} <=> r[u].at \in {"awake", "asleep"}
    BY <2>1, <2>3, Woken
  <2>6. t \in Waiters /\ Waiters' = Waiters \ {t} /\ Waiters \subseteq Tasks
    <3>1. t \in Waiters /\ Waiters \subseteq Tasks /\ Waiters' \subseteq Tasks
      BY <2>1 DEF Waiters
    <3>2. t \notin Waiters'
      BY <2>4, <2>5 DEF Waiters
    <3>3. ASSUME NEW u \in Tasks \ {t} PROVE u \in Waiters' <=> u \in Waiters
      BY <2>3, <2>5 DEF Waiters
    <3> QED
      BY <3>1, <3>2, <3>3
  <2>7. \A u \in Tasks : request'[u].ticket = request[u].ticket
    BY <2>3, <2>4, <2>5
  <2>8. ASSUME NEW u \in Waiters' PROVE request'[u].ticket >= serving'
    <3>1. request[u].ticket >= serving /\ request[u].ticket # serving /\ request[u].ticket \in Nat
      BY <1>1, <2>1, <2>6 DEF LineInv
    <3> QED
      BY <1>1, <2>1, <2>6, <2>7, <3>1
  <2>9. ASSUME NEW n \in serving' .. (nextTicket' - 1)
        PROVE  \E u \in Waiters' : request'[u].ticket = n
    <3>1. n \in serving .. (nextTicket - 1) /\ n # serving
      BY <1>1, <2>1
    <3>2. PICK u \in Waiters : request[u].ticket = n
      BY <3>1 DEF LineInv
    <3> QED
      BY <2>1, <2>6, <2>7, <3>1, <3>2
  <2>10. \A u, v \in Waiters' : u # v => request'[u].ticket # request'[v].ticket
    BY <2>6, <2>7 DEF LineInv
  <2>11. \A u \in Tasks : request'[u].at # "asleep"
    BY <2>5
  <2> QED
    BY <2>8, <2>9, <2>10, <2>11 DEF LineInv
<1> QED
  BY <1>2, <1>3

\* Bytes given back wake everybody.
LEMMA ReleaseLine ==
  ASSUME BudgetTypes, LineInv, NEW t \in Tasks, NEW f \in Files, Reads!Release(t, Footprint[f])
  PROVE  LineInv'
<1> DEFINE r == [request EXCEPT ![t] = Reads!NoRequest]
<1>1. request \in [Tasks -> Reads!Request]
  BY DEF BudgetTypes
<1>2. /\ request[t].at = "granted" /\ request' = Reads!PulseAll(r)
      /\ nextTicket' = nextTicket /\ serving' = serving
  BY DEF Reads!Release
<1>3. Reads!NoRequest \in Reads!Request /\ Reads!NoRequest.at = "none"
  BY LoopConstants DEF Reads!NoRequest, Reads!Request
<1>4. r \in [Tasks -> Reads!Request] /\ r[t].at = "none" /\ \A u \in Tasks \ {t} : r[u] = request[u]
  BY <1>1, <1>3
<1> HIDE DEF r
<1>5. \A u \in Tasks : /\ request'[u].at # "asleep" /\ request'[u].ticket = r[u].ticket
                       /\ request'[u].at \in {"awake", "asleep"} <=> r[u].at \in {"awake", "asleep"}
  BY <1>2, <1>4, Woken
<1>6. t \notin Waiters /\ Waiters' = Waiters /\ Waiters \subseteq Tasks
  BY <1>2, <1>4, <1>5 DEF Waiters
<1>7. \A u \in Waiters : request'[u].ticket = request[u].ticket
  BY <1>4, <1>5, <1>6
<1> QED
  BY <1>2, <1>5, <1>6, <1>7 DEF LineInv

\* Every step keeps the line.
LEMMA LineStep ==
  ASSUME W!TypeOK, BuildInv, LineInv, [Next]_vars
  PROVE  LineInv'
<1>1. BudgetTypes /\ BudgetInv /\ TaskInv /\ todo \subseteq Files
  BY DEF BuildInv, LoopInv, FlagTypes, W!TypeOK
<1>2. ASSUME UNCHANGED budget PROVE LineInv'
  BY <1>2 DEF budget, LineInv, Waiters, Reads!MayTake
<1>3. ASSUME NEW t \in Tasks, WorkOn(t) \/ SkipFile(t) \/ FileFails(t) \/ FlushFullFails(t)
      PROVE  LineInv'
  <2>1. CASE NextFile(t)
    <3>1. PICK f \in todo : Reads!Acquire(t, Footprint[f])
      BY <2>1 DEF NextFile
    <3>2. f \in Files
      BY <1>1
    <3> QED
      BY <1>1, <3>1, <3>2, AcquireLine
  <2>2. CASE AwaitBytes(t)
    BY <1>1, <2>2, AwaitLine DEF AwaitBytes
  <2>3. CASE ReleaseBytes(t)
    <3>1. task[t].file \in Files /\ Reads!Release(t, Footprint[task[t].file])
      BY <1>1, <2>3 DEF ReleaseBytes, TaskInv
    <3> QED
      BY <1>1, <3>1, ReleaseLine
  <2>4. CASE \/ StartTask(t) \/ IndexFile(t) \/ FlushFull(t) \/ Retire(t)
             \/ SkipFile(t) \/ FileFails(t) \/ FlushFullFails(t)
    <3>1. UNCHANGED budget
      BY <2>4 DEF StartTask, IndexFile, FlushFull, Retire, SkipFile, FileFails, FlushFullFails
    <3> QED
      BY <1>2, <3>1
  <2> QED
    BY <1>3, <2>1, <2>2, <2>3, <2>4 DEF WorkOn
<1>4. ASSUME UNCHANGED vars PROVE UNCHANGED budget
  BY <1>4 DEF vars
<1> QED
  BY <1>2, <1>3, <1>4, BuildLeavesTasks DEF Next

LEMMA LineStarts ==
  ASSUME Reads!Init
  PROVE  LineInv
<1>1. /\ nextTicket = 0 /\ serving = 0 /\ \A t \in Tasks : request[t].at = "none"
  BY DEF Reads!Init, Reads!NoRequest
<1>2. Waiters = {}
  BY <1>1 DEF Waiters
<1>3. serving .. (nextTicket - 1) = {}
  BY <1>1
<1> QED
  BY <1>1, <1>2, <1>3 DEF LineInv

LEMMA LineInvariance == Spec => [](W!TypeOK /\ BuildInv /\ LineInv)
<1>1. Init => LineInv
  BY LineStarts DEF Init
<1>2. W!TypeOK /\ BuildInv /\ LineInv /\ [Next]_vars => LineInv'
  BY LineStep
<1> QED
  BY <1>1, <1>2, BuildInvariance, PTL DEF Spec

\* While a request sleeps another is awake, or has bytes to give back.
NobodyOversleeps ==
  \A t \in Tasks : request[t].at = "asleep" =>
    \E u \in Tasks : request[u].at \in {"awake", "granted"} /\ task[u].at \notin {"off", "ready"}

LEMMA SomebodyWakes ==
  ASSUME BuildInv, LineInv
  PROVE  NobodyOversleeps
<1> SUFFICES ASSUME NEW t \in Tasks, request[t].at = "asleep"
             PROVE  \E u \in Tasks : /\ request[u].at \in {"awake", "granted"}
                                     /\ task[u].at \notin {"off", "ready"}
  BY DEF NobodyOversleeps
<1>1. /\ \A u \in Tasks : request[u].at # "none" => task[u].at \notin {"off", "ready"}
      /\ BudgetTypes /\ BudgetInv
  BY DEF BuildInv, LoopInv, TaskInv
<1>2. /\ serving \in Nat /\ nextTicket \in Nat /\ available \in Nat /\ Budget \in Nat
      /\ \A u \in Tasks : /\ request[u].ticket \in Nat /\ request[u].need \in Nat
                          /\ request[u].need <= Budget
  BY <1>1, LoopConstants DEF BudgetTypes, Reads!Request
<1>3. t \in Waiters /\ request[t].ticket >= serving /\ request[t].ticket < nextTicket
  BY <1>1 DEF Waiters, LineInv, BudgetInv
<1>4. serving \in serving .. (nextTicket - 1)
  BY <1>2, <1>3
<1>5. PICK h \in Waiters : request[h].ticket = serving
  BY <1>4 DEF LineInv
<1>6. h \in Tasks /\ request[h].at \in {"awake", "asleep"}
  BY DEF Waiters
<1>7. CASE request[h].at = "awake"
  BY <1>1, <1>6, <1>7
<1>8. CASE request[h].at = "asleep"
  <2>1. available < request[h].need
    BY <1>2, <1>5, <1>6, <1>8 DEF LineInv, Reads!MayTake
  <2>2. Cardinality(BytesOf(request)) # 0
    BY <1>1, <1>2, <1>6, <2>1, BytesAreFinite DEF BudgetInv
  <2>3. PICK u \in Tasks : request[u].at = "granted"
    BY <2>2, NoBytes
  <2> QED
    BY <1>1, <2>3
<1> QED
  BY <1>6, <1>7, <1>8

\* No wakeup of the budget's monitor is lost, whatever the sizes of the files and the number
\* of tasks: while a request sleeps there is another that is awake, or that holds bytes and
\* wakes the line when it gives them back (ByteBudget.Acquire and Release).
THEOREM NoRequestOversleeps == Spec => []NobodyOversleeps
<1>1. BuildInv /\ LineInv => NobodyOversleeps
  BY SomebodyWakes
<1> QED
  BY <1>1, LineInvariance, PTL
-----------------------------------------------------------------------------
(* The build is never stuck *)

\* What ends the walk's waits: a subfolder is counted for a thread that has one to queue,
\* the queue is closed once nothing is pending, and a caller that has left has cancelled.
\* A build's caller does not leave.
WaitInv ==
  /\ \A v \in Walkers : walker[v].at = "counted" => walker[v].subs # {}
  /\ pending = 0 => closed
  /\ caller # "reading" => cancelled
CallerInv == phase = "walk" => caller \in {"reading", "ended"}

\* Every step of the walk keeps them.
LEMMA WaitStep ==
  ASSUME W!TypeOK, WaitInv, [W!Next]_(W!vars)
  PROVE  WaitInv'
<1>w. walker \in [Walkers -> W!Walker] /\ pending \in Nat
  BY DEF W!TypeOK
<1>1. ASSUME NEW v \in Walkers, W!WorkOn(v) \/ W!Fault(v)
      PROVE  WaitInv'
  <2>1. UNCHANGED <<caller, cancelled>>
    BY <1>1 DEF W!WorkOn, W!Take, W!CountChild, W!AddChild, W!AddFile, W!LeaveDir, W!Exit, W!ReadDir,
       W!Fault, W!ends
  <2>2. \A u \in Walkers \ {v} : walker'[u] = walker[u]
    BY <1>1, <1>w DEF W!WorkOn, W!Take, W!CountChild, W!AddChild, W!AddFile, W!LeaveDir, W!Exit,
       W!ReadDir, W!Fault
  <2>3. walker'[v].at = "counted" => walker'[v].subs # {}
    <3>1. CASE W!CountChild(v)
      BY <3>1, <1>w DEF W!CountChild, W!Walker
    <3>2. CASE W!Take(v) \/ W!Exit(v) \/ W!Fault(v)
      BY <3>2, <1>w DEF W!Take, W!Exit, W!Fault, W!Waiting, W!Walker
    <3>6. CASE W!LeaveDir(v)
      <4>1. walker'[v] = W!AfterExit(walker[v].exit) /\ walker[v].exit \in W!Exits
        BY <3>6, <1>w DEF W!LeaveDir, W!Walker
      <4> QED
        BY <4>1 DEF W!AfterExit, W!Waiting, W!Exits
    <3>3. CASE \E first, second \in W!Attempts : W!ReadDir(v, first, second)
      BY <3>3, <1>w DEF W!ReadDir, W!Walker
    <3>4. CASE W!AddChild(v)
      BY <3>4, <1>w DEF W!AddChild, W!Walker
    <3>5. CASE W!AddFile(v)
      BY <3>5, <1>w DEF W!AddFile, W!Walker
    <3> QED
      BY <1>1, <3>1, <3>2, <3>3, <3>4, <3>5, <3>6 DEF W!WorkOn
  <2>4. pending' = 0 => closed'
    <3>1. CASE W!LeaveDir(v)
      BY <3>1 DEF W!LeaveDir
    <3>2. CASE W!CountChild(v)
      BY <3>2, <1>w DEF W!CountChild
    <3>3. CASE ~W!LeaveDir(v) /\ ~W!CountChild(v)
      <4>1. pending' = pending /\ closed' = closed
        BY <1>1, <3>3 DEF W!WorkOn, W!Take, W!AddChild, W!AddFile, W!Exit, W!ReadDir, W!Fault
      <4> QED
        BY <4>1 DEF WaitInv
    <3> QED
      BY <3>1, <3>2, <3>3
  <2> QED
    BY <2>1, <2>2, <2>3, <2>4 DEF WaitInv
<1>2. ASSUME W!CountFaulted \/ W!GetFile \/ W!EndOfFiles \/ W!LeaveEarly \/ UNCHANGED W!vars
      PROVE  WaitInv'
  <2>1. UNCHANGED <<pending, closed, walker>>
    BY <1>2, OthersKeepThreads
  <2>2. (caller # "reading" => cancelled)'
    BY <1>2 DEF W!CountFaulted, W!GetFile, W!EndOfFiles, W!LeaveEarly, W!vars, W!ends, WaitInv
  <2> QED
    BY <2>1, <2>2 DEF WaitInv
<1> QED
  BY <1>1, <1>2 DEF W!Next, W!Walk

\* Nobody leaves the walk of a build early.
LEMMA CallerStep ==
  ASSUME CallerInv, [Next]_vars
  PROVE  CallerInv'
<1>1. CASE LeaveEarly
  BY <1>1 DEF LeaveEarly, Walking, CallerInv
<1>2. ASSUME NEW v \in Walkers, WalkOn(v) \/ Walking(W!Fault(v)) PROVE CallerInv'
  <2>1. phase' = phase /\ (W!WorkOn(v) \/ W!Fault(v))
    BY <1>2 DEF WalkOn, Walking
  <2>2. caller' = caller
    BY <2>1 DEF W!WorkOn, W!Take, W!CountChild, W!AddChild, W!AddFile, W!LeaveDir, W!Exit, W!ReadDir,
       W!Fault, W!ends
  <2> QED
    BY <2>1, <2>2 DEF CallerInv
<1>3. CASE CallerOn \/ CountFaulted
  BY <1>3 DEF CallerOn, CountFaulted, Walking, W!GetFile, W!EndOfFiles, W!CountFaulted, W!ends, CallerInv
<1>4. ASSUME NEW t \in Tasks, WorkOn(t) \/ SkipFile(t) \/ FileFails(t) \/ FlushFullFails(t)
      PROVE  CallerInv'
  <2>1. phase' = phase
    BY <1>4 DEF WorkOn, StartTask, NextFile, AwaitBytes, IndexFile, FlushFull, ReleaseBytes, Retire,
       SkipFile, FileFails, FlushFullFails
  <2> QED
    BY <1>4, <2>1, TasksLeaveWalk DEF walk, CallerInv
<1>5. CASE GoOn \/ Cancel \/ PublishFails \/ \E w \in Pool : MergeFails(w)
  <2>1. phase' = "walk" => phase = "walk"
    BY <1>5 DEF GoOn, Measured, BeginLoop, EndLoop, EndMerge, CleanUp, MergeWorker, MergeFails, Publish,
       SaveLedger, Cancel, PublishFails, Outcome
  <2> QED
    BY <1>5, <2>1, BuildLeavesWalk DEF walk, CallerInv
<1>6. CASE UNCHANGED vars
  BY <1>6 DEF vars, walk, CallerInv
<1> QED
  BY <1>1, <1>2, <1>3, <1>4, <1>5, <1>6 DEF Next

\* The walk does not get stuck: a thread that waits for a folder has another that holds one,
\* and one that waits for room in the buffer has a caller that will take a file.
LEMMA WalkGoesOn ==
  ASSUME W!Assumptions, W!TypeOK, CounterInv, WaitInv, CallerInv, phase \in {"walk", "measure"}
  PROVE  SomebodyIsReady
<1> SUFFICES ASSUME \A v \in Walkers : ~WalkerReady(v), ~CallerReady
             PROVE  SomebodyIsReady
  BY DEF SomebodyIsReady, WalkReady
<1>1. \A v \in Walkers : walker[v].at \in {"waiting", "reading", "listed", "counted", "leaving",
                                           "exited", "faulted"}
  BY DEF W!TypeOK, W!Walker
<1>2. caller \in {"reading", "ended", "left"}
  BY DEF W!TypeOK
<1>3. ASSUME NEW v \in Walkers, walker[v].at = "listed" PROVE FALSE
  <2>1. ~cancelled /\ ~(Cardinality(output) < Capacity)
    BY <1>3 DEF WalkerReady
  <2>2. output # {}
    <3> SUFFICES ASSUME output = {} PROVE FALSE
      OBVIOUS
    <3>1. Cardinality(output) = 0 /\ Capacity \in Nat \ {0}
      BY FS_EmptySet DEF W!Assumptions
    <3> QED
      BY <2>1, <3>1
  <2> QED
    BY <2>1, <2>2 DEF WaitInv, CallerReady
<1>4. Holders = {} /\ Counters = {}
  BY <1>3 DEF Holders, Counters, WalkerReady
<1>5. ASSUME NEW v \in Walkers, walker[v].at = "waiting" PROVE FALSE
  <2>1. queue = {} /\ ~closed
    BY <1>5 DEF WalkerReady
  <2>2. pending = 0
    <3>1. Cardinality(queue) = 0 /\ Cardinality(Holders) = 0 /\ Cardinality(Counters) = 0
      BY <1>4, <2>1, FS_EmptySet
    <3> QED
      BY <3>1 DEF CounterInv
  <2> QED
    BY <2>1, <2>2 DEF WaitInv
<1>6. W!AllExited
  BY <1>1, <1>3, <1>5 DEF W!AllExited, WalkerReady
<1>7. CASE ~finished
  BY <1>6, <1>7 DEF SomebodyIsReady, WalkReady
<1>8. CASE finished
  <2>1. caller # "reading"
    BY <1>8 DEF CallerReady
  <2>2. phase = "walk" => caller = "ended"
    BY <2>1 DEF CallerInv
  <2> QED
    BY <1>6, <2>1, <2>2 DEF SomebodyIsReady, PhaseReady
<1> QED
  BY <1>7, <1>8

\* Nor does the loop: whoever waits for bytes has another that does not.
LEMMA LoopGoesOn ==
  ASSUME BuildInv, NobodyOversleeps, phase = "loop"
  PROVE  SomebodyIsReady
<1> SUFFICES ASSUME \A t \in Tasks : ~TaskReady(t)
             PROVE  SomebodyIsReady
  BY DEF SomebodyIsReady
<1>1. \A t \in Tasks : task[t].at \in {"off", "ready", "asking", "flushing", "releasing"}
  BY DEF BuildInv, LoopInv, PoolTypes, Task
<1>2. Tasks # {}
  BY Assumptions DEF Assumptions
<1>3. \A t \in Tasks : task[t].at \in {"off", "asking"}
  BY <1>1 DEF TaskReady
<1>4. ASSUME NEW t \in Tasks, task[t].at = "asking" PROVE FALSE
  <2>1. request[t].at = "asleep"
    BY <1>4 DEF TaskReady
  <2>2. PICK u \in Tasks : request[u].at \in {"awake", "granted"} /\ task[u].at \notin {"off", "ready"}
    BY <2>1 DEF NobodyOversleeps
  <2> QED
    BY <1>3, <2>2 DEF TaskReady
<1>5. \A t \in Tasks : task[t].at = "off"
  BY <1>3, <1>4
<1>6. todo = {} \/ Stopping
  BY <1>2, <1>5 DEF TaskReady
<1> QED
  BY <1>5, <1>6 DEF SomebodyIsReady, PhaseReady

\* A build that has not ended can go on without anything failing, being cancelled or being
\* left early: no thread of the walk waits for a folder or for room in the buffer, and no
\* task for bytes, that nobody is to bring (FileWalker.WalkParallel, ByteBudget,
\* RepositoryIndexer.BuildLocked).
THEOREM BuildIsNeverStuck == Spec => []NeverStuck
<1>1. W!Assumptions
  BY Assumptions DEF Assumptions
<1>2. Init => W!Init /\ WaitInv /\ CallerInv
  BY DEF Init, W!Init, W!Waiting, WaitInv, CallerInv
<1>3. W!TypeOK /\ WaitInv /\ CallerInv /\ [Next]_vars => WaitInv' /\ CallerInv'
  BY WalkSteps, WaitStep, CallerStep
<1>4. Spec => [](WaitInv /\ CallerInv)
  BY <1>2, <1>3, LineInvariance, PTL DEF Spec
<1>5. Spec => W!Spec
  BY <1>2, WalkSteps, PTL DEF Spec, W!Spec
<1>6. Spec => []IInv
  BY <1>1, <1>5, Invariance, PTL
<1>7. ASSUME IInv, WaitInv, CallerInv, BuildInv, LineInv, phase \notin Ended
      PROVE  SomebodyIsReady
  <2>1. CASE phase \in {"walk", "measure"}
    BY <1>1, <1>7, <2>1, WalkGoesOn DEF IInv
  <2>2. CASE phase = "loop"
    BY <1>7, <2>2, LoopGoesOn, SomebodyWakes
  <2>3. CASE phase \notin {"walk", "measure", "loop"}
    BY <1>7, <2>3 DEF BuildInv, FlagTypes, Phases, SomebodyIsReady, PhaseReady
  <2> QED
    BY <2>1, <2>2, <2>3
<1>8. IInv /\ WaitInv /\ CallerInv /\ BuildInv /\ LineInv => NeverStuck
  BY <1>7 DEF NeverStuck
<1> QED
  BY <1>4, <1>6, <1>8, LineInvariance, PTL
-----------------------------------------------------------------------------
(* Every step counts *)

StepCounts ==
  \E i \in DOMAIN Left : Fewer(Left'[i], Left[i]) /\ \A j \in 1 .. i - 1 : Left'[j] = Left[j]

\* The items by their numbers.
LEMMA FirstItems ==
  /\ DOMAIN Left = 1 .. 21
  /\ Left[1] = After /\ Left[2] = Stops /\ Left[3] = Dirs \ walked
  /\ Left[4] = WalkersAt("reading") /\ Left[5] = SubsInHand /\ Left[6] = FilesInHand
  /\ Left[7] = WalkersAt("listed") /\ Left[8] = WalkersAt("counted")
  /\ Left[9] = WalkersAt("leaving") /\ Left[10] = WalkersAt("waiting")
BY DEF Left
LEMMA LastItems ==
  /\ Left[11] = Unfinished /\ Left[12] = output /\ Left[13] = Enumerating
  /\ Left[14] = todo /\ Left[15] = TasksAt("asking") /\ Left[16] = TasksAt("flushing")
  /\ Left[17] = TasksAt("releasing") /\ Left[18] = ToTurn
  /\ Left[19] = InLine /\ Left[20] = Awake /\ Left[21] = Pool \ merged
BY DEF Left
LEMMA FirstItemsNext ==
  /\ Left'[1] = After' /\ Left'[2] = Stops' /\ Left'[3] = Dirs \ walked'
  /\ Left'[4] = WalkersAt("reading")' /\ Left'[5] = SubsInHand' /\ Left'[6] = FilesInHand'
  /\ Left'[7] = WalkersAt("listed")' /\ Left'[8] = WalkersAt("counted")'
  /\ Left'[9] = WalkersAt("leaving")' /\ Left'[10] = WalkersAt("waiting")'
BY DEF Left
LEMMA LastItemsNext ==
  /\ Left'[11] = Unfinished' /\ Left'[12] = output' /\ Left'[13] = Enumerating'
  /\ Left'[14] = todo' /\ Left'[15] = TasksAt("asking")' /\ Left'[16] = TasksAt("flushing")'
  /\ Left'[17] = TasksAt("releasing")' /\ Left'[18] = ToTurn'
  /\ Left'[19] = InLine' /\ Left'[20] = Awake' /\ Left'[21] = Pool \ merged'
BY DEF Left

\* A step counts by an item that becomes less while those before it stay.
LEMMA CountsBy ==
  ASSUME NEW k \in 1 .. 21, Fewer(Left'[k], Left[k]),
         \A j \in 1 .. 21 : j < k => Left'[j] = Left[j]
  PROVE  StepCounts
<1>1. \A j \in 1 .. k - 1 : j \in 1 .. 21 /\ j < k
  OBVIOUS
<1>2. k \in DOMAIN Left
  BY FirstItems
<1> QED
  BY <1>1, <1>2 DEF StepCounts

\* The numbers below one of them.
LEMMA Indices ==
  \A j \in 1 .. 21 :
    \/ j = 1 \/ j = 2 \/ j = 3 \/ j = 4 \/ j = 5 \/ j = 6 \/ j = 7 \/ j = 8 \/ j = 9 \/ j = 10 \/ j = 11
    \/ j = 12 \/ j = 13 \/ j = 14 \/ j = 15 \/ j = 16 \/ j = 17 \/ j = 18 \/ j = 19 \/ j = 20 \/ j = 21
OBVIOUS

-----------------------------------------------------------------------------
(* Every step of the walk counts *)

\* One thread of the walk moves: the other threads are where they were.
LEMMA ThreadMoves ==
  ASSUME NEW v \in Walkers, \A u \in Walkers \ {v} : walker'[u] = walker[u], NEW at
  PROVE  /\ walker[v].at = at /\ walker'[v].at # at => Fewer(WalkersAt(at)', WalkersAt(at))
         /\ (walker[v].at = at <=> walker'[v].at = at) => WalkersAt(at)' = WalkersAt(at)
<1>1. \A u \in Walkers \ {v} : u \in WalkersAt(at)' <=> u \in WalkersAt(at)
  BY DEF WalkersAt
<1>2. /\ v \in WalkersAt(at)' <=> walker'[v].at = at
      /\ v \in WalkersAt(at) <=> walker[v].at = at
  BY DEF WalkersAt
<1>3. WalkersAt(at)' \subseteq Walkers /\ WalkersAt(at) \subseteq Walkers
  BY DEF WalkersAt
<1> QED BY <1>1, <1>2, <1>3 DEF Fewer

\* Nor has any other thread got more or less in hand.
LEMMA SubsMove ==
  ASSUME NEW v \in Walkers, \A u \in Walkers \ {v} : walker'[u] = walker[u],
         walker'[v].subs \subseteq walker[v].subs, walker[v].subs \subseteq Dirs
  PROVE  /\ walker'[v].subs = walker[v].subs => SubsInHand' = SubsInHand
         /\ walker'[v].subs # walker[v].subs => Fewer(SubsInHand', SubsInHand)
<1>1. \A x \in Walkers \X Dirs : x[1] # v => (x \in SubsInHand' <=> x \in SubsInHand)
  BY DEF SubsInHand
<1>2. \A d \in Dirs : /\ <<v, d>> \in SubsInHand' <=> d \in walker'[v].subs
                      /\ <<v, d>> \in SubsInHand <=> d \in walker[v].subs
  BY DEF SubsInHand
<1>3. \A x \in Walkers \X Dirs : x[1] = v => x[2] \in Dirs /\ x = <<v, x[2]>>
  OBVIOUS
<1>4. SubsInHand \subseteq Walkers \X Dirs /\ SubsInHand' \subseteq Walkers \X Dirs
  BY DEF SubsInHand
<1>5. SubsInHand' \subseteq SubsInHand
  BY <1>1, <1>2, <1>3, <1>4
<1>6. CASE walker'[v].subs = walker[v].subs
  BY <1>1, <1>2, <1>3, <1>4, <1>6
<1>7. CASE walker'[v].subs # walker[v].subs
  <2>1. PICK d \in walker[v].subs : d \notin walker'[v].subs
    BY <1>7
  <2> QED BY <1>2, <1>5, <1>7, <2>1 DEF Fewer
<1> QED BY <1>6, <1>7

LEMMA FilesMove ==
  ASSUME NEW v \in Walkers, \A u \in Walkers \ {v} : walker'[u] = walker[u],
         walker'[v].files \subseteq walker[v].files, walker[v].files \subseteq Files
  PROVE  /\ walker'[v].files = walker[v].files => FilesInHand' = FilesInHand
         /\ walker'[v].files # walker[v].files => Fewer(FilesInHand', FilesInHand)
<1>1. \A x \in Walkers \X Files : x[1] # v => (x \in FilesInHand' <=> x \in FilesInHand)
  BY DEF FilesInHand
<1>2. \A f \in Files : /\ <<v, f>> \in FilesInHand' <=> f \in walker'[v].files
                       /\ <<v, f>> \in FilesInHand <=> f \in walker[v].files
  BY DEF FilesInHand
<1>3. \A x \in Walkers \X Files : x[1] = v => x[2] \in Files /\ x = <<v, x[2]>>
  OBVIOUS
<1>4. FilesInHand \subseteq Walkers \X Files /\ FilesInHand' \subseteq Walkers \X Files
  BY DEF FilesInHand
<1>5. FilesInHand' \subseteq FilesInHand
  BY <1>1, <1>2, <1>3, <1>4
<1>6. CASE walker'[v].files = walker[v].files
  BY <1>1, <1>2, <1>3, <1>4, <1>6
<1>7. CASE walker'[v].files # walker[v].files
  <2>1. PICK f \in walker[v].files : f \notin walker'[v].files
    BY <1>7
  <2> QED BY <1>2, <1>5, <1>7, <2>1 DEF Fewer
<1> QED BY <1>6, <1>7

\* A thread with a folder in hand goes on with it: it lists it, counts or queues a
\* subfolder, hands over a file, gives up, or is done; no folder is taken up.
LEMMA FolderCounts ==
  ASSUME After' = After, Stops' = Stops, walked' = walked,
         NEW v \in Walkers, \A u \in Walkers \ {v} : walker'[u] = walker[u],
         walker[v].subs \subseteq Dirs, walker[v].files \subseteq Files,
         \/ walker[v].at = "reading" /\ walker'[v].at # "reading"
         \/ /\ walker[v].at # "reading" /\ walker'[v].at # "reading"
            /\ walker'[v].subs \subseteq walker[v].subs
            /\ \/ walker'[v].subs # walker[v].subs
               \/ /\ walker'[v].files \subseteq walker[v].files
                  /\ \/ walker'[v].files # walker[v].files
                     \/ walker[v].at = "listed" /\ walker'[v].at # "listed"
                     \/ walker[v].at = "counted" /\ walker'[v].at \notin {"listed", "counted"}
                     \/ walker[v].at = "leaving" /\ walker'[v].at \notin {"listed", "counted", "leaving"}
                     \/ walker[v].at = "waiting" /\ walker'[v].at \in {"exited", "faulted"}
  PROVE  StepCounts
<1>1. CASE walker[v].at = "reading" /\ walker'[v].at # "reading"
  <2>1. Fewer(WalkersAt("reading")', WalkersAt("reading"))
    BY <1>1, ThreadMoves
  <2>2. Fewer(Left'[4], Left[4])
    BY <2>1, FirstItems, FirstItemsNext
  <2>3. \A j \in 1 .. 21 : j < 4 => Left'[j] = Left[j]
    BY Indices, FirstItems, FirstItemsNext
  <2> QED BY <2>2, <2>3, CountsBy
<1>2. CASE walker[v].at # "reading" /\ walker'[v].at # "reading"
  <2>1. WalkersAt("reading")' = WalkersAt("reading")
    BY <1>2, ThreadMoves
  <2>2. CASE walker'[v].subs # walker[v].subs /\ walker'[v].subs \subseteq walker[v].subs
    <3>1. Fewer(SubsInHand', SubsInHand)
      BY <2>2, SubsMove
    <3>2. Fewer(Left'[5], Left[5])
      BY <3>1, FirstItems, FirstItemsNext
    <3>3. \A j \in 1 .. 21 : j < 5 => Left'[j] = Left[j]
      BY <2>1, Indices, FirstItems, FirstItemsNext
    <3> QED BY <3>2, <3>3, CountsBy
  <2>3. CASE walker'[v].subs = walker[v].subs
    <3>1. SubsInHand' = SubsInHand
      BY <2>3, SubsMove
    <3>2. CASE walker'[v].files # walker[v].files
      <4>1. Fewer(FilesInHand', FilesInHand)
        BY <1>2, <2>3, <3>2, FilesMove
      <4>2. Fewer(Left'[6], Left[6])
        BY <4>1, FirstItems, FirstItemsNext
      <4>3. \A j \in 1 .. 21 : j < 6 => Left'[j] = Left[j]
        BY <2>1, <3>1, Indices, FirstItems, FirstItemsNext
      <4> QED BY <4>2, <4>3, CountsBy
    <3>3. CASE walker'[v].files = walker[v].files
      <4>1. FilesInHand' = FilesInHand
        BY <3>3, FilesMove
      <4>2. CASE walker[v].at = "listed" /\ walker'[v].at # "listed"
        <5>1. Fewer(Left'[7], Left[7])
          BY <4>2, ThreadMoves, FirstItems, FirstItemsNext
        <5>2. \A j \in 1 .. 21 : j < 7 => Left'[j] = Left[j]
          BY <2>1, <3>1, <4>1, Indices, FirstItems, FirstItemsNext
        <5> QED BY <5>1, <5>2, CountsBy
      <4>3. CASE walker[v].at = "counted" /\ walker'[v].at \notin {"listed", "counted"}
        <5>1. Fewer(Left'[8], Left[8]) /\ WalkersAt("listed")' = WalkersAt("listed")
          BY <4>3, ThreadMoves, FirstItems, FirstItemsNext
        <5>2. \A j \in 1 .. 21 : j < 8 => Left'[j] = Left[j]
          BY <2>1, <3>1, <4>1, <5>1, Indices, FirstItems, FirstItemsNext
        <5> QED BY <5>1, <5>2, CountsBy
      <4>4. CASE walker[v].at = "leaving" /\ walker'[v].at \notin {"listed", "counted", "leaving"}
        <5>1. Fewer(Left'[9], Left[9])
          BY <4>4, ThreadMoves, FirstItems, FirstItemsNext
        <5>2. WalkersAt("listed")' = WalkersAt("listed") /\ WalkersAt("counted")' = WalkersAt("counted")
          BY <4>4, ThreadMoves
        <5>3. \A j \in 1 .. 21 : j < 9 => Left'[j] = Left[j]
          BY <2>1, <3>1, <4>1, <5>2, Indices, FirstItems, FirstItemsNext
        <5> QED BY <5>1, <5>3, CountsBy
      <4>5. CASE walker[v].at = "waiting" /\ walker'[v].at \in {"exited", "faulted"}
        <5>1. Fewer(Left'[10], Left[10])
          BY <4>5, ThreadMoves, FirstItems, FirstItemsNext
        <5>2. /\ WalkersAt("listed")' = WalkersAt("listed") /\ WalkersAt("counted")' = WalkersAt("counted")
              /\ WalkersAt("leaving")' = WalkersAt("leaving")
          BY <4>5, ThreadMoves
        <5>3. \A j \in 1 .. 21 : j < 10 => Left'[j] = Left[j]
          BY <2>1, <3>1, <4>1, <5>2, Indices, FirstItems, FirstItemsNext
        <5> QED BY <5>1, <5>3, CountsBy
      <4> QED BY <1>2, <2>3, <3>3, <4>2, <4>3, <4>4, <4>5
    <3> QED BY <3>2, <3>3
  <2> QED BY <1>2, <2>2, <2>3
<1> QED BY <1>1, <1>2

\* A step of the walk is no change of phase and stops nothing.
LEMMA NothingStops == UNCHANGED <<phase, stopping>> => After' = After /\ Stops' = Stops
BY DEF After, Stops

LEMMA WalkerCounts ==
  ASSUME IInv, UNCHANGED <<phase, stopping>>,
         NEW v \in Walkers, W!WorkOn(v) \/ W!Fault(v)
  PROVE  StepCounts
<1>1. After' = After /\ Stops' = Stops
  BY NothingStops
<1>2. /\ walker \in [Walkers -> W!Walker] /\ walker[v] \in W!Walker
      /\ walker[v].subs \subseteq Dirs /\ walker[v].files \subseteq Files
  BY DEF IInv, W!TypeOK, W!Walker
<1>3. CASE W!Take(v)
  <2>1. PICK d \in queue : walked' = walked \cup {d}
    BY <1>3 DEF W!Take
  <2>2. d \in Dirs /\ d \notin walked
    BY <2>1 DEF IInv, W!TypeOK, TreeInv
  <2>3. Fewer(Dirs \ walked', Dirs \ walked)
    BY <2>1, <2>2 DEF Fewer
  <2>4. Fewer(Left'[3], Left[3])
    BY <2>3, FirstItems, FirstItemsNext
  <2>5. \A j \in 1 .. 21 : j < 3 => Left'[j] = Left[j]
    BY <1>1, Indices, FirstItems, FirstItemsNext
  <2> QED BY <2>4, <2>5, CountsBy
<1>4. ASSUME NEW first, NEW second, W!ReadDir(v, first, second) PROVE StepCounts
  <2>1. /\ walker[v].at = "reading" /\ walked' = walked
        /\ walker' = [walker EXCEPT ![v] =
             [@ EXCEPT !.at = "listed", !.subs = W!Read(walker[v].dir, first, second).subs,
                       !.files = W!Read(walker[v].dir, first, second).files]]
    BY <1>4 DEF W!ReadDir
  <2>2. walker'[v].at = "listed" /\ \A u \in Walkers \ {v} : walker'[u] = walker[u]
    BY <1>2, <2>1 DEF W!Walker
  <2> QED BY <1>1, <1>2, <2>1, <2>2, FolderCounts
<1>5. CASE W!CountChild(v)
  <2>1. walker[v].at = "listed" /\ walked' = walked /\ walker' = [walker EXCEPT ![v].at = "counted"]
    BY <1>5 DEF W!CountChild, W!ghosts
  <2>2. /\ walker'[v].at = "counted" /\ \A u \in Walkers \ {v} : walker'[u] = walker[u]
        /\ walker'[v].subs = walker[v].subs /\ walker'[v].files = walker[v].files
    BY <1>2, <2>1 DEF W!Walker
  <2> QED BY <1>1, <1>2, <2>1, <2>2, FolderCounts
<1>6. CASE W!AddChild(v)
  <2>1. walker[v].at = "counted" /\ walked' = walked
    BY <1>6 DEF W!AddChild, W!ghosts
  <2>2. CASE closed
    <3>1. walker' = [walker EXCEPT ![v] = [@ EXCEPT !.at = "leaving", !.exit = "stop"]]
      BY <1>6, <2>2 DEF W!AddChild
    <3>2. /\ walker'[v].at = "leaving" /\ \A u \in Walkers \ {v} : walker'[u] = walker[u]
          /\ walker'[v].subs = walker[v].subs /\ walker'[v].files = walker[v].files
      BY <1>2, <3>1 DEF W!Walker
    <3> QED BY <1>1, <1>2, <2>1, <3>2, FolderCounts
  <2>3. CASE ~closed
    <3>1. PICK s \in walker[v].subs :
            walker' = [walker EXCEPT ![v] = [@ EXCEPT !.at = "listed", !.subs = walker[v].subs \ {s}]]
      BY <1>6, <2>3 DEF W!AddChild
    <3>2. /\ walker'[v].at = "listed" /\ \A u \in Walkers \ {v} : walker'[u] = walker[u]
          /\ walker'[v].subs = walker[v].subs \ {s}
      BY <1>2, <3>1 DEF W!Walker
    <3> QED BY <1>1, <1>2, <2>1, <3>1, <3>2, FolderCounts
  <2> QED BY <2>2, <2>3
<1>7. CASE W!AddFile(v)
  <2>1. walker[v].at = "listed" /\ walked' = walked
    BY <1>7 DEF W!AddFile, W!ghosts
  <2>2. CASE cancelled
    <3>1. walker' = [walker EXCEPT ![v] = [@ EXCEPT !.at = "leaving", !.exit = "stop"]]
      BY <1>7, <2>2 DEF W!AddFile
    <3>2. /\ walker'[v].at = "leaving" /\ \A u \in Walkers \ {v} : walker'[u] = walker[u]
          /\ walker'[v].subs = walker[v].subs /\ walker'[v].files = walker[v].files
      BY <1>2, <3>1 DEF W!Walker
    <3> QED BY <1>1, <1>2, <2>1, <3>2, FolderCounts
  <2>3. CASE ~cancelled
    <3>1. PICK f \in walker[v].files : walker' = [walker EXCEPT ![v].files = @ \ {f}]
      BY <1>7, <2>3 DEF W!AddFile
    <3>2. /\ walker'[v].at = "listed" /\ \A u \in Walkers \ {v} : walker'[u] = walker[u]
          /\ walker'[v].subs = walker[v].subs /\ walker'[v].files = walker[v].files \ {f}
      BY <1>2, <2>1, <3>1 DEF W!Walker
    <3> QED BY <1>1, <1>2, <2>1, <3>1, <3>2, FolderCounts
  <2> QED BY <2>2, <2>3
<1>8. CASE W!Fault(v)
  <2>1. /\ walker[v].at = "listed" /\ walked' = walked
        /\ walker' = [walker EXCEPT ![v] = [@ EXCEPT !.at = "leaving", !.exit = "fault"]]
    BY <1>8 DEF W!Fault
  <2>2. /\ walker'[v].at = "leaving" /\ \A u \in Walkers \ {v} : walker'[u] = walker[u]
        /\ walker'[v].subs = walker[v].subs /\ walker'[v].files = walker[v].files
    BY <1>2, <2>1 DEF W!Walker
  <2> QED BY <1>1, <1>2, <2>1, <2>2, FolderCounts
<1>9. CASE W!LeaveDir(v)
  <2>1. /\ walker[v].at \in {"listed", "leaving"} /\ walked' = walked
        /\ walker' = [walker EXCEPT ![v] = W!AfterExit(walker[v].exit)]
    BY <1>9 DEF W!LeaveDir, W!Leaves, W!ghosts
  <2>2. walker'[v] = W!AfterExit(walker[v].exit) /\ \A u \in Walkers \ {v} : walker'[u] = walker[u]
    BY <1>2, <2>1
  <2>3. /\ walker'[v].at \in {"waiting", "exited", "faulted"}
        /\ walker'[v].subs = {} /\ walker'[v].files = {}
    <3>1. walker[v].exit \in {"next", "stop", "fault"}
      BY <1>2 DEF W!Walker, W!Exits
    <3> QED BY <2>2, <3>1 DEF W!AfterExit, W!Waiting
  <2> QED BY <1>1, <1>2, <2>1, <2>2, <2>3, FolderCounts
<1>10. CASE W!Exit(v)
  <2>1. walker[v].at = "waiting" /\ walked' = walked /\ walker' = [walker EXCEPT ![v].at = "exited"]
    BY <1>10 DEF W!Exit, W!ghosts
  <2>2. /\ walker'[v].at = "exited" /\ \A u \in Walkers \ {v} : walker'[u] = walker[u]
        /\ walker'[v].subs = walker[v].subs /\ walker'[v].files = walker[v].files
    BY <1>2, <2>1 DEF W!Walker
  <2> QED BY <1>1, <1>2, <2>1, <2>2, FolderCounts
<1> QED
  BY <1>3, <1>4, <1>5, <1>6, <1>7, <1>8, <1>9, <1>10 DEF W!WorkOn

\* What the threads have to do depends on them and the folders taken up alone.
LEMMA ThreadsStay ==
  ASSUME UNCHANGED <<phase, stopping, walked, walker>>
  PROVE  \A j \in 1 .. 21 : j < 11 => Left'[j] = Left[j]
<1>1. After' = After /\ Stops' = Stops
  BY NothingStops
<1>2. /\ SubsInHand' = SubsInHand /\ FilesInHand' = FilesInHand
      /\ WalkersAt("reading")' = WalkersAt("reading") /\ WalkersAt("listed")' = WalkersAt("listed")
      /\ WalkersAt("counted")' = WalkersAt("counted") /\ WalkersAt("leaving")' = WalkersAt("leaving")
      /\ WalkersAt("waiting")' = WalkersAt("waiting")
  BY DEF SubsInHand, FilesInHand, WalkersAt
<1> QED BY <1>1, <1>2, Indices, FirstItems, FirstItemsNext

\* The end of the threads, and the caller that takes a file, is told the end or leaves.
LEMMA CallerCounts ==
  ASSUME UNCHANGED <<phase, stopping>>,
         W!CountFaulted \/ W!GetFile \/ W!EndOfFiles \/ W!LeaveEarly
  PROVE  StepCounts
<1>1. UNCHANGED <<walker, walked>>
  BY DEF W!CountFaulted, W!GetFile, W!EndOfFiles, W!LeaveEarly, W!thread, W!ghosts
<1>2. \A j \in 1 .. 21 : j < 11 => Left'[j] = Left[j]
  BY <1>1, ThreadsStay
<1>3. CASE W!CountFaulted
  <2>1. Fewer(Unfinished', Unfinished)
    BY <1>3 DEF W!CountFaulted, Unfinished, Fewer
  <2>2. Fewer(Left'[11], Left[11])
    BY <2>1, LastItems, LastItemsNext
  <2> QED BY <1>2, <2>2, CountsBy
<1>4. CASE W!GetFile
  <2>1. Fewer(output', output) /\ Unfinished' = Unfinished
    BY <1>4 DEF W!GetFile, W!ends, Unfinished, Fewer
  <2>2. Fewer(Left'[12], Left[12]) /\ Left'[11] = Left[11]
    BY <2>1, LastItems, LastItemsNext
  <2>3. \A j \in 1 .. 21 : j < 12 => j < 11 \/ j = 11
    OBVIOUS
  <2> QED BY <1>2, <2>2, <2>3, CountsBy
<1>5. CASE W!EndOfFiles \/ W!LeaveEarly
  <2>1. Fewer(Enumerating', Enumerating) /\ Unfinished' = Unfinished /\ output' = output
    BY <1>5 DEF W!EndOfFiles, W!LeaveEarly, Unfinished, Enumerating, Fewer
  <2>2. Fewer(Left'[13], Left[13]) /\ Left'[11] = Left[11] /\ Left'[12] = Left[12]
    BY <2>1, LastItems, LastItemsNext
  <2>3. \A j \in 1 .. 21 : j < 13 => j < 11 \/ j = 11 \/ j = 12
    OBVIOUS
  <2> QED BY <1>2, <2>2, <2>3, CountsBy
<1> QED BY <1>3, <1>4, <1>5

-----------------------------------------------------------------------------
(* Every step of the loop and of the build counts *)

\* What the walk has left depends on the walk alone.
LEMMA WalkStays ==
  ASSUME UNCHANGED <<walk, phase, stopping>>
  PROVE  \A j \in 1 .. 21 : j < 14 => Left'[j] = Left[j]
<1>1. UNCHANGED <<walker, walked, finished, output, caller>>
  BY DEF walk
<1>2. \A j \in 1 .. 21 : j < 11 => Left'[j] = Left[j]
  BY <1>1, ThreadsStay
<1>3. Unfinished' = Unfinished /\ Enumerating' = Enumerating
  BY <1>1 DEF Unfinished, Enumerating
<1>4. Left'[11] = Left[11] /\ Left'[12] = Left[12] /\ Left'[13] = Left[13]
  BY <1>1, <1>3, LastItems, LastItemsNext
<1>5. \A j \in 1 .. 21 : j < 14 => j < 11 \/ j = 11 \/ j = 12 \/ j = 13
  OBVIOUS
<1> QED BY <1>2, <1>4, <1>5

LEMMA TaskMoves ==
  ASSUME NEW t \in Tasks, \A u \in Tasks \ {t} : task'[u] = task[u], NEW at
  PROVE  /\ task[t].at = at /\ task'[t].at # at => Fewer(TasksAt(at)', TasksAt(at))
         /\ (task[t].at = at <=> task'[t].at = at) => TasksAt(at)' = TasksAt(at)
<1>1. \A u \in Tasks \ {t} : u \in TasksAt(at)' <=> u \in TasksAt(at)
  BY DEF TasksAt
<1>2. /\ t \in TasksAt(at)' <=> task'[t].at = at
      /\ t \in TasksAt(at) <=> task[t].at = at
  BY DEF TasksAt
<1>3. TasksAt(at)' \subseteq Tasks /\ TasksAt(at) \subseteq Tasks
  BY DEF TasksAt
<1> QED BY <1>1, <1>2, <1>3 DEF Fewer

\* A task goes on with its file, or turns round where there is one to turn to.
LEMMA FileCounts ==
  ASSUME UNCHANGED <<walk, phase, stopping, todo>>,
         NEW t \in Tasks, \A u \in Tasks \ {t} : task'[u] = task[u],
         \/ task[t].at = "asking" /\ task'[t].at # "asking"
         \/ task[t].at = "flushing" /\ task'[t].at \notin {"asking", "flushing"}
         \/ task[t].at = "releasing" /\ task'[t].at \notin {"asking", "flushing", "releasing"}
         \/ /\ task[t].at = (IF todo = {} \/ Stopping THEN "ready" ELSE "off")
            /\ task'[t].at = (IF todo = {} \/ Stopping THEN "off" ELSE "ready")
  PROVE  StepCounts
<1>1. \A j \in 1 .. 21 : j < 14 => Left'[j] = Left[j]
  BY WalkStays
<1>2. Left'[14] = Left[14]
  BY LastItems, LastItemsNext
<1>3. CASE task[t].at = "asking" /\ task'[t].at # "asking"
  <2>1. Fewer(Left'[15], Left[15])
    BY <1>3, TaskMoves, LastItems, LastItemsNext
  <2>2. \A j \in 1 .. 21 : j < 15 => j < 14 \/ j = 14
    OBVIOUS
  <2> QED BY <1>1, <1>2, <2>1, <2>2, CountsBy
<1>4. CASE task[t].at = "flushing" /\ task'[t].at \notin {"asking", "flushing"}
  <2>1. Fewer(Left'[16], Left[16]) /\ Left'[15] = Left[15]
    BY <1>4, TaskMoves, LastItems, LastItemsNext
  <2>2. \A j \in 1 .. 21 : j < 16 => j < 14 \/ j = 14 \/ j = 15
    OBVIOUS
  <2> QED BY <1>1, <1>2, <2>1, <2>2, CountsBy
<1>5. CASE task[t].at = "releasing" /\ task'[t].at \notin {"asking", "flushing", "releasing"}
  <2>1. Fewer(Left'[17], Left[17])
    BY <1>5, TaskMoves, LastItems, LastItemsNext
  <2>2. Left'[15] = Left[15] /\ Left'[16] = Left[16]
    BY <1>5, TaskMoves, LastItems, LastItemsNext
  <2>3. \A j \in 1 .. 21 : j < 17 => j < 14 \/ j = 14 \/ j = 15 \/ j = 16
    OBVIOUS
  <2> QED BY <1>1, <1>2, <2>1, <2>2, <2>3, CountsBy
<1>6. CASE /\ task[t].at = (IF todo = {} \/ Stopping THEN "ready" ELSE "off")
           /\ task'[t].at = (IF todo = {} \/ Stopping THEN "off" ELSE "ready")
  <2>1. Stopping' = Stopping
    BY DEF Stopping
  <2>2. Fewer(ToTurn', ToTurn)
    <3>1. CASE todo = {} \/ Stopping
      <4>1. Fewer(TasksAt("ready")', TasksAt("ready"))
        BY <1>6, <3>1, TaskMoves
      <4> QED BY <2>1, <3>1, <4>1 DEF ToTurn, TasksAt
    <3>2. CASE ~(todo = {} \/ Stopping)
      <4>1. Fewer(TasksAt("off")', TasksAt("off"))
        BY <1>6, <3>2, TaskMoves
      <4> QED BY <2>1, <3>2, <4>1 DEF ToTurn, TasksAt
    <3> QED BY <3>1, <3>2
  <2>3. Fewer(Left'[18], Left[18])
    BY <2>2, LastItems, LastItemsNext
  <2>4. Left'[15] = Left[15] /\ Left'[16] = Left[16] /\ Left'[17] = Left[17]
    BY <1>6, TaskMoves, LastItems, LastItemsNext
  <2>5. \A j \in 1 .. 21 : j < 18 => j < 14 \/ j = 14 \/ j = 15 \/ j = 16 \/ j = 17
    OBVIOUS
  <2> QED BY <1>1, <1>2, <2>3, <2>4, <2>5, CountsBy
<1> QED BY <1>3, <1>4, <1>5, <1>6

\* A build that was going on and is stopped, or is stopped for a second reason, has one
\* way less to be stopped.
LEMMA StopCounts ==
  ASSUME phase' = phase, stopping \in [cancelled : BOOLEAN, failed : BOOLEAN],
         NEW why \in {"cancelled", "failed"}, stopping' = [stopping EXCEPT ![why] = TRUE]
  PROVE  stopping' = stopping \/ StepCounts
<1>1. After' = After
  BY DEF After
<1>2. CASE stopping[why]
  BY <1>2
<1>3. CASE ~stopping[why]
  <2>1. stopping'[why] /\ \A x \in {"cancelled", "failed"} : stopping[x] => stopping'[x]
    OBVIOUS
  <2>2. Fewer(Stops', Stops)
    BY <1>3, <2>1 DEF Stops, Fewer
  <2>3. Fewer(Left'[2], Left[2]) /\ Left'[1] = Left[1]
    BY <1>1, <2>2, FirstItems, FirstItemsNext
  <2>4. \A j \in 1 .. 21 : j < 2 => j = 1
    OBVIOUS
  <2> QED BY <2>3, <2>4, CountsBy
<1> QED BY <1>2, <1>3

\* A change of phase counts.
LEMMA PhaseCounts ==
  ASSUME Fewer(After', After)
  PROVE  StepCounts
<1>1. Fewer(Left'[1], Left[1])
  BY FirstItems, FirstItemsNext
<1>2. \A j \in 1 .. 21 : ~(j < 1)
  OBVIOUS
<1> QED BY <1>1, <1>2, CountsBy

\* A request that gets its bytes, or goes to sleep.
LEMMA AwaitCounts ==
  ASSUME W!TypeOK, BuildInv, NEW t \in Tasks, AwaitBytes(t)
  PROVE  StepCounts
<1>1. UNCHANGED <<walk, phase, stopping, todo, task>>
  BY DEF AwaitBytes
<1>2. \A j \in 1 .. 21 : j < 14 => Left'[j] = Left[j]
  BY <1>1, WalkStays
<1>3. UNCHANGED ToTurn
  BY <1>1 DEF ToTurn, TasksAt, Stopping
<1>4. TasksAt("asking")' = TasksAt("asking") /\ TasksAt("flushing")' = TasksAt("flushing")
      /\ TasksAt("releasing")' = TasksAt("releasing")
  BY <1>1 DEF TasksAt
<1>5. Left'[14] = Left[14] /\ Left'[15] = Left[15] /\ Left'[16] = Left[16]
      /\ Left'[17] = Left[17] /\ Left'[18] = Left[18]
  BY <1>1, <1>3, <1>4, LastItems, LastItemsNext
<1>6. request \in [Tasks -> Reads!Request] /\ request[t] \in Reads!Request
  BY DEF BuildInv, LoopInv, BudgetTypes
<1>7. CASE Reads!Wait(t)
  <2>1. request[t].at = "awake" /\ request' = [request EXCEPT ![t].at = "asleep"]
    BY <1>7 DEF Reads!Wait
  <2>2. request'[t].at = "asleep" /\ \A u \in Tasks \ {t} : request'[u] = request[u]
    BY <1>6, <2>1 DEF Reads!Request
  <2>3. InLine' = InLine
    BY <2>1, <2>2 DEF InLine
  <2>4. Fewer(Awake', Awake)
    <3>1. Awake' = Awake \ {t} /\ t \in Awake
      BY <2>1, <2>2 DEF Awake
    <3> QED BY <3>1 DEF Fewer
  <2>5. Fewer(Left'[20], Left[20]) /\ Left'[19] = Left[19]
    BY <2>3, <2>4, LastItems, LastItemsNext
  <2>6. \A j \in 1 .. 21 : j < 20 => \/ j < 14 \/ j = 14 \/ j = 15 \/ j = 16
                                     \/ j = 17 \/ j = 18 \/ j = 19
    OBVIOUS
  <2> QED BY <1>2, <1>5, <2>5, <2>6, CountsBy
<1>8. CASE Reads!TakeBytes(t)
  <2> DEFINE r == [request EXCEPT ![t].at = "granted"]
  <2>1. request[t].at = "awake" /\ request' = Reads!PulseAll(r)
    BY <1>8 DEF Reads!TakeBytes
  <2>2. [request[t] EXCEPT !.at = "granted"] \in Reads!Request
    BY <1>6 DEF Reads!Request
  <2>3. /\ r \in [Tasks -> Reads!Request] /\ r[t] = [request[t] EXCEPT !.at = "granted"]
        /\ \A u \in Tasks \ {t} : r[u] = request[u]
    BY <1>6, <2>2
  <2>4. r[t].at = "granted"
    BY <1>6, <2>3 DEF Reads!Request
  <2> HIDE DEF r
  <2>5. \A u \in Tasks : request'[u].at \in {"awake", "asleep"} <=> r[u].at \in {"awake", "asleep"}
    BY <2>1, <2>3, Woken
  <2>6. InLine' = InLine \ {t} /\ t \in InLine
    <3>1. t \in InLine /\ t \notin InLine'
      BY <2>1, <2>4, <2>5 DEF InLine
    <3>2. \A u \in Tasks \ {t} : u \in InLine' <=> u \in InLine
      BY <2>3, <2>5 DEF InLine
    <3>3. InLine' \subseteq Tasks /\ InLine \subseteq Tasks
      BY DEF InLine
    <3> QED BY <3>1, <3>2, <3>3
  <2>7. Fewer(Left'[19], Left[19])
    BY <2>6, LastItems, LastItemsNext DEF Fewer
  <2>8. \A j \in 1 .. 21 : j < 19 => \/ j < 14 \/ j = 14 \/ j = 15 \/ j = 16
                                     \/ j = 17 \/ j = 18
    OBVIOUS
  <2> QED BY <1>2, <1>5, <2>7, <2>8, CountsBy
<1> QED BY <1>7, <1>8 DEF AwaitBytes

\* Every step of a task counts: it is handed a file, goes on with it, or turns round.
LEMMA TaskCounts ==
  ASSUME W!TypeOK, BuildInv, NEW t \in Tasks,
         WorkOn(t) \/ SkipFile(t) \/ FileFails(t) \/ FlushFullFails(t)
  PROVE  StepCounts
<1>1. /\ task \in [Tasks -> Task] /\ task[t] \in Task
      /\ stopping \in [cancelled : BOOLEAN, failed : BOOLEAN]
  BY DEF BuildInv, LoopInv, PoolTypes, FlagTypes
<1>2. CASE StartTask(t)
  <2>1. PICK w : task' = [task EXCEPT ![t] = [Off EXCEPT !.at = "ready", !.worker = w]]
    BY <1>2 DEF StartTask
  <2>2. task'[t].at = "ready" /\ \A u \in Tasks \ {t} : task'[u] = task[u]
    BY <1>1, <2>1 DEF Off
  <2>3. UNCHANGED <<walk, phase, stopping, todo>> /\ task[t].at = "off" /\ ~(todo = {} \/ Stopping)
    BY <1>2 DEF StartTask
  <2> QED BY <2>2, <2>3, FileCounts
<1>3. CASE NextFile(t)
  <2>1. UNCHANGED <<walk, phase, stopping>>
    BY <1>3 DEF NextFile
  <2>2. Fewer(todo', todo)
    BY <1>3 DEF NextFile, Fewer
  <2>3. Fewer(Left'[14], Left[14])
    BY <2>2, LastItems, LastItemsNext
  <2> QED BY <2>1, <2>3, WalkStays, CountsBy
<1>4. CASE AwaitBytes(t)
  BY <1>4, AwaitCounts
<1>5. CASE IndexFile(t)
  <2>1. /\ task[t].at = "asking" /\ UNCHANGED <<walk, phase, stopping, todo>>
        /\ task' = [task EXCEPT ![t].at = IF task[t].file \in Binary THEN "releasing" ELSE "flushing"]
    BY <1>5 DEF IndexFile, MayRead, Go
  <2>2. task'[t].at # "asking" /\ \A u \in Tasks \ {t} : task'[u] = task[u]
    BY <1>1, <2>1 DEF Task
  <2> QED BY <2>1, <2>2, FileCounts
<1>6. CASE FlushFull(t)
  <2>1. /\ task[t].at = "flushing" /\ UNCHANGED <<walk, phase, stopping, todo>>
        /\ task' = [task EXCEPT ![t].at = "releasing"]
    BY <1>6 DEF FlushFull, Go
  <2>2. task'[t].at = "releasing" /\ \A u \in Tasks \ {t} : task'[u] = task[u]
    BY <1>1, <2>1 DEF Task
  <2> QED BY <2>1, <2>2, FileCounts
<1>7. CASE ReleaseBytes(t)
  <2>1. /\ task[t].at = "releasing" /\ UNCHANGED <<walk, phase, stopping, todo>>
        /\ \/ task' = [task EXCEPT ![t] = [@ EXCEPT !.at = "ready", !.file = None]]
           \/ task' = [task EXCEPT ![t] = Off]
    BY <1>7 DEF ReleaseBytes
  <2>2. /\ task'[t] \in {[task[t] EXCEPT !.at = "ready", !.file = None], Off}
        /\ \A u \in Tasks \ {t} : task'[u] = task[u]
    BY <1>1, <2>1
  <2>3. [task[t] EXCEPT !.at = "ready", !.file = None].at = "ready" /\ Off.at = "off"
    BY <1>1 DEF Task, Off
  <2>4. task'[t].at \in {"ready", "off"}
    BY <2>2, <2>3
  <2> QED BY <2>1, <2>2, <2>4, FileCounts
<1>8. CASE Retire(t)
  <2>1. /\ task[t].at = "ready" /\ UNCHANGED <<walk, phase, stopping, todo>>
        /\ task' = [task EXCEPT ![t] = Off]
    BY <1>8 DEF Retire
  <2>2. task'[t].at = "off" /\ \A u \in Tasks \ {t} : task'[u] = task[u]
    BY <1>1, <2>1 DEF Off
  <2>3. todo = {} \/ Stopping
    BY <1>8 DEF Retire
  <2> QED BY <2>1, <2>2, <2>3, FileCounts
<1>9. CASE SkipFile(t)
  <2>1. /\ task[t].at = "asking" /\ UNCHANGED <<walk, phase, stopping, todo>>
        /\ task' = [task EXCEPT ![t].at = "releasing"]
    BY <1>9 DEF SkipFile, MayRead, Go
  <2>2. task'[t].at = "releasing" /\ \A u \in Tasks \ {t} : task'[u] = task[u]
    BY <1>1, <2>1 DEF Task
  <2> QED BY <2>1, <2>2, FileCounts
<1>10. CASE FileFails(t)
  <2>1. /\ task[t].at = "asking" /\ UNCHANGED <<walk, phase, todo>>
        /\ task' = [task EXCEPT ![t].at = "releasing"]
        /\ stopping' = [stopping EXCEPT !.failed = TRUE]
    BY <1>10 DEF FileFails, MayRead, Go
  <2>2. task'[t].at = "releasing" /\ \A u \in Tasks \ {t} : task'[u] = task[u]
    BY <1>1, <2>1 DEF Task
  <2>3. stopping' = stopping \/ StepCounts
    BY <1>1, <2>1, StopCounts
  <2> QED BY <2>1, <2>2, <2>3, FileCounts
<1>11. CASE FlushFullFails(t)
  <2>1. /\ task[t].at = "flushing" /\ UNCHANGED <<walk, phase, todo>>
        /\ task' = [task EXCEPT ![t].at = "releasing"]
        /\ stopping' = stopping \/ stopping' = [stopping EXCEPT !.failed = TRUE]
    BY <1>11 DEF FlushFullFails, Go
  <2>2. task'[t].at = "releasing" /\ \A u \in Tasks \ {t} : task'[u] = task[u]
    BY <1>1, <2>1 DEF Task
  <2>3. stopping' = stopping \/ StepCounts
    BY <1>1, <2>1, StopCounts
  <2> QED BY <2>1, <2>2, <2>3, FileCounts
<1> QED
  BY <1>2, <1>3, <1>4, <1>5, <1>6, <1>7, <1>8, <1>9, <1>10, <1>11 DEF WorkOn

\* A worker that is merged, and a merge that fails and so stops the build.
LEMMA MergeCounts ==
  ASSUME W!TypeOK, BuildInv, NEW w \in Pool, MergeWorker(w) \/ MergeFails(w)
  PROVE  StepCounts
<1>1. /\ stopping \in [cancelled : BOOLEAN, failed : BOOLEAN] /\ workers \subseteq Pool
  BY DEF BuildInv, LoopInv, PoolTypes, FlagTypes
<1>2. CASE MergeWorker(w)
  <2>1. UNCHANGED <<walk, phase, stopping, todo, task, request>>
    BY <1>2 DEF MergeWorker, budget
  <2>2. \A j \in 1 .. 21 : j < 14 => Left'[j] = Left[j]
    BY <2>1, WalkStays
  <2>3. /\ UNCHANGED <<ToTurn, InLine, Awake>>
        /\ TasksAt("asking")' = TasksAt("asking") /\ TasksAt("flushing")' = TasksAt("flushing")
        /\ TasksAt("releasing")' = TasksAt("releasing")
    BY <2>1 DEF ToTurn, InLine, Awake, TasksAt, Stopping
  <2>4. /\ Left'[14] = Left[14] /\ Left'[15] = Left[15] /\ Left'[16] = Left[16]
        /\ Left'[17] = Left[17] /\ Left'[18] = Left[18] /\ Left'[19] = Left[19]
        /\ Left'[20] = Left[20]
    BY <2>1, <2>3, LastItems, LastItemsNext
  <2>5. Fewer(Pool \ merged', Pool \ merged)
    BY <1>2 DEF MergeWorker, Fewer
  <2>6. Fewer(Left'[21], Left[21])
    BY <2>5, LastItems, LastItemsNext
  <2>7. \A j \in 1 .. 21 : j < 21 => \/ j < 14 \/ j = 14 \/ j = 15 \/ j = 16
                                     \/ j = 17 \/ j = 18 \/ j = 19 \/ j = 20
    OBVIOUS
  <2> QED BY <2>2, <2>4, <2>6, <2>7, CountsBy
<1>3. CASE MergeFails(w)
  <2>1. phase' = phase /\ stopping' = [stopping EXCEPT !.failed = TRUE] /\ ~stopping.failed
    BY <1>3 DEF MergeFails, Stopping
  <2>2. stopping' # stopping
    BY <1>1, <2>1
  <2> QED BY <1>1, <2>1, <2>2, StopCounts
<1> QED BY <1>2, <1>3

\* From phase to phase, and a cancellation.
LEMMA BuildCounts ==
  ASSUME W!TypeOK, BuildInv, GoOn \/ Cancel \/ PublishFails
  PROVE  StepCounts
<1>1. CASE \E w \in Pool : MergeWorker(w)
  BY <1>1, MergeCounts
<1>2. CASE Cancel
  <2>1. /\ stopping \in [cancelled : BOOLEAN, failed : BOOLEAN] /\ phase' = phase
        /\ stopping' = [stopping EXCEPT !.cancelled = TRUE] /\ ~stopping.cancelled
    BY <1>2 DEF BuildInv, FlagTypes, Cancel
  <2>2. stopping' # stopping
    BY <2>1
  <2> QED BY <2>1, <2>2, StopCounts
<1>3. CASE \/ Measured \/ BeginLoop \/ EndLoop \/ EndMerge \/ CleanUp \/ SaveLedger \/ PublishFails
           \/ Publish("text", "symbols") \/ Publish("symbols", "ledger")
  <2>1. \/ phase = "measure" /\ phase' = "measured"
        \/ phase = "walk" /\ phase' = "loop"
        \/ phase = "loop" /\ phase' \in {"merge", "failed", "cleanup"}
        \/ phase = "merge" /\ phase' \in {"text", "failed", "cleanup"}
        \/ phase = "cleanup" /\ phase' \in {"cancelled", "littered"}
        \/ phase = "text" /\ phase' \in {"symbols", "failed"}
        \/ phase = "symbols" /\ phase' \in {"ledger", "failed"}
        \/ phase = "ledger" /\ phase' \in {"done", "failed"}
    BY <1>3 DEF Measured, BeginLoop, EndLoop, EndMerge, Outcome, CleanUp, SaveLedger, PublishFails,
                Publish
  <2>2. Fewer(After', After)
    BY <2>1 DEF After, Fewer, Ended
  <2> QED BY <2>2, PhaseCounts
<1> QED BY <1>1, <1>2, <1>3 DEF GoOn

\* Every step of a build, whatever fails and whoever cancels it, leaves less to do.
THEOREM EveryStepOfABuildCounts == Spec => EveryStepCounts
<1>1. W!Assumptions
  BY Assumptions DEF Assumptions
<1>2. Init => W!Init
  BY DEF Init
<1>3. Spec => W!Spec
  BY <1>2, WalkSteps, PTL DEF Spec, W!Spec
<1>4. Spec => []IInv
  BY <1>1, <1>3, Invariance, PTL
<1>5. IInv /\ W!TypeOK /\ BuildInv /\ [Next]_vars => [StepCounts]_vars
  <2> SUFFICES ASSUME IInv, W!TypeOK, BuildInv, Next PROVE StepCounts
    OBVIOUS
  <2>1. ASSUME NEW v \in Walkers, WalkOn(v) \/ Walking(W!Fault(v)) PROVE StepCounts
    <3>1. UNCHANGED <<phase, stopping>> /\ (W!WorkOn(v) \/ W!Fault(v))
      BY <2>1 DEF WalkOn, Walking
    <3> QED BY <3>1, WalkerCounts
  <2>2. CASE CallerOn \/ CountFaulted \/ LeaveEarly
    <3>1. /\ UNCHANGED <<phase, stopping>>
          /\ W!CountFaulted \/ W!GetFile \/ W!EndOfFiles \/ W!LeaveEarly
      BY <2>2 DEF CallerOn, CountFaulted, LeaveEarly, Walking
    <3> QED BY <3>1, CallerCounts
  <2>3. ASSUME NEW w \in Pool, MergeFails(w) PROVE StepCounts
    BY <2>3, MergeCounts
  <2> QED BY <2>1, <2>2, <2>3, TaskCounts, BuildCounts DEF Next
<1> QED
  BY <1>4, <1>5, BuildInvariance, PTL DEF Spec, EveryStepCounts, StepCounts

-----------------------------------------------------------------------------
(* What is left runs out *)

\* Everything that what is left is made of.
Words == {"loop", "merge", "text", "symbols", "ledger", "end"}
         \cup {"cancelled", "failed", "finished", "reading"}
Things ==
  Words \cup Dirs \cup Walkers \cup (Walkers \X Dirs) \cup (Walkers \X Files) \cup Files
  \cup Tasks \cup Pool

LessThan == {p \in (SUBSET Things) \X (SUBSET Things) : Fewer(p[1], p[2])}

\* What is left, in the order of its items.
Order == LexProductOrdering(LessThan, SUBSET Things, 21)

LEMMA ThingsAreFinite == IsFiniteSet(Things)
<1>1. /\ IsFiniteSet(Dirs) /\ IsFiniteSet(Walkers) /\ IsFiniteSet(Files) /\ IsFiniteSet(Tasks)
  <2>1. W!Assumptions
    BY Assumptions DEF Assumptions
  <2> QED BY <2>1, LoopConstants, SameSizes DEF W!Assumptions
<1>2. IsFiniteSet(Pool)
  <2>1. 1 \in Int /\ Cardinality(Tasks) \in Int
    BY LoopConstants
  <2> QED BY <2>1, FS_Interval DEF Pool
<1>3. IsFiniteSet(Walkers \X Dirs) /\ IsFiniteSet(Walkers \X Files)
  BY <1>1, FS_Product
<1>4. IsFiniteSet(Words)
  <2>1. IsFiniteSet({"loop"}) /\ {"loop"} \cup {"merge"} = {"loop", "merge"}
    BY FS_Singleton
  <2>2. IsFiniteSet({"loop", "merge"} \cup {"text"})
    BY <2>1, FS_AddElement
  <2>3. IsFiniteSet(({"loop", "merge"} \cup {"text"}) \cup {"symbols"})
    BY <2>2, FS_AddElement
  <2>4. IsFiniteSet((({"loop", "merge"} \cup {"text"}) \cup {"symbols"}) \cup {"ledger"})
    BY <2>3, FS_AddElement
  <2>5. IsFiniteSet(((({"loop", "merge"} \cup {"text"}) \cup {"symbols"}) \cup {"ledger"}) \cup {"end"})
    BY <2>4, FS_AddElement
  <2>6. ((({"loop", "merge"} \cup {"text"}) \cup {"symbols"}) \cup {"ledger"}) \cup {"end"}
          = {"loop", "merge", "text", "symbols", "ledger", "end"}
    OBVIOUS
  <2>7. IsFiniteSet({"cancelled"} \cup {"failed"})
    BY FS_Singleton, FS_AddElement
  <2>8. IsFiniteSet(({"cancelled"} \cup {"failed"}) \cup {"finished"})
    BY <2>7, FS_AddElement
  <2>9. IsFiniteSet((({"cancelled"} \cup {"failed"}) \cup {"finished"}) \cup {"reading"})
    BY <2>8, FS_AddElement
  <2>10. (({"cancelled"} \cup {"failed"}) \cup {"finished"}) \cup {"reading"}
          = {"cancelled", "failed", "finished", "reading"}
    OBVIOUS
  <2> QED BY <2>5, <2>6, <2>9, <2>10, FS_Union DEF Words
<1>5. IsFiniteSet(Words \cup Dirs \cup Walkers)
  BY <1>1, <1>4, FS_Union
<1>6. IsFiniteSet(Words \cup Dirs \cup Walkers \cup (Walkers \X Dirs) \cup (Walkers \X Files))
  BY <1>3, <1>5, FS_Union
<1>7. IsFiniteSet(Words \cup Dirs \cup Walkers \cup (Walkers \X Dirs) \cup (Walkers \X Files) \cup Files)
  BY <1>1, <1>6, FS_Union
<1>8. IsFiniteSet(Words \cup Dirs \cup Walkers \cup (Walkers \X Dirs) \cup (Walkers \X Files) \cup Files
                  \cup Tasks)
  BY <1>1, <1>7, FS_Union
<1> QED BY <1>2, <1>8, FS_Union DEF Things

\* Taking things away from finitely many comes to an end.
LEMMA LessThanIsWellFounded == IsWellFoundedOn(LessThan, SUBSET Things)
<1> DEFINE Below == OpToRel(<, Nat)
<1>1. IsWellFoundedOn(Below, Nat)
  BY NatLessThanWellFounded
<1>2. \A m, n \in Nat : m < n => <<m, n>> \in Below
  BY DEF OpToRel
<1> HIDE DEF Below
<1>3. ASSUME NEW T \in SUBSET (SUBSET Things), T # {}
      PROVE  \E x \in T : \A y \in T : ~(<<y, x>> \in LessThan)
  <2>1. \A x \in T : IsFiniteSet(x) /\ Cardinality(x) \in Nat
    BY ThingsAreFinite, FS_Subset, FS_CardinalityType
  <2> DEFINE sizes == {Cardinality(x) : x \in T}
  <2>2. sizes \subseteq Nat /\ sizes # {}
    BY <1>3, <2>1
  <2> HIDE DEF sizes
  <2>3. \E n \in sizes : \A m \in sizes : ~(<<m, n>> \in Below)
    BY <1>1, <2>2, WFMin, Zenon
  <2> USE DEF sizes
  <2>4. PICK n \in sizes : \A m \in sizes : ~(<<m, n>> \in Below)
    BY <2>3
  <2>5. PICK x \in T : Cardinality(x) = n
    BY <2>4
  <2>6. ASSUME NEW y \in T, <<y, x>> \in LessThan PROVE FALSE
    <3>1. y \subseteq x /\ y # x
      BY <2>6 DEF LessThan, Fewer
    <3>2. Cardinality(y) <= Cardinality(x) /\ (Cardinality(y) = Cardinality(x) => y = x)
      BY <2>1, <3>1, FS_Subset
    <3>3. Cardinality(y) < n /\ Cardinality(y) \in Nat /\ n \in Nat
      BY <2>1, <2>5, <3>1, <3>2
    <3>4. Cardinality(y) \in sizes
      OBVIOUS
    <3> QED BY <1>2, <2>4, <3>3, <3>4
  <2> QED BY <2>6
<1> QED BY <1>3, MinWF

LEMMA LeftType ==
  ASSUME W!TypeOK, BuildInv
  PROVE  Left \in [1 .. 21 -> SUBSET Things]
<1>1. /\ walked \subseteq Dirs /\ output \subseteq Files /\ todo \subseteq Files
      /\ phase \in Phases
  BY DEF W!TypeOK, BuildInv, FlagTypes
<1>2. After \subseteq Words /\ Stops \subseteq Words /\ Unfinished \subseteq Words /\ Enumerating \subseteq Words
  <2>1. After \subseteq Words
    BY <1>1 DEF After, Phases, Ended, Words
  <2> QED BY <2>1 DEF Stops, Unfinished, Enumerating, Words
<1>3. \A at \in STRING : WalkersAt(at) \subseteq Walkers /\ TasksAt(at) \subseteq Tasks
  BY DEF WalkersAt, TasksAt
<1>4. /\ SubsInHand \subseteq Walkers \X Dirs /\ FilesInHand \subseteq Walkers \X Files
      /\ ToTurn \subseteq Tasks /\ InLine \subseteq Tasks /\ Awake \subseteq Tasks
  BY DEF SubsInHand, FilesInHand, ToTurn, TasksAt, InLine, Awake
<1>5. /\ Words \subseteq Things /\ Dirs \subseteq Things /\ Walkers \subseteq Things
      /\ Walkers \X Dirs \subseteq Things /\ Walkers \X Files \subseteq Things
      /\ Files \subseteq Things /\ Tasks \subseteq Things /\ Pool \subseteq Things
  BY DEF Things
<1>6. /\ Left[1] \in SUBSET Things /\ Left[2] \in SUBSET Things /\ Left[3] \in SUBSET Things
      /\ Left[4] \in SUBSET Things /\ Left[5] \in SUBSET Things /\ Left[6] \in SUBSET Things
      /\ Left[7] \in SUBSET Things /\ Left[8] \in SUBSET Things /\ Left[9] \in SUBSET Things
      /\ Left[10] \in SUBSET Things
  <2>1. WalkersAt("reading") \subseteq Walkers /\ WalkersAt("listed") \subseteq Walkers
        /\ WalkersAt("counted") \subseteq Walkers /\ WalkersAt("leaving") \subseteq Walkers
        /\ WalkersAt("waiting") \subseteq Walkers
    BY DEF WalkersAt
  <2> QED BY <1>2, <1>4, <1>5, <2>1, FirstItems
<1>7. /\ Left[11] \in SUBSET Things /\ Left[12] \in SUBSET Things /\ Left[13] \in SUBSET Things
      /\ Left[14] \in SUBSET Things /\ Left[15] \in SUBSET Things /\ Left[16] \in SUBSET Things
      /\ Left[17] \in SUBSET Things /\ Left[18] \in SUBSET Things /\ Left[19] \in SUBSET Things
      /\ Left[20] \in SUBSET Things /\ Left[21] \in SUBSET Things
  <2>1. TasksAt("asking") \subseteq Tasks /\ TasksAt("flushing") \subseteq Tasks
        /\ TasksAt("releasing") \subseteq Tasks
    BY DEF TasksAt
  <2> QED BY <1>1, <1>2, <1>4, <1>5, <2>1, LastItems
<1>8. \A i \in 1 .. 21 : Left[i] \in SUBSET Things
  BY <1>6, <1>7, Indices
<1>9. Left = [i \in 1 .. 21 |-> Left[i]]
  BY FirstItems DEF Left
<1> QED BY <1>8, <1>9

LeavesLess == <<Left', Left>> \in Order

\* So no build goes on for ever: what is left is less, in a well-founded order, after every
\* step.
THEOREM EveryBuildRunsOut ==
  /\ IsWellFoundedOn(Order, [1 .. 21 -> SUBSET Things])
  /\ Spec => [][LeavesLess]_vars
<1>1. IsWellFoundedOn(Order, [1 .. 21 -> SUBSET Things])
  BY LessThanIsWellFounded, WFLexProductOrdering DEF Order
<1>2. W!TypeOK /\ BuildInv => Left \in [1 .. 21 -> SUBSET Things]
  BY LeftType
<1>3. ASSUME Left \in [1 .. 21 -> SUBSET Things], (Left \in [1 .. 21 -> SUBSET Things])', StepCounts
      PROVE  LeavesLess
  <2>1. DOMAIN Left = 1 .. 21
    BY FirstItems
  <2>2. /\ Left \in [1 .. 21 -> SUBSET Things] /\ Left' \in [1 .. 21 -> SUBSET Things]
    BY <1>3
  <2>3. PICK i \in 1 .. 21 : Fewer(Left'[i], Left[i]) /\ \A j \in 1 .. i - 1 : Left'[j] = Left[j]
    BY <1>3, <2>1 DEF StepCounts
  <2>4. <<Left'[i], Left[i]>> \in LessThan
    BY <2>1, <2>2, <2>3 DEF LessThan
  <2> QED BY <2>2, <2>3, <2>4 DEF LeavesLess, Order, LexProductOrdering
<1> QED
  BY <1>1, <1>2, <1>3, EveryStepOfABuildCounts, BuildInvariance, PTL DEF EveryStepCounts, StepCounts

============

---------------------------- MODULE DirectoryWalk ----------------------------
(***************************************************************************)
(* The walk of a source tree (FileWalker.WalkParallel): workers take       *)
(* folders off a shared queue, list them, queue their subfolders and hand  *)
(* the files to the caller through a bounded buffer.  A counter of the     *)
(* folders not yet done closes the queue; the end of all workers closes    *)
(* the buffer.  A caller may leave the enumeration early.                  *)
(*                                                                         *)
(* Sub and In are what the ignore rules keep of each folder.  The queue    *)
(* and the buffer are sets: their order decides nothing here.              *)
(***************************************************************************)
EXTENDS Naturals, FiniteSets

CONSTANTS Dirs, Root, Sub,  \* the folders and the subfolders of each
          Files, In,        \* the files, and those of each folder
          Walkers,          \* the walk's threads
          Capacity,         \* of the output buffer
          MaxFaults,        \* bound on what goes wrong during the walk
          None

VARIABLES network,   \* is the root on a share?
          pending,   \* folders queued or being walked
          queue,     \* folders to walk
          closed,    \* no folder will be added to the queue
          walker,    \* what each thread is doing
          output,    \* files for the caller
          finished,  \* no file will be added to the output
          cancelled,
          dropped,   \* DroppedDirs
          caller,    \* the caller's enumeration: "reading", "ended" or "left"
          found,     \* the files it has got
          walked,    \* ghost: the folders taken off the queue
          lost,      \* ghost: of these, the ones that were taken for empty or gone
          faults

thread == <<walker, queue, closed, pending>>
ends == <<finished, cancelled, caller>>
ghosts == <<walked, lost, faults>>
vars == <<network, pending, queue, closed, walker, output, finished, cancelled, dropped,
          caller, found, walked, lost, faults>>

\* How a folder is left: for the next one, by an exception that stops the thread
\* quietly, or by one that the thread dies of.
Exits == {"next", "stop", "fault"}
Walker ==
  [at : {"waiting", "reading", "listed", "counted", "leaving", "exited", "faulted"},
   dir : Dirs \cup {None}, subs : SUBSET Dirs, files : SUBSET Files, exit : Exits]
Waiting == [at |-> "waiting", dir |-> None, subs |-> {}, files |-> {}, exit |-> "next"]

\* What the constants are; assumed by the module that instantiates this one.
Assumptions ==
  /\ Root \in Dirs /\ IsFiniteSet(Dirs)
  /\ Sub \in [Dirs -> SUBSET Dirs] /\ In \in [Dirs -> SUBSET Files]
  /\ \A d, e \in Dirs : Root \notin Sub[d] /\ (d # e => Sub[d] \cap Sub[e] = {})
  /\ IsFiniteSet(Walkers) /\ Walkers # {}
  /\ Capacity \in Nat \ {0} /\ MaxFaults \in Nat
  /\ None \notin Dirs

TypeOK ==
  /\ network \in BOOLEAN
  /\ pending \in Nat /\ queue \subseteq Dirs /\ closed \in BOOLEAN
  /\ walker \in [Walkers -> Walker]
  /\ output \subseteq Files /\ finished \in BOOLEAN
  /\ cancelled \in BOOLEAN /\ dropped \in Nat
  /\ caller \in {"reading", "ended", "left"}
  /\ found \subseteq Files
  /\ walked \subseteq Dirs /\ lost \subseteq walked /\ faults \in Nat
-----------------------------------------------------------------------------
(* Reading one folder *)

Entries(d) == [subs |-> Sub[d], files |-> In[d]]
Nothing == [subs |-> {}, files |-> {}]

\* An attempt lists the folder, comes back empty (an access error the
\* enumeration swallows), finds it gone from the disk, or fails.
Attempts == {"listed", "empty", "gone", "failed"}

\* A share gets one more attempt after an empty listing or a failure; what the
\* second attempt after a failure says is taken as it is.
Last(first, second) ==
  IF network /\ first = "failed" THEN second
  ELSE IF network /\ first = "empty" /\ second = "listed" THEN second
  ELSE first
GivesUp_Retried(first, second) ==
  network /\ first = "failed" /\ Last(first, second) \in {"failed", "gone"}
GivesUp(first, second) ==
  first = "failed" /\ Last(first, second) \in {"failed", "gone"}

Read(d, first, second) ==
  IF Last(first, second) = "listed" THEN Entries(d) ELSE Nothing

\* What is taken for a folder that is gone or has nothing in it.
LooksEmpty(first, second) == first = "gone" \/ Last(first, second) = "empty"
-----------------------------------------------------------------------------
(* The threads *)

Take(v) ==
  /\ walker[v].at = "waiting" /\ ~cancelled
  /\ \E d \in queue :
       /\ queue' = queue \ {d}
       /\ walker' = [walker EXCEPT ![v] = [Waiting EXCEPT !.at = "reading", !.dir = d]]
       /\ walked' = walked \cup {d}
  /\ UNCHANGED <<network, pending, closed, output, ends, dropped, found, lost, faults>>

\* A folder that could not be read though it exists is counted.  One that is
\* gone, or comes back empty, is not: it may well be so.
ReadDir(v, first, second) ==
  LET d == walker[v].dir
      read == Read(d, first, second)
  IN
  /\ walker[v].at = "reading"
  /\ IF first = "listed" THEN UNCHANGED faults
     ELSE faults < MaxFaults /\ faults' = faults + 1
  /\ walker' = [walker EXCEPT ![v] = [@ EXCEPT !.at = "listed", !.subs = read.subs,
                                               !.files = read.files]]
  /\ dropped' = IF GivesUp(first, second) THEN dropped + 1 ELSE dropped
  /\ lost' = IF LooksEmpty(first, second) THEN lost \cup {d} ELSE lost
  /\ UNCHANGED <<network, pending, queue, closed, output, ends, found, walked>>

\* A subfolder is counted before it is queued.
CountChild(v) ==
  /\ walker[v].at = "listed" /\ walker[v].subs # {}
  /\ pending' = pending + 1
  /\ walker' = [walker EXCEPT ![v].at = "counted"]
  /\ UNCHANGED <<network, queue, closed, output, ends, dropped, found, ghosts>>

\* Adding to a queue that is closed throws; the thread takes that exception for
\* the end of the walk.
AddChild(v) ==
  /\ walker[v].at = "counted"
  /\ IF closed
     THEN /\ walker' = [walker EXCEPT ![v] = [@ EXCEPT !.at = "leaving", !.exit = "stop"]]
          /\ UNCHANGED queue
     ELSE \E s \in walker[v].subs :
            /\ queue' = queue \cup {s}
            /\ walker' = [walker EXCEPT ![v] = [@ EXCEPT !.at = "listed",
                                                         !.subs = walker[v].subs \ {s}]]
  /\ UNCHANGED <<network, pending, closed, output, ends, dropped, found, ghosts>>

\* A full buffer holds the thread up until the caller takes a file, or leaves.
AddFile(v) ==
  /\ walker[v].at = "listed" /\ walker[v].files # {}
  /\ IF cancelled
     THEN /\ walker' = [walker EXCEPT ![v] = [@ EXCEPT !.at = "leaving", !.exit = "stop"]]
          /\ UNCHANGED output
     ELSE /\ Cardinality(output) < Capacity
          /\ \E f \in walker[v].files :
               /\ output' = output \cup {f}
               /\ walker' = [walker EXCEPT ![v].files = @ \ {f}]
  /\ UNCHANGED <<network, pending, queue, closed, ends, dropped, found, ghosts>>

\* Anything else that throws while the entries are gone through.
Fault(v) ==
  /\ walker[v].at = "listed" /\ walker[v].subs \cup walker[v].files # {}
  /\ faults < MaxFaults /\ faults' = faults + 1
  /\ walker' = [walker EXCEPT ![v] = [@ EXCEPT !.at = "leaving", !.exit = "fault"]]
  /\ UNCHANGED <<network, pending, queue, closed, output, ends, dropped, found, walked, lost>>

\* The last folder that is done closes the queue, however it was left.
Leaves(v) ==
  \/ walker[v].at = "leaving"
  \/ walker[v].at = "listed" /\ walker[v].subs = {} /\ walker[v].files = {}
AfterExit(exit) ==
  CASE exit = "next"  -> Waiting
    [] exit = "stop"  -> [Waiting EXCEPT !.at = "exited"]
    [] exit = "fault" -> [Waiting EXCEPT !.at = "faulted"]
LeaveDir(v) ==
  /\ Leaves(v)
  /\ pending' = pending - 1
  /\ closed' = (closed \/ pending' = 0)
  /\ walker' = [walker EXCEPT ![v] = AfterExit(walker[v].exit)]
  /\ UNCHANGED <<network, queue, output, ends, dropped, found, ghosts>>

\* The queue is closed and empty, or the walk is cancelled.
Exit(v) ==
  /\ walker[v].at = "waiting"
  /\ cancelled \/ (closed /\ queue = {})
  /\ walker' = [walker EXCEPT ![v].at = "exited"]
  /\ UNCHANGED <<network, pending, queue, closed, output, ends, dropped, found, ghosts>>
-----------------------------------------------------------------------------
(* The end of all threads, and the caller *)

AllExited == \A v \in Walkers : walker[v].at \in {"exited", "faulted"}

\* A thread that died counts as a dropped folder.  The caller is told the end
\* only then.
CountFaulted ==
  /\ AllExited /\ ~finished
  /\ dropped' = dropped + Cardinality({v \in Walkers : walker[v].at = "faulted"})
  /\ finished' = TRUE
  /\ UNCHANGED <<network, thread, output, cancelled, caller, found, ghosts>>

GetFile ==
  /\ caller = "reading"
  /\ \E f \in output : output' = output \ {f} /\ found' = found \cup {f}
  /\ UNCHANGED <<network, thread, ends, dropped, ghosts>>

EndOfFiles ==
  /\ caller = "reading" /\ finished /\ output = {}
  /\ caller' = "ended" /\ cancelled' = TRUE
  /\ UNCHANGED <<network, thread, output, finished, dropped, found, ghosts>>

\* The caller has seen enough, or is itself cancelled.
LeaveEarly ==
  /\ caller = "reading"
  /\ caller' = "left" /\ cancelled' = TRUE
  /\ UNCHANGED <<network, thread, output, finished, dropped, found, ghosts>>
-----------------------------------------------------------------------------
Init ==
  /\ network \in BOOLEAN
  /\ pending = 1 /\ queue = {Root} /\ closed = FALSE
  /\ walker = [v \in Walkers |-> Waiting]
  /\ output = {} /\ finished = FALSE /\ cancelled = FALSE
  /\ dropped = 0 /\ caller = "reading" /\ found = {}
  /\ walked = {} /\ lost = {} /\ faults = 0

WorkOn(v) ==
  \/ Take(v) \/ CountChild(v) \/ AddChild(v) \/ AddFile(v) \/ LeaveDir(v) \/ Exit(v)
  \/ \E first, second \in Attempts : ReadDir(v, first, second)

Walk ==
  \/ \E v \in Walkers : WorkOn(v) \/ Fault(v)
  \/ CountFaulted \/ GetFile \/ EndOfFiles

Next == Walk \/ LeaveEarly

Spec == Init /\ [][Next]_vars

\* Every thread goes on when it can, and so does a caller that has not left.
Fairness ==
  /\ \A v \in Walkers : WF_vars(WorkOn(v))
  /\ WF_vars(CountFaulted) /\ WF_vars(GetFile \/ EndOfFiles)
-----------------------------------------------------------------------------
(* Properties *)

\* A walk that came to its end and counted nothing as dropped has taken up the
\* root and every subfolder of the folders it took up, and has delivered all their
\* files, but for folders whose listing came back empty or that were gone
\* (FileWalker.DroppedDirs): an update takes a file that is missing for deleted.
WalkIsComplete ==
  caller = "ended" /\ dropped = 0 =>
    /\ Root \in walked
    /\ \A d \in walked \ lost : Sub[d] \subseteq walked /\ In[d] \subseteq found
=============================================================================

----------------------- MODULE RepositoryWatcherProofs -----------------------
(***************************************************************************)
(* Proofs about RepositoryWatcher, for any paths, any debounce and longest *)
(* wait, any number of timer callbacks and of deaths of the system's       *)
(* watcher: its types, that Dispose is a barrier, and that no wakeup is    *)
(* lost.                                                                   *)
(***************************************************************************)
EXTENDS RepositoryWatcher, TLAPS

Record == [Paths -> {None, "changed", "structural"}]

\* The parts of TypeOK, each kept by a lemma of its own.
WorldType ==
  /\ ignored \subseteq Paths
  /\ tree \in [Paths -> Kinds \cup {None}]
  /\ raised \subseteq Event /\ error \in {None, "overflow", "dead"}
  /\ alive \in BOOLEAN /\ restarting \in BOOLEAN /\ deaths \in 0 .. MaxDeaths
  /\ disposal \in {"no", "marked", "draining", "returned"}
  /\ unseen \subseteq Paths /\ blind \subseteq unseen
RecordType ==
  /\ pending \in Record
  /\ ifFolder \subseteq ignored /\ overflow \in BOOLEAN
  /\ calls \subseteq BOOLEAN
ClockType ==
  /\ timer \in 0 .. Debounce \cup {None} /\ waited \in 0 .. MaxWait
  /\ timer # None => ~Disposed
  /\ dispatched \in 0 .. MaxCallbacks
FlushType == flush \in Flush /\ checking \in BOOLEAN

\* TypeOK is the conjunction of its parts.
LEMMA TypeParts ==
  TypeOK <=> WorldType /\ RecordType /\ ClockType /\ FlushType
BY DEF TypeOK, WorldType, RecordType, ClockType, FlushType, Record

\* An idle flush is a flush, and so is one that has come to another stage.
LEMMA FlushRecords ==
  /\ Idle \in Flush
  /\ \A f \in Flush, stage \in Stages : [f EXCEPT !.at = stage] \in Flush
BY DEF Idle, Flush, Stages

-----------------------------------------------------------------------------
(* The inductive invariant *)

\* Nothing of the last flush is left in a record that is not taken, or has been
\* passed on.
Emptied ==
  /\ flush.at \in {"free", "entered", "started", "leaving"} =>
       ~flush.overflow /\ flush.batch = {}
  /\ flush.at # "taken" =>
       flush.ifFolder = {} /\ \A p \in Paths : flush.pending[p] = None
  /\ flush.at = "taken" => flush.batch = {}

\* Once Dispose has returned no flush gets past the look at _disposed.
Closed == disposal = "returned" => flush.at \in {"free", "entered", "leaving"}

\* What is recorded has somebody coming for it.
Awake ==
  More /\ ~Disposed =>
    \/ calls # {} \/ timer # None \/ dispatched > 0
    \/ flush.at # "free" \/ checking

\* A path is on its way to the consumer.  As one that only changed it is passed
\* on unless it is a folder by then; named like an ignored file type, only if it
\* is one, or if it is gone.
Raised(p, what) == [path |-> p, what |-> what] \in raised
AsStructural(p) ==
  \/ Raised(p, "gone") \/ (p \notin ignored /\ Raised(p, "in"))
  \/ pending[p] = "structural" \/ flush.pending[p] = "structural"
AsChanged(p) ==
  p \notin ignored /\ (Raised(p, "changed") \/ pending[p] = "changed" \/ flush.pending[p] = "changed")
AsFolder(p) ==
  p \in ignored /\ (Raised(p, "in") \/ p \in ifFolder \/ p \in flush.ifFolder)
Everything == error # None \/ overflow \/ flush.overflow
OnItsWay(p) ==
  \/ Everything \/ p \in flush.batch \/ AsStructural(p)
  \/ tree[p] # "folder" /\ AsChanged(p)
  \/ tree[p] = "folder" /\ AsFolder(p)

\* Until Dispose, every change made with somebody watching is on its way.
Accounted == ~Disposed => \A p \in unseen \ blind : OnItsWay(p)

IInv == Emptied /\ Closed /\ Awake /\ Accounted
-----------------------------------------------------------------------------
(* Types *)

\* Each action keeps the types of the tree, the events and the ghosts.
LEMMA WorldStep ==
  ASSUME TypeOK, Next
  PROVE  WorldType'
<1> USE DEF world, events, recorded, clockwork, watching, ghosts, WorldType
<1>a. WorldType
  BY TypeParts
<1>1. ASSUME NEW p \in Paths, Touch(p) PROVE WorldType'
  BY <1>a, <1>1 DEF Touch, Raise, Event
<1>2. ASSUME NEW p \in Paths, NEW kind \in Kinds \cup {None}, Change(p, kind) PROVE WorldType'
  BY <1>a, <1>2 DEF Change, Raise, Event
<1>3. ASSUME BufferOverflows PROVE WorldType'
  BY <1>a, <1>3 DEF BufferOverflows
<1>9. ASSUME WatcherDies PROVE WorldType'
  <2>1. deaths' \in 0 .. MaxDeaths
    BY <1>a, <1>9, Assumptions DEF WatcherDies
  <2> QED BY <1>a, <1>9, <2>1 DEF WatcherDies
<1>4. ASSUME Handlers PROVE WorldType'
  BY <1>a, <1>4 DEF Handlers, HandleEvent, HandleError, Restart
<1>5. ASSUME NEW now \in BOOLEAN, Schedule(now) PROVE WorldType'
  BY <1>a, <1>5 DEF Schedule
<1>6. ASSUME Tick \/ Fire \/ TryEnter \/ CheckForMore PROVE WorldType'
  BY <1>a, <1>6 DEF Tick, Fire, TryEnter, CheckForMore
<1>7. ASSUME FlushSteps PROVE WorldType'
  BY <1>a, <1>7 DEF FlushSteps, StartFlush, Take, Probe, Deliver, LeaveGate
<1>8. ASSUME MarkDisposed \/ StopEvents \/ Drain PROVE WorldType'
  BY <1>a, <1>8 DEF MarkDisposed, StopEvents, Drain
<1> QED BY <1>1, <1>2, <1>3, <1>4, <1>5, <1>6, <1>7, <1>8, <1>9 DEF Next

\* Each action keeps the types of what is recorded.
LEMMA RecordStep ==
  ASSUME TypeOK, Next
  PROVE  RecordType'
<1> USE DEF world, events, recorded, clockwork, watching, ghosts, RecordType, Record
<1>a. RecordType
  BY TypeParts
<1>1. ASSUME NEW p \in Paths, Touch(p) PROVE RecordType'
  BY <1>a, <1>1 DEF Touch
<1>2. ASSUME NEW p \in Paths, NEW kind \in Kinds \cup {None}, Change(p, kind) PROVE RecordType'
  BY <1>a, <1>2 DEF Change
<1>3. ASSUME BufferOverflows \/ WatcherDies PROVE RecordType'
  BY <1>a, <1>3 DEF BufferOverflows, WatcherDies
<1>4. ASSUME NEW e \in Event, HandleEvent(e) PROVE RecordType'
  <2>1. e.path \in Paths /\ Merged(e.path, e.what) \in {"changed", "structural"}
    BY DEF Event, Merged
  <2>2. pending' \in Record
    BY <1>a, <1>4, <2>1 DEF HandleEvent
  <2>3. ifFolder' \subseteq ignored'
    BY <1>a, <1>4 DEF HandleEvent, Reacts
  <2>4. calls' \subseteq BOOLEAN
    BY <1>a, <1>4, Assumptions DEF HandleEvent, ScheduleIfFull
  <2> QED BY <1>a, <1>4, <2>2, <2>3, <2>4 DEF HandleEvent
<1>5. ASSUME HandleError \/ Restart PROVE RecordType'
  BY <1>a, <1>5 DEF HandleError, Restart
<1>6. ASSUME NEW now \in BOOLEAN, Schedule(now) PROVE RecordType'
  BY <1>a, <1>6 DEF Schedule
<1>7. ASSUME Tick \/ Fire \/ TryEnter \/ CheckForMore PROVE RecordType'
  BY <1>a, <1>7, Assumptions DEF Tick, Fire, TryEnter, CheckForMore, ScheduleIfFull
<1>8. ASSUME FlushSteps PROVE RecordType'
  BY <1>a, <1>8 DEF FlushSteps, StartFlush, Take, Probe, Deliver, LeaveGate
<1>9. ASSUME MarkDisposed \/ StopEvents \/ Drain PROVE RecordType'
  BY <1>a, <1>9 DEF MarkDisposed, StopEvents, Drain
<1> QED BY <1>1, <1>2, <1>3, <1>4, <1>5, <1>6, <1>7, <1>8, <1>9 DEF Next, Handlers

\* Each action keeps the types of the timer.
LEMMA ClockStep ==
  ASSUME TypeOK, Next
  PROVE  ClockType'
<1> USE DEF world, events, recorded, clockwork, watching, ghosts, ClockType, Disposed
<1>a. ClockType
  BY TypeParts
<1>b. Debounce \in Nat \ {0} /\ MaxWait \in Nat \ {0} /\ MaxCallbacks \in Nat \ {0}
  BY Assumptions
<1>1. ASSUME NEW p \in Paths, Touch(p) PROVE ClockType'
  BY <1>a, <1>1 DEF Touch
<1>2. ASSUME NEW p \in Paths, NEW kind \in Kinds \cup {None}, Change(p, kind) PROVE ClockType'
  BY <1>a, <1>2 DEF Change
<1>3. ASSUME BufferOverflows \/ WatcherDies PROVE ClockType'
  BY <1>a, <1>3 DEF BufferOverflows, WatcherDies
<1>4. ASSUME Handlers PROVE ClockType'
  BY <1>a, <1>4 DEF Handlers, HandleEvent, HandleError, Restart
<1>5. ASSUME NEW now \in BOOLEAN, Schedule(now) PROVE ClockType'
  BY <1>a, <1>b, <1>5 DEF Schedule, Scheduled, Due
<1>6. ASSUME Tick PROVE ClockType'
  BY <1>a, <1>b, <1>6 DEF Tick
<1>7. ASSUME Fire \/ TryEnter \/ CheckForMore PROVE ClockType'
  BY <1>a, <1>b, <1>7 DEF Fire, TryEnter, CheckForMore
<1>8. ASSUME FlushSteps PROVE ClockType'
  BY <1>a, <1>b, <1>8 DEF FlushSteps, StartFlush, Take, Probe, Deliver, LeaveGate
<1>9. ASSUME MarkDisposed \/ StopEvents \/ Drain PROVE ClockType'
  BY <1>a, <1>9 DEF MarkDisposed, StopEvents, Drain
<1> QED BY <1>1, <1>2, <1>3, <1>4, <1>5, <1>6, <1>7, <1>8, <1>9 DEF Next

\* Each action leaves a flush.
LEMMA FlushStep ==
  ASSUME TypeOK, Next
  PROVE  FlushType'
<1> USE DEF world, events, recorded, clockwork, watching, ghosts, FlushType
<1>a. FlushType /\ pending \in Record /\ ifFolder \subseteq Paths /\ overflow \in BOOLEAN
  BY DEF TypeOK, Record
<1>1. ASSUME NEW p \in Paths, Touch(p) PROVE FlushType'
  BY <1>a, <1>1 DEF Touch
<1>2. ASSUME NEW p \in Paths, NEW kind \in Kinds \cup {None}, Change(p, kind) PROVE FlushType'
  BY <1>a, <1>2 DEF Change
<1>3. ASSUME BufferOverflows \/ WatcherDies PROVE FlushType'
  BY <1>a, <1>3 DEF BufferOverflows, WatcherDies
<1>4. ASSUME Handlers PROVE FlushType'
  BY <1>a, <1>4 DEF Handlers, HandleEvent, HandleError, Restart
<1>5. ASSUME NEW now \in BOOLEAN, Schedule(now) PROVE FlushType'
  BY <1>a, <1>5 DEF Schedule
<1>6. ASSUME Tick \/ Fire \/ CheckForMore PROVE FlushType'
  BY <1>a, <1>6 DEF Tick, Fire, CheckForMore
<1>7. ASSUME TryEnter \/ StartFlush PROVE FlushType'
  BY <1>a, <1>7, FlushRecords DEF TryEnter, StartFlush, Reach, Stages
<1>8. ASSUME Take PROVE FlushType'
  BY <1>a, <1>8 DEF Take, Flush, Stages, Record
<1>9. ASSUME Probe PROVE FlushType'
  <2>1. Batch \subseteq Paths
    BY <1>a DEF Batch, Flush
  <2> QED BY <1>a, <1>9, <2>1, FlushRecords DEF Probe, Flush, Stages
<1>10. ASSUME Deliver \/ LeaveGate PROVE FlushType'
  BY <1>a, <1>10, FlushRecords DEF Deliver, LeaveGate, Stages
<1>11. ASSUME MarkDisposed \/ StopEvents \/ Drain PROVE FlushType'
  BY <1>a, <1>11 DEF MarkDisposed, StopEvents, Drain
<1> QED BY <1>1, <1>2, <1>3, <1>4, <1>5, <1>6, <1>7, <1>8, <1>9, <1>10, <1>11
           DEF Next, FlushSteps

\* Every state has its types.
LEMMA TypesHold == Spec => []TypeOK
<1>1. Init => TypeOK
  <2> SUFFICES ASSUME Init PROVE TypeOK
    OBVIOUS
  <2>1. WorldType
    <3>1. deaths \in 0 .. MaxDeaths
      BY Assumptions DEF Init
    <3> QED BY <3>1 DEF Init, WorldType
  <2>4. RecordType
    BY DEF Init, RecordType, Record
  <2>2. ClockType
    BY Assumptions DEF Init, ClockType, Disposed
  <2>3. FlushType
    BY FlushRecords DEF Init, FlushType
  <2> QED BY <2>1, <2>2, <2>3, <2>4, TypeParts
<1>2. TypeOK /\ [Next]_vars => TypeOK'
  <2>1. ASSUME TypeOK, Next PROVE TypeOK'
    <3>1. WorldType' /\ RecordType' /\ ClockType' /\ FlushType'
      BY <2>1, WorldStep, RecordStep, ClockStep, FlushStep
    <3> QED BY <3>1 DEF TypeOK, WorldType, RecordType, ClockType, FlushType, Record
  <2>2. ASSUME TypeOK, UNCHANGED vars PROVE TypeOK'
    BY <2>2 DEF TypeOK, Disposed, vars, world, events, recorded, clockwork, watching, ghosts
  <2> QED BY <2>1, <2>2
<1> QED BY <1>1, <1>2, PTL DEF Spec

-----------------------------------------------------------------------------
(* What a flush holds, and Dispose *)

\* Each action keeps what a flush holds, and the door that Dispose has closed.
LEMMA EmptiedStep ==
  ASSUME TypeOK, Emptied, Closed, Next
  PROVE  Emptied' /\ Closed'
<1> USE DEF Emptied, Closed, world, events, recorded, clockwork, watching, ghosts
<1>a. flush \in Flush /\ Idle \in Flush
  BY FlushRecords DEF TypeOK
<1>1. ASSUME NEW p \in Paths, Touch(p) PROVE Emptied' /\ Closed'
  BY <1>1 DEF Touch
<1>2. ASSUME NEW p \in Paths, NEW kind \in Kinds \cup {None}, Change(p, kind)
      PROVE  Emptied' /\ Closed'
  BY <1>2 DEF Change
<1>3. ASSUME BufferOverflows \/ WatcherDies PROVE Emptied' /\ Closed'
  BY <1>3 DEF BufferOverflows, WatcherDies
<1>4. ASSUME Handlers PROVE Emptied' /\ Closed'
  BY <1>4 DEF Handlers, HandleEvent, HandleError, Restart
<1>5. ASSUME NEW now \in BOOLEAN, Schedule(now) PROVE Emptied' /\ Closed'
  BY <1>5 DEF Schedule
<1>6. ASSUME Tick \/ Fire \/ CheckForMore PROVE Emptied' /\ Closed'
  BY <1>6 DEF Tick, Fire, CheckForMore
<1>7. ASSUME TryEnter \/ StartFlush PROVE Emptied' /\ Closed'
  BY <1>a, <1>7 DEF TryEnter, StartFlush, Reach, MayStart, Disposed, Flush
<1>8. ASSUME Take PROVE Emptied' /\ Closed'
  BY <1>a, <1>8 DEF Take, Flush
<1>9. ASSUME Probe PROVE Emptied' /\ Closed'
  BY <1>a, <1>9 DEF Probe, Idle
<1>10. ASSUME Deliver \/ LeaveGate PROVE Emptied' /\ Closed'
  BY <1>a, <1>10 DEF Deliver, LeaveGate, Idle
<1>11. ASSUME MarkDisposed \/ StopEvents \/ Drain PROVE Emptied' /\ Closed'
  BY <1>11 DEF MarkDisposed, StopEvents, Drain
<1> QED BY <1>1, <1>2, <1>3, <1>4, <1>5, <1>6, <1>7, <1>8, <1>9, <1>10, <1>11
           DEF Next, FlushSteps

-----------------------------------------------------------------------------
(* No wakeup is lost *)

\* Each action that leaves something recorded leaves somebody coming for it.
LEMMA AwakeStep ==
  ASSUME TypeOK, Awake, Next
  PROVE  Awake'
<1> USE DEF Awake, More, Disposed, world, events, recorded, clockwork, watching, ghosts
<1>a. /\ timer \in 0 .. Debounce \cup {None} /\ dispatched \in 0 .. MaxCallbacks
      /\ flush \in Flush /\ Idle \in Flush
      /\ Debounce \in Nat /\ MaxCallbacks \in Nat /\ None \notin 0 .. Debounce
      /\ FALSE \in Fullness
  BY FlushRecords, Assumptions DEF TypeOK
<1>1. ASSUME NEW p \in Paths, Touch(p) PROVE Awake'
  BY <1>1 DEF Touch
<1>2. ASSUME NEW p \in Paths, NEW kind \in Kinds \cup {None}, Change(p, kind) PROVE Awake'
  BY <1>2 DEF Change
<1>3. ASSUME BufferOverflows \/ WatcherDies PROVE Awake'
  BY <1>3 DEF BufferOverflows, WatcherDies
<1>4. ASSUME Handlers PROVE Awake'
  BY <1>4 DEF Handlers, HandleEvent, HandleError, Restart, ScheduleIfFull
<1>5. ASSUME NEW now \in BOOLEAN, Schedule(now) PROVE Awake'
  BY <1>a, <1>5 DEF Schedule, Scheduled, Due
<1>6. ASSUME Tick PROVE Awake'
  BY <1>a, <1>6 DEF Tick
<1>7. ASSUME Fire PROVE Awake'
  BY <1>a, <1>7 DEF Fire
<1>8. ASSUME TryEnter PROVE Awake'
  BY <1>a, <1>8 DEF TryEnter, Reach, Flush
<1>9. ASSUME FlushSteps PROVE Awake'
  <2>1. CASE StartFlush
    BY <1>a, <2>1 DEF StartFlush, Reach, Flush
  <2>2. CASE Take
    BY <2>2 DEF Take
  <2>3. CASE Probe \/ Deliver
    BY <2>3 DEF Probe, Deliver, Idle
  <2>4. CASE LeaveGate
    BY <2>4 DEF LeaveGate
  <2> QED BY <1>9, <2>1, <2>2, <2>3, <2>4 DEF FlushSteps
<1>10. ASSUME CheckForMore PROVE Awake'
  BY <1>10 DEF CheckForMore, ScheduleIfFull
<1>11. ASSUME MarkDisposed \/ StopEvents \/ Drain PROVE Awake'
  BY <1>11 DEF MarkDisposed, StopEvents, Drain
<1> QED BY <1>1, <1>2, <1>3, <1>4, <1>5, <1>6, <1>7, <1>8, <1>9, <1>10, <1>11 DEF Next

\* What the system raises carries a change of a path, whether the path was on
\* its way before or not.
LEMMA TreeAccounted ==
  ASSUME TypeOK, Accounted, NEW p \in Paths,
         Touch(p) \/ \E kind \in Kinds \cup {None} : Change(p, kind)
  PROVE  Accounted'
<1> SUFFICES ASSUME ~Disposed', NEW q \in unseen' \ blind' PROVE OnItsWay(q)'
  BY DEF Accounted
<1>1. /\ UNCHANGED <<ignored, error, overflow, pending, ifFolder, flush>> /\ raised \subseteq raised'
      /\ ~Disposed /\ q \in Paths
  BY DEF Touch, Change, Raise, Disposed, world, events, recorded, ghosts, TypeOK
<1>2. q \in unseen \ blind => OnItsWay(q)
  BY <1>1 DEF Accounted
<1>3. CASE Touch(p)
  <2>1. tree' = tree
    BY <1>3 DEF Touch, world
  <2>2. CASE q \in unseen \ blind
    BY <1>1, <1>2, <2>1, <2>2 DEF OnItsWay, Everything, AsStructural, AsChanged, AsFolder, Raised
  <2>3. CASE q \notin unseen \ blind
    <3>1. q = p /\ tree[p] = "file" /\ Matters(p, "file", "file") /\ alive
      BY <1>3, <2>3 DEF Touch, ghosts
    <3>2. [path |-> p, what |-> "changed"] \in raised' /\ p \notin ignored
      BY <1>3, <3>1 DEF Touch, Raise, Matters
    <3> QED BY <1>1, <2>1, <3>1, <3>2 DEF OnItsWay, AsChanged, Raised
  <2> QED BY <2>2, <2>3
<1>4. ASSUME NEW kind \in Kinds \cup {None}, Change(p, kind) PROVE OnItsWay(q)'
  <2>1. tree' = [tree EXCEPT ![p] = kind] /\ tree \in [Paths -> Kinds \cup {None}]
    BY <1>4 DEF Change, TypeOK
  <2>2. CASE q # p
    <3>1. q \in unseen \ blind /\ tree'[q] = tree[q]
      BY <1>1, <1>4, <2>1, <2>2 DEF Change, ghosts
    <3> QED BY <1>1, <1>2, <3>1 DEF OnItsWay, Everything, AsStructural, AsChanged, AsFolder, Raised
  <2>3. CASE q = p /\ Matters(p, tree[p], kind)
    <3>1. alive /\ tree'[p] = kind /\ None \in {tree[p], kind}
          /\ [path |-> p, what |-> IF kind = None THEN "gone" ELSE "in"] \in raised'
      BY <1>4, <2>1, <2>3 DEF Change, Raise
    <3>2. CASE kind = None
      BY <1>1, <2>3, <3>1, <3>2 DEF OnItsWay, AsStructural, Raised
    <3>3. CASE kind # None /\ p \notin ignored
      BY <1>1, <2>3, <3>1, <3>3 DEF OnItsWay, AsStructural, Raised
    <3>4. CASE kind # None /\ p \in ignored
      <4>1. kind = "folder"
        BY <2>3, <3>1, <3>4, Assumptions DEF Matters
      <4> QED BY <1>1, <2>3, <3>1, <3>4, <4>1 DEF OnItsWay, AsFolder, Raised
    <3> QED BY <3>2, <3>3, <3>4
  <2>4. CASE q = p /\ ~Matters(p, tree[p], kind)
    <3>1. p \in ignored /\ tree[p] # "folder" /\ tree'[p] # "folder" /\ q \in unseen \ blind
      BY <1>4, <2>1, <2>4 DEF Matters, Change, ghosts
    <3> QED BY <1>1, <1>2, <2>4, <3>1
            DEF OnItsWay, Everything, AsStructural, AsChanged, AsFolder, Raised
  <2> QED BY <2>2, <2>3, <2>4
<1> QED BY <1>3, <1>4

\* An event that is handled is recorded, or of nothing that matters.
LEMMA HandledAccounted ==
  ASSUME TypeOK, Accounted, NEW e \in Event, HandleEvent(e)
  PROVE  Accounted'
<1> SUFFICES ASSUME ~Disposed', NEW q \in unseen' \ blind' PROVE OnItsWay(q)'
  BY DEF Accounted
<1>1. /\ UNCHANGED <<ignored, tree, error, overflow, flush>> /\ raised' = raised \ {e}
      /\ q \in Paths /\ OnItsWay(q)
      /\ e.path \in Paths /\ e.what \in {"changed", "in", "gone"}
      /\ e = [path |-> e.path, what |-> e.what]
      /\ pending \in [Paths -> {None, "changed", "structural"}]
  BY DEF HandleEvent, Disposed, world, ghosts, TypeOK, Accounted, Event
<1>a. \A what : q # e.path \/ what # e.what => (Raised(q, what) => Raised(q, what)')
  <2>1. ASSUME NEW what, q # e.path \/ what # e.what PROVE [path |-> q, what |-> what] # e
    <3>1. [path |-> q, what |-> what].path = q /\ [path |-> q, what |-> what].what = what
      OBVIOUS
    <3> QED BY <2>1, <3>1
  <2> QED BY <1>1, <2>1 DEF Raised
<1>2. q # e.path => pending'[q] = pending[q] /\ (q \in ifFolder => q \in ifFolder')
  BY <1>1 DEF HandleEvent
<1>3. CASE q # e.path
  BY <1>1, <1>a, <1>2, <1>3 DEF OnItsWay, Everything, AsStructural, AsChanged, AsFolder
<1>4. CASE q = e.path
  <2>1. /\ pending[q] = "structural" => pending'[q] = "structural"
        /\ pending[q] = "changed" => pending'[q] \in {"changed", "structural"}
        /\ q \in ifFolder => q \in ifFolder'
    BY <1>1, <1>4 DEF HandleEvent, Merged
  <2>2. /\ e.what = "gone" => pending'[q] = "structural"
        /\ e.what = "in" /\ q \notin ignored => pending'[q] = "structural"
        /\ e.what = "in" /\ q \in ignored => q \in ifFolder'
        /\ e.what = "changed" /\ q \notin ignored => pending'[q] \in {"changed", "structural"}
    BY <1>1, <1>4 DEF HandleEvent, Reacts, Merged
  <2> QED BY <1>1, <1>a, <2>1, <2>2
          DEF OnItsWay, Everything, AsStructural, AsChanged, AsFolder, Raised
<1> QED BY <1>3, <1>4

\* What is taken, looked at and delivered stays on its way until it is told.
LEMMA FlushAccounted ==
  ASSUME TypeOK, Emptied, Accounted, FlushSteps
  PROVE  Accounted'
<1> SUFFICES ASSUME ~Disposed', NEW q \in unseen' \ blind' PROVE OnItsWay(q)'
  BY DEF Accounted
<1>a. FlushSteps
  OBVIOUS
<1>1. UNCHANGED <<ignored, tree, error, raised>> /\ ~Disposed /\ q \in Paths /\ flush \in Flush
  BY <1>a DEF FlushSteps, StartFlush, Take, Probe, Deliver, LeaveGate, Disposed, world, events,
              ghosts, TypeOK
<1>2. CASE StartFlush \/ Take \/ Probe \/ LeaveGate
  <2>1. OnItsWay(q)
    BY <1>1, <1>2 DEF Accounted, StartFlush, Take, Probe, LeaveGate, ghosts
  <2>2. CASE StartFlush
    BY <1>1, <2>1, <2>2 DEF StartFlush, Reach, recorded, Flush, OnItsWay, Everything, AsStructural,
                            AsChanged, AsFolder, Raised
  <2>3. CASE Take
    <3>1. /\ flush'.pending = pending /\ flush'.ifFolder = ifFolder /\ flush'.overflow = overflow
          /\ flush'.batch = flush.batch
          /\ ~flush.overflow /\ flush.ifFolder = {} /\ \A p \in Paths : flush.pending[p] = None
      BY <1>1, <2>3 DEF Take, Flush, Emptied
    <3> QED BY <1>1, <2>1, <3>1, Assumptions
            DEF OnItsWay, Everything, AsStructural, AsChanged, AsFolder, Raised
  <2>4. CASE Probe
    <3>1. flush.batch = {} /\ UNCHANGED <<pending, ifFolder, overflow>>
      BY <2>4 DEF Probe, Emptied, recorded
    <3>2. \/ flush.pending[q] = "structural"
          \/ tree[q] # "folder" /\ flush.pending[q] = "changed"
          \/ tree[q] = "folder" /\ q \in flush.ifFolder
          => q \in Batch
      BY <1>1 DEF Batch
    <3>3. /\ flush.overflow => flush'.overflow
          /\ q \in Batch => flush'.overflow \/ q \in flush'.batch
      BY <2>4 DEF Probe, Idle
    <3> QED BY <1>1, <2>1, <3>1, <3>2, <3>3
            DEF OnItsWay, Everything, AsStructural, AsChanged, AsFolder, Raised
  <2>5. CASE LeaveGate
    <3>1. /\ ~flush.overflow /\ flush.batch = {} /\ flush.ifFolder = {}
          /\ \A p \in Paths : flush.pending[p] = None
          /\ UNCHANGED <<pending, ifFolder, overflow>>
      BY <2>5 DEF LeaveGate, Emptied, recorded
    <3> QED BY <1>1, <2>1, <3>1, Assumptions
            DEF OnItsWay, Everything, AsStructural, AsChanged, AsFolder, Raised
  <2> QED BY <1>2, <2>2, <2>3, <2>4, <2>5
<1>3. CASE Deliver
  <2>1. /\ ~flush.overflow /\ q \notin flush.batch /\ q \in unseen \ blind
        /\ flush.ifFolder = {} /\ \A p \in Paths : flush.pending[p] = None
        /\ UNCHANGED <<pending, ifFolder, overflow>>
    BY <1>3 DEF Deliver, Emptied, recorded
  <2>2. OnItsWay(q)
    BY <1>1, <2>1 DEF Accounted
  <2> QED BY <1>1, <2>1, <2>2, Assumptions
          DEF OnItsWay, Everything, AsStructural, AsChanged, AsFolder, Raised
<1> QED BY <1>a, <1>2, <1>3 DEF FlushSteps

\* Each action keeps every watched change on its way.
LEMMA AccountedStep ==
  ASSUME TypeOK, Emptied, Accounted, Next
  PROVE  Accounted'
<1> USE DEF Accounted, world, events, recorded, clockwork, watching, ghosts
<1>1. ASSUME NEW p \in Paths, Touch(p) \/ \E kind \in Kinds \cup {None} : Change(p, kind)
      PROVE  Accounted'
  BY <1>1, TreeAccounted
<1>2. ASSUME BufferOverflows \/ WatcherDies \/ HandleError PROVE Accounted'
  BY <1>2, Assumptions DEF BufferOverflows, WatcherDies, HandleError, OnItsWay, Everything
<1>3. ASSUME NEW e \in Event, HandleEvent(e) PROVE Accounted'
  BY <1>3, HandledAccounted
<1>4. ASSUME UNCHANGED <<world, events, recorded, flush, disposal, ghosts>> PROVE Accounted'
  BY <1>4 DEF Disposed, OnItsWay, Everything, AsStructural, AsChanged, AsFolder, Raised
<1>5. ASSUME Restart \/ Tick \/ Fire \/ CheckForMore PROVE Accounted'
  BY <1>4, <1>5 DEF Restart, Tick, Fire, CheckForMore
<1>6. ASSUME NEW now \in BOOLEAN, Schedule(now) PROVE Accounted'
  BY <1>4, <1>6 DEF Schedule
<1>7. ASSUME TryEnter PROVE Accounted'
  <2>1. /\ UNCHANGED <<world, events, recorded, disposal, ghosts>>
        /\ flush'.pending = flush.pending /\ flush'.ifFolder = flush.ifFolder
        /\ flush'.overflow = flush.overflow /\ flush'.batch = flush.batch
    BY <1>7 DEF TryEnter, Reach, TypeOK, Flush
  <2> QED BY <2>1 DEF Disposed, OnItsWay, Everything, AsStructural, AsChanged, AsFolder, Raised
<1>8. ASSUME FlushSteps PROVE Accounted'
  BY <1>8, FlushAccounted
<1>9. ASSUME MarkDisposed \/ StopEvents \/ Drain PROVE Accounted'
  BY <1>9 DEF MarkDisposed, StopEvents, Drain, Disposed
<1> QED BY <1>1, <1>2, <1>3, <1>5, <1>6, <1>7, <1>8, <1>9 DEF Next, Handlers

\* The inductive invariant holds of every behaviour.
LEMMA IInvHolds == Spec => []IInv
<1>1. Init => IInv
  BY DEF Init, IInv, Emptied, Closed, Awake, Accounted, More, Idle
<1>2. TypeOK /\ IInv /\ [Next]_vars => IInv'
  <2>1. ASSUME TypeOK, IInv, Next PROVE IInv'
    BY <2>1, EmptiedStep, AwakeStep, AccountedStep DEF IInv
  <2>2. ASSUME IInv, UNCHANGED vars PROVE IInv'
    BY <2>2 DEF vars, world, events, recorded, clockwork, watching, ghosts, IInv, Emptied, Closed,
                Awake, More, Disposed, Accounted, OnItsWay, Everything, AsStructural, AsChanged,
                AsFolder, Raised
  <2> QED BY <2>1, <2>2
<1> QED BY <1>1, <1>2, TypesHold, PTL DEF Spec

-----------------------------------------------------------------------------
(* The theorems *)

\* Every state of the watcher has its types: a timer runs only until Dispose,
\* and a flush holds what it may hold.
THEOREM TypeCorrect == Spec => []TypeOK
BY TypesHold

\* When Dispose has returned the consumer is not being called and never is
\* again: a flush looks at _disposed after it has the gate, and Dispose takes
\* the gate last.
THEOREM DisposeStopsCalls == Spec => []DisposeIsABarrier
<1>1. IInv => DisposeIsABarrier
  BY DEF IInv, Closed, DisposeIsABarrier
<1> QED BY <1>1, IInvHolds, PTL

\* No wakeup is lost: with no event, call, timer, callback or flush under way
\* the consumer has been told of every change that was made with somebody
\* watching, for any number of paths, and however many callbacks overlap.
THEOREM NoWakeupIsLost == Spec => []QuietIsCaughtUp
<1>1. TypeOK /\ IInv => QuietIsCaughtUp
  <2> SUFFICES ASSUME TypeOK, IInv, Quiet, NEW p \in unseen \ blind PROVE FALSE
    BY DEF QuietIsCaughtUp
  <2>1. OnItsWay(p) /\ p \in Paths
    BY DEF IInv, Accounted, Quiet, TypeOK
  <2>2. ~More
    BY DEF IInv, Awake, Quiet
  <2>3. /\ ~flush.overflow /\ flush.batch = {} /\ flush.ifFolder = {}
        /\ flush.pending[p] = None /\ raised = {} /\ error = None
    BY <2>1 DEF IInv, Emptied, Quiet
  <2> QED BY <2>1, <2>2, <2>3, Assumptions
          DEF More, OnItsWay, Everything, AsStructural, AsChanged, AsFolder, Raised
<1> QED BY <1>1, IInvHolds, TypesHold, PTL
=============================================================================

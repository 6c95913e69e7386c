-------------------------- MODULE SharedCacheProofs --------------------------
(***************************************************************************)
(* Proofs about SharedCache, for any sessions, commands, paths and texts,  *)
(* and any number of edits and faults.                                     *)
(***************************************************************************)
EXTENDS SharedCache, TLAPS

Reload == [cur : BOOLEAN, missed : BOOLEAN, text : Map \cup {None}]

\* The parts of TypeOK, each kept by a lemma of its own.
MapType == tree \in Map /\ index \in Map /\ ledger \in Map
MemType == mem \in [Sessions -> Memory \cup {None}]
CopyType == copy \in [Sessions -> Reload \cup {None}]
CurrentType == current \in SUBSET {s \in Sessions : mem[s] # None} /\ missed \in SUBSET current
OpType == op \in Operation \cup {None}
RestType ==
  /\ role \in Sessions \cup {None}
  /\ pending \in [Sessions -> SUBSET Paths]
  /\ owed \in SUBSET Sessions /\ stray \in SUBSET Paths
  /\ edits \in 0 .. MaxEdits /\ faults \in 0 .. MaxFaults

\* TypeOK is the conjunction of its parts.
LEMMA TypeParts ==
  TypeOK <=> MapType /\ MemType /\ CopyType /\ CurrentType /\ OpType /\ RestType
BY DEF TypeOK, MapType, MemType, CopyType, CurrentType, OpType, RestType, Reload

-----------------------------------------------------------------------------
\* None is no session, command, map, memory or operation.
LEMMA NoneIsNobody ==
  /\ None \notin Sessions \cup Commands /\ None \notin Map
  /\ None \notin Memory /\ None \notin Operation
  /\ Commands \cap Sessions = {} /\ Servers \cap Watchers = {}
BY Assumptions DEF Sessions

\* What a batch starts from is an index and a ledger.
LEMMA WhatIsKnown ==
  ASSUME TypeOK, NEW s \in Sessions, mem[s] # None
  PROVE  /\ Refreshed(s) \in Memory /\ KnownLedger(s) \in Map
         /\ LoadedLedger(s) \in Map \cup {None}
<1>1. mem[s] \in Memory /\ index \in Map /\ ledger \in Map
  BY DEF TypeOK
<1>2. LoadedLedger(s) \in Map \cup {None}
  BY <1>1 DEF LoadedLedger
<1>3. Refreshed(s) \in Memory
  BY <1>1, <1>2 DEF Refreshed, Memory
<1>4. KnownLedger(s) \in Map
  BY <1>1, <1>3 DEF KnownLedger, Memory
<1> QED BY <1>2, <1>3, <1>4

\* What the operations that take the lock write of themselves is an operation.
LEMMA Started ==
  ASSUME NEW who \in Sessions \cup Commands, NEW kind \in {"edits", "update", "build"},
         NEW text \in Map, NEW recorded \in Map,
         NEW paths \in SUBSET Paths, NEW batch \in SUBSET Paths, NEW covers \in BOOLEAN
  PROVE  [who |-> who, kind |-> kind, at |-> "text", text |-> text, ledger |-> recorded,
          paths |-> paths, batch |-> batch,
          covers |-> covers, saved |-> FALSE, committed |-> FALSE] \in Operation
BY DEF Operation, Stages

\* What a live batch is about to save, of the index and of the ledger.
BatchText(s, answered, unread) ==
  [p \in Paths |-> IF p \in answered \ unread /\ KnownLedger(s)[p] # tree[p]
                   THEN tree[p] ELSE Refreshed(s).text[p]]
BatchLedger(s, answered, unread) ==
  [p \in Paths |-> IF p \in answered \ unread THEN tree[p] ELSE KnownLedger(s)[p]]

\* A batch writes both maps to its session's memory and to its operation.
LEMMA WhatABatchSaves ==
  ASSUME TypeOK, NEW s \in Sessions,
         NEW answered \in SUBSET Paths, NEW unread \in SUBSET Paths,
         ApplyEdits(s, answered, unread)
  PROVE  /\ BatchText(s, answered, unread) \in Map
         /\ BatchLedger(s, answered, unread) \in Map
         /\ mem' = [mem EXCEPT ![s] = [text   |-> BatchText(s, answered, unread),
                                       ledger |-> BatchLedger(s, answered, unread)]]
         /\ op' = [who |-> s, kind |-> "edits", at |-> "text",
                   text |-> BatchText(s, answered, unread),
                   ledger |-> BatchLedger(s, answered, unread),
                   paths |-> answered, batch |-> answered,
                   covers |-> FALSE, saved |-> FALSE, committed |-> FALSE]
         /\ op' \in Operation
<1>1. KnownLedger(s) \in Map /\ Refreshed(s).text \in Map /\ tree \in Map
  BY WhatIsKnown DEF ApplyEdits, TypeOK, Memory
<1>2. BatchText(s, answered, unread) \in Map /\ BatchLedger(s, answered, unread) \in Map
  BY <1>1 DEF BatchText, BatchLedger, Map
<1>3. /\ mem' = [mem EXCEPT ![s] = [text   |-> BatchText(s, answered, unread),
                                    ledger |-> BatchLedger(s, answered, unread)]]
      /\ op' = [who |-> s, kind |-> "edits", at |-> "text",
                text |-> BatchText(s, answered, unread),
                ledger |-> BatchLedger(s, answered, unread),
                paths |-> answered, batch |-> answered,
                covers |-> FALSE, saved |-> FALSE, committed |-> FALSE]
  BY DEF ApplyEdits, BatchText, BatchLedger
<1>4. op' \in Operation
  BY <1>2, <1>3, Started
<1> QED BY <1>2, <1>3, <1>4

\* What a walk is about to save is an index and a ledger.
LEMMA WhatAWalkFinds ==
  ASSUME TypeOK, NEW unread \in SUBSET Paths, NEW dropped \in SUBSET Paths
  PROVE  /\ Walked(unread, dropped).text \in Map
         /\ Walked(unread, dropped).ledger \in Map
         /\ Kept(unread, dropped) \in SUBSET Paths
<1>1. Listed(dropped) \in Map
  BY DEF TypeOK, Listed, Map
<1>2. Kept(unread, dropped) \in SUBSET Paths
  BY DEF Kept
<1>3. Walked(unread, dropped).text \in Map
  BY <1>1 DEF TypeOK, Walked, Map
<1>4. Walked(unread, dropped).ledger \in Map
  BY <1>1 DEF TypeOK, Walked, Map
<1> QED BY <1>2, <1>3, <1>4

\* What the steps of an operation change of it leaves it an operation.
LEMMA GoneOn ==
  ASSUME NEW o \in Operation
  PROVE  /\ [o EXCEPT !.at = "ledger", !.saved = TRUE] \in Operation
         /\ [o EXCEPT !.at = "commit"] \in Operation
         /\ [o EXCEPT !.at = "compact", !.saved = FALSE, !.committed = TRUE] \in Operation
         /\ [o EXCEPT !.at = "refused", !.committed = TRUE] \in Operation
BY DEF Operation, Stages

\* Each action writes operations of operations.
LEMMA OpStep ==
  ASSUME TypeOK, Next
  PROVE  OpType'
<1> USE DEF OpType
<1>a. op \in Operation \cup {None}
  BY DEF TypeOK
<1>1. ASSUME NEW p \in Paths, Edit(p) PROVE OpType'
  BY <1>a, <1>1 DEF Edit
<1>2. ASSUME NEW s \in Sessions,
             TakeRole(s) \/ ReadGeneration(s) \/ Load(s) \/ Install(s) \/ End(s)
      PROVE  OpType'
  BY <1>a, <1>2 DEF TakeRole, ReadGeneration, Load, Install, End
<1>3. ASSUME NEW s \in Sessions, NEW answered \in SUBSET Paths, NEW unread \in SUBSET Paths,
             ApplyEdits(s, answered, unread)
      PROVE  OpType'
  BY <1>3, WhatABatchSaves
<1>4. ASSUME NEW w \in Servers \cup Commands,
             NEW unread \in SUBSET Paths, NEW dropped \in SUBSET Paths,
             Update(w, unread, dropped) \/ UpdateUntouched(w, unread, dropped)
      PROVE  OpType'
  <2>1. CASE Update(w, unread, dropped)
    BY <2>1, WhatAWalkFinds, Started DEF Update, Sessions
  <2>2. CASE UpdateUntouched(w, unread, dropped)
    BY <1>a, <2>2 DEF UpdateUntouched
  <2> QED BY <1>4, <2>1, <2>2
<1>5. ASSUME NEW w \in Sessions \cup Commands, NEW unread \in SUBSET Paths, Build(w, unread)
      PROVE  OpType'
  <2>1. [p \in Paths |-> IF p \in unread THEN None ELSE tree[p]] \in Map
    BY DEF TypeOK, Map
  <2> QED BY <1>5, <2>1, Started DEF Build
<1>6. ASSUME SaveIndex \/ SaveLedger \/ SaveFails \/ Publish \/ Compact \/ WatchWalkRefused
                \/ WatchFails \/ EndCommand
      PROVE  OpType'
  BY <1>a, <1>6, GoneOn DEF SaveIndex, SaveLedger, SaveFails, Publish, Compact,
                            WatchWalkRefused, WatchFails, EndCommand
<1>7. ASSUME NEW unread \in SUBSET Paths, NEW dropped \in SUBSET Paths,
             WatchWalks(unread, dropped)
      PROVE  OpType'
  <2>1. index \in Map /\ ledger \in Map
    BY DEF TypeOK
  <2> QED BY <1>a, <1>7, <2>1, WhatAWalkFinds DEF WatchWalks, Operation, Stages
<1> QED BY <1>1, <1>2, <1>3, <1>4, <1>5, <1>6, <1>7 DEF Next

\* What reloads, publishing and releases write of the sessions.
LEMMA Published ==
  ASSUME TypeOK, NEW who \in Sessions \cup Commands \cup {None}, Bump(who)
  PROVE  CopyType' /\ missed' = {} /\ current' \subseteq Sessions /\ current' \subseteq {who}
BY NoneIsNobody DEF TypeOK, CopyType, Reload, Bump

\* A release that publishes nothing leaves reloads, and drops who is gone.
LEMMA Released ==
  ASSUME TypeOK, NEW gone, NotPublished(gone)
  PROVE  CopyType' /\ missed' \subseteq current \ gone
BY DEF TypeOK, CopyType, Reload, NotPublished

\* Each action leaves memories.
LEMMA MemStep ==
  ASSUME TypeOK, Next
  PROVE  MemType'
<1> USE DEF MemType
<1>a. mem \in [Sessions -> Memory \cup {None}] /\ index \in Map /\ ledger \in Map
  BY DEF TypeOK
<1>b. \A text \in Map, known \in Map \cup {None} : [text |-> text, ledger |-> known] \in Memory
  BY DEF Memory
<1>1. ASSUME NEW p \in Paths, Edit(p) PROVE MemType'
  BY <1>a, <1>1 DEF Edit
<1>2. ASSUME NEW s \in Sessions, TakeRole(s) \/ ReadGeneration(s) \/ Load(s) \/ End(s)
      PROVE  MemType'
  BY <1>a, <1>2 DEF TakeRole, ReadGeneration, Load, End
<1>3. ASSUME NEW s \in Sessions, Install(s) PROVE MemType'
  <2>1. copy[s].text \in Map
    BY <1>3 DEF TypeOK, Install
  <2>2. LoadedLedger(s) \in Map \cup {None}
    BY <1>a DEF LoadedLedger
  <2> QED BY <1>a, <1>b, <1>3, <2>1, <2>2 DEF Install
<1>4. ASSUME NEW s \in Sessions, NEW answered \in SUBSET Paths, NEW unread \in SUBSET Paths,
             ApplyEdits(s, answered, unread)
      PROVE  MemType'
  BY <1>a, <1>b, <1>4, WhatABatchSaves
<1>5. ASSUME NEW w \in Servers \cup Commands,
             NEW unread \in SUBSET Paths, NEW dropped \in SUBSET Paths,
             Update(w, unread, dropped) \/ UpdateUntouched(w, unread, dropped)
      PROVE  MemType'
  BY <1>a, <1>b, <1>5 DEF Update, UpdateUntouched
<1>6. ASSUME NEW w \in Sessions \cup Commands, NEW unread \in SUBSET Paths, Build(w, unread)
      PROVE  MemType'
  BY <1>a, <1>6 DEF Build
<1>7. ASSUME SaveIndex \/ SaveLedger \/ SaveFails \/ WatchWalkRefused \/ WatchFails \/ EndCommand
      PROVE  MemType'
  BY <1>a, <1>7 DEF SaveIndex, SaveLedger, SaveFails, WatchWalkRefused, WatchFails, EndCommand
<1>8. ASSUME Publish PROVE MemType'
  <2>1. op.text \in Map /\ op.ledger \in Map
    BY <1>8 DEF TypeOK, Publish, Operation
  <2>2. PublishedMemory(op.who) \in Memory
    BY <1>b, <2>1 DEF PublishedMemory
  <2> QED BY <1>a, <1>8, <2>2 DEF Publish
<1>9. ASSUME Compact PROVE MemType'
  BY <1>a, <1>b, <1>9 DEF Compact
<1>10. ASSUME NEW unread \in SUBSET Paths, NEW dropped \in SUBSET Paths,
              WatchWalks(unread, dropped)
       PROVE  MemType'
  BY <1>a, <1>10 DEF WatchWalks
<1> QED BY <1>1, <1>2, <1>3, <1>4, <1>5, <1>6, <1>7, <1>8, <1>9, <1>10 DEF Next

\* Each action leaves reloads.
LEMMA CopyStep ==
  ASSUME TypeOK, Next
  PROVE  CopyType'
<1> USE DEF CopyType
<1>a. copy \in [Sessions -> Reload \cup {None}] /\ index \in Map
  BY DEF TypeOK, Reload
<1>1. ASSUME NEW p \in Paths, Edit(p) PROVE CopyType'
  BY <1>a, <1>1 DEF Edit
<1>2. ASSUME NEW s \in Sessions, TakeRole(s) \/ ReadGeneration(s) \/ Load(s) \/ Install(s)
      PROVE  CopyType'
  <2>1. [cur |-> TRUE, missed |-> FALSE, text |-> None] \in Reload
    BY DEF Reload
  <2>2. ASSUME Load(s) PROVE [copy[s] EXCEPT !.text = index] \in Reload
    BY <1>a, <2>2 DEF Load, Reload
  <2>3. CASE Load(s)
    BY <1>a, <2>2, <2>3 DEF Load
  <2> QED BY <1>a, <1>2, <2>1, <2>3 DEF TakeRole, ReadGeneration, Install
<1>3. ASSUME NEW s \in Sessions, End(s) PROVE CopyType'
  BY <1>a, <1>3, Released DEF End
<1>4. ASSUME NEW s \in Sessions, NEW answered \in SUBSET Paths, NEW unread \in SUBSET Paths,
             ApplyEdits(s, answered, unread)
      PROVE  CopyType'
  BY <1>a, <1>4 DEF ApplyEdits
<1>5. ASSUME NEW w \in Servers \cup Commands,
             NEW unread \in SUBSET Paths, NEW dropped \in SUBSET Paths,
             Update(w, unread, dropped) \/ UpdateUntouched(w, unread, dropped)
      PROVE  CopyType'
  BY <1>a, <1>5 DEF Update, UpdateUntouched
<1>6. ASSUME NEW w \in Sessions \cup Commands, NEW unread \in SUBSET Paths, Build(w, unread)
      PROVE  CopyType'
  BY <1>a, <1>6 DEF Build
<1>7. ASSUME SaveIndex \/ SaveLedger \/ WatchWalkRefused
      PROVE  CopyType'
  BY <1>a, <1>7 DEF SaveIndex, SaveLedger, WatchWalkRefused
<1>8. ASSUME SaveFails \/ Compact \/ WatchFails \/ EndCommand
      PROVE  CopyType'
  <2>1. op \in Operation
    BY <1>8 DEF TypeOK, SaveFails, Compact, WatchFails, EndCommand
  <2>2. op.who \in Sessions \cup Commands
    BY <2>1 DEF Operation
  <2> QED BY <1>a, <1>8, <2>2, Published, Released DEF SaveFails, Compact, WatchFails, EndCommand
<1>9. ASSUME Publish PROVE CopyType'
  BY <1>a, <1>9 DEF Publish, Reload
<1>10. ASSUME NEW unread \in SUBSET Paths, NEW dropped \in SUBSET Paths,
              WatchWalks(unread, dropped)
       PROVE  CopyType'
  BY <1>a, <1>10 DEF WatchWalks
<1> QED BY <1>1, <1>2, <1>3, <1>4, <1>5, <1>6, <1>7, <1>8, <1>9, <1>10 DEF Next

\* An installed copy is a memory.
LEMMA Installed ==
  ASSUME TypeOK, NEW s \in Sessions, Install(s)
  PROVE  mem'[s] # None /\ \A t \in Sessions \ {s} : mem'[t] = mem[t]
<1>1. copy[s].text \in Map /\ ledger \in Map
  BY DEF TypeOK, Install
<1>2. [text |-> copy[s].text, ledger |-> LoadedLedger(s)] # None
  BY <1>1, NoneIsNobody DEF LoadedLedger, Memory
<1> QED BY <1>2 DEF Install, TypeOK

\* Who is current has something loaded, and who missed a write is current.
LEMMA CurrentStep ==
  ASSUME TypeOK, Next
  PROVE  CurrentType'
<1> USE DEF CurrentType, MemType
<1>a. /\ mem \in [Sessions -> Memory \cup {None}] /\ mem' \in [Sessions -> Memory \cup {None}]
      /\ current \in SUBSET {s \in Sessions : mem[s] # None} /\ missed \in SUBSET current
      /\ index \in Map
  BY MemStep DEF TypeOK
<1>b. \A text, known : [text |-> text, ledger |-> known] \in Memory
                        => [text |-> text, ledger |-> known] # None
  BY NoneIsNobody
<1>1. ASSUME NEW p \in Paths, Edit(p) PROVE CurrentType'
  BY <1>a, <1>1 DEF Edit
<1>2. ASSUME NEW s \in Sessions, TakeRole(s) \/ ReadGeneration(s) \/ Load(s)
      PROVE  CurrentType'
  BY <1>a, <1>2 DEF TakeRole, ReadGeneration, Load
<1>3. ASSUME NEW s \in Sessions, Install(s) PROVE CurrentType'
  BY <1>a, <1>3, Installed DEF Install
<1>4. ASSUME NEW s \in Sessions, End(s) PROVE CurrentType'
  BY <1>a, <1>4, Released DEF End
<1>5. ASSUME NEW s \in Sessions, NEW answered \in SUBSET Paths, NEW unread \in SUBSET Paths,
             ApplyEdits(s, answered, unread)
      PROVE  CurrentType'
  <2>1. [text   |-> BatchText(s, answered, unread),
         ledger |-> BatchLedger(s, answered, unread)] # None
    <3>1. BatchText(s, answered, unread) \in Map /\ BatchLedger(s, answered, unread) \in Map
      BY <1>5, WhatABatchSaves
    <3> QED BY <3>1, NoneIsNobody DEF Memory
  <2>2. mem' = [mem EXCEPT ![s] = [text   |-> BatchText(s, answered, unread),
                                   ledger |-> BatchLedger(s, answered, unread)]]
    BY <1>5, WhatABatchSaves
  <2> QED BY <1>a, <1>5, <2>1, <2>2 DEF ApplyEdits
<1>6. ASSUME NEW w \in Servers \cup Commands,
             NEW unread \in SUBSET Paths, NEW dropped \in SUBSET Paths,
             Update(w, unread, dropped)
      PROVE  CurrentType'
  BY <1>a, <1>6 DEF Update
<1>7. ASSUME NEW w \in Servers \cup Commands,
             NEW unread \in SUBSET Paths, NEW dropped \in SUBSET Paths,
             UpdateUntouched(w, unread, dropped)
      PROVE  CurrentType'
  <2>1. w \in Sessions /\ [text |-> index, ledger |-> None] # None
    BY <1>a, <1>7, NoneIsNobody DEF UpdateUntouched, Sessions, Memory
  <2> QED BY <1>a, <1>7, <2>1 DEF UpdateUntouched
<1>8. ASSUME NEW w \in Sessions \cup Commands, NEW unread \in SUBSET Paths, Build(w, unread)
      PROVE  CurrentType'
  BY <1>a, <1>8 DEF Build
<1>9. ASSUME SaveIndex \/ SaveLedger \/ WatchWalkRefused
      PROVE  CurrentType'
  BY <1>a, <1>9 DEF SaveIndex, SaveLedger, WatchWalkRefused
<1>10. ASSUME SaveFails PROVE CurrentType'
  BY <1>a, <1>10, Published, NoneIsNobody DEF SaveFails
<1>11. ASSUME Publish PROVE CurrentType'
  <2>1. op \in Operation
    BY <1>11 DEF TypeOK, Publish
  <2>2. PublishedMemory(op.who) # None
    BY <2>1, NoneIsNobody DEF PublishedMemory, Memory, Operation
  <2>3. PublishedTo(op.who) \subseteq Sessions /\ PublishedTo(op.who) \subseteq {op.who}
    BY <2>1 DEF PublishedTo, Operation
  <2> QED BY <1>a, <1>11, <2>2, <2>3 DEF Publish
<1>12. ASSUME Compact PROVE CurrentType'
  <2>1. op.who \in Sessions \cup Commands
    BY <1>12 DEF TypeOK, Compact, Operation
  <2>2. [text |-> index, ledger |-> None] # None
    BY <1>a, NoneIsNobody DEF Memory
  <2> QED BY <1>a, <1>12, <2>1, <2>2, Published, NoneIsNobody DEF Compact
<1>13. ASSUME WatchFails \/ EndCommand PROVE CurrentType'
  BY <1>a, <1>13, Published, Released, NoneIsNobody DEF WatchFails, EndCommand
<1>14. ASSUME NEW unread \in SUBSET Paths, NEW dropped \in SUBSET Paths,
              WatchWalks(unread, dropped)
       PROVE  CurrentType'
  BY <1>a, <1>14 DEF WatchWalks
<1> QED BY <1>1, <1>2, <1>3, <1>4, <1>5, <1>6, <1>7, <1>8, <1>9, <1>10, <1>11, <1>12, <1>13,
           <1>14 DEF Next

\* Each action leaves maps on disk and in the tree.
LEMMA MapStep ==
  ASSUME TypeOK, Next
  PROVE  MapType'
<1>a. MapType /\ op \in Operation \cup {None}
  BY DEF TypeOK, MapType
<1>1. ASSUME NEW p \in Paths, Edit(p) PROVE MapType'
  BY <1>a, <1>1 DEF Edit, MapType, Map, disk
<1>2. ASSUME SaveIndex \/ SaveLedger PROVE MapType'
  <2>1. op \in Operation
    BY <1>a, <1>2 DEF SaveIndex, SaveLedger
  <2>2. op.text \in Map /\ op.ledger \in Map
    BY <2>1 DEF Operation
  <2> QED BY <1>a, <1>2, <2>2 DEF SaveIndex, SaveLedger, MapType
<1>3. ASSUME NEW s \in Sessions,
             TakeRole(s) \/ ReadGeneration(s) \/ Load(s) \/ Install(s) \/ End(s)
      PROVE  MapType'
  BY <1>a, <1>3 DEF TakeRole, ReadGeneration, Load, Install, End, MapType, disk
<1>4. ASSUME NEW s \in Sessions, NEW answered \in SUBSET Paths, NEW unread \in SUBSET Paths,
             ApplyEdits(s, answered, unread)
      PROVE  MapType'
  BY <1>a, <1>4 DEF ApplyEdits, MapType, disk
<1>5. ASSUME NEW w \in Servers \cup Commands,
             NEW unread \in SUBSET Paths, NEW dropped \in SUBSET Paths,
             Update(w, unread, dropped) \/ UpdateUntouched(w, unread, dropped)
      PROVE  MapType'
  BY <1>a, <1>5 DEF Update, UpdateUntouched, MapType, disk
<1>6. ASSUME NEW w \in Sessions \cup Commands, NEW unread \in SUBSET Paths, Build(w, unread)
      PROVE  MapType'
  BY <1>a, <1>6 DEF Build, MapType, disk
<1>7. ASSUME SaveFails \/ Publish \/ Compact \/ WatchWalkRefused \/ WatchFails \/ EndCommand
      PROVE  MapType'
  BY <1>a, <1>7 DEF SaveFails, Publish, Compact, WatchWalkRefused, WatchFails, EndCommand,
                    MapType, disk
<1>8. ASSUME NEW unread \in SUBSET Paths, NEW dropped \in SUBSET Paths,
             WatchWalks(unread, dropped)
      PROVE  MapType'
  BY <1>a, <1>8 DEF WatchWalks, MapType, disk
<1> QED BY <1>1, <1>2, <1>3, <1>4, <1>5, <1>6, <1>7, <1>8 DEF Next

\* The count of faults stays within its bound.
LEMMA FaultCount ==
  ASSUME faults \in 0 .. MaxFaults, Fault
  PROVE  faults' \in 0 .. MaxFaults
BY Assumptions DEF Fault

\* Each action keeps the types of the rest.
LEMMA RestStep ==
  ASSUME TypeOK, Next
  PROVE  RestType'
<1> USE DEF RestType, bounds
<1>a. RestType /\ op \in Operation \cup {None} /\ current \subseteq Sessions
  BY DEF TypeOK, RestType
<1>1. ASSUME NEW p \in Paths, Edit(p) PROVE RestType'
  BY <1>a, <1>1, Assumptions DEF Edit
<1>2. ASSUME NEW s \in Sessions, TakeRole(s) \/ ReadGeneration(s) \/ Load(s) \/ Install(s)
      PROVE  RestType'
  BY <1>a, <1>2 DEF TakeRole, ReadGeneration, Load, Install
<1>b. op # None => op.paths \in SUBSET Paths /\ op.batch \in SUBSET Paths
  BY <1>a DEF Operation
<1>c. op # None => Touched \in SUBSET Paths /\ LeftBehind \in SUBSET Paths
  BY <1>b DEF Touched, LeftBehind
<1>3. ASSUME NEW s \in Sessions, End(s) PROVE RestType'
  BY <1>a, <1>c, <1>3, FaultCount DEF End, Holds
<1>4. ASSUME NEW s \in Sessions, NEW answered \in SUBSET Paths, NEW unread \in SUBSET Paths,
             ApplyEdits(s, answered, unread)
      PROVE  RestType'
  BY <1>a, <1>4, FaultCount DEF ApplyEdits, TakenPending
<1>5. ASSUME NEW w \in Servers \cup Commands,
             NEW unread \in SUBSET Paths, NEW dropped \in SUBSET Paths,
             Update(w, unread, dropped) \/ UpdateUntouched(w, unread, dropped)
      PROVE  RestType'
  BY <1>a, <1>5, FaultCount, WhatAWalkFinds DEF Update, UpdateUntouched, WalkFaults
<1>6. ASSUME NEW w \in Sessions \cup Commands, NEW unread \in SUBSET Paths, Build(w, unread)
      PROVE  RestType'
  BY <1>a, <1>6, FaultCount DEF Build
<1>7. ASSUME SaveIndex \/ SaveLedger PROVE RestType'
  BY <1>a, <1>7 DEF SaveIndex, SaveLedger
<1>8. ASSUME SaveFails PROVE RestType'
  BY <1>a, <1>b, <1>c, <1>8, FaultCount DEF SaveFails
<1>9. ASSUME Publish PROVE RestType'
  <2>1. PublishedStray \in SUBSET Paths
    BY <1>a DEF PublishedStray, Astray
  <2> QED BY <1>a, <1>9, <2>1 DEF Publish
<1>10. ASSUME Compact \/ WatchWalkRefused \/ EndCommand PROVE RestType'
  BY <1>a, <1>c, <1>10, FaultCount DEF Compact, WatchWalkRefused, EndCommand
<1>11. ASSUME WatchFails PROVE RestType'
  BY <1>a, <1>b, <1>c, <1>11, FaultCount DEF WatchFails
<1>12. ASSUME NEW unread \in SUBSET Paths, NEW dropped \in SUBSET Paths,
              WatchWalks(unread, dropped)
       PROVE  RestType'
  BY <1>a, <1>12, FaultCount, WhatAWalkFinds DEF WatchWalks, WalkFaults
<1> QED BY <1>1, <1>2, <1>3, <1>4, <1>5, <1>6, <1>7, <1>8, <1>9, <1>10, <1>11, <1>12 DEF Next

\* Every state has its types.
LEMMA TypesHold == Spec => []TypeOK
<1>1. Init => TypeOK
  BY Assumptions DEF Init, TypeOK
<1>2. TypeOK /\ [Next]_vars => TypeOK'
  <2>1. ASSUME TypeOK, Next PROVE TypeOK'
    <3>1. MapType' /\ MemType' /\ CopyType' /\ CurrentType' /\ OpType' /\ RestType'
      BY <2>1, MapStep, MemStep, CopyStep, CurrentStep, OpStep, RestStep
    <3> QED BY <3>1, TypeParts DEF TypeOK, MapType, MemType, CopyType, CurrentType, OpType,
                                   RestType, Reload
  <2>2. ASSUME TypeOK, UNCHANGED vars PROVE TypeOK'
    BY <2>2 DEF TypeOK, vars, disk, bounds
  <2> QED BY <2>1, <2>2
<1> QED BY <1>1, <1>2, PTL DEF Spec
-----------------------------------------------------------------------------
(* The inductive invariant *)

\* Nobody writes, or the writer only merges what it has published.
Quiet == op = None \/ op.at = "compact"

\* Someone writes, and no unpublished write escaped it.  Of one that missed a
\* write nothing is known until it ends.
Sound == op # None /\ op.at # "compact" /\ op.who \notin missed

\* Whose operation can be where.
WhoWrites ==
  op # None =>
    /\ op.at = "compact" => op.who \in Servers /\ op.who \in current \ missed
    /\ op.at \in {"walked", "refused"} => op.kind = "edits" /\ op.who \in Watchers
    /\ op.covers => role = op.who
    /\ op.who \in Sessions => copy[op.who] = None
    /\ op.who \in Watchers => role = op.who /\ mem[op.who] # None
    /\ op.kind = "edits" => role = op.who

\* A watch that has not loaded anything yet is not told of edits: it still has
\* to walk the tree.
StartedOwes == role \in Watchers /\ mem[role] = None => role \in owed

\* At rest, off the paths that an accident left wrong: the ledger claims what
\* the index holds, those who are current hold the index and its ledger, so
\* does a copy that is going to be current, and what the role holder has no
\* edit pending for is as the tree has it.
LedgerAtRest == \A p \in Paths \ stray : ledger[p] = index[p]
MemoryAtRest ==
  \A s \in current \ missed : \A p \in Paths \ stray :
    /\ mem[s].text[p] = index[p]
    /\ mem[s].ledger # None => mem[s].ledger[p] = ledger[p]
CopiesAtRest ==
  \A s \in Sessions :
    copy[s] # None /\ copy[s].cur /\ ~copy[s].missed /\ copy[s].text # None =>
      \A p \in Paths \ stray : copy[s].text[p] = index[p]
FreshAtRest ==
  role # None /\ role \notin owed =>
    \A p \in Paths \ (pending[role] \cup stray) : index[p] = tree[p]
AtRest == LedgerAtRest /\ MemoryAtRest /\ CopiesAtRest /\ FreshAtRest

\* While an operation writes, off those paths: what it has not saved differs
\* from the disk only where it set out to change it, what it has saved is on
\* disk, its two maps agree, a batch is in its session's memory too, and what
\* the role holder has no edit pending for is as the tree has it.
ToSave ==
  /\ op.at = "text" =>
       \A p \in Paths \ (op.paths \cup stray) : index[p] = op.text[p] /\ ledger[p] = op.ledger[p]
  /\ op.at = "ledger" =>
       /\ \A p \in Paths \ stray : index[p] = op.text[p]
       /\ \A p \in Paths \ (op.paths \cup stray) : ledger[p] = op.ledger[p]
  /\ op.at \in {"commit", "walked", "refused"} =>
       \A p \in Paths \ stray : index[p] = op.text[p] /\ ledger[p] = op.ledger[p]
Agreed == \A p \in Paths \ stray : op.text[p] = op.ledger[p]
InMemory ==
  op.kind = "edits" =>
    /\ mem[op.who] # None /\ mem[op.who].ledger # None
    /\ \A p \in Paths \ stray : /\ mem[op.who].text[p] = op.text[p]
                                /\ mem[op.who].ledger[p] = op.ledger[p]
FreshToSave ==
  role # None /\ (op.covers \/ role \notin owed) =>
    \A p \in Paths \ (pending[role] \cup stray) : op.text[p] = tree[p]
Writing == ToSave /\ Agreed /\ InMemory /\ FreshToSave

Consistent == (Quiet => AtRest) /\ (Sound => Writing)

IInv == WhoWrites /\ StartedOwes /\ Consistent
-----------------------------------------------------------------------------
(* Who writes *)

\* What is known of an operation by its type.
LEMMA WriterTypes ==
  ASSUME TypeOK, op # None
  PROVE  /\ op \in Operation /\ op.who \in Sessions \cup Commands
         /\ op.who \in Servers \/ op.who \in Watchers \/ op.who \in Commands
         /\ op.paths \in SUBSET Paths /\ op.text \in Map /\ op.ledger \in Map
         /\ op.at \in Stages /\ op.covers \in BOOLEAN
         /\ op.who \in Commands => op.who \notin missed
<1>1. op \in Operation
  BY DEF TypeOK
<1>2. missed \subseteq Sessions
  BY DEF TypeOK
<1> QED BY <1>1, <1>2, NoneIsNobody DEF Operation, Sessions

\* A publication leaves the reloads that are under way under way.
LEMMA SameReloads ==
  /\ \A who : Bump(who) => \A s \in Sessions : copy[s] = None => copy'[s] = None
  /\ \A gone : NotPublished(gone) => \A s \in Sessions : copy[s] = None => copy'[s] = None
BY DEF Bump, NotPublished

\* Each action leaves an operation with who may hold it there.
LEMMA WhoWritesStep ==
  ASSUME TypeOK, WhoWrites, StartedOwes, Next
  PROVE  WhoWrites'
<1> USE DEF WhoWrites
<1>a. /\ op # None => /\ op \in Operation /\ op.who \in Sessions \cup Commands
                      /\ op.who \in Servers \/ op.who \in Watchers \/ op.who \in Commands
      /\ None \notin Sessions \cup Commands /\ Commands \cap Sessions = {}
      /\ Servers \cap Watchers = {} /\ Sessions = Servers \cup Watchers
      /\ missed \subseteq current
  BY WriterTypes, NoneIsNobody DEF Sessions, TypeOK
<1>b. OpType' /\ MemType' /\ CopyType /\ MemType
  BY OpStep, MemStep DEF TypeOK, CopyType, MemType, Reload
<1>1. ASSUME NEW p \in Paths, Edit(p) PROVE WhoWrites'
  BY <1>1 DEF Edit
<1>2. ASSUME NEW s \in Sessions, TakeRole(s) PROVE WhoWrites'
  BY <1>a, <1>2 DEF TakeRole
<1>3. ASSUME NEW s \in Sessions, ReadGeneration(s) \/ Load(s) PROVE WhoWrites'
  BY <1>a, <1>b, <1>3 DEF ReadGeneration, Load, Holds, CopyType
<1>4. ASSUME NEW s \in Sessions, Install(s) PROVE WhoWrites'
  BY <1>a, <1>b, <1>4 DEF Install, CopyType, MemType
<1>5. ASSUME NEW s \in Sessions, End(s) PROVE WhoWrites'
  <2>1. CASE Holds(s)
    BY <1>5, <2>1 DEF End
  <2>2. CASE ~Holds(s) /\ op # None
    BY <1>a, <1>b, <1>5, <2>2 DEF End, Holds, CopyType, MemType
  <2>3. CASE op = None
    BY <1>5, <2>3 DEF End, Holds
  <2> QED BY <2>1, <2>2, <2>3
<1>6. ASSUME NEW s \in Sessions, NEW answered \in SUBSET Paths, NEW unread \in SUBSET Paths,
             ApplyEdits(s, answered, unread)
      PROVE  WhoWrites'
  <2>1. /\ op'.who = s /\ op'.at = "text" /\ op'.covers = FALSE
        /\ mem'[s] = [text   |-> BatchText(s, answered, unread),
                      ledger |-> BatchLedger(s, answered, unread)]
        /\ BatchText(s, answered, unread) \in Map /\ BatchLedger(s, answered, unread) \in Map
    BY <1>b, <1>6, WhatABatchSaves DEF MemType
  <2>2. mem'[s] # None
    BY <2>1, NoneIsNobody DEF Memory
  <2> QED BY <1>a, <1>6, <2>1, <2>2 DEF ApplyEdits, MayWrite
<1>7. ASSUME NEW w \in Servers \cup Commands,
             NEW unread \in SUBSET Paths, NEW dropped \in SUBSET Paths,
             Update(w, unread, dropped) \/ UpdateUntouched(w, unread, dropped)
      PROVE  WhoWrites'
  <2>1. CASE Update(w, unread, dropped)
    <3>1. /\ op'.who = w /\ op'.at = "text" /\ op'.kind = "update" /\ op'.covers = (role = w)
          /\ w \in Sessions => copy[w] = None
      BY <1>a, <2>1 DEF Update, MayWrite
    <3> QED BY <1>a, <2>1, <3>1 DEF Update
  <2>2. CASE UpdateUntouched(w, unread, dropped)
    BY <2>2 DEF UpdateUntouched, MayWrite
  <2> QED BY <1>7, <2>1, <2>2
<1>8. ASSUME NEW w \in Sessions \cup Commands, NEW unread \in SUBSET Paths, Build(w, unread)
      PROVE  WhoWrites'
  BY <1>a, <1>8 DEF Build, MayWrite
<1>9. ASSUME SaveIndex \/ SaveLedger PROVE WhoWrites'
  BY <1>a, <1>9 DEF SaveIndex, SaveLedger, Operation
<1>10. ASSUME SaveFails PROVE WhoWrites'
  BY <1>a, <1>10 DEF SaveFails, Operation
<1>11. ASSUME Publish PROVE WhoWrites'
  <2>1. SUFFICES ASSUME op' # None PROVE WhoWrites'
    OBVIOUS
  <2>2. /\ op'.who = op.who /\ op'.at = "compact" /\ op'.kind = "edits" /\ op'.covers = op.covers
        /\ op.who \in Servers /\ role' = role
    BY <1>a, <1>11, <2>1 DEF Publish, Operation
  <2>3. op.who \in current' \ missed' /\ copy'[op.who] = None
    BY <1>a, <1>11, <2>2 DEF Publish, PublishedTo
  <2> QED BY <1>a, <1>11, <2>2, <2>3 DEF Publish
<1>12. ASSUME Compact \/ WatchFails \/ EndCommand PROVE WhoWrites'
  BY <1>12 DEF Compact, WatchFails, EndCommand
<1>13. ASSUME WatchWalkRefused PROVE WhoWrites'
  BY <1>a, <1>13 DEF WatchWalkRefused, Operation
<1>14. ASSUME NEW unread \in SUBSET Paths, NEW dropped \in SUBSET Paths,
              WatchWalks(unread, dropped)
       PROVE  WhoWrites'
  BY <1>a, <1>14 DEF WatchWalks, Operation
<1> QED BY <1>1, <1>2, <1>3, <1>4, <1>5, <1>6, <1>7, <1>8, <1>9, <1>10, <1>11, <1>12, <1>13,
           <1>14 DEF Next

\* Each action leaves a watch that has loaded nothing owing a walk.
LEMMA StartedOwesStep ==
  ASSUME TypeOK, WhoWrites, StartedOwes, Next
  PROVE  StartedOwes'
<1> USE DEF StartedOwes
<1>a. /\ None \notin Sessions \cup Commands /\ Commands \cap Sessions = {}
      /\ Servers \cap Watchers = {} /\ Sessions = Servers \cup Watchers
      /\ MemType /\ MemType'
  BY NoneIsNobody, MemStep DEF Sessions, TypeOK, MemType
<1>1. ASSUME NEW p \in Paths, Edit(p) PROVE StartedOwes'
  BY <1>1 DEF Edit
<1>2. ASSUME NEW s \in Sessions, TakeRole(s) \/ ReadGeneration(s) \/ Load(s) PROVE StartedOwes'
  BY <1>2 DEF TakeRole, ReadGeneration, Load
<1>3. ASSUME NEW s \in Sessions, Install(s) PROVE StartedOwes'
  BY <1>a, <1>3, Installed DEF Install
<1>4. ASSUME NEW s \in Sessions, End(s) PROVE StartedOwes'
  <2>1. role' = None \/ (role' = role /\ role # s)
    BY <1>4 DEF End
  <2> QED BY <1>a, <1>4, <2>1 DEF End, MemType
<1>5. ASSUME NEW s \in Sessions, NEW answered \in SUBSET Paths, NEW unread \in SUBSET Paths,
             ApplyEdits(s, answered, unread)
      PROVE  StartedOwes'
  <2>1. role' = s /\ mem'[s] # None
    BY <1>5, CurrentStep DEF ApplyEdits, CurrentType
  <2> QED BY <2>1
<1>6. ASSUME NEW w \in Servers \cup Commands,
             NEW unread \in SUBSET Paths, NEW dropped \in SUBSET Paths,
             Update(w, unread, dropped)
      PROVE  StartedOwes'
  BY <1>6 DEF Update
<1>7. ASSUME NEW w \in Servers \cup Commands,
             NEW unread \in SUBSET Paths, NEW dropped \in SUBSET Paths,
             UpdateUntouched(w, unread, dropped)
      PROVE  StartedOwes'
  BY <1>a, <1>7 DEF UpdateUntouched, MayUpdate
<1>8. ASSUME NEW w \in Sessions \cup Commands, NEW unread \in SUBSET Paths, Build(w, unread)
      PROVE  StartedOwes'
  BY <1>8 DEF Build
<1>9. ASSUME SaveIndex \/ SaveLedger \/ SaveFails \/ WatchWalkRefused \/ WatchFails \/ EndCommand
      PROVE  StartedOwes'
  BY <1>9 DEF SaveIndex, SaveLedger, SaveFails, WatchWalkRefused, WatchFails, EndCommand
<1>10. ASSUME Publish PROVE StartedOwes'
  <2>1. op.text \in Map /\ op.ledger \in Map
    BY <1>10, WriterTypes DEF Publish
  <2>2. PublishedMemory(op.who) # None
    BY <2>1, NoneIsNobody DEF PublishedMemory, Memory
  <2> QED BY <1>a, <1>10, <2>2 DEF Publish, MemType
<1>11. ASSUME Compact PROVE StartedOwes'
  <2>1. op.who \in Servers
    BY <1>11 DEF Compact, WhoWrites
  <2> QED BY <1>a, <1>11, <2>1 DEF Compact, MemType
<1>12. ASSUME NEW unread \in SUBSET Paths, NEW dropped \in SUBSET Paths,
              WatchWalks(unread, dropped)
       PROVE  StartedOwes'
  BY <1>12 DEF WatchWalks
<1> QED BY <1>1, <1>2, <1>3, <1>4, <1>5, <1>6, <1>7, <1>8, <1>9, <1>10, <1>11, <1>12 DEF Next
-----------------------------------------------------------------------------
(* What the ends of operations, publications and walks leave consistent *)

\* A walk records what the tree has of each path it does not keep as it was.
LEMMA WalkAgrees ==
  ASSUME TypeOK, NEW unread \in SUBSET Paths, NEW dropped \in SUBSET Paths,
         NEW p \in Paths \ Kept(unread, dropped)
  PROVE  /\ Walked(unread, dropped).ledger[p] = tree[p]
         /\ ledger[p] = index[p] => Walked(unread, dropped).text[p] = tree[p]
<1>1. Listed(dropped)[p] = tree[p]
  BY DEF Kept, Listed
<1> QED BY <1>1 DEF Walked

\* A publication makes every copy under way out of date.
LEMMA BumpedCopies ==
  ASSUME TypeOK, NEW who, Bump(who)
  PROVE  CopiesAtRest'
BY DEF TypeOK, Bump, CopiesAtRest

\* A release without one tells apart who still holds what is on disk.
LEMMA ReleasedCopies ==
  ASSUME TypeOK, NEW gone, NotPublished(gone), UNCHANGED disk
  PROVE  /\ CopiesAtRest'
         /\ \A s \in current \ gone : s \notin missed' =>
              /\ s \notin missed /\ mem[s].text = index
              /\ mem[s].ledger # None => mem[s].ledger = ledger
<1>1. CopiesAtRest'
  BY DEF TypeOK, NotPublished, CopiesAtRest, disk
<1> QED BY <1>1 DEF NotPublished

\* An operation that ends, at whatever step, leaves index, ledger and tree in
\* agreement but for the paths that it may have left different.
LEMMA WhatIsLeft ==
  ASSUME TypeOK, IInv, op # None, NEW p \in Paths \ (stray \cup LeftBehind)
  PROVE  /\ ledger[p] = index[p]
         /\ role # None /\ role \notin owed /\ p \notin pending[role] => index[p] = tree[p]
<1>1. CASE op.at = "compact"
  BY <1>1 DEF IInv, Consistent, Quiet, AtRest, LedgerAtRest, FreshAtRest
<1>2. CASE op.at # "compact" /\ op.who \in missed
  BY <1>2 DEF LeftBehind, Touched
<1>3. CASE Sound
  <2>1. Writing /\ op.at \in Stages \ {"compact"}
    BY <1>3, WriterTypes DEF IInv, Consistent, Sound
  <2>2. op.text[p] = op.ledger[p]
    BY <2>1 DEF Writing, Agreed
  <2>3. index[p] = op.text[p] /\ ledger[p] = op.ledger[p]
    <3>1. CASE op.at \in {"text", "ledger"}
      BY <1>3, <2>1, <3>1 DEF Writing, ToSave, LeftBehind, Touched, Sound
    <3>2. CASE op.at \in {"commit", "walked", "refused"}
      BY <2>1, <3>2 DEF Writing, ToSave
    <3> QED BY <2>1, <3>1, <3>2 DEF Stages
  <2>4. role # None /\ role \notin owed /\ p \notin pending[role] => op.text[p] = tree[p]
    BY <2>1 DEF Writing, FreshToSave
  <2> QED BY <2>2, <2>3, <2>4
<1> QED BY <1>1, <1>2, <1>3 DEF Sound

-----------------------------------------------------------------------------
(* Each action keeps what is at rest and what is being written consistent *)

\* An edit is pending for a role holder that no longer owes a walk.
LEMMA EditKeeps ==
  ASSUME TypeOK, IInv, NEW e \in Paths, Edit(e)
  PROVE  Consistent'
<1>1. UNCHANGED <<disk, role, mem, copy, current, op, owed, missed, stray>>
  BY DEF Edit
<1>2. ASSUME role # None, role \notin owed \/ (op # None /\ op.covers),
             NEW p \in Paths \ (pending'[role] \cup stray)
      PROVE  p \notin pending[role] /\ tree'[p] = tree[p]
  <2>1. role \in Sessions /\ pending \in [Sessions -> SUBSET Paths] /\ tree \in Map
    BY <1>2 DEF TypeOK
  <2>2. ~(role \in Watchers /\ mem[role] = None)
    BY <1>2 DEF IInv, WhoWrites, StartedOwes
  <2>3. pending' = [pending EXCEPT ![role] = @ \cup {e}]
    BY <1>2, <2>2 DEF Edit
  <2>4. p # e /\ p \notin pending[role]
    BY <1>2, <2>1, <2>3
  <2> QED BY <2>1, <2>4 DEF Edit, Map
<1>3. Quiet => AtRest'
  <2>1. Quiet => LedgerAtRest' /\ MemoryAtRest' /\ CopiesAtRest'
    BY <1>1 DEF IInv, Consistent, AtRest, LedgerAtRest, MemoryAtRest, CopiesAtRest, disk
  <2>2. Quiet => FreshAtRest'
    BY <1>1, <1>2 DEF IInv, Consistent, AtRest, FreshAtRest, disk
  <2> QED BY <2>1, <2>2 DEF AtRest
<1>4. Sound => Writing'
  <2>1. Sound => ToSave' /\ Agreed' /\ InMemory'
    BY <1>1 DEF IInv, Consistent, Writing, ToSave, Agreed, InMemory, disk
  <2>2. Sound => FreshToSave'
    BY <1>1, <1>2 DEF IInv, Consistent, Writing, FreshToSave, Sound
  <2> QED BY <2>1, <2>2 DEF Writing
<1> QED BY <1>1, <1>3, <1>4 DEF Consistent, Quiet, Sound

\* Who takes the role owes a walk.
LEMMA TakeRoleKeeps ==
  ASSUME TypeOK, IInv, NEW s \in Sessions, TakeRole(s)
  PROVE  Consistent'
<1>1. UNCHANGED <<tree, disk, mem, copy, current, pending, op, missed, stray>>
  BY DEF TakeRole
<1>2. role' \in owed' /\ (op # None => ~op.covers)
  BY WriterTypes, NoneIsNobody DEF TakeRole, IInv, WhoWrites
<1>3. Quiet => AtRest'
  BY <1>1, <1>2 DEF IInv, Consistent, AtRest, LedgerAtRest, MemoryAtRest, CopiesAtRest,
                    FreshAtRest, disk
<1>4. Sound => Writing'
  BY <1>1, <1>2 DEF IInv, Consistent, Writing, ToSave, Agreed, InMemory, FreshToSave, disk, Sound
<1> QED BY <1>1, <1>3, <1>4 DEF Consistent, Quiet, Sound

\* A reload copies the index that is at rest on disk.
LEMMA ReadKeeps ==
  ASSUME TypeOK, IInv, NEW s \in Sessions, ReadGeneration(s) \/ Load(s)
  PROVE  Consistent'
<1>1. UNCHANGED <<tree, disk, role, mem, current, pending, op, owed, missed, stray>>
  BY DEF ReadGeneration, Load
<1>2. Quiet /\ CopiesAtRest => CopiesAtRest'
  <2>1. CASE ReadGeneration(s)
    BY <1>1, <2>1 DEF ReadGeneration, CopiesAtRest, TypeOK, disk
  <2>2. CASE Load(s)
    BY <1>1, <2>2 DEF Load, CopiesAtRest, TypeOK, disk
  <2> QED BY <2>1, <2>2
<1>3. Quiet => AtRest'
  BY <1>1, <1>2 DEF IInv, Consistent, AtRest, LedgerAtRest, MemoryAtRest, FreshAtRest, disk
<1>4. Sound => Writing'
  BY <1>1 DEF IInv, Consistent, Writing, ToSave, Agreed, InMemory, FreshToSave, disk
<1> QED BY <1>1, <1>3, <1>4 DEF Consistent, Quiet, Sound

\* An installed copy that is still current is what is on disk.
LEMMA InstallKeeps ==
  ASSUME TypeOK, IInv, NEW s \in Sessions, Install(s)
  PROVE  Consistent'
<1>1. UNCHANGED <<tree, disk, role, pending, op, owed, stray>>
  BY DEF Install
<1>2. copy[s] # None /\ mem'[s] = [text |-> copy[s].text, ledger |-> LoadedLedger(s)]
      /\ \A t \in Sessions \ {s} : mem'[t] = mem[t]
  BY DEF Install, TypeOK
<1>3. op # None => op.who # s
  BY <1>2 DEF IInv, WhoWrites
<1>4. missed \subseteq Sessions /\ \A t \in (Sessions \cup Commands) \ {s} : t \in missed' <=> t \in missed
  BY DEF Install, TypeOK
<1>5. Sound' <=> Sound
  BY <1>1, <1>3, <1>4, WriterTypes DEF Sound
<1>6. Quiet => AtRest'
  <2>1. Quiet => LedgerAtRest' /\ FreshAtRest'
    BY <1>1 DEF IInv, Consistent, AtRest, LedgerAtRest, FreshAtRest, disk
  <2>2. Quiet => CopiesAtRest'
    BY <1>1 DEF IInv, Consistent, AtRest, CopiesAtRest, Install, TypeOK, disk
  <2>3. ASSUME Quiet, NEW t \in current' \ missed', NEW p \in Paths \ stray
        PROVE  /\ mem'[t].text[p] = index[p]
               /\ mem'[t].ledger # None => mem'[t].ledger[p] = ledger[p]
    <3>1. CASE t = s
      <4>1. copy[s].cur /\ ~copy[s].missed /\ copy[s].text # None
        BY <2>3, <3>1 DEF Install, StillCurrent
      <4>2. copy[s].text[p] = index[p]
        BY <1>2, <2>3, <4>1 DEF IInv, Consistent, AtRest, CopiesAtRest
      <4> QED BY <1>2, <3>1, <4>2 DEF LoadedLedger
    <3>2. CASE t # s
      <4>1. t \in current \ missed /\ mem'[t] = mem[t]
        BY <1>2, <2>3, <3>2 DEF Install, TypeOK
      <4> QED BY <2>3, <4>1 DEF IInv, Consistent, AtRest, MemoryAtRest
    <3> QED BY <3>1, <3>2
  <2>4. Quiet => MemoryAtRest'
    BY <1>1, <2>3 DEF MemoryAtRest, disk
  <2> QED BY <2>1, <2>2, <2>4 DEF AtRest
<1>7. Sound => Writing'
  <2>1. Sound => ToSave' /\ Agreed' /\ FreshToSave'
    BY <1>1 DEF IInv, Consistent, Writing, ToSave, Agreed, FreshToSave, disk
  <2>2. ASSUME Sound PROVE InMemory'
    <3>1. op.kind = "edits" => op.who = role /\ op.who \in Sessions \ {s}
      BY <1>3, <2>2, WriterTypes, NoneIsNobody DEF Sound, IInv, WhoWrites, TypeOK
    <3> QED BY <1>1, <1>2, <2>2, <3>1 DEF IInv, Consistent, Writing, InMemory
  <2> QED BY <2>1, <2>2 DEF Writing
<1> QED BY <1>1, <1>5, <1>6, <1>7 DEF Consistent, Quiet

\* A live batch goes on from an index and a ledger as they are on disk: those
\* its session has in memory, for it is current, or those it reloads.
LEMMA BatchStartsFromDisk ==
  ASSUME TypeOK, IInv, NEW s \in Sessions, op = None, mem[s] # None, s \notin missed,
         NEW p \in Paths \ stray
  PROVE  Refreshed(s).text[p] = index[p] /\ KnownLedger(s)[p] = ledger[p]
<1>1. Quiet
  BY DEF Quiet
<1>2. CASE s \in current
  <2>1. /\ mem[s].text[p] = index[p]
        /\ mem[s].ledger # None => mem[s].ledger[p] = ledger[p]
    BY <1>1, <1>2 DEF IInv, Consistent, AtRest, MemoryAtRest
  <2> QED BY <1>2, <2>1 DEF Refreshed, KnownLedger
<1>3. CASE s \notin current
  <2>1. Refreshed(s) = [text |-> index, ledger |-> LoadedLedger(s)]
    BY <1>3 DEF Refreshed
  <2> QED BY <2>1 DEF KnownLedger, LoadedLedger
<1> QED BY <1>2, <1>3

\* A batch is about to save what it found on disk, but for what it applies.
LEMMA ApplyEditsKeeps ==
  ASSUME TypeOK, IInv, NEW s \in Sessions,
         NEW answered \in SUBSET Paths, NEW unread \in SUBSET Paths,
         ApplyEdits(s, answered, unread)
  PROVE  Consistent'
<1> DEFINE text == BatchText(s, answered, unread)
           recorded == BatchLedger(s, answered, unread)
<1>1. /\ text \in Map /\ recorded \in Map
      /\ mem' = [mem EXCEPT ![s] = [text |-> text, ledger |-> recorded]]
      /\ op' = [who |-> s, kind |-> "edits", at |-> "text", text |-> text, ledger |-> recorded,
                paths |-> answered, batch |-> answered,
                covers |-> FALSE, saved |-> FALSE, committed |-> FALSE]
  BY WhatABatchSaves
<1>2. ~Quiet'
  BY <1>1, WhatABatchSaves, NoneIsNobody DEF Quiet
<1>3. /\ op = None /\ mem[s] # None /\ role = s
      /\ UNCHANGED <<tree, index, ledger, role, owed>> /\ stray' = stray \cup unread
      /\ pending' = [pending EXCEPT ![s] = @ \ answered]
      /\ missed' = missed \/ missed' = missed \ {s}
  BY DEF ApplyEdits, MayWrite, TakenPending, disk
<1>4. s \notin missed' => s \notin missed
  BY DEF ApplyEdits, TypeOK
<1>5. ASSUME s \notin missed', NEW p \in Paths \ stray'
      PROVE  /\ text[p] = recorded[p]
             /\ p \in answered => text[p] = tree[p]
             /\ p \notin answered => text[p] = index[p] /\ recorded[p] = ledger[p]
  <2>1. Refreshed(s).text[p] = index[p] /\ KnownLedger(s)[p] = ledger[p]
    BY <1>3, <1>4, <1>5, BatchStartsFromDisk
  <2>2. ledger[p] = index[p]
    BY <1>3, <1>5 DEF IInv, Consistent, Quiet, AtRest, LedgerAtRest
  <2> QED BY <1>3, <1>5, <2>1, <2>2 DEF BatchText, BatchLedger
<1>6. Sound' => Writing'
  <2> SUFFICES ASSUME Sound' PROVE Writing'
    OBVIOUS
  <2>1. s \notin missed'
    BY <1>1 DEF Sound
  <2>2. ToSave' /\ Agreed'
    BY <1>1, <1>3, <1>5, <2>1 DEF ToSave, Agreed
  <2>3. InMemory'
    <3>1. mem'[s] = [text |-> text, ledger |-> recorded]
      BY <1>1 DEF TypeOK
    <3>2. mem'[s] # None /\ recorded # None
      BY <1>1, <3>1, NoneIsNobody DEF Memory
    <3> QED BY <1>1, <3>1, <3>2 DEF InMemory
  <2>4. FreshToSave'
    <3>1. ASSUME s \notin owed, NEW p \in Paths \ (pending'[s] \cup stray'), p \notin answered
          PROVE  index[p] = tree[p]
      <4>1. p \in Paths \ (pending[s] \cup stray)
        BY <1>3, <3>1 DEF TypeOK
      <4> QED BY <1>3, <3>1, <4>1, NoneIsNobody DEF IInv, Consistent, Quiet, AtRest, FreshAtRest
    <3>2. op'.covers = FALSE /\ op'.text = text
      BY <1>1
    <3> QED BY <1>3, <1>5, <2>1, <3>1, <3>2 DEF FreshToSave
  <2> QED BY <2>2, <2>3, <2>4 DEF Writing
<1> QED BY <1>2, <1>6 DEF Consistent

\* An update is about to save what the tree has.
LEMMA UpdateKeeps ==
  ASSUME TypeOK, IInv, NEW w \in Servers \cup Commands,
         NEW unread \in SUBSET Paths, NEW dropped \in SUBSET Paths,
         Update(w, unread, dropped)
  PROVE  Consistent'
<1>1. /\ op = None /\ op' # None
      /\ op'.who = w /\ op'.at = "text" /\ op'.kind = "update" /\ op'.paths = Paths
      /\ op'.text = Walked(unread, dropped).text /\ op'.ledger = Walked(unread, dropped).ledger
      /\ UNCHANGED <<tree, index, ledger>> /\ stray' = stray \cup Kept(unread, dropped)
  <2>1. w \in Sessions \cup Commands
    BY DEF Sessions
  <2>2. op' \in Operation
    BY <2>1, WhatAWalkFinds, Started DEF Update
  <2> QED BY <2>2, NoneIsNobody DEF Update, MayWrite, disk
<1>2. ASSUME NEW p \in Paths \ stray'
      PROVE  op'.text[p] = tree[p] /\ op'.ledger[p] = tree[p]
  <2>1. ledger[p] = index[p]
    BY <1>1, <1>2 DEF IInv, Consistent, Quiet, AtRest, LedgerAtRest
  <2> QED BY <1>1, <1>2, <2>1, WalkAgrees
<1>3. Writing'
  BY <1>1, <1>2 DEF Writing, ToSave, Agreed, InMemory, FreshToSave
<1> QED BY <1>1, <1>3 DEF Consistent, Quiet

\* An update that finds nothing shows that the index is as the tree has it.
LEMMA UpdateUntouchedKeeps ==
  ASSUME TypeOK, IInv, NEW w \in Servers \cup Commands,
         NEW unread \in SUBSET Paths, NEW dropped \in SUBSET Paths,
         UpdateUntouched(w, unread, dropped)
  PROVE  Consistent'
<1>1. /\ op = None /\ w \in Sessions /\ role = w
      /\ UNCHANGED <<tree, index, ledger, role, copy, pending, op>>
      /\ stray' = stray \cup Kept(unread, dropped)
      /\ mem' = [mem EXCEPT ![w] = [text |-> index, ledger |-> None]]
      /\ current' = current \cup {w} /\ missed' = missed \ {w}
  BY DEF UpdateUntouched, MayWrite, MayUpdate, Sessions, disk
<1>2. ASSUME NEW p \in Paths \ stray'
      PROVE  ledger[p] = index[p] /\ index[p] = tree[p]
  <2>1. ledger[p] = index[p]
    BY <1>1, <1>2 DEF IInv, Consistent, Quiet, AtRest, LedgerAtRest
  <2>2. ledger[p] = tree[p]
    BY <1>1, <1>2, WalkAgrees DEF UpdateUntouched, Untouched
  <2> QED BY <2>1, <2>2
<1>3. LedgerAtRest' /\ FreshAtRest'
  BY <1>1, <1>2 DEF LedgerAtRest, FreshAtRest
<1>4. CopiesAtRest'
  BY <1>1 DEF IInv, Consistent, Quiet, AtRest, CopiesAtRest
<1>5. MemoryAtRest'
  <2>1. ASSUME NEW s \in current' \ missed', NEW p \in Paths \ stray'
        PROVE  /\ mem'[s].text[p] = index[p]
               /\ mem'[s].ledger # None => mem'[s].ledger[p] = ledger[p]
    <3>1. CASE s = w
      BY <1>1, <3>1 DEF TypeOK
    <3>2. CASE s # w
      <4>1. s \in current \ missed /\ mem'[s] = mem[s] /\ p \in Paths \ stray
        BY <1>1, <2>1, <3>2 DEF TypeOK
      <4> QED BY <1>1, <4>1 DEF IInv, Consistent, Quiet, AtRest, MemoryAtRest
    <3> QED BY <3>1, <3>2
  <2> QED BY <1>1, <2>1 DEF MemoryAtRest
<1> QED BY <1>1, <1>3, <1>4, <1>5 DEF Consistent, Sound, AtRest

\* A build is about to save what the tree has.
LEMMA BuildKeeps ==
  ASSUME TypeOK, IInv, NEW w \in Sessions \cup Commands, NEW unread \in SUBSET Paths,
         Build(w, unread)
  PROVE  Consistent'
<1>1. /\ op' # None
      /\ op'.at = "text" /\ op'.kind = "build" /\ op'.paths = Paths
      /\ op'.text = [p \in Paths |-> IF p \in unread THEN None ELSE tree[p]]
      /\ op'.ledger = op'.text
      /\ UNCHANGED tree /\ stray' = stray \cup unread
  <2>1. [p \in Paths |-> IF p \in unread THEN None ELSE tree[p]] \in Map
    BY DEF TypeOK, Map
  <2>2. op' \in Operation
    BY <2>1, Started DEF Build
  <2> QED BY <2>2, NoneIsNobody DEF Build
<1>2. ASSUME NEW p \in Paths \ stray'
      PROVE  op'.text[p] = tree[p] /\ op'.ledger[p] = tree[p]
  BY <1>1, <1>2
<1>3. Writing'
  BY <1>1, <1>2 DEF Writing, ToSave, Agreed, InMemory, FreshToSave
<1> QED BY <1>1, <1>3 DEF Consistent, Quiet

\* Saving the index leaves the ledger to save.
LEMMA SaveIndexKeeps ==
  ASSUME TypeOK, IInv, SaveIndex
  PROVE  Consistent'
<1>1. /\ op # None /\ op.at = "text" /\ op' # None
      /\ op'.who = op.who /\ op'.at = "ledger" /\ op'.kind = op.kind /\ op'.paths = op.paths
      /\ op'.text = op.text /\ op'.ledger = op.ledger /\ op'.covers = op.covers
      /\ index' = op.text
      /\ UNCHANGED <<tree, ledger, role, mem, pending, owed, missed, stray>>
  <2>1. op' \in Operation
    BY GoneOn, WriterTypes DEF SaveIndex
  <2> QED BY <2>1, WriterTypes, NoneIsNobody DEF SaveIndex, Operation
<1>2. Sound' => Sound
  BY <1>1 DEF Sound
<1>3. Sound' => Writing'
  BY <1>1, <1>2 DEF IInv, Consistent, Writing, ToSave, Agreed, InMemory, FreshToSave
<1> QED BY <1>1, <1>3 DEF Consistent, Quiet

\* Saving the ledger leaves nothing to save.
LEMMA SaveLedgerKeeps ==
  ASSUME TypeOK, IInv, SaveLedger
  PROVE  Consistent'
<1>1. /\ op # None /\ op.at = "ledger" /\ op' # None
      /\ op'.who = op.who /\ op'.at = "commit" /\ op'.kind = op.kind /\ op'.paths = op.paths
      /\ op'.text = op.text /\ op'.ledger = op.ledger /\ op'.covers = op.covers
      /\ ledger' = op.ledger
      /\ UNCHANGED <<tree, index, role, mem, pending, owed, missed, stray>>
  <2>1. op' \in Operation
    BY GoneOn, WriterTypes DEF SaveLedger
  <2> QED BY <2>1, WriterTypes, NoneIsNobody DEF SaveLedger, Operation
<1>2. Sound' => Sound
  BY <1>1 DEF Sound
<1>3. Sound' => Writing'
  BY <1>1, <1>2 DEF IInv, Consistent, Writing, ToSave, Agreed, InMemory, FreshToSave
<1> QED BY <1>1, <1>3 DEF Consistent, Quiet

\* What the operation that ends here, at a save, may have left different is
\* marked astray.
LEMMA SaveFailsKeeps ==
  ASSUME TypeOK, IInv, SaveFails
  PROVE  Consistent'
<1>1. /\ op # None /\ op.at \in {"text", "ledger"}
      /\ UNCHANGED <<tree, index, ledger, role, mem, owed>>
      /\ stray' = stray \cup LeftBehind
  BY DEF SaveFails, LeftBehind, disk
<1>2. CASE op.who \in Servers /\ op.kind = "edits"
  <2>1. /\ op' # None
        /\ op'.who = op.who /\ op'.at = "commit" /\ op'.kind = op.kind
        /\ op'.text = op.text /\ op'.ledger = op.ledger /\ op'.covers = op.covers
        /\ UNCHANGED <<pending, missed>>
    <3>1. op' \in Operation
      BY <1>2, GoneOn, WriterTypes, <1>1 DEF SaveFails
    <3> QED BY <1>1, <1>2, <3>1, WriterTypes, NoneIsNobody DEF SaveFails, Operation
  <2>2. ASSUME Sound' PROVE Writing'
    <3>1. Sound /\ Writing
      BY <1>1, <2>1, <2>2 DEF Sound, IInv, Consistent
    <3>2. stray' = stray \cup op.paths
      BY <1>1, <3>1 DEF Sound, LeftBehind, Touched
    <3>3. ToSave'
      BY <1>1, <2>1, <3>1, <3>2 DEF Writing, ToSave
    <3>4. Agreed' /\ InMemory' /\ FreshToSave'
      BY <1>1, <2>1, <3>1, <3>2 DEF Writing, Agreed, InMemory, FreshToSave
    <3> QED BY <3>3, <3>4 DEF Writing
  <2> QED BY <2>1, <2>2 DEF Consistent, Quiet
<1>3. CASE ~(op.who \in Servers /\ op.kind = "edits")
  <2>1. op' = None /\ Bump(None)
    BY <1>3 DEF SaveFails
  <2>2. current' = {} /\ CopiesAtRest'
    BY <2>1, BumpedCopies DEF Bump
  <2>3. role # None => pending[role] \subseteq pending'[role]
    BY <1>1, <1>3, WriterTypes DEF SaveFails, TypeOK
  <2>4. LedgerAtRest' /\ FreshAtRest'
    BY <1>1, <2>3, WhatIsLeft DEF LedgerAtRest, FreshAtRest
  <2>5. MemoryAtRest'
    BY <2>2 DEF MemoryAtRest
  <2> QED BY <2>1, <2>2, <2>4, <2>5 DEF Consistent, Sound, AtRest
<1> QED BY <1>2, <1>3

\* A publication leaves current only its session, with what is on disk; what
\* had gone astray and agrees again is no longer astray.
LEMMA PublishKeeps ==
  ASSUME TypeOK, IInv, Publish
  PROVE  Consistent'
<1>1. /\ op # None /\ op.at \in {"commit", "walked"}
      /\ UNCHANGED <<tree, index, ledger, role, pending>>
      /\ stray' = PublishedStray
      /\ mem' = [s \in Sessions |-> IF s = op.who THEN PublishedMemory(s) ELSE mem[s]]
      /\ current' \subseteq {op.who} \cap Sessions /\ missed' = {}
      /\ owed' = IF op.covers THEN owed \ {op.who} ELSE owed
  BY WriterTypes DEF Publish, PublishedTo, disk
<1>2. op' # None => op'.at = "compact"
  BY <1>1, WriterTypes DEF Publish, Operation
<1>3. ASSUME NEW p \in Paths \ stray'
      PROVE  \/ /\ ledger[p] = index[p] /\ index[p] = tree[p]
                /\ \A s \in current' : /\ mem'[s].text[p] = index[p]
                                       /\ mem'[s].ledger # None => mem'[s].ledger[p] = ledger[p]
             \/ Sound /\ p \notin stray
  <2>1. CASE p \in stray \/ op.who \in missed
    BY <1>1, <1>3, <2>1 DEF PublishedStray, Astray
  <2>2. CASE p \notin stray /\ op.who \notin missed
    BY <1>1, <2>2 DEF Sound
  <2> QED BY <2>1, <2>2
<1>4. ASSUME Sound, NEW p \in Paths \ stray
      PROVE  /\ index[p] = op.text[p] /\ ledger[p] = op.ledger[p] /\ op.text[p] = op.ledger[p]
             /\ role # None /\ role \notin owed' /\ p \notin pending[role] => op.text[p] = tree[p]
  <2>1. Writing
    BY <1>4 DEF IInv, Consistent
  <2>2. role # None /\ role \notin owed' => op.covers \/ role \notin owed
    BY <1>1
  <2> QED BY <1>1, <1>4, <2>1, <2>2 DEF Writing, ToSave, Agreed, FreshToSave
<1>5. LedgerAtRest' /\ FreshAtRest'
  BY <1>1, <1>3, <1>4 DEF LedgerAtRest, FreshAtRest
<1>6. MemoryAtRest'
  <2>1. ASSUME NEW s \in current', NEW p \in Paths \ stray'
        PROVE  /\ mem'[s].text[p] = index[p]
               /\ mem'[s].ledger # None => mem'[s].ledger[p] = ledger[p]
    <3>1. mem'[s].text = op.text /\ mem'[s].ledger \in {None, op.ledger}
      BY <1>1, <2>1 DEF PublishedMemory
    <3> QED BY <1>3, <1>4, <2>1, <3>1
  <2> QED BY <1>1, <2>1 DEF MemoryAtRest
<1>7. CopiesAtRest'
  BY DEF Publish, CopiesAtRest, TypeOK
<1> QED BY <1>2, <1>5, <1>6, <1>7 DEF Consistent, Sound, AtRest

\* A merge changes nothing of what the index holds.
LEMMA CompactKeeps ==
  ASSUME TypeOK, IInv, Compact
  PROVE  Consistent'
<1>1. /\ op # None /\ Quiet /\ op.who \in Sessions
      /\ op' = None /\ UNCHANGED <<tree, index, ledger, role, pending, owed, stray>>
  BY DEF Compact, Quiet, IInv, WhoWrites, Sessions, disk
<1>2. AtRest
  BY <1>1 DEF IInv, Consistent
<1>3. LedgerAtRest' /\ FreshAtRest'
  BY <1>1, <1>2 DEF AtRest, LedgerAtRest, FreshAtRest
<1>4. CASE mem' = [mem EXCEPT ![op.who] = [text |-> index, ledger |-> None]] /\ Bump(op.who)
  <2>1. current' \subseteq {op.who} /\ mem'[op.who] = [text |-> index, ledger |-> None]
    BY <1>1, <1>4 DEF Bump, TypeOK
  <2>2. MemoryAtRest'
    BY <1>1, <2>1 DEF MemoryAtRest
  <2> QED BY <1>1, <1>3, <1>4, <2>2, BumpedCopies DEF Consistent, Sound, AtRest
<1>5. CASE Bump(None)
  <2>1. MemoryAtRest'
    BY <1>5 DEF Bump, MemoryAtRest
  <2> QED BY <1>1, <1>3, <1>5, <2>1, BumpedCopies DEF Consistent, Sound, AtRest
<1>6. CASE UNCHANGED <<mem, current, copy, missed>>
  <2>1. MemoryAtRest' /\ CopiesAtRest'
    BY <1>1, <1>2, <1>6 DEF AtRest, MemoryAtRest, CopiesAtRest
  <2> QED BY <1>1, <1>3, <2>1 DEF Consistent, Sound, AtRest
<1> QED BY <1>4, <1>5, <1>6 DEF Compact

\* A watch that walks under its hold saves what the tree has, or finds it saved.
LEMMA WatchWalksKeeps ==
  ASSUME TypeOK, IInv, NEW unread \in SUBSET Paths, NEW dropped \in SUBSET Paths,
         WatchWalks(unread, dropped)
  PROVE  Consistent'
<1>1. /\ op # None /\ op.at = "commit" /\ op.kind = "edits" /\ op \in Operation
      /\ UNCHANGED <<tree, index, ledger, role, mem, pending, owed, missed>>
      /\ stray' = stray \cup Kept(unread, dropped)
      /\ op.who \in Sessions /\ role = op.who
  BY WriterTypes DEF WatchWalks, IInv, WhoWrites, Sessions, disk
<1>2. ASSUME Sound, NEW p \in Paths \ stray
      PROVE  /\ ledger[p] = index[p] /\ index[p] = op.text[p] /\ ledger[p] = op.ledger[p]
  BY <1>1, <1>2 DEF IInv, Consistent, Writing, ToSave, Agreed
<1>3. ASSUME Sound, NEW p \in Paths \ stray'
      PROVE  /\ Walked(unread, dropped).ledger[p] = tree[p]
             /\ Walked(unread, dropped).text[p] = tree[p]
  BY <1>1, <1>2, <1>3, WalkAgrees
<1>4. CASE Untouched(unread, dropped)
  <2>1. op' = [op EXCEPT !.at = "walked", !.committed = TRUE, !.text = index, !.ledger = ledger]
    BY <1>4 DEF WatchWalks
  <2>2. /\ op' # None /\ op'.who = op.who /\ op'.at = "walked" /\ op'.kind = "edits"
        /\ op'.text = index /\ op'.ledger = ledger
    <3>1. index \in Map /\ ledger \in Map
      BY DEF TypeOK
    <3>2. op' \in Operation
      BY <1>1, <2>1, <3>1 DEF Operation, Stages
    <3> QED BY <1>1, <2>1, <3>2, NoneIsNobody DEF Operation
  <2>3. ASSUME Sound' PROVE Writing'
    <3>1. Sound /\ Writing
      BY <1>1, <2>2, <2>3 DEF Sound, IInv, Consistent
    <3>2. ToSave' /\ Agreed'
      BY <1>1, <1>2, <2>2, <3>1 DEF ToSave, Agreed
    <3>3. InMemory'
      BY <1>1, <1>2, <2>2, <3>1 DEF Writing, InMemory
    <3>4. FreshToSave'
      BY <1>1, <1>2, <1>3, <1>4, <2>2, <3>1 DEF FreshToSave, Untouched
    <3> QED BY <3>2, <3>3, <3>4 DEF Writing
  <2> QED BY <2>2, <2>3 DEF Consistent, Quiet
<1>5. CASE ~Untouched(unread, dropped)
  <2>1. /\ op' # None /\ op'.who = op.who /\ op'.at = "text" /\ op'.kind = "update"
        /\ op'.paths = Paths
        /\ op'.text = Walked(unread, dropped).text /\ op'.ledger = Walked(unread, dropped).ledger
    <3>1. op' = [op EXCEPT !.at = "text", !.kind = "update", !.paths = Paths, !.covers = TRUE,
                           !.committed = FALSE, !.text = Walked(unread, dropped).text,
                           !.ledger = Walked(unread, dropped).ledger]
      BY <1>5 DEF WatchWalks
    <3>2. op' \in Operation
      BY <1>1, <3>1, WhatAWalkFinds DEF Operation, Stages
    <3> QED BY <1>1, <3>1, <3>2, NoneIsNobody DEF Operation
  <2>2. Sound' => Sound
    BY <1>1, <2>1 DEF Sound
  <2>3. Sound' => Writing'
    BY <1>1, <1>3, <2>1, <2>2 DEF Writing, ToSave, Agreed, InMemory, FreshToSave
  <2> QED BY <2>1, <2>3 DEF Consistent, Quiet
<1> QED BY <1>4, <1>5

\* A refused walk leaves what was saved saved.
LEMMA WatchWalkRefusedKeeps ==
  ASSUME TypeOK, IInv, WatchWalkRefused
  PROVE  Consistent'
<1>1. /\ op # None /\ op.at = "commit" /\ op' # None
      /\ op'.who = op.who /\ op'.at = "refused" /\ op'.kind = op.kind
      /\ op'.text = op.text /\ op'.ledger = op.ledger /\ op'.covers = op.covers
      /\ UNCHANGED <<tree, index, ledger, role, mem, pending, owed, missed, stray>>
  <2>1. op' \in Operation
    BY GoneOn, WriterTypes DEF WatchWalkRefused
  <2> QED BY <2>1, WriterTypes, NoneIsNobody DEF WatchWalkRefused, Operation, disk
<1>2. Sound' => Sound
  BY <1>1 DEF Sound
<1>3. Sound' => Writing'
  BY <1>1, <1>2 DEF IInv, Consistent, Writing, ToSave, Agreed, InMemory, FreshToSave
<1> QED BY <1>1, <1>3 DEF Consistent, Quiet

\* The session whose batch failed still has in memory what it saved.
LEMMA WatchFailsKeeps ==
  ASSUME TypeOK, IInv, WatchFails
  PROVE  Consistent'
<1>1. /\ op # None /\ op.at \in {"walked", "refused"} /\ op' = None
      /\ op.kind = "edits" /\ op.who \in Sessions
      /\ UNCHANGED <<tree, index, ledger, role, mem, owed>>
      /\ pending' = [pending EXCEPT ![op.who] = @ \cup op.batch]
      /\ stray' = stray \cup LeftBehind
  BY DEF WatchFails, IInv, WhoWrites, Sessions, disk
<1>2. role # None => pending[role] \subseteq pending'[role]
  BY <1>1 DEF TypeOK
<1>3. LedgerAtRest' /\ FreshAtRest'
  BY <1>1, <1>2, WhatIsLeft DEF LedgerAtRest, FreshAtRest
<1>4. CASE op.committed
  <2>1. UNCHANGED current /\ NotPublished({op.who})
    BY <1>4 DEF WatchFails
  <2>2. ASSUME NEW s \in current \ missed', NEW p \in Paths \ stray'
        PROVE  /\ mem[s].text[p] = index[p]
               /\ mem[s].ledger # None => mem[s].ledger[p] = ledger[p]
    <3>1. CASE s = op.who
      <4>1. Sound /\ p \notin stray
        BY <1>1, <2>2 DEF LeftBehind, Touched, Sound
      <4>2. /\ index[p] = op.text[p] /\ ledger[p] = op.ledger[p]
            /\ mem[s].text[p] = op.text[p] /\ mem[s].ledger[p] = op.ledger[p]
        BY <1>1, <2>2, <3>1, <4>1 DEF IInv, Consistent, Writing, ToSave, InMemory
      <4> QED BY <4>2
    <3>2. CASE s # op.who
      BY <1>1, <2>1, <2>2, <3>2, ReleasedCopies DEF disk
    <3> QED BY <3>1, <3>2
  <2>3. MemoryAtRest'
    BY <1>1, <2>1, <2>2 DEF MemoryAtRest
  <2>4. CopiesAtRest'
    BY <1>1, <2>1, ReleasedCopies DEF disk
  <2> QED BY <1>1, <1>3, <2>3, <2>4 DEF Consistent, Sound, AtRest
<1>5. CASE ~op.committed
  <2>1. Bump(None)
    BY <1>5 DEF WatchFails
  <2>2. MemoryAtRest'
    BY <2>1 DEF Bump, MemoryAtRest
  <2> QED BY <1>1, <1>3, <2>1, <2>2, BumpedCopies DEF Consistent, Sound, AtRest
<1> QED BY <1>4, <1>5

\* The end of a session leaves who still holds what is on disk current.
LEMMA EndKeeps ==
  ASSUME TypeOK, IInv, NEW s \in Sessions, End(s)
  PROVE  Consistent'
<1>1. /\ UNCHANGED <<tree, index, ledger>>
      /\ mem' = [mem EXCEPT ![s] = None] /\ current' = current \ {s}
      /\ owed' = owed \ {s} /\ pending' = [pending EXCEPT ![s] = {}]
      /\ role' = None \/ (role' = role /\ role # s)
  BY DEF End, disk
<1>2. \A t \in Sessions \ {s} : mem'[t] = mem[t] /\ pending'[t] = pending[t]
  BY <1>1 DEF TypeOK
<1>3. ASSUME role' # None, role' \notin owed'
      PROVE  role # None /\ role' = role /\ role \notin owed /\ pending'[role] = pending[role]
  BY <1>1, <1>2, <1>3 DEF TypeOK
<1>4. CASE Holds(s)
  <2>1. op # None /\ op' = None /\ stray' = stray \cup LeftBehind /\ NotPublished({s})
    BY <1>4 DEF End, Holds
  <2>2. LedgerAtRest' /\ FreshAtRest'
    BY <1>1, <1>3, <2>1, WhatIsLeft DEF LedgerAtRest, FreshAtRest
  <2>3. MemoryAtRest'
    <3>1. ASSUME NEW t \in current' \ missed'
          PROVE  mem'[t].text = index /\ (mem'[t].ledger # None => mem'[t].ledger = ledger)
      <4>1. t \in current \ {s} /\ t \in Sessions \ {s}
        BY <1>1, <3>1 DEF TypeOK
      <4> QED BY <1>1, <1>2, <2>1, <3>1, <4>1, ReleasedCopies DEF disk
    <3> QED BY <1>1, <3>1 DEF MemoryAtRest
  <2>4. CopiesAtRest'
    BY <1>1, <2>1, ReleasedCopies DEF disk
  <2> QED BY <2>1, <2>2, <2>3, <2>4 DEF Consistent, Sound, AtRest
<1>5. CASE ~Holds(s)
  <2>1. /\ UNCHANGED <<op, stray>> /\ missed' = missed \ {s}
        /\ copy' = [copy EXCEPT ![s] = None]
        /\ op # None => op.who # s
    BY <1>5 DEF End, Holds
  <2>2. Sound' <=> Sound
    BY <2>1, WriterTypes DEF Sound
  <2>3. ASSUME Quiet PROVE AtRest'
    <3>1. AtRest
      BY <2>3 DEF IInv, Consistent
    <3>2. LedgerAtRest' /\ FreshAtRest'
      BY <1>1, <1>3, <2>1, <3>1 DEF AtRest, LedgerAtRest, FreshAtRest
    <3>3. MemoryAtRest'
      BY <1>1, <1>2, <2>1, <3>1 DEF AtRest, MemoryAtRest, TypeOK
    <3>4. CopiesAtRest'
      BY <1>1, <2>1, <3>1 DEF AtRest, CopiesAtRest, TypeOK
    <3> QED BY <3>2, <3>3, <3>4 DEF AtRest
  <2>4. ASSUME Sound PROVE Writing'
    <3>1. Writing
      BY <2>4 DEF IInv, Consistent
    <3>2. ToSave' /\ Agreed'
      BY <1>1, <2>1, <3>1 DEF Writing, ToSave, Agreed
    <3>3. InMemory'
      <4>1. op.kind = "edits" => op.who \in Sessions \ {s}
        BY <2>1, <2>4, WriterTypes, NoneIsNobody DEF Sound, IInv, WhoWrites, TypeOK
      <4> QED BY <1>2, <2>1, <3>1, <4>1 DEF Writing, InMemory
    <3>4. FreshToSave'
      <4>1. op.covers => role = op.who
        BY <2>4 DEF Sound, IInv, WhoWrites
      <4>2. ASSUME role' # None, op.covers \/ role' \notin owed'
            PROVE  /\ role # None /\ role' = role
                   /\ op.covers \/ role \notin owed
                   /\ pending'[role'] = pending[role]
        BY <1>1, <1>2, <4>2 DEF TypeOK
      <4> QED BY <1>1, <2>1, <3>1, <4>2 DEF Writing, FreshToSave
    <3> QED BY <3>2, <3>3, <3>4 DEF Writing
  <2> QED BY <2>1, <2>2, <2>3, <2>4 DEF Consistent, Quiet
<1> QED BY <1>4, <1>5

\* The end of a command leaves who still holds what is on disk current.
LEMMA EndCommandKeeps ==
  ASSUME TypeOK, IInv, EndCommand
  PROVE  Consistent'
<1>1. /\ op # None /\ op' = None /\ UNCHANGED <<tree, index, ledger, role, mem, current, pending, owed>>
      /\ stray' = stray \cup LeftBehind /\ NotPublished({})
  BY DEF EndCommand, disk
<1>2. LedgerAtRest' /\ FreshAtRest'
  BY <1>1, WhatIsLeft DEF LedgerAtRest, FreshAtRest
<1>3. MemoryAtRest' /\ CopiesAtRest'
  BY <1>1, ReleasedCopies DEF MemoryAtRest, disk
<1> QED BY <1>1, <1>2, <1>3 DEF Consistent, Sound, AtRest

-----------------------------------------------------------------------------
(* The theorems *)

\* The invariant is inductive.
LEMMA IInvStep ==
  ASSUME TypeOK, IInv, Next
  PROVE  IInv'
<1>1. WhoWrites' /\ StartedOwes'
  BY WhoWritesStep, StartedOwesStep DEF IInv
<1>2. Consistent'
  BY EditKeeps, TakeRoleKeeps, ReadKeeps, InstallKeeps, EndKeeps, ApplyEditsKeeps, UpdateKeeps,
     UpdateUntouchedKeeps, BuildKeeps, SaveIndexKeeps, SaveLedgerKeeps, SaveFailsKeeps,
     PublishKeeps, CompactKeeps, WatchWalksKeeps, WatchWalkRefusedKeeps, WatchFailsKeeps,
     EndCommandKeeps DEF Next
<1> QED BY <1>1, <1>2 DEF IInv

\* The inductive invariant holds of every behaviour.
LEMMA IInvHolds == Spec => []IInv
<1>1. Init => IInv
  <2> SUFFICES ASSUME Init PROVE IInv
    OBVIOUS
  <2>1. WhoWrites /\ StartedOwes
    BY NoneIsNobody DEF Init, WhoWrites, StartedOwes, Sessions
  <2>2. AtRest
    BY DEF Init, AtRest, LedgerAtRest, MemoryAtRest, CopiesAtRest, FreshAtRest
  <2> QED BY <2>1, <2>2 DEF Init, IInv, Consistent, Sound
<1>2. TypeOK /\ IInv /\ [Next]_vars => IInv'
  <2>1. ASSUME TypeOK, IInv, Next PROVE IInv'
    BY <2>1, IInvStep
  <2>2. ASSUME IInv, UNCHANGED vars PROVE IInv'
    BY <2>2 DEF vars, disk, bounds, IInv, WhoWrites, StartedOwes, Consistent, Quiet, Sound,
                AtRest, LedgerAtRest, MemoryAtRest, CopiesAtRest, FreshAtRest,
                Writing, ToSave, Agreed, InMemory, FreshToSave
  <2> QED BY <2>1, <2>2
<1> QED BY <1>1, <1>2, TypesHold, PTL DEF Spec

\* Every state of the shared cache has its types: who is current has an index
\* loaded, and an operation is one of the kinds and steps the code has.
THEOREM TypeCorrect == Spec => []TypeOK
BY TypesHold

\* A session whose _loadedGen equals the generation on disk serves the index
\* that is on disk (MaybeReloadExternal compares nothing else), for any number
\* of servers, watches, commands, paths, edits and faults.
THEOREM CurrentServesDiskHolds == Spec => []CurrentServesDisk
<1>1. IInv => CurrentServesDisk
  BY DEF IInv, Consistent, Quiet, AtRest, MemoryAtRest, CurrentServesDisk
<1> QED BY <1>1, IInvHolds, PTL

\* The ledger on disk claims exactly what the saved index holds, whatever
\* interleaving of batches, updates, builds and reloads led there (SaveAll
\* writes the index first and the ledger last).
THEOREM LedgerMatchesIndexHolds == Spec => []LedgerMatchesIndex
<1>1. IInv => LedgerMatchesIndex
  BY DEF IInv, Consistent, Quiet, AtRest, LedgerAtRest, LedgerMatchesIndex
<1> QED BY <1>1, IInvHolds, PTL

\* Once the role holder has walked the tree, every path without a pending edit
\* is in the index as it is in the tree: no edit is lost between the watcher,
\* a batch that fails and one that another process overtakes.
THEOREM LiveIndexIsFreshHolds == Spec => []LiveIndexIsFresh
<1>1. IInv => LiveIndexIsFresh
  BY DEF IInv, Consistent, Quiet, AtRest, FreshAtRest, LiveIndexIsFresh
<1> QED BY <1>1, IInvHolds, PTL

\* Only a save of the index changes it.
LEMMA OnlySaves ==
  ASSUME Next, index' # index
  PROVE  SaveIndex
<1> USE DEF disk
<1>1. ASSUME NEW p \in Paths, Edit(p) PROVE FALSE
  BY <1>1 DEF Edit
<1>2. ASSUME NEW s \in Sessions,
             TakeRole(s) \/ ReadGeneration(s) \/ Load(s) \/ Install(s) \/ End(s)
      PROVE  FALSE
  BY <1>2 DEF TakeRole, ReadGeneration, Load, Install, End
<1>3. ASSUME NEW s \in Sessions, NEW answered \in SUBSET Paths, NEW unread \in SUBSET Paths,
             ApplyEdits(s, answered, unread)
      PROVE  FALSE
  BY <1>3 DEF ApplyEdits
<1>4. ASSUME NEW w \in Servers \cup Commands,
             NEW unread \in SUBSET Paths, NEW dropped \in SUBSET Paths,
             Update(w, unread, dropped) \/ UpdateUntouched(w, unread, dropped)
      PROVE  FALSE
  BY <1>4 DEF Update, UpdateUntouched
<1>5. ASSUME NEW w \in Sessions \cup Commands, NEW unread \in SUBSET Paths, Build(w, unread)
      PROVE  FALSE
  BY <1>5 DEF Build
<1>6. ASSUME SaveLedger \/ SaveFails \/ Publish \/ Compact \/ WatchWalkRefused \/ WatchFails
                \/ EndCommand
      PROVE  FALSE
  BY <1>6 DEF SaveLedger, SaveFails, Publish, Compact, WatchWalkRefused, WatchFails, EndCommand
<1>7. ASSUME NEW unread \in SUBSET Paths, NEW dropped \in SUBSET Paths,
             WatchWalks(unread, dropped)
      PROVE  FALSE
  BY <1>7 DEF WatchWalks
<1> QED BY <1>1, <1>2, <1>3, <1>4, <1>5, <1>6, <1>7 DEF Next

\* No save of the index reverts what another process wrote: of the paths its
\* operation did not set out to change it writes what is on disk
\* (RefreshIfStaleLocked reloads under the lock before it applies).
THEOREM NothingIsReverted == Spec => NoLostUpdate
<1>1. ASSUME IInv, Next, index' # index, op.who \notin missed,
             NEW p \in Paths \ (op.paths \cup stray)
      PROVE  index'[p] = index[p]
  <2>1. op # None /\ op.at = "text" /\ index' = op.text
    BY <1>1, OnlySaves DEF SaveIndex
  <2>2. Sound
    BY <1>1, <2>1 DEF Sound
  <2> QED BY <1>1, <2>1, <2>2 DEF IInv, Consistent, Writing, ToSave
<1>2. IInv /\ [Next]_vars =>
        [index' # index /\ op.who \notin missed =>
           \A p \in Paths \ (op.paths \cup stray) : index'[p] = index[p]]_vars
  BY <1>1
<1> QED BY <1>2, IInvHolds, PTL DEF Spec, NoLostUpdate
=============================================================================

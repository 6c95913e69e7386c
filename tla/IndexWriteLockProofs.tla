------------------------ MODULE IndexWriteLockProofs ------------------------
(***************************************************************************)
(* Proofs about IndexWriteLock, for any number of threads and sessions:    *)
(* its types, and the three properties its run checks.                     *)
(***************************************************************************)
EXTENDS IndexWriteLock, TLAPS

\* A hold says what it wrote only after writing it; what it has published is
\* the generation on disk.
HoldInv ==
  /\ writing => holder # None /\ ~committed /\ ~sourcesUnchanged
  /\ committed => ~dirty
  /\ sourcesUnchanged => ~dirtySources
  /\ lastToken # None => lastToken = gen
  /\ dirtySources => dirty
  /\ batch # None => holder # None /\ ~writing

\* A copy being loaded under the generation on disk is up to date too.
CopyInv ==
  /\ NoMissedReload
  /\ \A r \in Readers :
       copy[r] # None => /\ ~copy[r].loaded => ~copy[r].stale
                         /\ ~dirty /\ ~left /\ copy[r].gen = gen => ~copy[r].stale

\* The session that is about to take a token for its batch has the index it saved,
\* and a model that misses only what a dead holder left.  Only a model that there
\* is was updated in place.
BatchInv ==
  /\ \A r \in inPlace : model[r] # None
  /\ batch # None =>
       /\ copy[batch] = None /\ batch \notin stale
       /\ batch \in behind /\ model[batch] # None => batch \in untold

IInv == TypeOK /\ HoldInv /\ Published /\ CopyInv /\ BatchInv /\ NoStaleModel

USE ConstAssumption DEF ConstAssumption
-----------------------------------------------------------------------------
(* The generation *)

\* The token of a bump is one nobody holds, or the sources token carried.
LEMMA BumpIsFresh ==
  ASSUME TypeOK, NEW carry \in BOOLEAN, Bump(carry)
  PROVE  /\ gen' \in Generation
         /\ gen'.write # gen.write
         /\ \A r \in Readers : loadedGen[r] # gen'
         /\ \A r \in Readers : copy[r] # None => copy[r].gen # gen'
         /\ gen'.sources # None
         /\ \/ carry /\ gen'.sources = gen.sources
            \/ \A r \in Readers : model[r] # gen'.sources
<1>. DEFINE Sources == (Tokens \ HeldSources)
               \cup IF carry /\ gen.sources # None THEN {gen.sources} ELSE {}
<1>0. PICK t \in Tokens \ HeldWrites, u \in Sources : gen' = [write |-> t, sources |-> u]
  BY DEF Bump, Bumped
<1>1. /\ t \in Tokens \ HeldWrites /\ u \in Tokens
      /\ gen' = [write |-> t, sources |-> u]
      /\ u \notin HeldSources \/ (carry /\ u = gen.sources)
  BY <1>0 DEF TypeOK, Generation
<1>2. gen' \in Generation /\ gen'.write = t /\ gen'.sources = u
  BY <1>1 DEF Generation
<1>3. t # gen.write
  BY <1>1, Zenon DEF HeldWrites
<1>4. ASSUME NEW r \in Readers PROVE loadedGen[r] # gen'
  <2>1. CASE loadedGen[r] = None
    BY <1>2, <2>1
  <2>2. CASE loadedGen[r] # None
    <3>1. loadedGen[r].write \in HeldWrites
      BY <2>2, Zenon DEF HeldWrites
    <3> QED BY <1>1, <1>2, <3>1
  <2> QED BY <2>1, <2>2
<1>5. ASSUME NEW r \in Readers, copy[r] # None PROVE copy[r].gen # gen'
  <2>1. copy[r].gen.write \in HeldWrites
    BY <1>5, Zenon DEF HeldWrites
  <2> QED BY <1>1, <1>2, <2>1
<1>6. u # None
  BY <1>1
<1>7. \A r \in Readers : model[r] \in HeldSources
  BY Zenon DEF HeldSources
<1> QED BY <1>1, <1>2, <1>3, <1>4, <1>5, <1>6, <1>7
-----------------------------------------------------------------------------
(* Types *)
\* The initial state is well typed.
LEMMA TypeInit == Init => TypeOK
<1> SUFFICES ASSUME Init PROVE TypeOK
  OBVIOUS
<1>1. depth \in 0 .. MaxDepth
  BY DEF Init
<1>2. gen \in Generation
  BY DEF Init, Generation
<1> QED BY <1>1, <1>2 DEF Init, TypeOK

\* Every step keeps the types.
LEMMA TypeStep == TypeOK /\ [Next]_vars => TypeOK'
<1> SUFFICES ASSUME TypeOK, [Next]_vars PROVE TypeOK'
  OBVIOUS
<1> USE DEF TypeOK
<1>1. CASE UNCHANGED vars
  BY <1>1 DEF vars, hold, sessions
<1>2. ASSUME NEW t \in Threads, Acquire(t) PROVE TypeOK'
  <2>1. depth' \in 0 .. MaxDepth /\ depth' # 0
    BY <1>2 DEF Acquire
  <2>2. holder' \in Threads /\ holder' # None
    BY <1>2 DEF Acquire
  <2> QED BY <1>2, <2>1, <2>2 DEF Acquire, sessions
<1>3. ASSUME NEW t \in Threads, AcquireNested(t) PROVE TypeOK'
  <2>1. depth' \in 0 .. MaxDepth /\ depth' # 0
    BY <1>3 DEF AcquireNested
  <2>2. t # None
    OBVIOUS
  <2> QED BY <1>3, <2>1, <2>2 DEF AcquireNested, sessions, NestedCommitted, NestedCarry
<1>17. Outdated \in [Readers -> Copy \cup {None}]
  <2>1. ASSUME NEW r \in Readers, copy[r] # None
        PROVE  [copy[r] EXCEPT !.stale = TRUE] \in Copy
    <3>1. copy[r] \in Copy
      BY <2>1
    <3> HIDE DEF TypeOK
    <3> QED BY <3>1 DEF Copy
  <2> QED BY <2>1 DEF Outdated
<1>4. ASSUME NEW t \in Threads, NEW s \in BOOLEAN, Write(t, s) PROVE TypeOK'
  BY <1>4, <1>17 DEF Write
<1>18. ASSUME NEW t \in Threads, NEW r \in Readers, NEW s \in BOOLEAN, ApplyBatch(t, r, s) PROVE TypeOK'
  <2>1. /\ model' \in [Readers -> Tokens \cup {None}]
        /\ inPlace' \in SUBSET Readers /\ behind' \in SUBSET Readers
    BY <1>18 DEF ApplyBatch
  <2> QED BY <1>17, <1>18, <2>1 DEF ApplyBatch
<1>5. ASSUME NEW t \in Threads, SkipBump(t) PROVE TypeOK'
  BY <1>5 DEF SkipBump, sessions
<1>6. ASSUME NEW t \in Threads, SourcesUnchanged(t) PROVE TypeOK'
  BY <1>6 DEF SourcesUnchanged, sessions
<1>7. ASSUME NEW t \in Threads, Commit(t) PROVE TypeOK'
  <2>1. CASE AlreadyCommitted
    BY <1>7, <2>1 DEF Commit, sessions, hold
  <2>2. CASE ~AlreadyCommitted
    <3>1. Bump(sourcesUnchanged)
      BY <1>7, <2>2 DEF Commit
    <3>2. gen' \in Generation
      BY <3>1, BumpIsFresh
    <3> QED BY <1>7, <2>2, <3>1, <3>2 DEF Commit, sessions, Bump
  <2> QED BY <2>1, <2>2
<1>8. ASSUME NEW t \in Threads, DisposeNested(t) PROVE TypeOK'
  BY <1>8 DEF DisposeNested, Nested, sessions
<1>9. ASSUME NEW t \in Threads, Dispose(t) PROVE TypeOK'
  <2>1. /\ gen' \in Generation /\ dirty' \in BOOLEAN /\ dirtySources' \in BOOLEAN
        /\ left' \in BOOLEAN /\ untold' \in SUBSET Readers
    <3>1. CASE committed
      BY <1>9, <3>1 DEF Dispose
    <3>2. CASE ~committed
      BY <1>9, <3>2, BumpIsFresh DEF Dispose, Bump
    <3> QED BY <3>1, <3>2
  <2>2. depth' \in 0 .. MaxDepth
    BY <1>9 DEF Dispose, Freed
  <2> QED BY <1>9, <2>1, <2>2 DEF Dispose, Freed, sessions
<1>10. ASSUME NEW t \in Threads, LeaveUnpublished(t) PROVE TypeOK'
  <2>1. depth' \in 0 .. MaxDepth
    BY <1>10 DEF LeaveUnpublished, Freed
  <2> QED BY <1>10, <2>1 DEF LeaveUnpublished, Freed, sessions
<1>11. ASSUME NEW r \in Readers, ReadGeneration(r) PROVE TypeOK'
  <2>1. [gen |-> gen, loaded |-> FALSE, stale |-> FALSE] \in Copy
    BY DEF Copy
  <2> QED BY <1>11, <2>1 DEF ReadGeneration, hold
<1>12. ASSUME NEW r \in Readers, Load(r) PROVE TypeOK'
  <2>1. [copy[r] EXCEPT !.loaded = TRUE] \in Copy
    <3>1. copy[r] \in Copy
      BY <1>12 DEF Load
    <3> HIDE DEF TypeOK
    <3> QED BY <3>1 DEF Copy
  <2> QED BY <1>12, <2>1 DEF Load, hold
<1>13. ASSUME NEW r \in Readers, Install(r) PROVE TypeOK'
  <2>1. copy[r].gen \in Generation
    BY <1>13 DEF Install, Copy
  <2> QED BY <1>13, <2>1 DEF Install, hold, InstalledGen, KeptModel, KeptInPlace
<1>14. ASSUME NEW r \in Readers, SwapCommitted(r) PROVE TypeOK'
  BY <1>14 DEF SwapCommitted, AlreadyCommitted, hold, KeptModel, KeptInPlace
<1>15. ASSUME NEW r \in Readers, TakeCommitted(r) PROVE TypeOK'
  <2>1. lastToken.sources \in Tokens \cup {None}
    BY <1>15 DEF TakeCommitted, AlreadyCommitted, Generation
  <2> QED BY <1>15, <2>1 DEF TakeCommitted, AlreadyCommitted, hold
<1>16. ASSUME NEW r \in Readers, BuildModel(r) PROVE TypeOK'
  <2>1. gen.sources \in Tokens \cup {None}
    BY DEF Generation
  <2> QED BY <1>16, <2>1 DEF BuildModel, hold
<1> QED
  BY <1>1, <1>2, <1>3, <1>4, <1>5, <1>6, <1>7, <1>8, <1>9, <1>10, <1>11, <1>12,
     <1>13, <1>14, <1>15, <1>16, <1>18, Zenon DEF Next

\* Every variable keeps its type: a handle is open exactly while it is nested.
THEOREM TypeCorrect == Spec => []TypeOK
  BY TypeInit, TypeStep, PTL DEF Spec
-----------------------------------------------------------------------------
(* The invariant *)

\* The invariant holds at first.
LEMMA IInvInit == Init => IInv
  BY TypeInit DEF Init, IInv, HoldInv, Published, CopyInv, BatchInv, NoMissedReload, NoStaleModel

\* Every step keeps what a hold knows of its own writes.
LEMMA HoldStep == IInv /\ [Next]_vars => HoldInv' /\ Published'
<1> SUFFICES ASSUME IInv, [Next]_vars PROVE HoldInv' /\ Published'
  OBVIOUS
<1> USE DEF HoldInv, Published
<1>0. TypeOK /\ HoldInv /\ Published
  BY DEF IInv
<1>1. CASE UNCHANGED vars
  BY <1>0, <1>1 DEF vars, hold, sessions
<1>2. ASSUME NEW t \in Threads, Acquire(t) PROVE HoldInv' /\ Published'
  BY <1>0, <1>2 DEF Acquire, TypeOK
<1>3. ASSUME NEW t \in Threads, AcquireNested(t) PROVE HoldInv' /\ Published'
  BY <1>0, <1>3 DEF AcquireNested, NestedCommitted, NestedCarry, TypeOK
<1>4. ASSUME NEW t \in Threads, NEW s \in BOOLEAN, Write(t, s) PROVE HoldInv' /\ Published'
  BY <1>0, <1>4 DEF Write, TypeOK
<1>12. ASSUME NEW t \in Threads, NEW r \in Readers, NEW s \in BOOLEAN, ApplyBatch(t, r, s)
       PROVE  HoldInv' /\ Published'
  BY <1>0, <1>12 DEF ApplyBatch, TypeOK
<1>5. ASSUME NEW t \in Threads, SkipBump(t) PROVE HoldInv' /\ Published'
  BY <1>0, <1>5 DEF SkipBump, TypeOK
<1>6. ASSUME NEW t \in Threads, SourcesUnchanged(t) PROVE HoldInv' /\ Published'
  BY <1>0, <1>6 DEF SourcesUnchanged, TypeOK
<1>7. ASSUME NEW t \in Threads, Commit(t) PROVE HoldInv' /\ Published'
  BY <1>0, <1>7 DEF Commit, AlreadyCommitted, Bump, hold, TypeOK
<1>8. ASSUME NEW t \in Threads, DisposeNested(t) PROVE HoldInv' /\ Published'
  BY <1>0, <1>8 DEF DisposeNested, TypeOK
<1>9. ASSUME NEW t \in Threads, Dispose(t) PROVE HoldInv' /\ Published'
  BY <1>0, <1>9 DEF Dispose, Freed, Bump, TypeOK
<1>10. ASSUME NEW t \in Threads, LeaveUnpublished(t) PROVE HoldInv' /\ Published'
  BY <1>0, <1>10 DEF LeaveUnpublished, Freed, TypeOK
<1>11. ASSUME NEW r \in Readers,
              \/ ReadGeneration(r) \/ Load(r) \/ Install(r) \/ SwapCommitted(r)
              \/ TakeCommitted(r) \/ BuildModel(r)
       PROVE  HoldInv' /\ Published'
  BY <1>0, <1>11 DEF ReadGeneration, Load, Install, SwapCommitted, TakeCommitted, BuildModel, hold
<1> QED
  BY <1>1, <1>2, <1>3, <1>4, <1>5, <1>6, <1>7, <1>8, <1>9, <1>10, <1>11, <1>12, Zenon DEF Next

\* Every step keeps copies of the generation on disk up to date.
LEMMA CopyStep == IInv /\ [Next]_vars => CopyInv'
<1> SUFFICES ASSUME IInv, [Next]_vars PROVE CopyInv'
  OBVIOUS
<1> USE DEF CopyInv, NoMissedReload
<1>0. TypeOK /\ HoldInv /\ CopyInv
  BY DEF IInv
<1>1. CASE UNCHANGED <<gen, sessions>> /\ (dirty' \/ left' <=> dirty \/ left)
  BY <1>0, <1>1 DEF sessions
<1>2. ASSUME dirty', copy' = Outdated PROVE CopyInv'
  <2>1. dirty' /\ \A r \in Readers : copy'[r] # None /\ ~copy'[r].loaded => ~copy'[r].stale
    <3>1. ASSUME NEW r \in Readers, copy[r] # None, copy[r].loaded
          PROVE  copy'[r].loaded
      <4>1. copy[r] \in Copy /\ copy'[r] = [copy[r] EXCEPT !.stale = TRUE]
        BY <1>0, <1>2, <3>1 DEF Outdated, TypeOK
      <4> QED BY <3>1, <4>1 DEF Copy
    <3>2. ASSUME NEW r \in Readers, ~(copy[r] # None /\ copy[r].loaded)
          PROVE  copy'[r] = copy[r]
      BY <1>2, <3>2 DEF Outdated
    <3> QED BY <1>0, <1>2, <3>1, <3>2
  <2> QED BY <2>1
<1>13. ASSUME NEW t \in Threads, NEW s \in BOOLEAN, Write(t, s) PROVE CopyInv'
  BY <1>2, <1>13 DEF Write
<1>14. ASSUME NEW t \in Threads, NEW r \in Readers, NEW s \in BOOLEAN, ApplyBatch(t, r, s)
       PROVE  CopyInv'
  BY <1>2, <1>14 DEF ApplyBatch
<1>3. ASSUME NEW carry \in BOOLEAN, Bump(carry), UNCHANGED sessions PROVE CopyInv'
  BY <1>0, <1>3, BumpIsFresh DEF sessions
<1>4. ASSUME NEW r \in Readers, ReadGeneration(r) PROVE CopyInv'
  <2>1. /\ copy'[r] = [gen |-> gen, loaded |-> FALSE, stale |-> FALSE]
        /\ \A q \in Readers \ {r} : copy'[q] = copy[q]
    BY <1>0, <1>4 DEF ReadGeneration, TypeOK
  <2>2. ~copy'[r].stale
    BY <2>1
  <2> QED BY <1>0, <1>4, <2>1, <2>2 DEF ReadGeneration, hold
<1>5. ASSUME NEW r \in Readers, Load(r) PROVE CopyInv'
  <2>1. /\ copy'[r].stale = copy[r].stale /\ copy'[r].gen = copy[r].gen
        /\ ~copy[r].stale
        /\ \A q \in Readers \ {r} : copy'[q] = copy[q]
    BY <1>0, <1>5 DEF Load, TypeOK, Copy
  <2> QED BY <1>0, <1>5, <2>1 DEF Load, hold
<1>6. ASSUME NEW r \in Readers, Install(r) PROVE CopyInv'
  <2>1. /\ loadedGen'[r] = copy[r].gen /\ copy'[r] = None /\ copy[r] # None
        /\ \A q \in Readers \ {r} : copy'[q] = copy[q] /\ loadedGen'[q] = loadedGen[q]
    BY <1>0, <1>6 DEF Install, InstalledGen, TypeOK
  <2> QED BY <1>0, <1>6, <2>1 DEF Install, hold
<1>7. ASSUME NEW r \in Readers, SwapCommitted(r) \/ TakeCommitted(r) PROVE CopyInv'
  <2>1. /\ \A q \in Readers \ {r} : loadedGen'[q] = loadedGen[q]
        /\ UNCHANGED <<gen, copy, dirty, left>>
    BY <1>0, <1>7 DEF SwapCommitted, TakeCommitted, TypeOK, hold
  <2>2. stale' \subseteq stale /\ r \notin stale'
    BY <1>7 DEF SwapCommitted, TakeCommitted, IInv, BatchInv, TypeOK
  <2> QED BY <1>0, <2>1, <2>2
<1>8. ASSUME NEW r \in Readers, BuildModel(r) PROVE CopyInv'
  BY <1>0, <1>8 DEF BuildModel, hold
<1>9. ASSUME NEW t \in Threads, Commit(t) PROVE CopyInv'
  <2>1. CASE AlreadyCommitted
    BY <1>1, <1>9, <2>1 DEF Commit, hold
  <2>2. CASE ~AlreadyCommitted
    BY <1>0, <1>3, <1>9, <2>2 DEF Commit, TypeOK
  <2> QED BY <2>1, <2>2
<1>10. ASSUME NEW t \in Threads, Dispose(t) PROVE CopyInv'
  BY <1>1, <1>3, <1>10 DEF Dispose, sessions
<1>11. CASE UNCHANGED vars
  BY <1>1, <1>11 DEF vars, hold
<1>12. ASSUME NEW t \in Threads,
              \/ Acquire(t) \/ AcquireNested(t) \/ SkipBump(t) \/ SourcesUnchanged(t)
              \/ DisposeNested(t) \/ LeaveUnpublished(t)
       PROVE  CopyInv'
  BY <1>1, <1>12 DEF Acquire, AcquireNested, SkipBump, SourcesUnchanged, DisposeNested, LeaveUnpublished
<1> QED
  BY <1>4, <1>5, <1>6, <1>7, <1>8, <1>9, <1>10, <1>11, <1>12, <1>13, <1>14, Zenon DEF Next

\* Every step keeps what is known of the session whose batch it is.
LEMMA BatchStep == IInv /\ [Next]_vars => BatchInv'
<1> SUFFICES ASSUME IInv, [Next]_vars PROVE BatchInv'
  OBVIOUS
<1> USE DEF BatchInv
<1>0. TypeOK /\ HoldInv /\ BatchInv /\ NoStaleModel
  BY DEF IInv
<1>1. CASE UNCHANGED <<batch, copy, stale, behind, model, inPlace, untold>>
  BY <1>0, <1>1
<1>2. CASE batch' = None /\ UNCHANGED <<model, inPlace>>
  BY <1>0, <1>2
<1>3. ASSUME NEW t \in Threads, NEW s \in BOOLEAN, Write(t, s) PROVE BatchInv'
  BY <1>0, <1>3 DEF Write, HoldInv
<1>4. ASSUME NEW t \in Threads, NEW r \in Readers, NEW s \in BOOLEAN, ApplyBatch(t, r, s)
      PROVE  BatchInv'
  <2>1. /\ batch' = r /\ copy[r] = None /\ copy' = Outdated /\ r \notin stale'
        /\ loadedGen[r] = gen /\ ~dirtySources /\ untold' = untold
    BY <1>0, <1>4 DEF ApplyBatch, HoldInv
  <2>2. copy'[r] = None
    BY <2>1 DEF Outdated
  <2>3. r \in behind' /\ model'[r] # None => r \in behind /\ model[r] # None
    BY <1>0, <1>4 DEF ApplyBatch, TypeOK
  <2>4. r \in behind /\ model[r] # None => r \in untold
    BY <1>0, <2>1 DEF NoStaleModel
  <2>5. \A q \in inPlace' : model'[q] # None
    BY <1>0, <1>4 DEF ApplyBatch, TypeOK
  <2> QED BY <2>1, <2>2, <2>3, <2>4, <2>5
<1>5. ASSUME NEW carry \in BOOLEAN, Bump(carry), UNCHANGED <<batch, sessions>> PROVE BatchInv'
  BY <1>0, <1>5 DEF Bump, sessions
<1>6. ASSUME NEW t \in Threads, Commit(t) PROVE BatchInv'
  <2>1. CASE AlreadyCommitted
    BY <1>1, <1>6, <2>1 DEF Commit, sessions, hold
  <2>2. CASE ~AlreadyCommitted
    BY <1>0, <1>5, <1>6, <2>2 DEF Commit, TypeOK
  <2> QED BY <2>1, <2>2
<1>7. ASSUME NEW t \in Threads, Acquire(t) \/ Dispose(t) \/ LeaveUnpublished(t) PROVE BatchInv'
  BY <1>2, <1>7 DEF Acquire, Dispose, LeaveUnpublished, Freed, sessions
<1>8. ASSUME NEW t \in Threads,
             AcquireNested(t) \/ SkipBump(t) \/ SourcesUnchanged(t) \/ DisposeNested(t)
      PROVE  BatchInv'
  BY <1>1, <1>8 DEF AcquireNested, SkipBump, SourcesUnchanged, DisposeNested, sessions
<1>9. ASSUME NEW r \in Readers, ReadGeneration(r) \/ Load(r) PROVE BatchInv'
  <2>1. batch' # None => r # batch /\ copy'[batch] = copy[batch]
    BY <1>0, <1>9 DEF ReadGeneration, Load, hold, TypeOK
  <2> QED BY <1>0, <1>9, <2>1 DEF ReadGeneration, Load, hold
<1>10. ASSUME NEW r \in Readers, Install(r) PROVE BatchInv'
  <2>1. batch # None => /\ r # batch /\ copy'[batch] = copy[batch]
                        /\ model'[batch] = model[batch]
    BY <1>0, <1>10 DEF Install, TypeOK
  <2>2. \A q \in inPlace' : q \in inPlace /\ model'[q] = model[q]
    BY <1>0, <1>10 DEF Install, KeptInPlace, KeptModel, TypeOK
  <2> QED BY <1>0, <1>10, <2>1, <2>2 DEF Install, hold
<1>11. ASSUME NEW r \in Readers, SwapCommitted(r) PROVE BatchInv'
  <2>1. \A q \in inPlace' : q \in inPlace /\ model'[q] = model[q]
    BY <1>0, <1>11 DEF SwapCommitted, KeptInPlace, KeptModel, TypeOK
  <2> QED BY <1>0, <1>11, <2>1 DEF SwapCommitted, hold
<1>14. ASSUME NEW r \in Readers, TakeCommitted(r) PROVE BatchInv'
  <2>1. \A q \in inPlace' : q \in inPlace /\ model'[q] = model[q]
    BY <1>0, <1>14 DEF TakeCommitted, TypeOK
  <2> QED BY <1>0, <1>14, <2>1 DEF TakeCommitted
<1>12. ASSUME NEW r \in Readers, BuildModel(r) PROVE BatchInv'
  <2>1. \A q \in Readers \ {r} : model'[q] = model[q]
    BY <1>0, <1>12 DEF BuildModel, TypeOK
  <2>2. inPlace' = inPlace \ {r} /\ inPlace \subseteq Readers
    BY <1>0, <1>12 DEF BuildModel, TypeOK
  <2>3. \A q \in inPlace' : model'[q] # None
    BY <1>0, <2>1, <2>2
  <2>4. batch # None /\ batch # r => model'[batch] = model[batch]
    BY <1>0, <2>1 DEF TypeOK
  <2> QED BY <1>0, <1>12, <2>3, <2>4 DEF BuildModel, hold
<1>13. CASE UNCHANGED vars
  BY <1>1, <1>13 DEF vars, hold, sessions
<1> QED
  BY <1>3, <1>4, <1>6, <1>7, <1>8, <1>9, <1>10, <1>11, <1>12, <1>13, <1>14, Zenon DEF Next

\* Every step keeps C# models of the generation on disk up to date.
LEMMA ModelStep == IInv /\ [Next]_vars => NoStaleModel'
<1> SUFFICES ASSUME IInv, [Next]_vars PROVE NoStaleModel'
  OBVIOUS
<1> USE DEF NoStaleModel
<1>0. TypeOK /\ HoldInv /\ BatchInv /\ NoStaleModel
  BY DEF IInv
<1>1. CASE UNCHANGED <<gen, loadedGen, model, behind, untold, dirtySources>>
  BY <1>0, <1>1
<1>2. ASSUME NEW t \in Threads, NEW s \in BOOLEAN, Write(t, s) PROVE NoStaleModel'
  BY <1>0, <1>2 DEF Write, TypeOK
<1>13. ASSUME NEW t \in Threads, NEW r \in Readers, NEW s \in BOOLEAN, ApplyBatch(t, r, s)
       PROVE  NoStaleModel'
  <2>1. CASE s
    BY <1>13, <2>1 DEF ApplyBatch
  <2>2. CASE ~s
    <3>1. /\ ~dirtySources /\ behind' = behind /\ UNCHANGED <<gen, loadedGen, untold>>
          /\ \A q \in Readers : model'[q] \in {None, model[q]}
      BY <1>0, <1>13, <2>2 DEF ApplyBatch, HoldInv, TypeOK
    <3> QED BY <1>0, <3>1
  <2> QED BY <2>1, <2>2
<1>3. ASSUME NEW carry \in BOOLEAN, carry => ~dirtySources, Bump(carry), UNCHANGED sessions
      PROVE  NoStaleModel'
  <2>1. \A r \in Readers : loadedGen'[r] # gen'
    BY <1>0, <1>3, BumpIsFresh DEF sessions
  <2>2. CASE carry /\ gen'.sources = gen.sources
    BY <1>0, <1>3, <2>1, <2>2 DEF sessions, Bump
  <2>3. CASE \A r \in Readers : model[r] # gen'.sources
    BY <1>3, <2>1, <2>3 DEF sessions
  <2> QED BY <1>0, <1>3, <2>2, <2>3, BumpIsFresh
<1>4. ASSUME NEW r \in Readers, Install(r) PROVE NoStaleModel'
  <2>1. /\ loadedGen'[r] = copy[r].gen
        /\ model'[r] \in {None, model[r]}
        /\ model'[r] # None => model[r] = copy[r].gen.sources
        /\ \A q \in Readers \ {r} : model'[q] = model[q] /\ loadedGen'[q] = loadedGen[q]
    BY <1>0, <1>4 DEF Install, InstalledGen, KeptModel, SourcesMoved, TypeOK
  <2> QED BY <1>0, <1>4, <2>1 DEF Install, hold
<1>5. ASSUME NEW r \in Readers, SwapCommitted(r) PROVE NoStaleModel'
  <2>1. /\ loadedGen'[r] = gen
        /\ model'[r] \in {None, model[r]}
        /\ model'[r] # None => model[r] = gen.sources
        /\ \A q \in Readers \ {r} : model'[q] = model[q] /\ loadedGen'[q] = loadedGen[q]
    BY <1>0, <1>5 DEF SwapCommitted, AlreadyCommitted, HoldInv, KeptModel, SourcesMoved, TypeOK
  <2> QED BY <1>0, <1>5, <2>1 DEF SwapCommitted, hold
<1>6. ASSUME NEW r \in Readers, TakeCommitted(r) PROVE NoStaleModel'
  <2>1. /\ batch = r /\ r # None
        /\ UNCHANGED <<gen, dirtySources, behind, untold>>
        /\ \A q \in Readers \ {r} : model'[q] = model[q] /\ loadedGen'[q] = loadedGen[q]
    BY <1>0, <1>6 DEF TakeCommitted, TypeOK
  <2>2. model[r] = None => model'[r] = None
    BY <1>0, <1>6 DEF TakeCommitted, BatchInv, TypeOK
  <2>3. r \in behind /\ model'[r] # None => r \in untold
    BY <1>0, <2>1, <2>2 DEF BatchInv
  <2> QED BY <1>0, <2>1, <2>3
<1>7. ASSUME NEW r \in Readers, BuildModel(r) PROVE NoStaleModel'
  <2>1. \A q \in Readers \ {r} : model'[q] = model[q]
    BY <1>0, <1>7 DEF BuildModel, TypeOK
  <2> QED BY <1>0, <1>7, <2>1 DEF BuildModel, hold
<1>8. ASSUME NEW t \in Threads, Commit(t) PROVE NoStaleModel'
  <2>1. CASE AlreadyCommitted
    BY <1>1, <1>8, <2>1 DEF Commit, sessions, hold
  <2>2. CASE ~AlreadyCommitted
    BY <1>0, <1>3, <1>8, <2>2 DEF Commit, HoldInv, TypeOK
  <2> QED BY <2>1, <2>2
<1>9. ASSUME NEW t \in Threads, Dispose(t) PROVE NoStaleModel'
  BY <1>1, <1>3, <1>9 DEF Dispose, sessions
<1>10. CASE UNCHANGED vars
  BY <1>1, <1>10 DEF vars, sessions, hold
<1>11. ASSUME NEW t \in Threads,
              \/ Acquire(t) \/ AcquireNested(t) \/ SkipBump(t) \/ SourcesUnchanged(t)
              \/ DisposeNested(t)
       PROVE  NoStaleModel'
  BY <1>1, <1>11 DEF Acquire, AcquireNested, SkipBump, SourcesUnchanged, DisposeNested, sessions
<1>14. ASSUME NEW t \in Threads, LeaveUnpublished(t) PROVE NoStaleModel'
  BY <1>0, <1>14 DEF LeaveUnpublished, sessions
<1>12. ASSUME NEW r \in Readers, ReadGeneration(r) \/ Load(r) PROVE NoStaleModel'
  BY <1>1, <1>12 DEF ReadGeneration, Load, hold
<1> QED
  BY <1>2, <1>4, <1>5, <1>6, <1>7, <1>8, <1>9, <1>10, <1>11, <1>12, <1>13, <1>14, Zenon DEF Next

\* The invariant holds of every behaviour of the lock and its sessions.
THEOREM Inductive == Spec => []IInv
<1>1. IInv /\ [Next]_vars => IInv'
  BY TypeStep, HoldStep, CopyStep, BatchStep, ModelStep DEF IInv
<1> QED BY <1>1, IInvInit, PTL DEF Spec

\* What a hold wrote is published when it ends (IndexWriteLock.Dispose), unless
\* the process died or the token could not be written.
THEOREM AlwaysPublished == Spec => []Published
<1>1. IInv => Published
  BY DEF IInv
<1> QED BY <1>1, Inductive, PTL

\* No session misses a reload: one whose generation is the one on disk holds
\* what is on disk (IndexGeneration, MaybeReloadExternal).
THEOREM ReloadsAreSeen == Spec => []NoMissedReload
<1>1. IInv => NoMissedReload
  BY DEF IInv, CopyInv
<1> QED BY <1>1, Inductive, PTL

\* No session keeps a C# model older than the sources (SourcesMoved), but for one that
\* misses what a dead holder told nobody of.
THEOREM ModelsAreCurrent == Spec => []NoStaleModel
<1>1. IInv => NoStaleModel
  BY DEF IInv
<1> QED BY <1>1, Inductive, PTL
=============================================================================

--------------------------- MODULE IndexWriteLock ---------------------------
(***************************************************************************)
(* The cross-process write lock of a cache directory and its generation    *)
(* token (Storage/IndexWriteLock.cs), with the sessions that compare the   *)
(* token to the one they loaded to learn that another process wrote        *)
(* (MaybeReloadExternal, Swap and SourcesMoved of ServerContext.cs).       *)
(* Tokens are GUIDs: only their equality is ever asked, so a fresh one is  *)
(* a token that nobody holds.  The generation is a pair: a write token and *)
(* a sources token that a commit may carry forward.                        *)
(*                                                                         *)
(* The lock cannot know what its holder writes; Write, SkipBump and        *)
(* SourcesUnchanged are guarded by what the code's comments ask of a       *)
(* holder.  SharedCache.tla models the holders and checks that they comply.*)
(***************************************************************************)
EXTENDS Naturals

CONSTANTS Threads,  \* threads of any process that write the cache
          Readers,  \* sessions that hold the index in memory
          Tokens,   \* GUIDs
          None,
          MaxDepth  \* bound on nested holds

VARIABLES holder,           \* the thread whose handle is open, or None
          depth,            \* _depth
          committed,        \* _committed
          lastToken,        \* _lastToken
          sourcesUnchanged, \* _sourcesUnchanged
          gen,              \* the .generation file
          loadedGen,        \* _loadedGen of each session
          copy,             \* the copy a session is loading, or None
          model,            \* the sources token its C# model was built against
          inPlace,          \* sessions whose _csharpUpdatedInPlace is their model
          batch,            \* the session whose batch this hold applied, or None
          writing,          \* ghost: the hold has not said yet what it wrote
          dirty,            \* ghost: this hold wrote and has not published it
          dirtySources,     \* ghost: and a source changed with it
          left,             \* ghost: a hold ended without publishing what it wrote
          stale,            \* ghost: sessions whose index is not the one on disk
          behind,           \* ghost: sessions whose C# model misses a change
          untold            \* ghost: those of a change that such a hold left

hold == <<holder, depth, committed, lastToken, sourcesUnchanged, batch, writing, dirty, dirtySources>>
sessions == <<loadedGen, copy, model, inPlace, stale, behind>>
vars == <<hold, gen, sessions, left, untold>>

Generation == [write : Tokens \cup {None}, sources : Tokens \cup {None}]
Copy == [gen : Generation, loaded : BOOLEAN, stale : BOOLEAN]

ASSUME ConstAssumption ==
  /\ MaxDepth \in Nat \ {0}
  /\ None \notin Threads \cup Readers \cup Tokens \cup Copy \cup Generation

TypeOK ==
  /\ holder \in Threads \cup {None}
  /\ depth \in 0 .. MaxDepth
  /\ depth = 0 => holder = None
  /\ holder = None => depth = 0
  /\ committed \in BOOLEAN /\ sourcesUnchanged \in BOOLEAN /\ writing \in BOOLEAN
  /\ lastToken \in Generation \cup {None}
  /\ gen \in Generation
  /\ loadedGen \in [Readers -> Generation \cup {None}]
  /\ copy \in [Readers -> Copy \cup {None}]
  /\ model \in [Readers -> Tokens \cup {None}]
  /\ inPlace \in SUBSET Readers /\ batch \in Readers \cup {None}
  /\ stale \in SUBSET Readers /\ behind \in SUBSET Readers /\ untold \in SUBSET Readers
  /\ dirty \in BOOLEAN /\ dirtySources \in BOOLEAN /\ left \in BOOLEAN
-----------------------------------------------------------------------------
(* The generation file *)

HeldWrites ==
  {gen.write} \cup {loadedGen[r].write : r \in {q \in Readers : loadedGen[q] # None}}
              \cup {copy[r].gen.write : r \in {q \in Readers : copy[q] # None}}
HeldSources ==
  {gen.sources} \cup {loadedGen[r].sources : r \in {q \in Readers : loadedGen[q] # None}}
                \cup {copy[r].gen.sources : r \in {q \in Readers : copy[q] # None}}
                \cup {model[r] : r \in Readers}

\* A carried token is the one on disk, unless there is none or it cannot be
\* read just now: then, as without carrying, a new one.
Bumped(carrySources) ==
  {[write |-> t, sources |-> u] :
     t \in Tokens \ HeldWrites,
     u \in (Tokens \ HeldSources)
           \cup IF carrySources /\ gen.sources # None THEN {gen.sources} ELSE {}}

\* A new sources token tells every session of what was left, but for the one whose
\* batch it is: that one takes the token, and its model with it.
Bump(carrySources) ==
  /\ gen' \in Bumped(carrySources)
  /\ dirty' = FALSE /\ dirtySources' = FALSE /\ left' = FALSE
  /\ untold' = IF gen'.sources = gen.sources THEN untold ELSE untold \cap {batch}
-----------------------------------------------------------------------------
(* The lock *)

Acquire(t) ==
  /\ holder = None
  /\ holder' = t
  /\ depth' = 1
  /\ committed' = FALSE /\ lastToken' = None /\ sourcesUnchanged' = FALSE
  /\ batch' = None /\ writing' = TRUE
  /\ UNCHANGED <<dirty, dirtySources, gen, sessions, left, untold>>

\* A locked operation called by a thread that already holds the lock.
NestedCommitted_Kept == committed
NestedCommitted == FALSE
NestedCarry_Kept == sourcesUnchanged
NestedCarry == FALSE
AcquireNested(t) ==
  /\ holder = t /\ depth < MaxDepth /\ batch = None
  /\ depth' = depth + 1
  /\ committed' = NestedCommitted
  /\ lastToken' = None
  /\ sourcesUnchanged' = NestedCarry
  /\ writing' = TRUE
  /\ UNCHANGED <<holder, batch, dirty, dirtySources, gen, sessions, left, untold>>

\* The copies that sessions are loading are then old.
Outdated == [r \in Readers |-> IF copy[r] # None /\ copy[r].loaded
                               THEN [copy[r] EXCEPT !.stale = TRUE] ELSE copy[r]]

\* The holder changes the cache on disk; the copies sessions have are then old.
\* It writes before it says what it wrote: to write more it nests.
Write(t, sources) ==
  /\ holder = t /\ writing
  /\ dirty' = TRUE
  /\ dirtySources' = (dirtySources \/ sources)
  /\ stale' = Readers
  /\ behind' = IF sources THEN Readers ELSE behind
  /\ copy' = Outdated
  /\ UNCHANGED <<holder, depth, committed, lastToken, sourcesUnchanged, batch, writing,
                 gen, loadedGen, model, inPlace, left, untold>>

\* A session applies a batch to its own copy, reloaded first if the generation
\* moved, and saves it.  If the batch changes C# sources its model is dropped, or
\* updated in place.  Its BuildGate keeps its own loads out.
ApplyBatch(t, r, sources) ==
  /\ holder = t /\ writing /\ ~dirty /\ batch = None
  /\ loadedGen[r] = gen /\ copy[r] = None
  /\ batch' = r /\ writing' = FALSE
  /\ dirty' = TRUE /\ dirtySources' = sources
  /\ stale' = Readers \ {r}
  /\ copy' = Outdated
  /\ \/ /\ ~sources
        /\ inPlace' = inPlace \ {r}
        /\ UNCHANGED <<model, behind>>
     \/ /\ model' = [model EXCEPT ![r] = None]
        /\ inPlace' = inPlace \ {r}
        /\ behind' = IF sources THEN Readers ELSE behind
     \/ /\ sources /\ model[r] # None
        /\ inPlace' = inPlace \cup {r}
        /\ behind' = IF r \in behind THEN Readers ELSE Readers \ {r}
        /\ UNCHANGED model
  /\ UNCHANGED <<holder, depth, committed, lastToken, sourcesUnchanged, gen, loadedGen, left, untold>>

\* "Only valid if NOTHING was written under this hold."
SkipBump(t) ==
  /\ holder = t /\ ~dirty
  /\ committed' = TRUE
  /\ lastToken' = None
  /\ writing' = FALSE
  /\ UNCHANGED <<holder, depth, sourcesUnchanged, batch, dirty, dirtySources, gen, sessions, left, untold>>

\* "This hold's writes changed no source a semantic model reads."
SourcesUnchanged(t) ==
  /\ holder = t /\ ~dirtySources
  /\ sourcesUnchanged' = TRUE
  /\ writing' = FALSE
  /\ UNCHANGED <<holder, depth, committed, lastToken, batch, dirty, dirtySources, gen, sessions, left, untold>>

\* A later call of the same hold returns the token of the first.
AlreadyCommitted == committed /\ lastToken # None
Commit(t) ==
  /\ holder = t
  /\ \/ /\ AlreadyCommitted
        /\ UNCHANGED <<hold, gen, left, untold>>
     \/ /\ ~AlreadyCommitted
        /\ Bump(sourcesUnchanged)
        /\ lastToken' = gen'
        /\ committed' = TRUE
        /\ writing' = FALSE
        /\ UNCHANGED <<holder, depth, sourcesUnchanged, batch>>
  /\ UNCHANGED sessions

Nested_Any == depth > 0
Nested == depth > 1
DisposeNested(t) ==
  /\ holder = t /\ Nested
  /\ depth' = depth - 1
  /\ UNCHANGED <<holder, committed, lastToken, sourcesUnchanged, batch, writing, dirty, dirtySources,
                 gen, sessions, left, untold>>

Freed ==
  /\ holder' = None /\ depth' = 0
  /\ committed' = FALSE /\ lastToken' = None /\ sourcesUnchanged' = FALSE
  /\ batch' = None /\ writing' = FALSE

Dispose(t) ==
  /\ holder = t /\ depth = 1
  /\ IF committed THEN UNCHANGED <<gen, dirty, dirtySources, left, untold>> ELSE Bump(FALSE)
  /\ Freed
  /\ UNCHANGED sessions

\* The process dies, or the token cannot be written: the handle goes anyway, and the
\* next holder knows nothing of what this one wrote.
LeaveUnpublished(t) ==
  /\ holder = t
  /\ Freed
  /\ dirty' = FALSE /\ dirtySources' = FALSE
  /\ left' = (left \/ dirty)
  /\ untold' = IF dirtySources THEN untold \cup behind ELSE untold
  /\ UNCHANGED <<gen, sessions>>
-----------------------------------------------------------------------------
(* A session's copies of what the cache holds *)

\* The generation is read first, then the files, then both are installed.
ReadGeneration(r) ==
  /\ copy[r] = None /\ batch # r
  /\ copy' = [copy EXCEPT ![r] = [gen |-> gen, loaded |-> FALSE, stale |-> FALSE]]
  /\ UNCHANGED <<hold, gen, loadedGen, model, inPlace, stale, behind, left, untold>>

Load(r) ==
  /\ copy[r] # None /\ ~copy[r].loaded
  /\ copy' = [copy EXCEPT ![r].loaded = TRUE]
  /\ UNCHANGED <<hold, gen, loadedGen, model, inPlace, stale, behind, left, untold>>

\* SourcesMoved: only a token present in both and equal keeps the C# model.
SourcesMoved(r, g) == g.sources = None \/ model[r] # g.sources
InstalledGen_Late(r) == gen
InstalledGen(r) == copy[r].gen
KeptModel(r, g) == IF SourcesMoved(r, g) THEN None ELSE model[r]
KeptInPlace(r, g) == IF SourcesMoved(r, g) THEN inPlace \ {r} ELSE inPlace
Install(r) ==
  /\ copy[r] # None /\ copy[r].loaded
  /\ loadedGen' = [loadedGen EXCEPT ![r] = InstalledGen(r)]
  /\ stale' = IF copy[r].stale THEN stale \cup {r} ELSE stale \ {r}
  /\ model' = [model EXCEPT ![r] = KeptModel(r, InstalledGen(r))]
  /\ inPlace' = KeptInPlace(r, InstalledGen(r))
  /\ copy' = [copy EXCEPT ![r] = None]
  /\ UNCHANGED <<hold, gen, behind, left, untold>>

\* The holder's own session takes the token it committed for what it wrote:
\* a whole rebuild or reconcile swapped in, or the batch it applied.
SwapCommitted(r) ==
  /\ holder # None /\ AlreadyCommitted /\ batch = None
  /\ loadedGen' = [loadedGen EXCEPT ![r] = lastToken]
  /\ stale' = stale \ {r}
  /\ model' = [model EXCEPT ![r] = KeptModel(r, lastToken)]
  /\ inPlace' = KeptInPlace(r, lastToken)
  /\ UNCHANGED <<hold, gen, copy, behind, left, untold>>

\* A model that was updated in place takes the sources token as well
\* (AdoptSourcesToken); one that the batch did not touch keeps its own.
TakeCommitted(r) ==
  /\ holder # None /\ AlreadyCommitted /\ batch = r
  /\ loadedGen' = [loadedGen EXCEPT ![r] = lastToken]
  /\ model' = IF r \in inPlace THEN [model EXCEPT ![r] = lastToken.sources] ELSE model
  /\ inPlace' = inPlace \ {r}
  /\ batch' = None
  /\ UNCHANGED <<holder, depth, committed, lastToken, sourcesUnchanged, writing, dirty, dirtySources,
                 gen, copy, stale, behind, left, untold>>

\* The sources tokens are read before the model reads the sources.
BuildModel(r) ==
  /\ model' = [model EXCEPT ![r] = gen.sources]
  /\ inPlace' = inPlace \ {r}
  /\ behind' = behind \ {r}
  /\ untold' = untold \ {r}
  /\ UNCHANGED <<hold, gen, loadedGen, copy, stale, left>>
-----------------------------------------------------------------------------
Init ==
  /\ holder = None /\ depth = 0
  /\ committed = FALSE /\ lastToken = None /\ sourcesUnchanged = FALSE
  /\ writing = FALSE
  /\ gen = [write |-> None, sources |-> None]
  /\ loadedGen = [r \in Readers |-> None]
  /\ copy = [r \in Readers |-> None]
  /\ model = [r \in Readers |-> None]
  /\ inPlace = {} /\ batch = None
  /\ dirty = FALSE /\ dirtySources = FALSE /\ left = FALSE
  /\ stale = {} /\ behind = {} /\ untold = {}

Next ==
  \/ \E t \in Threads :
       \/ Acquire(t) \/ AcquireNested(t)
       \/ Write(t, TRUE) \/ Write(t, FALSE)
       \/ \E r \in Readers : ApplyBatch(t, r, TRUE) \/ ApplyBatch(t, r, FALSE)
       \/ SkipBump(t) \/ SourcesUnchanged(t) \/ Commit(t)
       \/ DisposeNested(t) \/ Dispose(t) \/ LeaveUnpublished(t)
  \/ \E r \in Readers :
       \/ ReadGeneration(r) \/ Load(r) \/ Install(r)
       \/ SwapCommitted(r) \/ TakeCommitted(r)
       \/ BuildModel(r)

Spec == Init /\ [][Next]_vars
-----------------------------------------------------------------------------
(* Properties *)

\* What was written is published: whoever is done with the lock has moved the
\* generation for it, unless it died or could not write the token.
Published == holder = None => ~dirty

\* A session whose generation is the one on disk has the index that is on
\* disk, unless something is still unpublished: no reload is missed.
NoMissedReload ==
  ~dirty /\ ~left => \A r \in Readers : loadedGen[r] # None /\ loadedGen[r] = gen => r \notin stale

\* A C# model that a session still uses at the generation on disk, or that the
\* sources token would let it keep, was built from the sources as they are:
\* also when this session's own commit carried another writer's newer token.
\* Not when it misses a change that a dead holder told nobody of.
NoStaleModel ==
  ~dirtySources =>
    \A r \in Readers \ untold :
      model[r] # None /\ (model[r] = gen.sources \/ loadedGen[r] = gen) => r \notin behind
=============================================================================

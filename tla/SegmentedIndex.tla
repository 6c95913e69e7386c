--------------------------- MODULE SegmentedIndex ---------------------------
(***************************************************************************)
(* The text index (Indexing/Segments/SegmentedIndex.cs, SegmentMerger.cs   *)
(* and a build's assembly of it in RepositoryIndexer.cs): immutable        *)
(* segment files named by a manifest, tombstones over them, a buffer of    *)
(* documents not yet written and a path map for removals.  A save writes   *)
(* the buffer as a segment, then replaces the manifest (the commit), then  *)
(* the separate tombstone file of older versions; a compaction or a build  *)
(* also deletes the files it orphaned.  The process may be killed between  *)
(* any two of these.  One process writes at a time (IndexWriteLock); the   *)
(* symbol index (SegmentedSymbolIndex.cs) follows the same design.         *)
(***************************************************************************)
EXTENDS Naturals, Sequences, FiniteSets, NumberedFiles

CONSTANTS Paths,      \* relative paths
          Contents,   \* file contents (their trigrams)
          None,
          Torn,       \* a segment file that does not open
          MaxSegment, \* bound: segment numbers 0 .. MaxSegment are explored
          MaxPending, \* bound: documents in one segment's buffer
          Faults      \* which faults happen: a "write" fails, a written segment does
                      \* not "open", the manifest is "lost"

VARIABLES open,      \* an index object is open in the running process
          segs,      \* _segments, by segment number
          tombs,     \* _tombstones: locations <<segment index, local id>>
          pending,   \* _pending: documents in the buffer
          pmap,      \* _pathToDoc, or None while it is not built
          next,      \* _nextSegmentNumber
          job,       \* what is left of the save, compaction or build under way
          build,     \* a build writing segments: the numbers and paths so far
          files,     \* seg-N.ccseg files
          manifest,  \* segments.manifest, or None
          tombFile,  \* segments.tombstones
          saved,     \* ghost: the live documents at the last commit
          recovered, \* ghost: the index descends from a manifest-less recovery
          lost,      \* ghost: the open index lost a buffer it had promised places
          short      \* ghost: what is committed descends from such an index

mem  == <<open, segs, tombs, pending, pmap, next>>
disk == <<files, manifest, tombFile>>
vars == <<open, segs, tombs, pending, pmap, next, job, build, files, manifest,
          tombFile, saved, recovered, lost, short>>

Numbers == 0 .. MaxSegment
Doc     == [path : Paths, content : Contents]
Loc     == Nat \X Nat
Job     == [kind : {"flush", "compact", "build"},
            at : {"merge", "manifest", "tombs", "clean"}]
Manifest == [segs : Seq(Numbers), tombs : SUBSET Loc, next : Nat]
Build    == [segs : Seq(Numbers), seen : SUBSET Paths, next : Nat]
NoMap    == [p \in Paths |-> None]

ASSUME ConstAssumption ==
  /\ MaxSegment \in Nat /\ MaxPending \in Nat \ {0}
  /\ Faults \subseteq {"write", "open", "lost"}
  /\ None \notin Contents /\ None # Torn
  /\ {None, Torn} \cap (Seq(Doc) \cup Job \cup Build \cup Manifest \cup Loc
                        \cup [Paths -> Loc \cup {None}] \cup [Paths -> Contents \cup {None}]) = {}

\* A set of readable files: what SegmentReader opens.
Readable == {n \in Numbers : files[n] \notin {None, Torn}}

-----------------------------------------------------------------------------
(* Documents *)

\* The documents of the written segments s, and where they are.
LocsIn(s)    == UNION {{i} \X DOMAIN files[s[i]] : i \in DOMAIN s}
DocIn(s, at) == files[s[at[1]]][at[2]]
LiveIn(s, t) == {DocIn(s, at) : at \in LocsIn(s) \ t}

\* The same for the open index, whose buffer is its next segment.
Locs      == LocsIn(segs) \cup {<<Len(segs) + 1, l>> : l \in DOMAIN pending}
DocAt(at) == IF at[1] = Len(segs) + 1 THEN pending[at[2]] ELSE DocIn(segs, at)
LiveLocs  == Locs \ tombs
View      == {DocAt(at) : at \in LiveLocs}

Before(a, b) == a[1] < b[1] \/ (a[1] = b[1] /\ a[2] < b[2])
DocumentCount ==
  Cardinality(LocsIn(segs)) - Cardinality({at \in tombs : at[1] <= Len(segs)}) + Len(pending)

\* EnsurePathMap: a path's last live document ("later segments win").
BuiltMap_WithDead ==
  [p \in Paths |->
     LET at == {a \in LocsIn(segs) : DocIn(segs, a).path = p}
     IN  IF at = {} THEN None ELSE CHOOSE a \in at : \A b \in at : a = b \/ Before(b, a)]
BuiltMap ==
  [p \in Paths |->
     LET at == {a \in LocsIn(segs) \ tombs : DocIn(segs, a).path = p}
     IN  IF at = {} THEN None ELSE CHOOSE a \in at : \A b \in at : a = b \/ Before(b, a)]
PathMap == IF pmap = None THEN BuiltMap ELSE pmap

NextSegmentNumber == NextNumber({n \in Numbers : files[n] # None})

Idle == open /\ job = None /\ build = None

\* Nothing happened to the documents that the index does not know of.
Sure == ~recovered /\ ~lost /\ ~short

\* A tombstone, too, is of a document that is there.
TypeOK ==
  /\ open \in BOOLEAN
  /\ segs \in Seq(Numbers)
  /\ tombs \in SUBSET Loc /\ (Sure => tombs \subseteq LocsIn(segs))
  /\ pending \in Seq(Doc)
  /\ pmap \in [Paths -> Loc \cup {None}] \cup {None}
  /\ next \in Nat
  /\ job \in Job \cup {None}
  /\ build \in Build \cup {None}
  /\ files \in [Numbers -> Seq(Doc) \cup {None, Torn}]
  /\ manifest \in Manifest \cup {None}
  /\ tombFile \in SUBSET Loc
  /\ saved \in SUBSET Doc
  /\ recovered \in BOOLEAN /\ lost \in BOOLEAN /\ short \in BOOLEAN
-----------------------------------------------------------------------------
(* Edits *)

\* FlushPending: the buffer becomes the segment its documents were promised.
FlushPending ==
  \/ pending = <<>> /\ UNCHANGED <<segs, pending, next, files>>
  \/ /\ pending # <<>>
     /\ next \in Numbers
     /\ files' = [files EXCEPT ![next] = pending]
     /\ segs' = Append(segs, next)
     /\ next' = next + 1
     /\ pending' = <<>>

\* Writing the buffer throws: the number is taken, the documents stay.
FlushFails ==
  /\ "write" \in Faults
  /\ Idle /\ pending # <<>> /\ next \in Numbers
  /\ files' = [files EXCEPT ![next] = Torn]
  /\ next' = next + 1
  /\ UNCHANGED <<open, segs, tombs, pending, pmap, job, build, manifest, tombFile, saved, recovered, lost, short>>

\* The segment is written but does not open: the documents have left the buffer and
\* are in no segment, while the path map has promised them the next one's places.
FlushLoses ==
  /\ "open" \in Faults
  /\ Idle /\ pending # <<>> /\ next \in Numbers
  /\ files' = [files EXCEPT ![next] = pending]
  /\ next' = next + 1
  /\ pending' = <<>>
  /\ lost' = TRUE
  /\ UNCHANGED <<open, segs, tombs, pmap, job, build, manifest, tombFile, saved, recovered, short>>

\* A removal first writes the buffer when the document's place is in it.
RemoveFlushes_Never(at) == UNCHANGED <<segs, pending, next, files>>
RemoveFlushes(at) == IF at[1] = Len(segs) + 1 THEN FlushPending
                     ELSE UNCHANGED <<segs, pending, next, files>>

RemovePath(p) ==
  /\ Idle
  /\ \/ /\ PathMap[p] = None
        /\ pmap' = PathMap
        /\ UNCHANGED <<segs, tombs, pending, next, files>>
     \/ /\ PathMap[p] # None
        /\ RemoveFlushes(PathMap[p])
        /\ tombs' = tombs \cup {PathMap[p]}
        /\ pmap' = [PathMap EXCEPT ![p] = None]
  /\ UNCHANGED <<open, job, build, manifest, tombFile, saved, recovered, lost, short>>

\* Every caller removes the path before it adds it (ApplyExistingFile).  The
\* byte budget may be reached by any document: the buffer is then written.
AddDocument(p, c) ==
  /\ Idle /\ PathMap[p] = None
  /\ LET local == Len(pending) + 1
         buffer == Append(pending, [path |-> p, content |-> c])
     IN  /\ local <= MaxPending
         /\ pmap' = [PathMap EXCEPT ![p] = <<Len(segs) + 1, local>>]
         /\ \/ pending' = buffer /\ UNCHANGED <<segs, next, files>>
            \/ /\ next \in Numbers
               /\ files' = [files EXCEPT ![next] = buffer]
               /\ segs' = Append(segs, next)
               /\ next' = next + 1
               /\ pending' = <<>>
  /\ UNCHANGED <<open, tombs, job, build, manifest, tombFile, saved, recovered, lost, short>>

\* A search (or AllPaths) writes the buffer so that it sees what was added.
SearchFlush ==
  /\ Idle /\ pending # <<>>
  /\ FlushPending
  /\ UNCHANGED <<open, tombs, pmap, job, build, manifest, tombFile, saved, recovered, lost, short>>

\* EnsurePathMap without an edit (AllPaths), and ReleasePathMapIfIdle.
BuildPathMap ==
  /\ Idle /\ pending = <<>> /\ pmap = None
  /\ pmap' = BuiltMap
  /\ UNCHANGED <<open, segs, tombs, pending, next, job, build, files, manifest, tombFile, saved, recovered, lost, short>>

ReleasePathMapIfIdle ==
  /\ Idle /\ pending = <<>> /\ pmap # None
  /\ pmap' = None
  /\ UNCHANGED <<open, segs, tombs, pending, next, job, build, files, manifest, tombFile, saved, recovered, lost, short>>
-----------------------------------------------------------------------------
(* Save and compaction *)

Flush ==
  /\ Idle
  /\ FlushPending
  /\ job' = [kind |-> "flush", at |-> "manifest"]
  /\ UNCHANGED <<open, tombs, pmap, build, manifest, tombFile, saved, recovered, lost, short>>

Compact ==
  /\ Idle
  /\ FlushPending
  /\ job' = [kind |-> "compact", at |-> "merge"]
  /\ UNCHANGED <<open, tombs, pmap, build, manifest, tombFile, saved, recovered, lost, short>>

AlreadyCompact ==
  /\ job # None /\ job.at = "merge"
  /\ Len(segs) <= 1 /\ tombs = {}
  /\ job' = None
  /\ UNCHANGED <<mem, build, disk, saved, recovered, lost, short>>

\* New ids are given to the live documents in order of segment and old id.
IsRemap(remap) ==
  /\ \A a, b \in LiveLocs : Before(a, b) => remap[a] < remap[b]
  /\ \A i \in 1 .. Cardinality(LiveLocs) : \E a \in LiveLocs : remap[a] = i
Remaps == {r \in [LiveLocs -> 1 .. Cardinality(LiveLocs)] : IsRemap(r)}
Merged(remap) ==
  [i \in 1 .. Cardinality(LiveLocs) |-> DocAt(CHOOSE a \in LiveLocs : remap[a] = i)]

\* Locations have moved: the map is dropped.  The old files go last.
MapAfterMerge == None
AfterMerge_CleanFirst == "clean"
AfterMerge == "manifest"

\* The swap to the merged segment; with no live document none is written.
Merge ==
  /\ job # None /\ job.at = "merge"
  /\ ~(Len(segs) <= 1 /\ tombs = {})
  /\ next \in Numbers
  /\ \/ /\ LiveLocs = {}
        /\ segs' = <<>>
        /\ UNCHANGED files
     \/ /\ LiveLocs # {}
        /\ \E remap \in Remaps : files' = [files EXCEPT ![next] = Merged(remap)]
        /\ segs' = <<next>>
  /\ next' = next + 1
  /\ tombs' = {}
  /\ pmap' = MapAfterMerge
  /\ job' = [job EXCEPT !.at = AfterMerge]
  /\ UNCHANGED <<open, pending, build, manifest, tombFile, saved, recovered, lost, short>>

\* The merge is not written, or it is and does not open: the old segments stay.
MergeFails ==
  /\ job # None /\ job.at = "merge"
  /\ ~(Len(segs) <= 1 /\ tombs = {})
  /\ next \in Numbers
  /\ \/ "write" \in Faults /\ files' = [files EXCEPT ![next] = Torn]
     \/ /\ "open" \in Faults /\ LiveLocs # {}
        /\ \E remap \in Remaps : files' = [files EXCEPT ![next] = Merged(remap)]
  /\ next' = next + 1
  /\ job' = None
  /\ UNCHANGED <<open, segs, tombs, pending, pmap, build, manifest, tombFile, saved, recovered, lost, short>>

\* The commit: one atomic replace names the segments and their tombstones.
ManifestNow_TombsApart == [segs |-> segs, tombs |-> tombFile, next |-> next]
ManifestNow == [segs |-> segs, tombs |-> tombs, next |-> next]
SaveManifest ==
  /\ job # None /\ job.at = "manifest"
  /\ manifest' = ManifestNow
  /\ saved' = View
  /\ recovered' = (recovered /\ job.kind # "build")
  /\ short' = ((short \/ lost) /\ job.kind # "build")
  /\ job' = [job EXCEPT !.at = "tombs"]
  /\ UNCHANGED <<mem, build, files, tombFile, lost>>

SaveTombstones ==
  /\ job # None /\ job.at = "tombs"
  /\ tombFile' = tombs
  /\ job' = IF job.kind = "flush" THEN None ELSE [job EXCEPT !.at = "clean"]
  /\ UNCHANGED <<mem, build, files, manifest, saved, recovered, lost, short>>

\* Either replace throws.  A build's caller never gets the index then.
SaveFails ==
  /\ "write" \in Faults
  /\ job # None /\ job.at \in {"manifest", "tombs"}
  /\ job' = None
  /\ IF job.kind = "build"
     THEN /\ open' = FALSE /\ segs' = <<>> /\ tombs' = {} /\ pending' = <<>>
          /\ pmap' = None /\ next' = 0 /\ lost' = FALSE
     ELSE UNCHANGED <<mem, lost>>
  /\ UNCHANGED <<build, disk, saved, recovered, short>>

\* Best-effort: any file that a process still maps stays.
CleanupOrphans ==
  /\ job # None /\ job.at = "clean"
  /\ \E gone \in SUBSET (Numbers \ {segs[i] : i \in DOMAIN segs}) :
       files' = [n \in Numbers |-> IF n \in gone THEN None ELSE files[n]]
  /\ job' = None
  /\ UNCHANGED <<mem, build, manifest, tombFile, saved, recovered, lost, short>>
-----------------------------------------------------------------------------
(* A full build: segments written aside, then assembled.  However it ends it *)
(* moves the generation, so an index open before it is reloaded before it is *)
(* edited again (RefreshIfStaleLocked): here it is closed.                   *)

BuildStarts ==
  /\ ~open /\ build = None
  /\ build' = [segs |-> <<>>, seen |-> {}, next |-> NextSegmentNumber]
  /\ UNCHANGED <<mem, job, disk, saved, recovered, lost, short>>

\* One worker's buffer: each file of the walk is indexed once.
Buffers(seen) ==
  {b \in UNION {[1 .. n -> [path : Paths \ seen, content : Contents]] : n \in 1 .. MaxPending} :
     \A i, j \in DOMAIN b : b[i].path = b[j].path => i = j}
BuildWrites ==
  /\ build # None /\ build.next \in Numbers
  /\ \E b \in Buffers(build.seen) :
       /\ files' = [files EXCEPT ![build.next] = b]
       /\ build' = [segs |-> Append(build.segs, build.next),
                    seen |-> build.seen \cup {b[i].path : i \in DOMAIN b},
                    next |-> build.next + 1]
  /\ UNCHANGED <<mem, job, manifest, tombFile, saved, recovered, lost, short>>

\* FromSegmentFiles, up to its SaveManifest.
BuildNext == AtLeast(build.next, NextSegmentNumber)
FromSegmentFiles ==
  /\ build # None
  /\ open' = TRUE
  /\ segs' = build.segs
  /\ tombs' = {}
  /\ pending' = <<>>
  /\ pmap' = None
  /\ next' = BuildNext
  /\ build' = None
  /\ job' = [kind |-> "build", at |-> "manifest"]
  /\ UNCHANGED <<disk, saved, recovered, lost, short>>

\* Cancelled: the build deletes the segments it wrote, as far as it can.
CancelBuild ==
  /\ build # None
  /\ \E gone \in SUBSET {build.segs[i] : i \in DOMAIN build.segs} :
       files' = [n \in Numbers |-> IF n \in gone THEN None ELSE files[n]]
  /\ build' = None
  /\ UNCHANGED <<mem, job, manifest, tombFile, saved, recovered, lost, short>>
-----------------------------------------------------------------------------
(* The process ends or is killed; LoadOnce *)

Crash ==
  /\ open \/ build # None
  /\ open' = FALSE /\ segs' = <<>> /\ tombs' = {} /\ pending' = <<>>
  /\ pmap' = None /\ next' = 0 /\ lost' = FALSE
  /\ job' = None /\ build' = None
  /\ UNCHANGED <<disk, saved, recovered, short>>

Names == manifest # None /\ manifest.segs # <<>>
LoadedNext_Unclamped == IF manifest = None THEN 0 ELSE manifest.next
LoadedNext == AtLeast(IF manifest = None THEN 0 ELSE manifest.next, NextSegmentNumber)

Open ==
  /\ ~open /\ build = None /\ Names
  /\ \A i \in DOMAIN manifest.segs : manifest.segs[i] \in Readable
  /\ open' = TRUE
  /\ segs' = manifest.segs
  /\ tombs' = manifest.tombs
  /\ next' = LoadedNext
  /\ UNCHANGED <<pending, pmap, job, build, disk, saved, recovered, lost, short>>

\* The manifest is gone or names nothing: every segment that opens, in order
\* of its number, under whatever tombstones are left.
Exists == manifest # None \/ \E n \in Numbers : files[n] # None
InOrder(ns) == {s \in [1 .. Cardinality(ns) -> ns] : \A i, j \in DOMAIN s : i < j => s[i] < s[j]}
LoadedTombs == IF manifest # None THEN manifest.tombs ELSE tombFile
Recover ==
  /\ ~open /\ build = None /\ ~Names /\ Exists
  /\ open' = TRUE
  /\ segs' \in InOrder(Readable)
  /\ tombs' = LoadedTombs
  /\ next' = LoadedNext
  /\ recovered' = (recovered \/ Readable # {} \/ LoadedTombs # {})
  /\ UNCHANGED <<pending, pmap, job, build, disk, saved, lost, short>>

\* A replace over a share that is not atomic loses the manifest with its writer.
ManifestLost ==
  /\ "lost" \in Faults
  /\ job # None /\ job.at = "manifest" /\ manifest # None
  /\ manifest' = None
  /\ open' = FALSE /\ segs' = <<>> /\ tombs' = {} /\ pending' = <<>>
  /\ pmap' = None /\ next' = 0 /\ lost' = FALSE
  /\ job' = None
  /\ UNCHANGED <<build, files, tombFile, saved, recovered, short>>
-----------------------------------------------------------------------------
Init ==
  /\ open = FALSE
  /\ segs = <<>> /\ tombs = {} /\ pending = <<>> /\ pmap = None /\ next = 0
  /\ job = None /\ build = None
  /\ files = [n \in Numbers |-> None]
  /\ manifest = None /\ tombFile = {}
  /\ saved = {} /\ recovered = FALSE /\ lost = FALSE /\ short = FALSE

Next ==
  \/ \E p \in Paths : RemovePath(p)
  \/ \E p \in Paths, c \in Contents : AddDocument(p, c)
  \/ FlushFails \/ FlushLoses \/ SearchFlush \/ BuildPathMap \/ ReleasePathMapIfIdle
  \/ Flush \/ Compact \/ AlreadyCompact \/ Merge \/ MergeFails
  \/ SaveManifest \/ SaveTombstones \/ SaveFails \/ CleanupOrphans
  \/ BuildStarts \/ BuildWrites \/ FromSegmentFiles \/ CancelBuild
  \/ Crash \/ Open \/ Recover \/ ManifestLost

Spec == Init /\ [][Next]_vars
-----------------------------------------------------------------------------
(* Properties *)

\* A path has at most one live document.
OneLiveCopy == \A a, b \in LiveLocs : DocAt(a).path = DocAt(b).path => a = b

\* The path map has exactly the live documents, those in the buffer at the place
\* they will get.
MapIsExact ==
  /\ \A p \in Paths : pmap[p] # None => pmap[p] \in LiveLocs /\ DocAt(pmap[p]).path = p
  /\ \A a \in LiveLocs : pmap[DocAt(a).path] = a

\* Until a recovery without the manifest, an edited file never matches with its old
\* content as well.  Until a written buffer could not be opened either, the path map
\* is exact whenever it is built, and the count the server reports is the number of
\* live documents.
LiveIsExact ==
  /\ pending # <<>> => pmap # None
  /\ ~recovered => OneLiveCopy
  /\ Sure => /\ pmap # None => MapIsExact
             /\ DocumentCount = Cardinality(LiveLocs)

NamedAreReadable ==
  /\ manifest # None => \A i \in DOMAIN manifest.segs : manifest.segs[i] \in Readable
  /\ \A i \in DOMAIN segs : segs[i] \in Readable

\* Killed anywhere, the index loads, as neither the manifest nor the open index
\* names a file that does not open, and has exactly the committed documents.  Not
\* when the commit names no segment: an index committed empty and killed before its
\* old files are deleted has them recovered from the directory.
CommittedIsLoaded ==
  /\ NamedAreReadable
  /\ Names => LiveIn(manifest.segs, manifest.tombs) = saved

\* A segment file, once readable, keeps its documents until it is deleted.
SegmentsAreImmutable ==
  [][\A n \in Numbers : n \in Readable => files'[n] \in {files[n], None}]_vars
-----------------------------------------------------------------------------
(* Refinement *)

MapOf(docs) ==
  [p \in Paths |-> IF \E d \in docs : d.path = p
                   THEN (CHOOSE d \in docs : d.path = p).content ELSE None]
Exact == ~recovered /\ ~short /\ (manifest = None => saved = {})
\* What a build assembled is served once it is committed.
Serving == open /\ ~(job # None /\ job.kind = "build" /\ job.at = "manifest")
Abstract == INSTANCE DocumentMap WITH
  MayLose   <- "lost" \in Faults,
  MaySlip   <- "open" \in Faults,
  exact     <- Exact,
  view      <- IF ~Exact THEN NoMap
               ELSE IF ~Serving THEN MapOf(saved)
               ELSE IF lost THEN None ELSE MapOf(View),
  committed <- IF ~Exact THEN NoMap ELSE MapOf(saved)

\* The segments, tombstones, buffer and files together are one map from paths
\* to contents, committed by the manifest's replace and by nothing else.
ImplementsDocumentMap == Abstract!Spec
=============================================================================

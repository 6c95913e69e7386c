---------------------------- MODULE DiskSnapshot ----------------------------
(***************************************************************************)
(* The change ledger (src/CodeCompass.Core/Changes/DiskSnapshot.cs): path  *)
(* -> recorded file state.  An immutable base file holds most of it; edits *)
(* since live in an overlay (upserts) and a tombstone set (removals) that  *)
(* a journal persists.  Save() rewrites the journal, or folds everything   *)
(* into a base file with a fresh number, points the manifest at it and     *)
(* deletes the journal: three steps of the disk, with a crash possible     *)
(* between any two.  A build replaces the ledger with WriteFullBase in the *)
(* same three steps.  One process writes (the class's stated contract);    *)
(* SharedCache has the writers of several processes.                       *)
(***************************************************************************)
EXTENDS Naturals, FiniteSets, NumberedFiles

CONSTANTS Paths,            \* relative paths
          States,           \* values of FileState
          None,             \* no entry / no file / null
          Torn,             \* a file whose bytes do not parse
          CompactThreshold, \* CODECOMPASS_SNAPSHOT_COMPACT (an absolute count)
          MaxBase,          \* bound: base numbers 0 .. MaxBase are explored
          Faults            \* whether files may be damaged or unreadable

VARIABLES open,      \* an instance is open in the running process
          base,      \* _base: the mapped base (number and rows), or None
          overlay,   \* _overlay
          removed,   \* _removed
          nextBase,  \* _nextBaseNumber
          fold,      \* a base rewrite under way: what it has done so far
          files,     \* snapshot-N.base files on disk
          manifest,  \* snapshot.manifest: base name and next number, or None
          journal,   \* snapshot.journal, or None
          legacy,    \* snapshot.bin of an old version, or None
          saved      \* ghost: the ledger as last committed to disk

mem  == <<open, base, overlay, removed, nextBase>>
disk == <<files, manifest, journal, legacy>>
vars == <<open, base, overlay, removed, nextBase, fold, files, manifest,
          journal, legacy, saved>>

Numbers == 0 .. MaxBase
Rows    == [Paths -> States \cup {None}]
NoRows  == [p \in Paths |-> None]
Base    == [no : Numbers, rows : Rows]
\* "on" is a ghost: the base the journal was written over (None: no base).
Journal == [sets : Rows, rems : SUBSET Paths, on : Numbers \cup {None}]
Manifest == [file : Numbers, next : Nat]
Fold    == [kind : {"compact", "build", "migrate"}, at : {"written", "named"},
            no : Numbers, rows : Rows]

\* The sentinels are no ledger and no journal.
ASSUME ConstAssumption ==
  /\ None \notin States
  /\ {None, Torn} \cap (Rows \cup Journal \cup Base \cup Fold \cup Manifest) = {}
  /\ None # Torn
  /\ None \notin Numbers
  /\ CompactThreshold \in Nat
  /\ MaxBase \in Nat
  /\ Faults \in BOOLEAN
  /\ IsFiniteSet(Paths)

TypeOK ==
  /\ open \in BOOLEAN
  /\ base \in Base \cup {None}
  /\ overlay \in Rows
  /\ removed \in SUBSET Paths
  /\ nextBase \in Nat
  /\ fold \in Fold \cup {None}
  /\ files \in [Numbers -> Rows \cup {None, Torn}]
  /\ manifest \in Manifest \cup {None}
  /\ journal \in Journal \cup {None, Torn}
  /\ legacy \in Rows \cup {None}
  /\ saved \in Rows

KeysOf(rows) == {p \in Paths : rows[p] # None}
BaseRows     == IF base = None THEN NoRows ELSE base.rows

\* TryGetValue: tombstones first, then the overlay, then the base.
Merge(rows, sets, rems) ==
  [p \in Paths |-> IF p \in rems THEN None
                   ELSE IF sets[p] # None THEN sets[p] ELSE rows[p]]
View == Merge(BaseRows, overlay, removed)

\* Count and PendingCount.
Count == (Cardinality(KeysOf(BaseRows)) - Cardinality(removed))
         + Cardinality(KeysOf(overlay) \ KeysOf(BaseRows))
PendingCount == Cardinality(KeysOf(overlay)) + Cardinality(removed)

\* UnseenKeys: the live paths a walk that saw "seen" did not see.
UnseenKeys(seen) ==
  (KeysOf(BaseRows) \ (seen \cup removed))
  \cup (KeysOf(overlay) \ (seen \cup KeysOf(BaseRows)))

\* NumberedFiles.Next over the base files present.
NextBaseNumber == NextNumber({n \in Numbers : files[n] # None})
-----------------------------------------------------------------------------
(* In-memory edits *)

\* The indexer: [relPath] = state.
UpsertRemoved_Kept(p) == removed
UpsertRemoved(p) == removed \ {p}

Upsert(p, s) ==
  /\ open /\ fold = None
  /\ overlay' = [overlay EXCEPT ![p] = s]
  /\ removed' = UpsertRemoved(p)
  /\ UNCHANGED <<open, base, nextBase, fold, files, manifest, journal, legacy, saved>>

RemoveTombstones(p) ==
  IF p \in KeysOf(BaseRows) THEN removed \cup {p} ELSE removed

Remove(p) ==
  /\ open /\ fold = None
  /\ overlay' = [overlay EXCEPT ![p] = None]
  /\ removed' = RemoveTombstones(p)
  /\ UNCHANGED <<open, base, nextBase, fold, files, manifest, journal, legacy, saved>>
-----------------------------------------------------------------------------
(* Save: the journal, or a fold into a new base *)

MustFold == base = None \/ PendingCount >= CompactThreshold

WriteJournal ==
  /\ open /\ fold = None /\ ~MustFold
  /\ journal' = [sets |-> overlay, rems |-> removed, on |-> base.no]
  /\ saved' = View
  /\ UNCHANGED <<open, base, overlay, removed, nextBase, fold, files, manifest, legacy>>

\* MergeSorted streamed into a new file: base rows neither tombstoned nor
\* shadowed, then the overlay.
MergeSorted ==
  [p \in Paths |-> IF overlay[p] # None THEN overlay[p]
                   ELSE IF p \in removed THEN None ELSE BaseRows[p]]

\* The journal stays until the manifest names the new base.
JournalWhileFolding_Dropped == None
JournalWhileFolding == journal

CompactWrite ==
  /\ open /\ fold = None /\ MustFold
  /\ nextBase \in Numbers
  /\ journal' = JournalWhileFolding
  /\ files' = [files EXCEPT ![nextBase] = MergeSorted]
  /\ nextBase' = nextBase + 1
  /\ fold' = [kind |-> "compact", at |-> "written", no |-> nextBase, rows |-> MergeSorted]
  /\ UNCHANGED <<open, base, overlay, removed, manifest, legacy, saved>>

\* The write throws (disk full): a partial file stays, the number is not taken.
CompactWriteFails ==
  /\ Faults
  /\ open /\ fold = None /\ MustFold
  /\ nextBase \in Numbers
  /\ files' = [files EXCEPT ![nextBase] = Torn]
  /\ UNCHANGED <<open, base, overlay, removed, nextBase, fold, manifest, journal, legacy, saved>>

\* WriteFullBase's first step: a build's ledger, or the legacy blob that
\* MigrateLegacyIfNeeded found.  The number is read from the directory.
FullWrite(kind, rows) ==
  /\ ~open /\ fold = None
  /\ NextBaseNumber \in Numbers
  /\ files' = [files EXCEPT ![NextBaseNumber] = rows]
  /\ fold' = [kind |-> kind, at |-> "written", no |-> NextBaseNumber, rows |-> rows]
  /\ UNCHANGED <<open, base, overlay, removed, nextBase, manifest, journal, legacy, saved>>

BuildWrites == \E rows \in Rows : FullWrite("build", rows)
MigrateWrites == manifest = None /\ legacy # None /\ FullWrite("migrate", legacy)

\* The manifest's atomic replace is what commits a fold.
NameBase ==
  /\ fold # None /\ fold.at = "written"
  /\ manifest' = [file |-> fold.no, next |-> fold.no + 1]
  /\ fold' = [fold EXCEPT !.at = "named"]
  /\ saved' = fold.rows
  /\ UNCHANGED <<open, base, overlay, removed, nextBase, files, journal, legacy>>

\* The replace throws: the new base is an orphan and the old ledger stands.
NameBaseFails ==
  /\ Faults
  /\ fold # None /\ fold.at = "written"
  /\ fold' = None
  /\ UNCHANGED <<open, base, overlay, removed, nextBase, files, manifest, journal, legacy, saved>>

\* DeleteJournal, the swap to the new base, CleanupOrphans.  The deletes are
\* best-effort: a file someone has open (the journal) or mapped (a base) stays.
\* A migration also deletes the old blob.
FinishFold ==
  /\ fold # None /\ fold.at = "named"
  /\ journal' \in {journal, None}
  /\ \E gone \in SUBSET (Numbers \ {fold.no}) :
       files' = [n \in Numbers |-> IF n \in gone THEN None ELSE files[n]]
  /\ fold' = None
  /\ \/ /\ fold.kind = "compact"
        /\ base' = [no |-> fold.no, rows |-> fold.rows]
        /\ overlay' = NoRows
        /\ removed' = {}
        /\ UNCHANGED legacy
     \/ /\ fold.kind = "build"
        /\ UNCHANGED <<base, overlay, removed, legacy>>
     \/ /\ fold.kind = "migrate"
        /\ legacy' \in {legacy, None}
        /\ UNCHANGED <<base, overlay, removed>>
  /\ UNCHANGED <<open, nextBase, manifest, saved>>

\* Compact cannot map the base it just named: the exception leaves the
\* instance on its old base, with the overlay it has already folded.
MapNewBaseFails ==
  /\ Faults
  /\ fold # None /\ fold.at = "named" /\ fold.kind = "compact"
  /\ journal' \in {journal, None}
  /\ fold' = None
  /\ UNCHANGED <<open, base, overlay, removed, nextBase, files, manifest, legacy, saved>>
-----------------------------------------------------------------------------
(* The process ends or is killed; Open reads what is on disk *)

Crash ==
  /\ open \/ fold # None
  /\ open' = FALSE
  /\ fold' = None
  /\ base' = None
  /\ overlay' = NoRows
  /\ removed' = {}
  /\ nextBase' = 0
  /\ UNCHANGED <<files, manifest, journal, legacy, saved>>

\* LoadManifestAndBase: a base that is missing or unreadable loads as none.
LoadedBase_Unchecked ==
  IF manifest = None THEN None ELSE [no |-> manifest.file, rows |-> files[manifest.file]]
LoadedBase ==
  IF manifest = None THEN None
  ELSE IF files[manifest.file] \in Rows
       THEN [no |-> manifest.file, rows |-> files[manifest.file]]
       ELSE None
\* LoadJournal: a journal that does not parse is dropped whole; a tombstone
\* for a path outside the base is not admitted.
LoadedSets == IF journal \in Journal THEN journal.sets ELSE NoRows
LoadedRemoved_Unchecked(b) == IF journal \in Journal THEN journal.rems ELSE {}
LoadedRemoved(b) ==
  IF journal \in Journal /\ b # None THEN journal.rems \cap KeysOf(b.rows) ELSE {}
LoadedRows == IF LoadedBase = None THEN NoRows ELSE LoadedBase.rows
Loaded == Merge(LoadedRows, LoadedSets, LoadedRemoved(LoadedBase))

OpenNext_Unclamped == IF manifest = None THEN 0 ELSE manifest.next
OpenNext == AtLeast(IF manifest = None THEN 0 ELSE manifest.next, NextBaseNumber)

Open ==
  /\ ~open /\ fold = None
  /\ manifest # None \/ legacy = None \/ Faults \* else it migrates first
  /\ open' = TRUE
  /\ base' = LoadedBase
  /\ overlay' = LoadedSets
  /\ removed' = LoadedRemoved(LoadedBase)
  /\ nextBase' = OpenNext
  /\ UNCHANGED <<fold, files, manifest, journal, legacy, saved>>

\* The manifest exists but the read throws: no base, numbers from the directory.
OpenUnreadable ==
  /\ Faults
  /\ ~open /\ fold = None /\ manifest # None
  /\ open' = TRUE
  /\ base' = None
  /\ overlay' = LoadedSets
  /\ removed' = {}
  /\ nextBase' = NextBaseNumber
  /\ UNCHANGED <<fold, files, manifest, journal, legacy, saved>>

\* Damage outside the program's control.
TearJournal ==
  /\ Faults /\ ~open /\ fold = None
  /\ journal \in Journal
  /\ journal' = Torn
  /\ UNCHANGED <<open, base, overlay, removed, nextBase, fold, files, manifest, legacy, saved>>

TearBase ==
  /\ Faults /\ ~open /\ fold = None
  /\ \E n \in Numbers : files[n] \in Rows /\ files' = [files EXCEPT ![n] = Torn]
  /\ UNCHANGED <<open, base, overlay, removed, nextBase, fold, manifest, journal, legacy, saved>>
-----------------------------------------------------------------------------
Init ==
  /\ open = FALSE
  /\ base = None
  /\ overlay = NoRows
  /\ removed = {}
  /\ nextBase = 0
  /\ fold = None
  /\ files = [n \in Numbers |-> None]
  /\ manifest = None
  /\ journal = None
  /\ legacy \in Rows \cup {None}
  /\ saved = NoRows

Next ==
  \/ \E p \in Paths, s \in States : Upsert(p, s)
  \/ \E p \in Paths : Remove(p)
  \/ WriteJournal
  \/ CompactWrite \/ CompactWriteFails
  \/ BuildWrites \/ MigrateWrites
  \/ NameBase \/ NameBaseFails \/ FinishFold \/ MapNewBaseFails
  \/ Crash \/ Open \/ OpenUnreadable
  \/ TearJournal \/ TearBase

Spec == Init /\ [][Next]_vars
-----------------------------------------------------------------------------
(* Properties *)

\* The live instance's tombstones are base paths and no path is both upserted
\* and tombstoned: what Compact's count and blob arithmetic rests on ("all
\* removed exist in base"), also after a journal outlived its base.
TombstonesSound ==
  /\ removed \subseteq KeysOf(BaseRows)
  /\ removed \cap KeysOf(overlay) = {}

\* Count, which Compact declares in the header of the file it streams, is the
\* number of entries streamed: SnapshotBaseFile.Write throws when they differ.
CountIsExact == Count = Cardinality(KeysOf(MergeSorted))

\* What TryGetValue answers, what Compact streams and what UnseenKeys lists
\* for pruning are one ledger: a walk prunes exactly the live paths it missed.
ReadersAgree ==
  /\ MergeSorted = View
  /\ \A seen \in SUBSET Paths : UnseenKeys(seen) = KeysOf(View) \ seen

\* The journal on disk belongs to the base the manifest names.
JournalFresh ==
  \/ journal = None
  \/ /\ journal \in Journal
     /\ IF manifest = None THEN journal.on = None ELSE journal.on = manifest.file
BaseIntact == manifest = None \/ files[manifest.file] \in Rows

\* Opening the ledger gives back what was last committed, wherever the writer
\* was killed, unless a file is damaged or a journal outlived its base.
LoadedIsSaved == JournalFresh /\ BaseIntact => Loaded = saved

\* No rewrite replaces the contents of a readable base file: a process that
\* has it mapped keeps reading what it opened.
BasesAreImmutable ==
  [][\A n \in Numbers : files[n] \in Rows => files'[n] \in {files[n], None, Torn}]_vars

-----------------------------------------------------------------------------
(* The inductive invariant behind LoadedIsSaved and BasesAreImmutable *)

\* The named base exists, and a journal was written over it or an earlier one.
NamesAreOrdered ==
  /\ manifest # None => files[manifest.file] # None
  /\ journal \in Journal =>
       /\ manifest # None
       /\ journal.on \in Numbers
       /\ journal.on <= manifest.file
       /\ journal.rems \cap KeysOf(journal.sets) = {}

\* The number the open instance will use next is above every base it could hit.
NextIsAbove ==
  open => /\ \A n \in Numbers : files[n] \in Rows => n < nextBase
          /\ manifest # None => manifest.file < nextBase
          /\ fold # None => fold.no < nextBase

\* The mapped base is the one the manifest names, or an earlier one (a fold
\* renamed it and the new base is not mapped yet, or could not be).
MappedIsNamed ==
  open /\ base # None =>
    /\ manifest # None
    /\ base.no <= manifest.file
    /\ base.no = manifest.file => files[base.no] = base.rows

FoldSound ==
  fold # None =>
    /\ files[fold.no] = fold.rows
    /\ (fold.kind = "compact") <=> open
    /\ fold.at = "written" /\ manifest # None => manifest.file < fold.no
    /\ fold.at = "named" =>
         /\ manifest # None
         /\ manifest.file = fold.no
         /\ saved = fold.rows
         /\ journal \in Journal => journal.on < fold.no

DiskInv == NamesAreOrdered /\ NextIsAbove /\ MappedIsNamed /\ FoldSound
\* The ledger as its callers see it: open, it answers what a lookup answers.
Abstract == INSTANCE PathLedger WITH
  certain   <- JournalFresh /\ BaseIntact,
  view      <- IF open THEN View ELSE None,
  committed <- saved

\* Base, overlay, tombstones, journal and manifest together are one map that edits
\* alone change and saves commit: folds, failures and deletes show in no answer.
ImplementsLedger == Abstract!Spec
=============================================================================

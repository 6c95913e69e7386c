---------------------------- MODULE LedgerProofs ----------------------------
(***************************************************************************)
(* Proofs about the change ledger.  DiskSnapshot: for any set of paths and *)
(* states, any compaction threshold and any number of bases, and about the *)
(* numbering of cache files that it rests on; its last section shows that  *)
(* the ledger is a map, PathLedger, of which a crash keeps what was        *)
(* committed.  LedgerTrust: for every clock the margins are chosen for,    *)
(* any contents, dates and length of time, its types and the two           *)
(* invariants its run checks.                                              *)
(***************************************************************************)
EXTENDS DiskSnapshot, LedgerTrust, FiniteSetTheorems, WellFoundedInduction, TLAPS
-----------------------------------------------------------------------------
(* The numbering of cache files *)

NatLess == {ss \in Nat \X Nat : ss[1] < ss[2]}

\* Every non-empty set of naturals has a least element.
LEMMA LeastNatural ==
  ASSUME NEW T \in SUBSET Nat, T # {}
  PROVE  \E x \in T : \A y \in T : x <= y
<1>1. IsWellFoundedOn(NatLess, Nat)
  BY NatLessThanWellFounded DEF OpToRel, NatLess
<1>2. PICK x \in T : \A y \in T : <<y, x>> \notin NatLess
  BY <1>1, WFMin
<1>3. \A y, z \in Nat : <<y, z>> \in NatLess <=> y < z
  BY DEF NatLess
<1>4. ASSUME NEW y \in T PROVE x <= y
  <2>1. x \in Nat /\ y \in Nat
    OBVIOUS
  <2>2. ~(y < x)
    BY <1>2, <1>3, <2>1
  <2> QED BY <2>1, <2>2
<1> QED BY <1>4

\* NumberedFiles.Next always answers, with a number above every file present.
THEOREM NextNumberIsFresh ==
  ASSUME NEW bound \in Nat, NEW used \in SUBSET (0 .. bound)
  PROVE  /\ NextNumber(used) \in Nat
         /\ \A n \in used : n < NextNumber(used)
<1> DEFINE T == {k \in Nat : \A n \in used : n < k}
<1>1. bound + 1 \in T
  OBVIOUS
<1>2. PICK m \in T : \A k \in T : m <= k
  BY <1>1, LeastNatural
<1>3. m \in {0} \cup {n + 1 : n \in used}
  <2>1. CASE m = 0
    BY <2>1
  <2>2. CASE m # 0
    <3>1. m - 1 \in Nat /\ m - 1 \notin T
      BY <1>2, <2>2
    <3>2. PICK n \in used : ~(n < m - 1)
      BY <3>1
    <3>3. n \in Nat /\ n < m
      BY <1>2
    <3>4. m = n + 1
      BY <3>1, <3>2, <3>3
    <3> QED BY <3>4
  <2> QED BY <2>1, <2>2
<1>4. \E k \in {0} \cup {n + 1 : n \in used} : \A n \in used : n < k
  BY <1>2, <1>3
<1>5. /\ NextNumber(used) \in {0} \cup {n + 1 : n \in used}
      /\ \A n \in used : n < NextNumber(used)
  BY <1>4, Zenon DEF NextNumber
<1>6. \A n \in used : n + 1 \in Nat
  OBVIOUS
<1> QED BY <1>5, <1>6

-----------------------------------------------------------------------------
(* Operators of the ledger *)

USE ConstAssumption

LEMMA NoRowsType == NoRows \in Rows
BY DEF NoRows, Rows

LEMMA MergeType ==
  ASSUME NEW r \in Rows, NEW s \in Rows, NEW x \in SUBSET Paths
  PROVE  Merge(r, s, x) \in Rows
BY DEF Merge, Rows

LEMMA MergeSortedType == TypeOK => MergeSorted \in Rows
BY NoRowsType DEF TypeOK, MergeSorted, BaseRows, Base, Rows

LEMMA NextBaseNumberFresh ==
  /\ NextBaseNumber \in Nat
  /\ \A n \in Numbers : files[n] # None => n < NextBaseNumber
<1> DEFINE used == {n \in Numbers : files[n] # None}
<1>1. used \in SUBSET (0 .. MaxBase) /\ MaxBase \in Nat
  BY DEF Numbers
<1>2. NextNumber(used) \in Nat /\ \A n \in used : n < NextNumber(used)
  BY <1>1, NextNumberIsFresh
<1> QED BY <1>2 DEF NextBaseNumber

LEMMA LoadedBaseType == TypeOK => LoadedBase \in Base \cup {None}
BY DEF TypeOK, LoadedBase, Base, Manifest, Numbers
-----------------------------------------------------------------------------
(* Type correctness *)

LEMMA TypeInit == Init => TypeOK
<1> SUFFICES ASSUME Init PROVE TypeOK
  OBVIOUS
<1>1. files \in [Numbers -> Rows \cup {None, Torn}]
  BY DEF Init
<1>2. overlay \in Rows /\ saved \in Rows /\ legacy \in Rows \cup {None}
  BY NoRowsType DEF Init
<1> QED BY <1>1, <1>2 DEF Init, TypeOK

LEMMA TypeNext == TypeOK /\ [Next]_vars => TypeOK'
<1> SUFFICES ASSUME TypeOK, [Next]_vars PROVE TypeOK'
  OBVIOUS
<1>1. ASSUME NEW p \in Paths, NEW s \in States, Upsert(p, s) PROVE TypeOK'
  BY <1>1 DEF TypeOK, Upsert, UpsertRemoved, Rows
<1>2. ASSUME NEW p \in Paths, Remove(p) PROVE TypeOK'
  BY <1>2 DEF TypeOK, Remove, RemoveTombstones, Rows
<1>3. CASE WriteJournal
  <2>1. base \in Base
    BY <1>3 DEF TypeOK, WriteJournal, MustFold
  <2>2. View \in Rows
    BY MergeType, NoRowsType DEF View, TypeOK, BaseRows, Base
  <2> QED BY <1>3, <2>1, <2>2 DEF TypeOK, WriteJournal, Journal, Base
<1>4. CASE CompactWrite
  BY <1>4, MergeSortedType DEF TypeOK, CompactWrite, JournalWhileFolding, Fold, Numbers
<1>5. CASE CompactWriteFails
  BY <1>5 DEF TypeOK, CompactWriteFails
<1>6. ASSUME NEW kind \in {"build", "migrate"}, NEW rows \in Rows, FullWrite(kind, rows) PROVE TypeOK'
  BY <1>6 DEF TypeOK, FullWrite, Fold
<1>7. CASE NameBase
  BY <1>7 DEF TypeOK, NameBase, Fold, Manifest, Numbers
<1>8. CASE NameBaseFails
  BY <1>8 DEF TypeOK, NameBaseFails
<1>9. CASE FinishFold
  BY <1>9, NoRowsType DEF TypeOK, FinishFold, Fold, Base
<1>16. CASE MapNewBaseFails
  BY <1>16 DEF TypeOK, MapNewBaseFails
<1>10. CASE Crash
  BY <1>10, NoRowsType DEF TypeOK, Crash
<1>11. CASE Open
  BY <1>11, NoRowsType, LoadedBaseType, NextBaseNumberFresh
  DEF TypeOK, Open, LoadedSets, LoadedRemoved, OpenNext, AtLeast, Journal, Manifest, KeysOf, Numbers
<1>12. CASE OpenUnreadable
  BY <1>12, NoRowsType, NextBaseNumberFresh DEF TypeOK, OpenUnreadable, LoadedSets, Journal
<1>13. CASE TearJournal
  BY <1>13 DEF TypeOK, TearJournal
<1>14. CASE TearBase
  BY <1>14 DEF TypeOK, TearBase
<1>15. CASE UNCHANGED vars
  BY <1>15 DEF TypeOK, vars
<1> QED
  BY <1>1, <1>2, <1>3, <1>4, <1>5, <1>6, <1>7, <1>8, <1>9, <1>10, <1>11, <1>12,
     <1>13, <1>14, <1>15, <1>16 DEF Next, BuildWrites, MigrateWrites, TypeOK

\* Every variable stays in its type.
THEOREM TypeCorrect == Spec => []TypeOK
BY TypeInit, TypeNext, PTL DEF Spec
-----------------------------------------------------------------------------
(* The live instance *)

\* A tombstone never hides an upsert nor names a path outside the base.
LEMMA TombstonesNext ==
  TypeOK /\ NamesAreOrdered /\ TombstonesSound /\ [Next]_vars => TombstonesSound'
<1> SUFFICES ASSUME TypeOK, NamesAreOrdered, TombstonesSound, [Next]_vars
             PROVE  TombstonesSound'
  OBVIOUS
<1> USE DEF TombstonesSound, KeysOf, BaseRows
<1>1. ASSUME NEW p \in Paths, NEW s \in States, Upsert(p, s) PROVE TombstonesSound'
  BY <1>1 DEF Upsert, UpsertRemoved, TypeOK, Rows
<1>2. ASSUME NEW p \in Paths, Remove(p) PROVE TombstonesSound'
  BY <1>2 DEF Remove, RemoveTombstones, TypeOK, Rows
<1>3. CASE FinishFold
  BY <1>3 DEF FinishFold
<1>4. CASE Crash
  BY <1>4 DEF Crash
<1>5. CASE Open
  BY <1>5 DEF Open, LoadedRemoved, LoadedSets, NamesAreOrdered, NoRows
<1>6. CASE OpenUnreadable
  BY <1>6 DEF OpenUnreadable
<1>7. CASE UNCHANGED <<base, overlay, removed>>
  BY <1>7
<1> QED
  BY <1>1, <1>2, <1>3, <1>4, <1>5, <1>6, <1>7
  DEF Next, vars, WriteJournal, CompactWrite, CompactWriteFails, BuildWrites,
      MigrateWrites, FullWrite, NameBase, NameBaseFails, MapNewBaseFails,
      TearJournal, TearBase
-----------------------------------------------------------------------------
(* The files *)

LEMMA Sentinels ==
  /\ \A r \in Rows : r # None /\ r # Torn
  /\ \A j \in Journal : j # None /\ j # Torn
  /\ \A f \in Fold : f # None
  /\ \A b \in Base : b # None
  /\ \A m \in Manifest : m # None
BY DEF ConstAssumption

\* Each step keeps the numbers ordered and the fold's bookkeeping true.
LEMMA DiskInvNext ==
  TypeOK /\ TombstonesSound /\ DiskInv /\ [Next]_vars => DiskInv'
<1> SUFFICES ASSUME TypeOK, TombstonesSound, DiskInv, [Next]_vars
             PROVE  DiskInv'
  OBVIOUS
<1> USE Sentinels DEF DiskInv
<1>1. ASSUME NEW p \in Paths, NEW s \in States, Upsert(p, s) PROVE DiskInv'
  BY <1>1 DEF Upsert, NamesAreOrdered, NextIsAbove, MappedIsNamed, FoldSound
<1>2. ASSUME NEW p \in Paths, Remove(p) PROVE DiskInv'
  BY <1>2 DEF Remove, NamesAreOrdered, NextIsAbove, MappedIsNamed, FoldSound
<1>3. CASE WriteJournal
  <2>1. base \in Base /\ manifest # None /\ base.no <= manifest.file
    BY <1>3 DEF TypeOK, WriteJournal, MustFold, MappedIsNamed
  <2>2. NamesAreOrdered'
    BY <1>3, <2>1 DEF WriteJournal, NamesAreOrdered, TombstonesSound, Base, KeysOf, TypeOK, Manifest, Numbers
  <2>3. (NextIsAbove /\ MappedIsNamed /\ FoldSound)'
    BY <1>3 DEF WriteJournal, NextIsAbove, MappedIsNamed, FoldSound
  <2> QED BY <2>2, <2>3
<1>4. CASE CompactWrite
  <2>1. /\ nextBase \in Numbers /\ MergeSorted \in Rows
        /\ files[nextBase] \notin Rows
        /\ manifest # None => manifest.file < nextBase /\ manifest.file \in Numbers
    BY <1>4, MergeSortedType DEF CompactWrite, NextIsAbove, TypeOK, Manifest, Numbers
  <2>2. \A n \in Numbers : files'[n] = IF n = nextBase THEN MergeSorted ELSE files[n]
    BY <1>4 DEF CompactWrite, TypeOK
  <2>3. NamesAreOrdered'
    BY <1>4, <2>1, <2>2 DEF CompactWrite, JournalWhileFolding, NamesAreOrdered, KeysOf, Journal
  <2>4. NextIsAbove'
    BY <1>4, <2>1, <2>2 DEF CompactWrite, NextIsAbove, Numbers
  <2>5. MappedIsNamed'
    BY <1>4, <2>1, <2>2 DEF CompactWrite, MappedIsNamed, TypeOK, Manifest, Numbers
  <2>6. FoldSound'
    BY <1>4, <2>1, <2>2 DEF CompactWrite, FoldSound
  <2> QED BY <2>3, <2>4, <2>5, <2>6
<1>5. CASE CompactWriteFails
  <2>1. /\ nextBase \in Numbers
        /\ manifest # None => manifest.file < nextBase /\ manifest.file \in Numbers
    BY <1>5 DEF CompactWriteFails, NextIsAbove, TypeOK, Manifest, Numbers
  <2>2. \A n \in Numbers : files'[n] = IF n = nextBase THEN Torn ELSE files[n]
    BY <1>5 DEF CompactWriteFails, TypeOK
  <2>3. Torn \notin Rows /\ Torn # None
    BY DEF ConstAssumption
  <2>4. NamesAreOrdered'
    BY <1>5, <2>1, <2>2, <2>3 DEF CompactWriteFails, NamesAreOrdered, KeysOf
  <2>5. NextIsAbove'
    BY <1>5, <2>1, <2>2, <2>3 DEF CompactWriteFails, NextIsAbove, Numbers
  <2>6. MappedIsNamed'
    BY <1>5, <2>1, <2>2 DEF CompactWriteFails, MappedIsNamed, TypeOK, Manifest, Numbers
  <2>7. FoldSound'
    BY <1>5 DEF CompactWriteFails, FoldSound
  <2> QED BY <2>4, <2>5, <2>6, <2>7
<1>6. ASSUME NEW kind \in {"build", "migrate"}, NEW rows \in Rows, FullWrite(kind, rows) PROVE DiskInv'
  <2>1. /\ NextBaseNumber \in Numbers
        /\ manifest # None => manifest.file < NextBaseNumber /\ manifest.file \in Numbers
    BY <1>6, NextBaseNumberFresh DEF FullWrite, NamesAreOrdered, TypeOK, Manifest
  <2>2. \A n \in Numbers : files'[n] = IF n = NextBaseNumber THEN rows ELSE files[n]
    BY <1>6 DEF FullWrite, TypeOK
  <2>3. NamesAreOrdered'
    BY <1>6, <2>1, <2>2 DEF FullWrite, NamesAreOrdered, KeysOf
  <2>4. (NextIsAbove /\ MappedIsNamed)'
    BY <1>6 DEF FullWrite, NextIsAbove, MappedIsNamed
  <2>5. FoldSound'
    BY <1>6, <2>1, <2>2 DEF FullWrite, FoldSound
  <2> QED BY <2>3, <2>4, <2>5
<1>7. CASE NameBase
  <2>1. fold \in Fold /\ fold.at = "written" /\ fold.no \in Numbers /\ fold.rows \in Rows
    BY <1>7 DEF NameBase, TypeOK, Fold
  <2>2. manifest' # None /\ manifest'.file = fold.no /\ files[fold.no] = fold.rows
    <3>1. manifest' = [file |-> fold.no, next |-> fold.no + 1] /\ manifest' \in Manifest
      BY <1>7, <2>1 DEF NameBase, Manifest, Numbers
    <3> QED BY <2>1, <3>1 DEF FoldSound
  <2>3. journal \in Journal => journal.on \in Numbers /\ journal.on < fold.no
    BY <1>7, <2>1 DEF NameBase, FoldSound, NamesAreOrdered, TypeOK, Manifest, Numbers
  <2>4. NamesAreOrdered'
    BY <1>7, <2>1, <2>2, <2>3 DEF NameBase, NamesAreOrdered, KeysOf, Numbers
  <2>5. NextIsAbove'
    BY <1>7, <2>1, <2>2 DEF NameBase, NextIsAbove
  <2>6. fold' # None /\ fold' = [fold EXCEPT !.at = "named"] /\ fold'.at = "named"
        /\ fold'.no = fold.no /\ fold'.rows = fold.rows /\ fold'.kind = fold.kind
    BY <1>7, <2>1 DEF NameBase, Fold
  <2>7. MappedIsNamed'
    <3> SUFFICES ASSUME open, base # None
                 PROVE  manifest'.file = fold.no /\ base.no < fold.no
      BY <1>7, <2>1, <2>2 DEF NameBase, MappedIsNamed, Fold, Base, Numbers, TypeOK
    <3>1. manifest # None /\ base.no <= manifest.file /\ manifest.file < fold.no
      BY <1>7, <2>1 DEF NameBase, MappedIsNamed, FoldSound
    <3> QED BY <1>7, <2>1, <3>1 DEF NameBase, TypeOK, Fold, Base, Manifest, Numbers
  <2>8. FoldSound'
    BY <1>7, <2>1, <2>2, <2>3, <2>6 DEF NameBase, FoldSound
  <2> QED BY <2>4, <2>5, <2>7, <2>8
<1>8. CASE NameBaseFails
  BY <1>8 DEF NameBaseFails, NamesAreOrdered, NextIsAbove, MappedIsNamed, FoldSound
<1>9. CASE FinishFold
  <2>1. fold \in Fold /\ manifest # None /\ manifest.file = fold.no /\ files[fold.no] = fold.rows
    BY <1>9 DEF FinishFold, TypeOK, FoldSound
  <2>2. PICK gone \in SUBSET (Numbers \ {fold.no}) :
          files' = [n \in Numbers |-> IF n \in gone THEN None ELSE files[n]]
    BY <1>9 DEF FinishFold
  <2>3. files'[fold.no] = files[fold.no]
        /\ \A n \in Numbers : files'[n] \in Rows => files[n] \in Rows
    BY <2>1, <2>2 DEF Fold
  <2>4. NamesAreOrdered'
    BY <1>9, <2>1, <2>3 DEF FinishFold, NamesAreOrdered, KeysOf
  <2>5. NextIsAbove'
    BY <1>9, <2>1, <2>3 DEF FinishFold, NextIsAbove
  <2>6. MappedIsNamed'
    <3>1. CASE fold.kind = "compact"
      <4>1. base' = [no |-> fold.no, rows |-> fold.rows] /\ manifest' = manifest
        BY <1>9, <3>1 DEF FinishFold
      <4>2. base'.no = fold.no /\ base'.rows = fold.rows /\ manifest'.file = fold.no
            /\ fold.no \in Nat
        BY <2>1, <4>1 DEF Fold, Numbers
      <4> QED BY <2>1, <2>3, <4>1, <4>2 DEF MappedIsNamed
    <3>2. CASE fold.kind # "compact"
      BY <1>9, <2>1, <3>2 DEF FinishFold, MappedIsNamed, FoldSound
    <3> QED BY <3>1, <3>2
  <2>7. FoldSound'
    BY <1>9 DEF FinishFold, FoldSound
  <2> QED BY <2>4, <2>5, <2>6, <2>7
<1>16. CASE MapNewBaseFails
  BY <1>16 DEF MapNewBaseFails, NamesAreOrdered, NextIsAbove, MappedIsNamed, FoldSound, KeysOf
<1>10. CASE Crash
  BY <1>10 DEF Crash, NamesAreOrdered, NextIsAbove, MappedIsNamed, FoldSound, KeysOf
<1>11. CASE Open
  <2>1. /\ \A n \in Numbers : files[n] # None => n < OpenNext
        /\ OpenNext \in Nat
    BY NextBaseNumberFresh DEF TypeOK, OpenNext, AtLeast, Manifest, Numbers
  <2>2. NextIsAbove'
    BY <1>11, <2>1 DEF Open, NextIsAbove, NamesAreOrdered, TypeOK, Manifest
  <2>3. MappedIsNamed'
    <3> SUFFICES ASSUME base' # None
                 PROVE  /\ manifest # None
                        /\ base'.no = manifest.file /\ base'.no \in Nat
                        /\ files[base'.no] = base'.rows
      BY <1>11 DEF Open, MappedIsNamed
    <3>1. base' = [no |-> manifest.file, rows |-> files[manifest.file]] /\ manifest # None
      BY <1>11 DEF Open, LoadedBase
    <3> QED BY <3>1 DEF TypeOK, Manifest, Numbers
  <2>4. (NamesAreOrdered /\ FoldSound)'
    BY <1>11 DEF Open, NamesAreOrdered, FoldSound, KeysOf
  <2> QED BY <2>2, <2>3, <2>4
<1>12. CASE OpenUnreadable
  <2>1. NextIsAbove'
    BY <1>12, NextBaseNumberFresh DEF OpenUnreadable, NextIsAbove, NamesAreOrdered, TypeOK, Manifest
  <2>2. (NamesAreOrdered /\ FoldSound /\ MappedIsNamed)'
    BY <1>12 DEF OpenUnreadable, NamesAreOrdered, FoldSound, MappedIsNamed, KeysOf
  <2> QED BY <2>1, <2>2
<1>13. CASE TearJournal
  <2>1. journal' \notin Journal
    BY <1>13 DEF TearJournal, ConstAssumption
  <2> QED
    BY <1>13, <2>1 DEF TearJournal, NamesAreOrdered, NextIsAbove, MappedIsNamed, FoldSound
<1>14. CASE TearBase
  <2>1. /\ \A n \in Numbers : files[n] # None => files'[n] # None
        /\ \A n \in Numbers : files'[n] \in Rows => files[n] \in Rows
    BY <1>14 DEF TearBase, TypeOK, ConstAssumption
  <2> QED
    BY <1>14, <2>1 DEF TearBase, NamesAreOrdered, NextIsAbove, MappedIsNamed, FoldSound, KeysOf, TypeOK, Manifest
<1>15. CASE UNCHANGED vars
  BY <1>15 DEF vars, NamesAreOrdered, NextIsAbove, MappedIsNamed, FoldSound, KeysOf
<1> QED
  BY <1>1, <1>2, <1>3, <1>4, <1>5, <1>6, <1>7, <1>8, <1>9, <1>10, <1>11, <1>12,
     <1>13, <1>14, <1>15, <1>16 DEF Next, BuildWrites, MigrateWrites, TypeOK
-----------------------------------------------------------------------------
(* What a reopened ledger holds *)

\* What Open reads depends on the disk alone.
LEMMA LoadedStable ==
  ASSUME TypeOK, UNCHANGED <<manifest, journal, saved>>, LoadedIsSaved,
         manifest # None =>
           \/ files'[manifest.file] = files[manifest.file]
           \/ files'[manifest.file] \notin Rows
  PROVE  LoadedIsSaved'
<1> SUFFICES ASSUME JournalFresh', BaseIntact' PROVE Loaded' = saved'
  BY DEF LoadedIsSaved
<1>1. JournalFresh /\ BaseIntact /\ LoadedBase' = LoadedBase
  BY DEF JournalFresh, BaseIntact, LoadedBase
<1>2. Loaded' = Loaded
  BY <1>1 DEF Loaded, LoadedRows, LoadedSets, LoadedRemoved
<1> QED BY <1>1, <1>2 DEF LoadedIsSaved

\* With nothing to merge, the base is the ledger.
LEMMA MergeNothing ==
  ASSUME NEW r \in Rows
  PROVE  Merge(r, NoRows, {}) = r
BY DEF Merge, NoRows, Rows

\* After a fold has dropped the journal, or found none, its base is loaded.
LEMMA LoadedFold ==
  ASSUME NEW r \in Rows, NEW n \in Numbers,
         manifest' # None, manifest'.file = n, files'[n] = r, journal' = None
  PROVE  Loaded' = r
<1>1. LoadedBase' = [no |-> n, rows |-> r] /\ LoadedBase' # None
  BY Sentinels DEF LoadedBase, Base
<1>2. LoadedRows' = r /\ LoadedSets' = NoRows /\ LoadedRemoved(LoadedBase)' = {}
  BY <1>1, Sentinels DEF LoadedRows, LoadedSets, LoadedRemoved
<1> QED BY <1>2, MergeNothing DEF Loaded

LEMMA LoadedNext ==
  TypeOK /\ TombstonesSound /\ DiskInv /\ LoadedIsSaved /\ [Next]_vars
    => LoadedIsSaved'
<1> SUFFICES ASSUME TypeOK, TombstonesSound, DiskInv, LoadedIsSaved, [Next]_vars
             PROVE  LoadedIsSaved'
  OBVIOUS
<1> USE Sentinels DEF DiskInv
<1>1. CASE UNCHANGED <<files, manifest, journal, saved>>
  BY <1>1, LoadedStable
<1>2. CASE WriteJournal
  <2> SUFFICES ASSUME JournalFresh' PROVE Loaded' = saved'
    BY DEF LoadedIsSaved
  <2>1. /\ base \in Base /\ manifest # None /\ manifest.file = base.no
        /\ files[manifest.file] = base.rows /\ base.rows \in Rows
    <3>1. base \in Base /\ journal' \in Journal /\ journal'.on = base.no
      BY <1>2 DEF TypeOK, WriteJournal, MustFold, Journal, Base
    <3> QED BY <1>2, <3>1 DEF TypeOK, WriteJournal, MappedIsNamed, Base, JournalFresh
  <2>2. journal' \in Journal /\ journal'.sets = overlay /\ journal'.rems = removed
    BY <1>2, <2>1 DEF WriteJournal, Journal, TypeOK, Base
  <2>3. LoadedBase' = [no |-> base.no, rows |-> base.rows] /\ LoadedBase' # None
    BY <1>2, <2>1 DEF WriteJournal, LoadedBase, Base
  <2>4. LoadedRows' = BaseRows /\ LoadedSets' = overlay
    BY <1>2, <2>1, <2>2, <2>3 DEF LoadedRows, LoadedSets, BaseRows
  <2>5. LoadedRemoved(LoadedBase)' = removed
    BY <2>1, <2>2, <2>3 DEF LoadedRemoved, TombstonesSound, BaseRows
  <2>6. Loaded' = View
    BY <2>4, <2>5 DEF Loaded, View
  <2> QED BY <1>2, <2>6 DEF WriteJournal
<1>3. CASE CompactWrite
  <2>1. manifest # None => files'[manifest.file] = files[manifest.file]
    BY <1>3 DEF CompactWrite, NextIsAbove, TypeOK, Manifest, Numbers
  <2> QED BY <1>3, <2>1, LoadedStable DEF CompactWrite, JournalWhileFolding
<1>4. CASE CompactWriteFails
  <2>1. manifest # None => files'[manifest.file] = files[manifest.file]
    BY <1>4 DEF CompactWriteFails, NextIsAbove, TypeOK, Manifest, Numbers
  <2> QED BY <1>4, <2>1, LoadedStable DEF CompactWriteFails
<1>5. ASSUME NEW kind \in {"build", "migrate"}, NEW rows \in Rows, FullWrite(kind, rows) PROVE LoadedIsSaved'
  <2>1. manifest # None => files'[manifest.file] = files[manifest.file]
    BY <1>5, NextBaseNumberFresh DEF FullWrite, NamesAreOrdered, TypeOK, Manifest, Numbers
  <2> QED BY <1>5, <2>1, LoadedStable DEF FullWrite
<1>6. CASE NameBase
  <2>1. /\ manifest'.file = fold.no /\ manifest' # None
        /\ fold.rows \in Rows /\ files[fold.no] = fold.rows
    <3>1. manifest' = [file |-> fold.no, next |-> fold.no + 1] /\ manifest' \in Manifest
      BY <1>6 DEF NameBase, TypeOK, Fold, Manifest, Numbers
    <3> QED BY <1>6, <3>1 DEF NameBase, TypeOK, Fold, FoldSound
  <2>2. journal \in Journal => journal.on # fold.no
    BY <1>6 DEF NameBase, FoldSound, NamesAreOrdered, TypeOK, Fold, Manifest, Numbers
  <2>3. JournalFresh' => journal = None
    BY <1>6, <2>1, <2>2 DEF NameBase, JournalFresh
  <2>4. journal = None => Loaded' = fold.rows
    <3> SUFFICES ASSUME journal = None PROVE Loaded' = fold.rows
      OBVIOUS
    <3>1. journal' = None /\ files' = files /\ fold.no \in Numbers
      BY <1>6 DEF NameBase, TypeOK, Fold
    <3> QED BY <2>1, <3>1, LoadedFold
  <2> QED BY <1>6, <2>3, <2>4 DEF NameBase, LoadedIsSaved
<1>7. CASE FinishFold
  <2>1. /\ fold \in Fold /\ manifest # None /\ manifest.file = fold.no
        /\ files[fold.no] = fold.rows /\ saved = fold.rows /\ fold.rows \in Rows
    BY <1>7 DEF FinishFold, TypeOK, FoldSound, Fold
  <2>2. files'[fold.no] = files[fold.no]
    BY <1>7, <2>1 DEF FinishFold, Fold
  <2>3. CASE journal' = journal
    BY <1>7, <2>1, <2>2, <2>3, LoadedStable DEF FinishFold
  <2>4. CASE journal' = None
    <3>1. manifest' = manifest /\ saved' = saved /\ fold.no \in Numbers
      BY <1>7, <2>1 DEF FinishFold, Fold
    <3>2. Loaded' = fold.rows
      BY <2>1, <2>2, <2>4, <3>1, LoadedFold
    <3> QED BY <2>1, <3>1, <3>2 DEF LoadedIsSaved
  <2> QED BY <1>7, <2>3, <2>4 DEF FinishFold
<1>10. CASE MapNewBaseFails
  <2>1. /\ fold \in Fold /\ manifest # None /\ manifest.file = fold.no
        /\ files[fold.no] = fold.rows /\ saved = fold.rows /\ fold.rows \in Rows
    BY <1>10 DEF MapNewBaseFails, TypeOK, FoldSound, Fold
  <2>2. CASE journal' = journal
    BY <1>10, <2>2, LoadedStable DEF MapNewBaseFails
  <2>3. CASE journal' = None
    <3>1. manifest' = manifest /\ saved' = saved /\ files' = files /\ fold.no \in Numbers
      BY <1>10, <2>1 DEF MapNewBaseFails, Fold
    <3>2. Loaded' = fold.rows
      BY <2>1, <2>3, <3>1, LoadedFold
    <3> QED BY <2>1, <3>1, <3>2 DEF LoadedIsSaved
  <2> QED BY <1>10, <2>2, <2>3 DEF MapNewBaseFails
<1>8. CASE TearJournal
  <2>1. ~JournalFresh'
    BY <1>8 DEF TearJournal, JournalFresh, ConstAssumption
  <2> QED BY <2>1 DEF LoadedIsSaved
<1>9. CASE TearBase
  <2>1. manifest # None => \/ files'[manifest.file] = files[manifest.file]
                           \/ files'[manifest.file] \notin Rows
    BY <1>9 DEF TearBase, TypeOK, Manifest
  <2> QED BY <1>9, <2>1, LoadedStable DEF TearBase
<1> QED
  BY <1>1, <1>2, <1>3, <1>4, <1>5, <1>6, <1>7, <1>8, <1>9, <1>10
  DEF Next, vars, Upsert, Remove, BuildWrites, MigrateWrites, NameBaseFails,
      Crash, Open, OpenUnreadable, TypeOK
-----------------------------------------------------------------------------
IInv == TypeOK /\ TombstonesSound /\ DiskInv /\ LoadedIsSaved

\* The strengthened invariant: types, tombstones, numbering, and the loaded
\* ledger, none of which is inductive without the others.
THEOREM Inductive == Spec => []IInv
<1>1. Init => IInv
  <2> SUFFICES ASSUME Init PROVE IInv
    OBVIOUS
  <2>1. TypeOK
    BY TypeInit
  <2>2. TombstonesSound
    BY DEF Init, TombstonesSound, KeysOf, NoRows
  <2>3. DiskInv
    BY Sentinels DEF Init, DiskInv, NamesAreOrdered, NextIsAbove, MappedIsNamed, FoldSound
  <2>4. LoadedBase = None /\ LoadedRows = NoRows /\ LoadedSets = NoRows
        /\ LoadedRemoved(LoadedBase) = {}
    BY Sentinels DEF Init, LoadedBase, LoadedRows, LoadedSets, LoadedRemoved
  <2>5. LoadedIsSaved
    BY <2>4, MergeNothing, NoRowsType DEF Init, Loaded, LoadedIsSaved
  <2> QED BY <2>1, <2>2, <2>3, <2>5 DEF IInv
<1>2. IInv /\ [Next]_vars => IInv'
  BY TypeNext, TombstonesNext, DiskInvNext, LoadedNext DEF IInv, DiskInv
<1> QED BY <1>1, <1>2, PTL DEF Spec

\* Wherever the writer is killed, a reopened ledger is the last committed one,
\* unless a file is damaged or a journal outlived its base.
THEOREM CrashKeepsLedger == Spec => []LoadedIsSaved
<1>1. IInv => LoadedIsSaved
  BY DEF IInv
<1> QED BY <1>1, Inductive, PTL

LEMMA AgreeStep == TypeOK /\ TombstonesSound => ReadersAgree
<1> SUFFICES ASSUME TypeOK, TombstonesSound PROVE ReadersAgree
  OBVIOUS
<1>1. BaseRows \in Rows /\ overlay \in Rows
  BY NoRowsType DEF TypeOK, BaseRows, Base
<1>2. MergeSorted = View
  BY <1>1 DEF MergeSorted, View, Merge, TombstonesSound, KeysOf, Rows
<1>3. ASSUME NEW seen \in SUBSET Paths
      PROVE  UnseenKeys(seen) = KeysOf(View) \ seen
  BY <1>1 DEF UnseenKeys, View, Merge, TombstonesSound, KeysOf, Rows
<1> QED BY <1>2, <1>3 DEF ReadersAgree

\* Lookup, the streamed fold and the prune list always answer from one ledger.
THEOREM OneLedger == Spec => []ReadersAgree
<1>1. IInv => ReadersAgree
  BY AgreeStep DEF IInv
<1> QED BY <1>1, Inductive, PTL

LEMMA CountStep == TypeOK /\ TombstonesSound => CountIsExact
<1> SUFFICES ASSUME TypeOK, TombstonesSound PROVE CountIsExact
  OBVIOUS
<1> DEFINE B == KeysOf(BaseRows)
           O == KeysOf(overlay) \ B
           L == B \ removed
<1>1. BaseRows \in Rows /\ overlay \in Rows
  BY NoRowsType DEF TypeOK, BaseRows, Base
<1>2. IsFiniteSet(B) /\ IsFiniteSet(O) /\ IsFiniteSet(removed) /\ IsFiniteSet(L)
  <2>1. B \in SUBSET Paths /\ O \in SUBSET Paths /\ removed \in SUBSET Paths /\ L \in SUBSET Paths
    BY DEF KeysOf, TypeOK
  <2> QED BY <2>1, FS_Subset DEF ConstAssumption
<1>3. KeysOf(MergeSorted) = L \cup O /\ L \cap O = {}
  BY <1>1 DEF MergeSorted, KeysOf, TombstonesSound, Rows
<1>4. Cardinality(L) = Cardinality(B) - Cardinality(removed)
  <2>1. removed \subseteq B
    BY DEF TombstonesSound
  <2>2. B \cap removed = removed
    BY <2>1
  <2> QED BY <1>2, <2>2, FS_Difference
<1>5. Cardinality(L \cup O) = Cardinality(L) + Cardinality(O)
  <2>1. Cardinality(L \cap O) = 0
    BY <1>3, FS_EmptySet
  <2>2. Cardinality(L) \in Nat /\ Cardinality(O) \in Nat
    BY <1>2, FS_CardinalityType
  <2>3. Cardinality(L \cup O) = Cardinality(L) + Cardinality(O) - Cardinality(L \cap O)
    BY <1>2, FS_Union
  <2> QED BY <2>1, <2>2, <2>3
<1> QED BY <1>3, <1>4, <1>5 DEF CountIsExact, Count

\* The count declared in a base file's header is the number of rows streamed.
THEOREM HeaderCountExact == Spec => []CountIsExact
<1>1. IInv => CountIsExact
  BY CountStep DEF IInv
<1> QED BY <1>1, Inductive, PTL

\* No readable base file is ever overwritten.
THEOREM ImmutableBases == Spec => BasesAreImmutable
<1> DEFINE Safe == \A n \in Numbers : files[n] \in Rows => files'[n] \in {files[n], None, Torn}
<1>1. IInv /\ [Next]_vars => [Safe]_vars
  <2> SUFFICES ASSUME IInv, [Next]_vars PROVE Safe
    OBVIOUS
  <2> USE DEF IInv, TypeOK, DiskInv
  <2>1. CASE CompactWrite
    BY <2>1 DEF CompactWrite, NextIsAbove, Numbers
  <2>2. CASE CompactWriteFails
    BY <2>2 DEF CompactWriteFails
  <2>3. ASSUME NEW kind \in {"build", "migrate"}, NEW rows \in Rows, FullWrite(kind, rows) PROVE Safe
    BY <2>3, NextBaseNumberFresh, Sentinels DEF FullWrite, Numbers
  <2>4. CASE FinishFold
    BY <2>4 DEF FinishFold
  <2>5. CASE TearBase
    BY <2>5 DEF TearBase
  <2>6. CASE UNCHANGED files
    BY <2>6
  <2> QED
    BY <2>1, <2>2, <2>3, <2>4, <2>5, <2>6
    DEF Next, vars, Upsert, Remove, WriteJournal, BuildWrites, MigrateWrites,
        NameBase, NameBaseFails, MapNewBaseFails, Crash, Open, OpenUnreadable,
        TearJournal
<1> QED BY <1>1, Inductive, PTL DEF Spec, BasesAreImmutable
-----------------------------------------------------------------------------
(* The refinement of PathLedger *)

\* What a fold of an open ledger wrote is what the ledger answers.
FoldIsView == fold # None /\ fold.kind = "compact" => fold.rows = View

LEMMA ViewType == TypeOK => View \in Rows
BY MergeType, NoRowsType DEF View, TypeOK, BaseRows, Base

\* The ledger answers by base, overlay and tombstones alone.
LEMMA ViewStable == UNCHANGED <<base, overlay, removed>> => View' = View
BY DEF View, BaseRows, Merge

LEMMA FoldIsViewNext == IInv /\ FoldIsView /\ [Next]_vars => FoldIsView'
<1> SUFFICES ASSUME IInv, FoldIsView, [Next]_vars PROVE FoldIsView'
  OBVIOUS
<1>1. CASE fold' = None
  BY <1>1 DEF FoldIsView
<1>2. CASE UNCHANGED <<base, overlay, removed, fold>>
  BY <1>2, ViewStable DEF FoldIsView
<1>3. CASE CompactWrite
  <2>1. MergeSorted = View
    BY AgreeStep DEF IInv, ReadersAgree
  <2>2. View' = View
    BY <1>3, ViewStable DEF CompactWrite
  <2>3. fold'.rows = MergeSorted
    BY <1>3 DEF CompactWrite
  <2> QED BY <2>1, <2>2, <2>3 DEF FoldIsView
<1>4. ASSUME NEW kind \in {"build", "migrate"}, NEW rows \in Rows, FullWrite(kind, rows) PROVE FoldIsView'
  <2>1. fold'.kind = kind
    BY <1>4 DEF FullWrite
  <2> QED BY <2>1 DEF FoldIsView
<1>5. CASE NameBase
  <2>1. View' = View
    BY <1>5, ViewStable DEF NameBase
  <2>2. fold'.kind = fold.kind /\ fold'.rows = fold.rows /\ fold # None
    BY <1>5 DEF NameBase, IInv, TypeOK, Fold
  <2> QED BY <2>1, <2>2 DEF FoldIsView
<1> QED
  BY <1>1, <1>2, <1>3, <1>4, <1>5
  DEF Next, vars, Upsert, Remove, WriteJournal, CompactWriteFails, BuildWrites, MigrateWrites,
      NameBaseFails, FinishFold, MapNewBaseFails, Crash, Open, OpenUnreadable, TearJournal,
      TearBase, IInv, TypeOK

LEMMA MapInvariance == Spec => [](IInv /\ FoldIsView)
<1>1. Init => FoldIsView
  BY DEF Init, FoldIsView
<1>2. IInv /\ FoldIsView /\ [Next]_vars => FoldIsView'
  BY FoldIsViewNext
<1> QED BY <1>1, <1>2, Inductive, PTL DEF Spec

\* The state of the abstract ledger.
Certain == JournalFresh /\ BaseIntact
Answers == IF open THEN View ELSE None

LEMMA CertainStable ==
  ASSUME TypeOK, UNCHANGED <<manifest, journal>>,
         manifest # None => files'[manifest.file] = files[manifest.file]
  PROVE  Certain' = Certain
<1>1. JournalFresh' = JournalFresh
  BY DEF JournalFresh
<1>2. BaseIntact' = BaseIntact
  BY DEF BaseIntact
<1> QED BY <1>1, <1>2 DEF Certain

LEMMA AnswersStable == UNCHANGED <<open, base, overlay, removed>> => Answers' = Answers
BY ViewStable DEF Answers

LEMMA AnswersType == TypeOK => Answers \in Rows \cup {None} /\ (Answers = None <=> ~open)
BY ViewType, Sentinels DEF Answers

\* An edit changes the answer for its path and no other.
LEMMA UpsertIsEdit ==
  ASSUME IInv, NEW p \in Paths, NEW s \in States, Upsert(p, s)
  PROVE  Abstract!Edit(p, s)
<1>1. UNCHANGED <<Certain, saved, open, base>>
  BY CertainStable DEF Upsert, IInv
<1>2. overlay \in Rows /\ removed \subseteq Paths /\ BaseRows \in Rows /\ s # None
  BY NoRowsType, ConstAssumption DEF IInv, TypeOK, BaseRows, Base
<1>3. overlay' = [overlay EXCEPT ![p] = s] /\ removed' = removed \ {p} /\ BaseRows' = BaseRows
  BY <1>1 DEF Upsert, UpsertRemoved, BaseRows
<1>4. View' = [View EXCEPT ![p] = s]
  BY <1>2, <1>3 DEF View, Merge, Rows
<1>5. Answers' = [Answers EXCEPT ![p] = s] /\ Answers # None
  BY <1>1, <1>4, AnswersType DEF Answers, Upsert, IInv
<1> QED BY <1>1, <1>5 DEF Abstract!Edit, Certain, Answers

LEMMA RemoveIsEdit ==
  ASSUME IInv, NEW p \in Paths, Remove(p)
  PROVE  Abstract!Edit(p, None)
<1>1. UNCHANGED <<Certain, saved, open, base>>
  BY CertainStable DEF Remove, IInv
<1>2. overlay \in Rows /\ removed \subseteq Paths /\ BaseRows \in Rows
  BY NoRowsType DEF IInv, TypeOK, BaseRows, Base
<1>3. /\ overlay' = [overlay EXCEPT ![p] = None] /\ BaseRows' = BaseRows
      /\ removed' = IF p \in KeysOf(BaseRows) THEN removed \cup {p} ELSE removed
  BY <1>1 DEF Remove, RemoveTombstones, BaseRows
<1>4. View' = [View EXCEPT ![p] = None]
  BY <1>2, <1>3 DEF View, Merge, Rows, KeysOf
<1>5. Answers' = [Answers EXCEPT ![p] = None] /\ Answers # None
  BY <1>1, <1>4, AnswersType DEF Answers, Remove, IInv
<1> QED BY <1>1, <1>5 DEF Abstract!Edit, Certain, Answers

\* What only rewrites files shows in nothing, or settles what was in doubt.
LEMMA SettlesOrStutters ==
  ASSUME UNCHANGED <<Answers, saved>>, Certain => Certain'
  PROVE  Abstract!Settle \/ UNCHANGED Abstract!vars
<1>1. CASE ~Certain /\ Certain'
  <2>1. Certain' = TRUE
    BY <1>1 DEF Certain, JournalFresh, BaseIntact
  <2> QED BY <1>1, <2>1 DEF Abstract!Settle, Certain, Answers
<1>2. CASE Certain' = Certain
  BY <1>2 DEF Abstract!vars, Certain, Answers
<1>3. Certain \in BOOLEAN /\ Certain' \in BOOLEAN
  BY DEF Certain, JournalFresh, BaseIntact
<1> QED BY <1>1, <1>2, <1>3

LEMMA SaveIsCommit ==
  ASSUME TypeOK, open, saved' = View, UNCHANGED Answers
  PROVE  Abstract!Commit
<1>1. Answers = View /\ Answers # None
  BY AnswersType DEF Answers
<1>2. Certain' \in BOOLEAN
  BY DEF Certain, JournalFresh, BaseIntact
<1> QED BY <1>1, <1>2 DEF Abstract!Commit, Certain, Answers

LEMMA NameRefines ==
  ASSUME IInv, FoldIsView, NameBase
  PROVE  Abstract!Commit \/ Abstract!Replace
<1>1. fold \in Fold /\ saved' = fold.rows /\ UNCHANGED <<open, base, overlay, removed>>
  BY DEF NameBase, IInv, TypeOK
<1>2. UNCHANGED Answers
  BY <1>1, AnswersStable
<1>3. CASE open
  <2>1. fold.kind = "compact"
    BY <1>1, <1>3 DEF IInv, DiskInv, FoldSound, NameBase
  <2>2. saved' = View
    BY <1>1, <2>1 DEF FoldIsView, NameBase
  <2> QED BY <1>2, <1>3, <2>2, SaveIsCommit DEF IInv
<1>4. CASE ~open
  <2>1. Answers = None /\ saved' \in Rows
    BY <1>1, <1>4 DEF Answers, Fold
  <2>2. Certain' \in BOOLEAN
    BY DEF Certain, JournalFresh, BaseIntact
  <2> QED BY <1>2, <2>1, <2>2 DEF Abstract!Replace, Abstract!Maps, Rows, Certain, Answers
<1> QED BY <1>3, <1>4

\* The end of a fold swaps base, overlay and tombstones for one base with their rows.
LEMMA FinishRefines ==
  ASSUME IInv, IInv', FoldIsView, FinishFold
  PROVE  Abstract!Settle \/ UNCHANGED Abstract!vars
<1>1. /\ fold \in Fold /\ manifest # None /\ manifest.file = fold.no /\ fold.rows \in Rows
      /\ fold.no \in Numbers /\ files[fold.no] = fold.rows
  BY DEF FinishFold, IInv, TypeOK, DiskInv, FoldSound, Fold
<1>2. View' = View
  <2>1. CASE fold.kind = "compact"
    <3>1. base' = [no |-> fold.no, rows |-> fold.rows] /\ overlay' = NoRows /\ removed' = {}
      BY <2>1 DEF FinishFold
    <3>2. base' # None
      BY <1>1, <3>1, Sentinels DEF Base
    <3>3. BaseRows' = fold.rows
      BY <3>1, <3>2 DEF BaseRows
    <3>4. View' = fold.rows
      BY <1>1, <3>1, <3>3, MergeNothing DEF View
    <3> QED BY <2>1, <3>4 DEF FoldIsView, FinishFold
  <2>2. CASE fold.kind # "compact"
    BY <2>2, ViewStable DEF FinishFold
  <2> QED BY <2>1, <2>2
<1>3. UNCHANGED <<Answers, saved, manifest>>
  BY <1>2 DEF Answers, FinishFold
<1>4. files'[fold.no] = files[fold.no] /\ journal' \in {journal, None}
  BY <1>1 DEF FinishFold
<1>5. Certain => Certain'
  BY <1>1, <1>3, <1>4 DEF Certain, JournalFresh, BaseIntact
<1> QED BY <1>3, <1>5, SettlesOrStutters

LEMMA MapNewBaseRefines ==
  ASSUME IInv, MapNewBaseFails
  PROVE  Abstract!Settle \/ UNCHANGED Abstract!vars
<1>1. UNCHANGED <<Answers, saved, manifest, files>> /\ journal' \in {journal, None}
  BY AnswersStable DEF MapNewBaseFails
<1>2. Certain => Certain'
  BY <1>1 DEF Certain, JournalFresh, BaseIntact
<1> QED BY <1>1, <1>2, SettlesOrStutters

\* A new base is written under a number that the manifest does not name.
LEMMA WritesRefine ==
  ASSUME IInv,
         \/ CompactWrite
         \/ CompactWriteFails
         \/ \E kind \in {"build", "migrate"}, rows \in Rows : FullWrite(kind, rows)
  PROVE  UNCHANGED Abstract!vars
<1>1. UNCHANGED <<open, base, overlay, removed, saved, manifest, journal>>
  BY DEF CompactWrite, CompactWriteFails, FullWrite, JournalWhileFolding
<1>2. manifest # None => files'[manifest.file] = files[manifest.file]
  <2>1. CASE CompactWrite \/ CompactWriteFails
    BY <2>1 DEF CompactWrite, CompactWriteFails, IInv, DiskInv, NextIsAbove, TypeOK, Manifest, Numbers
  <2>2. CASE \E kind \in {"build", "migrate"}, rows \in Rows : FullWrite(kind, rows)
    BY <2>2, NextBaseNumberFresh DEF FullWrite, IInv, DiskInv, NamesAreOrdered, TypeOK, Manifest, Numbers
  <2> QED BY <2>1, <2>2
<1>3. UNCHANGED <<Certain, Answers>>
  BY <1>1, <1>2, CertainStable, AnswersStable DEF IInv
<1> QED BY <1>1, <1>3 DEF Abstract!vars, Certain, Answers

LEMMA OpensRefine ==
  ASSUME IInv, IInv', Open \/ OpenUnreadable
  PROVE  Abstract!Open \/ Abstract!Misread
<1>1. Answers = None /\ UNCHANGED <<files, manifest, journal, saved>>
  BY DEF Answers, Open, OpenUnreadable
<1>2. UNCHANGED Certain
  BY <1>1, CertainStable DEF IInv
<1>3. Answers' \in Abstract!Maps /\ Answers' = View'
  <2>1. open'
    BY DEF Open, OpenUnreadable
  <2>2. BaseRows' \in Rows /\ overlay' \in Rows /\ removed' \in SUBSET Paths
    BY NoRowsType DEF IInv, TypeOK, BaseRows, Base
  <2>3. View' \in Rows
    BY <2>2, MergeType DEF View
  <2> QED BY <2>1, <2>3 DEF Answers, Rows, Abstract!Maps
<1>4. CASE Open
  <2>1. View' = Loaded
    BY <1>4 DEF Open, View, BaseRows, Loaded, LoadedRows
  <2>2. Certain => Answers' = saved
    BY <1>3, <2>1 DEF Certain, IInv, LoadedIsSaved
  <2> QED BY <1>1, <1>2, <1>3, <2>2 DEF Abstract!Open, Certain, Answers
<1>5. CASE OpenUnreadable
  BY <1>1, <1>2, <1>3, <1>5 DEF Abstract!Misread, OpenUnreadable, Certain, Answers
<1> QED BY <1>4, <1>5

LEMMA TearsRefine ==
  ASSUME IInv, TearJournal \/ TearBase
  PROVE  Abstract!Damage \/ UNCHANGED Abstract!vars
<1>1. Faults /\ Answers = None /\ UNCHANGED <<Answers, saved>>
  BY AnswersStable DEF Answers, TearJournal, TearBase
<1>2. Certain' \in BOOLEAN /\ Certain \in BOOLEAN
  BY DEF Certain, JournalFresh, BaseIntact
<1>3. CASE Certain' = FALSE
  BY <1>1, <1>3 DEF Abstract!Damage, Certain, Answers
<1>4. CASE Certain' = TRUE
  <2>1. ~TearJournal
    BY <1>4, Sentinels DEF TearJournal, Certain, JournalFresh, ConstAssumption
  <2>2. TearBase
    BY <2>1
  <2>3. manifest # None => files'[manifest.file] = files[manifest.file]
    <3> SUFFICES ASSUME manifest # None PROVE files'[manifest.file] = files[manifest.file]
      OBVIOUS
    <3>1. manifest.file \in Numbers /\ files \in [Numbers -> Rows \cup {None, Torn}]
      BY DEF IInv, TypeOK, Manifest
    <3>2. manifest' = manifest /\ files'[manifest.file] \in Rows
      BY <1>4, <2>2 DEF TearBase, Certain, BaseIntact
    <3>3. PICK n \in Numbers : files' = [files EXCEPT ![n] = Torn]
      BY <2>2 DEF TearBase
    <3>4. Torn \notin Rows
      BY DEF ConstAssumption
    <3> QED BY <3>1, <3>2, <3>3, <3>4
  <2>4. Certain' = Certain
    BY <2>2, <2>3, CertainStable DEF TearBase, IInv
  <2> QED BY <1>1, <2>4 DEF Abstract!vars, Certain, Answers
<1> QED BY <1>2, <1>3, <1>4

LEMMA StepRefines ==
  IInv /\ IInv' /\ FoldIsView /\ [Next]_vars => [Abstract!Next]_(Abstract!vars)
<1> SUFFICES ASSUME IInv, IInv', FoldIsView, [Next]_vars
             PROVE  [Abstract!Next]_(Abstract!vars)
  OBVIOUS
<1>1. ASSUME NEW p \in Paths, NEW s \in States, Upsert(p, s) PROVE Abstract!Next
  BY <1>1, UpsertIsEdit DEF Abstract!Next
<1>2. ASSUME NEW p \in Paths, Remove(p) PROVE Abstract!Next
  BY <1>2, RemoveIsEdit DEF Abstract!Next
<1>3. CASE WriteJournal
  <2>1. open /\ saved' = View /\ UNCHANGED Answers
    BY <1>3, AnswersStable DEF WriteJournal
  <2> QED BY <2>1, SaveIsCommit DEF Abstract!Next, IInv
<1>4. CASE \/ CompactWrite \/ CompactWriteFails
           \/ \E kind \in {"build", "migrate"}, rows \in Rows : FullWrite(kind, rows)
  BY <1>4, WritesRefine
<1>5. CASE NameBase
  BY <1>5, NameRefines DEF Abstract!Next
<1>6. CASE NameBaseFails \/ UNCHANGED vars
  <2>1. UNCHANGED <<open, base, overlay, removed, files, manifest, journal, saved>>
    BY <1>6 DEF NameBaseFails, vars
  <2>2. UNCHANGED <<Certain, Answers, saved>>
    BY <2>1, CertainStable, AnswersStable DEF IInv
  <2> QED BY <2>2 DEF Abstract!vars, Certain, Answers
<1>7. CASE FinishFold
  BY <1>7, FinishRefines DEF Abstract!Next
<1>8. CASE MapNewBaseFails
  BY <1>8, MapNewBaseRefines DEF Abstract!Next
<1>9. CASE Crash
  <2>1. UNCHANGED <<Certain, saved>> /\ Answers' = None
    BY <1>9, CertainStable DEF Crash, Answers, IInv
  <2>2. CASE open
    <3>1. Answers # None
      BY <2>2, AnswersType DEF IInv
    <3> QED BY <2>1, <3>1 DEF Abstract!Close, Abstract!Next, Certain, Answers
  <2>3. CASE ~open
    BY <2>1, <2>3 DEF Abstract!vars, Certain, Answers
  <2> QED BY <2>2, <2>3
<1>10. CASE Open \/ OpenUnreadable
  BY <1>10, OpensRefine DEF Abstract!Next
<1>11. CASE TearJournal \/ TearBase
  BY <1>11, TearsRefine DEF Abstract!Next
<1> QED
  BY <1>1, <1>2, <1>3, <1>4, <1>5, <1>6, <1>7, <1>8, <1>9, <1>10, <1>11
  DEF Next, BuildWrites, MigrateWrites, IInv, TypeOK

\* Through edits, saves, folds that fail at any step, crashes, builds and damage, the
\* ledger is one map that edits alone change and saves commit; an open that reads
\* every file finds the last commit, but for a journal that outlived its base.
THEOREM LedgerIsAMap == Spec => ImplementsLedger
<1>1. Init => Abstract!Init
  <2> SUFFICES ASSUME Init PROVE Abstract!Init
    OBVIOUS
  <2>1. Certain = TRUE /\ Answers = None
    BY DEF Init, Certain, JournalFresh, BaseIntact, Answers
  <2> QED BY <2>1 DEF Init, NoRows, Abstract!Init, Abstract!Empty, Certain, Answers
<1>2. IInv /\ FoldIsView /\ (IInv /\ FoldIsView)' /\ [Next]_vars => [Abstract!Next]_(Abstract!vars)
  BY StepRefines
<1> QED BY <1>1, <1>2, MapInvariance, PTL DEF Spec, ImplementsLedger, Abstract!Spec
-----------------------------------------------------------------------------
(* What an entry may be trusted for                                        *)

\* What has been recorded and read lies behind our clock.
PastInv ==
  /\ written \in Start .. now /\ lastSet \in {0} \cup (Start .. now)
  /\ entry # Nothing => entry.hashedAt \in {0} \cup Times
  /\ look # Nothing => look.bound = RecordedBy
  /\ IsReading => look.started <= now

\* Without dates ahead of the clock, no stamp is later than the clock's.
StampInv ==
  ~ahead => /\ file.mtime <= clock[now]
            /\ look # Nothing => look.mtime <= clock[now]

\* A pending stamp was on its file by the time that the second look counts from.
PendingInv ==
  ~ahead /\ entry # Nothing /\ entry.mtime < 0 =>
    /\ RecordedBy > 0 => -entry.mtime <= clock[RecordedBy]
    /\ ~shared /\ entry.hashedAt > 0 => -entry.mtime <= clock[entry.hashedAt]

\* The clock has left the stamp behind since the read began.
Over(r) == \A t \in Times : t >= r.started => clock[t] # r.mtime

\* A read whose listed stamp is over has seen nothing but what the file holds, if
\* that stamp was not put back, or else if the handle's times have not moved.
SeenInv ==
  IsReading /\ Over(look) =>
    /\ ~look.redated /\ file.mtime = look.mtime => look.seen = {file.content}
    /\ look.attached /\ look.same => look.seen = {file.content}

\* A trusted entry speaks for the file that carries its stamp.
EntryInv ==
  entry # Nothing /\ entry.mtime > 0 /\ entry.mtime = file.mtime /\ ~redated =>
    /\ ~IsLegacy(entry) /\ ~ahead => entry.hash = file.content
    /\ IsLegacy(entry) /\ entry.mtime + Margin <= Start => entry.hash = file.content

TrustInv == TrustTypeOK /\ PastInv /\ StampInv /\ PendingInv /\ SeenInv /\ StampIsOver /\ EntryInv

USE Assumptions, ClockAssumption, NothingAssumption DEF Times
-----------------------------------------------------------------------------
(* The clocks *)

LEMMA ClockFacts ==
  ASSUME TrustTypeOK
  PROVE  /\ \A t \in Start .. End : /\ clock[t] \in Nat \ {0}
                                    /\ clock[t] + Margin > t
         /\ \A t, u \in Start .. End : /\ t <= u => clock[t] <= clock[u]
                                       /\ clock[t] = clock[u] => u < t + Settle
         /\ now \in Start .. End
<1>1. clock \in Clocks /\ now \in Start .. End
  BY DEF TrustTypeOK
<1>2. clock \in [Start .. End -> Nat \ {0}]
  BY <1>1
<1> QED BY <1>1, <1>2

\* What the read that is under way holds.
LEMMA ReadingFacts ==
  ASSUME TrustTypeOK, IsReading
  PROVE  /\ look \in Reading /\ look # Nothing
         /\ look.started \in Start .. End /\ look.mtime \in Nat \ {0}
         /\ look.size \in Nat /\ look.ctime \in Nat /\ look.bound \in Nat
         /\ look.seen \subseteq Contents
         /\ {look.redated, look.known, look.same, look.attached} \subseteq BOOLEAN
<1>1. look \in Listing \cup Reading /\ look.at = "reading" /\ look # Nothing
  BY DEF TrustTypeOK, IsReading
<1>2. look \in Reading
  BY <1>1 DEF Listing, Reading
<1> QED BY <1>1, <1>2 DEF Reading

LEMMA EntryFacts ==
  ASSUME TrustTypeOK, entry # Nothing
  PROVE  /\ entry \in Entry
         /\ entry.mtime \in Int /\ entry.size \in Nat /\ entry.ctime \in Nat
         /\ entry.hashedAt \in Nat /\ entry.hash \in Contents
BY DEF TrustTypeOK, Entry
-----------------------------------------------------------------------------
(* The decision *)

LEMMA RecordedByFacts ==
  ASSUME TrustTypeOK, PastInv
  PROVE  RecordedBy \in {0} \cup (Start .. now)
BY DEF TrustTypeOK, PastInv, RecordedBy, FilesWritten, Max

\* A file that the first look trusts was stamped too long before the read for
\* any clock to stamp it the same again.
LEMMA FirstLookIsOver ==
  ASSUME TrustTypeOK, IsReading, FirstLook(look.mtime, look.ctime, look.started)
  PROVE  Over(look)
<1>1. look.mtime + Margin <= look.started
  BY ReadingFacts DEF FirstLook, Max
<1>2. ASSUME NEW t \in Times, t >= look.started PROVE clock[t] # look.mtime
  BY <1>1, <1>2, ClockFacts, ReadingFacts
<1> QED BY <1>2 DEF Over

\* A file that the second look trusts carried its stamp a settle time before
\* the read, and no tick of its clock lasts as long.
LEMMA SecondLookIsOver ==
  ASSUME TrustTypeOK, PastInv, PendingInv, ~ahead, IsReading, NEW size,
         NEW prior \in {entry, Nothing},
         SecondLook(look.mtime, look.ctime, size, look.started, prior, look.bound)
  PROVE  Over(look)
<1>1. /\ entry # Nothing /\ entry.mtime = -look.mtime
      /\ Anchor(entry, look.bound) > 0
      /\ Anchor(entry, look.bound) + Settle <= look.started
  BY DEF SecondLook
<1>2. entry.mtime < 0 /\ -entry.mtime = look.mtime
  <2>1. look.mtime \in Nat \ {0}
    BY ReadingFacts
  <2> QED BY <1>1, <2>1
<1>3. look.bound = RecordedBy /\ look.started <= now
  BY ReadingFacts DEF PastInv
<1>. DEFINE anchor == Anchor(entry, look.bound)
<1>4. anchor \in Start .. End /\ look.mtime <= clock[anchor]
  <2>1. CASE ~shared /\ entry.hashedAt > 0
    <3>1. anchor = entry.hashedAt
      BY <2>1 DEF Anchor
    <3>2. entry.hashedAt \in Start .. End
      BY <2>1, <1>1 DEF PastInv
    <3> QED BY <2>1, <3>1, <3>2, <1>1, <1>2 DEF PendingInv
  <2>2. CASE ~(~shared /\ entry.hashedAt > 0)
    <3>1. anchor = RecordedBy
      BY <2>2, <1>3 DEF Anchor
    <3>2. RecordedBy > 0
      BY <3>1, <1>1
    <3>3. RecordedBy \in Start .. End
      BY <3>2, RecordedByFacts, ClockFacts
    <3> QED BY <3>1, <3>2, <3>3, <1>1, <1>2 DEF PendingInv
  <2> QED BY <2>1, <2>2
<1>5. anchor + Settle <= look.started
  BY <1>1
<1>6. ASSUME NEW t \in Times, t >= look.started PROVE clock[t] # look.mtime
  <2>. HIDE DEF anchor
  <2>1. anchor <= t /\ ~(t < anchor + Settle)
    BY <1>4, <1>5, <1>6, ReadingFacts
  <2>2. clock[anchor] <= clock[t] /\ clock[anchor] # clock[t]
    BY <1>4, <2>1, <1>6, ClockFacts
  <2> QED BY <1>4, <2>2, <1>6, ClockFacts, ReadingFacts
<1> QED BY <1>6 DEF Over

LEMMA TrustedIsOver ==
  ASSUME TrustTypeOK, PastInv, PendingInv, ~ahead, IsReading, NEW hash,
         NEW prior \in {entry, Nothing},
         Trusted(look, hash, prior)
  PROVE  Over(look)
BY FirstLookIsOver, SecondLookIsOver DEF Trusted
\* What a read records.
LEMMA RecordedFacts ==
  ASSUME TrustTypeOK, IsReading, NEW c \in look.seen, NEW prior
  PROVE  LET e == Recorded(look, c, prior) IN
         /\ e \in Entry /\ e.hash = c /\ e.hashedAt \in Times
         /\ e.mtime = 0 => e.ctime = 0
         /\ e.mtime < 0 => e.mtime = -look.mtime /\ e.hashedAt = now
         /\ e.mtime > 0 => e.mtime = look.mtime /\ Trusted(look, c, prior) /\ ~Moved(look, c)
<1>1. /\ c \in Contents /\ Size[c] \in Nat
      /\ look.mtime \in Nat \ {0} /\ -look.mtime \in Int /\ look.ctime \in Nat
      /\ look.started \in Times /\ now \in Times /\ Times \subseteq Nat
  BY ReadingFacts, ClockFacts
<1>2. CASE Moved(look, c)
  BY <1>1, <1>2 DEF Recorded, Unknown, Entry
<1>3. CASE ~Moved(look, c) /\ Trusted(look, c, prior)
  BY <1>1, <1>3 DEF Recorded, Entry
<1>4. CASE ~Moved(look, c) /\ ~Trusted(look, c, prior)
  BY <1>1, <1>4 DEF Recorded, Entry
<1> QED BY <1>2, <1>3, <1>4
-----------------------------------------------------------------------------
(* Types *)

LEMMA TrustTypeInit == TrustInit => TrustTypeOK
<1>. SUFFICES ASSUME TrustInit PROVE TrustTypeOK
  OBVIOUS
<1>1. clock[Start] \in Nat \ {0} /\ clock \in Clocks /\ shared \in BOOLEAN
  BY DEF TrustInit
<1>2. PICK c \in Contents, m \in {clock[Start]} \cup {d \in Dates : d <= clock[Start]} :
        /\ file = [content |-> c, mtime |-> m, ctime |-> clock[Start]]
        /\ entry \in {Nothing} \cup
                     [size : {Size[c]}, mtime : {m, -m}, hash : {c},
                      ctime : {0}, hashedAt : {0}]
  BY DEF TrustInit
<1>3. m \in Nat \ {0} /\ m \in Int /\ -m \in Int
  BY <1>1
<1>4. file \in [content : Contents, mtime : Nat \ {0}, ctime : Nat]
  BY <1>1, <1>2, <1>3
<1>5. entry # Nothing => entry \in Entry /\ entry.mtime # 0
  BY <1>2, <1>3 DEF Entry
<1>6. /\ now = Start /\ written = Start /\ lastSet = 0 /\ look = Nothing
      /\ ahead = FALSE /\ redated = FALSE
  BY DEF TrustInit
<1>7. /\ entry \in Entry \cup {Nothing}
      /\ entry # Nothing /\ entry.mtime = 0 => entry.ctime = 0
  BY <1>5
<1>8. now \in Times /\ written \in Nat /\ lastSet \in Nat
  BY <1>6
<1> QED BY <1>1, <1>4, <1>6, <1>7, <1>8, Zenon DEF TrustTypeOK

LEMMA TrustTypeNext ==
  ASSUME TrustTypeOK, [TrustNext]_trustVars
  PROVE  TrustTypeOK'
<1>. USE DEF TrustTypeOK
<1>1. CASE Tick
  BY <1>1 DEF Tick, ledger
<1>2. ASSUME NEW c \in Contents, WriteInPlace(c) PROVE TrustTypeOK'
  <2>1. clock[now] \in Nat \ {0}
    BY ClockFacts
  <2>2. file' \in [content : Contents, mtime : Nat \ {0}, ctime : Nat]
    BY <1>2, <2>1 DEF WriteInPlace
  <2>3. look' \in Listing \cup Reading \cup {Nothing}
    <3>1. CASE IsReading /\ look.attached
      <4>1. look \in Reading
        BY <3>1, ReadingFacts
      <4>2. look' = [look EXCEPT !.seen = Contents,
                                 !.same = look.same /\ SameStat(clock[now], clock[now])]
        BY <3>1, <1>2 DEF WriteInPlace
      <4>3. (look.same /\ SameStat(clock[now], clock[now])) \in BOOLEAN
        BY <4>1 DEF Reading, SameStat
      <4>. HIDE DEF TrustTypeOK
      <4>4. look' \in Reading
        BY <4>1, <4>2, <4>3 DEF Reading
      <4> QED BY <4>4
    <3>2. CASE ~(IsReading /\ look.attached)
      BY <3>2, <1>2 DEF WriteInPlace
    <3> QED BY <3>1, <3>2
  <2> QED BY <1>2, <2>2, <2>3 DEF WriteInPlace, ledger
<1>3. ASSUME NEW c \in Contents, Replace(c) PROVE TrustTypeOK'
  <2>1. clock[now] \in Nat \ {0}
    BY ClockFacts
  <2>2. file' \in [content : Contents, mtime : Nat \ {0}, ctime : Nat]
    BY <1>3, <2>1 DEF Replace
  <2>3. look' \in Listing \cup Reading \cup {Nothing}
    <3>1. CASE IsReading
      BY <3>1, <1>3, ReadingFacts DEF Replace, Reading
    <3>2. CASE ~IsReading
      BY <3>2, <1>3 DEF Replace
    <3> QED BY <3>1, <3>2
  <2> QED BY <1>3, <2>2, <2>3 DEF Replace, ledger
<1>4. ASSUME NEW d \in Dates, Redate(d) PROVE TrustTypeOK'
  <2>1. clock[now] \in Nat \ {0} /\ d \in Nat \ {0}
    BY ClockFacts
  <2>2. file' \in [content : Contents, mtime : Nat \ {0}, ctime : Nat]
    BY <1>4, <2>1 DEF Redate
  <2>3. look' \in Listing \cup Reading \cup {Nothing}
    <3>1. CASE look = Nothing
      BY <3>1, <1>4 DEF Redate
    <3>2. CASE IsReading /\ look.attached
      <4>1. look \in Reading /\ look # Nothing
        BY <3>2, ReadingFacts
      <4>2. look' = [look EXCEPT !.redated = TRUE, !.same = look.same /\ SameStat(d, clock[now])]
        BY <4>1, <3>2, <1>4 DEF Redate
      <4>3. (look.same /\ SameStat(d, clock[now])) \in BOOLEAN
        BY <4>1 DEF Reading, SameStat
      <4>. HIDE DEF TrustTypeOK
      <4>4. look' \in Reading
        BY <4>1, <4>2, <4>3 DEF Reading
      <4> QED BY <4>4
    <3>3. CASE look # Nothing /\ ~(IsReading /\ look.attached)
      <4>1. look' = [look EXCEPT !.redated = TRUE]
        BY <3>3, <1>4 DEF Redate
      <4>2. look \in Listing => look' \in Listing
        BY <4>1 DEF Listing
      <4>3. look \in Reading => look' \in Reading
        BY <4>1 DEF Reading
      <4> QED BY <3>3, <4>2, <4>3
    <3> QED BY <3>1, <3>2, <3>3
  <2>4. ahead' \in BOOLEAN /\ redated' \in BOOLEAN
    BY <1>4 DEF Redate
  <2> QED BY <1>4, <2>2, <2>3, <2>4 DEF Redate, ledger
<1>5. CASE UpdateLists \/ BatchLists
  <2>1. RecordedBy \in Nat /\ FilesWritten \in Nat
    BY DEF RecordedBy, FilesWritten, Max
  <2>2. Size[file.content] \in Nat /\ file.mtime \in Nat \ {0}
    OBVIOUS
  <2>3. look' \in Listing
    <3>1. ASSUME NEW bound \in Nat PROVE Listed(bound) \in Listing
      BY <2>2 DEF Listed, Listing
    <3>2. look' = Listed(FilesWritten) \/ look' = Listed(RecordedBy)
      BY <1>5 DEF UpdateLists, BatchLists
    <3> QED BY <2>1, <3>1, <3>2
  <2> QED BY <1>5, <2>3 DEF UpdateLists, BatchLists, ledger
<1>6. ASSUME NEW known \in BOOLEAN, StartRead(known) PROVE TrustTypeOK'
  <2>1. look \in Listing
    BY <1>6 DEF StartRead, Reading
  <2>2. /\ look.size \in Nat /\ look.mtime \in Nat \ {0} /\ look.bound \in Nat
        /\ look.redated \in BOOLEAN
    BY <2>1 DEF Listing
  <2>3. /\ file.ctime \in Nat /\ {file.content} \subseteq Contents /\ now \in Times
        /\ (IF known THEN file.ctime ELSE 0) \in Nat
        /\ (Size[file.content] = look.size /\ file.mtime = look.mtime) \in BOOLEAN
    OBVIOUS
  <2>4. look' \in Reading
    BY <1>6, <2>2, <2>3 DEF StartRead, Reading
  <2> QED BY <1>6, <2>4 DEF StartRead, ledger
<1>7. ASSUME NEW c \in Contents, NEW prior \in {entry, Nothing}, Record(c, prior) PROVE TrustTypeOK'
  <2>1. /\ entry' = Recorded(look, c, prior)
        /\ entry' \in Entry /\ (entry'.mtime = 0 => entry'.ctime = 0)
    BY <1>7, RecordedFacts DEF Record
  <2>2. redated' \in BOOLEAN
    BY <1>7, ReadingFacts DEF Record
  <2> QED BY <1>7, <2>1, <2>2 DEF Record
<1>8. CASE SaveAndReopen
  <2>1. /\ entry' \in Entry \cup {Nothing}
        /\ entry' # Nothing /\ entry'.mtime = 0 => entry'.ctime = 0
    <3>1. CASE shared /\ entry # Nothing /\ entry.mtime < 0
      <4>1. PICK t \in Times : entry' = [entry EXCEPT !.hashedAt = t]
        BY <3>1, <1>8 DEF SaveAndReopen
      <4>2. t \in Nat /\ entry \in Entry /\ entry.mtime # 0
        BY <3>1
      <4>. HIDE DEF TrustTypeOK
      <4>3. entry' \in Entry /\ entry'.mtime = entry.mtime
        BY <4>1, <4>2 DEF Entry
      <4> QED BY <4>2, <4>3
    <3>2. CASE ~(shared /\ entry # Nothing /\ entry.mtime < 0)
      BY <3>2, <1>8 DEF SaveAndReopen
    <3> QED BY <3>1, <3>2
  <2> QED BY <1>8, <2>1 DEF SaveAndReopen
<1>9. CASE UNCHANGED trustVars
  BY <1>9 DEF trustVars
<1> QED BY <1>1, <1>2, <1>3, <1>4, <1>5, <1>6, <1>7, <1>8, <1>9 DEF TrustNext

\* The variables keep their types.
THEOREM TrustTypeCorrect == TrustSpec => []TrustTypeOK
<1>1. TrustInit => TrustTypeOK
  BY TrustTypeInit
<1>2. TrustTypeOK /\ [TrustNext]_trustVars => TrustTypeOK'
  BY TrustTypeNext
<1> QED BY <1>1, <1>2, PTL DEF TrustSpec
-----------------------------------------------------------------------------
(* The invariant *)

Edit == \/ \E c \in Contents : WriteInPlace(c) \/ Replace(c)
        \/ \E d \in Dates : Redate(d)

\* An edit changes what a read has seen of the file, and nothing it was told.
LEMMA EditFacts ==
  ASSUME TrustTypeOK, Edit
  PROVE  /\ UNCHANGED <<clock, shared, now, entry, written, lastSet>>
         /\ RecordedBy' = RecordedBy
         /\ look' = Nothing <=> look = Nothing
         /\ IsReading' <=> IsReading
         /\ look # Nothing => look'.bound = look.bound /\ look'.mtime = look.mtime
         /\ IsReading => look'.started = look.started
<1>. DEFINE Kept == /\ look' = Nothing <=> look = Nothing
                    /\ IsReading' <=> IsReading
                    /\ look # Nothing => look'.bound = look.bound /\ look'.mtime = look.mtime
                    /\ IsReading => look'.started = look.started
<1>1. look # Nothing => look \in Listing \cup Reading
  BY DEF TrustTypeOK
<1>2. Nothing \notin Listing \cup Reading
  OBVIOUS
<1>3. ASSUME IsReading, NEW m, NEW c PROVE (look.same /\ SameStat(m, c)) \in BOOLEAN
  BY <1>3, ReadingFacts DEF SameStat
<1>4. ASSUME NEW x \in BOOLEAN, look' = [look EXCEPT !.seen = Contents, !.same = x], IsReading
      PROVE  Kept
  <2>1. look \in Reading /\ look # Nothing /\ look.at = "reading"
    BY <1>4, ReadingFacts DEF IsReading
  <2>2. look' \in Reading
    BY <1>4, <2>1 DEF Reading
  <2>3. /\ look'.bound = look.bound /\ look'.mtime = look.mtime
        /\ look'.at = look.at /\ look'.started = look.started
    BY <1>4, <2>1 DEF Reading
  <2> QED BY <1>2, <2>1, <2>2, <2>3 DEF IsReading
<1>5. ASSUME look' = [look EXCEPT !.attached = FALSE], IsReading PROVE Kept
  BY <1>2, <1>5, ReadingFacts DEF Reading, IsReading
<1>6. ASSUME NEW x \in BOOLEAN, look' = [look EXCEPT !.redated = TRUE, !.same = x], IsReading
      PROVE  Kept
  <2>1. look \in Reading /\ look # Nothing /\ look.at = "reading"
    BY <1>6, ReadingFacts DEF IsReading
  <2>2. look' \in Reading
    BY <1>6, <2>1 DEF Reading
  <2>3. /\ look'.bound = look.bound /\ look'.mtime = look.mtime
        /\ look'.at = look.at /\ look'.started = look.started
    BY <1>6, <2>1 DEF Reading
  <2> QED BY <1>2, <2>1, <2>2, <2>3 DEF IsReading
<1>7. ASSUME look' = [look EXCEPT !.redated = TRUE], look # Nothing PROVE Kept
  <2>1. look' # Nothing
    <3>1. look \in Listing => look' \in Listing
      BY <1>7 DEF Listing
    <3>2. look \in Reading => look' \in Reading
      BY <1>7 DEF Reading
    <3> QED BY <1>1, <1>2, <1>7, <3>1, <3>2
  <2>2. look'.bound = look.bound /\ look'.mtime = look.mtime /\ look'.at = look.at
    BY <1>1, <1>7 DEF Listing, Reading
  <2>3. look \in Reading => look'.started = look.started
    BY <1>7 DEF Reading
  <2> QED BY <1>7, <2>1, <2>2, <2>3, ReadingFacts DEF IsReading
<1>8. look' = look => Kept
  BY DEF IsReading
<1>9. Kept
  <2>1. ASSUME NEW c \in Contents, WriteInPlace(c) PROVE Kept
    BY <2>1, <1>3, <1>4, <1>8 DEF WriteInPlace
  <2>2. ASSUME NEW c \in Contents, Replace(c) PROVE Kept
    BY <2>2, <1>5, <1>8 DEF Replace
  <2>3. ASSUME NEW d \in Dates, Redate(d) PROVE Kept
    <3>1. CASE look = Nothing
      BY <2>3, <3>1, <1>8 DEF Redate
    <3>2. CASE IsReading /\ look.attached
      BY <2>3, <3>2, <1>3, <1>6 DEF Redate, IsReading
    <3>3. CASE look # Nothing /\ ~(IsReading /\ look.attached)
      BY <2>3, <3>3, <1>7 DEF Redate
    <3> QED BY <3>1, <3>2, <3>3
  <2> QED BY <2>1, <2>2, <2>3 DEF Edit
<1>10. UNCHANGED <<clock, shared, now, entry, written, lastSet>>
  BY DEF Edit, WriteInPlace, Replace, Redate, ledger
<1> QED BY <1>9, <1>10 DEF RecordedBy, FilesWritten

LEMMA PastNext ==
  ASSUME TrustTypeOK, PastInv, [TrustNext]_trustVars
  PROVE  PastInv'
<1>. USE DEF PastInv
<1>0. now \in Start .. End
  BY ClockFacts
<1>1. CASE Tick
  BY <1>0, <1>1, ReadingFacts DEF Tick, ledger, RecordedBy, FilesWritten, IsReading
<1>2. CASE Edit
  BY <1>2, EditFacts
<1>3. CASE UpdateLists \/ BatchLists
  <2>1. /\ look' = Listed(RecordedBy)
        /\ UNCHANGED <<now, shared, written, lastSet, entry>>
    <3>1. lastSet = 0 => FilesWritten = RecordedBy
      BY DEF RecordedBy, FilesWritten, Max
    <3> QED BY <1>3, <3>1 DEF UpdateLists, BatchLists, ledger
  <2>2. look'.bound = RecordedBy /\ look'.at # "reading"
    BY <2>1 DEF Listed
  <2> QED BY <2>1, <2>2 DEF IsReading, RecordedBy, FilesWritten
<1>4. ASSUME NEW known \in BOOLEAN, StartRead(known) PROVE PastInv'
  <2>1. look'.bound = look.bound /\ look'.started = now /\ look # Nothing
    BY <1>4 DEF StartRead
  <2> QED BY <1>0, <1>4, <2>1 DEF StartRead, ledger, IsReading, RecordedBy, FilesWritten
<1>5. ASSUME NEW c \in Contents, NEW prior \in {entry, Nothing}, Record(c, prior) PROVE PastInv'
  <2>1. entry'.hashedAt \in Times
    BY <1>5, RecordedFacts DEF Record
  <2>2. look' = Nothing /\ now' = now /\ written' = written /\ lastSet' = now
    BY <1>5 DEF Record
  <2> QED BY <1>0, <2>1, <2>2 DEF IsReading
<1>6. CASE SaveAndReopen
  <2>1. look' = Nothing /\ now' = now /\ written' = now /\ lastSet' = 0
    BY <1>6 DEF SaveAndReopen
  <2>2. entry' # Nothing => entry'.hashedAt \in {0} \cup Times
    <3>1. CASE shared /\ entry # Nothing /\ entry.mtime < 0
      <4>1. PICK t \in Times : entry' = [entry EXCEPT !.hashedAt = t]
        BY <3>1, <1>6 DEF SaveAndReopen
      <4> QED BY <3>1, <4>1, EntryFacts DEF Entry
    <3>2. CASE ~(shared /\ entry # Nothing /\ entry.mtime < 0)
      BY <3>2, <1>6 DEF SaveAndReopen
    <3> QED BY <3>1, <3>2
  <2> QED BY <1>0, <2>1, <2>2 DEF IsReading
<1>7. CASE UNCHANGED trustVars
  BY <1>7 DEF trustVars, IsReading, RecordedBy, FilesWritten
<1> QED BY <1>1, <1>2, <1>3, <1>4, <1>5, <1>6, <1>7 DEF TrustNext, Edit

LEMMA StampNext ==
  ASSUME TrustTypeOK, StampInv, [TrustNext]_trustVars
  PROVE  StampInv'
<1>. USE DEF StampInv
<1>0. /\ now \in Start .. End /\ clock[now] \in Nat
      /\ file.mtime \in Nat
  BY ClockFacts DEF TrustTypeOK
<1>1. CASE Tick
  <2>1. now' = now + 1 /\ now' \in Start .. End
    BY <1>0, <1>1 DEF Tick
  <2>2. clock[now] <= clock[now'] /\ clock[now'] \in Nat
    BY <1>0, <2>1, ClockFacts
  <2>3. look # Nothing => look.mtime \in Nat
    BY DEF TrustTypeOK, Listing, Reading
  <2> QED BY <1>0, <1>1, <2>2, <2>3 DEF Tick
<1>2. CASE Edit
  <2>1. file'.mtime = clock[now] \/ (file'.mtime \in Dates /\ (~ahead' => file'.mtime <= clock[now]))
    <3>1. ASSUME NEW c \in Contents, WriteInPlace(c) \/ Replace(c) PROVE file'.mtime = clock[now]
      BY <3>1 DEF WriteInPlace, Replace
    <3>2. ASSUME NEW d \in Dates, Redate(d)
          PROVE  file'.mtime = d /\ (~ahead' => d <= clock[now])
      <4>1. file'.mtime = d
        BY <3>2 DEF Redate, TrustTypeOK
      <4>2. d > clock[now] => ahead'
        BY <3>2, Zenon DEF Redate
      <4>3. ~(d > clock[now]) => d <= clock[now]
        BY <1>0
      <4> QED BY <4>1, <4>2, <4>3, Zenon
    <3> QED BY <1>2, <3>1, <3>2 DEF Edit
  <2>2. ahead => ahead'
    BY <1>2 DEF Edit, WriteInPlace, Replace, Redate
  <2> QED BY <1>0, <1>2, <2>1, <2>2, EditFacts
<1>3. CASE UpdateLists \/ BatchLists
  BY <1>3 DEF UpdateLists, BatchLists, Listed, ledger
<1>4. ASSUME NEW known \in BOOLEAN, StartRead(known) PROVE StampInv'
  BY <1>4 DEF StartRead, ledger
<1>5. ASSUME NEW c \in Contents, NEW prior \in {entry, Nothing}, Record(c, prior) PROVE StampInv'
  BY <1>5 DEF Record
<1>6. CASE SaveAndReopen
  BY <1>6 DEF SaveAndReopen
<1>7. CASE UNCHANGED trustVars
  BY <1>7 DEF trustVars
<1> QED BY <1>1, <1>2, <1>3, <1>4, <1>5, <1>6, <1>7 DEF TrustNext, Edit

LEMMA PendingNext ==
  ASSUME TrustTypeOK, PastInv, StampInv, PendingInv, [TrustNext]_trustVars
  PROVE  PendingInv'
<1>. USE DEF PendingInv
<1>0. now \in Start .. End
  BY ClockFacts
<1>1. CASE Tick \/ UpdateLists \/ BatchLists
  BY <1>1 DEF Tick, UpdateLists, BatchLists, ledger, RecordedBy, FilesWritten
<1>2. CASE Edit
  <2>1. ahead => ahead'
    BY <1>2 DEF Edit, WriteInPlace, Replace, Redate
  <2> QED BY <1>2, <2>1, EditFacts
<1>3. ASSUME NEW known \in BOOLEAN, StartRead(known) PROVE PendingInv'
  BY <1>3 DEF StartRead, ledger, RecordedBy, FilesWritten
<1>4. ASSUME NEW c \in Contents, NEW prior \in {entry, Nothing}, Record(c, prior) PROVE PendingInv'
  <2>1. /\ clock' = clock /\ now' = now /\ ahead' = ahead /\ lastSet' = now
        /\ written' = written /\ shared' = shared /\ IsReading
    BY <1>4 DEF Record
  <2>2. entry'.mtime < 0 => entry'.mtime = -look.mtime /\ entry'.hashedAt = now
    BY <1>4, RecordedFacts DEF Record
  <2>3. RecordedBy' = now
    BY <1>0, <2>1 DEF PastInv, RecordedBy, FilesWritten, Max
  <2>4. look.mtime \in Nat /\ (~ahead => look.mtime <= clock[now])
    BY <2>1, ReadingFacts DEF StampInv
  <2> QED BY <2>1, <2>2, <2>3, <2>4
<1>5. CASE SaveAndReopen
  <2>1. /\ clock' = clock /\ now' = now /\ ahead' = ahead /\ shared' = shared
        /\ lastSet' = 0 /\ written' = now
    BY <1>5 DEF SaveAndReopen
  <2>2. CASE shared
    <3>1. RecordedBy' = 0
      BY <2>1, <2>2 DEF RecordedBy, FilesWritten, Max
    <3> QED BY <2>1, <2>2, <3>1
  <2>3. CASE ~shared
    <3>1. entry' = entry /\ RecordedBy' = now
      BY <1>0, <1>5, <2>1, <2>3 DEF SaveAndReopen, RecordedBy, FilesWritten, Max
    <3>2. RecordedBy \in Start .. now /\ RecordedBy > 0
      BY <1>0, <2>3 DEF PastInv, RecordedBy, FilesWritten, Max
    <3>3. RecordedBy \in Start .. End /\ RecordedBy <= now
      BY <1>0, <3>2
    <3>4. clock[RecordedBy] <= clock[now] /\ clock[RecordedBy] \in Nat /\ clock[now] \in Nat
      BY <1>0, <3>3, ClockFacts
    <3>5. ~ahead /\ entry # Nothing /\ entry.mtime < 0 => -entry.mtime <= clock[now]
      BY <3>2, <3>4, EntryFacts
    <3> QED BY <1>0, <2>1, <2>3, <3>1, <3>5
  <2> QED BY <2>2, <2>3
<1>6. CASE UNCHANGED trustVars
  BY <1>6 DEF trustVars, RecordedBy, FilesWritten
<1> QED BY <1>1, <1>2, <1>3, <1>4, <1>5, <1>6 DEF TrustNext, Edit

LEMMA SeenNext ==
  ASSUME TrustTypeOK, PastInv, SeenInv, [TrustNext]_trustVars
  PROVE  SeenInv'
<1>. USE DEF SeenInv
<1>1. CASE Tick
  BY <1>1 DEF Tick, IsReading, Over
<1>2. CASE Edit
  <2>. SUFFICES ASSUME IsReading', Over(look)'
                PROVE  /\ ~look'.redated /\ file'.mtime = look'.mtime => look'.seen = {file'.content}
                       /\ look'.attached /\ look'.same => look'.seen = {file'.content}
    OBVIOUS
  <2>1. /\ IsReading /\ look'.started = look.started /\ look'.mtime = look.mtime
        /\ look # Nothing /\ clock' = clock /\ look.started <= now /\ now \in Times
    BY <1>2, EditFacts, ReadingFacts, ClockFacts DEF PastInv
  <2>2. Over(look)
    BY <2>1 DEF Over
  <2>3. clock[now] # look.mtime
    BY <2>1, <2>2 DEF Over
  <2>4. look \in Reading
    BY <2>1, ReadingFacts
  <2>5. ASSUME NEW c \in Contents, WriteInPlace(c), look.attached
        PROVE  ~look'.same /\ file'.mtime # look'.mtime
    <3>1. ~SameStat(clock[now], clock[now])
      BY <2>3 DEF SameStat
    <3>2. look' = [look EXCEPT !.seen = Contents,
                               !.same = look.same /\ SameStat(clock[now], clock[now])]
      BY <2>1, <2>5 DEF WriteInPlace
    <3>3. ~look'.same
      BY <2>4, <3>1, <3>2 DEF Reading
    <3>4. file'.mtime = clock[now]
      BY <2>5 DEF WriteInPlace
    <3> QED BY <2>1, <2>3, <3>3, <3>4
  <2>6. ASSUME NEW c \in Contents, WriteInPlace(c), ~look.attached
        PROVE  look' = look /\ file'.mtime # look'.mtime
    BY <2>1, <2>3, <2>6 DEF WriteInPlace
  <2>7. ASSUME NEW c \in Contents, Replace(c)
        PROVE  ~look'.attached /\ file'.mtime # look'.mtime
    <3>1. file'.mtime = clock[now] /\ look' = [look EXCEPT !.attached = FALSE]
      BY <2>1, <2>7 DEF Replace
    <3> QED BY <2>1, <2>3, <2>4, <3>1 DEF Reading
  <2>8. ASSUME NEW d \in Dates, Redate(d)
        PROVE  /\ look'.redated /\ file'.content = file.content /\ look'.seen = look.seen
               /\ look'.attached /\ look'.same => look.attached /\ look.same
    <3>1. file'.content = file.content
      BY <2>8 DEF Redate, TrustTypeOK
    <3>2. CASE look.attached
      <4>1. look' = [look EXCEPT !.redated = TRUE, !.same = look.same /\ SameStat(d, clock[now])]
        BY <2>1, <2>8, <3>2 DEF Redate
      <4> QED BY <2>4, <3>1, <3>2, <4>1 DEF Reading
    <3>3. CASE ~look.attached
      <4>1. look' = [look EXCEPT !.redated = TRUE]
        BY <2>1, <2>8, <3>3 DEF Redate
      <4> QED BY <2>4, <3>1, <3>3, <4>1 DEF Reading
    <3> QED BY <3>2, <3>3
  <2> QED BY <1>2, <2>1, <2>2, <2>5, <2>6, <2>7, <2>8 DEF Edit
<1>3. CASE UpdateLists \/ BatchLists
  BY <1>3 DEF UpdateLists, BatchLists, Listed, IsReading
<1>4. ASSUME NEW known \in BOOLEAN, StartRead(known) PROVE SeenInv'
  <2>1. look'.seen = {file.content} /\ file' = file
    BY <1>4 DEF StartRead
  <2> QED BY <2>1
<1>5. ASSUME NEW c \in Contents, NEW prior \in {entry, Nothing}, Record(c, prior) PROVE SeenInv'
  BY <1>5 DEF Record, IsReading
<1>6. CASE SaveAndReopen
  BY <1>6 DEF SaveAndReopen, IsReading
<1>7. CASE UNCHANGED trustVars
  BY <1>7 DEF trustVars, IsReading, Over
<1> QED BY <1>1, <1>2, <1>3, <1>4, <1>5, <1>6, <1>7 DEF TrustNext, Edit

LEMMA StampIsOverNext ==
  ASSUME TrustTypeOK, PastInv, PendingInv, StampIsOver, [TrustNext]_trustVars
  PROVE  StampIsOver'
<1>. USE DEF StampIsOver, IsLegacy
<1>0. now \in Start .. End
  BY ClockFacts
<1>1. CASE Tick
  <2>1. now' = now + 1 /\ clock' = clock /\ entry' = entry /\ ahead' = ahead
    BY <1>1 DEF Tick, ledger
  <2>2. \A t \in now' .. End : t \in now .. End
    BY <1>0, <2>1
  <2> QED BY <2>1, <2>2
<1>2. CASE Edit
  <2>1. ahead => ahead'
    BY <1>2 DEF Edit, WriteInPlace, Replace, Redate
  <2> QED BY <1>2, <2>1, EditFacts
<1>3. CASE UpdateLists \/ BatchLists
  BY <1>3 DEF UpdateLists, BatchLists, ledger
<1>4. ASSUME NEW known \in BOOLEAN, StartRead(known) PROVE StampIsOver'
  BY <1>4 DEF StartRead, ledger
<1>5. ASSUME NEW c \in Contents, NEW prior \in {entry, Nothing}, Record(c, prior) PROVE StampIsOver'
  <2>1. clock' = clock /\ now' = now /\ ahead' = ahead /\ IsReading
    BY <1>5 DEF Record
  <2>2. entry'.mtime > 0 => entry'.mtime = look.mtime /\ Trusted(look, c, prior)
    BY <1>5, RecordedFacts DEF Record
  <2>3. entry'.mtime > 0 /\ ~ahead => Over(look)
    BY <2>1, <2>2, TrustedIsOver
  <2>4. \A t \in now .. End : t \in Times /\ t >= look.started
    BY <1>0, <2>1, ReadingFacts DEF PastInv
  <2> QED BY <2>1, <2>2, <2>3, <2>4 DEF Over
<1>6. CASE SaveAndReopen
  <2>1. clock' = clock /\ now' = now /\ ahead' = ahead
    BY <1>6 DEF SaveAndReopen
  <2>2. CASE shared /\ entry # Nothing /\ entry.mtime < 0
    <3>1. PICK t \in Times : entry' = [entry EXCEPT !.hashedAt = t]
      BY <2>2, <1>6 DEF SaveAndReopen
    <3>2. entry'.mtime = entry.mtime /\ entry.mtime \in Int
      BY <2>2, <3>1, EntryFacts DEF Entry
    <3> QED BY <2>2, <3>2
  <2>3. CASE ~(shared /\ entry # Nothing /\ entry.mtime < 0)
    BY <1>6, <2>1, <2>3 DEF SaveAndReopen
  <2> QED BY <2>2, <2>3
<1>7. CASE UNCHANGED trustVars
  BY <1>7 DEF trustVars
<1> QED BY <1>1, <1>2, <1>3, <1>4, <1>5, <1>6, <1>7 DEF TrustNext, Edit

LEMMA EntryNext ==
  ASSUME TrustInv, [TrustNext]_trustVars
  PROVE  EntryInv'
<1>. USE DEF EntryInv
<1>. TrustTypeOK /\ PastInv /\ PendingInv /\ SeenInv /\ StampIsOver /\ EntryInv
  BY DEF TrustInv
<1>0. now \in Start .. End /\ clock[now] + Margin > now /\ clock[now] \in Nat
  BY ClockFacts
<1>1. CASE Tick \/ UpdateLists \/ BatchLists
  BY <1>1 DEF Tick, UpdateLists, BatchLists, ledger, IsLegacy
<1>2. ASSUME NEW c \in Contents, WriteInPlace(c) \/ Replace(c) PROVE EntryInv'
  <2>1. /\ file'.mtime = clock[now] /\ entry' = entry
        /\ ahead' = ahead /\ redated' = redated
    BY <1>2 DEF WriteInPlace, Replace, ledger
  <2>2. entry # Nothing /\ entry.mtime > 0 /\ ~IsLegacy(entry) /\ ~ahead
          => entry.mtime # clock[now]
    BY <1>0 DEF StampIsOver
  <2>3. entry # Nothing /\ entry.mtime + Margin <= Start => entry.mtime # clock[now]
    BY <1>0, EntryFacts
  <2> QED BY <2>1, <2>2, <2>3 DEF IsLegacy
<1>3. ASSUME NEW d \in Dates, Redate(d) PROVE EntryInv'
  BY <1>3 DEF Redate
<1>4. ASSUME NEW known \in BOOLEAN, StartRead(known) PROVE EntryInv'
  BY <1>4 DEF StartRead, ledger, IsLegacy
<1>5. ASSUME NEW c \in Contents, NEW prior \in {entry, Nothing}, Record(c, prior) PROVE EntryInv'
  <2>1. /\ IsReading /\ c \in look.seen /\ file' = file /\ ahead' = ahead
        /\ redated' = (look.redated /\ ~(look.known /\ look.attached))
    BY <1>5 DEF Record
  <2>2. /\ entry'.hash = c /\ ~IsLegacy(entry')
        /\ entry'.mtime > 0 =>
             entry'.mtime = look.mtime /\ Trusted(look, c, prior) /\ ~Moved(look, c)
    <3>1. entry'.hashedAt \in Times /\ 0 \notin Times
      BY <1>5, RecordedFacts DEF Record
    <3> QED BY <1>5, <3>1, RecordedFacts DEF Record, IsLegacy
  <2>3. ASSUME entry'.mtime > 0, entry'.mtime = file.mtime, ~redated', ~ahead
        PROVE  c = file.content
    <3>1. Over(look)
      BY <2>1, <2>2, <2>3, TrustedIsOver
    <3>2. CASE ~look.redated
      BY <2>1, <2>2, <2>3, <3>1, <3>2 DEF SeenInv
    <3>3. CASE look.known /\ look.attached
      <4>1. look.same
        BY <2>2, <2>3, <3>3, ReadingFacts, <2>1 DEF Moved
      <4> QED BY <2>1, <3>1, <3>3, <4>1 DEF SeenInv
    <3> QED BY <2>1, <2>3, <3>2, <3>3
  <2> QED BY <2>1, <2>2, <2>3
<1>6. CASE SaveAndReopen
  <2>1. /\ file' = file /\ ahead' = ahead /\ redated' = redated
    BY <1>6 DEF SaveAndReopen
  <2>2. CASE shared /\ entry # Nothing /\ entry.mtime < 0
    <3>1. PICK t \in Times : entry' = [entry EXCEPT !.hashedAt = t]
      BY <2>2, <1>6 DEF SaveAndReopen
    <3>2. entry'.mtime = entry.mtime /\ entry.mtime \in Int
      BY <2>2, <3>1, EntryFacts DEF Entry
    <3> QED BY <2>2, <3>2
  <2>3. CASE ~(shared /\ entry # Nothing /\ entry.mtime < 0)
    BY <1>6, <2>1, <2>3 DEF SaveAndReopen, IsLegacy
  <2> QED BY <2>2, <2>3
<1>7. CASE UNCHANGED trustVars
  BY <1>7 DEF trustVars, IsLegacy
<1> QED BY <1>1, <1>2, <1>3, <1>4, <1>5, <1>6, <1>7 DEF TrustInv, TrustNext, Edit

LEMMA InvInit == TrustInit => TrustInv
<1>. SUFFICES ASSUME TrustInit PROVE TrustInv
  OBVIOUS
<1>1. TrustTypeOK
  BY TrustTypeInit
<1>2. PICK c \in Contents, m \in {clock[Start]} \cup {d \in Dates : d <= clock[Start]} :
        /\ file = [content |-> c, mtime |-> m, ctime |-> clock[Start]]
        /\ entry \in {Nothing} \cup
                     [size : {Size[c]}, mtime : {m, -m}, hash : {c},
                      ctime : {0}, hashedAt : {0}]
  BY DEF TrustInit
<1>3. /\ now = Start /\ written = Start /\ lastSet = 0 /\ look = Nothing
      /\ Start \in Start .. End
  BY DEF TrustInit
<1>4. clock[Start] \in Nat /\ m \in Nat \ {0} /\ m <= clock[Start]
  <2>1. clock[Start] \in Nat \ {0}
    BY <1>1, <1>3, ClockFacts
  <2>2. m = clock[Start] \/ (m \in Nat \ {0} /\ m <= clock[Start])
    OBVIOUS
  <2> QED BY <2>1, <2>2
<1>5. file.mtime = m /\ file.content = c
  BY <1>2
<1>6. entry # Nothing => /\ entry.mtime \in {m, -m} /\ entry.hash = c
                      /\ entry.hashedAt = 0 /\ IsLegacy(entry)
  BY <1>2 DEF IsLegacy
<1>7. RecordedBy = IF shared THEN 0 ELSE Start
  BY <1>3 DEF RecordedBy, FilesWritten, Max
<1>8. PastInv
  BY <1>3, <1>6 DEF PastInv, IsReading
<1>9. StampInv
  BY <1>3, <1>4, <1>5 DEF StampInv
<1>10. PendingInv
  <2>1. entry # Nothing /\ entry.mtime < 0 => -entry.mtime = m
    BY <1>4, <1>6
  <2> QED BY <1>4, <1>6, <1>7, <2>1 DEF PendingInv
<1>11. SeenInv
  BY <1>3 DEF SeenInv, IsReading
<1>12. StampIsOver
  BY <1>6 DEF StampIsOver
<1>13. EntryInv
  BY <1>5, <1>6 DEF EntryInv
<1> QED BY <1>1, <1>8, <1>9, <1>10, <1>11, <1>12, <1>13 DEF TrustInv

LEMMA InvNext ==
  ASSUME TrustInv, [TrustNext]_trustVars
  PROVE  TrustInv'
BY TrustTypeNext, PastNext, StampNext, PendingNext, SeenNext, StampIsOverNext, EntryNext DEF TrustInv

LEMMA Invariance == TrustSpec => []TrustInv
<1>1. TrustInv /\ [TrustNext]_trustVars => TrustInv'
  BY InvNext
<1> QED BY InvInit, <1>1, PTL DEF TrustSpec
-----------------------------------------------------------------------------
(* The properties *)

\* The file system never stamps a file again with the time of a trusted entry.
THEOREM StampsAreOver == TrustSpec => []StampIsOver
<1>1. TrustInv => StampIsOver
  BY DEF TrustInv
<1> QED BY Invariance, <1>1, PTL

\* No update skips a file that does not hold the bytes that were hashed.
THEOREM TrustKept == TrustSpec => []TrustIsKept
<1>1. ASSUME TrustInv PROVE TrustIsKept
  <2>. SUFFICES ASSUME ~ahead, ~redated, SkipsAnEdit,
                       entry # Nothing /\ IsLegacy(entry) => written = Start
                PROVE  FALSE
    BY DEF TrustIsKept
  <2>1. /\ entry # Nothing /\ entry.hash # file.content
        /\ entry.mtime > 0 /\ entry.mtime = file.mtime
        /\ IsLegacy(entry) => FilesWritten > 0 /\ entry.mtime + Margin <= FilesWritten
    BY DEF SkipsAnEdit, MatchesListing
  <2>2. IsLegacy(entry) => FilesWritten = Start
    BY <2>1 DEF FilesWritten
  <2> QED BY <1>1, <2>1, <2>2 DEF TrustInv, EntryInv
<1> QED BY Invariance, <1>1, PTL
=============================================================================

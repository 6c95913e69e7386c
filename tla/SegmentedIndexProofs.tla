----------------------- MODULE SegmentedIndexProofs -------------------------
(***************************************************************************)
(* Proofs about the text index for any set of paths and contents, any      *)
(* bounds and any faults: its documents stay exact, it can be killed       *)
(* anywhere, its files are immutable, and it is a map from paths to        *)
(* contents that a save commits.                                           *)
(***************************************************************************)
EXTENDS SegmentedIndex, FiniteSetTheorems, WellFoundedInduction, TLAPS
-----------------------------------------------------------------------------
(* Naturals, and the numbering of cache files (as in LedgerProofs)             *)

NatLess == {ss \in Nat \X Nat : ss[1] < ss[2]}

\* Every non-empty set of naturals has a least element.
LEMMA LeastNatural ==
  ASSUME NEW T \in SUBSET Nat, T # {}
  PROVE  \E x \in T : \A y \in T : x <= y
<1>1. IsWellFoundedOn(NatLess, Nat)
  BY NatLessThanWellFounded DEF OpToRel, NatLess
<1>2. PICK x \in T : \A y \in T : <<y, x>> \notin NatLess
  BY <1>1, WFMin
<1>3. \A y, z \in Nat : <<y, z>> \in NatLess <=> y < z
  BY DEF NatLess
<1>4. ASSUME NEW y \in T PROVE x <= y
  <2>1. x \in Nat /\ y \in Nat
    OBVIOUS
  <2>2. ~(y < x)
    BY <1>2, <1>3, <2>1
  <2> QED BY <2>1, <2>2
<1> QED BY <1>4

\* A bounded non-empty set of naturals has a greatest element.
LEMMA GreatestNatural ==
  ASSUME NEW k \in Nat, NEW T \in SUBSET Nat, T # {}, \A x \in T : x <= k
  PROVE  \E x \in T : \A y \in T : y <= x
<1> DEFINE D == {k - x : x \in T}
<1>1. D \in SUBSET Nat /\ D # {}
  <2>1. ASSUME NEW x \in T PROVE k - x \in Nat
    OBVIOUS
  <2> QED BY <2>1
<1>2. PICK d \in D : \A e \in D : d <= e
  BY <1>1, LeastNatural
<1>3. PICK x \in T : d = k - x
  BY <1>2
<1>4. ASSUME NEW y \in T PROVE y <= x
  <2>1. k - y \in D
    OBVIOUS
  <2>2. k - x <= k - y
    BY <1>2, <1>3, <2>1
  <2> QED BY <2>2
<1> QED BY <1>4

\* The number after the files present is above every one of them.
LEMMA NumberIsFresh ==
  ASSUME NEW bound \in Nat, NEW used \in SUBSET (0 .. bound)
  PROVE  /\ NextNumber(used) \in Nat
         /\ \A n \in used : n < NextNumber(used)
<1>1. \E k \in {0} \cup {n + 1 : n \in used} : \A n \in used : n < k
  <2>1. CASE used = {}
    BY <2>1
  <2>2. CASE used # {}
    <3>1. used \in SUBSET Nat /\ \A x \in used : x <= bound
      OBVIOUS
    <3>2. PICK x \in used : \A y \in used : y <= x
      BY <2>2, <3>1, GreatestNatural
    <3>3. \A y \in used : y < x + 1
      BY <3>1, <3>2
    <3> QED BY <3>3
  <2> QED BY <2>1, <2>2
<1>2. /\ NextNumber(used) \in {0} \cup {n + 1 : n \in used}
      /\ \A n \in used : n < NextNumber(used)
  BY <1>1, Zenon DEF NextNumber
<1>3. \A n \in used : n + 1 \in Nat
  OBVIOUS
<1> QED BY <1>2, <1>3
-----------------------------------------------------------------------------
(* The documents of segments, for any files.  A segment's location is its   *)
(* place among the segments and the document's among its file's.            *)

\* The bounds are numbers, and the markers are none of the values they stand beside.
LEMMA Apart ==
  /\ MaxSegment \in Nat /\ MaxPending \in Nat \ {0} /\ Numbers \subseteq Nat
  /\ None # Torn /\ None \notin Contents
  /\ \A b \in Seq(Doc) : b \notin {None, Torn}
  /\ None \notin Job /\ None \notin Build /\ None \notin Manifest /\ None \notin Loc
  /\ None \notin [Paths -> Loc \cup {None}] /\ None \notin [Paths -> Contents \cup {None}]
<1>1. MaxSegment \in Nat /\ MaxPending \in Nat \ {0} /\ None # Torn /\ None \notin Contents
  BY ConstAssumption
<1>2. \A x \in Seq(Doc) \cup Job \cup Build \cup Manifest \cup Loc \cup [Paths -> Loc \cup {None}]
           \cup [Paths -> Contents \cup {None}] :
        x \notin {None, Torn}
  BY ConstAssumption, Zenon
<1>3. Numbers \subseteq Nat
  BY <1>1 DEF Numbers
<1> QED BY <1>1, <1>2, <1>3, Zenon

AllFiles == [Numbers -> Seq(Doc) \cup {None, Torn}]

LocsOf(fs, s)    == UNION {{i} \X DOMAIN fs[s[i]] : i \in DOMAIN s}
DocOf(fs, s, at) == fs[s[at[1]]][at[2]]
AllLocs(fs, s, q) == LocsOf(fs, s) \cup {<<Len(s) + 1, l>> : l \in DOMAIN q}
DocsOf(fs, s)    == [at \in LocsOf(fs, s) |-> DocOf(fs, s, at)]
Then(s, n)       == Append(s, n)
With(fs, n, b)   == [fs EXCEPT ![n] = b]
Opens(fs, s)     == \A i \in DOMAIN s : fs[s[i]] \notin {None, Torn}

\* What a location of opened segments is, and what it holds.
LEMMA Locations ==
  ASSUME NEW fs \in AllFiles, NEW s \in Seq(Numbers), Opens(fs, s)
  PROVE  /\ \A i \in 1 .. Len(s) : fs[s[i]] \in Seq(Doc) /\ s[i] \in Numbers
         /\ \A at : at \in LocsOf(fs, s) <=>
              \E i \in 1 .. Len(s) : \E l \in 1 .. Len(fs[s[i]]) : at = <<i, l>>
         /\ LocsOf(fs, s) \subseteq Loc
         /\ \A at \in LocsOf(fs, s) : /\ at[1] \in 1 .. Len(s)
                                      /\ at[2] \in 1 .. Len(fs[s[at[1]]])
                                      /\ at = <<at[1], at[2]>>
                                      /\ DocOf(fs, s, at) \in Doc
<1>1. DOMAIN s = 1 .. Len(s) /\ Len(s) \in Nat
  OBVIOUS
<1>2. ASSUME NEW i \in 1 .. Len(s) PROVE fs[s[i]] \in Seq(Doc) /\ s[i] \in Numbers
  <2>1. s[i] \in Numbers
    OBVIOUS
  <2>2. fs[s[i]] \notin {None, Torn}
    BY <1>1 DEF Opens
  <2> QED BY <2>1, <2>2 DEF AllFiles
<1>3. \A i \in 1 .. Len(s) : DOMAIN fs[s[i]] = 1 .. Len(fs[s[i]]) /\ Len(fs[s[i]]) \in Nat
  BY <1>2
<1>4. \A at : at \in LocsOf(fs, s) <=>
        \E i \in 1 .. Len(s) : \E l \in 1 .. Len(fs[s[i]]) : at = <<i, l>>
  <2> TAKE at
  <2>1. at \in LocsOf(fs, s) <=> \E i \in 1 .. Len(s) : at \in {i} \X DOMAIN fs[s[i]]
    BY <1>1, Zenon DEF LocsOf
  <2>2. ASSUME NEW i \in 1 .. Len(s)
        PROVE  at \in {i} \X DOMAIN fs[s[i]] <=> \E l \in 1 .. Len(fs[s[i]]) : at = <<i, l>>
    <3>1. DOMAIN fs[s[i]] = 1 .. Len(fs[s[i]])
      BY <1>3
    <3> QED BY <3>1
  <2> QED BY <2>1, <2>2
<1>5. ASSUME NEW at \in LocsOf(fs, s)
      PROVE  /\ at \in Loc
             /\ at[1] \in 1 .. Len(s)
             /\ at[2] \in 1 .. Len(fs[s[at[1]]])
             /\ at = <<at[1], at[2]>>
             /\ DocOf(fs, s, at) \in Doc
  <2>a. PICK i \in 1 .. Len(s) : \E l \in 1 .. Len(fs[s[i]]) : at = <<i, l>>
    BY <1>4
  <2>1. PICK l \in 1 .. Len(fs[s[i]]) : at = <<i, l>>
    BY <2>a
  <2>2. at[1] = i /\ at[2] = l
    BY <2>1
  <2>3. i \in Nat /\ l \in Nat
    BY <1>1, <1>3
  <2>4. fs[s[i]][l] \in Doc
    BY <1>2
  <2> QED BY <2>1, <2>2, <2>3, <2>4 DEF DocOf, Loc
<1> QED BY <1>2, <1>4, <1>5

\* Files that keep what the segments name keep the documents.
LEMMA Kept ==
  ASSUME NEW fs \in AllFiles, NEW gs, NEW s \in Seq(Numbers), Opens(fs, s),
         \A i \in DOMAIN s : gs[s[i]] = fs[s[i]]
  PROVE  Opens(gs, s) /\ DocsOf(gs, s) = DocsOf(fs, s)
<1>1. Opens(gs, s)
  BY DEF Opens
<1>2. LocsOf(gs, s) = LocsOf(fs, s)
  BY DEF LocsOf
<1>3. ASSUME NEW at \in LocsOf(fs, s) PROVE DocOf(gs, s, at) = DocOf(fs, s, at)
  <2>1. at[1] \in DOMAIN s
    BY Locations
  <2> QED BY <2>1 DEF DocOf
<1> QED BY <1>1, <1>2, <1>3 DEF DocsOf

\* A segment written under a number the segments do not name adds its documents.
LEMMA Appended ==
  ASSUME NEW fs \in AllFiles, NEW s \in Seq(Numbers), Opens(fs, s),
         NEW n \in Numbers, \A i \in DOMAIN s : s[i] # n,
         NEW b \in Seq(Doc), NEW gs, gs = With(fs, n, b),
         NEW u, u = Then(s, n)
  PROVE  /\ gs \in AllFiles /\ u \in Seq(Numbers) /\ Opens(gs, u)
         /\ LocsOf(gs, u) = AllLocs(fs, s, b)
         /\ \A at \in LocsOf(fs, s) : DocOf(gs, u, at) = DocOf(fs, s, at)
         /\ \A l \in DOMAIN b : DocOf(gs, u, <<Len(s) + 1, l>>) = b[l]
<1>1. /\ u \in Seq(Numbers) /\ Len(u) = Len(s) + 1 /\ Len(s) \in Nat
      /\ DOMAIN s = 1 .. Len(s) /\ DOMAIN u = 1 .. (Len(s) + 1)
      /\ \A i \in 1 .. Len(s) : u[i] = s[i]
      /\ u[Len(s) + 1] = n
  BY DEF Then
<1>2. gs \in AllFiles /\ gs[n] = b /\ \A m \in Numbers \ {n} : gs[m] = fs[m]
  BY DEF AllFiles, With
<1>3. \A i \in 1 .. Len(s) : gs[u[i]] = fs[s[i]]
  BY <1>1, <1>2
<1>4. b \notin {None, Torn}
  BY Apart
<1>5. gs[u[Len(s) + 1]] = b
  BY <1>1, <1>2
<1>6. Opens(gs, u)
  <2> SUFFICES ASSUME NEW i \in DOMAIN u PROVE gs[u[i]] \notin {None, Torn}
    BY DEF Opens
  <2>1. CASE i = Len(s) + 1
    BY <2>1, <1>4, <1>5
  <2>2. CASE i \in 1 .. Len(s)
    BY <2>2, <1>1, <1>3 DEF Opens
  <2> QED BY <2>1, <2>2, <1>1
<1>11. \A at : at \in LocsOf(gs, u) <=>
        \E i \in 1 .. Len(u) : \E l \in 1 .. Len(gs[u[i]]) : at = <<i, l>>
  BY <1>1, <1>2, <1>6, Locations
<1>7. DOMAIN b = 1 .. Len(b)
  OBVIOUS
<1>8. LocsOf(gs, u) = LocsOf(fs, s) \cup {<<Len(s) + 1, l>> : l \in DOMAIN b}
  <2>1. ASSUME NEW at \in LocsOf(gs, u)
        PROVE  at \in LocsOf(fs, s) \cup {<<Len(s) + 1, l>> : l \in DOMAIN b}
    <3>a. PICK i \in 1 .. Len(u) : \E l \in 1 .. Len(gs[u[i]]) : at = <<i, l>>
      BY <1>11
    <3>1. PICK l \in 1 .. Len(gs[u[i]]) : at = <<i, l>>
      BY <3>a
    <3>2. CASE i \in 1 .. Len(s)
      <4>1. l \in 1 .. Len(fs[s[i]])
        BY <3>1, <3>2, <1>3
      <4> QED BY <3>1, <3>2, <4>1, Locations
    <3>3. CASE i = Len(s) + 1
      BY <3>1, <3>3, <1>5, <1>7
    <3> QED BY <3>2, <3>3, <1>1
  <2>2. ASSUME NEW at \in LocsOf(fs, s) PROVE at \in LocsOf(gs, u)
    <3>a. PICK i \in 1 .. Len(s) : \E l \in 1 .. Len(fs[s[i]]) : at = <<i, l>>
      BY Locations
    <3>1. PICK l \in 1 .. Len(fs[s[i]]) : at = <<i, l>>
      BY <3>a
    <3>2. i \in 1 .. Len(u) /\ l \in 1 .. Len(gs[u[i]])
      BY <3>1, <1>1, <1>3
    <3> QED BY <3>1, <3>2, <1>11
  <2>3. ASSUME NEW l \in DOMAIN b PROVE <<Len(s) + 1, l>> \in LocsOf(gs, u)
    <3>1. Len(s) + 1 \in 1 .. Len(u) /\ l \in 1 .. Len(gs[u[Len(s) + 1]])
      BY <1>1, <1>5, <1>7
    <3> QED BY <3>1, <1>11
  <2> QED BY <2>1, <2>2, <2>3
<1>9. ASSUME NEW at \in LocsOf(fs, s) PROVE DocOf(gs, u, at) = DocOf(fs, s, at)
  <2>1. at[1] \in 1 .. Len(s)
    BY Locations
  <2> QED BY <2>1, <1>3 DEF DocOf
<1>10. ASSUME NEW l \in DOMAIN b PROVE DocOf(gs, u, <<Len(s) + 1, l>>) = b[l]
  BY <1>5 DEF DocOf
<1>12. LocsOf(gs, u) = AllLocs(fs, s, b)
  BY <1>8 DEF AllLocs
<1> QED BY <1>1, <1>2, <1>6, <1>12, <1>9, <1>10

\* The segments hold finitely many documents.
LEMMA LocsFinite ==
  ASSUME NEW fs \in AllFiles, NEW s \in Seq(Numbers), Opens(fs, s)
  PROVE  IsFiniteSet(LocsOf(fs, s))
<1> DEFINE g == [i \in 1 .. Len(s) |-> {i} \X DOMAIN fs[s[i]]]
           G == {g[i] : i \in 1 .. Len(s)}
<1>1. DOMAIN s = 1 .. Len(s) /\ IsFiniteSet(1 .. Len(s))
  <2>1. 1 \in Int /\ Len(s) \in Int /\ DOMAIN s = 1 .. Len(s)
    OBVIOUS
  <2>2. IsFiniteSet(1 .. Len(s))
    BY <2>1, FS_Interval
  <2> QED BY <2>1, <2>2
<1>2. IsFiniteSet(G)
  <2>1. g \in Surjection(1 .. Len(s), G)
    BY DEF Surjection
  <2> HIDE DEF g, G
  <2> QED BY <1>1, <2>1, FS_Surjection
<1>3. ASSUME NEW T \in G PROVE IsFiniteSet(T)
  <2>1. PICK i \in 1 .. Len(s) : T = {i} \X DOMAIN fs[s[i]]
    OBVIOUS
  <2>2. DOMAIN fs[s[i]] = 1 .. Len(fs[s[i]]) /\ Len(fs[s[i]]) \in Nat
    BY Locations
  <2>3. 1 \in Int /\ Len(fs[s[i]]) \in Int
    BY <2>2
  <2>4. IsFiniteSet(1 .. Len(fs[s[i]]))
    BY <2>3, FS_Interval
  <2>5. IsFiniteSet(DOMAIN fs[s[i]]) /\ IsFiniteSet({i})
    BY <2>2, <2>4, FS_Singleton
  <2> QED BY <2>1, <2>5, FS_Product
<1>4. LocsOf(fs, s) = UNION G
  BY <1>1 DEF LocsOf
<1> QED BY <1>2, <1>3, <1>4, FS_UNION
-----------------------------------------------------------------------------
(* The documents of segments and a buffer, which is the segment after them *)

TheDoc(fs, s, q, at) == IF at[1] = Len(s) + 1 THEN q[at[2]] ELSE DocOf(fs, s, at)
AllDocs(fs, s, q)    == [at \in AllLocs(fs, s, q) |-> TheDoc(fs, s, q, at)]

\* The documents are documents, at locations that tell written from buffered ones.
LEMMA Documents ==
  ASSUME NEW fs \in AllFiles, NEW s \in Seq(Numbers), Opens(fs, s), NEW q \in Seq(Doc)
  PROVE  /\ DOMAIN AllDocs(fs, s, q) = AllLocs(fs, s, q)
         /\ AllLocs(fs, s, q) \subseteq Loc
         /\ LocsOf(fs, s) \subseteq AllLocs(fs, s, q)
         /\ \A at \in AllLocs(fs, s, q) : AllDocs(fs, s, q)[at] \in Doc
         /\ \A at \in AllLocs(fs, s, q) : at \in LocsOf(fs, s) <=> at[1] # Len(s) + 1
         /\ \A at \in LocsOf(fs, s) : AllDocs(fs, s, q)[at] = DocOf(fs, s, at)
         /\ \A l \in DOMAIN q : AllDocs(fs, s, q)[<<Len(s) + 1, l>>] = q[l]
         /\ \A at \in AllLocs(fs, s, q) : at[1] <= Len(s) <=> at \in LocsOf(fs, s)
         /\ q = <<>> => AllDocs(fs, s, q) = DocsOf(fs, s)
<1>1. Len(s) \in Nat /\ DOMAIN q = 1 .. Len(q) /\ Len(q) \in Nat
  OBVIOUS
<1>2. ASSUME NEW at \in LocsOf(fs, s)
      PROVE  /\ at[1] # Len(s) + 1 /\ at[1] <= Len(s) /\ at \in Loc
             /\ DocOf(fs, s, at) \in Doc
             /\ TheDoc(fs, s, q, at) = DocOf(fs, s, at)
  <2>1. at[1] \in 1 .. Len(s) /\ at \in Loc /\ DocOf(fs, s, at) \in Doc
    BY Locations
  <2>2. at[1] # Len(s) + 1 /\ at[1] <= Len(s)
    BY <2>1, <1>1
  <2> QED BY <2>1, <2>2 DEF TheDoc
<1>3. ASSUME NEW l \in DOMAIN q
      PROVE  /\ <<Len(s) + 1, l>> \in Loc /\ <<Len(s) + 1, l>> \notin LocsOf(fs, s)
             /\ q[l] \in Doc
             /\ TheDoc(fs, s, q, <<Len(s) + 1, l>>) = q[l]
  <2>1. <<Len(s) + 1, l>>[1] = Len(s) + 1 /\ <<Len(s) + 1, l>>[2] = l
    OBVIOUS
  <2>2. <<Len(s) + 1, l>> \notin LocsOf(fs, s)
    BY <1>2, <2>1
  <2>3. <<Len(s) + 1, l>> \in Loc /\ q[l] \in Doc
    BY <1>1 DEF Loc
  <2> QED BY <2>1, <2>2, <2>3 DEF TheDoc
<1>4. ASSUME NEW at \in AllLocs(fs, s, q)
      PROVE  at \in LocsOf(fs, s) \/ \E l \in DOMAIN q : at = <<Len(s) + 1, l>>
  BY DEF AllLocs
<1>5. ASSUME NEW at \in AllLocs(fs, s, q)
      PROVE  /\ at \in Loc /\ TheDoc(fs, s, q, at) \in Doc
             /\ at \in LocsOf(fs, s) <=> at[1] # Len(s) + 1
             /\ at[1] <= Len(s) <=> at \in LocsOf(fs, s)
  <2>1. CASE at \in LocsOf(fs, s)
    BY <2>1, <1>2
  <2>2. CASE at \notin LocsOf(fs, s)
    <3>1. PICK l \in DOMAIN q : at = <<Len(s) + 1, l>>
      BY <2>2, <1>4
    <3>2. at[1] = Len(s) + 1
      BY <3>1
    <3>3. ~(Len(s) + 1 <= Len(s))
      BY <1>1
    <3> QED BY <3>1, <3>2, <3>3, <2>2, <1>3
  <2> QED BY <2>1, <2>2
<1>6. LocsOf(fs, s) \subseteq AllLocs(fs, s, q) /\ \A l \in DOMAIN q : <<Len(s) + 1, l>> \in AllLocs(fs, s, q)
  BY DEF AllLocs
<1>7. /\ DOMAIN AllDocs(fs, s, q) = AllLocs(fs, s, q)
      /\ \A at \in AllLocs(fs, s, q) : AllDocs(fs, s, q)[at] = TheDoc(fs, s, q, at)
  BY DEF AllDocs
<1>8. q = <<>> => AllLocs(fs, s, q) = LocsOf(fs, s)
  BY DEF AllLocs
<1>9. q = <<>> => AllDocs(fs, s, q) = DocsOf(fs, s)
  BY <1>2, <1>8 DEF AllDocs, DocsOf
<1> QED BY <1>2, <1>3, <1>5, <1>6, <1>7, <1>9

\* There are finitely many.
LEMMA DocumentsFinite ==
  ASSUME NEW fs \in AllFiles, NEW s \in Seq(Numbers), Opens(fs, s), NEW q \in Seq(Doc)
  PROVE  /\ IsFiniteSet(AllLocs(fs, s, q))
         /\ Cardinality(AllLocs(fs, s, q)) = Cardinality(LocsOf(fs, s)) + Len(q)
<1> DEFINE Q == {<<Len(s) + 1, l>> : l \in DOMAIN q}
           g == [l \in DOMAIN q |-> <<Len(s) + 1, l>>]
<1>1. DOMAIN q = 1 .. Len(q) /\ 1 \in Int /\ Len(q) \in Int /\ Len(q) \in Nat /\ Len(s) \in Nat
  OBVIOUS
<1>2. IsFiniteSet(1 .. Len(q)) /\ Cardinality(1 .. Len(q)) = IF 1 > Len(q) THEN 0 ELSE Len(q) - 1 + 1
  BY <1>1, FS_Interval
<1>3. IsFiniteSet(DOMAIN q) /\ Cardinality(DOMAIN q) = Len(q)
  BY <1>1, <1>2
<1>4. g \in Surjection(DOMAIN q, Q)
  BY DEF Surjection
<1>5. g \in Injection(DOMAIN q, Q)
  <2>1. g \in [DOMAIN q -> Q]
    OBVIOUS
  <2>2. ASSUME NEW a \in DOMAIN q, NEW b \in DOMAIN q, g[a] = g[b] PROVE a = b
    <3>1. <<Len(s) + 1, a>>[2] = <<Len(s) + 1, b>>[2]
      BY <2>2
    <3> QED BY <3>1
  <2> HIDE DEF g, Q
  <2> QED BY <2>1, <2>2 DEF Injection, IsInjective
<1>6. IsFiniteSet(Q) /\ Cardinality(Q) = Len(q)
  BY <1>3, <1>4, <1>5, FS_Surjection
<1>7. IsFiniteSet(LocsOf(fs, s))
  BY LocsFinite
<1>8. LocsOf(fs, s) \cap Q = {}
  <2>1. \A at \in LocsOf(fs, s) : at[1] # Len(s) + 1
    BY Documents
  <2>2. \A at \in Q : at[1] = Len(s) + 1
    OBVIOUS
  <2> QED BY <2>1, <2>2
<1>9. /\ IsFiniteSet(LocsOf(fs, s) \cup Q)
      /\ Cardinality(LocsOf(fs, s) \cup Q)
           = Cardinality(LocsOf(fs, s)) + Cardinality(Q) - Cardinality(LocsOf(fs, s) \cap Q)
  BY <1>6, <1>7, FS_Union
<1>10. Cardinality(LocsOf(fs, s) \cap Q) = 0
  BY <1>8, FS_EmptySet
<1>11. Cardinality(LocsOf(fs, s)) \in Nat
  BY <1>7, FS_CardinalityType
<1>12. AllLocs(fs, s, q) = LocsOf(fs, s) \cup Q
  BY DEF AllLocs
<1> QED BY <1>1, <1>6, <1>9, <1>10, <1>11, <1>12

\* Other files change nothing.
LEMMA AllKept ==
  ASSUME NEW fs \in AllFiles, NEW gs, NEW s \in Seq(Numbers), Opens(fs, s), NEW q \in Seq(Doc),
         \A i \in DOMAIN s : gs[s[i]] = fs[s[i]]
  PROVE  AllDocs(gs, s, q) = AllDocs(fs, s, q)
<1>1. DocsOf(gs, s) = DocsOf(fs, s)
  BY Kept
<1>2. LocsOf(gs, s) = LocsOf(fs, s) /\ \A at \in LocsOf(fs, s) : DocOf(gs, s, at) = DocOf(fs, s, at)
  BY <1>1 DEF DocsOf
<1>3. AllLocs(gs, s, q) = AllLocs(fs, s, q)
  BY <1>2 DEF AllLocs
<1>4. ASSUME NEW at \in AllLocs(fs, s, q) PROVE TheDoc(gs, s, q, at) = TheDoc(fs, s, q, at)
  BY <1>2, Documents DEF TheDoc
<1> QED BY <1>3, <1>4 DEF AllDocs

\* Writing the buffer under a new number leaves every document where it was promised.
LEMMA Flushed ==
  ASSUME NEW fs \in AllFiles, NEW s \in Seq(Numbers), Opens(fs, s), NEW q \in Seq(Doc),
         NEW n \in Numbers, \A i \in DOMAIN s : s[i] # n,
         NEW gs, gs = With(fs, n, q),
         NEW u, u = Then(s, n)
  PROVE  /\ gs \in AllFiles /\ u \in Seq(Numbers) /\ Opens(gs, u)
         /\ AllDocs(gs, u, <<>>) = AllDocs(fs, s, q)
         /\ LocsOf(gs, u) = AllLocs(fs, s, q)
<1>1. /\ gs \in AllFiles /\ u \in Seq(Numbers) /\ Opens(gs, u)
      /\ LocsOf(gs, u) = AllLocs(fs, s, q)
      /\ \A at \in LocsOf(fs, s) : DocOf(gs, u, at) = DocOf(fs, s, at)
      /\ \A l \in DOMAIN q : DocOf(gs, u, <<Len(s) + 1, l>>) = q[l]
  BY Appended
<1>2. <<>> \in Seq(Doc)
  OBVIOUS
<1>3. AllDocs(gs, u, <<>>) = DocsOf(gs, u)
  BY <1>1, <1>2, Documents
<1>4. ASSUME NEW at \in AllLocs(fs, s, q) PROVE DocOf(gs, u, at) = TheDoc(fs, s, q, at)
  <2>1. CASE at \in LocsOf(fs, s)
    <3>1. at[1] # Len(s) + 1
      BY <2>1, Documents
    <3> QED BY <2>1, <3>1, <1>1 DEF TheDoc
  <2>2. CASE at \notin LocsOf(fs, s)
    <3>1. PICK l \in DOMAIN q : at = <<Len(s) + 1, l>>
      BY <2>2 DEF AllLocs
    <3> QED BY <3>1, <1>1 DEF TheDoc
  <2> QED BY <2>1, <2>2
<1>5. DocsOf(gs, u) = AllDocs(fs, s, q)
  BY <1>1, <1>4 DEF DocsOf, AllDocs
<1> QED BY <1>1, <1>3, <1>5

\* Where the next document of the buffer will be.
Place(s, q) == <<Len(s) + 1, Len(q) + 1>>

\* One more document in the buffer is at the next place of the next segment.
LEMMA Extended ==
  ASSUME NEW fs \in AllFiles, NEW s \in Seq(Numbers), Opens(fs, s), NEW q \in Seq(Doc),
         NEW d \in Doc, NEW r, r = Then(q, d), NEW new, new = Place(s, q)
  PROVE  /\ r \in Seq(Doc)
         /\ new \notin AllLocs(fs, s, q)
         /\ new \in Loc
         /\ AllLocs(fs, s, r) = AllLocs(fs, s, q) \cup {new}
         /\ \A at \in AllLocs(fs, s, q) : AllDocs(fs, s, r)[at] = AllDocs(fs, s, q)[at]
         /\ AllDocs(fs, s, r)[new] = d
<1>1. /\ r \in Seq(Doc) /\ Len(q) \in Nat /\ Len(s) \in Nat
      /\ DOMAIN q = 1 .. Len(q) /\ DOMAIN r = 1 .. Len(q) + 1
      /\ \A l \in DOMAIN q : r[l] = q[l]
      /\ r[Len(q) + 1] = d
  BY DEF Then
<1>2. new \in Loc /\ new[1] = Len(s) + 1 /\ new[2] = Len(q) + 1
  BY <1>1 DEF Loc, Place
<1>3. new \notin AllLocs(fs, s, q)
  <2> SUFFICES ASSUME new \in AllLocs(fs, s, q) PROVE FALSE
    OBVIOUS
  <2>1. new \notin LocsOf(fs, s)
    BY <1>2, Documents
  <2>2. PICK l \in DOMAIN q : new = <<Len(s) + 1, l>>
    BY <2>1 DEF AllLocs
  <2>3. l = Len(q) + 1
    BY <2>2, <1>2
  <2> QED BY <2>3, <1>1
<1>4. AllLocs(fs, s, r) = AllLocs(fs, s, q) \cup {new}
  <2>1. DOMAIN r = DOMAIN q \cup {Len(q) + 1}
    BY <1>1
  <2> QED BY <2>1 DEF AllLocs, Place
<1>5. ASSUME NEW at \in AllLocs(fs, s, q) PROVE AllDocs(fs, s, r)[at] = AllDocs(fs, s, q)[at]
  <2>1. CASE at \in LocsOf(fs, s)
    BY <2>1, <1>1, Documents
  <2>2. CASE at \notin LocsOf(fs, s)
    <3>1. PICK l \in DOMAIN q : at = <<Len(s) + 1, l>>
      BY <2>2 DEF AllLocs
    <3>2. l \in DOMAIN r /\ r[l] = q[l]
      BY <1>1
    <3>3. AllDocs(fs, s, q)[<<Len(s) + 1, l>>] = q[l]
      BY Documents
    <3>4. AllDocs(fs, s, r)[<<Len(s) + 1, l>>] = r[l]
      BY <3>2, <1>1, Documents
    <3> QED BY <3>1, <3>2, <3>3, <3>4
  <2> QED BY <2>1, <2>2
<1>6. AllDocs(fs, s, r)[new] = d
  <2>1. Len(q) + 1 \in DOMAIN r
    BY <1>1
  <2> QED BY <2>1, <1>1, Documents DEF Place
<1> QED BY <1>1, <1>2, <1>3, <1>4, <1>5, <1>6
-----------------------------------------------------------------------------
(* What documents, tombstones and a path map say together *)

Live(d, t) == {d[at] : at \in DOMAIN d \ t}
Sole(d, t) == \A a, b \in DOMAIN d \ t : d[a].path = d[b].path => a = b
Finds(d, t, m) == \A a \in DOMAIN d \ t : m[d[a].path] = a
Exactly(d, t, m) ==
  /\ \A p \in Paths : m[p] # None => m[p] \in DOMAIN d \ t /\ d[m[p]].path = p
  /\ Finds(d, t, m)

\* The documents of the open index, and of the segments the manifest or a build names.
Docs      == AllDocs(files, segs, pending)
Committed == DocsOf(files, manifest.segs)
Building  == DocsOf(files, build.segs)

Types ==
  /\ open \in BOOLEAN
  /\ segs \in Seq(Numbers) /\ tombs \in SUBSET Loc /\ pending \in Seq(Doc)
  /\ pmap \in [Paths -> Loc \cup {None}] \cup {None}
  /\ next \in Nat
  /\ job \in Job \cup {None}
  /\ build \in Build \cup {None}
  /\ files \in AllFiles
  /\ manifest \in Manifest \cup {None}
  /\ tombFile \in SUBSET Loc
  /\ saved \in SUBSET Doc
  /\ recovered \in BOOLEAN /\ lost \in BOOLEAN /\ short \in BOOLEAN

\* What the steps of a save, of a build and of a removal leave for one another.
ToBuild == job # None /\ job.kind = "build" /\ job.at = "manifest"
ShapeInv ==
  /\ ~open => segs = <<>> /\ tombs = {} /\ pending = <<>> /\ pmap = None /\ job = None /\ ~lost
  /\ ToBuild => ~lost
  /\ build # None => ~open
  /\ job # None => open /\ pending = <<>>
  /\ job # None /\ job.at = "merge" => job.kind = "compact"
  /\ job # None /\ job.at \in {"tombs", "clean"} => manifest = ManifestNow
  /\ job # None /\ job.at = "clean" => tombFile = tombs
  /\ pending # <<>> => pmap # None

\* The open index: its segments open and its next number is unused.  Until a recovery
\* no path has two live documents and the map finds each of them, whatever buffer was
\* lost; and the index is exact while it is sure.  All of it holds of a build's index,
\* whatever was there before.
MemoryInv ==
  /\ Opens(files, segs)
  /\ open => \A n \in Numbers : files[n] # None => n < next
  /\ ~recovered \/ ToBuild => /\ Sole(Docs, tombs)
                              /\ pmap # None => Finds(Docs, tombs, pmap)
  /\ Sure \/ ToBuild => /\ tombs \subseteq LocsOf(files, segs)
                        /\ pmap # None => Exactly(Docs, tombs, pmap)

\* The manifest: its segments open and hold what was committed.
ManifestInv ==
  manifest # None =>
    /\ Opens(files, manifest.segs)
    /\ Live(Committed, manifest.tombs) = saved
    /\ ~recovered => Sole(Committed, manifest.tombs)
    /\ ~recovered /\ ~short => manifest.tombs \subseteq LocsOf(files, manifest.segs)

\* A build: its segments open, are new, and hold each path of the walk so far once.
BuildInv ==
  build # None =>
    /\ Opens(files, build.segs)
    /\ \A n \in Numbers : files[n] # None => n < build.next
    /\ manifest # None =>
         \A i \in DOMAIN build.segs, j \in DOMAIN manifest.segs : build.segs[i] # manifest.segs[j]
    /\ Sole(Building, {})
    /\ \A a \in DOMAIN Building : Building[a].path \in build.seen

IInv == Types /\ ShapeInv /\ MemoryInv /\ ManifestInv /\ BuildInv
-----------------------------------------------------------------------------
(* The model's own names for them *)

\* The model's locations, documents and properties, as functions of its files and segments.
LEMMA Spelled ==
  ASSUME Types
  PROVE  /\ \A s : LocsIn(s) = LocsOf(files, s)
         /\ \A s, at : DocIn(s, at) = DocOf(files, s, at)
         /\ Locs = AllLocs(files, segs, pending)
         /\ \A at : DocAt(at) = TheDoc(files, segs, pending, at)
         /\ \A at \in Locs : DocAt(at) = Docs[at]
         /\ DOMAIN Docs = Locs
         /\ View = Live(Docs, tombs)
         /\ OneLiveCopy <=> Sole(Docs, tombs)
         /\ MapIsExact <=> Exactly(Docs, tombs, pmap)
<1>1. \A s : LocsIn(s) = LocsOf(files, s)
  BY DEF LocsIn, LocsOf
<1>2. \A s, at : DocIn(s, at) = DocOf(files, s, at)
  BY DEF DocIn, DocOf
<1>3. Locs = AllLocs(files, segs, pending)
  BY <1>1, Zenon DEF Locs, AllLocs
<1>4. \A at : DocAt(at) = TheDoc(files, segs, pending, at)
  BY <1>2, Zenon DEF DocAt, TheDoc
<1>5. DOMAIN Docs = Locs /\ \A at \in Locs : DocAt(at) = Docs[at]
  BY <1>3, <1>4 DEF Docs, AllDocs
<1>6. View = Live(Docs, tombs)
  BY <1>5 DEF View, Live, LiveLocs
<1>7. OneLiveCopy <=> Sole(Docs, tombs)
  BY <1>5 DEF OneLiveCopy, Sole, LiveLocs
<1>8. MapIsExact <=> Exactly(Docs, tombs, pmap)
  <2>1. \A p \in Paths : (pmap[p] # None => pmap[p] \in LiveLocs /\ DocAt(pmap[p]).path = p) <=>
                         (pmap[p] # None => pmap[p] \in DOMAIN Docs \ tombs /\ Docs[pmap[p]].path = p)
    BY <1>5 DEF LiveLocs
  <2>2. \A a \in LiveLocs : pmap[DocAt(a).path] = pmap[Docs[a].path]
    BY <1>5 DEF LiveLocs
  <2>3. LiveLocs = DOMAIN Docs \ tombs
    BY <1>5 DEF LiveLocs
  <2> QED BY <2>1, <2>2, <2>3 DEF MapIsExact, Exactly, Finds
<1> QED BY <1>1, <1>2, <1>3, <1>4, <1>5, <1>6, <1>7, <1>8

\* The same after a step.
LEMMA SpelledNext ==
  ASSUME Types'
  PROVE  /\ Locs' = AllLocs(files', segs', pending')
         /\ Docs' = AllDocs(files', segs', pending')
         /\ View' = Live(Docs', tombs')
<1>1. Locs' = AllLocs(files', segs', pending')
  BY Zenon DEF Locs, AllLocs, LocsIn, LocsOf
<1>2. Docs' = AllDocs(files', segs', pending')
  BY Zenon DEF Docs
<1>3. DOMAIN Docs' = Locs'
  BY <1>1, <1>2 DEF AllDocs
<1>4. ASSUME NEW at \in Locs' PROVE DocAt(at)' = Docs'[at]
  BY <1>1, <1>2, <1>4 DEF AllDocs, DocAt, TheDoc, DocIn, DocOf
<1>5. View' = Live(Docs', tombs')
  BY <1>3, <1>4 DEF View, Live, LiveLocs
<1> QED BY <1>1, <1>2, <1>5
-----------------------------------------------------------------------------
(* What a step leaves alone *)

\* Readable files are kept; other numbers may be written or torn.
KeepsReadable ==
  files' \in AllFiles /\ \A n \in Numbers : files[n] \notin {None, Torn} => files'[n] = files[n]

\* Segments that open keep their documents when readable files are kept.
LEMMA KeptSegments ==
  ASSUME Types, KeepsReadable, NEW s \in Seq(Numbers), Opens(files, s)
  PROVE  /\ \A i \in DOMAIN s : files'[s[i]] = files[s[i]]
         /\ Opens(files', s) /\ DocsOf(files', s) = DocsOf(files, s)
         /\ LocsOf(files', s) = LocsOf(files, s)
         /\ AllDocs(files', s, pending) = AllDocs(files, s, pending)
<1>1. ASSUME NEW i \in DOMAIN s PROVE files'[s[i]] = files[s[i]]
  <2>1. s[i] \in Numbers
    OBVIOUS
  <2> QED BY <2>1 DEF KeepsReadable, Opens
<1>2. files \in AllFiles /\ pending \in Seq(Doc)
  BY DEF Types
<1>3. Opens(files', s) /\ DocsOf(files', s) = DocsOf(files, s)
  BY <1>1, <1>2, Kept
<1>4. AllDocs(files', s, pending) = AllDocs(files, s, pending)
  BY <1>1, <1>2, AllKept
<1>5. DOMAIN DocsOf(files', s) = LocsOf(files', s) /\ DOMAIN DocsOf(files, s) = LocsOf(files, s)
  BY DEF DocsOf
<1> QED BY <1>1, <1>3, <1>4, <1>5

\* The manifest keeps what it commits when the files it names are kept.
LEMMA ManifestKept ==
  ASSUME Types, ManifestInv, KeepsReadable, UNCHANGED <<manifest, saved, short>>,
         ~recovered' => ~recovered
  PROVE  ManifestInv'
<1> SUFFICES ASSUME manifest # None PROVE ManifestInv'
  BY DEF ManifestInv
<1>1. manifest.segs \in Seq(Numbers)
  BY DEF Types, Manifest
<1>2. Opens(files, manifest.segs)
  BY DEF ManifestInv
<1>3. /\ Opens(files', manifest.segs)
      /\ LocsOf(files', manifest.segs) = LocsOf(files, manifest.segs)
      /\ DocsOf(files', manifest.segs) = DocsOf(files, manifest.segs)
  BY <1>1, <1>2, KeptSegments
<1> QED BY <1>3 DEF ManifestInv, Committed

\* Without a build there is nothing to say of one.
LEMMA NoBuild == build' = None => BuildInv'
BY DEF BuildInv

\* The open index keeps its documents, whatever happens to unused numbers.
LEMMA MemoryKept ==
  ASSUME Types, MemoryInv, KeepsReadable, UNCHANGED <<segs, tombs, pending, pmap>>,
         open' => \A n \in Numbers : files'[n] # None => n < next',
         (~recovered \/ ToBuild)' => (~recovered \/ ToBuild),
         (Sure \/ ToBuild)' => (Sure \/ ToBuild)
  PROVE  MemoryInv' /\ Docs' = Docs
<1>1. /\ Opens(files', segs)
      /\ LocsOf(files', segs) = LocsOf(files, segs)
      /\ AllDocs(files', segs, pending) = AllDocs(files, segs, pending)
  BY KeptSegments DEF Types, MemoryInv
<1>2. Docs' = Docs
  BY <1>1 DEF Docs
<1> QED BY <1>1, <1>2 DEF MemoryInv

\* A closed index has no documents.
LEMMA MemoryClosed ==
  ASSUME open' = FALSE, segs' = <<>>, tombs' = {}, pending' = <<>>, pmap' = None
  PROVE  MemoryInv'
<1>1. Opens(files', segs')
  BY DEF Opens
<1>2. AllLocs(files', segs', pending') = {}
  BY DEF AllLocs, LocsOf
<1>3. Sole(Docs, tombs)'
  BY <1>2 DEF Sole, Docs, AllDocs
<1> QED BY <1>1, <1>3 DEF MemoryInv
-----------------------------------------------------------------------------
(* Writing a segment *)

\* The next number of an open index is of no file.
LEMMA NextIsFresh ==
  ASSUME Types, MemoryInv, open, next \in Numbers
  PROVE  files[next] = None /\ \A i \in DOMAIN segs : segs[i] # next
<1>1. files[next] = None
  <2>1. ~(next < next)
    BY Apart
  <2> QED BY <2>1 DEF MemoryInv
<1>2. \A i \in DOMAIN segs : segs[i] # next
  BY <1>1 DEF MemoryInv, Opens
<1> QED BY <1>1, <1>2

\* A file written under a number that had none keeps the others.
LEMMA WriteKeeps ==
  ASSUME Types, NEW n \in Numbers, files[n] = None,
         NEW x \in Seq(Doc) \cup {None, Torn}, files' = With(files, n, x)
  PROVE  /\ KeepsReadable
         /\ files'[n] = x
         /\ \A m \in Numbers : files'[m] # None => m = n \/ files[m] # None
<1>1. files \in AllFiles
  BY DEF Types
<1>2. /\ files' \in AllFiles /\ files'[n] = x
      /\ \A m \in Numbers : m # n => files'[m] = files[m]
  BY <1>1 DEF AllFiles, With
<1> QED BY <1>2 DEF KeepsReadable

\* Numbers below the next stay so when it is taken.
LEMMA NumbersTaken ==
  ASSUME Types, NEW n \in Numbers, \A m \in Numbers : files[m] # None => m < n,
         \A m \in Numbers : files'[m] # None => m = n \/ files[m] # None
  PROVE  n + 1 \in Nat /\ \A m \in Numbers : files'[m] # None => m < n + 1
<1>1. n \in Nat
  BY Apart
<1>2. ASSUME NEW m \in Numbers, files'[m] # None PROVE m < n + 1
  <2>1. m \in Nat
    BY Apart
  <2>2. m = n \/ m < n
    BY <1>2
  <2> QED BY <1>1, <2>1, <2>2
<1> QED BY <1>1, <1>2

\* FlushPending keeps every document, and afterwards all of them are written.
LEMMA FlushEffect ==
  ASSUME Types, MemoryInv, open, FlushPending
  PROVE  /\ KeepsReadable
         /\ segs' \in Seq(Numbers) /\ pending' = <<>> /\ next' \in Nat
         /\ Opens(files', segs')
         /\ \A n \in Numbers : files'[n] # None => n < next'
         /\ Docs' = Docs
         /\ LocsOf(files', segs') = DOMAIN Docs
<1>1. /\ files \in AllFiles /\ segs \in Seq(Numbers) /\ pending \in Seq(Doc) /\ next \in Nat
      /\ Opens(files, segs)
  BY DEF Types, MemoryInv
<1>2. DOMAIN Docs = AllLocs(files, segs, pending)
  BY <1>1, Documents DEF Docs
<1>3. CASE pending = <<>> /\ UNCHANGED <<segs, pending, next, files>>
  <2>1. KeepsReadable
    BY <1>1, <1>3 DEF KeepsReadable
  <2>2. AllDocs(files, segs, pending) = DocsOf(files, segs)
    BY <1>1, <1>3, Documents
  <2>3. Docs' = Docs /\ DOMAIN Docs = LocsOf(files, segs)
    BY <1>3, <2>2 DEF Docs, DocsOf
  <2> QED BY <1>1, <1>3, <2>1, <2>3 DEF MemoryInv
<1>4. CASE /\ pending # <<>> /\ next \in Numbers
           /\ files' = [files EXCEPT ![next] = pending]
           /\ segs' = Append(segs, next)
           /\ next' = next + 1 /\ pending' = <<>>
  <2>1. files' = With(files, next, pending) /\ segs' = Then(segs, next)
    BY <1>4 DEF With, Then
  <2>2. files[next] = None /\ \A i \in DOMAIN segs : segs[i] # next
    BY <1>4, NextIsFresh
  <2>3. /\ KeepsReadable
        /\ \A m \in Numbers : files'[m] # None => m = next \/ files[m] # None
    <3>1. next \in Numbers /\ pending \in Seq(Doc) \cup {None, Torn}
      BY <1>1, <1>4
    <3> QED BY <2>1, <2>2, <3>1, WriteKeeps
  <2>4. next' \in Nat /\ \A n \in Numbers : files'[n] # None => n < next'
    BY <1>4, <2>3, NumbersTaken DEF MemoryInv
  <2>5. /\ segs' \in Seq(Numbers) /\ Opens(files', segs')
        /\ AllDocs(files', segs', <<>>) = AllDocs(files, segs, pending)
        /\ LocsOf(files', segs') = AllLocs(files, segs, pending)
    <3>1. next \in Numbers
      BY <1>4
    <3> QED BY <1>1, <2>1, <2>2, <3>1, Flushed
  <2>6. Docs' = Docs
    BY <1>4, <2>5 DEF Docs
  <2> QED BY <1>2, <1>4, <2>3, <2>4, <2>5, <2>6
<1> QED BY <1>3, <1>4 DEF FlushPending

\* The open index after a flush that touches neither tombstones nor path map.
LEMMA FlushMemory ==
  ASSUME IInv, Idle, FlushPending, UNCHANGED <<open, tombs, pmap, recovered, lost, short>>, ~ToBuild'
  PROVE  MemoryInv'
<1>1. Types /\ MemoryInv /\ open
  BY DEF IInv, Idle
<1>2. /\ Opens(files', segs') /\ Docs' = Docs
      /\ \A n \in Numbers : files'[n] # None => n < next'
      /\ LocsOf(files', segs') = DOMAIN Docs
  BY <1>1, FlushEffect
<1>3. LocsOf(files, segs) \subseteq DOMAIN Docs
  BY <1>1, Documents DEF Docs, Types, MemoryInv
<1>4. ~ToBuild /\ Sure' = Sure
  BY DEF ToBuild, Idle, Sure
<1> QED BY <1>1, <1>2, <1>3, <1>4 DEF MemoryInv

\* What an edit of the open index leaves: the manifest, and whatever is behind it.
LEMMA EditFrame ==
  ASSUME IInv, open', KeepsReadable,
         UNCHANGED <<open, build, manifest, saved, recovered, short>>
  PROVE  ManifestInv' /\ BuildInv'
<1>1. ManifestInv'
  BY ManifestKept DEF IInv
<1>2. build' = None
  BY DEF IInv, ShapeInv
<1> QED BY <1>1, <1>2, NoBuild

\* A buffer that could not be written stays in the buffer; a number is used up.
LEMMA FlushFailsStep == ASSUME IInv, FlushFails PROVE IInv' /\ Docs' = Docs /\ KeepsReadable
<1>1. Types /\ MemoryInv /\ open /\ ShapeInv /\ job = None /\ build = None
  BY DEF IInv, FlushFails, Idle
<1>2. /\ next \in Numbers /\ files' = With(files, next, Torn) /\ next' = next + 1
      /\ UNCHANGED <<open, segs, tombs, pending, pmap, job, build, manifest, tombFile, saved, recovered, lost, short>>
  BY DEF FlushFails, With
<1>3. files[next] = None
  BY <1>1, <1>2, NextIsFresh
<1>4. KeepsReadable /\ \A m \in Numbers : files'[m] # None => m = next \/ files[m] # None
  BY <1>1, <1>2, <1>3, WriteKeeps
<1>5. next' \in Nat /\ \A m \in Numbers : files'[m] # None => m < next'
  BY <1>1, <1>2, <1>4, NumbersTaken DEF MemoryInv
<1>6. MemoryInv' /\ Docs' = Docs
  BY <1>1, <1>2, <1>4, <1>5, MemoryKept DEF ToBuild, Sure
<1>7. ManifestInv' /\ BuildInv'
  BY <1>1, <1>2, <1>4, EditFrame
<1>8. Types'
  BY <1>1, <1>2, <1>4, <1>5 DEF Types, KeepsReadable
<1>9. ShapeInv'
  BY <1>1, <1>2 DEF ShapeInv, ToBuild
<1> QED BY <1>4, <1>6, <1>7, <1>8, <1>9 DEF IInv

\* A flush for a search, a save or a compaction.
LEMMA FlushStep ==
  ASSUME IInv, SearchFlush \/ Flush \/ Compact
  PROVE  IInv' /\ Docs' = Docs /\ KeepsReadable
<1>1. Types /\ MemoryInv /\ open /\ ShapeInv /\ job = None /\ build = None /\ Idle
  BY DEF IInv, SearchFlush, Flush, Compact, Idle
<1>2. FlushPending /\ UNCHANGED <<open, tombs, pmap, build, manifest, tombFile, saved, recovered, lost, short>>
  BY DEF SearchFlush, Flush, Compact
<1>3. \/ job' = None
      \/ job' = [kind |-> "flush", at |-> "manifest"]
      \/ job' = [kind |-> "compact", at |-> "merge"]
  BY <1>1 DEF SearchFlush, Flush, Compact
<1>4. /\ job' \in Job \cup {None} /\ ~ToBuild'
      /\ (job' # None => job'.at \notin {"tombs", "clean"})
      /\ (job' # None /\ job'.at = "merge" => job'.kind = "compact")
  BY <1>3, Apart DEF Job, ToBuild
<1>5. /\ KeepsReadable /\ segs' \in Seq(Numbers) /\ pending' = <<>> /\ next' \in Nat
      /\ Docs' = Docs
  BY <1>1, <1>2, FlushEffect
<1>6. MemoryInv'
  BY <1>1, <1>2, <1>4, FlushMemory
<1>7. ManifestInv' /\ BuildInv'
  BY <1>1, <1>2, <1>5, EditFrame
<1>8. Types'
  <2>1. <<>> \in Seq(Doc)
    OBVIOUS
  <2> QED BY <1>1, <1>2, <1>4, <1>5, <2>1 DEF Types, KeepsReadable
<1>9. ShapeInv'
  BY <1>1, <1>2, <1>4, <1>5 DEF ShapeInv
<1> QED BY <1>5, <1>6, <1>7, <1>8, <1>9 DEF IInv

\* A buffer whose segment does not open: its documents are gone, the others are found
\* where they were.
LEMMA FlushLosesStep == ASSUME IInv, FlushLoses PROVE IInv' /\ KeepsReadable
<1>1. Types /\ MemoryInv /\ open /\ ShapeInv /\ job = None /\ build = None
  BY DEF IInv, FlushLoses, Idle
<1>2. /\ next \in Numbers /\ files' = With(files, next, pending) /\ next' = next + 1
      /\ pending' = <<>> /\ pending # <<>> /\ lost' = TRUE
      /\ UNCHANGED <<open, segs, tombs, pmap, job, build, manifest, tombFile, saved, recovered, short>>
  BY DEF FlushLoses, With
<1>3. /\ files \in AllFiles /\ segs \in Seq(Numbers) /\ pending \in Seq(Doc) /\ Opens(files, segs)
      /\ <<>> \in Seq(Doc)
  BY <1>1 DEF Types, MemoryInv
<1>4. files[next] = None
  BY <1>1, <1>2, NextIsFresh
<1>5. KeepsReadable /\ \A m \in Numbers : files'[m] # None => m = next \/ files[m] # None
  <2>1. pending \in Seq(Doc) \cup {None, Torn}
    BY <1>3
  <2> QED BY <1>1, <1>2, <1>4, <2>1, WriteKeeps
<1>6. next' \in Nat /\ \A m \in Numbers : files'[m] # None => m < next'
  BY <1>1, <1>2, <1>5, NumbersTaken DEF MemoryInv
<1>7. Opens(files', segs) /\ DocsOf(files', segs) = DocsOf(files, segs)
  BY <1>1, <1>3, <1>5, KeptSegments
<1>8. Docs' = DocsOf(files, segs)
  <2>1. files' \in AllFiles
    BY <1>5 DEF KeepsReadable
  <2>2. AllDocs(files', segs, <<>>) = DocsOf(files', segs)
    BY <1>3, <1>7, <2>1, Documents
  <2> QED BY <1>2, <1>7, <2>2 DEF Docs
<1>9. DOMAIN Docs' \subseteq DOMAIN Docs /\ \A a \in DOMAIN Docs' : Docs'[a] = Docs[a]
  <2>1. DOMAIN Docs = AllLocs(files, segs, pending)
    BY <1>3, Documents DEF Docs
  <2>2. \A a \in LocsOf(files, segs) : a \in DOMAIN Docs /\ Docs[a] = DocOf(files, segs, a)
    BY <1>3, <2>1, Documents DEF Docs, AllLocs
  <2> QED BY <1>8, <2>2 DEF DocsOf
<1>10. MemoryInv'
  <2>1. ~ToBuild /\ ~ToBuild' /\ ~Sure'
    BY <1>1, <1>2 DEF ToBuild, Sure
  <2>2. ASSUME ~recovered
        PROVE  Sole(Docs', tombs) /\ (pmap # None => Finds(Docs', tombs, pmap))
    <3>1. Sole(Docs, tombs) /\ (pmap # None => Finds(Docs, tombs, pmap))
      BY <1>1, <2>2 DEF MemoryInv
    <3>2. Sole(Docs', tombs)
      BY <1>9, <3>1 DEF Sole
    <3>3. pmap # None => Finds(Docs', tombs, pmap)
      BY <1>9, <3>1 DEF Finds
    <3> QED BY <3>2, <3>3
  <2> QED BY <1>1, <1>2, <1>6, <1>7, <2>1, <2>2 DEF MemoryInv
<1>11. ManifestInv' /\ BuildInv'
  BY <1>1, <1>2, <1>5, EditFrame
<1>12. Types'
  BY <1>1, <1>2, <1>3, <1>5, <1>6 DEF Types, KeepsReadable
<1>13. ShapeInv'
  BY <1>1, <1>2 DEF ShapeInv, ToBuild
<1> QED BY <1>5, <1>10, <1>11, <1>12, <1>13 DEF IInv
-----------------------------------------------------------------------------
(* The path map *)

\* Some location of a set is the last of it.
LEMMA LastLocation ==
  ASSUME NEW fs \in AllFiles, NEW s \in Seq(Numbers), Opens(fs, s),
         NEW S \in SUBSET LocsOf(fs, s), S # {}
  PROVE  \E a \in S : \A b \in S : a = b \/ Before(b, a)
<1> DEFINE I == {a[1] : a \in S}
<1>1. \A a \in S : /\ a[1] \in 1 .. Len(s) /\ a[2] \in 1 .. Len(fs[s[a[1]]]) /\ a = <<a[1], a[2]>>
                   /\ a \in Loc
  BY Locations
<1>2. Len(s) \in Nat /\ \A i \in 1 .. Len(s) : Len(fs[s[i]]) \in Nat
  <2>1. \A i \in 1 .. Len(s) : fs[s[i]] \in Seq(Doc)
    BY Locations
  <2> QED BY <2>1
<1>3. \A a \in S : a[1] \in Nat /\ a[2] \in Nat
  BY <1>1, <1>2
<1>4. I \in SUBSET Nat /\ I # {} /\ \A i \in I : i <= Len(s)
  BY <1>1, <1>3
<1>5. PICK i \in I : \A j \in I : j <= i
  BY <1>2, <1>4, GreatestNatural
<1> DEFINE L == {a[2] : a \in {b \in S : b[1] = i}}
<1>6. i \in 1 .. Len(s) /\ L # {}
  BY <1>1
<1>7. L \in SUBSET Nat /\ \A l \in L : l <= Len(fs[s[i]])
  BY <1>1, <1>2, <1>3
<1>8. PICK l \in L : \A k \in L : k <= l
  <2> HIDE DEF L
  <2> QED BY <1>2, <1>6, <1>7, GreatestNatural
<1>9. PICK a \in S : a[1] = i /\ a[2] = l
  BY <1>8
<1>10. ASSUME NEW b \in S PROVE a = b \/ Before(b, a)
  <2>1. b[1] <= a[1] /\ (b[1] = a[1] => b[2] <= a[2])
    <3>1. b[1] \in I /\ (b[1] = i => b[2] \in L)
      OBVIOUS
    <3> QED BY <1>5, <1>8, <1>9, <3>1
  <2>2. /\ a[1] \in Nat /\ a[2] \in Nat /\ b[1] \in Nat /\ b[2] \in Nat
        /\ a = <<a[1], a[2]>> /\ b = <<b[1], b[2]>>
    BY <1>1, <1>3
  <2>3. CASE b[1] = a[1] /\ b[2] = a[2]
    BY <2>2, <2>3
  <2>4. CASE ~(b[1] = a[1] /\ b[2] = a[2])
    <3>1. b[1] < a[1] \/ (b[1] = a[1] /\ b[2] < a[2])
      BY <2>1, <2>2, <2>4
    <3> QED BY <3>1 DEF Before
  <2> QED BY <2>3, <2>4
<1> QED BY <1>10

\* EnsurePathMap finds a live document of every path that has one, and no other.
LEMMA BuiltMapIsExact ==
  ASSUME Types, MemoryInv, pending = <<>>
  PROVE  /\ BuiltMap \in [Paths -> Loc \cup {None}]
         /\ Sole(Docs, tombs) => Exactly(Docs, tombs, BuiltMap)
<1> DEFINE At(p) == {a \in LocsIn(segs) \ tombs : DocIn(segs, a).path = p}
<1>1. files \in AllFiles /\ segs \in Seq(Numbers) /\ Opens(files, segs) /\ pending \in Seq(Doc)
  BY DEF Types, MemoryInv
<1>2. /\ \A s : LocsIn(s) = LocsOf(files, s)
      /\ \A s, at : DocIn(s, at) = DocOf(files, s, at)
  BY Spelled
<1>3. Docs = DocsOf(files, segs)
  BY <1>1, Documents DEF Docs
<1>4. DOMAIN Docs = LocsIn(segs) /\ \A a \in DOMAIN Docs : Docs[a] = DocIn(segs, a)
  BY <1>2, <1>3 DEF DocsOf
<1>5. ASSUME NEW p \in Paths, At(p) # {}
      PROVE  BuiltMap[p] \in At(p)
  <2>1. At(p) \in SUBSET LocsOf(files, segs)
    BY <1>2
  <2>2. \E a \in At(p) : \A b \in At(p) : a = b \/ Before(b, a)
    <3> HIDE DEF At
    <3> QED BY <1>1, <1>5, <2>1, LastLocation
  <2>3. BuiltMap[p] = CHOOSE a \in At(p) : \A b \in At(p) : a = b \/ Before(b, a)
    BY <1>5 DEF BuiltMap
  <2> QED BY <2>2, <2>3
<1>6. ASSUME NEW p \in Paths, At(p) = {}
      PROVE  BuiltMap[p] = None
  BY <1>6 DEF BuiltMap
<1>7. \A p \in Paths : At(p) \subseteq Loc
  BY <1>1, <1>2, Locations
<1>8. BuiltMap \in [Paths -> Loc \cup {None}]
  <2>1. ASSUME NEW p \in Paths PROVE BuiltMap[p] \in Loc \cup {None}
    BY <1>5, <1>6, <1>7
  <2>2. BuiltMap = [p \in Paths |-> BuiltMap[p]]
    BY DEF BuiltMap
  <2> QED BY <2>1, <2>2
<1>9. ASSUME NEW p \in Paths, BuiltMap[p] # None
      PROVE  BuiltMap[p] \in DOMAIN Docs \ tombs /\ Docs[BuiltMap[p]].path = p
  <2>1. BuiltMap[p] \in At(p)
    BY <1>5, <1>6, <1>9
  <2> QED BY <2>1, <1>4
<1>11. ASSUME Sole(Docs, tombs), NEW a \in DOMAIN Docs \ tombs
       PROVE  BuiltMap[Docs[a].path] = a
  <2>1. Docs[a].path \in Paths
    <3>1. /\ DOMAIN AllDocs(files, segs, pending) = AllLocs(files, segs, pending)
          /\ \A at \in AllLocs(files, segs, pending) : AllDocs(files, segs, pending)[at] \in Doc
      BY <1>1, Documents
    <3>2. Docs[a] \in Doc
      BY <3>1 DEF Docs
    <3> QED BY <3>2 DEF Doc
  <2>2. a \in At(Docs[a].path)
    BY <1>4
  <2>3. BuiltMap[Docs[a].path] \in At(Docs[a].path)
    BY <1>5, <2>1, <2>2
  <2> DEFINE b == BuiltMap[Docs[a].path]
  <2>4. b \in DOMAIN Docs \ tombs /\ Docs[b].path = Docs[a].path
    BY <1>4, <2>3
  <2> HIDE DEF b
  <2> QED BY <1>11, <2>4 DEF Sole, b
<1>12. Sole(Docs, tombs) => Exactly(Docs, tombs, BuiltMap)
  BY <1>9, <1>11 DEF Exactly, Finds
<1> QED BY <1>8, <1>12

\* The map an edit works with, built or kept.
LEMMA PathMapFinds ==
  ASSUME IInv, Idle
  PROVE  /\ PathMap \in [Paths -> Loc \cup {None}] /\ PathMap # None
         /\ ~recovered => Finds(Docs, tombs, PathMap)
         /\ Sure => Exactly(Docs, tombs, PathMap)
<1>1. Types /\ MemoryInv /\ ShapeInv
  BY DEF IInv
<1>2. CASE pmap # None
  BY <1>1, <1>2, Apart DEF PathMap, Types, MemoryInv
<1>3. CASE pmap = None
  <2>1. pending = <<>>
    BY <1>1, <1>3 DEF ShapeInv
  <2>2. /\ BuiltMap \in [Paths -> Loc \cup {None}]
        /\ Sole(Docs, tombs) => Exactly(Docs, tombs, BuiltMap)
    BY <1>1, <2>1, BuiltMapIsExact
  <2>3. /\ ~recovered => Sole(Docs, tombs)
        /\ Sure => ~recovered
    BY <1>1 DEF MemoryInv, Sure
  <2>4. PathMap = BuiltMap
    BY <1>3 DEF PathMap
  <2> QED BY <2>2, <2>3, <2>4, Apart DEF Exactly
<1> QED BY <1>2, <1>3

\* A map that finds every live document shows that no path has two of them.
LEMMA FindsSole ==
  ASSUME NEW d, NEW t, NEW m, Finds(d, t, m)
  PROVE  Sole(d, t)
<1> SUFFICES ASSUME NEW a \in DOMAIN d \ t, NEW b \in DOMAIN d \ t, d[a].path = d[b].path
             PROVE  a = b
  BY DEF Sole
<1>1. m[d[a].path] = a /\ m[d[b].path] = b
  BY DEF Finds
<1> QED BY <1>1

\* A path is taken off the map: its document is the one that dies.
LEMMA Dropped ==
  ASSUME NEW d, NEW t, NEW m \in [Paths -> Loc \cup {None}], NEW p \in Paths, m[p] # None,
         \A a \in DOMAIN d : d[a].path \in Paths,
         NEW n, n[p] = None, \A q \in Paths : q # p => n[q] = m[q]
  PROVE  /\ Finds(d, t, m) => Finds(d, t \cup {m[p]}, n)
         /\ Exactly(d, t, m) => /\ Exactly(d, t \cup {m[p]}, n)
                                /\ Live(d, t \cup {m[p]}) = Live(d, t) \ {d[m[p]]}
<1>1. n[p] = None /\ \A q \in Paths : q # p => n[q] = m[q]
  OBVIOUS
<1>2. ASSUME Finds(d, t, m) PROVE Finds(d, t \cup {m[p]}, n)
  <2> SUFFICES ASSUME NEW a \in DOMAIN d \ (t \cup {m[p]}) PROVE n[d[a].path] = a
    BY DEF Finds
  <2>1. m[d[a].path] = a
    BY <1>2 DEF Finds
  <2>2. d[a].path # p
    BY <2>1
  <2> QED BY <1>1, <2>1, <2>2
<1>3. ASSUME Exactly(d, t, m) PROVE Exactly(d, t \cup {m[p]}, n)
  <2>1. ASSUME NEW q \in Paths, n[q] # None
        PROVE  n[q] \in DOMAIN d \ (t \cup {m[p]}) /\ d[n[q]].path = q
    <3>1. q # p /\ n[q] = m[q]
      BY <1>1, <2>1
    <3>2. m[q] \in DOMAIN d \ t /\ d[m[q]].path = q /\ d[m[p]].path = p
      BY <1>3, <2>1, <3>1 DEF Exactly
    <3> QED BY <3>1, <3>2
  <2> QED BY <1>2, <1>3, <2>1 DEF Exactly
<1>4. ASSUME Exactly(d, t, m) PROVE Live(d, t \cup {m[p]}) = Live(d, t) \ {d[m[p]]}
  <2>1. m[p] \in DOMAIN d \ t
    BY <1>4 DEF Exactly
  <2>2. ASSUME NEW a \in DOMAIN d \ t, d[a] = d[m[p]] PROVE a = m[p]
    <3>1. Sole(d, t)
      BY <1>4, FindsSole DEF Exactly
    <3> QED BY <2>1, <2>2, <3>1 DEF Sole
  <2> QED BY <2>1, <2>2 DEF Live
<1> QED BY <1>1, <1>2, <1>3, <1>4

\* Documents at locations; one more of them; and a map to one more of them.
Located(d) == DOMAIN d \subseteq Loc /\ \A a \in DOMAIN d : d[a].path \in Paths
Grows(d, e, new) ==
  /\ new \notin DOMAIN d /\ DOMAIN e = DOMAIN d \cup {new}
  /\ \A a \in DOMAIN d : e[a] = d[a]
Mapped(m, p, at) == [m EXCEPT ![p] = at]

\* A new document of a path that has none is found, dead or not.
LEMMA PutFinds ==
  ASSUME NEW d, NEW e, NEW m \in [Paths -> Loc \cup {None}], NEW p \in Paths, m[p] = None,
         Located(d), NEW new \in Loc, Grows(d, e, new), e[new].path = p,
         NEW n, n = Mapped(m, p, new), NEW t, Finds(d, t, m)
  PROVE  Finds(e, t, n)
<1>1. /\ n \in [Paths -> Loc \cup {None}] /\ n[p] = new
      /\ \A q \in Paths : q # p => n[q] = m[q]
  BY DEF Mapped
<1>2. /\ new \notin DOMAIN d /\ DOMAIN e = DOMAIN d \cup {new}
      /\ \A a \in DOMAIN d : e[a] = d[a]
  BY DEF Grows
<1>3. DOMAIN d \subseteq Loc /\ \A a \in DOMAIN d : d[a].path \in Paths
  BY DEF Located
<1> SUFFICES ASSUME NEW a \in DOMAIN e \ t PROVE n[e[a].path] = a
  BY DEF Finds
<1>4. CASE a = new
  BY <1>1, <1>4
<1>5. CASE a # new
  <2>1. a \in DOMAIN d \ t /\ e[a] = d[a] /\ a # None
    BY <1>2, <1>3, <1>5, Apart
  <2>2. m[d[a].path] = a
    BY <2>1 DEF Finds
  <2>3. d[a].path # p
    BY <2>1, <2>2
  <2> QED BY <1>1, <1>3, <2>1, <2>2, <2>3
<1> QED BY <1>4, <1>5

\* The map stays exact when the path's new document is the only one it gets.
LEMMA PutExactly ==
  ASSUME NEW d, NEW e, NEW m \in [Paths -> Loc \cup {None}], NEW p \in Paths, m[p] = None,
         Located(d), NEW new \in Loc, Grows(d, e, new), e[new].path = p,
         NEW n, n = Mapped(m, p, new), NEW t \in SUBSET DOMAIN d, Exactly(d, t, m)
  PROVE  /\ Exactly(e, t, n)
         /\ Live(e, t) = Live(d, t) \cup {e[new]}
         /\ \A x \in Live(d, t) : x.path # p
<1>1. /\ n \in [Paths -> Loc \cup {None}] /\ n[p] = new
      /\ \A q \in Paths : q # p => n[q] = m[q]
  BY DEF Mapped
<1>2. /\ new \notin DOMAIN d /\ DOMAIN e = DOMAIN d \cup {new}
      /\ \A a \in DOMAIN d : e[a] = d[a]
  BY DEF Grows
<1>3. DOMAIN d \subseteq Loc /\ \A a \in DOMAIN d : d[a].path \in Paths
  BY DEF Located
<1>4. Exactly(e, t, n)
  <2>1. ASSUME NEW q \in Paths, n[q] # None
        PROVE  n[q] \in DOMAIN e \ t /\ e[n[q]].path = q
    <3>1. CASE q = p
      BY <1>2, <1>3, <3>1, <1>1
    <3>2. CASE q # p
      <4>1. n[q] = m[q] /\ m[q] \in DOMAIN d \ t /\ d[m[q]].path = q
        BY <1>2, <1>3, <1>1, <2>1, <3>2 DEF Exactly
      <4> QED BY <1>2, <1>3, <4>1
    <3> QED BY <1>2, <1>3, <3>1, <3>2
  <2>2. Finds(e, t, n)
    BY PutFinds DEF Exactly
  <2> QED BY <2>1, <2>2 DEF Exactly
<1>5. Live(e, t) = Live(d, t) \cup {e[new]}
  <2>1. DOMAIN e \ t = (DOMAIN d \ t) \cup {new}
    BY <1>2, <1>3
  <2> QED BY <1>2, <1>3, <2>1 DEF Live
<1>6. ASSUME NEW x \in Live(d, t) PROVE x.path # p
  <2>1. PICK a \in DOMAIN d \ t : x = d[a]
    BY <1>2, <1>3 DEF Live
  <2>2. m[d[a].path] = a /\ a # None
    BY <1>2, <1>3, Apart DEF Exactly, Finds
  <2> QED BY <1>2, <1>3, <2>1, <2>2
<1> QED BY <1>4, <1>5, <1>6
-----------------------------------------------------------------------------
(* Edits *)

\* Everything in the open index is a document.
LEMMA DocsType ==
  ASSUME Types, MemoryInv
  PROVE  /\ DOMAIN Docs = AllLocs(files, segs, pending) /\ DOMAIN Docs \subseteq Loc
         /\ \A a \in DOMAIN Docs : Docs[a] \in Doc /\ Docs[a].path \in Paths
         /\ LocsOf(files, segs) \subseteq DOMAIN Docs
         /\ \A a \in DOMAIN Docs : a[1] # Len(segs) + 1 => a \in LocsOf(files, segs)
<1>1. files \in AllFiles /\ segs \in Seq(Numbers) /\ pending \in Seq(Doc) /\ Opens(files, segs)
  BY DEF Types, MemoryInv
<1>2. \A x \in Doc : x.path \in Paths
  BY DEF Doc
<1> QED BY <1>1, <1>2, Documents DEF Docs

\* A removal: the live documents are those of the other paths.
LEMMA RemoveStep ==
  ASSUME IInv, NEW p \in Paths, RemovePath(p)
  PROVE  /\ IInv' /\ KeepsReadable
         /\ Sure => \A x : x \in Live(Docs, tombs)' <=> x \in Live(Docs, tombs) /\ x.path # p
<1> DEFINE m == PathMap
           at == PathMap[p]
<1>1. Types /\ MemoryInv /\ ShapeInv /\ open /\ job = None /\ build = None /\ Idle
  BY DEF IInv, RemovePath, Idle
<1>2. UNCHANGED <<open, job, build, manifest, tombFile, saved, recovered, lost, short>>
  BY DEF RemovePath
<1>3. /\ m \in [Paths -> Loc \cup {None}] /\ m # None
      /\ ~recovered => Finds(Docs, tombs, m)
      /\ Sure => Exactly(Docs, tombs, m)
  BY <1>1, PathMapFinds
<1>4. /\ DOMAIN Docs \subseteq Loc /\ LocsOf(files, segs) \subseteq DOMAIN Docs
      /\ \A a \in DOMAIN Docs : Docs[a].path \in Paths
      /\ \A a \in DOMAIN Docs : a[1] # Len(segs) + 1 => a \in LocsOf(files, segs)
  BY <1>1, DocsType
<1>5. ~ToBuild /\ ~ToBuild' /\ Sure' = Sure
  BY <1>1, <1>2 DEF ToBuild, Sure
<1> HIDE DEF m
<1>6. CASE m[p] = None /\ pmap' = m /\ UNCHANGED <<segs, tombs, pending, next, files>>
  <2>1. KeepsReadable
    BY <1>1, <1>6 DEF KeepsReadable, Types
  <2>2. Docs' = Docs
    BY <1>6 DEF Docs
  <2>3. MemoryInv'
    <3>1. ~recovered => Sole(Docs, tombs)
      BY <1>1 DEF MemoryInv
    <3> QED BY <1>1, <1>2, <1>3, <1>5, <1>6, <2>2, <3>1 DEF MemoryInv
  <2>4. ManifestInv' /\ BuildInv'
    BY <1>1, <1>2, <2>1, EditFrame
  <2>5. Types'
    BY <1>1, <1>2, <1>3, <1>6 DEF Types
  <2>6. ShapeInv'
    BY <1>1, <1>2, <1>3, <1>5, <1>6 DEF ShapeInv
  <2>7. ASSUME Sure, NEW x \in Live(Docs, tombs) PROVE x.path # p
    <3>1. PICK a \in DOMAIN Docs \ tombs : x = Docs[a]
      BY <2>7 DEF Live
    <3>2. m[Docs[a].path] = a /\ a \in Loc
      BY <1>3, <1>4, <2>7 DEF Exactly, Finds
    <3> QED BY <1>6, <3>1, <3>2, Apart
  <2>8. Live(Docs, tombs)' = Live(Docs, tombs)
    BY <1>6, <2>2 DEF Live
  <2> QED BY <2>1, <2>3, <2>4, <2>5, <2>6, <2>7, <2>8 DEF IInv
<1>7. CASE /\ m[p] # None /\ RemoveFlushes(at)
           /\ tombs' = tombs \cup {m[p]} /\ pmap' = [m EXCEPT ![p] = None]
  <2>1. /\ at = m[p] /\ m[p] \in Loc
        /\ Sure => m[p] \in DOMAIN Docs /\ Docs[m[p]].path = p
    BY <1>3, <1>7 DEF Exactly, m
  <2>2. /\ KeepsReadable
        /\ segs' \in Seq(Numbers) /\ pending' \in Seq(Doc) /\ next' \in Nat
        /\ Opens(files', segs')
        /\ \A n \in Numbers : files'[n] # None => n < next'
        /\ Docs' = Docs
        /\ LocsOf(files, segs) \subseteq LocsOf(files', segs')
        /\ Sure => m[p] \in LocsOf(files', segs')
    <3>1. CASE at[1] = Len(segs) + 1
      <4>1. FlushPending
        BY <1>7, <3>1 DEF RemoveFlushes
      <4>2. /\ KeepsReadable
            /\ segs' \in Seq(Numbers) /\ pending' = <<>> /\ next' \in Nat
            /\ Opens(files', segs')
            /\ \A n \in Numbers : files'[n] # None => n < next'
            /\ Docs' = Docs
            /\ LocsOf(files', segs') = DOMAIN Docs
        BY <1>1, <4>1, FlushEffect
      <4>3. <<>> \in Seq(Doc)
        OBVIOUS
      <4> QED BY <1>4, <2>1, <4>2, <4>3
    <3>2. CASE at[1] # Len(segs) + 1
      <4>1. UNCHANGED <<segs, pending, next, files>>
        BY <1>7, <3>2 DEF RemoveFlushes
      <4>2. Docs' = Docs
        BY <4>1 DEF Docs
      <4>3. Sure => m[p] \in LocsOf(files, segs)
        BY <1>4, <2>1, <3>2
      <4> QED BY <1>1, <4>1, <4>2, <4>3 DEF KeepsReadable, Types, MemoryInv
    <3> QED BY <3>1, <3>2
  <2>3. /\ pmap' \in [Paths -> Loc \cup {None}]
        /\ ~recovered => Finds(Docs, tombs', pmap')
        /\ Sure => /\ Exactly(Docs, tombs', pmap')
                   /\ Live(Docs, tombs') = Live(Docs, tombs) \ {Docs[m[p]]}
    <3>1. /\ m \in [Paths -> Loc \cup {None}] /\ m[p] # None
          /\ \A a \in DOMAIN Docs : Docs[a].path \in Paths
          /\ pmap' \in [Paths -> Loc \cup {None}]
          /\ pmap'[p] = None /\ \A q \in Paths : q # p => pmap'[q] = m[q]
      BY <1>3, <1>4, <1>7
    <3>2. /\ Finds(Docs, tombs, m) => Finds(Docs, tombs \cup {m[p]}, pmap')
          /\ Exactly(Docs, tombs, m) =>
               /\ Exactly(Docs, tombs \cup {m[p]}, pmap')
               /\ Live(Docs, tombs \cup {m[p]}) = Live(Docs, tombs) \ {Docs[m[p]]}
      BY <3>1, Dropped
    <3> QED BY <1>3, <1>7, <3>1, <3>2
  <2>4. ~recovered => Sole(Docs, tombs')
    BY <2>3, FindsSole
  <2>5. Sure => tombs' \subseteq LocsOf(files', segs')
    BY <1>1, <1>7, <2>2 DEF MemoryInv
  <2>6. MemoryInv'
    BY <1>2, <1>5, <2>2, <2>3, <2>4, <2>5 DEF MemoryInv
  <2>7. ManifestInv' /\ BuildInv'
    BY <1>1, <1>2, <2>2, EditFrame
  <2>8. Types'
    BY <1>1, <1>2, <1>7, <2>1, <2>2, <2>3 DEF Types, KeepsReadable
  <2>9. ShapeInv'
    BY <1>1, <1>2, <1>5, <2>3, Apart DEF ShapeInv
  <2>10. ASSUME Sure, NEW x
         PROVE  x \in Live(Docs, tombs)' <=> x \in Live(Docs, tombs) /\ x.path # p
    <3>1. Live(Docs, tombs)' = Live(Docs, tombs) \ {Docs[m[p]]}
      BY <2>2, <2>3, <2>10 DEF Live
    <3>2. ASSUME x \in Live(Docs, tombs), x.path = p PROVE x = Docs[m[p]]
      <4>1. PICK a \in DOMAIN Docs \ tombs : x = Docs[a]
        BY <3>2 DEF Live
      <4>2. m[Docs[a].path] = a
        BY <1>3, <2>10 DEF Exactly, Finds
      <4> QED BY <3>2, <4>1, <4>2
    <3> QED BY <2>1, <2>10, <3>1, <3>2
  <2> QED BY <2>2, <2>6, <2>7, <2>8, <2>9, <2>10 DEF IInv
<1> QED BY <1>6, <1>7 DEF RemovePath, m

\* An addition: one live document more, of a path that had none.
LEMMA AddStep ==
  ASSUME IInv, NEW p \in Paths, NEW c \in Contents, AddDocument(p, c)
  PROVE  /\ IInv' /\ KeepsReadable
         /\ Sure => /\ Live(Docs, tombs)' =
                         Live(Docs, tombs) \cup {[path |-> p, content |-> c]}
                    /\ \A x \in Live(Docs, tombs) : x.path # p
<1> DEFINE m == PathMap
           doc == [path |-> p, content |-> c]
           new == <<Len(segs) + 1, Len(pending) + 1>>
           buffer == Append(pending, doc)
           E == AllDocs(files, segs, buffer)
<1>1. Types /\ MemoryInv /\ ShapeInv /\ open /\ job = None /\ build = None /\ Idle
  BY DEF IInv, AddDocument, Idle
<1>2. /\ UNCHANGED <<open, tombs, job, build, manifest, tombFile, saved, recovered, lost, short>>
      /\ m[p] = None /\ pmap' = [m EXCEPT ![p] = new]
      /\ \/ pending' = buffer /\ UNCHANGED <<segs, next, files>>
         \/ /\ next \in Numbers
            /\ files' = [files EXCEPT ![next] = buffer]
            /\ segs' = Append(segs, next)
            /\ next' = next + 1 /\ pending' = <<>>
  BY DEF AddDocument
<1>3. /\ m \in [Paths -> Loc \cup {None}]
      /\ ~recovered => Finds(Docs, tombs, m)
      /\ Sure => Exactly(Docs, tombs, m)
  BY <1>1, PathMapFinds
<1>4. /\ DOMAIN Docs = AllLocs(files, segs, pending) /\ DOMAIN Docs \subseteq Loc
      /\ LocsOf(files, segs) \subseteq DOMAIN Docs
      /\ \A a \in DOMAIN Docs : Docs[a].path \in Paths
  BY <1>1, DocsType
<1>5. ~ToBuild /\ ~ToBuild' /\ Sure' = Sure
  BY <1>1, <1>2 DEF ToBuild, Sure
<1>6. /\ files \in AllFiles /\ segs \in Seq(Numbers) /\ pending \in Seq(Doc) /\ next \in Nat
      /\ Opens(files, segs) /\ doc \in Doc /\ doc.path = p
  BY <1>1 DEF Types, MemoryInv, Doc
<1>7. /\ buffer \in Seq(Doc) /\ buffer # <<>>
      /\ new \in Loc /\ new \notin DOMAIN Docs
      /\ AllLocs(files, segs, buffer) = DOMAIN Docs \cup {new}
      /\ \A a \in DOMAIN Docs : E[a] = Docs[a]
      /\ E[new] = doc
  <2>1. buffer # <<>>
    BY <1>6
  <2>2. buffer = Then(pending, doc) /\ new = Place(segs, pending)
    BY DEF Then, Place
  <2> HIDE DEF doc, new, buffer, E
  <2>3. /\ buffer \in Seq(Doc) /\ new \in Loc /\ new \notin AllLocs(files, segs, pending)
        /\ AllLocs(files, segs, buffer) = AllLocs(files, segs, pending) \cup {new}
        /\ \A a \in AllLocs(files, segs, pending) :
             AllDocs(files, segs, buffer)[a] = AllDocs(files, segs, pending)[a]
        /\ AllDocs(files, segs, buffer)[new] = doc
    BY <1>6, <2>2, Extended
  <2> QED BY <1>4, <2>1, <2>3 DEF Docs, E
<1>8. DOMAIN E = DOMAIN Docs \cup {new} /\ LocsOf(files, segs) \subseteq AllLocs(files, segs, buffer)
  BY <1>6, <1>7, Documents
<1> HIDE DEF m, doc, new, buffer, E
<1>9. /\ KeepsReadable
      /\ segs' \in Seq(Numbers) /\ pending' \in Seq(Doc) /\ next' \in Nat
      /\ Opens(files', segs')
      /\ \A n \in Numbers : files'[n] # None => n < next'
      /\ Docs' = E
      /\ LocsOf(files, segs) \subseteq LocsOf(files', segs')
  <2>1. CASE pending' = buffer /\ UNCHANGED <<segs, next, files>>
    <3>1. Docs' = E
      BY <2>1 DEF Docs, E
    <3> QED BY <1>1, <1>6, <1>7, <2>1, <3>1 DEF KeepsReadable, MemoryInv
  <2>2. CASE /\ next \in Numbers
             /\ files' = [files EXCEPT ![next] = buffer]
             /\ segs' = Append(segs, next)
             /\ next' = next + 1 /\ pending' = <<>>
    <3>1. files' = With(files, next, buffer) /\ segs' = Then(segs, next) /\ next \in Numbers
      BY <2>2 DEF With, Then
    <3>2. files[next] = None /\ \A i \in DOMAIN segs : segs[i] # next
      BY <1>1, <2>2, NextIsFresh
    <3>3. buffer \in Seq(Doc) \cup {None, Torn}
      BY <1>7
    <3>4. /\ KeepsReadable
          /\ \A n \in Numbers : files'[n] # None => n = next \/ files[n] # None
      BY <1>1, <3>1, <3>2, <3>3, WriteKeeps
    <3>5. next' \in Nat /\ \A n \in Numbers : files'[n] # None => n < next'
      BY <1>1, <2>2, <3>4, NumbersTaken DEF MemoryInv
    <3>6. /\ segs' \in Seq(Numbers) /\ Opens(files', segs')
          /\ AllDocs(files', segs', <<>>) = E
          /\ LocsOf(files', segs') = AllLocs(files, segs, buffer)
      BY <1>6, <1>7, <3>1, <3>2, Flushed DEF E
    <3>7. <<>> \in Seq(Doc)
      OBVIOUS
    <3>8. Docs' = E
      BY <2>2, <3>6 DEF Docs
    <3> QED BY <1>8, <2>2, <3>4, <3>5, <3>6, <3>7, <3>8
  <2> QED BY <1>2, <2>1, <2>2
<1>10. /\ pmap' \in [Paths -> Loc \cup {None}]
       /\ ~recovered => Finds(E, tombs, pmap')
       /\ Sure => /\ Exactly(E, tombs, pmap')
                  /\ Live(E, tombs) = Live(Docs, tombs) \cup {doc}
                  /\ \A x \in Live(Docs, tombs) : x.path # p
  <2>1. Sure => tombs \in SUBSET DOMAIN Docs
    BY <1>1, <1>4 DEF MemoryInv
  <2>2. E[new].path = p /\ m[p] = None
    BY <1>2, <1>6, <1>7
  <2>3. pmap' = Mapped(m, p, new)
    BY <1>2 DEF Mapped
  <2>4. Grows(Docs, E, new) /\ new \in Loc /\ Located(Docs)
    BY <1>4, <1>7, <1>8 DEF Grows, Located
  <2>5. m \in [Paths -> Loc \cup {None}]
    BY <1>3
  <2>6. pmap' \in [Paths -> Loc \cup {None}] /\ (~recovered => Finds(E, tombs, pmap'))
    <3>1. pmap' \in [Paths -> Loc \cup {None}]
      BY <2>3, <2>4, <2>5 DEF Mapped
    <3>2. ASSUME ~recovered PROVE Finds(E, tombs, pmap')
      <4>1. Finds(Docs, tombs, m)
        BY <1>3, <3>2
      <4> QED BY <2>2, <2>3, <2>4, <2>5, <4>1, PutFinds
    <3> QED BY <3>1, <3>2
  <2>7. ASSUME Sure
        PROVE  /\ Exactly(E, tombs, pmap')
               /\ Live(E, tombs) = Live(Docs, tombs) \cup {E[new]}
               /\ \A x \in Live(Docs, tombs) : x.path # p
    <3>1. tombs \in SUBSET DOMAIN Docs /\ Exactly(Docs, tombs, m)
      BY <1>3, <2>1, <2>7
    <3> QED BY <2>2, <2>3, <2>4, <2>5, <3>1, PutExactly
  <2> QED BY <1>3, <1>7, <2>6, <2>7
<1>11. MemoryInv'
  <2>1. /\ ~recovered => Sole(E, tombs)
        /\ Sure => tombs \subseteq LocsOf(files', segs')
    BY <1>1, <1>9, <1>10, FindsSole DEF MemoryInv
  <2> QED BY <1>1, <1>2, <1>5, <1>9, <1>10, <2>1 DEF MemoryInv
<1>12. ManifestInv' /\ BuildInv'
  BY <1>1, <1>2, <1>9, EditFrame
<1>13. Types'
  BY <1>1, <1>2, <1>9, <1>10 DEF Types, KeepsReadable
<1>14. ShapeInv'
  BY <1>1, <1>2, <1>5, <1>10, Apart DEF ShapeInv
<1>15. Live(Docs, tombs)' = Live(E, tombs)
  BY <1>2, <1>9 DEF Live
<1> QED BY <1>9, <1>10, <1>11, <1>12, <1>13, <1>14, <1>15 DEF IInv, doc

\* Building and releasing the path map change no document.
LEMMA PathMapStep ==
  ASSUME IInv, BuildPathMap \/ ReleasePathMapIfIdle
  PROVE  IInv' /\ Docs' = Docs
<1>1. Types /\ MemoryInv /\ ShapeInv /\ open /\ job = None /\ build = None /\ Idle /\ pending = <<>>
  BY DEF IInv, BuildPathMap, ReleasePathMapIfIdle, Idle
<1>2. UNCHANGED <<open, segs, tombs, pending, next, job, build, files, manifest, tombFile, saved, recovered, lost, short>>
  BY DEF BuildPathMap, ReleasePathMapIfIdle
<1>3. pmap' = BuiltMap \/ pmap' = None
  BY DEF BuildPathMap, ReleasePathMapIfIdle
<1>4. Docs' = Docs
  BY <1>2 DEF Docs
<1>5. KeepsReadable
  BY <1>1, <1>2 DEF KeepsReadable, Types
<1>6. /\ BuiltMap \in [Paths -> Loc \cup {None}]
      /\ Sole(Docs, tombs) => Exactly(Docs, tombs, BuiltMap)
  BY <1>1, BuiltMapIsExact
<1>7. MemoryInv'
  <2>1. ~ToBuild /\ ~ToBuild' /\ Sure' = Sure /\ (Sure => ~recovered)
    BY <1>1, <1>2 DEF ToBuild, Sure
  <2> QED BY <1>1, <1>2, <1>3, <1>4, <1>6, <2>1 DEF MemoryInv, Exactly
<1>8. ManifestInv' /\ BuildInv'
  BY <1>1, <1>2, <1>5, EditFrame
<1>9. Types'
  BY <1>1, <1>2, <1>3, <1>6 DEF Types
<1>10. ShapeInv'
  BY <1>1, <1>2 DEF ShapeInv, ToBuild
<1> QED BY <1>4, <1>7, <1>8, <1>9, <1>10 DEF IInv
-----------------------------------------------------------------------------
(* Save and compaction *)

\* A job is of an open index whose buffer is written.
LEMMA JobFrame ==
  ASSUME IInv, job # None
  PROVE  /\ Types /\ MemoryInv /\ ShapeInv /\ open /\ build = None /\ pending = <<>>
         /\ job \in Job /\ Docs = DocsOf(files, segs)
         /\ LocsOf(files, segs) = DOMAIN Docs
<1>1. Types /\ MemoryInv /\ ShapeInv /\ open /\ build = None /\ pending = <<>> /\ job \in Job
  BY DEF IInv, ShapeInv, Types
<1>2. files \in AllFiles /\ segs \in Seq(Numbers) /\ pending \in Seq(Doc) /\ Opens(files, segs)
  BY <1>1 DEF Types, MemoryInv
<1>3. Docs = DocsOf(files, segs)
  BY <1>1, <1>2, Documents DEF Docs
<1> QED BY <1>1, <1>3 DEF DocsOf

\* A compaction with nothing to do ends.
LEMMA AlreadyCompactStep == ASSUME IInv, AlreadyCompact PROVE IInv' /\ Docs' = Docs
<1>1. Types /\ MemoryInv /\ ShapeInv /\ open /\ build = None /\ job.at = "merge"
  BY JobFrame DEF AlreadyCompact
<1>2. job' = None /\ UNCHANGED <<open, segs, tombs, pending, pmap, next, build, files, manifest,
                                 tombFile, saved, recovered, lost, short>>
  BY DEF AlreadyCompact, mem, disk
<1>3. KeepsReadable
  BY <1>1, <1>2 DEF KeepsReadable, Types
<1>4. MemoryInv' /\ Docs' = Docs
  BY <1>1, <1>2, <1>3, MemoryKept DEF ToBuild, MemoryInv, Sure
<1>5. ManifestInv' /\ BuildInv'
  BY <1>1, <1>2, <1>3, EditFrame
<1>6. Types' /\ ShapeInv'
  BY <1>1, <1>2 DEF Types, ShapeInv, ToBuild
<1> QED BY <1>4, <1>5, <1>6 DEF IInv

\* The new ids of a compaction are given each to one live document.
LEMMA MergedDocuments ==
  ASSUME Types, MemoryInv, NEW remap \in Remaps
  PROVE  /\ Merged(remap) \in Seq(Doc)
         /\ \A i \in DOMAIN Merged(remap) :
              \E a \in DOMAIN Docs \ tombs : remap[a] = i /\ Merged(remap)[i] = Docs[a]
         /\ \A a \in DOMAIN Docs \ tombs :
              remap[a] \in DOMAIN Merged(remap) /\ Merged(remap)[remap[a]] = Docs[a]
<1> DEFINE L == DOMAIN Docs \ tombs
           N == Cardinality(L)
<1>1. LiveLocs = L /\ \A a \in L : DocAt(a) = Docs[a]
  BY Spelled DEF LiveLocs
<1>2. L \subseteq Loc /\ \A a \in L : Docs[a] \in Doc
  BY DocsType
<1>3. N \in Nat
  <2>1. IsFiniteSet(DOMAIN Docs)
    BY DocsType, DocumentsFinite DEF Types, MemoryInv
  <2>2. IsFiniteSet(L)
    BY <2>1, FS_Subset
  <2> QED BY <2>2, FS_CardinalityType
<1> HIDE DEF N
<1>4. /\ remap \in [L -> 1 .. N]
      /\ \A a, b \in L : Before(a, b) => remap[a] < remap[b]
      /\ \A i \in 1 .. N : \E a \in L : remap[a] = i
  BY <1>1 DEF Remaps, IsRemap, N
<1>5. ASSUME NEW a \in L, NEW b \in L, remap[a] = remap[b] PROVE a = b
  <2>1. remap[a] \in Nat /\ remap[b] \in Nat
    BY <1>3, <1>4
  <2>2. ~Before(a, b) /\ ~Before(b, a)
    BY <1>4, <1>5, <2>1
  <2>3. /\ a = <<a[1], a[2]>> /\ b = <<b[1], b[2]>>
        /\ a[1] \in Nat /\ a[2] \in Nat /\ b[1] \in Nat /\ b[2] \in Nat
    BY <1>2 DEF Loc
  <2>4. a[1] = b[1] /\ a[2] = b[2]
    BY <2>2, <2>3 DEF Before
  <2> QED BY <2>3, <2>4
<1>6. Merged(remap) = [i \in 1 .. N |-> DocAt(CHOOSE a \in L : remap[a] = i)]
  BY <1>1 DEF Merged, N
<1>7. ASSUME NEW i \in 1 .. N
      PROVE  \E a \in L : remap[a] = i /\ Merged(remap)[i] = Docs[a]
  <2>1. (CHOOSE a \in L : remap[a] = i) \in L /\ remap[CHOOSE a \in L : remap[a] = i] = i
    BY <1>4
  <2>2. Merged(remap)[i] = DocAt(CHOOSE a \in L : remap[a] = i)
    BY <1>6
  <2> QED BY <1>1, <2>1, <2>2
<1>8. DOMAIN Merged(remap) = 1 .. N
  BY <1>6
<1>9. Merged(remap) \in Seq(Doc)
  <2>1. ASSUME NEW i \in 1 .. N PROVE Merged(remap)[i] \in Doc
    BY <1>2, <1>7
  <2>2. Merged(remap) = [i \in 1 .. N |-> Merged(remap)[i]]
    BY <1>6
  <2>3. Merged(remap) \in [1 .. N -> Doc]
    BY <2>1, <2>2
  <2> QED BY <1>3, <2>3
<1>10. ASSUME NEW a \in L PROVE remap[a] \in 1 .. N /\ Merged(remap)[remap[a]] = Docs[a]
  <2>1. remap[a] \in 1 .. N
    BY <1>4
  <2>2. PICK b \in L : remap[b] = remap[a] /\ Merged(remap)[remap[a]] = Docs[b]
    BY <1>7, <2>1
  <2>3. b = a
    BY <1>5, <2>2
  <2> QED BY <2>1, <2>2, <2>3
<1> QED BY <1>7, <1>8, <1>9, <1>10

\* A merge that fails leaves a file under a number that nothing names.
LEMMA MergeFailsStep == ASSUME IInv, MergeFails PROVE IInv' /\ Docs' = Docs /\ KeepsReadable
<1>1. Types /\ MemoryInv /\ ShapeInv /\ open /\ build = None
  BY JobFrame DEF MergeFails
<1>2. /\ next \in Numbers /\ next' = next + 1 /\ job' = None
      /\ UNCHANGED <<open, segs, tombs, pending, pmap, build, manifest, tombFile, saved, recovered, lost, short>>
  BY DEF MergeFails
<1>10. \E x \in Seq(Doc) \cup {None, Torn} : files' = With(files, next, x)
  <2>1. \A remap \in Remaps : Merged(remap) \in Seq(Doc)
    BY <1>1, MergedDocuments
  <2> QED BY <2>1 DEF MergeFails, With
<1>3. files[next] = None
  BY <1>1, <1>2, NextIsFresh
<1>4. KeepsReadable /\ \A m \in Numbers : files'[m] # None => m = next \/ files[m] # None
  BY <1>1, <1>2, <1>3, <1>10, WriteKeeps
<1>5. next' \in Nat /\ \A m \in Numbers : files'[m] # None => m < next'
  BY <1>1, <1>2, <1>4, NumbersTaken DEF MemoryInv
<1>6. MemoryInv' /\ Docs' = Docs
  BY <1>1, <1>2, <1>4, <1>5, MemoryKept DEF ToBuild, Sure
<1>7. ManifestInv' /\ BuildInv'
  BY <1>1, <1>2, <1>4, EditFrame
<1>8. Types'
  BY <1>1, <1>2, <1>4, <1>5 DEF Types, KeepsReadable
<1>9. ShapeInv'
  BY <1>1, <1>2 DEF ShapeInv, ToBuild
<1> QED BY <1>4, <1>6, <1>7, <1>8, <1>9 DEF IInv

\* The swap to the merged segment keeps the live documents.
LEMMA MergeStep ==
  ASSUME IInv, Merge
  PROVE  IInv' /\ KeepsReadable /\ Live(Docs, tombs)' = Live(Docs, tombs)
<1>1. Types /\ MemoryInv /\ ShapeInv /\ open /\ build = None /\ pending = <<>> /\ job \in Job
  BY JobFrame DEF Merge
<1>2. /\ next \in Numbers /\ next' = next + 1 /\ tombs' = {} /\ pmap' = None
      /\ job' = [job EXCEPT !.at = "manifest"] /\ job.at = "merge"
      /\ UNCHANGED <<open, pending, build, manifest, tombFile, saved, recovered, lost, short>>
  BY DEF Merge, MapAfterMerge, AfterMerge
<1>3. job.kind = "compact" /\ job # None
  BY <1>1, <1>2, Apart DEF ShapeInv
<1>4. job' \in Job /\ job'.kind = "compact" /\ job'.at = "manifest"
  BY <1>1, <1>2, <1>3 DEF Job
<1>5. ~ToBuild /\ ~ToBuild' /\ Sure' = Sure
  BY <1>2, <1>3, <1>4 DEF ToBuild, Sure
<1> DEFINE s0 == <<>>
<1>6. /\ files \in AllFiles /\ s0 \in Seq(Numbers) /\ s0 \in Seq(Doc) /\ Opens(files, s0)
      /\ Len(s0) = 0 /\ LocsOf(files, s0) = {} /\ \A i \in DOMAIN s0 : s0[i] # next
  BY <1>1 DEF Types, Opens, LocsOf
<1>7. LiveLocs = DOMAIN Docs \ tombs
  BY <1>1, Spelled DEF LiveLocs
<1>8. /\ KeepsReadable /\ segs' \in Seq(Numbers) /\ Opens(files', segs')
      /\ \A m \in Numbers : files'[m] # None => m = next \/ files[m] # None
      /\ Live(Docs, tombs)' = Live(Docs, tombs)
      /\ Sole(Docs, tombs) => Sole(Docs, tombs)'
  <2>1. CASE LiveLocs = {} /\ segs' = <<>> /\ UNCHANGED files
    <3>1. AllLocs(files', segs', pending') = {}
      BY <1>1, <1>2, <2>1 DEF AllLocs, LocsOf
    <3>2. DOMAIN Docs' = {}
      BY <3>1 DEF Docs, AllDocs
    <3>3. Live(Docs, tombs)' = Live(Docs, tombs)
      BY <1>7, <2>1, <3>2 DEF Live
    <3>4. Sole(Docs, tombs)'
      BY <3>2 DEF Sole
    <3> QED BY <1>1, <1>6, <2>1, <3>3, <3>4 DEF KeepsReadable, Types
  <2>2. CASE /\ \E remap \in Remaps : files' = [files EXCEPT ![next] = Merged(remap)]
             /\ segs' = <<next>>
    <3>1. PICK remap \in Remaps : files' = [files EXCEPT ![next] = Merged(remap)]
      BY <2>2
    <3> DEFINE q == Merged(remap)
    <3>2. /\ q \in Seq(Doc)
          /\ \A i \in DOMAIN q : \E a \in DOMAIN Docs \ tombs : remap[a] = i /\ q[i] = Docs[a]
          /\ \A a \in DOMAIN Docs \ tombs : remap[a] \in DOMAIN q /\ q[remap[a]] = Docs[a]
      BY <1>1, MergedDocuments
    <3>3. files' = With(files, next, q) /\ segs' = Then(s0, next)
      <4>1. Append(<<>>, next) = <<next>>
        BY <1>2
      <4> QED BY <2>2, <3>1, <4>1 DEF With, Then
    <3> HIDE DEF q, s0
    <3>4. files[next] = None
      BY <1>1, <1>2, NextIsFresh
    <3>5. KeepsReadable /\ \A m \in Numbers : files'[m] # None => m = next \/ files[m] # None
      BY <1>1, <1>2, <3>2, <3>3, <3>4, WriteKeeps
    <3>6. /\ segs' \in Seq(Numbers) /\ Opens(files', segs')
          /\ AllDocs(files', segs', <<>>) = AllDocs(files, s0, q)
      <4>1. next \in Numbers /\ s0 \in Seq(Numbers) /\ Opens(files, s0) /\ files \in AllFiles
        BY <1>2, <1>6
      <4>2. \A i \in DOMAIN s0 : s0[i] # next
        BY <1>6
      <4>3. q \in Seq(Doc)
        BY <3>2
      <4> QED BY <3>3, <4>1, <4>2, <4>3, Flushed
    <3> DEFINE D == AllDocs(files, s0, q)
    <3>7. Docs' = D
      BY <1>1, <1>2, <3>6 DEF Docs
    <3>8. \A x : x \in DOMAIN D <=> \E l \in DOMAIN q : x = <<1, l>>
      BY <1>6 DEF AllDocs, AllLocs
    <3>9. \A l \in DOMAIN q : <<1, l>> \in DOMAIN D /\ D[<<1, l>>] = q[l]
      <4>1. \A l \in DOMAIN q : AllDocs(files, s0, q)[<<Len(s0) + 1, l>>] = q[l]
        BY <1>6, <3>2, Documents
      <4>2. Len(s0) + 1 = 1
        BY <1>6
      <4> QED BY <3>8, <4>1, <4>2
    <3> HIDE DEF D
    <3>10. Live(D, {}) = Live(Docs, tombs)
      <4>1. ASSUME NEW x \in Live(D, {}) PROVE x \in Live(Docs, tombs)
        <5>1. PICK l \in DOMAIN q : x = q[l]
          BY <3>8, <3>9 DEF Live
        <5> QED BY <3>2, <5>1 DEF Live
      <4>2. ASSUME NEW x \in Live(Docs, tombs) PROVE x \in Live(D, {})
        <5>1. PICK a \in DOMAIN Docs \ tombs : x = Docs[a]
          BY DEF Live
        <5>2. <<1, remap[a]>> \in DOMAIN D /\ D[<<1, remap[a]>>] = x
          BY <3>2, <3>9, <5>1
        <5> QED BY <5>2 DEF Live
      <4> QED BY <4>1, <4>2
    <3>11. ASSUME Sole(Docs, tombs) PROVE Sole(D, {})
      <4> SUFFICES ASSUME NEW x \in DOMAIN D, NEW y \in DOMAIN D, D[x].path = D[y].path
                   PROVE  x = y
        BY DEF Sole
      <4>1. PICK k \in DOMAIN q : x = <<1, k>>
        BY <3>8
      <4>2. PICK l \in DOMAIN q : y = <<1, l>>
        BY <3>8
      <4>3. PICK a \in DOMAIN Docs \ tombs : remap[a] = k /\ q[k] = Docs[a]
        BY <3>2
      <4>4. PICK b \in DOMAIN Docs \ tombs : remap[b] = l /\ q[l] = Docs[b]
        BY <3>2
      <4>5. Docs[a].path = Docs[b].path
        BY <3>9, <4>1, <4>2, <4>3, <4>4
      <4>6. a = b
        BY <3>11, <4>5 DEF Sole
      <4> QED BY <4>1, <4>2, <4>3, <4>4, <4>6
    <3>12. Live(Docs, tombs)' = Live(D, {}) /\ (Sole(Docs, tombs)' <=> Sole(D, {}))
      BY <1>2, <3>7 DEF Live, Sole
    <3> QED BY <3>5, <3>6, <3>10, <3>11, <3>12
  <2> QED BY <2>1, <2>2 DEF Merge
<1>9. next' \in Nat /\ \A m \in Numbers : files'[m] # None => m < next'
  BY <1>1, <1>2, <1>8, NumbersTaken DEF MemoryInv
<1>10. MemoryInv'
  <2>1. ~recovered => Sole(Docs, tombs)
    BY <1>1, <1>5 DEF MemoryInv
  <2> QED BY <1>2, <1>5, <1>8, <1>9, <2>1 DEF MemoryInv
<1>11. ManifestInv' /\ BuildInv'
  BY <1>1, <1>2, <1>8, EditFrame
<1>12. Types'
  BY <1>1, <1>2, <1>4, <1>8, <1>9 DEF Types, KeepsReadable
<1>13. ShapeInv'
  BY <1>1, <1>2, <1>4, <1>5 DEF ShapeInv
<1> QED BY <1>8, <1>10, <1>11, <1>12, <1>13 DEF IInv

\* The commit: what is live is what the manifest names from then on.
LEMMA SaveManifestStep ==
  ASSUME IInv, SaveManifest
  PROVE  IInv' /\ Docs' = Docs /\ saved' = Live(Docs, tombs)
<1>1. /\ Types /\ MemoryInv /\ ShapeInv /\ open /\ build = None /\ pending = <<>> /\ job \in Job
      /\ Docs = DocsOf(files, segs) /\ LocsOf(files, segs) = DOMAIN Docs
  BY JobFrame DEF SaveManifest
<1>2. /\ job # None /\ job.at = "manifest"
      /\ manifest' = [segs |-> segs, tombs |-> tombs, next |-> next]
      /\ recovered' = (recovered /\ job.kind # "build")
      /\ short' = ((short \/ lost) /\ job.kind # "build")
      /\ job' = [job EXCEPT !.at = "tombs"]
      /\ UNCHANGED <<open, segs, tombs, pending, pmap, next, build, files, tombFile, lost>>
  BY DEF SaveManifest, ManifestNow, mem
<1>3. saved' = Live(Docs, tombs)
  BY <1>1, Spelled DEF SaveManifest
<1>4. job' \in Job /\ job'.at = "tombs"
  BY <1>1, <1>2 DEF Job
<1>5. KeepsReadable
  BY <1>1, <1>2 DEF KeepsReadable, Types
<1>6. /\ ~recovered' => ~recovered \/ ToBuild
      /\ ~recovered' /\ ~short' => Sure \/ ToBuild
  BY <1>2 DEF ToBuild, Sure
<1>7. MemoryInv' /\ Docs' = Docs
  <2>1. ~ToBuild'
    BY <1>4 DEF ToBuild
  <2>2. /\ (~recovered \/ ToBuild)' => (~recovered \/ ToBuild)
        /\ (Sure \/ ToBuild)' => (Sure \/ ToBuild)
    BY <1>6, <2>1 DEF Sure
  <2>3. open' => \A n \in Numbers : files'[n] # None => n < next'
    BY <1>1, <1>2 DEF MemoryInv
  <2> QED BY <1>1, <1>2, <1>5, <2>2, <2>3, MemoryKept
<1>8. /\ manifest'.segs = segs /\ manifest'.tombs = tombs /\ manifest' \in Manifest
  BY <1>1, <1>2 DEF Types, Manifest
<1>9. ManifestInv'
  <2>1. Committed' = Docs
    BY <1>1, <1>2, <1>8 DEF Committed
  <2> QED BY <1>1, <1>2, <1>3, <1>6, <1>8, <2>1 DEF ManifestInv, MemoryInv
<1>11. BuildInv'
  BY <1>1, <1>2, NoBuild
<1>12. Types'
  <2>1. saved' \in SUBSET Doc
    BY <1>1, <1>3, DocsType DEF Live
  <2> QED BY <1>1, <1>2, <1>4, <1>8, <2>1 DEF Types
<1>13. ShapeInv'
  <2>1. ManifestNow' = manifest'
    BY <1>2 DEF ManifestNow
  <2> QED BY <1>1, <1>2, <1>4, <2>1 DEF ShapeInv, ToBuild
<1> QED BY <1>3, <1>7, <1>9, <1>11, <1>12, <1>13 DEF IInv

\* The older tombstone file follows the manifest, over the same segments.
LEMMA SaveTombstonesStep ==
  ASSUME IInv, SaveTombstones
  PROVE  IInv' /\ Docs' = Docs
<1>1. Types /\ MemoryInv /\ ShapeInv /\ open /\ build = None /\ pending = <<>> /\ job \in Job
  BY JobFrame DEF SaveTombstones
<1>2. /\ job # None /\ job.at = "tombs" /\ tombFile' = tombs
      /\ job' = IF job.kind = "flush" THEN None ELSE [job EXCEPT !.at = "clean"]
      /\ UNCHANGED <<open, segs, tombs, pending, pmap, next, build, files, manifest, saved, recovered, lost, short>>
  BY DEF SaveTombstones, mem
<1>3. job' = None \/ (job' \in Job /\ job'.at = "clean")
  BY <1>1, <1>2 DEF Job
<1>4. KeepsReadable
  BY <1>1, <1>2 DEF KeepsReadable, Types
<1>5. MemoryInv' /\ Docs' = Docs
  <2>1. ~ToBuild'
    BY <1>3 DEF ToBuild
  <2> QED BY <1>1, <1>2, <1>4, <2>1, MemoryKept DEF MemoryInv, Sure
<1>6. ManifestInv'
  BY <1>2, <1>4, ManifestKept DEF IInv
<1>8. BuildInv'
  BY <1>1, <1>2, NoBuild
<1>9. Types'
  BY <1>1, <1>2, <1>3 DEF Types
<1>10. ShapeInv'
  <2>1. ManifestNow' = ManifestNow /\ manifest = ManifestNow
    BY <1>1, <1>2 DEF ManifestNow, ShapeInv
  <2> QED BY <1>1, <1>2, <1>3, <2>1 DEF ShapeInv, ToBuild
<1> QED BY <1>5, <1>6, <1>8, <1>9, <1>10 DEF IInv

\* What closing the index, or a step while it is closed, leaves.
LEMMA ClosedStep ==
  ASSUME IInv, open' = FALSE, segs' = <<>>, tombs' = {}, pending' = <<>>, pmap' = None, next' \in Nat,
         job' = None, build' = None, lost' = FALSE,
         UNCHANGED <<files, manifest, tombFile, saved, recovered, short>>
  PROVE  IInv'
<1>1. Types
  BY DEF IInv
<1>2. KeepsReadable
  BY <1>1 DEF KeepsReadable, Types
<1>3. MemoryInv'
  BY MemoryClosed
<1>4. ManifestInv'
  BY <1>1, <1>2, ManifestKept DEF IInv
<1>6. BuildInv'
  BY NoBuild
<1>7. Types'
  <2>1. <<>> \in Seq(Numbers) /\ <<>> \in Seq(Doc)
    OBVIOUS
  <2> QED BY <1>1, <2>1 DEF Types
<1>8. ShapeInv'
  BY DEF ShapeInv, ToBuild
<1> QED BY <1>3, <1>4, <1>6, <1>7, <1>8 DEF IInv

\* A replace that fails changes nothing on disk; a build's index is dropped.
LEMMA SaveFailsStep ==
  ASSUME IInv, SaveFails
  PROVE  IInv' /\ (open' => Docs' = Docs)
<1>1. Types /\ MemoryInv /\ ShapeInv /\ open /\ build = None /\ pending = <<>> /\ job \in Job
  BY JobFrame DEF SaveFails
<1>2. job' = None /\ UNCHANGED <<build, files, manifest, tombFile, saved, recovered, short>>
  BY DEF SaveFails, disk
<1>3. CASE job.kind = "build"
  <2>1. /\ open' = FALSE /\ segs' = <<>> /\ tombs' = {} /\ pending' = <<>>
        /\ pmap' = None /\ next' = 0 /\ lost' = FALSE
    BY <1>3 DEF SaveFails
  <2>2. build' = None /\ next' \in Nat
    BY <1>1, <1>2, <2>1
  <2>3. IInv'
    BY <1>2, <2>1, <2>2, ClosedStep
  <2> QED BY <2>1, <2>3
<1>4. CASE job.kind # "build"
  <2>1. UNCHANGED <<open, segs, tombs, pending, pmap, next, lost>>
    BY <1>4 DEF SaveFails, mem
  <2>2. KeepsReadable
    BY <1>1, <1>2 DEF KeepsReadable, Types
  <2>3. MemoryInv' /\ Docs' = Docs
    BY <1>1, <1>2, <2>1, <2>2, MemoryKept DEF ToBuild, MemoryInv, Sure
  <2>4. ManifestInv' /\ BuildInv'
    BY <1>1, <1>2, <2>1, <2>2, EditFrame
  <2>5. Types' /\ ShapeInv'
    BY <1>1, <1>2, <2>1 DEF Types, ShapeInv, ToBuild
  <2> QED BY <2>3, <2>4, <2>5 DEF IInv
<1> QED BY <1>3, <1>4

\* Only files that neither the open index nor the manifest names are deleted.
LEMMA CleanupOrphansStep ==
  ASSUME IInv, CleanupOrphans
  PROVE  IInv' /\ Docs' = Docs /\ \A n \in Numbers : files'[n] \in {files[n], None}
<1>1. Types /\ MemoryInv /\ ShapeInv /\ open /\ build = None /\ pending = <<>> /\ job \in Job
  BY JobFrame DEF CleanupOrphans
<1>2. /\ job # None /\ job.at = "clean" /\ job' = None
      /\ UNCHANGED <<open, segs, tombs, pending, pmap, next, build, manifest, tombFile, saved, recovered, lost, short>>
  BY DEF CleanupOrphans, mem
<1>3. PICK gone \in SUBSET (Numbers \ {segs[i] : i \in DOMAIN segs}) :
        files' = [n \in Numbers |-> IF n \in gone THEN None ELSE files[n]]
  BY DEF CleanupOrphans
<1>4. files' \in AllFiles /\ \A n \in Numbers : files'[n] \in {files[n], None}
  BY <1>1, <1>3 DEF Types, AllFiles
<1>5. /\ files \in AllFiles /\ segs \in Seq(Numbers) /\ Opens(files, segs)
      /\ \A i \in DOMAIN segs : segs[i] \in Numbers /\ files'[segs[i]] = files[segs[i]]
  BY <1>1, <1>3 DEF Types, MemoryInv
<1>6. /\ Opens(files', segs) /\ DocsOf(files', segs) = DocsOf(files, segs)
      /\ LocsOf(files', segs) = LocsOf(files, segs)
  <2>1. Opens(files', segs) /\ DocsOf(files', segs) = DocsOf(files, segs)
    BY <1>5, Kept
  <2> QED BY <2>1 DEF DocsOf
<1>7. Docs' = Docs
  <2>1. AllDocs(files', segs, pending) = AllDocs(files, segs, pending)
    <3>1. pending \in Seq(Doc) /\ \A i \in DOMAIN segs : files'[segs[i]] = files[segs[i]]
      BY <1>1, <1>5 DEF Types
    <3> QED BY <1>5, <3>1, AllKept
  <2> QED BY <1>2, <2>1 DEF Docs
<1>8. \A n \in Numbers : files'[n] # None => files[n] # None
  BY <1>4
<1>9. ~ToBuild' /\ Sure' = Sure
  BY <1>2 DEF ToBuild, Sure
<1>10. MemoryInv'
  BY <1>1, <1>2, <1>6, <1>7, <1>8, <1>9 DEF MemoryInv
<1>11. manifest = ManifestNow /\ tombFile = tombs
  BY <1>1, <1>2 DEF ShapeInv, ToBuild
<1>12. ManifestInv'
  <2>1. manifest.segs = segs
    BY <1>11 DEF ManifestNow
  <2> QED BY <1>2, <1>6, <2>1 DEF IInv, ManifestInv, Committed
<1>14. BuildInv'
  BY <1>1, <1>2, NoBuild
<1>15. Types' /\ ShapeInv'
  BY <1>1, <1>2, <1>4 DEF Types, ShapeInv, ToBuild
<1> QED BY <1>4, <1>7, <1>10, <1>12, <1>14, <1>15 DEF IInv
-----------------------------------------------------------------------------
(* A full build *)

\* The number a build or a load starts from.
LEMMA NextSegmentNumberIsFresh ==
  ASSUME Types
  PROVE  NextSegmentNumber \in Nat /\ \A n \in Numbers : files[n] # None => n < NextSegmentNumber
<1> DEFINE used == {n \in Numbers : files[n] # None}
<1>1. used \in SUBSET (0 .. MaxSegment) /\ MaxSegment \in Nat
  BY Apart DEF Numbers
<1> HIDE DEF used
<1>2. NextNumber(used) \in Nat /\ \A n \in used : n < NextNumber(used)
  BY <1>1, NumberIsFresh
<1> QED BY <1>2 DEF NextSegmentNumber, used

\* The larger of it and of another number is as good.
LEMMA AtLeastIsFresh ==
  ASSUME Types, NEW k \in Nat
  PROVE  /\ AtLeast(k, NextSegmentNumber) \in Nat
         /\ \A n \in Numbers : files[n] # None => n < AtLeast(k, NextSegmentNumber)
<1>1. NextSegmentNumber \in Nat /\ \A n \in Numbers : files[n] # None => n < NextSegmentNumber
  BY NextSegmentNumberIsFresh
<1> HIDE DEF NextSegmentNumber
<1>2. AtLeast(k, NextSegmentNumber) \in Nat /\ NextSegmentNumber <= AtLeast(k, NextSegmentNumber)
  BY <1>1 DEF AtLeast
<1>3. Numbers \subseteq Nat
  BY Apart
<1> QED BY <1>1, <1>2, <1>3

\* While a build runs no index is open.
LEMMA BuildFrame ==
  ASSUME IInv, build # None
  PROVE  /\ Types /\ open = FALSE /\ segs = <<>> /\ tombs = {} /\ pending = <<>> /\ pmap = None
         /\ job = None /\ build \in Build /\ lost = FALSE
BY DEF IInv, ShapeInv, Types

\* A build starts above every number a file has.
LEMMA BuildStartsStep == ASSUME IInv, BuildStarts PROVE IInv'
<1>1. /\ Types /\ ShapeInv /\ MemoryInv /\ open = FALSE /\ job = None
      /\ segs = <<>> /\ tombs = {} /\ pending = <<>> /\ pmap = None
  BY DEF IInv, ShapeInv, BuildStarts, Types
<1>2. /\ build' = [segs |-> <<>>, seen |-> {}, next |-> NextSegmentNumber]
      /\ UNCHANGED <<open, segs, tombs, pending, pmap, next, job, files, manifest, tombFile, saved, recovered, lost, short>>
  BY DEF BuildStarts, mem, disk
<1>3. KeepsReadable
  BY <1>1, <1>2 DEF KeepsReadable, Types
<1>4. MemoryInv'
  BY <1>1, <1>2, MemoryClosed
<1>5. ManifestInv'
  BY <1>1, <1>2, <1>3, ManifestKept DEF IInv
<1>7. NextSegmentNumber \in Nat /\ \A n \in Numbers : files[n] # None => n < NextSegmentNumber
  BY <1>1, NextSegmentNumberIsFresh
<1>8. build'.segs = <<>> /\ build'.next = NextSegmentNumber /\ build' \in Build
  BY <1>2, <1>7 DEF Build
<1>9. BuildInv'
  <2>1. DOMAIN Building' = {} /\ Opens(files', build'.segs)
    BY <1>8 DEF Building, DocsOf, LocsOf, Opens
  <2>2. Sole(Building', {})
    BY <2>1 DEF Sole
  <2>3. \A n \in Numbers : files'[n] # None => n < build'.next
    BY <1>2, <1>7, <1>8
  <2>4. \A i \in DOMAIN build'.segs : FALSE
    BY <1>8
  <2> QED BY <2>1, <2>2, <2>3, <2>4 DEF BuildInv
<1>10. Types'
  BY <1>1, <1>2, <1>8 DEF Types
<1>11. ShapeInv'
  BY <1>1, <1>2 DEF ShapeInv, ToBuild
<1> QED BY <1>4, <1>5, <1>9, <1>10, <1>11 DEF IInv

\* A worker's buffer is of new paths, each once.
LEMMA BufferType ==
  ASSUME NEW seen, NEW b \in Buffers(seen)
  PROVE  /\ b \in Seq(Doc) /\ \A i \in DOMAIN b : b[i].path \notin seen /\ b[i].path \in Paths
         /\ \A i, j \in DOMAIN b : b[i].path = b[j].path => i = j
<1>1. PICK n \in 1 .. MaxPending : b \in [1 .. n -> [path : Paths \ seen, content : Contents]]
  BY DEF Buffers
<1>2. n \in Nat
  BY Apart
<1>3. DOMAIN b = 1 .. n /\ \A i \in 1 .. n : b[i] \in [path : Paths \ seen, content : Contents]
  BY <1>1
<1>4. \A i \in 1 .. n : b[i] \in Doc /\ b[i].path \notin seen /\ b[i].path \in Paths
  BY <1>3 DEF Doc
<1>5. b \in [1 .. n -> Doc]
  BY <1>1, <1>4
<1>6. b \in Seq(Doc)
  BY <1>2, <1>5
<1>7. \A i, j \in DOMAIN b : b[i].path = b[j].path => i = j
  BY DEF Buffers
<1> QED BY <1>3, <1>4, <1>6, <1>7

\* A worker's buffer is new documents of new paths under a new number.
LEMMA BuildWritesStep ==
  ASSUME IInv, BuildWrites
  PROVE  IInv' /\ KeepsReadable
<1>1. /\ Types /\ open = FALSE /\ segs = <<>> /\ tombs = {} /\ pending = <<>> /\ pmap = None
      /\ job = None /\ build \in Build /\ build # None /\ BuildInv /\ ManifestInv
      /\ lost = FALSE
  BY BuildFrame DEF IInv, BuildWrites
<1>2. /\ build.next \in Numbers
      /\ UNCHANGED <<open, segs, tombs, pending, pmap, next, job, manifest, tombFile, saved, recovered, lost, short>>
  BY DEF BuildWrites, mem
<1>3. PICK b \in Buffers(build.seen) :
        /\ files' = [files EXCEPT ![build.next] = b]
        /\ build' = [segs |-> Append(build.segs, build.next),
                     seen |-> build.seen \cup {b[i].path : i \in DOMAIN b},
                     next |-> build.next + 1]
  BY DEF BuildWrites
<1>4. /\ b \in Seq(Doc) /\ \A i \in DOMAIN b : b[i].path \notin build.seen /\ b[i].path \in Paths
      /\ \A i, j \in DOMAIN b : b[i].path = b[j].path => i = j
  BY BufferType
<1> DEFINE n == build.next
           s == build.segs
           D == AllDocs(files, s, b)
<1>5. /\ files' = With(files, n, b) /\ build'.segs = Then(s, n) /\ build'.next = n + 1
      /\ build'.seen = build.seen \cup {b[i].path : i \in DOMAIN b}
  BY <1>3 DEF With, Then
<1>6. files \in AllFiles /\ s \in Seq(Numbers) /\ n \in Numbers /\ Opens(files, s)
  BY <1>1, <1>2 DEF Types, Build, BuildInv
<1>7. files[n] = None
  <2>1. ~(n < n)
    BY <1>6, Apart
  <2> QED BY <1>1, <1>6, <2>1 DEF BuildInv
<1>8. \A i \in DOMAIN s : s[i] # n
  BY <1>6, <1>7 DEF Opens
<1> HIDE DEF n, s
<1>9. /\ KeepsReadable /\ files'[n] = b
      /\ \A m \in Numbers : files'[m] # None => m = n \/ files[m] # None
  BY <1>1, <1>4, <1>5, <1>6, <1>7, WriteKeeps
<1>10. /\ build'.segs \in Seq(Numbers) /\ Opens(files', build'.segs)
       /\ AllDocs(files', build'.segs, <<>>) = AllDocs(files, s, b)
  BY <1>4, <1>5, <1>6, <1>8, Flushed
<1>11. Building' = D
  <2>1. <<>> \in Seq(Doc) /\ files' \in AllFiles
    BY <1>9 DEF KeepsReadable
  <2>2. AllDocs(files', build'.segs, <<>>) = DocsOf(files', build'.segs)
    BY <1>10, <2>1, Documents
  <2> QED BY <1>10, <2>2 DEF Building
<1>12. n + 1 \in Nat /\ \A m \in Numbers : files'[m] # None => m < n + 1
  <2>1. \A m \in Numbers : files[m] # None => m < n
    BY <1>1 DEF BuildInv, n
  <2> QED BY <1>1, <1>6, <1>9, <2>1, NumbersTaken
<1>13. ASSUME NEW x \in DOMAIN D
       PROVE  \/ x \in DOMAIN Building /\ D[x] = Building[x]
              \/ \E l \in DOMAIN b : x = <<Len(s) + 1, l>> /\ D[x] = b[l]
  <2>1. /\ DOMAIN D = AllLocs(files, s, b)
        /\ \A at \in LocsOf(files, s) : D[at] = DocOf(files, s, at)
        /\ \A l \in DOMAIN b : D[<<Len(s) + 1, l>>] = b[l]
    BY <1>4, <1>6, Documents
  <2>2. DOMAIN Building = LocsOf(files, s) /\ \A at \in LocsOf(files, s) : Building[at] = DocOf(files, s, at)
    BY DEF Building, DocsOf, s
  <2>3. x \in LocsOf(files, s) \/ \E l \in DOMAIN b : x = <<Len(s) + 1, l>>
    BY <2>1 DEF AllLocs
  <2> QED BY <2>1, <2>2, <2>3
<1> HIDE DEF D
<1>14. Sole(D, {})
  <2> SUFFICES ASSUME NEW x \in DOMAIN D, NEW y \in DOMAIN D, D[x].path = D[y].path PROVE x = y
    BY DEF Sole
  <2>1. \A a \in DOMAIN Building : Building[a].path \in build.seen
    BY <1>1 DEF BuildInv
  <2>2. CASE x \in DOMAIN Building /\ D[x] = Building[x] /\ y \in DOMAIN Building /\ D[y] = Building[y]
    BY <1>1, <2>2 DEF BuildInv, Sole
  <2>3. ASSUME NEW k \in DOMAIN b, x = <<Len(s) + 1, k>>, D[x] = b[k],
               NEW l \in DOMAIN b, y = <<Len(s) + 1, l>>, D[y] = b[l]
        PROVE  x = y
    <3>1. k = l
      BY <1>4, <2>3
    <3> QED BY <2>3, <3>1
  <2> QED BY <1>4, <1>13, <2>1, <2>2, <2>3
<1>15. \A x \in DOMAIN D : D[x].path \in build'.seen
  <2>1. \A a \in DOMAIN Building : Building[a].path \in build.seen
    BY <1>1 DEF BuildInv
  <2> QED BY <1>5, <1>13, <2>1
<1>16. BuildInv'
  <2>1. ASSUME manifest' # None, NEW i \in DOMAIN build'.segs, NEW j \in DOMAIN manifest'.segs
        PROVE  build'.segs[i] # manifest'.segs[j]
    <3>1. manifest' = manifest /\ manifest.segs \in Seq(Numbers) /\ Opens(files, manifest.segs)
      BY <1>1, <1>2, <2>1 DEF Types, Manifest, ManifestInv
    <3>2. files[manifest.segs[j]] # None
      BY <2>1, <3>1 DEF Opens
    <3>3. build'.segs[i] = n \/ (i \in DOMAIN s /\ build'.segs[i] = s[i])
      <4>1. i \in 1 .. Len(s) + 1
        BY <1>5, <1>6, <2>1 DEF Then
      <4> QED BY <1>5, <1>6, <4>1 DEF Then
    <3>4. CASE build'.segs[i] = n
      BY <1>7, <3>1, <3>2, <3>4
    <3>5. CASE i \in DOMAIN s /\ build'.segs[i] = s[i]
      BY <1>1, <2>1, <3>1, <3>5 DEF BuildInv, s
    <3> QED BY <3>3, <3>4, <3>5
  <2>2. \A m \in Numbers : files'[m] # None => m < build'.next
    BY <1>5, <1>12
  <2> QED BY <1>10, <1>11, <1>14, <1>15, <2>1, <2>2 DEF BuildInv
<1>18. MemoryInv'
  BY <1>1, <1>2, MemoryClosed
<1>19. ManifestInv'
  BY <1>1, <1>2, <1>9, ManifestKept
<1>20. Types'
  <2>1. build'.seen \in SUBSET Paths
    BY <1>1, <1>4, <1>5 DEF Build
  <2>2. build' \in Build
    BY <1>3, <1>5, <1>10, <1>12, <2>1 DEF Build
  <2> QED BY <1>1, <1>2, <1>9, <2>2 DEF Types, KeepsReadable
<1>21. ShapeInv'
  BY <1>1, <1>2 DEF ShapeInv, ToBuild
<1> QED BY <1>9, <1>16, <1>18, <1>19, <1>20, <1>21 DEF IInv

\* A build's segments make an exact index, whatever the one before it was.
LEMMA FromSegmentFilesStep == ASSUME IInv, FromSegmentFiles PROVE IInv'
<1>1. /\ Types /\ open = FALSE /\ job = None /\ build \in Build /\ build # None /\ BuildInv
      /\ lost = FALSE
  BY BuildFrame DEF IInv, FromSegmentFiles
<1>2. /\ open' = TRUE /\ segs' = build.segs /\ tombs' = {} /\ pending' = <<>> /\ pmap' = None
      /\ next' = BuildNext /\ build' = None /\ job' = [kind |-> "build", at |-> "manifest"]
      /\ UNCHANGED <<files, manifest, tombFile, saved, recovered, lost, short>>
  BY DEF FromSegmentFiles, disk
<1>3. build.segs \in Seq(Numbers) /\ build.next \in Nat /\ files \in AllFiles /\ <<>> \in Seq(Doc)
  BY <1>1 DEF Build, Types
<1>4. KeepsReadable
  BY <1>2, <1>3 DEF KeepsReadable
<1>5. next' \in Nat /\ \A n \in Numbers : files[n] # None => n < next'
  BY <1>1, <1>2, <1>3, AtLeastIsFresh DEF BuildNext
<1>6. Docs' = Building
  <2>1. AllDocs(files, build.segs, <<>>) = DocsOf(files, build.segs)
    BY <1>1, <1>3, Documents DEF BuildInv
  <2> QED BY <1>2, <2>1 DEF Docs, Building
<1>7. MemoryInv'
  <2>1. Sole(Docs, tombs)'
    <3>1. Sole(Building, {})
      BY <1>1 DEF BuildInv
    <3> QED BY <1>2, <1>6, <3>1 DEF Sole
  <2> QED BY <1>1, <1>2, <1>5, <2>1 DEF MemoryInv, BuildInv
<1>8. ManifestInv'
  BY <1>1, <1>2, <1>4, ManifestKept DEF IInv
<1>10. BuildInv'
  BY <1>2, NoBuild
<1>11. job' \in Job /\ job' # None /\ job'.at = "manifest" /\ job'.kind = "build"
  BY <1>2, Apart DEF Job
<1>12. Types'
  BY <1>1, <1>2, <1>3, <1>5, <1>11 DEF Types
<1>13. ShapeInv'
  BY <1>1, <1>2, <1>11 DEF ShapeInv
<1> QED BY <1>7, <1>8, <1>10, <1>12, <1>13 DEF IInv

\* A cancelled build deletes only its own files: none that the manifest names.
LEMMA CancelBuildStep ==
  ASSUME IInv, CancelBuild
  PROVE  IInv' /\ \A n \in Numbers : files'[n] \in {files[n], None}
<1>1. /\ Types /\ open = FALSE /\ segs = <<>> /\ tombs = {} /\ pending = <<>> /\ pmap = None
      /\ job = None /\ build \in Build /\ build # None /\ BuildInv /\ ManifestInv
      /\ lost = FALSE
  BY BuildFrame DEF IInv, CancelBuild
<1>2. /\ build' = None
      /\ UNCHANGED <<open, segs, tombs, pending, pmap, next, job, manifest, tombFile, saved, recovered, lost, short>>
  BY DEF CancelBuild, mem
<1>3. PICK gone \in SUBSET {build.segs[i] : i \in DOMAIN build.segs} :
        files' = [n \in Numbers |-> IF n \in gone THEN None ELSE files[n]]
  BY DEF CancelBuild
<1>4. files' \in AllFiles /\ \A n \in Numbers : files'[n] \in {files[n], None}
  BY <1>1, <1>3 DEF Types, AllFiles
<1>5. MemoryInv'
  BY <1>1, <1>2, MemoryClosed
<1>6. ManifestInv'
  <2> SUFFICES ASSUME manifest # None PROVE ManifestInv'
    BY <1>2 DEF ManifestInv
  <2>1. manifest.segs \in Seq(Numbers) /\ Opens(files, manifest.segs) /\ files \in AllFiles
    BY <1>1 DEF Types, Manifest, ManifestInv
  <2>2. \A i \in DOMAIN manifest.segs : files'[manifest.segs[i]] = files[manifest.segs[i]]
    <3> SUFFICES ASSUME NEW i \in DOMAIN manifest.segs
                 PROVE  files'[manifest.segs[i]] = files[manifest.segs[i]]
      OBVIOUS
    <3>1. manifest.segs[i] \notin gone
      BY <1>1 DEF BuildInv
    <3>2. manifest.segs[i] \in Numbers
      BY <2>1
    <3> QED BY <1>3, <3>1, <3>2
  <2>3. /\ Opens(files', manifest.segs)
        /\ DocsOf(files', manifest.segs) = DocsOf(files, manifest.segs)
    BY <2>1, <2>2, Kept
  <2>4. LocsOf(files', manifest.segs) = LocsOf(files, manifest.segs)
    BY <2>3 DEF DocsOf
  <2> QED BY <1>1, <1>2, <2>3, <2>4 DEF ManifestInv, Committed
<1>8. BuildInv'
  BY <1>2, NoBuild
<1>9. Types' /\ ShapeInv'
  BY <1>1, <1>2, <1>4 DEF Types, ShapeInv, ToBuild
<1> QED BY <1>4, <1>5, <1>6, <1>8, <1>9 DEF IInv
-----------------------------------------------------------------------------
(* The end of the process, and a load *)

\* A crash loses only what is in memory.
LEMMA CrashStep == ASSUME IInv, Crash PROVE IInv'
<1>1. /\ open' = FALSE /\ segs' = <<>> /\ tombs' = {} /\ pending' = <<>> /\ pmap' = None /\ next' = 0
      /\ job' = None /\ build' = None /\ lost' = FALSE
      /\ UNCHANGED <<files, manifest, tombFile, saved, recovered, short>>
  BY DEF Crash, disk
<1>2. next' \in Nat
  BY <1>1
<1> QED BY <1>1, <1>2, ClosedStep

\* A manifest lost with its writer takes the commit with it, and no file.
LEMMA ManifestLostStep == ASSUME IInv, ManifestLost PROVE IInv'
<1>1. Types /\ build = None
  BY JobFrame DEF ManifestLost, IInv
<1>2. /\ manifest' = None
      /\ open' = FALSE /\ segs' = <<>> /\ tombs' = {} /\ pending' = <<>> /\ pmap' = None /\ next' = 0
      /\ job' = None /\ lost' = FALSE /\ UNCHANGED <<build, files, tombFile, saved, recovered, short>>
  BY DEF ManifestLost
<1>3. MemoryInv'
  BY <1>2, MemoryClosed
<1>4. ManifestInv'
  BY <1>2 DEF ManifestInv
<1>6. BuildInv'
  BY <1>1, <1>2, NoBuild
<1>7. Types'
  <2>1. <<>> \in Seq(Numbers) /\ <<>> \in Seq(Doc) /\ 0 \in Nat
    OBVIOUS
  <2> QED BY <1>1, <1>2, <2>1 DEF Types
<1>8. ShapeInv'
  BY <1>2 DEF ShapeInv, ToBuild
<1> QED BY <1>3, <1>4, <1>6, <1>7, <1>8 DEF IInv

\* What a load finds: no documents in memory, and a number above every file.
LEMMA LoadFrame ==
  ASSUME IInv, ~open, build = None
  PROVE  /\ Types /\ ManifestInv /\ segs = <<>> /\ tombs = {} /\ pending = <<>> /\ pmap = None
         /\ job = None /\ lost = FALSE
         /\ LoadedNext \in Nat /\ \A n \in Numbers : files[n] # None => n < LoadedNext
         /\ manifest # None => /\ manifest.segs \in Seq(Numbers) /\ manifest.tombs \in SUBSET Loc
                               /\ manifest.next \in Nat
<1>1. /\ Types /\ ManifestInv /\ segs = <<>> /\ tombs = {} /\ pending = <<>> /\ pmap = None
      /\ job = None /\ lost = FALSE
  BY DEF IInv, ShapeInv, Types
<1>2. manifest # None => /\ manifest.segs \in Seq(Numbers) /\ manifest.tombs \in SUBSET Loc
                         /\ manifest.next \in Nat
  BY <1>1 DEF Types, Manifest
<1> DEFINE k == IF manifest = None THEN 0 ELSE manifest.next
<1>3. k \in Nat
  BY <1>2
<1> HIDE DEF k
<1>4. LoadedNext = AtLeast(k, NextSegmentNumber)
  BY DEF LoadedNext, k
<1>5. LoadedNext \in Nat /\ \A n \in Numbers : files[n] # None => n < LoadedNext
  BY <1>1, <1>3, <1>4, AtLeastIsFresh
<1> QED BY <1>1, <1>2, <1>5

\* A load by the manifest opens exactly what was committed.
LEMMA OpenStep ==
  ASSUME IInv, Open
  PROVE  IInv' /\ Live(Docs, tombs)' = saved
<1>1. ~open /\ build = None /\ manifest # None
  BY DEF Open, Names
<1>2. /\ Types /\ ManifestInv /\ pending = <<>> /\ pmap = None /\ job = None /\ lost = FALSE
      /\ LoadedNext \in Nat /\ \A n \in Numbers : files[n] # None => n < LoadedNext
      /\ manifest.segs \in Seq(Numbers) /\ manifest.tombs \in SUBSET Loc
  BY <1>1, LoadFrame
<1>3. /\ open' = TRUE /\ segs' = manifest.segs /\ tombs' = manifest.tombs /\ next' = LoadedNext
      /\ UNCHANGED <<pending, pmap, job, build, files, manifest, tombFile, saved, recovered, lost, short>>
  BY DEF Open, disk
<1>4. Docs' = Committed
  <2>1. files \in AllFiles /\ Opens(files, manifest.segs) /\ pending \in Seq(Doc)
    BY <1>1, <1>2 DEF Types, ManifestInv
  <2>2. AllDocs(files, manifest.segs, pending) = DocsOf(files, manifest.segs)
    BY <1>2, <2>1, Documents
  <2> QED BY <1>3, <2>2 DEF Docs, Committed
<1>5. KeepsReadable
  BY <1>2, <1>3 DEF KeepsReadable, Types
<1>6. MemoryInv'
  <2>1. ~ToBuild'
    BY <1>2, <1>3 DEF ToBuild
  <2>2. Opens(files', segs')
    BY <1>1, <1>2, <1>3 DEF ManifestInv
  <2>3. /\ ~recovered => Sole(Docs', tombs')
        /\ Sure' => tombs' \subseteq LocsOf(files', segs')
    BY <1>1, <1>2, <1>3, <1>4 DEF ManifestInv, Sure
  <2> QED BY <1>2, <1>3, <2>1, <2>2, <2>3 DEF MemoryInv
<1>7. ManifestInv'
  BY <1>2, <1>3, <1>5, ManifestKept
<1>9. BuildInv'
  BY <1>1, <1>3, NoBuild
<1>10. Types'
  BY <1>2, <1>3 DEF Types
<1>11. ShapeInv'
  BY <1>1, <1>2, <1>3 DEF ShapeInv, ToBuild
<1>12. Live(Docs, tombs)' = saved
  <2>1. Live(Committed, manifest.tombs) = saved
    BY <1>1, <1>2 DEF ManifestInv
  <2> QED BY <1>3, <1>4, <2>1 DEF Live
<1> QED BY <1>6, <1>7, <1>9, <1>10, <1>11, <1>12 DEF IInv

\* A load without a manifest: of nothing when nothing is found, and inexact otherwise.
LEMMA RecoverStep ==
  ASSUME IInv, Recover
  PROVE  /\ IInv'
         /\ Readable = {} => Live(Docs, tombs)' = {}
         /\ manifest # None => saved = {}
<1>1. ~open /\ build = None /\ (manifest # None => manifest.segs = <<>>)
  BY DEF Recover, Names
<1>2. /\ Types /\ ManifestInv /\ pending = <<>> /\ pmap = None /\ job = None /\ lost = FALSE
      /\ LoadedNext \in Nat /\ \A n \in Numbers : files[n] # None => n < LoadedNext
      /\ manifest # None => manifest.tombs \in SUBSET Loc
  BY <1>1, LoadFrame
<1>3. /\ open' = TRUE /\ segs' \in InOrder(Readable) /\ tombs' = LoadedTombs /\ next' = LoadedNext
      /\ recovered' = (recovered \/ Readable # {} \/ LoadedTombs # {})
      /\ UNCHANGED <<pending, pmap, job, build, files, manifest, tombFile, saved, lost, short>>
  BY DEF Recover, disk
<1> DEFINE k == Cardinality(Readable)
<1>4. Readable \subseteq Numbers /\ IsFiniteSet(Readable) /\ k \in Nat /\ (k = 0 <=> Readable = {})
  <2>1. 0 \in Int /\ MaxSegment \in Int
    BY Apart
  <2>2. IsFiniteSet(0 .. MaxSegment)
    BY <2>1, FS_Interval
  <2>3. IsFiniteSet(Numbers) /\ Readable \subseteq Numbers
    BY <2>2 DEF Numbers, Readable
  <2>4. IsFiniteSet(Readable)
    BY <2>3, FS_Subset
  <2>5. k \in Nat
    BY <2>4, FS_CardinalityType
  <2>6. k = 0 <=> Readable = {}
    BY <2>4, FS_EmptySet
  <2> QED BY <2>3, <2>4, <2>5, <2>6
<1> HIDE DEF k
<1>5. segs' \in [1 .. k -> Readable]
  BY <1>3 DEF InOrder, k
<1>6. segs' \in Seq(Numbers) /\ DOMAIN segs' = 1 .. k /\ Len(segs') = k
  <2>1. segs' \in [1 .. k -> Numbers]
    BY <1>4, <1>5
  <2> QED BY <1>4, <2>1
<1>7. Opens(files', segs')
  <2>1. \A i \in DOMAIN segs' : segs'[i] \in Readable
    BY <1>5, <1>6
  <2> QED BY <1>3, <2>1 DEF Opens, Readable
<1>8. tombs' \in SUBSET Loc
  BY <1>2, <1>3 DEF LoadedTombs, Types
<1>10. Readable = {} => segs' = <<>> /\ DOMAIN Docs' = {}
  <2> SUFFICES ASSUME Readable = {} PROVE segs' = <<>> /\ DOMAIN Docs' = {}
    OBVIOUS
  <2>1. segs' = <<>>
    BY <1>4, <1>6
  <2>2. AllLocs(files', segs', pending') = {}
    BY <1>2, <1>3, <2>1 DEF AllLocs, LocsOf
  <2> QED BY <2>1, <2>2 DEF Docs, AllDocs
<1>12. KeepsReadable
  BY <1>2, <1>3 DEF KeepsReadable, Types
<1>13. MemoryInv'
  <2>1. ~ToBuild'
    BY <1>2, <1>3 DEF ToBuild
  <2>2. ~recovered' => tombs' = {} /\ Sole(Docs', tombs')
    BY <1>3, <1>10 DEF Sole
  <2> QED BY <1>2, <1>3, <1>7, <2>1, <2>2 DEF MemoryInv, Sure
<1>14. ManifestInv'
  BY <1>2, <1>3, <1>12, ManifestKept
<1>16. BuildInv'
  BY <1>1, <1>3, NoBuild
<1>17. Types'
  BY <1>2, <1>3, <1>6, <1>8 DEF Types
<1>18. ShapeInv'
  BY <1>1, <1>2, <1>3 DEF ShapeInv, ToBuild
<1>19. ASSUME manifest # None PROVE saved = {}
  <2>1. DOMAIN Committed = {}
    BY <1>1, <1>19 DEF Committed, DocsOf, LocsOf
  <2> QED BY <1>2, <1>19, <2>1 DEF ManifestInv, Live
<1>20. Readable = {} => Live(Docs, tombs)' = {}
  BY <1>10 DEF Live
<1> QED BY <1>13, <1>14, <1>16, <1>17, <1>18, <1>19, <1>20 DEF IInv
-----------------------------------------------------------------------------
(* The invariant *)

\* Nothing is indexed at first.
LEMMA InitInv == Init => IInv
<1> SUFFICES ASSUME Init PROVE IInv
  OBVIOUS
<1>1. Types
  <2>1. files \in AllFiles
    BY DEF Init, AllFiles
  <2>2. <<>> \in Seq(Numbers) /\ <<>> \in Seq(Doc) /\ 0 \in Nat
    OBVIOUS
  <2> QED BY <2>1, <2>2 DEF Init, Types
<1>2. ShapeInv
  BY DEF Init, ShapeInv, ToBuild
<1>3. MemoryInv
  <2>1. AllLocs(files, segs, pending) = {}
    BY DEF Init, AllLocs, LocsOf
  <2>2. Sole(Docs, tombs)
    BY <2>1 DEF Docs, AllDocs, Sole
  <2> QED BY <2>2 DEF Init, MemoryInv, Opens
<1>4. ManifestInv /\ BuildInv
  BY DEF Init, ManifestInv, BuildInv
<1> QED BY <1>1, <1>2, <1>3, <1>4 DEF IInv

\* What a step may do to a file.
FilesStep == \A n \in Numbers : n \in Readable => files'[n] \in {files[n], None}

\* A step that keeps the readable files may only add or tear others.
LEMMA KeptFilesStep == (Types /\ (KeepsReadable \/ UNCHANGED files)) => FilesStep
BY DEF FilesStep, KeepsReadable, Readable

\* Every step keeps the invariant, and every readable file or deletes it.
LEMMA StepInv == IInv /\ [Next]_vars => IInv' /\ FilesStep
<1> SUFFICES ASSUME IInv, [Next]_vars PROVE IInv' /\ FilesStep
  OBVIOUS
<1>1. Types
  BY DEF IInv
<1>2. ASSUME NEW p \in Paths, RemovePath(p) PROVE IInv' /\ FilesStep
  BY <1>1, <1>2, RemoveStep, KeptFilesStep
<1>3. ASSUME NEW p \in Paths, NEW c \in Contents, AddDocument(p, c) PROVE IInv' /\ FilesStep
  BY <1>1, <1>3, AddStep, KeptFilesStep
<1>4. CASE FlushFails
  BY <1>1, <1>4, FlushFailsStep, KeptFilesStep
<1>23. CASE FlushLoses
  BY <1>1, <1>23, FlushLosesStep, KeptFilesStep
<1>5. CASE SearchFlush \/ Flush \/ Compact
  BY <1>1, <1>5, FlushStep, KeptFilesStep
<1>6. CASE BuildPathMap \/ ReleasePathMapIfIdle
  <2>1. UNCHANGED files
    BY <1>6 DEF BuildPathMap, ReleasePathMapIfIdle
  <2> QED BY <1>1, <1>6, <2>1, PathMapStep, KeptFilesStep
<1>7. CASE AlreadyCompact
  BY <1>1, <1>7, AlreadyCompactStep, KeptFilesStep DEF AlreadyCompact, disk
<1>8. CASE Merge
  BY <1>1, <1>8, MergeStep, KeptFilesStep
<1>9. CASE MergeFails
  BY <1>1, <1>9, MergeFailsStep, KeptFilesStep
<1>10. CASE SaveManifest
  BY <1>1, <1>10, SaveManifestStep, KeptFilesStep DEF SaveManifest
<1>11. CASE SaveTombstones
  BY <1>1, <1>11, SaveTombstonesStep, KeptFilesStep DEF SaveTombstones
<1>12. CASE SaveFails
  BY <1>1, <1>12, SaveFailsStep, KeptFilesStep DEF SaveFails, disk
<1>13. CASE CleanupOrphans
  BY <1>13, CleanupOrphansStep DEF FilesStep
<1>14. CASE BuildStarts
  BY <1>1, <1>14, BuildStartsStep, KeptFilesStep DEF BuildStarts, disk
<1>15. CASE BuildWrites
  BY <1>1, <1>15, BuildWritesStep, KeptFilesStep
<1>16. CASE FromSegmentFiles
  BY <1>1, <1>16, FromSegmentFilesStep, KeptFilesStep DEF FromSegmentFiles, disk
<1>17. CASE CancelBuild
  BY <1>17, CancelBuildStep DEF FilesStep
<1>18. CASE Crash
  BY <1>1, <1>18, CrashStep, KeptFilesStep DEF Crash, disk
<1>19. CASE Open
  BY <1>1, <1>19, OpenStep, KeptFilesStep DEF Open, disk
<1>20. CASE Recover
  BY <1>1, <1>20, RecoverStep, KeptFilesStep DEF Recover, disk
<1>21. CASE ManifestLost
  BY <1>1, <1>21, ManifestLostStep, KeptFilesStep DEF ManifestLost
<1>22. CASE UNCHANGED vars
  <2>1. UNCHANGED <<open, segs, tombs, pending, pmap, next, job, build, files, manifest,
                    tombFile, saved, recovered, lost, short>>
    BY <1>22 DEF vars
  <2>2. IInv'
    BY <2>1 DEF IInv, Types, ShapeInv, MemoryInv, ManifestInv, BuildInv, ManifestNow,
                ToBuild, Sure, Docs, Committed, Building
  <2> QED BY <1>1, <2>1, <2>2, KeptFilesStep
<1> QED BY <1>2, <1>3, <1>4, <1>5, <1>6, <1>7, <1>8, <1>9, <1>10, <1>11, <1>12, <1>13, <1>14,
           <1>15, <1>16, <1>17, <1>18, <1>19, <1>20, <1>21, <1>22, <1>23 DEF Next

\* The inductive invariant holds in every state.
THEOREM Invariance == Spec => []IInv
<1>1. Init => IInv
  BY InitInv
<1>2. IInv /\ [Next]_vars => IInv'
  BY StepInv
<1> QED BY <1>1, <1>2, PTL DEF Spec
-----------------------------------------------------------------------------
(* Theorems *)

\* The state keeps its types, and no tombstone of a sure index is of a document that
\* is not there.
THEOREM TypeCorrect == Spec => []TypeOK
<1>1. IInv => TypeOK
  <2> SUFFICES ASSUME IInv PROVE TypeOK
    OBVIOUS
  <2>1. Types /\ MemoryInv
    BY DEF IInv
  <2>2. LocsIn(segs) = LocsOf(files, segs)
    BY <2>1, Spelled
  <2>3. Sure => tombs \subseteq LocsIn(segs)
    BY <2>1, <2>2 DEF MemoryInv
  <2> QED BY <2>1, <2>3 DEF TypeOK, Types, AllFiles
<1> QED BY <1>1, Invariance, PTL

\* The count that the server reports, from the segments and the tombstones in them.
LEMMA CountIsExact ==
  ASSUME Types, MemoryInv, Sure
  PROVE  DocumentCount = Cardinality(LiveLocs)
<1>1. /\ LocsIn(segs) = LocsOf(files, segs) /\ Locs = AllLocs(files, segs, pending)
  BY Spelled
<1>2. /\ files \in AllFiles /\ segs \in Seq(Numbers) /\ pending \in Seq(Doc) /\ Opens(files, segs)
      /\ tombs \subseteq LocsIn(segs)
  BY <1>1 DEF Types, MemoryInv
<1>3. /\ IsFiniteSet(Locs) /\ Cardinality(Locs) = Cardinality(LocsIn(segs)) + Len(pending)
  BY <1>1, <1>2, DocumentsFinite
<1>4. IsFiniteSet(LocsIn(segs))
  BY <1>1, <1>2, LocsFinite
<1>5. {at \in tombs : at[1] <= Len(segs)} = tombs
  <2>1. \A at \in LocsIn(segs) : at[1] \in 1 .. Len(segs) /\ Len(segs) \in Nat
    BY <1>1, <1>2, Locations
  <2>2. \A at \in tombs : at[1] <= Len(segs)
    BY <1>2, <2>1
  <2> QED BY <2>2
<1>6. tombs \subseteq Locs
  BY <1>1, <1>2 DEF Locs
<1>7. Cardinality(Locs \ tombs) = Cardinality(Locs) - Cardinality(Locs \cap tombs)
  <2>1. IsFiniteSet(tombs)
    BY <1>2, <1>4, FS_Subset
  <2> QED BY <1>3, <2>1, FS_Difference
<1>8. Locs \cap tombs = tombs
  BY <1>6
<1>9. /\ Cardinality(LocsIn(segs)) \in Nat /\ Cardinality(tombs) \in Nat /\ Len(pending) \in Nat
  <2>1. IsFiniteSet(tombs)
    BY <1>2, <1>4, FS_Subset
  <2> QED BY <1>2, <1>4, <2>1, FS_CardinalityType
<1>10. DocumentCount = Cardinality(LocsIn(segs)) - Cardinality(tombs) + Len(pending)
  BY <1>5 DEF DocumentCount
<1>11. Cardinality(LiveLocs) = Cardinality(LocsIn(segs)) + Len(pending) - Cardinality(tombs)
  <2>1. Cardinality(LiveLocs) = Cardinality(Locs) - Cardinality(tombs)
    BY <1>7, <1>8, Zenon DEF LiveLocs
  <2> QED BY <1>3, <1>9, <2>1
<1> HIDE DEF DocumentCount, LiveLocs
<1> QED BY <1>9, <1>10, <1>11

\* An edited file never matches with its old content, whatever was saved, compacted,
\* built, interrupted or lost before; and the path map is exact and the count right
\* unless a written buffer could not be opened.
THEOREM LiveDocumentsAreExact == Spec => []LiveIsExact
<1>1. IInv => LiveIsExact
  <2> SUFFICES ASSUME IInv PROVE LiveIsExact
    OBVIOUS
  <2>1. Types /\ MemoryInv /\ ShapeInv
    BY DEF IInv
  <2>2. pending # <<>> => pmap # None
    BY <2>1 DEF ShapeInv
  <2>3. ~recovered => OneLiveCopy
    BY <2>1, Spelled DEF MemoryInv
  <2>5. Sure /\ pmap # None => MapIsExact
    BY <2>1, Spelled DEF MemoryInv
  <2>4. Sure => DocumentCount = Cardinality(LiveLocs)
    BY <2>1, CountIsExact
  <2> QED BY <2>2, <2>3, <2>4, <2>5 DEF LiveIsExact
<1> QED BY <1>1, Invariance, PTL

\* Killed between any two steps, the index that loads has what was committed, and it
\* and the manifest name only files that open.
THEOREM CommittedSurvives == Spec => []CommittedIsLoaded
<1>1. IInv => CommittedIsLoaded
  <2> SUFFICES ASSUME IInv PROVE CommittedIsLoaded
    OBVIOUS
  <2>1. Types /\ MemoryInv /\ ManifestInv
    BY DEF IInv
  <2>2. ASSUME NEW s \in Seq(Numbers), Opens(files, s) PROVE \A i \in DOMAIN s : s[i] \in Readable
    BY <2>2 DEF Opens, Readable
  <2>3. manifest # None => manifest.segs \in Seq(Numbers) /\ Opens(files, manifest.segs)
    BY <2>1 DEF Types, Manifest, ManifestInv
  <2>4. segs \in Seq(Numbers) /\ Opens(files, segs)
    BY <2>1 DEF Types, MemoryInv
  <2>5. NamedAreReadable
    BY <2>2, <2>3, <2>4 DEF NamedAreReadable
  <2>6. ASSUME manifest # None PROVE LiveIn(manifest.segs, manifest.tombs) = saved
    <3>1. Live(Committed, manifest.tombs) = saved
      BY <2>1, <2>6 DEF ManifestInv
    <3>2. /\ LocsIn(manifest.segs) = LocsOf(files, manifest.segs)
          /\ \A at : DocIn(manifest.segs, at) = DocOf(files, manifest.segs, at)
      BY <2>1, Spelled
    <3>3. /\ DOMAIN Committed = LocsIn(manifest.segs)
          /\ \A at \in LocsIn(manifest.segs) : Committed[at] = DocIn(manifest.segs, at)
      BY <3>2 DEF Committed, DocsOf
    <3> QED BY <3>1, <3>3 DEF Live, LiveIn
  <2> QED BY <2>5, <2>6 DEF CommittedIsLoaded, Names
<1> QED BY <1>1, Invariance, PTL

\* A segment file that can be read keeps its documents until it is deleted: readers
\* of an older manifest see what it named or miss the file.
THEOREM SegmentsStay == Spec => SegmentsAreImmutable
<1>1. IInv /\ [Next]_vars => [\A n \in Numbers : n \in Readable => files'[n] \in {files[n], None}]_vars
  BY StepInv DEF FilesStep
<1> QED BY <1>1, Invariance, PTL DEF Spec, SegmentsAreImmutable
-----------------------------------------------------------------------------
(* The refinement of DocumentMap *)

\* The map of documents is of paths to contents.
LEMMA MapOfType ==
  ASSUME NEW docs \in SUBSET Doc
  PROVE  MapOf(docs) \in [Paths -> Contents \cup {None}]
<1>1. ASSUME NEW p \in Paths, \E d \in docs : d.path = p
      PROVE  (CHOOSE d \in docs : d.path = p).content \in Contents
  <2>1. (CHOOSE d \in docs : d.path = p) \in docs
    BY <1>1
  <2>2. \A d \in docs : d.content \in Contents
    BY DEF Doc
  <2> QED BY <2>1, <2>2
<1> QED BY <1>1 DEF MapOf

\* No document makes the empty map.
LEMMA MapOfNothing == MapOf({}) = NoMap
BY DEF MapOf, NoMap

\* A path with one document has its content.
LEMMA MapOfOne ==
  ASSUME NEW docs, NEW p \in Paths, NEW d \in docs, d.path = p,
         \A x \in docs : x.path = p => x = d
  PROVE  MapOf(docs)[p] = d.content
<1>1. (CHOOSE x \in docs : x.path = p) = d
  OBVIOUS
<1> QED BY <1>1 DEF MapOf

\* The map is of each path's own documents.
LEMMA MapOfSame ==
  ASSUME NEW docs, NEW es, NEW p \in Paths,
         \A x : (x \in docs /\ x.path = p) <=> (x \in es /\ x.path = p)
  PROVE  MapOf(docs)[p] = MapOf(es)[p]
<1>1. (\E x \in docs : x.path = p) <=> (\E x \in es : x.path = p)
  OBVIOUS
<1>2. (CHOOSE x \in docs : x.path = p) = (CHOOSE x \in es : x.path = p)
  <2>1. \A x : (x \in docs /\ x.path = p) <=> (x \in es /\ x.path = p)
    OBVIOUS
  <2> QED BY <2>1
<1> QED BY <1>1, <1>2 DEF MapOf

\* A document of a path that has none sets the path's content.
LEMMA MapOfPut ==
  ASSUME NEW docs \in SUBSET Doc, NEW p \in Paths, NEW c \in Contents,
         \A x \in docs : x.path # p
  PROVE  /\ MapOf(docs)[p] = None
         /\ MapOf(docs \cup {[path |-> p, content |-> c]}) = [MapOf(docs) EXCEPT ![p] = c]
<1> DEFINE d == [path |-> p, content |-> c]
           es == docs \cup {d}
<1>1. MapOf(docs)[p] = None
  BY DEF MapOf
<1>2. d \in Doc /\ d.path = p /\ d.content = c
  BY DEF Doc
<1>3. es \in SUBSET Doc
  BY <1>2
<1>4. MapOf(es)[p] = c
  <2> HIDE DEF d
  <2>1. d \in es /\ \A x \in es : x.path = p => x = d
    OBVIOUS
  <2> HIDE DEF es
  <2> QED BY <1>2, <2>1, MapOfOne
<1>5. ASSUME NEW q \in Paths, q # p PROVE MapOf(es)[q] = MapOf(docs)[q]
  <2>1. \A x : (x \in es /\ x.path = q) <=> (x \in docs /\ x.path = q)
    BY <1>2, <1>5
  <2> HIDE DEF es
  <2> QED BY <2>1, MapOfSame
<1>6. MapOf(es) \in [Paths -> Contents \cup {None}] /\ MapOf(docs) \in [Paths -> Contents \cup {None}]
  BY <1>3, MapOfType
<1> HIDE DEF es
<1>7. MapOf(es) = [MapOf(docs) EXCEPT ![p] = c]
  BY <1>4, <1>5, <1>6
<1> QED BY <1>1, <1>7 DEF es

\* Without a path's documents the path has no content.
LEMMA MapOfDrop ==
  ASSUME NEW docs \in SUBSET Doc, NEW es \in SUBSET Doc, NEW p \in Paths,
         \A x : x \in es <=> x \in docs /\ x.path # p
  PROVE  MapOf(es) = [MapOf(docs) EXCEPT ![p] = None]
<1>1. MapOf(es)[p] = None
  BY DEF MapOf
<1>2. ASSUME NEW q \in Paths, q # p PROVE MapOf(es)[q] = MapOf(docs)[q]
  <2>1. \A x : (x \in es /\ x.path = q) <=> (x \in docs /\ x.path = q)
    BY <1>2
  <2> QED BY <2>1, MapOfSame
<1>3. MapOf(es) \in [Paths -> Contents \cup {None}] /\ MapOf(docs) \in [Paths -> Contents \cup {None}]
  BY MapOfType
<1> QED BY <1>1, <1>2, <1>3

\* A map is not the doubt about one.
LEMMA MapIsNotNone ==
  ASSUME NEW docs \in SUBSET Doc
  PROVE  MapOf(docs) # None
<1>1. MapOf(docs) \in [Paths -> Contents \cup {None}]
  BY MapOfType
<1> QED BY <1>1, Apart

\* The abstract state.
AbstractView ==
  IF ~Exact THEN NoMap
  ELSE IF ~Serving THEN MapOf(saved)
  ELSE IF lost THEN None ELSE MapOf(View)
AbstractCommitted == IF ~Exact THEN NoMap ELSE MapOf(saved)

\* A step that keeps the abstract state is a stutter of the map.
LEMMA AbstractVars ==
  ASSUME UNCHANGED <<Exact, AbstractView, AbstractCommitted>>
  PROVE  UNCHANGED Abstract!vars
BY Zenon DEF Abstract!vars, AbstractView, AbstractCommitted

\* Setting one path's content is the map's Put.
LEMMA AbstractPut ==
  ASSUME NEW p \in Paths, NEW c \in Contents, Exact, AbstractView # None, AbstractView[p] = None,
         AbstractView' = [AbstractView EXCEPT ![p] = c], UNCHANGED <<Exact, AbstractCommitted>>
  PROVE  Abstract!Next
<1>1. Abstract!Put(p, c)
  BY Zenon DEF Abstract!Put, AbstractView, AbstractCommitted
<1> QED BY <1>1 DEF Abstract!Next

\* Clearing one path is the map's Drop.
LEMMA AbstractDrop ==
  ASSUME NEW p \in Paths, Exact, AbstractView # None,
         AbstractView' = [AbstractView EXCEPT ![p] = None], UNCHANGED <<Exact, AbstractCommitted>>
  PROVE  Abstract!Next
<1>1. Abstract!Drop(p)
  BY Zenon DEF Abstract!Drop, AbstractView, AbstractCommitted
<1> QED BY <1>1 DEF Abstract!Next

\* Committing what is served is the map's Commit.
LEMMA AbstractCommit ==
  ASSUME Exact, AbstractView # None, AbstractCommitted' = AbstractView, UNCHANGED <<Exact, AbstractView>>
  PROVE  Abstract!Next
<1>1. Abstract!Commit
  BY Zenon DEF Abstract!Commit, AbstractView, AbstractCommitted
<1> QED BY <1>1 DEF Abstract!Next

\* Going back to the commit is the map's Revert.
LEMMA AbstractRevert ==
  ASSUME Exact, AbstractView' = AbstractCommitted, UNCHANGED <<Exact, AbstractCommitted>>
  PROVE  Abstract!Next
<1>1. Abstract!Revert
  BY Zenon DEF Abstract!Revert, AbstractView, AbstractCommitted
<1> QED BY <1>1 DEF Abstract!Next

\* A new map, committed and served at once, is the map's Replace or Rebuild.
LEMMA AbstractBuild ==
  ASSUME Exact', AbstractView' \in [Paths -> Contents \cup {None}], AbstractCommitted' = AbstractView'
  PROVE  Abstract!Next
<1>1. AbstractView' \in Abstract!Maps
  BY DEF Abstract!Maps
<1>2. CASE Exact
  <2>1. Abstract!Replace
    BY <1>1, <1>2, Zenon DEF Abstract!Replace, AbstractView, AbstractCommitted
  <2> QED BY <2>1 DEF Abstract!Next
<1>3. CASE ~Exact
  <2>1. Abstract!Rebuild
    BY <1>1, <1>3, Zenon DEF Abstract!Rebuild, AbstractView, AbstractCommitted
  <2> QED BY <2>1 DEF Abstract!Next
<1> QED BY <1>2, <1>3

\* Losing edits from the served map is the map's Slip.
LEMMA AbstractSlip ==
  ASSUME Exact, "open" \in Faults, AbstractView' = None, UNCHANGED <<Exact, AbstractCommitted>>
  PROVE  Abstract!Next
<1>1. Abstract!Slip
  BY Zenon DEF Abstract!Slip, AbstractView, AbstractCommitted
<1> QED BY <1>1 DEF Abstract!Next

\* Giving up an exact map is the map's Recover, Lose or CommitInDoubt.
LEMMA AbstractLoss ==
  ASSUME Exact, ~Exact', AbstractView' = NoMap, AbstractCommitted' = NoMap,
         AbstractCommitted = NoMap \/ "lost" \in Faults \/ AbstractView = None
  PROVE  Abstract!Next
<1>1. NoMap = Abstract!Empty
  BY DEF NoMap, Abstract!Empty
<1>4. Exact' = FALSE
  BY SMT DEF Exact
<1>2. CASE AbstractCommitted = NoMap
  <2>1. Abstract!Recover
    BY <1>1, <1>2, <1>4, Zenon DEF Abstract!Recover, AbstractView, AbstractCommitted
  <2> QED BY <2>1 DEF Abstract!Next
<1>3. CASE "lost" \in Faults
  <2>1. Abstract!Lose
    BY <1>1, <1>3, <1>4, Zenon DEF Abstract!Lose, AbstractView, AbstractCommitted
  <2> QED BY <2>1 DEF Abstract!Next
<1>5. CASE AbstractView = None
  <2>1. Abstract!CommitInDoubt
    BY <1>1, <1>4, <1>5, Zenon DEF Abstract!CommitInDoubt, AbstractView, AbstractCommitted
  <2> QED BY <2>1 DEF Abstract!Next
<1> QED BY <1>2, <1>3, <1>5

\* A step that commits nothing and keeps the live documents of a served index.
LEMMA QuietStep ==
  ASSUME IInv, IInv', UNCHANGED <<manifest, saved, recovered, lost, short>>, Serving, Serving',
         Live(Docs, tombs)' = Live(Docs, tombs)
  PROVE  UNCHANGED Abstract!vars
<1>1. View = Live(Docs, tombs) /\ View' = Live(Docs, tombs)'
  BY Spelled, SpelledNext DEF IInv
<1>2. Exact' = Exact
  BY DEF Exact
<1>3. AbstractCommitted' = AbstractCommitted
  BY <1>2 DEF AbstractCommitted
<1>4. View' = View
  BY <1>1
<1>5. AbstractView' = AbstractView
  BY <1>2, <1>4 DEF AbstractView
<1> QED BY <1>2, <1>3, <1>5, AbstractVars

\* A step after which no index is served: the documents are back at the last commit.
LEMMA AsideStep ==
  ASSUME UNCHANGED <<manifest, saved, recovered, short>>, ~Serving'
  PROVE  [Abstract!Next]_(Abstract!vars)
<1>1. Exact' = Exact
  BY DEF Exact
<1>2. AbstractCommitted' = AbstractCommitted
  BY <1>1 DEF AbstractCommitted
<1>3. AbstractView' = AbstractCommitted'
  BY DEF AbstractView, AbstractCommitted
<1>4. CASE Exact
  BY <1>1, <1>2, <1>3, <1>4, AbstractRevert
<1>5. CASE ~Exact
  <2>1. AbstractView' = AbstractView
    BY <1>1, <1>5 DEF AbstractView
  <2> QED BY <1>1, <1>2, <2>1, AbstractVars
<1> QED BY <1>4, <1>5

\* Each edit of the model is the edit of the map.
LEMMA EditRefines ==
  ASSUME IInv, IInv', Idle, UNCHANGED <<open, job, manifest, saved, recovered, lost, short>>,
         NEW p \in Paths,
         \/ Sure => \A x : x \in Live(Docs, tombs)' <=> x \in Live(Docs, tombs) /\ x.path # p
         \/ \E c \in Contents :
              Sure => /\ Live(Docs, tombs)' =
                           Live(Docs, tombs) \cup {[path |-> p, content |-> c]}
                      /\ \A x \in Live(Docs, tombs) : x.path # p
  PROVE  [Abstract!Next]_(Abstract!vars)
<1>1. View = Live(Docs, tombs) /\ View' = Live(Docs, tombs)'
  BY Spelled, SpelledNext DEF IInv
<1>2. Exact' = Exact
  BY DEF Exact
<1>3. AbstractCommitted' = AbstractCommitted
  BY <1>2 DEF AbstractCommitted
<1>4. Serving /\ Serving'
  BY DEF Serving, Idle
<1>5. CASE ~Exact \/ lost
  <2>1. AbstractView' = AbstractView
    BY <1>2, <1>4, <1>5 DEF AbstractView
  <2> QED BY <1>2, <1>3, <2>1, AbstractVars
<1>6. ASSUME Exact, ~lost PROVE Abstract!Next
  <2>1. Sure
    BY <1>6 DEF Exact, Sure
  <2>2. AbstractView = MapOf(View) /\ AbstractView' = MapOf(View')
    BY <1>2, <1>4, <1>6 DEF AbstractView
  <2>3. View \in SUBSET Doc /\ View' \in SUBSET Doc
    <3>1. Types /\ MemoryInv /\ (Types /\ MemoryInv)'
      BY DEF IInv
    <3>2. \A a \in DOMAIN Docs : Docs[a] \in Doc
      BY <3>1, DocsType
    <3>3. (\A a \in DOMAIN Docs : Docs[a] \in Doc)'
      BY <3>1, Documents DEF Docs, Types, MemoryInv
    <3> QED BY <1>1, <3>2, <3>3 DEF Live
  <2>6. AbstractView # None
    BY <2>2, <2>3, MapIsNotNone
  <2>4. ASSUME \A x : x \in View' <=> x \in View /\ x.path # p PROVE Abstract!Next
    <3>1. MapOf(View') = [MapOf(View) EXCEPT ![p] = None]
      BY <2>3, <2>4, MapOfDrop
    <3>2. AbstractView' = [AbstractView EXCEPT ![p] = None]
      BY <2>2, <3>1
    <3> QED BY <1>2, <1>3, <1>6, <2>6, <3>2, AbstractDrop
  <2>5. ASSUME NEW c \in Contents, View' = View \cup {[path |-> p, content |-> c]},
               \A x \in View : x.path # p
        PROVE  Abstract!Next
    <3>1. MapOf(View)[p] = None
      BY <2>3, <2>5, MapOfPut
    <3>2. MapOf(View') = [MapOf(View) EXCEPT ![p] = c]
      BY <2>3, <2>5, MapOfPut
    <3>3. AbstractView' = [AbstractView EXCEPT ![p] = c] /\ AbstractView[p] = None
      BY <2>2, <3>1, <3>2
    <3> QED BY <1>2, <1>3, <1>6, <2>6, <3>3, AbstractPut
  <2> QED BY <1>1, <2>1, <2>4, <2>5
<1> QED BY <1>5, <1>6

\* A buffer that is lost leaves the map in doubt.
LEMMA LoseRefines ==
  ASSUME IInv, FlushLoses
  PROVE  [Abstract!Next]_(Abstract!vars)
<1>1. /\ "open" \in Faults /\ Idle /\ lost'
      /\ UNCHANGED <<open, job, build, manifest, saved, recovered, short>>
  BY DEF FlushLoses
<1>2. Serving /\ Serving'
  BY <1>1 DEF Serving, Idle
<1>3. Exact' = Exact
  BY <1>1 DEF Exact
<1>4. AbstractCommitted' = AbstractCommitted
  BY <1>1, <1>3 DEF AbstractCommitted
<1>5. CASE Exact
  <2>1. AbstractView' = None
    BY <1>1, <1>2, <1>3, <1>5 DEF AbstractView
  <2> QED BY <1>1, <1>3, <1>4, <1>5, <2>1, AbstractSlip
<1>6. CASE ~Exact
  <2>1. AbstractView' = AbstractView
    BY <1>3, <1>6 DEF AbstractView
  <2> QED BY <1>3, <1>4, <2>1, AbstractVars
<1> QED BY <1>5, <1>6

\* The manifest's replace is the commit, and a build's the replacement of the map.
LEMMA SaveRefines ==
  ASSUME IInv, SaveManifest
  PROVE  [Abstract!Next]_(Abstract!vars)
<1>1. /\ Types /\ MemoryInv /\ open /\ job # None /\ job.at = "manifest" /\ job \in Job
      /\ manifest' # None /\ recovered' = (recovered /\ job.kind # "build") /\ open'
      /\ short' = ((short \/ lost) /\ job.kind # "build") /\ lost' = lost
      /\ job' = [job EXCEPT !.at = "tombs"]
  <2>1. ManifestNow # None
    BY Apart DEF IInv, Types, ManifestNow, Manifest
  <2> QED BY <2>1, JobFrame DEF SaveManifest, mem
<1>2. IInv' /\ Docs' = Docs /\ saved' = Live(Docs, tombs) /\ tombs' = tombs
  BY SaveManifestStep DEF SaveManifest, mem
<1>3. View' = View /\ saved' = View
  <2>1. View = Live(Docs, tombs) /\ View' = Live(Docs, tombs)'
    BY <1>2, Spelled, SpelledNext DEF IInv
  <2> QED BY <1>2, <2>1 DEF Live
<1>4. Exact' <=> ~recovered' /\ ~short'
  BY <1>1 DEF Exact
<1>10. job.kind = "build" => ~lost
  BY <1>1 DEF IInv, ShapeInv, ToBuild
<1>11. Exact' => ~lost'
  BY <1>1, <1>4, <1>10
<1>12. View \in SUBSET Doc
  BY <1>2, <1>3 DEF IInv, Types
<1>5. Serving'
  <2>1. job'.at = "tombs"
    BY <1>1 DEF Job
  <2> QED BY <1>1, <2>1 DEF Serving
<1>6. Exact' => AbstractView' = MapOf(View) /\ AbstractCommitted' = MapOf(View)
  BY <1>3, <1>5, <1>11 DEF AbstractView, AbstractCommitted
<1>7. CASE Exact' /\ Exact /\ job.kind # "build"
  <2>1. Serving
    BY <1>1, <1>7 DEF Serving
  <2>4. ~lost
    BY <1>1, <1>7, <1>11
  <2>2. AbstractView = MapOf(View) /\ AbstractView # None
    BY <1>7, <1>12, <2>1, <2>4, MapIsNotNone DEF AbstractView
  <2>3. Exact' = Exact
    BY <1>7 DEF Exact
  <2> QED BY <1>6, <1>7, <2>2, <2>3, AbstractCommit
<1>8. CASE Exact'
  <2>1. MapOf(View) \in [Paths -> Contents \cup {None}]
    BY <1>12, MapOfType
  <2> QED BY <1>6, <1>8, <2>1, AbstractBuild
<1>9. CASE ~Exact' /\ ~Exact
  <2>2. Exact' = Exact
    BY <1>9 DEF Exact
  <2>3. UNCHANGED <<AbstractView, AbstractCommitted>>
    BY <1>9 DEF AbstractView, AbstractCommitted
  <2> QED BY <2>2, <2>3, AbstractVars
<1>13. CASE ~Exact' /\ Exact
  <2>1. lost /\ job.kind # "build"
    BY <1>1, <1>4, <1>13 DEF Exact
  <2>2. AbstractView = None
    BY <1>1, <1>13, <2>1 DEF AbstractView, Serving
  <2>3. AbstractView' = NoMap /\ AbstractCommitted' = NoMap
    BY <1>13 DEF AbstractView, AbstractCommitted
  <2> QED BY <1>13, <2>2, <2>3, AbstractLoss
<1> QED BY <1>7, <1>8, <1>9, <1>13

\* A load serves the last commit again, as no index at all did.
LEMMA OpenRefines ==
  ASSUME IInv, Open
  PROVE  UNCHANGED Abstract!vars
<1>1. ~open /\ open' /\ UNCHANGED <<job, manifest, saved, recovered, lost, short>> /\ build = None
  BY DEF Open, disk
<1>2. job' = None /\ lost' = FALSE
  BY <1>1, LoadFrame
<1>3. IInv' /\ Live(Docs, tombs)' = saved
  BY OpenStep
<1>4. View' = Live(Docs, tombs)'
  BY <1>3, SpelledNext DEF IInv
<1>5. ~Serving /\ Serving'
  BY <1>1, <1>2 DEF Serving
<1>6. Exact' = Exact
  BY <1>1 DEF Exact
<1>7. AbstractCommitted' = AbstractCommitted
  BY <1>1, <1>6 DEF AbstractCommitted
<1>8. View' = saved
  BY <1>3, <1>4
<1>9. AbstractView' = AbstractView
  BY <1>2, <1>5, <1>6, <1>8 DEF AbstractView
<1> QED BY <1>6, <1>7, <1>9, AbstractVars

\* A recovery loses nothing that was committed: with anything found the map is inexact
\* from then on, and without it is empty, as the committed map is.
LEMMA RecoverRefines ==
  ASSUME IInv, Recover
  PROVE  [Abstract!Next]_(Abstract!vars)
<1>1. /\ ~open /\ open' /\ build = None /\ UNCHANGED <<job, manifest, saved, short>>
      /\ recovered' = (recovered \/ Readable # {} \/ LoadedTombs # {}) /\ lost' = lost
  BY DEF Recover, disk
<1>2. job' = None /\ lost' = FALSE
  BY <1>1, LoadFrame
<1>3. /\ IInv' /\ (Readable = {} => Live(Docs, tombs)' = {}) /\ (manifest # None => saved = {})
  BY RecoverStep
<1>4. View' = Live(Docs, tombs)'
  BY <1>3, SpelledNext DEF IInv
<1>5. ~Serving /\ Serving'
  BY <1>1, <1>2 DEF Serving
<1>6. recovered \in BOOLEAN
  BY DEF IInv, Types
<1>7. CASE ~Exact
  <2>1. ~Exact'
    BY <1>1, <1>7 DEF Exact
  <2>2. Exact' = Exact
    BY <1>7, <2>1 DEF Exact
  <2>3. UNCHANGED <<AbstractView, AbstractCommitted>>
    BY <1>7, <2>1 DEF AbstractView, AbstractCommitted
  <2> QED BY <2>2, <2>3, AbstractVars
<1>8. CASE Exact /\ Readable = {} /\ LoadedTombs = {}
  <2>1. recovered' = recovered
    BY <1>1, <1>6, <1>8
  <2>2. Exact' = Exact
    BY <1>1, <2>1 DEF Exact
  <2>3. View' = {} /\ saved = {}
    BY <1>3, <1>4, <1>8 DEF Exact
  <2>4. AbstractView' = AbstractView
    BY <1>2, <1>5, <2>2, <2>3 DEF AbstractView
  <2>5. AbstractCommitted' = AbstractCommitted
    BY <1>1, <2>2 DEF AbstractCommitted
  <2> QED BY <2>2, <2>4, <2>5, AbstractVars
<1>9. CASE Exact /\ (Readable # {} \/ LoadedTombs # {})
  <2>1. ~Exact'
    BY <1>1, <1>9 DEF Exact
  <2>2. saved = {}
    BY <1>3, <1>9 DEF Exact
  <2>3. AbstractCommitted = NoMap
    BY <1>9, <2>2, MapOfNothing DEF AbstractCommitted
  <2>4. AbstractView' = NoMap /\ AbstractCommitted' = NoMap
    BY <2>1 DEF AbstractView, AbstractCommitted
  <2> QED BY <1>9, <2>1, <2>3, <2>4, AbstractLoss
<1> QED BY <1>7, <1>8, <1>9

\* A manifest lost is a loss of the map, or nothing but a crash where it was empty.
LEMMA LostRefines ==
  ASSUME IInv, ManifestLost
  PROVE  [Abstract!Next]_(Abstract!vars)
<1>1. /\ "lost" \in Faults /\ manifest # None /\ manifest' = None /\ open' = FALSE
      /\ UNCHANGED <<saved, recovered, short>>
  BY DEF ManifestLost
<1>2. ~Serving'
  BY <1>1 DEF Serving
<1>3. CASE ~Exact
  <2>1. ~Exact'
    BY <1>1, <1>3 DEF Exact
  <2>2. Exact' = Exact
    BY <1>3, <2>1 DEF Exact
  <2>3. UNCHANGED <<AbstractView, AbstractCommitted>>
    BY <1>3, <2>1 DEF AbstractView, AbstractCommitted
  <2> QED BY <2>2, <2>3, AbstractVars
<1>4. CASE Exact /\ saved = {}
  <2>1. Exact' = Exact
    BY <1>1, <1>4 DEF Exact
  <2>2. AbstractCommitted' = AbstractCommitted
    BY <1>1, <2>1 DEF AbstractCommitted
  <2>3. AbstractView' = AbstractCommitted
    BY <1>1, <1>2, <2>1 DEF AbstractView, AbstractCommitted
  <2> QED BY <1>4, <2>1, <2>2, <2>3, AbstractRevert
<1>5. CASE Exact /\ saved # {}
  <2>1. ~Exact'
    BY <1>1, <1>5 DEF Exact
  <2>2. AbstractView' = NoMap /\ AbstractCommitted' = NoMap
    BY <2>1 DEF AbstractView, AbstractCommitted
  <2> QED BY <1>1, <1>5, <2>1, <2>2, AbstractLoss
<1> QED BY <1>3, <1>4, <1>5

\* The same documents under the same tombstones are the same live documents.
LEMMA SameLive ==
  ASSUME Docs' = Docs, tombs' = tombs
  PROVE  Live(Docs, tombs)' = Live(Docs, tombs)
BY DEF Live

\* A step between two commits of an index that serves: what it writes is not searched
\* for differently.
LEMMA QuietSteps ==
  ASSUME IInv,
         \/ FlushFails \/ SearchFlush \/ Flush \/ Compact
         \/ BuildPathMap \/ ReleasePathMapIfIdle
  PROVE  UNCHANGED Abstract!vars
<1>1. IInv' /\ Docs' = Docs
  <2>1. CASE FlushFails
    BY <2>1, FlushFailsStep
  <2>2. CASE SearchFlush \/ Flush \/ Compact
    BY <2>2, FlushStep
  <2>3. CASE BuildPathMap \/ ReleasePathMapIfIdle
    BY <2>3, PathMapStep
  <2> QED BY <2>1, <2>2, <2>3
<1>2. /\ open /\ job = None /\ UNCHANGED <<open, tombs, manifest, saved, recovered, lost, short>>
      /\ \/ job' = job
         \/ job' = [kind |-> "flush", at |-> "manifest"]
         \/ job' = [kind |-> "compact", at |-> "merge"]
  BY DEF FlushFails, SearchFlush, Flush, Compact, BuildPathMap, ReleasePathMapIfIdle, Idle
<1>3. Serving /\ Serving'
  BY <1>2 DEF Serving
<1>4. Live(Docs, tombs)' = Live(Docs, tombs)
  BY <1>1, <1>2, SameLive
<1> QED BY <1>1, <1>2, <1>3, <1>4, QuietStep

\* So are a compaction's steps, and what follows a commit.
LEMMA QuietJobSteps ==
  ASSUME IInv,
         \/ AlreadyCompact \/ Merge \/ MergeFails \/ SaveTombstones \/ CleanupOrphans
         \/ SaveFails /\ job.kind # "build"
  PROVE  UNCHANGED Abstract!vars
<1>1. job # None /\ job \in Job /\ open /\ ShapeInv
  BY JobFrame DEF AlreadyCompact, Merge, MergeFails, SaveTombstones, CleanupOrphans, SaveFails
<1>2. UNCHANGED <<open, manifest, saved, recovered, lost, short>>
  BY DEF AlreadyCompact, Merge, MergeFails, SaveTombstones, CleanupOrphans, SaveFails, mem, disk
<1>3. job.kind # "build" \/ job.at # "manifest"
  BY DEF AlreadyCompact, Merge, MergeFails, SaveTombstones, CleanupOrphans
<1>4. Serving
  BY <1>1, <1>3 DEF Serving
<1>5. job' = None \/ (job' # None /\ job'.kind # "build") \/ job'.at # "manifest"
  <2>1. CASE Merge
    <3>1. job.kind = "compact"
      BY <1>1, <2>1 DEF Merge, ShapeInv
    <3> QED BY <1>1, <2>1, <3>1, Apart DEF Merge, Job
  <2>2. CASE SaveTombstones
    BY <1>1, <2>2 DEF SaveTombstones, Job
  <2> QED BY <2>1, <2>2 DEF AlreadyCompact, MergeFails, CleanupOrphans, SaveFails
<1>6. Serving'
  BY <1>1, <1>2, <1>5 DEF Serving
<1>7. IInv' /\ Live(Docs, tombs)' = Live(Docs, tombs)
  <2>1. CASE Merge
    BY <2>1, MergeStep
  <2>2. CASE AlreadyCompact
    BY <2>2, AlreadyCompactStep, SameLive DEF AlreadyCompact, mem
  <2>3. CASE MergeFails
    BY <2>3, MergeFailsStep, SameLive DEF MergeFails
  <2>4. CASE SaveTombstones
    BY <2>4, SaveTombstonesStep, SameLive DEF SaveTombstones, mem
  <2>5. CASE CleanupOrphans
    BY <2>5, CleanupOrphansStep, SameLive DEF CleanupOrphans, mem
  <2>6. CASE SaveFails /\ job.kind # "build"
    <3>1. UNCHANGED mem
      BY <2>6 DEF SaveFails
    <3>2. tombs' = tombs /\ open'
      BY <1>1, <3>1 DEF mem
    <3>3. IInv' /\ Docs' = Docs
      BY <2>6, <3>2, SaveFailsStep
    <3> QED BY <3>2, <3>3, SameLive
  <2> QED BY <2>1, <2>2, <2>3, <2>4, <2>5, <2>6
<1> QED BY <1>2, <1>4, <1>6, <1>7, QuietStep

\* A build is seen only when it commits; one that fails, or a crash, goes back.
LEMMA AsideSteps ==
  ASSUME IInv,
         \/ BuildStarts \/ BuildWrites \/ FromSegmentFiles \/ CancelBuild \/ Crash
         \/ SaveFails /\ job.kind = "build"
  PROVE  [Abstract!Next]_(Abstract!vars)
<1>1. UNCHANGED <<manifest, saved, recovered, short>>
  BY DEF BuildStarts, BuildWrites, FromSegmentFiles, CancelBuild, Crash, SaveFails, disk
<1>2. ~Serving'
  <2>1. CASE BuildStarts
    BY <2>1 DEF BuildStarts, Serving, mem
  <2>2. CASE BuildWrites \/ CancelBuild
    <3>1. build # None /\ UNCHANGED open
      BY <2>2 DEF BuildWrites, CancelBuild, mem
    <3>2. open = FALSE
      BY <3>1, BuildFrame
    <3> QED BY <3>1, <3>2 DEF Serving
  <2>3. CASE FromSegmentFiles
    <3>1. job' = [kind |-> "build", at |-> "manifest"]
      BY <2>3 DEF FromSegmentFiles
    <3>2. job' \in Job
      BY <3>1 DEF Job
    <3>3. job' # None
      BY <3>2, Apart
    <3> QED BY <3>1, <3>3 DEF Serving
  <2>4. CASE Crash \/ (SaveFails /\ job.kind = "build")
    BY <2>4 DEF Crash, SaveFails, Serving
  <2> QED BY <2>1, <2>2, <2>3, <2>4
<1> QED BY <1>1, <1>2, AsideStep

\* Every step is a step of the map, or leaves it alone.
LEMMA StepRefines == IInv /\ [Next]_vars => [Abstract!Next]_(Abstract!vars)
<1> SUFFICES ASSUME IInv, [Next]_vars PROVE [Abstract!Next]_(Abstract!vars)
  OBVIOUS
<1>1. ASSUME NEW p \in Paths, RemovePath(p) PROVE [Abstract!Next]_(Abstract!vars)
  <2>1. Idle /\ UNCHANGED <<open, job, manifest, saved, recovered, lost, short>>
    BY <1>1 DEF RemovePath
  <2>2. /\ IInv'
        /\ Sure => \A x : x \in Live(Docs, tombs)' <=> x \in Live(Docs, tombs) /\ x.path # p
    BY <1>1, RemoveStep
  <2> QED BY <2>1, <2>2, EditRefines
<1>2. ASSUME NEW p \in Paths, NEW c \in Contents, AddDocument(p, c)
      PROVE  [Abstract!Next]_(Abstract!vars)
  <2>1. Idle /\ UNCHANGED <<open, job, manifest, saved, recovered, lost, short>>
    BY <1>2 DEF AddDocument
  <2>2. /\ IInv'
        /\ Sure => /\ Live(Docs, tombs)' =
                        Live(Docs, tombs) \cup {[path |-> p, content |-> c]}
                   /\ \A x \in Live(Docs, tombs) : x.path # p
    BY <1>2, AddStep
  <2> QED BY <2>1, <2>2, EditRefines
<1>3. CASE \/ FlushFails \/ SearchFlush \/ Flush \/ Compact
           \/ BuildPathMap \/ ReleasePathMapIfIdle
  BY <1>3, QuietSteps
<1>4. CASE \/ AlreadyCompact \/ Merge \/ MergeFails \/ SaveTombstones \/ CleanupOrphans
           \/ SaveFails /\ job.kind # "build"
  BY <1>4, QuietJobSteps
<1>5. CASE \/ BuildStarts \/ BuildWrites \/ FromSegmentFiles \/ CancelBuild \/ Crash
           \/ SaveFails /\ job.kind = "build"
  BY <1>5, AsideSteps
<1>6. CASE SaveManifest
  BY <1>6, SaveRefines
<1>7. CASE Open
  BY <1>7, OpenRefines
<1>8. CASE Recover
  BY <1>8, RecoverRefines
<1>9. CASE ManifestLost
  BY <1>9, LostRefines
<1>11. CASE FlushLoses
  BY <1>11, LoseRefines
<1>10. CASE UNCHANGED vars
  <2>1. UNCHANGED <<open, segs, tombs, pending, pmap, next, job, build, files, manifest,
                    tombFile, saved, recovered, lost, short>>
    BY <1>10 DEF vars
  <2>2. UNCHANGED <<Exact, Serving>>
    BY <2>1 DEF Exact, Serving
  <2>3. Types /\ Types'
    BY <2>1 DEF IInv, Types
  <2>4. View = Live(Docs, tombs) /\ View' = Live(Docs, tombs)'
    BY <2>3, Spelled, SpelledNext
  <2>5. View' = View
    BY <2>1, <2>4 DEF Docs
  <2>6. UNCHANGED <<AbstractView, AbstractCommitted>>
    BY <2>1, <2>2, <2>5 DEF AbstractView, AbstractCommitted
  <2> QED BY <2>2, <2>6, AbstractVars
<1> QED BY <1>1, <1>2, <1>3, <1>4, <1>5, <1>6, <1>7, <1>8, <1>9, <1>10, <1>11 DEF Next

\* Nothing indexed is the empty map.
LEMMA InitRefines == Init => Abstract!Init
<1> SUFFICES ASSUME Init PROVE Abstract!Init
  OBVIOUS
<1>1. Exact /\ Exact = TRUE /\ ~Serving /\ saved = {}
  BY DEF Init, Exact, Serving
<1>2. AbstractView = NoMap /\ AbstractCommitted = NoMap
  BY <1>1, MapOfNothing DEF AbstractView, AbstractCommitted
<1>3. NoMap = Abstract!Empty
  BY DEF NoMap, Abstract!Empty
<1> QED BY <1>1, <1>2, <1>3, Zenon DEF Abstract!Init, AbstractView, AbstractCommitted

\* Through edits, failed writes, segments that do not open, compactions, crashes,
\* builds and losses of the manifest, the index is one map from paths to contents that
\* the manifest's replace commits; only a buffer lost puts it in doubt until the
\* process ends, or until a build once it is committed.
THEOREM IndexIsADocumentMap == Spec => ImplementsDocumentMap
<1>1. Init => Abstract!Init
  BY InitRefines
<1>2. IInv /\ [Next]_vars => [Abstract!Next]_(Abstract!vars)
  BY StepRefines
<1> QED BY <1>1, <1>2, Invariance, PTL DEF Spec, ImplementsDocumentMap, Abstract!Spec
=============================================================================

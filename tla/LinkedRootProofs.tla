--------------------------- MODULE LinkedRootProofs ---------------------------
(***************************************************************************)
(* Proofs about LinkedRoot, for any files, retries, number of links and    *)
(* bounds: its types, the three safety properties its run checks without   *)
(* ENABLED, and that somebody always has its turn.  All follow from one    *)
(* invariant, RootInv: its parts say what a thread carries at each stage,  *)
(* what the holder of _linkedGate is about, who owns and watches what,     *)
(* what generations promise, who takes held edits, and who sees to a       *)
(* change the index lacks.  Each action keeps it; lemmas named ...Steps    *)
(* say what keeps a part of it, for the many actions that leave that part  *)
(* alone.                                                                  *)
(***************************************************************************)
EXTENDS LinkedRoot, FiniteSetTheorems, WellFoundedInduction, TLAPS

-----------------------------------------------------------------------------
(* The threads and the records they carry *)

\* The stages a thread of each kind goes through.
StagesOf(t) ==
  IF t \in Watches
    THEN {"idle", "waits", "lock", "walk", "install", "catch", "finally"}
  ELSE IF t \in Retries
    THEN {"idle", "fired", "waits", "lock", "walk", "install", "catch", "finally"}
  ELSE IF t \in Loads
    THEN {"idle", "queued", "waits", "lock", "walk", "install"}
  ELSE IF t = Query THEN {"idle", "reload"} ELSE {"idle", "other"}

\* What a thread's record says at its stage.
StageOk(t, r) ==
  /\ r.at \in StagesOf(t)
  /\ r.at = "idle" => r = Idle
  /\ r.paths # {} => t \in Batches /\ r.at \in {"waits", "lock", "walk", "catch"}
  /\ r.at = "waits" /\ r.full => r.paths = {}
  /\ r.at = "waits" /\ t \in Retries => r.paths = {} /\ ~r.full
  /\ t \in Retries /\ r.full => r.paths = {}
  /\ t = Query /\ r.at = "reload" => r.gen # 0 /\ r.obj # 0

StageInv == \A t \in Threads : StageOk(t, op[t])

\* No thread is two, and each is of one kind.
LEMMA Kinds ==
  /\ \A o, q \in Objs : /\ Callback(o) = Callback(q) => o = q
                        /\ Load(o) = Load(q) => o = q
                        /\ Load(o)[2] = o
                        /\ Callback(o) \notin Loads \cup Retries \cup {Query, Others}
                        /\ Load(o) \notin Batches \cup {Query, Others}
                        /\ Callback(o) # Load(q)
                        /\ Callback(o) \in Threads /\ Load(o) \in Threads
  /\ \A k \in Pool : /\ Retry(k) \notin Watches \cup Loads \cup {Query, Others}
                     /\ Retry(k) \in Threads
  /\ Query # Others /\ Query \in Threads /\ Others \in Threads
  /\ Query \notin Batches \cup Loads /\ Others \notin Batches \cup Loads
BY LinkedRootAssumption DEF Callback, Load, Retry, Query, Others, Watches, Loads, Retries, Batches,
     Threads, Objs

\* What a thread is when it is at a stage and carries nothing.
LEMMA Records ==
  /\ Idle \in OpType /\ Idle.at = "idle" /\ Idle.obj = 0 /\ Idle.paths = {}
  /\ Idle.full = FALSE /\ Idle.bump = FALSE /\ Idle.arms = FALSE /\ Idle.gen = 0
  /\ \A s \in Stages : /\ At(s) \in OpType /\ At(s).at = s /\ At(s).obj = 0
                       /\ At(s).paths = {} /\ At(s).full = FALSE
                       /\ At(s).bump = FALSE /\ At(s).arms = FALSE /\ At(s).gen = 0
<1>1. 0 \in 0..MaxLinks /\ "idle" \in Stages
  BY LinkedRootAssumption DEF Stages
<1>2. Idle \in OpType
  BY <1>1 DEF Idle, OpType
<1> QED BY <1>1, <1>2 DEF Idle, At, OpType

\* The other threads stay as they are.
OnlyThread(t) == /\ op' \in [Threads -> OpType]
                 /\ \A u \in Threads \ {t} : op'[u] = op[u]

\* A thread moves on with what it carries.
Onward(t, stage) ==
  /\ OnlyThread(t) /\ op'[t].at = stage /\ op'[t].obj = op[t].obj
  /\ op'[t].paths = op[t].paths /\ op'[t].full = op[t].full
  /\ op'[t].bump = op[t].bump /\ op'[t].arms = op[t].arms /\ op'[t].gen = op[t].gen

\* A thread that moves on keeps what it carries.
LEMMA Advances ==
  ASSUME op \in [Threads -> OpType], NEW t \in Threads, NEW s \in Stages, Advance(t, s)
  PROVE  Onward(t, s)
BY DEF Advance, Onward, OnlyThread, OpType

\* A thread that is given a new record.
LEMMA Becomes ==
  ASSUME op \in [Threads -> OpType], NEW t \in Threads, NEW r \in OpType, Become(t, r)
  PROVE  OnlyThread(t) /\ op'[t] = r
BY DEF Become, OnlyThread

-----------------------------------------------------------------------------
(* The objects *)

SameWatch(o) == root'[o].watch = root[o].watch /\ root'[o].live = root[o].live
SameHandle(o) == /\ root'[o].handle = root[o].handle /\ root'[o].gen = root[o].gen
                 /\ root'[o].failed = root[o].failed
SameNewer(o) == root'[o].newer = root[o].newer /\ root'[o].never = root[o].never
SameHeld(o) == /\ root'[o].held = root[o].held /\ root'[o].flag = root[o].flag
               /\ root'[o].passed = root[o].passed
SameRoot(o) == SameWatch(o) /\ SameHandle(o) /\ SameNewer(o) /\ SameHeld(o)

RootTyped == root' \in [Objs -> RootType]

\* A step that leaves the objects alone.
LEMMA SameRoots ==
  ASSUME root \in [Objs -> RootType], UNCHANGED root
  PROVE  RootTyped /\ \A o \in Objs : SameRoot(o)
BY DEF RootTyped, SameRoot, SameWatch, SameHandle, SameNewer, SameHeld

\* The end of a batch.
LEMMA Leaving ==
  ASSUME op \in [Threads -> OpType], root \in [Objs -> RootType],
         NEW t \in Threads, NEW o \in 0..MaxLinks, NEW held \in SUBSET Paths, Leave(t, o, held)
  PROVE  /\ OnlyThread(t) /\ op'[t] = Idle /\ RootTyped
         /\ \A x \in Objs : SameWatch(x) /\ SameHandle(x) /\ SameNewer(x)
         /\ \A x \in Objs \ {o} : SameHeld(x)
         /\ o # 0 => /\ root'[o].held = held /\ (root'[o].flag <=> held # {})
                     /\ root'[o].passed <=> root[o].passed /\ held # {}
<1>1. OnlyThread(t) /\ op'[t] = Idle
  BY Becomes, Records DEF Leave, Released
<1>2. CASE o = 0
  BY <1>1, <1>2, SameRoots DEF Leave, Objs, SameRoot
<1>3. CASE o # 0
  <2>0. o \in Objs
    BY <1>3, LinkedRootAssumption DEF Objs
  <2>1. o \in Objs /\ root' = [root EXCEPT ![o].held = held, ![o].flag = held # {},
                                           ![o].passed = @ /\ held # {}]
    BY <1>3, <2>0, Zenon DEF Leave
  <2>2. /\ root[o] \in RootType /\ (held # {}) \in BOOLEAN
        /\ (root[o].passed /\ held # {}) \in BOOLEAN
    BY <2>1 DEF RootType
  <2>3. /\ root'[o] = [root[o] EXCEPT !.held = held, !.flag = held # {}, !.passed = @ /\ held # {}]
        /\ \A x \in Objs \ {o} : root'[x] = root[x]
        /\ DOMAIN root' = Objs
    BY <2>1
  <2>4. root'[o] \in RootType
    BY <2>2, <2>3 DEF RootType
  <2>5. RootTyped
    BY <2>1, <2>4, <2>3 DEF RootTyped
  <2>6. /\ root'[o].held = held /\ (root'[o].flag <=> held # {})
        /\ root'[o].passed <=> root[o].passed /\ held # {}
        /\ SameWatch(o) /\ SameHandle(o) /\ SameNewer(o)
    BY <2>2, <2>3 DEF SameWatch, SameHandle, SameNewer, RootType
  <2> QED BY <1>1, <2>3, <2>5, <2>6 DEF SameWatch, SameHandle, SameNewer, SameHeld
<1> QED BY <1>2, <1>3

\* The handler gives the root up.
LEMMA GivingUp ==
  ASSUME root \in [Objs -> RootType], linked \in 0..MaxLinks,
         NEW r \in [Objs -> RootType], root' = GivenUp(r)
  PROVE  /\ RootTyped
         /\ \A o \in Objs :
              /\ root'[o].watch = r[o].watch /\ root'[o].live = r[o].live
              /\ root'[o].gen = r[o].gen /\ root'[o].handle = r[o].handle
              /\ root'[o].failed = r[o].failed /\ root'[o].flag = r[o].flag
              /\ root'[o].held = r[o].held /\ root'[o].passed = r[o].passed
         /\ \A o \in Objs \ {linked} :
              root'[o].newer = r[o].newer /\ root'[o].never = r[o].never
         /\ linked # 0 => IF root[linked].newer
                            THEN /\ root'[linked].newer = r[linked].newer
                                 /\ root'[linked].never = r[linked].never
                            ELSE root'[linked].newer /\ root'[linked].never
<1>1. CASE linked = 0 \/ root[linked].newer
  <2>1. root' = r
    BY <1>1 DEF GivenUp
  <2> QED BY <1>1, <2>1, LinkedRootAssumption DEF RootTyped, Objs
<1>2. CASE linked # 0 /\ ~root[linked].newer
  <2>1. linked \in Objs
    BY <1>2, LinkedRootAssumption DEF Objs
  <2>2. root' = [r EXCEPT ![linked].newer = TRUE, ![linked].never = TRUE]
    BY <1>2 DEF GivenUp
  <2>3. /\ root'[linked] = [r[linked] EXCEPT !.newer = TRUE, !.never = TRUE]
        /\ \A o \in Objs \ {linked} : root'[o] = r[o]
        /\ r[linked] \in RootType /\ DOMAIN root' = Objs
    BY <2>1, <2>2
  <2>4. /\ root'[linked] \in RootType
        /\ root'[linked].newer = TRUE /\ root'[linked].never = TRUE
        /\ root'[linked].watch = r[linked].watch /\ root'[linked].live = r[linked].live
        /\ root'[linked].gen = r[linked].gen /\ root'[linked].handle = r[linked].handle
        /\ root'[linked].failed = r[linked].failed /\ root'[linked].flag = r[linked].flag
        /\ root'[linked].held = r[linked].held /\ root'[linked].passed = r[linked].passed
    BY <2>3 DEF RootType
  <2>5. RootTyped
    BY <2>2, <2>3, <2>4 DEF RootTyped
  <2> QED BY <1>2, <2>1, <2>3, <2>4, <2>5
<1> QED BY <1>1, <1>2

\* What the handler keeps of a batch.
KeptOf(t) == IF index.is = "newer" \/ op[t].obj = 0 THEN {}
             ELSE root[op[t].obj].held \cup op[t].paths

\* What the handler of a failed batch leaves behind: edits kept and the timer armed,
\* or the root given up.
LEMMA Catching ==
  ASSUME TypeOK, NEW t \in Batches, Catch(t)
  PROVE  /\ OnlyThread(t) /\ op'[t].at = "finally" /\ op'[t].obj = op[t].obj
         /\ op'[t].paths = {} /\ op'[t].full = FALSE /\ op'[t].bump = FALSE /\ op'[t].gen = 0
         /\ (op'[t].arms <=> ~timer /\ KeptOf(t) # {})
         /\ (timer' <=> timer \/ KeptOf(t) # {}) /\ timer' \in BOOLEAN
         /\ RootTyped
         /\ \A x \in Objs : SameWatch(x) /\ SameHandle(x) /\ root'[x].flag = root[x].flag
         /\ \A x \in Objs \ {op[t].obj} : SameHeld(x)
         /\ op[t].obj # 0 => root'[op[t].obj].held = KeptOf(t)
         /\ \A x \in Objs \ {linked} : SameNewer(x)
         /\ linked # 0 => IF index.is = "newer" /\ ~root[linked].newer
                            THEN root'[linked].newer /\ root'[linked].never
                            ELSE SameNewer(linked)
<1> DEFINE b == op[t].obj
           kept == KeptOf(t)
           r == IF b = 0 THEN root ELSE [root EXCEPT ![b].held = kept, ![b].passed = FALSE]
<1>1. /\ root \in [Objs -> RootType] /\ linked \in 0..MaxLinks /\ b \in 0..MaxLinks
      /\ op \in [Threads -> OpType] /\ t \in Threads /\ timer \in BOOLEAN
      /\ op[t].paths \in SUBSET Paths /\ 0 \notin Objs /\ b \in Objs \cup {0}
  BY LinkedRootAssumption DEF TypeOK, OpType, Threads, Objs
<1>2. kept \in SUBSET Paths
  BY <1>1 DEF KeptOf, RootType
<1>3. root' = IF index.is = "newer" THEN GivenUp(r) ELSE r
  <2>1. kept = IF index.is = "newer" THEN {} ELSE HeldBy(b) \cup (IF b = 0 THEN {} ELSE op[t].paths)
    BY DEF KeptOf, HeldBy
  <2>2. LET held == HeldBy(b) \cup (IF b = 0 THEN {} ELSE op[t].paths)
            all == IF index.is = "newer" THEN {} ELSE held
            was == IF b = 0 THEN root ELSE [root EXCEPT ![b].held = all, ![b].passed = FALSE]
        IN root' = IF index.is = "newer" THEN GivenUp(was) ELSE was
    BY Zenon DEF Catch
  <2> HIDE DEF kept
  <2> QED BY <2>1, <2>2
<1>4. /\ timer' = (timer \/ kept # {})
      /\ op' = [op EXCEPT ![t] = [At("finally") EXCEPT !.obj = b, !.arms = ~timer /\ timer']]
  BY DEF Catch, KeptOf, HeldBy, ScheduleRetry
<1>5. /\ timer' \in BOOLEAN /\ (timer' <=> timer \/ kept # {})
      /\ (~timer /\ timer' <=> ~timer /\ kept # {}) /\ (~timer /\ timer') \in BOOLEAN
  BY <1>4, <1>1
<1>6. \A arms \in BOOLEAN :
        LET to == [At("finally") EXCEPT !.obj = b, !.arms = arms]
        IN /\ to \in OpType /\ to.at = "finally" /\ to.obj = b /\ to.paths = {}
           /\ to.full = FALSE /\ to.bump = FALSE /\ to.gen = 0 /\ to.arms = arms
  <2>1. "finally" \in Stages
    BY DEF Stages
  <2>2. At("finally") \in OpType /\ At("finally").at = "finally" /\ At("finally").paths = {}
        /\ At("finally").full = FALSE /\ At("finally").bump = FALSE /\ At("finally").gen = 0
    BY <2>1, Records
  <2> QED BY <1>1, <2>2 DEF OpType
<1>7. /\ OnlyThread(t) /\ op'[t].at = "finally" /\ op'[t].obj = b
      /\ op'[t].paths = {} /\ op'[t].full = FALSE /\ op'[t].bump = FALSE /\ op'[t].gen = 0
      /\ op'[t].arms = (~timer /\ timer')
  BY <1>1, <1>4, <1>5, <1>6 DEF OnlyThread
<1>8. /\ r \in [Objs -> RootType]
      /\ \A o \in Objs :
           /\ r[o].watch = root[o].watch /\ r[o].live = root[o].live
           /\ r[o].gen = root[o].gen /\ r[o].handle = root[o].handle
           /\ r[o].failed = root[o].failed /\ r[o].flag = root[o].flag
           /\ o # b => r[o] = root[o]
           /\ o = b => r[o].held = kept
           /\ r[o].newer = root[o].newer /\ r[o].never = root[o].never
  <2> HIDE DEF kept
  <2>1. CASE b = 0
    BY <1>1, <2>1 DEF RootType
  <2>2. CASE b # 0
    <3>1. /\ b \in Objs /\ root[b] \in RootType
          /\ r = [root EXCEPT ![b].held = kept, ![b].passed = FALSE]
      BY <1>1, <2>2
    <3>2. /\ r[b] = [root[b] EXCEPT !.held = kept, !.passed = FALSE]
          /\ \A o \in Objs \ {b} : r[o] = root[o]
          /\ DOMAIN r = Objs
      BY <3>1, <1>1
    <3>3. /\ r[b] \in RootType /\ r[b].held = kept
          /\ r[b].watch = root[b].watch /\ r[b].live = root[b].live
          /\ r[b].gen = root[b].gen /\ r[b].handle = root[b].handle
          /\ r[b].failed = root[b].failed /\ r[b].flag = root[b].flag
          /\ r[b].newer = root[b].newer /\ r[b].never = root[b].never
      BY <3>1, <3>2, <1>2 DEF RootType
    <3>4. r \in [Objs -> RootType]
      BY <3>1, <3>2, <3>3, <1>1
    <3> HIDE DEF r
    <3> QED BY <3>2, <3>3, <3>4, <1>1
  <2> QED BY <2>1, <2>2
<1> HIDE DEF r
<1>9. /\ RootTyped
      /\ \A x \in Objs : SameWatch(x) /\ SameHandle(x) /\ root'[x].flag = root[x].flag
      /\ \A x \in Objs \ {b} : SameHeld(x)
      /\ b # 0 => root'[b].held = kept
  <2>1. CASE index.is = "newer"
    <3>1. root' = GivenUp(r)
      BY <1>3, <2>1
    <3> HIDE DEF kept
    <3> QED BY <3>1, <1>1, <1>8, GivingUp DEF SameWatch, SameHandle, SameHeld
  <2>2. CASE index.is # "newer"
    <3>1. root' = r
      BY <1>3, <2>2
    <3> HIDE DEF kept
    <3> QED BY <3>1, <1>1, <1>8 DEF SameWatch, SameHandle, SameHeld, RootTyped
  <2> QED BY <2>1, <2>2
<1>10. /\ \A x \in Objs \ {linked} : SameNewer(x)
       /\ linked # 0 => IF index.is = "newer" /\ ~root[linked].newer
                          THEN root'[linked].newer /\ root'[linked].never
                          ELSE SameNewer(linked)
  <2>1. CASE index.is = "newer"
    <3>1. root' = GivenUp(r)
      BY <1>3, <2>1
    <3>2. linked # 0 => linked \in Objs
      BY <1>1, LinkedRootAssumption DEF Objs
    <3> HIDE DEF kept
    <3> QED BY <3>1, <3>2, <1>1, <1>8, <2>1, GivingUp DEF SameNewer
  <2>2. CASE index.is # "newer"
    <3>1. root' = r /\ (linked # 0 => linked \in Objs)
      BY <1>3, <2>2, <1>1, LinkedRootAssumption DEF Objs
    <3> HIDE DEF kept
    <3> QED BY <3>1, <2>2, <1>8 DEF SameNewer
  <2> QED BY <2>1, <2>2
<1> QED BY <1>5, <1>7, <1>9, <1>10

-----------------------------------------------------------------------------
(* The invariant *)

Known(o) == root[o].gen # 0
Touchable(o) == Known(o) /\ (o # life.obj \/ life.at # "publish")

\* The objects not made yet are as new, and nobody has one in hand.
KnownInv ==
  \A o \in Objs : ~Known(o) =>
    /\ o # linked /\ o # life.obj /\ o \notin giveUps /\ root[o].held = {} /\ ~root[o].newer
    /\ \A t \in Threads : op[t].obj # o

\* What the holder of _linkedGate is about.
LifeInv ==
  /\ life.at \in {"idle", "load"} <=> life.obj = 0
  /\ life.at = "idle" => life = AtRest
  /\ life.at = "load" => life.gen # 0 /\ \E o \in Objs : ~Known(o)
  /\ life.at \in {"load", "publish"} => linked = 0
  /\ life.at = "publish" => /\ root[life.obj].held = {}
                            /\ \A t \in Threads : op[t].obj # life.obj
  /\ life.unlinks => linked = 0 /\ life.at \in {"stop", "drain", "join"}
  /\ life.at = "watch" => life.obj = linked /\ role = linked
  /\ life.at \in {"publish", "watch", "drain", "join"} => ~root[life.obj].watch

\* What is owned is watched, what is not is quiet, but for what "life" is about.
OwnedInv ==
  \A o \in Objs :
    /\ root[o].watch => role = o
    /\ role = o /\ ~root[o].watch => life.obj = o /\ life.at # "stop"
    /\ op[Callback(o)] # Idle \/ root[o].live =>
         \/ root[o].watch
         \/ life.obj = o /\ life.at = "drain" /\ (o = linked \/ life.unlinks)
    /\ op[Load(o)] # Idle => root[o].watch \/ (life.obj = o /\ life.at \in {"drain", "join"})
    /\ o # linked /\ (root[o].watch \/ root[o].handle # 0) =>
         life.obj = o /\ (life.at = "publish" \/ life.unlinks)
    /\ root[o].newer /\ root[o].never /\ role = o /\ o \notin giveUps =>
         life.obj = o /\ life.at \in {"stop", "drain", "join"}

\* The index is gone only for a root that is not linked, and the only builds for a
\* batch that lost no events are for an index that is gone.
GoneInv ==
  /\ index.is = "gone" => linked = 0 /\ life.at # "publish"
  /\ \A t \in Batches : op[t].at = "walk" => op[t].full \/ index.is = "gone"

\* Generations only rise.
GenInv ==
  /\ index.gen # 0 /\ life.gen <= index.gen
  /\ \A o \in Objs : root[o].gen <= index.gen /\ root[o].failed <= index.gen
  /\ \A t \in Threads : op[t].gen <= index.gen

Publishing == other \/ \E t \in Threads : op[t].at = "install" /\ op[t].bump
Noticed(o) ==
  root[o].handle < index.ver =>
    \/ Publishing
    \/ index.gen # root[o].gen /\ (index.gen = root[o].failed => root[o].newer)

\* Handles that are read stay open, and handles that are old are noticed.
ServeInv ==
  /\ reading.obj # 0 => reading.obj = linked /\ root[reading.obj].handle = reading.ver
  /\ \A o \in Objs : o = linked \/ (life.at = "publish" /\ life.obj = o) => Noticed(o)

Taken == {"lock", "walk", "install", "catch"}
Soon(o) == timer \/ root[o].passed \/ \E t \in Retries : op[t].at \in {"fired", "waits"}

\* A batch takes what is held back with it; what is held back says so, but while
\* the batch that held it back ends, and is retried soon.
HeldInv ==
  /\ \A t \in Batches : op[t].at \in Taken /\ op[t].obj # 0 => root[op[t].obj].held = {}
  /\ linked # 0 /\ root[linked].held # {} =>
       /\ Soon(linked)
       /\ \/ root[linked].flag
          \/ \E t \in Batches : op[t].at = "finally" /\ op[t].obj = linked
  /\ \A t \in Batches :
       linked # 0 /\ op[t].at = "lock" /\ op[t].obj = linked /\ op[t].full /\ op[t].paths # {}
         => root[linked].flag /\ Soon(linked)

Bears(t, p) == /\ op[t].at \in {"waits", "lock", "walk", "catch"}
               /\ p \in op[t].paths \/ op[t].full
               /\ op[t].at = "walk" => p \notin missed
Comes(o, p) == \/ op[Load(o)].at \in {"queued", "waits", "lock"}
               \/ op[Load(o)].at = "walk" /\ p \notin missed
Near(o, p) == \/ p \in events \cup root[o].held \/ overflow
              \/ \E t \in Batches : Bears(t, p)
              \/ Comes(o, p)

\* What the index of a watched root lacks, and was not let go of, somebody will see
\* to; a batch that found no root is the last of one that is being unlinked.
KeptInv ==
  /\ \A t \in Batches : op[t].at \in Taken \cup {"finally"} /\ op[t].obj = 0 =>
       linked = 0 /\ t \in Watches
  /\ \A o \in Objs : op[Callback(o)].at = "walk" /\ root[o].watch =>
       missed \subseteq events \/ overflow
  /\ linked # 0 /\ root[linked].watch => \A p \in stale \ dropped : Near(linked, p)

IndexType == [is : {"ok", "gone", "newer"}, ver : Nat, gen : Nat]

\* TypeOK but for the threads and the objects.
RestType ==
  /\ auto \in BOOLEAN /\ stale \subseteq Paths
  /\ dropped \subseteq stale /\ missed \subseteq Paths
  /\ index \in IndexType /\ other \in BOOLEAN
  /\ role \in 0..(MaxLinks + 1)
  /\ links \in [wanted : BOOLEAN, sig : Nat, seen : Nat]
  /\ linked \in 0..MaxLinks /\ life \in LifeType
  /\ giveUps \subseteq Objs
  /\ events \subseteq Paths /\ overflow \in BOOLEAN /\ timer \in BOOLEAN
  /\ reading \in [obj : 0..MaxLinks, ver : Nat]
  /\ happened \in Nat /\ faults \in Nat

GateInv == \A t, u \in Threads : op[t].at \in Holding /\ op[u].at \in Holding => t = u

RootInv ==
  /\ RestType /\ op \in [Threads -> OpType] /\ root \in [Objs -> RootType] /\ GateInv
  /\ StageInv /\ KnownInv /\ LifeInv /\ OwnedInv /\ GoneInv /\ GenInv
  /\ ServeInv /\ HeldInv /\ KeptInv

\* The invariant holds the types.
LEMMA Typed == RootInv => TypeOK
BY DEF RootInv, RestType, GateInv, TypeOK, IndexType

\* The numbers that are no objects.
LEMMA Zero == /\ 0 \notin Objs /\ \A o \in 0..MaxLinks : o # 0 => o \in Objs
              /\ Objs \subseteq 0..MaxLinks /\ 0 \in 0..MaxLinks
              /\ Objs \subseteq Nat /\ MaxLinks \in Nat
              /\ Free \notin Objs /\ Elsewhere \notin Objs
BY LinkedRootAssumption DEF Objs, Free, Elsewhere

\* The objects in somebody's hands were made, and have been published.
LEMMA Touching ==
  ASSUME RootInv
  PROVE  /\ linked # 0 => linked \in Objs /\ Touchable(linked)
         /\ \A t \in Threads : op[t].obj # 0 => op[t].obj \in Objs /\ Touchable(op[t].obj)
         /\ \A o \in Objs : op[Load(o)] # Idle \/ op[Callback(o)] # Idle => Touchable(o)
<1>1. linked # 0 => linked \in Objs /\ Touchable(linked)
  BY Zero DEF RootInv, RestType, Touchable, KnownInv, LifeInv
<1>2. \A t \in Threads : op[t].obj # 0 => op[t].obj \in Objs /\ Touchable(op[t].obj)
  BY Zero DEF RootInv, OpType, Touchable, KnownInv, LifeInv
<1>3. ASSUME NEW o \in Objs, op[Load(o)] # Idle \/ op[Callback(o)] # Idle
      PROVE  Touchable(o)
  <2>1. root[o].watch \/ (life.obj = o /\ life.at \in {"drain", "join"})
    BY <1>3 DEF RootInv, OwnedInv
  <2>2. CASE root[o].watch
    <3>1. o = linked \/ life.obj = o
      BY <2>2 DEF RootInv, OwnedInv
    <3> QED BY <3>1, <2>2, <1>1 DEF RootInv, KnownInv, LifeInv, Touchable
  <2>3. CASE life.obj = o /\ life.at \in {"drain", "join"}
    BY <2>3 DEF RootInv, KnownInv, LifeInv, Touchable
  <2> QED BY <2>1, <2>2, <2>3
<1> QED BY <1>1, <1>2, <1>3

-----------------------------------------------------------------------------
(* What keeps each part of it *)

\* Steps that are not of the lifecycle keep what it is about.
Steady ==
  /\ UNCHANGED <<linked, life>> /\ \A o \in Objs : role' = o <=> role = o
  /\ giveUps \subseteq giveUps' /\ giveUps' \subseteq giveUps \cup {linked}
  /\ \A o \in Objs : 
       /\ SameWatch(o)
       /\ Touchable(o) \/ SameRoot(o)
       /\ Known(o) => root'[o].gen # 0
       /\ o # linked => root'[o].handle = root[o].handle
       /\ root'[o].newer /\ root'[o].never /\ o \notin giveUps' => root[o].newer /\ root[o].never
       /\ op'[Callback(o)] # Idle => op[Callback(o)] # Idle \/ root[o].watch
       /\ op'[Load(o)] # Idle => op[Load(o)] # Idle \/ root[o].watch \/ root[o].live
  /\ \A t \in Threads : \/ op'[t].obj = op[t].obj \/ op'[t].obj = 0
                        \/ op'[t].obj \in Objs /\ Touchable(op'[t].obj)

\* ... keeps what is known, owned and watched.
LEMMA SteadySteps ==
  ASSUME RootInv, Steady
  PROVE  KnownInv' /\ LifeInv' /\ OwnedInv'
<1> USE Zero
<1>1. KnownInv'
  BY DEF RootInv, Steady, KnownInv, Known, Touchable, SameRoot, SameHandle, SameHeld, SameNewer
<1>2. LifeInv'
  <2>1. life' = life /\ linked' = linked /\ life.obj \in 0..MaxLinks
    BY DEF Steady, RootInv, RestType, LifeType
  <2>2. life.at = "publish" => /\ root'[life.obj].held = {}
                               /\ \A t \in Threads : op'[t].obj # life.obj
    <3> SUFFICES ASSUME life.at = "publish"
                 PROVE  /\ root'[life.obj].held = {}
                        /\ \A t \in Threads : op'[t].obj # life.obj
      OBVIOUS
    <3>1. life.obj \in Objs /\ ~Touchable(life.obj)
      BY <2>1 DEF RootInv, LifeInv, Touchable
    <3>2. SameRoot(life.obj)
      BY <3>1 DEF Steady
    <3> QED BY <3>1, <3>2 DEF RootInv, LifeInv, Steady, SameRoot, SameHeld
  <2>3. life.at = "load" => \E o \in Objs : root'[o].gen = 0
    BY DEF RootInv, LifeInv, Steady, Known, Touchable, SameRoot, SameHandle
  <2>4. life.obj # 0 => root'[life.obj].watch = root[life.obj].watch
    BY <2>1 DEF Steady, SameWatch
  <2>5. life.at = "watch" => role' = linked
    BY <2>1 DEF Steady, RootInv, LifeInv
  <2> QED BY <2>1, <2>2, <2>3, <2>4, <2>5 DEF RootInv, LifeInv, Known
<1>3. OwnedInv'
  BY DEF RootInv, Steady, OwnedInv, SameWatch
<1> QED BY <1>1, <1>2, <1>3

\* Nobody else takes BuildGate than a thread that finds it free.
LEMMA GateSteps ==
  ASSUME RootInv, NEW t \in Threads,
         \A u \in Threads \ {t} : op'[u].at \in Holding => op[u].at \in Holding,
         op'[t].at \in Holding => op[t].at \in Holding \/ GateFree
  PROVE  GateInv'
BY DEF RootInv, GateInv, GateFree

\* One thread moves, and its new record fits its stage.
LEMMA StageSteps ==
  ASSUME RootInv, NEW t \in Threads, OnlyThread(t), StageOk(t, op'[t])
  PROVE  StageInv'
BY DEF RootInv, StageInv, OnlyThread

\* Generations are taken from the index, whose own only rises.
LEMMA GenSteps ==
  ASSUME RootInv, RestType', op' \in [Threads -> OpType], RootTyped,
         index.gen <= index'.gen, life'.gen = life.gen \/ life'.gen <= index'.gen,
         \A o \in Objs : /\ root'[o].gen = root[o].gen \/ root'[o].gen <= index'.gen
                         /\ root'[o].failed = root[o].failed \/ root'[o].failed <= index'.gen,
         \A t \in Threads : op'[t].gen = op[t].gen \/ op'[t].gen <= index'.gen
  PROVE  GenInv'
<1>1. index.gen \in Nat /\ index'.gen \in Nat /\ life.gen \in Nat /\ life'.gen \in Nat
  BY DEF RootInv, RestType, LifeType, IndexType
<1>2. \A o \in Objs : /\ root[o].gen \in Nat /\ root'[o].gen \in Nat
                      /\ root[o].failed \in Nat /\ root'[o].failed \in Nat
  BY DEF RootInv, RootType, RootTyped
<1>3. \A t \in Threads : op[t].gen \in Nat /\ op'[t].gen \in Nat
  BY DEF RootInv, OpType
<1> QED BY <1>1, <1>2, <1>3 DEF RootInv, GenInv

\* What keeps a change of the index noticed.
LEMMA NoticedSteps ==
  ASSUME RootInv, RestType', RootTyped, NEW o \in Objs, Noticed(o),
         \/ root'[o].handle = index'.ver
         \/ Publishing'
         \/ /\ index.gen < index'.gen
            /\ root'[o].gen <= index.gen /\ root'[o].failed <= index.gen
         \/ /\ SameHandle(o) /\ index'.ver = index.ver /\ index'.gen = index.gen
            /\ root[o].newer => root'[o].newer
            /\ Publishing => Publishing'
  PROVE  Noticed(o)'
<1>1. /\ index.gen \in Nat /\ index'.gen \in Nat /\ index'.ver \in Nat
      /\ root'[o].gen \in Nat /\ root'[o].failed \in Nat /\ root'[o].handle \in Nat
  BY DEF RootInv, RestType, RootType, RootTyped, IndexType
<1>2. CASE root'[o].handle = index'.ver \/ Publishing'
  BY <1>1, <1>2 DEF Noticed
<1>3. CASE /\ index.gen < index'.gen
           /\ root'[o].gen <= index.gen /\ root'[o].failed <= index.gen
  BY <1>1, <1>3 DEF Noticed
<1>4. CASE /\ SameHandle(o) /\ index'.ver = index.ver /\ index'.gen = index.gen
           /\ root[o].newer => root'[o].newer
           /\ Publishing => Publishing'
  BY <1>1, <1>4 DEF Noticed, SameHandle
<1> QED BY <1>2, <1>3, <1>4

\* Steps of no batch, or of one that neither takes nor leaves edits.
Quiet(t, r) ==
  /\ r.at \in Taken => op[t].at \in Taken /\ r.obj = op[t].obj
  /\ r.at = "lock" => op[t] = r
  /\ op[t].at = "finally" => r.at = "finally" /\ r.obj = op[t].obj

\* No edits are taken over or put back, and who would retry them still does.
LEMMA HeldSteps ==
  ASSUME RootInv, linked' = linked, \A o \in Objs : SameHeld(o),
         \A t \in Batches : Quiet(t, op'[t]),
         linked # 0 => (Soon(linked) => Soon(linked)')
  PROVE  HeldInv'
<1>1. linked # 0 => linked \in Objs
  BY Touching
<1>2. \A t \in Batches : op[t].obj # 0 => op[t].obj \in Objs
  BY Touching DEF Threads
<1>3. \A t \in Batches : op'[t].at \in Taken /\ op'[t].obj # 0 => root'[op'[t].obj].held = {}
  BY <1>2 DEF RootInv, HeldInv, Quiet, SameHeld
<1>4. linked # 0 /\ root'[linked].held # {} =>
        /\ Soon(linked)'
        /\ \/ root'[linked].flag
           \/ \E t \in Batches : op'[t].at = "finally" /\ op'[t].obj = linked
  BY <1>1 DEF RootInv, HeldInv, Quiet, SameHeld
<1>5. \A t \in Batches :
        linked # 0 /\ op'[t].at = "lock" /\ op'[t].obj = linked /\ op'[t].full
        /\ op'[t].paths # {} => root'[linked].flag /\ Soon(linked)'
  BY <1>1 DEF RootInv, HeldInv, Quiet, SameHeld
<1> QED BY <1>3, <1>4, <1>5 DEF HeldInv

\* Steps that let nothing slip.
LEMMA KeptSteps ==
  ASSUME RootInv, linked' = linked, \A o \in Objs : SameWatch(o),
         linked # 0 => root[linked].held \subseteq root'[linked].held,
         missed' = missed, events \subseteq events', overflow => overflow',
         stale' \ dropped' \subseteq stale \ dropped,
         \A t \in Batches, p \in Paths : Bears(t, p) => Bears(t, p)',
         linked # 0 => \A p \in Paths : Comes(linked, p) => Comes(linked, p)' \/ p \in dropped',
         \A t \in Batches : op'[t].at \in Taken \cup {"finally"} =>
           op[t].at \in Taken \cup {"finally"} /\ op'[t].obj = op[t].obj,
         \A o \in Objs : op'[Callback(o)].at = "walk" => op[Callback(o)].at = "walk"
  PROVE  KeptInv'
<1>1. linked # 0 => linked \in Objs
  BY Touching
<1>2. stale \subseteq Paths
  BY DEF RootInv, RestType
<1>3. \A t \in Batches : op'[t].at \in Taken \cup {"finally"} /\ op'[t].obj = 0 =>
        linked' = 0 /\ t \in Watches
  BY DEF RootInv, KeptInv
<1>4. \A o \in Objs : op'[Callback(o)].at = "walk" /\ root'[o].watch =>
        missed' \subseteq events' \/ overflow'
  BY DEF RootInv, KeptInv, SameWatch
<1>5. ASSUME linked # 0, root'[linked].watch, NEW p \in stale' \ dropped'
      PROVE  Near(linked, p)'
  <2>1. Near(linked, p) /\ p \in Paths
    BY <1>1, <1>2, <1>5 DEF RootInv, KeptInv, SameWatch
  <2>2. CASE p \in events \cup root[linked].held \/ overflow
    BY <2>2, <1>5 DEF Near
  <2>3. CASE \E t \in Batches : Bears(t, p)
    BY <2>1, <2>3 DEF Near
  <2>4. CASE Comes(linked, p)
    BY <2>1, <2>4, <1>5 DEF Near
  <2> QED BY <2>1, <2>2, <2>3, <2>4 DEF Near
<1> QED BY <1>3, <1>4, <1>5 DEF KeptInv

\* What becomes of the index.
LEMMA IndexUpdates ==
  ASSUME NEW x \in IndexType
  PROVE  /\ x.ver \in Nat /\ x.gen \in Nat
         /\ LET y == [x EXCEPT !.gen = @ + 1]
            IN y \in IndexType /\ y.is = x.is /\ y.ver = x.ver /\ y.gen = x.gen + 1
         /\ LET y == [x EXCEPT !.is = "gone", !.gen = @ + 1]
            IN y \in IndexType /\ y.is = "gone" /\ y.ver = x.ver /\ y.gen = x.gen + 1
         /\ LET y == [x EXCEPT !.ver = @ + 1]
            IN y \in IndexType /\ y.is = x.is /\ y.ver = x.ver + 1 /\ y.gen = x.gen
         /\ \A is \in {"ok", "newer"} :
              LET y == [x EXCEPT !.is = is, !.ver = @ + 1]
              IN y \in IndexType /\ y.is = is /\ y.ver = x.ver + 1 /\ y.gen = x.gen
<1>0. x.ver \in Nat /\ x.gen \in Nat /\ x.ver + 1 \in Nat /\ x.gen + 1 \in Nat
  BY DEF IndexType
<1>1. LET y == [x EXCEPT !.gen = @ + 1]
      IN y \in IndexType /\ y.is = x.is /\ y.ver = x.ver /\ y.gen = x.gen + 1
  BY <1>0 DEF IndexType
<1>2. LET y == [x EXCEPT !.is = "gone", !.gen = @ + 1]
      IN y \in IndexType /\ y.is = "gone" /\ y.ver = x.ver /\ y.gen = x.gen + 1
  BY <1>0 DEF IndexType
<1>3. LET y == [x EXCEPT !.ver = @ + 1]
      IN y \in IndexType /\ y.is = x.is /\ y.ver = x.ver + 1 /\ y.gen = x.gen
  BY <1>0 DEF IndexType
<1>4. \A is \in {"ok", "newer"} :
        LET y == [x EXCEPT !.is = is, !.ver = @ + 1]
        IN y \in IndexType /\ y.is = is /\ y.ver = x.ver + 1 /\ y.gen = x.gen
  BY <1>0 DEF IndexType
<1> QED BY <1>0, <1>1, <1>2, <1>3, <1>4

\* The index's parts have their types.
LEMMA IndexTyped ==
  ASSUME RootInv
  PROVE  index \in IndexType /\ index.gen \in Nat /\ index.ver \in Nat
BY IndexUpdates DEF RootInv, RestType

\* Steps that leave the index, what was loaded of it and who reads it.
LEMMA ServeSteps ==
  ASSUME RootInv, RestType', RootTyped, UNCHANGED <<linked, life, reading>>,
         index' = index \/ Publishing',
         \A o \in Objs : SameHandle(o) /\ (root[o].newer => root'[o].newer),
         Publishing => Publishing'
  PROVE  ServeInv'
<1>1. \A o \in Objs : Noticed(o) => Noticed(o)'
  BY NoticedSteps
<1>2. reading.obj # 0 => reading.obj \in Objs
  BY Touching DEF RootInv, ServeInv
<1>3. linked' = linked /\ life' = life /\ reading' = reading
  OBVIOUS
<1> QED BY <1>1, <1>2, <1>3 DEF RootInv, ServeInv, SameHandle

\* The index is no more gone than it was, and no build begins.
LEMMA GoneSteps ==
  ASSUME RootInv, linked' = linked, life' = life, index'.is = index.is,
         \A t \in Batches : op'[t].at = "walk" => op'[t] = op[t]
  PROVE  GoneInv'
BY DEF RootInv, GoneInv

\* Steps that leave the session's threads and objects alone.
LEMMA OutsideSteps ==
  ASSUME RootInv, RestType', UNCHANGED <<op, root, linked, life, giveUps>>,
         \A o \in Objs : role' = o <=> role = o,
         timer => timer', index.gen <= index'.gen,
         GoneInv', ServeInv', KeptInv'
  PROVE  RootInv'
<1>0. op' = op /\ root' = root /\ linked' = linked /\ life' = life /\ giveUps' = giveUps
  OBVIOUS
<1>1. RootTyped /\ op' \in [Threads -> OpType] /\ \A o \in Objs : SameRoot(o)
  BY <1>0, SameRoots DEF RootInv
<1>2. GateInv' /\ StageInv'
  BY <1>0 DEF RootInv, GateInv, StageInv
<1>3. Steady
  BY <1>0, <1>1 DEF Steady, SameRoot, SameNewer, Known
<1>4. KnownInv' /\ LifeInv' /\ OwnedInv'
  BY <1>3, SteadySteps
<1>5. GenInv'
  BY <1>0, <1>1, GenSteps
<1>6. HeldInv'
  <2>1. \A t \in Batches : Quiet(t, op'[t])
    BY <1>0 DEF Quiet
  <2>2. Soon(linked) => Soon(linked)'
    BY <1>0 DEF Soon
  <2> QED BY <1>0, <1>1, <2>1, <2>2, HeldSteps DEF SameRoot
<1> QED BY <1>1, <1>2, <1>4, <1>5, <1>6 DEF RootInv, RootTyped

\* ... and the tree and the watcher too.
LEMMA KeptAside ==
  ASSUME RootInv, UNCHANGED <<op, root, linked, treeVars, watchVars>>
  PROVE  KeptInv'
<1>1. /\ op' = op /\ root' = root /\ linked' = linked
      /\ stale' = stale /\ dropped' = dropped /\ missed' = missed
      /\ events' = events /\ overflow' = overflow
  BY DEF treeVars, watchVars
<1>2. \A t \in Batches, p \in Paths : Bears(t, p)' <=> Bears(t, p)
  BY <1>1 DEF Bears
<1>3. \A p \in Paths : Comes(linked, p)' <=> Comes(linked, p)
  BY <1>1 DEF Comes
<1>4. \A o \in Objs : SameWatch(o)
  BY <1>1 DEF SameWatch
<1> QED BY <1>1, <1>2, <1>3, <1>4, KeptSteps

\* Steps that leave the index, the threads and the objects alone.
LEMMA IndexAside ==
  ASSUME RootInv, RestType', UNCHANGED <<op, root, linked, life, index, other, reading>>
  PROVE  GoneInv' /\ ServeInv' /\ index.gen <= index'.gen
<1>0. /\ op' = op /\ root' = root /\ linked' = linked /\ life' = life
      /\ index' = index /\ other' = other
  OBVIOUS
<1>1. RootTyped /\ \A o \in Objs : SameRoot(o)
  BY <1>0, SameRoots DEF RootInv
<1>2. Publishing => Publishing'
  BY <1>0 DEF Publishing
<1>3. index.gen <= index'.gen
  BY <1>0, IndexTyped
<1> QED BY <1>0, <1>1, <1>2, <1>3, ServeSteps, GoneSteps DEF SameRoot, SameNewer

-----------------------------------------------------------------------------
(* The tree, the other processes, links.json and the readers *)

\* links.json is edited, looked at again, or found to say what is.
LEMMA LinksStep ==
  ASSUME RootInv, EditLinks \/ Recheck \/ Reconciled
  PROVE  RootInv'
<1>1. /\ UNCHANGED <<op, root, linked, giveUps, index, other, reading, role, timer>>
      /\ UNCHANGED <<treeVars, watchVars>>
  BY DEF EditLinks, Recheck, Reconciled, treeVars, diskVars, watchVars
<1>2. life' = life
  BY DEF EditLinks, Recheck, Reconciled, LinksDone, LifeFree, RootInv, LifeInv
<1>3. links' \in [wanted : BOOLEAN, sig : Nat, seen : Nat]
  <2>1. links \in [wanted : BOOLEAN, sig : Nat, seen : Nat]
    BY DEF RootInv, RestType
  <2>2. CASE EditLinks
    <3>1. links.wanted \in BOOLEAN /\ links.sig + 1 \in Nat
      BY <2>1
    <3>2. (~links.wanted) \in BOOLEAN
      BY <3>1
    <3>3. links' = [links EXCEPT !.wanted = ~links.wanted, !.sig = links.sig + 1]
      BY <2>2 DEF EditLinks
    <3> QED BY <2>1, <3>1, <3>2, <3>3
  <2>3. CASE Recheck
    BY <2>1, <2>3 DEF Recheck
  <2>4. CASE Reconciled
    BY <2>1, <2>4 DEF Reconciled, LinksDone
  <2> QED BY <2>2, <2>3, <2>4
<1>4. happened' = happened /\ faults' = faults
  BY DEF EditLinks, Recheck, Reconciled, bounds
<1>5. RestType'
  BY <1>1, <1>2, <1>3, <1>4 DEF RootInv, RestType, treeVars, watchVars
<1> QED BY <1>1, <1>2, <1>5, KeptAside, IndexAside, OutsideSteps

\* A query reads the handles under Rw, and is done.
LEMMA ReadStep ==
  ASSUME RootInv, Read \/ EndRead
  PROVE  RootInv'
<1>1. /\ op' = op /\ root' = root /\ linked' = linked /\ giveUps' = giveUps
      /\ index' = index /\ other' = other /\ role' = role /\ timer' = timer
      /\ life' = life /\ links' = links /\ happened' = happened /\ faults' = faults
      /\ UNCHANGED <<treeVars, watchVars>>
  BY DEF Read, EndRead, treeVars, diskVars, watchVars, lifeVars, bounds
<1>2. reading' \in [obj : 0..MaxLinks, ver : Nat]
  <2>1. CASE Read
    BY <2>1, Touching DEF Read, RootInv, RestType, RootType
  <2>2. CASE EndRead
    BY <2>2, Zero DEF EndRead
  <2> QED BY <2>1, <2>2
<1>3. RestType'
  BY <1>1, <1>2 DEF RootInv, RestType, treeVars, watchVars
<1>4. ServeInv'
  <2>1. Publishing' <=> Publishing
    BY <1>1 DEF Publishing
  <2>2. \A o \in Objs : Noticed(o)' <=> Noticed(o)
    BY <1>1, <2>1 DEF Noticed
  <2>3. reading'.obj # 0 => reading'.obj = linked /\ root[linked].handle = reading'.ver
    BY DEF Read, EndRead
  <2> QED BY <1>1, <2>2, <2>3 DEF RootInv, ServeInv
<1>5. GoneInv' /\ index.gen <= index'.gen
  BY <1>1, GoneSteps, IndexTyped
<1> QED BY <1>1, <1>3, <1>4, <1>5, KeptAside, OutsideSteps

\* Another session takes or drops the role; another root arms the timer.
LEMMA RoleMovesStep ==
  ASSUME RootInv, RoleMoves \/ OthersArm
  PROVE  RootInv'
<1>1. /\ UNCHANGED <<op, root, linked, life, giveUps, index, other, reading, links>>
      /\ UNCHANGED <<treeVars, watchVars>>
  BY DEF RoleMoves, OthersArm, treeVars, diskVars, watchVars, lifeVars
<1>2. \A o \in Objs : role' = o <=> role = o
  BY Zero DEF RoleMoves, OthersArm
<1>3. role' \in 0..(MaxLinks + 1) /\ timer' \in BOOLEAN /\ (timer => timer')
  <2>1. role \in 0..(MaxLinks + 1) /\ timer \in BOOLEAN
        /\ Free \in 0..(MaxLinks + 1) /\ Elsewhere \in 0..(MaxLinks + 1)
    BY LinkedRootAssumption DEF RootInv, RestType, Free, Elsewhere
  <2> QED BY <2>1 DEF RoleMoves, OthersArm
<1>4. happened' \in Nat /\ faults' \in Nat
  BY DEF RoleMoves, OthersArm, Happens, bounds, RootInv, RestType
<1>5. RestType'
  BY <1>1, <1>3, <1>4 DEF RootInv, RestType, treeVars, watchVars
<1> QED BY <1>1, <1>2, <1>3, <1>5, KeptAside, IndexAside, OutsideSteps

\* The index is deleted only when nothing of it is linked.
LEMMA PurgeStep ==
  ASSUME RootInv, Purge
  PROVE  RootInv'
<1>1. /\ UNCHANGED <<op, root, linked, life, giveUps, other, reading, links, role, timer>>
      /\ UNCHANGED <<treeVars, watchVars>> /\ happened' = happened /\ faults' = faults
      /\ index' = [index EXCEPT !.is = "gone", !.gen = @ + 1]
      /\ linked = 0 /\ life.at = "idle" /\ LockFree
  BY DEF Purge, treeVars, watchVars, lifeVars, bounds, LifeFree, Closed
<1>2. /\ index'.is = "gone" /\ index'.ver = index.ver /\ index'.gen = index.gen + 1
      /\ index' \in IndexType /\ index.gen \in Nat
  BY <1>1, IndexUpdates DEF RootInv, RestType
<1>3. RestType'
  BY <1>1, <1>2 DEF RootInv, RestType, treeVars, watchVars
<1>4. GoneInv'
  BY <1>1 DEF GoneInv, LockFree, Threads
<1>5. ServeInv'
  BY <1>1, Zero DEF RootInv, ServeInv
<1> QED BY <1>1, <1>2, <1>3, <1>4, <1>5, KeptAside, OutsideSteps

\* Another process writes the index, and then publishes it.
LEMMA OtherWritesStep ==
  ASSUME RootInv, OtherWrites \/ OtherPublishes
  PROVE  RootInv'
<1>1. /\ op' = op /\ root' = root /\ linked' = linked /\ life' = life
      /\ UNCHANGED <<giveUps, reading, links, role, timer, auto, missed>>
      /\ UNCHANGED watchVars /\ faults' = faults
  BY DEF OtherWrites, OtherPublishes, treeVars, watchVars, lifeVars, bounds
<1>2. happened' \in Nat /\ other' \in BOOLEAN
  <2>1. happened \in Nat /\ other \in BOOLEAN /\ happened + 1 \in Nat
    BY DEF RootInv, RestType
  <2>2. CASE OtherWrites
    BY <2>1, <2>2 DEF OtherWrites, Happens
  <2>3. CASE OtherPublishes
    BY <2>1, <2>3 DEF OtherPublishes, bounds
  <2> QED BY <2>2, <2>3
<1>3. /\ stale' \subseteq stale /\ dropped' \subseteq stale' 
      /\ stale' \ dropped' \subseteq stale \ dropped
  BY DEF OtherWrites, OtherPublishes, treeVars, RootInv, RestType
<1>4. /\ index' \in IndexType
      /\ index.gen \in Nat /\ index'.gen \in Nat /\ index.gen <= index'.gen
  <2>1. index \in IndexType
    BY DEF RootInv, RestType
  <2>2. CASE OtherWrites
    <3>1. PICK is \in {"ok", "newer"} : index' = [index EXCEPT !.is = is, !.ver = @ + 1]
      BY <2>2 DEF OtherWrites
    <3>2. index' \in IndexType /\ index'.gen = index.gen /\ index.gen \in Nat
      BY <2>1, <3>1, IndexUpdates
    <3> QED BY <3>2
  <2>3. CASE OtherPublishes
    <3>1. index' = [index EXCEPT !.gen = @ + 1]
      BY <2>3 DEF OtherPublishes
    <3>2. index' \in IndexType /\ index'.gen = index.gen + 1 /\ index.gen \in Nat
      BY <2>1, <3>1, IndexUpdates
    <3> QED BY <3>2
  <2> QED BY <2>2, <2>3
<1>5. RestType'
  BY <1>1, <1>2, <1>3, <1>4 DEF RootInv, RestType, watchVars
<1>6. GoneInv'
  <2>1. CASE OtherWrites
    BY <2>1, <1>1 DEF OtherWrites, GoneInv, LockFree, RootInv, RestType, Threads
  <2>2. CASE OtherPublishes
    BY <2>2, <1>1, GoneSteps DEF OtherPublishes, RootInv, RestType
  <2> QED BY <2>1, <2>2
<1>7. RootTyped /\ \A o \in Objs : SameRoot(o)
  BY <1>1, SameRoots DEF RootInv
<1>8. ServeInv'
  <2>1. \A o \in Objs : Noticed(o) => Noticed(o)'
    <3>1. CASE OtherWrites
      BY <3>1, <1>5, <1>7, NoticedSteps DEF OtherWrites, Publishing
    <3>2. CASE OtherPublishes
      <4>1. index.gen < index'.gen
        BY <3>2, <1>4 DEF OtherPublishes, RootInv, RestType
      <4> QED BY <4>1, <1>1, <1>5, <1>7, NoticedSteps DEF RootInv, GenInv
    <3> QED BY <3>1, <3>2
  <2> QED BY <1>1, <2>1 DEF RootInv, ServeInv
<1>9. KeptInv'
  <2>1. \A t \in Batches, p \in Paths : Bears(t, p)' <=> Bears(t, p)
    BY <1>1 DEF Bears
  <2>2. \A p \in Paths : Comes(linked, p)' <=> Comes(linked, p)
    BY <1>1 DEF Comes
  <2> QED BY <1>1, <1>3, <1>7, <2>1, <2>2, KeptSteps DEF SameRoot, watchVars
<1> QED BY <1>1, <1>4, <1>5, <1>6, <1>8, <1>9, OutsideSteps

\* A file changes: the watcher has it, or has overflowed.
LEMMA EditStep ==
  ASSUME RootInv, NEW e \in Paths, Edit(e)
  PROVE  RootInv'
<1>1. /\ op' = op /\ root' = root /\ linked' = linked /\ life' = life
      /\ UNCHANGED <<giveUps, reading, links, role, timer, auto, index, other>>
      /\ faults' = faults
  BY DEF Edit, diskVars, lifeVars
<1>2. /\ stale' = stale \cup {e} /\ dropped' = dropped \ {e}
      /\ missed' \in {missed, missed \cup {e}}
      /\ (\A t \in Threads : op[t].at # "walk") => missed' = missed
  BY DEF Edit
<1>3. /\ events' \in {events, events \cup {e}}
      /\ overflow' = overflow \/ overflow' = TRUE
      /\ \A o \in Objs : root[o].watch => e \in events' \/ overflow'
  BY DEF Edit, watchVars
<1>4. happened' \in Nat
  BY DEF Edit, Happens, RootInv, RestType
<1>5. RestType'
  BY <1>1, <1>2, <1>3, <1>4 DEF RootInv, RestType
<1>6. KeptInv'
  <2>1. \A o \in Objs : op'[Callback(o)].at = "walk" /\ root'[o].watch =>
          missed' \subseteq events' \/ overflow'
    BY <1>1, <1>2, <1>3 DEF RootInv, KeptInv
  <2>2. ASSUME linked # 0, root[linked].watch, NEW p \in stale' \ dropped'
        PROVE  Near(linked, p)'
    <3>1. CASE p = e
      BY <3>1, <2>2, <1>1, <1>3, Touching DEF Near
    <3>2. CASE p # e
      <4>1. Near(linked, p)
        BY <3>2, <2>2, <1>2 DEF RootInv, KeptInv
      <4>2. \A t \in Batches : Bears(t, p) => Bears(t, p)'
        BY <3>2, <1>1, <1>2 DEF Bears
      <4>3. Comes(linked, p) => Comes(linked, p)'
        BY <3>2, <1>1, <1>2 DEF Comes
      <4> QED BY <4>1, <4>2, <4>3, <1>1, <1>3 DEF Near
    <3> QED BY <3>1, <3>2
  <2> QED BY <1>1, <2>1, <2>2 DEF RootInv, KeptInv
<1> QED BY <1>1, <1>5, <1>6, IndexAside, OutsideSteps

-----------------------------------------------------------------------------
(* Steps that move one thread and leave the objects alone *)

\* A thread of none of the batches moves, or a batch that neither takes nor leaves.
LEMMA ThreadSteps ==
  ASSUME RootInv, RestType', NEW t \in Threads, OnlyThread(t), StageOk(t, op'[t]),
         UNCHANGED <<root, linked, life, giveUps, index, other, reading>>,
         \A o \in Objs : role' = o <=> role = o,
         op'[t].at \in Holding => op[t].at \in Holding \/ GateFree,
         op'[t].obj = op[t].obj \/ op'[t].obj = 0
           \/ (op'[t].obj \in Objs /\ Touchable(op'[t].obj)),
         op'[t].gen = op[t].gen \/ op'[t].gen <= index.gen,
         op'[t] # Idle => op[t] # Idle \/ t \notin Watches \cup Loads
                          \/ \E o \in Objs : t \in {Callback(o), Load(o)} /\ root[o].watch,
         op[t].at = "install" => ~op[t].bump,
         t \in Batches => /\ Quiet(t, op'[t])
                          /\ op'[t].at = "walk" => op'[t].full \/ index.is = "gone",
         linked # 0 => (Soon(linked) => Soon(linked)'),
         KeptInv'
  PROVE  RootInv'
<1>0. root' = root /\ linked' = linked /\ life' = life /\ giveUps' = giveUps
      /\ index' = index /\ other' = other /\ reading' = reading
  OBVIOUS
<1>1. RootTyped /\ op' \in [Threads -> OpType] /\ \A o \in Objs : SameRoot(o)
  BY <1>0, SameRoots DEF RootInv, OnlyThread
<1>2. GateInv' /\ StageInv'
  BY GateSteps, StageSteps DEF OnlyThread
<1>3. Steady
  <2>1. \A o \in Objs : /\ op'[Callback(o)] # Idle => op[Callback(o)] # Idle \/ root[o].watch
                        /\ op'[Load(o)] # Idle => op[Load(o)] # Idle \/ root[o].watch
    <3> SUFFICES ASSUME NEW o \in Objs
                 PROVE  /\ op'[Callback(o)] # Idle => op[Callback(o)] # Idle \/ root[o].watch
                        /\ op'[Load(o)] # Idle => op[Load(o)] # Idle \/ root[o].watch
      OBVIOUS
    <3>1. Callback(o) \in Watches /\ Load(o) \in Loads
      BY DEF Watches, Loads
    <3> QED BY <3>1, Kinds DEF OnlyThread
  <2>2. \A u \in Threads : \/ op'[u].obj = op[u].obj \/ op'[u].obj = 0
                           \/ op'[u].obj \in Objs /\ Touchable(op'[u].obj)
    BY DEF OnlyThread
  <2> QED BY <1>0, <1>1, <2>1, <2>2 DEF Steady, SameRoot, SameNewer, Known
<1>4. KnownInv' /\ LifeInv' /\ OwnedInv'
  BY <1>3, SteadySteps
<1>5. GenInv'
  <2>1. \A u \in Threads : op'[u].gen = op[u].gen \/ op'[u].gen <= index'.gen
    BY <1>0 DEF OnlyThread
  <2>2. index.gen <= index'.gen
    BY <1>0, IndexTyped
  <2> QED BY <1>0, <1>1, <2>1, <2>2, GenSteps
<1>6. GoneInv'
  BY <1>0 DEF RootInv, GoneInv, OnlyThread, Threads
<1>7. ServeInv'
  <2>1. Publishing => Publishing'
    BY <1>0 DEF Publishing, OnlyThread
  <2> QED BY <1>0, <1>1, <2>1, ServeSteps DEF SameRoot, SameNewer
<1>8. HeldInv'
  <2>1. \A u \in Batches : Quiet(u, op'[u])
    BY DEF Quiet, OnlyThread, Threads
  <2> QED BY <1>0, <1>1, <2>1, HeldSteps DEF SameRoot
<1> QED BY <1>1, <1>2, <1>4, <1>5, <1>6, <1>7, <1>8 DEF RootInv, RootTyped

\* A thread that brings nothing, and ends nothing, lets nothing slip.
LEMMA KeptThread ==
  ASSUME RootInv, NEW t \in Threads, OnlyThread(t),
         UNCHANGED <<root, linked>>, UNCHANGED <<treeVars, watchVars>>,
         t \in Batches => /\ op[t].at \notin Taken \cup {"waits"}
                          /\ op'[t].at \notin Taken \cup {"finally"},
         \A o \in Objs : t = Load(o) =>
           \/ op[t].at \notin {"queued", "waits", "lock", "walk"}
           \/ op'[t].at \in {"queued", "waits", "lock"}
  PROVE  KeptInv'
<1>1. /\ root' = root /\ linked' = linked
      /\ stale' = stale /\ dropped' = dropped /\ missed' = missed
      /\ events' = events /\ overflow' = overflow
  BY DEF treeVars, watchVars
<1>2. \A u \in Batches, p \in Paths : Bears(u, p) => Bears(u, p)'
  BY <1>1 DEF Bears, OnlyThread, Threads, Taken
<1>3. linked # 0 => \A p \in Paths : Comes(linked, p) => Comes(linked, p)'
  BY <1>1, Touching, Kinds DEF Comes, OnlyThread
<1>4. \A o \in Objs : SameWatch(o)
  BY <1>1 DEF SameWatch
<1>5. \A u \in Batches : op'[u].at \in Taken \cup {"finally"} =>
           op[u].at \in Taken \cup {"finally"} /\ op'[u].obj = op[u].obj
  BY DEF OnlyThread, Threads
<1>6. \A o \in Objs : op'[Callback(o)].at = "walk" => op[Callback(o)].at = "walk"
  BY Kinds DEF OnlyThread, Taken, Batches, Watches
<1> QED BY <1>1, <1>2, <1>3, <1>4, <1>5, <1>6, KeptSteps

\* The session's other work takes BuildGate and gives it back.
LEMMA OthersStep ==
  ASSUME RootInv, OthersHold \/ OthersRelease
  PROVE  RootInv'
<1>1. /\ UNCHANGED <<root, linked, life, giveUps, index, other, reading, links, role, timer,
                     happened, faults>>
      /\ UNCHANGED <<treeVars, watchVars>>
  BY DEF OthersHold, OthersRelease, treeVars, diskVars, lifeVars, watchVars, bounds
<1>2. RestType'
  BY <1>1 DEF RootInv, RestType, treeVars, watchVars
<1>3. /\ OnlyThread(Others) /\ op'[Others].obj = 0 /\ op'[Others].gen = 0
      /\ StageOk(Others, op'[Others]) /\ op[Others].at \in {"idle", "other"}
      /\ op'[Others].at \in Holding => op[Others].at \in Holding \/ GateFree
  <2>1. /\ op \in [Threads -> OpType] /\ Others \in Threads /\ "other" \in Stages
        /\ Others \notin Batches \cup Loads /\ Others # Query /\ Others \notin Watches \cup Retries
    BY Kinds DEF RootInv, Stages, Batches
  <2>2. op[Others].at \in {"idle", "other"}
    BY <2>1 DEF RootInv, StageInv, StageOk, StagesOf
  <2>3. CASE OthersHold
    <3>1. OnlyThread(Others) /\ op'[Others] = At("other") /\ GateFree
      BY <2>1, <2>3, Records, Becomes DEF OthersHold
    <3> QED BY <3>1, <2>1, <2>2, Records DEF StageOk, StagesOf
  <2>4. CASE OthersRelease
    <3>1. OnlyThread(Others) /\ op'[Others] = Idle
      BY <2>1, <2>4, Records, Becomes DEF OthersRelease
    <3> QED BY <3>1, <2>1, <2>2, Records DEF StageOk, StagesOf, Holding
  <2> QED BY <2>3, <2>4
<1>4. Others \in Threads /\ Others \notin Batches \cup Loads \cup Watches
      /\ \A o \in Objs : Others # Load(o)
  BY Kinds DEF Batches
<1>5. KeptInv'
  BY <1>1, <1>3, <1>4, KeptThread
<1>6. Soon(linked) => Soon(linked)'
  BY <1>1, <1>3, <1>4 DEF Soon, OnlyThread, Threads, Batches
<1>7. 0 <= index.gen
  BY IndexTyped
<1> QED BY <1>1, <1>2, <1>3, <1>4, <1>5, <1>6, <1>7, ThreadSteps

\* A query takes BuildGate to reload, with the generation it has seen.
LEMMA ReloadStep ==
  ASSUME RootInv, Reload
  PROVE  RootInv'
<1>1. /\ UNCHANGED <<root, linked, life, giveUps, index, other, reading, links, role, timer,
                     happened, faults>>
      /\ UNCHANGED <<treeVars, watchVars>>
  BY DEF Reload, treeVars, diskVars, lifeVars, watchVars, bounds
<1>2. RestType'
  BY <1>1 DEF RootInv, RestType, treeVars, watchVars
<1>3. /\ Query \in Threads /\ Query \notin Batches \cup Loads \cup Watches \cup Retries
      /\ \A o \in Objs : Query # Load(o)
  BY Kinds DEF Batches
<1>4. linked \in Objs /\ Touchable(linked) /\ index.gen # 0 /\ index.gen <= index.gen
  BY Touching, IndexTyped DEF Reload, RootInv, GenInv
<1>5. /\ OnlyThread(Query) /\ op'[Query].at = "reload" /\ op'[Query].obj = linked
      /\ op'[Query].gen = index.gen /\ op'[Query].paths = {} /\ op'[Query].full = FALSE
  <2>1. [At("reload") EXCEPT !.obj = linked, !.gen = index.gen] \in OpType
    BY Records, IndexTyped DEF OpType, RootInv, RestType, Stages
  <2>2. /\ OnlyThread(Query)
        /\ op'[Query] = [At("reload") EXCEPT !.obj = linked, !.gen = index.gen]
    BY <1>3, <2>1, Becomes DEF Reload, RootInv
  <2>3. "reload" \in Stages
    BY DEF Stages
  <2> QED BY <2>2, <2>3, Records DEF OpType
<1>6. StageOk(Query, op'[Query])
  BY <1>3, <1>4, <1>5, Zero DEF StageOk, StagesOf
<1>7. op[Query] = Idle /\ op[Query].at = "idle" /\ GateFree
  BY Records DEF Reload
<1>8. KeptInv'
  BY <1>1, <1>3, <1>5, KeptThread
<1>9. Soon(linked) => Soon(linked)'
  BY <1>1, <1>3, <1>5 DEF Soon, OnlyThread, Threads, Batches
<1> QED BY <1>1, <1>2, <1>3, <1>4, <1>5, <1>6, <1>7, <1>8, <1>9, ThreadSteps

\* The reconcile starts, and enters BuildGate.
LEMMA LoadMovesStep ==
  ASSUME RootInv, NEW o \in Objs, LoadStarts(o) \/ LoadEnters(o)
  PROVE  RootInv'
<1>1. /\ UNCHANGED <<root, linked, life, giveUps, index, other, reading, links, role, timer,
                     happened, faults>>
      /\ UNCHANGED <<treeVars, watchVars>>
  BY DEF LoadStarts, LoadEnters, treeVars, diskVars, lifeVars, watchVars, bounds
<1>2. RestType'
  BY <1>1 DEF RootInv, RestType, treeVars, watchVars
<1> DEFINE t == Load(o)
<1>3. /\ t \in Threads /\ t \in Loads /\ t \notin Batches \cup Watches \cup Retries \cup {Query}
      /\ op \in [Threads -> OpType] /\ o \in 0..MaxLinks
      /\ \A q \in Objs : t = Load(q) => q = o
  BY Kinds, Zero DEF Batches, Loads, RootInv
<1>4. op[t].at \in {"queued", "waits"} /\ op[t] # Idle /\ Touchable(o)
  BY Touching, Records DEF LoadStarts, LoadEnters
<1>5. /\ OnlyThread(t) /\ op'[t].at \in {"waits", "lock"}
      /\ op'[t].obj \in {op[t].obj, o} /\ op'[t].gen = op[t].gen
      /\ op'[t].paths = op[t].paths /\ op'[t].full = op[t].full
      /\ op'[t].at \in Holding => GateFree
  <2>1. CASE LoadStarts(o)
    <3>1. Onward(t, "waits")
      BY <2>1, <1>3, Advances DEF LoadStarts, Stages
    <3> QED BY <3>1 DEF Onward, Holding
  <2>2. CASE LoadEnters(o)
    BY <2>2, <1>3 DEF LoadEnters, OnlyThread, OpType, Stages
  <2> QED BY <2>1, <2>2
<1>6. StageOk(t, op'[t])
  <2>1. op[t].paths = {} 
    BY <1>3 DEF RootInv, StageInv, StageOk
  <2> QED BY <2>1, <1>3, <1>5 DEF StageOk, StagesOf
<1>7. KeptInv'
  BY <1>1, <1>3, <1>5, KeptThread
<1>8. Soon(linked) => Soon(linked)'
  BY <1>1, <1>3, <1>5 DEF Soon, OnlyThread, Threads, Batches
<1> HIDE DEF t
<1> QED BY <1>1, <1>2, <1>3, <1>4, <1>5, <1>6, <1>7, <1>8, ThreadSteps

\* The timer's thread is on its way.
LEMMA RetryFiresStep ==
  ASSUME RootInv, NEW k \in Pool, RetryFires(k)
  PROVE  RootInv'
<1>1. /\ UNCHANGED <<root, linked, life, giveUps, index, other, reading, links, role,
                     happened, faults>>
      /\ UNCHANGED <<treeVars, watchVars>> /\ timer' = FALSE
  BY DEF RetryFires, treeVars, diskVars, lifeVars, watchVars, bounds
<1>2. RestType'
  BY <1>1 DEF RootInv, RestType, treeVars, watchVars
<1> DEFINE t == Retry(k)
<1>3. /\ t \in Threads /\ t \in Retries /\ t \in Batches /\ t \notin Watches \cup Loads
      /\ \A q \in Objs : t # Load(q)
  BY Kinds DEF Batches, Retries, Loads
<1>4. OnlyThread(t) /\ op'[t] = At("fired") /\ "fired" \in Stages /\ op[t] = Idle
  BY <1>3, Becomes, Records DEF RetryFires, RootInv, Stages
<1>5. StageOk(t, op'[t]) /\ Quiet(t, op'[t])
  BY <1>3, <1>4, Records DEF StageOk, StagesOf, Quiet, Taken
<1>6. KeptInv'
  BY <1>1, <1>3, <1>4, Records, KeptThread DEF Taken
<1>7. Soon(linked)'
  BY <1>3, <1>4, Records DEF Soon
<1>8. 0 <= index.gen /\ op'[t].at = "fired" /\ op'[t].obj = 0 /\ op'[t].gen = 0
  BY IndexTyped, <1>4, Records
<1>9. op[t].at # "install" /\ "fired" \notin Holding
  BY <1>4, Records DEF Holding
<1> HIDE DEF t
<1> QED BY <1>1, <1>2, <1>3, <1>4, <1>5, <1>6, <1>7, <1>8, <1>9, ThreadSteps

\* The watcher hands what it has to a batch.
LEMMA DeliverStep ==
  ASSUME RootInv, NEW o \in Objs, Deliver(o)
  PROVE  RootInv'
<1>1. /\ UNCHANGED <<root, linked, life, giveUps, index, other, reading, links, role, timer,
                     happened, faults>>
      /\ UNCHANGED treeVars /\ events' = {} /\ overflow' = FALSE /\ root[o].watch
  BY DEF Deliver, treeVars, diskVars, lifeVars, bounds
<1>2. RestType'
  BY <1>1 DEF RootInv, RestType, treeVars
<1> DEFINE t == Callback(o)
           r == [At("waits") EXCEPT !.paths = IF overflow THEN {} ELSE events,
                                    !.full = overflow]
<1>3. /\ t \in Threads /\ t \in Watches /\ t \in Batches /\ t \notin Loads \cup Retries
      /\ t # Query
      /\ \A q \in Objs : t # Load(q) /\ (t = Callback(q) => q = o)
  BY Kinds DEF Batches, Watches
<1>4. /\ r \in OpType /\ r.at = "waits" /\ r.obj = 0 /\ r.gen = 0 /\ r.full = overflow
      /\ r.paths = IF overflow THEN {} ELSE events
  <2>1. events \in SUBSET Paths /\ overflow \in BOOLEAN
    BY DEF RootInv, RestType
  <2>2. /\ At("waits") \in OpType /\ At("waits").at = "waits" /\ At("waits").obj = 0
        /\ At("waits").gen = 0
    BY Records DEF Stages
  <2> QED BY <2>1, <2>2 DEF OpType
<1>5. OnlyThread(t) /\ op'[t] = r /\ op[t] = Idle
  BY <1>3, <1>4, Becomes DEF Deliver, RootInv
<1> HIDE DEF r
<1>6. StageOk(t, op'[t]) /\ Quiet(t, op'[t])
  BY <1>3, <1>4, <1>5, Records DEF StageOk, StagesOf, Quiet, Taken
<1>7. Soon(linked) => Soon(linked)'
  BY <1>1, <1>3, <1>5 DEF Soon, OnlyThread, Batches, Threads
<1>8. KeptInv'
  <2>1. /\ root' = root /\ linked' = linked
        /\ stale' = stale /\ dropped' = dropped /\ missed' = missed
    BY <1>1 DEF treeVars
  <2>2. \A u \in Batches : op'[u].at \in Taken \cup {"finally"} /\ op'[u].obj = 0 =>
          linked' = 0 /\ u \in Watches
    BY <2>1, <1>3, <1>4, <1>5 DEF RootInv, KeptInv, OnlyThread, Threads, Taken
  <2>3. ASSUME NEW q \in Objs, op'[Callback(q)].at = "walk", root'[q].watch
        PROVE  missed' \subseteq events' \/ overflow'
    <3>1. q # o /\ op[Callback(q)].at = "walk"
      BY <2>3, <1>4, <1>5, <1>3, Kinds DEF OnlyThread
    <3>2. role = q /\ role = o
      BY <2>1, <2>3, <1>1 DEF RootInv, OwnedInv
    <3> QED BY <3>1, <3>2
  <2>4. ASSUME linked # 0, root[linked].watch, NEW p \in stale \ dropped
        PROVE  Near(linked, p)'
    <3>1. Near(linked, p) /\ linked \in Objs
      BY <2>4, Touching DEF RootInv, KeptInv
    <3>2. CASE p \in events \/ overflow
      <4>1. Bears(t, p)'
        BY <3>2, <1>4, <1>5 DEF Bears
      <4> QED BY <4>1, <1>3 DEF Near
    <3>3. CASE p \in root[linked].held
      BY <3>3, <2>1 DEF Near
    <3>4. CASE \E u \in Batches : Bears(u, p)
      <4>1. PICK u \in Batches : Bears(u, p)
        BY <3>4
      <4>2. u # t
        BY <4>1, <1>5, Records DEF Bears
      <4>3. Bears(u, p)'
        BY <4>1, <4>2, <1>5, <2>1 DEF Bears, OnlyThread, Threads
      <4> QED BY <4>3 DEF Near
    <3>5. CASE Comes(linked, p)
      <4>1. op'[Load(linked)] = op[Load(linked)]
        BY <3>1, <1>3, <1>5, Kinds DEF OnlyThread
      <4> QED BY <3>5, <4>1, <2>1 DEF Comes, Near
    <3> QED BY <3>1, <3>2, <3>3, <3>4, <3>5 DEF Near
  <2> QED BY <2>1, <2>2, <2>3, <2>4 DEF KeptInv
<1>9. 0 <= index.gen /\ op[t].at = "idle" /\ "waits" \notin Holding
  BY IndexTyped, <1>5, Records DEF Holding
<1> HIDE DEF t
<1>10. t \in {Callback(o), Load(o)}
  BY DEF t
<1> QED BY <1>1, <1>2, <1>3, <1>4, <1>5, <1>6, <1>7, <1>8, <1>9, <1>10, ThreadSteps

\* A retry looks at the flag.
LEMMA RetryLooksStep ==
  ASSUME RootInv, NEW k \in Pool, RetryLooks(k)
  PROVE  RootInv'
<1>1. /\ UNCHANGED <<linked, life, giveUps, index, other, reading, links, role, timer,
                     happened, faults>>
      /\ UNCHANGED <<treeVars, watchVars>>
  BY DEF RetryLooks, treeVars, diskVars, lifeVars, watchVars, bounds
<1>2. RestType'
  BY <1>1 DEF RootInv, RestType, treeVars, watchVars
<1> DEFINE t == Retry(k)
           takes == linked # 0 /\ root[linked].flag
<1>3. /\ t \in Threads /\ t \in Retries /\ t \in Batches /\ t \notin Watches \cup Loads
      /\ t # Query /\ \A q \in Objs : t # Load(q) /\ t # Callback(q)
  BY Kinds DEF Batches, Retries, Loads
<1>4. OnlyThread(t) /\ op'[t] = IF takes THEN At("waits") ELSE Idle
  BY <1>3, Becomes, Records DEF RetryLooks, RootInv, Stages
<1>5. op[t].at = "fired" /\ op'[t].at \in {"waits", "idle"} /\ op'[t].obj = 0
      /\ op'[t].paths = {} /\ op'[t].full = FALSE /\ op'[t].gen = 0
      /\ (takes => op'[t].at = "waits")
  BY <1>4, Records DEF RetryLooks, Stages
<1>6. StageOk(t, op'[t]) /\ Quiet(t, op'[t])
  BY <1>3, <1>4, <1>5, Records DEF StageOk, StagesOf, Quiet, Taken
<1>7. /\ RootTyped
      /\ \A o \in Objs : SameWatch(o) /\ SameHandle(o) /\ SameNewer(o)
      /\ \A o \in Objs \ {linked} : SameHeld(o)
      /\ linked # 0 => /\ root'[linked].held = root[linked].held
                       /\ root'[linked].flag = root[linked].flag
                       /\ root[linked].passed => root'[linked].passed
                       /\ ~takes /\ root[linked].held # {} => root'[linked].passed
  <2>1. root \in [Objs -> RootType]
    BY DEF RootInv
  <2>2. CASE linked # 0 /\ ~takes /\ root[linked].held # {}
    <3>1. root' = [root EXCEPT ![linked].passed = TRUE] /\ linked \in Objs
      BY <2>2, Touching DEF RetryLooks
    <3> QED BY <2>1, <2>2, <3>1
         DEF RootTyped, RootType, SameWatch, SameHandle, SameNewer, SameHeld
  <2>3. CASE ~(linked # 0 /\ ~takes /\ root[linked].held # {})
    <3>1. root' = root
      BY <2>3 DEF RetryLooks
    <3> QED BY <2>1, <2>3, <3>1, SameRoots, Touching DEF SameRoot
  <2> QED BY <2>2, <2>3
<1> HIDE DEF takes
<1>8. op' \in [Threads -> OpType] /\ GateInv' /\ StageInv'
  BY <1>3, <1>4, <1>5, <1>6, GateSteps, StageSteps DEF OnlyThread, Holding
<1>9. Steady
  <2>1. \A o \in Objs : Touchable(o) \/ SameRoot(o)
    BY <1>7, Touching, Zero DEF SameRoot
  <2>2. \A o \in Objs : op'[Callback(o)] = op[Callback(o)] /\ op'[Load(o)] = op[Load(o)]
    BY <1>3, <1>4, Kinds DEF OnlyThread
  <2>3. \A u \in Threads : op'[u].obj = op[u].obj \/ op'[u].obj = 0
    BY <1>4, <1>5 DEF OnlyThread
  <2> QED BY <1>1, <1>7, <2>1, <2>2, <2>3 DEF Steady, SameHandle, SameNewer, Known
<1>10. KnownInv' /\ LifeInv' /\ OwnedInv'
  BY <1>9, SteadySteps
<1>11. GenInv'
  <2>1. \A u \in Threads : op'[u].gen = op[u].gen \/ op'[u].gen <= index'.gen
    BY <1>1, <1>4, <1>5, IndexTyped DEF OnlyThread
  <2> QED BY <1>1, <1>2, <1>7, <1>8, <2>1, IndexTyped, GenSteps DEF SameHandle
<1>12. GoneInv'
  BY <1>1, <1>4, <1>5, GoneSteps DEF OnlyThread, Threads
<1>13. ServeInv'
  <2>1. Publishing => Publishing'
    BY <1>1, <1>4, <1>5 DEF Publishing, OnlyThread
  <2> QED BY <1>1, <1>2, <1>7, <2>1, ServeSteps DEF SameNewer
<1>14. HeldInv'
  <2>1. \A u \in Batches : op'[u].at \in Taken => op'[u] = op[u]
    BY <1>4, <1>5 DEF OnlyThread, Threads, Taken
  <2>2. \A o \in Objs : root'[o].held = root[o].held /\ root'[o].flag = root[o].flag
    BY <1>7, Zero DEF SameHeld
  <2>3. \A u \in Batches : op[u].obj # 0 => op[u].obj \in Objs
    BY Touching DEF Threads
  <2>4. linked # 0 => linked \in Objs
    BY Touching
  <2>5. linked # 0 /\ Soon(linked) /\ (root[linked].held # {} \/ root[linked].flag) => Soon(linked)'
    <3> SUFFICES ASSUME linked # 0, Soon(linked), root[linked].held # {} \/ root[linked].flag
                 PROVE  Soon(linked)'
      OBVIOUS
    <3>1. CASE takes
      BY <3>1, <1>3, <1>5 DEF Soon
    <3>2. CASE ~takes /\ root[linked].held # {}
      BY <3>2, <1>1, <1>7 DEF Soon
    <3>3. CASE ~takes /\ root[linked].held = {}
      BY <3>3 DEF takes
    <3> QED BY <3>1, <3>2, <3>3
  <2>6. \A u \in Batches : op[u].at = "finally" => op'[u] = op[u]
    BY <1>4, <1>5 DEF OnlyThread, Threads
  <2>7. \A u \in Batches : op'[u].at \in Taken /\ op'[u].obj # 0 => root'[op'[u].obj].held = {}
    BY <2>1, <2>2, <2>3 DEF RootInv, HeldInv
  <2>8. linked' # 0 /\ root'[linked'].held # {} =>
          /\ Soon(linked)'
          /\ \/ root'[linked'].flag
             \/ \E u \in Batches : op'[u].at = "finally" /\ op'[u].obj = linked'
    BY <1>1, <2>2, <2>4, <2>5, <2>6 DEF RootInv, HeldInv
  <2>9. \A u \in Batches :
          linked' # 0 /\ op'[u].at = "lock" /\ op'[u].obj = linked' /\ op'[u].full
          /\ op'[u].paths # {} => root'[linked'].flag /\ Soon(linked)'
    BY <1>1, <2>1, <2>2, <2>4, <2>5 DEF RootInv, HeldInv, Taken
  <2> QED BY <1>1, <2>7, <2>8, <2>9 DEF HeldInv
<1>15. KeptInv'
  <2>1. \A u \in Batches, p \in Paths : Bears(u, p) => Bears(u, p)'
    BY <1>1, <1>4, <1>5 DEF Bears, OnlyThread, Threads, treeVars
  <2>2. linked # 0 => \A p \in Paths : Comes(linked, p) => Comes(linked, p)'
    BY <1>1, <1>3, <1>4, Touching, Kinds DEF Comes, OnlyThread, treeVars
  <2>3. \A u \in Batches : op'[u].at \in Taken \cup {"finally"} =>
           op[u].at \in Taken \cup {"finally"} /\ op'[u].obj = op[u].obj
    BY <1>4, <1>5 DEF OnlyThread, Threads, Taken
  <2>4. \A o \in Objs : op'[Callback(o)].at = "walk" => op[Callback(o)].at = "walk"
    BY <1>3, <1>4, Kinds DEF OnlyThread
  <2>5. linked # 0 => root[linked].held \subseteq root'[linked].held
    BY <1>7
  <2>6. /\ missed' = missed /\ events' = events /\ overflow' = overflow
        /\ stale' = stale /\ dropped' = dropped /\ linked' = linked
    BY <1>1 DEF treeVars, watchVars
  <2> QED BY <1>7, <2>1, <2>2, <2>3, <2>4, <2>5, <2>6, KeptSteps
<1> QED BY <1>2, <1>7, <1>8, <1>10, <1>11, <1>12, <1>13, <1>14, <1>15 DEF RootInv, RootTyped

-----------------------------------------------------------------------------
(* A batch *)

\* A batch moves, and holds back or takes what one object holds.
LEMMA BatchSteps ==
  ASSUME RootInv, RestType', NEW t \in Batches, OnlyThread(t), StageOk(t, op'[t]),
         UNCHANGED <<linked, life, other, reading>>,
         \A o \in Objs : role' = o <=> role = o,
         giveUps \subseteq giveUps', giveUps' \subseteq giveUps \cup {linked},
         index'.ver = index.ver, index.gen <= index'.gen,
         RootTyped, NEW b \in {linked, op[t].obj}, \A x \in Objs \ {b} : SameHeld(x),
         \A x \in Objs : /\ SameWatch(x) /\ SameHandle(x)
                         /\ root[x].newer => root'[x].newer
                         /\ x = linked \/ SameNewer(x)
                         /\ root'[x].newer /\ root'[x].never /\ x \notin giveUps' =>
                              root[x].newer /\ root[x].never,
         op'[t].at \in Holding => op[t].at \in Holding \/ GateFree,
         op'[t].obj \in {op[t].obj, 0, linked}, op'[t].gen = op[t].gen \/ op'[t].gen = 0,
         op[t].at # "idle", op[t].at = "install" => ~op[t].bump,
         GoneInv', HeldInv', KeptInv'
  PROVE  RootInv'
<1>0. linked' = linked /\ life' = life /\ other' = other /\ reading' = reading
      /\ t \in Threads
  BY DEF Threads
<1>1. GateInv' /\ StageInv' /\ op' \in [Threads -> OpType]
  BY <1>0, GateSteps, StageSteps DEF OnlyThread
<1>2. Steady
  <2>1. \A o \in Objs : Touchable(o) \/ SameRoot(o)
    BY Touching, Zero, <1>0 DEF SameRoot
  <2>2. \A o \in Objs : /\ op'[Callback(o)] # Idle => op[Callback(o)] # Idle
                        /\ op'[Load(o)] # Idle => op[Load(o)] # Idle
    BY Kinds, Records DEF OnlyThread
  <2>3. \A u \in Threads : \/ op'[u].obj = op[u].obj \/ op'[u].obj = 0
                           \/ op'[u].obj \in Objs /\ Touchable(op'[u].obj)
    BY Touching, <1>0 DEF OnlyThread
  <2> QED BY <1>0, <2>1, <2>2, <2>3 DEF Steady, SameHandle, Known
<1>3. KnownInv' /\ LifeInv' /\ OwnedInv'
  BY <1>2, SteadySteps
<1>4. GenInv'
  <2>1. 0 <= index'.gen
    BY DEF RestType, IndexType
  <2>2. \A u \in Threads : op'[u].gen = op[u].gen \/ op'[u].gen <= index'.gen
    BY <1>0, <2>1 DEF OnlyThread
  <2> QED BY <1>0, <1>1, <2>2, GenSteps DEF SameHandle
<1>5. ServeInv'
  <2>1. Publishing => Publishing'
    BY <1>0 DEF Publishing, OnlyThread
  <2>2. \A o \in Objs : root[o].gen <= index.gen /\ root[o].failed <= index.gen
    BY DEF RootInv, GenInv
  <2>3. index.gen < index'.gen \/ index'.gen = index.gen
    BY IndexTyped DEF RestType, IndexType
  <2>4. \A o \in Objs : Noticed(o) => Noticed(o)'
    BY <2>1, <2>2, <2>3, NoticedSteps DEF SameHandle
  <2>5. reading.obj # 0 => reading.obj \in Objs
    BY Touching DEF RootInv, ServeInv
  <2> QED BY <1>0, <2>4, <2>5 DEF RootInv, ServeInv, SameHandle
<1> QED BY <1>1, <1>3, <1>4, <1>5 DEF RootInv, RootTyped

\* The end of a batch, its last step or for want of anything to do.
LEMMA LeaveSteps ==
  ASSUME RootInv, RestType', NEW t \in Batches, NEW o \in {linked, op[t].obj},
         NEW held \in SUBSET Paths, Leave(t, o, held),
         UNCHANGED <<linked, life, giveUps, index, other, reading, role>>,
         op[t].at \notin {"idle", "install"}, HeldInv', KeptInv'
  PROVE  RootInv'
<1>1. o \in 0..MaxLinks /\ t \in Threads /\ op \in [Threads -> OpType]
      /\ root \in [Objs -> RootType]
  BY DEF RootInv, RestType, OpType, Threads
<1>2. /\ OnlyThread(t) /\ op'[t] = Idle /\ RootTyped
      /\ \A x \in Objs : SameWatch(x) /\ SameHandle(x) /\ SameNewer(x)
      /\ \A x \in Objs \ {o} : SameHeld(x)
  BY <1>1, Leaving
<1>3. /\ StageOk(t, op'[t]) /\ op'[t].at \notin Holding \cup {"walk"}
      /\ op'[t].obj = 0 /\ op'[t].gen = 0
  BY <1>1, <1>2, Records, Kinds DEF StageOk, StagesOf, Batches, Holding
<1>4. GoneInv'
  BY <1>2, <1>3, GoneSteps DEF OnlyThread, Threads
<1>5. index.gen <= index'.gen
  BY IndexTyped
<1> QED BY <1>2, <1>3, <1>4, <1>5, BatchSteps DEF SameNewer

\* A batch that failed ends.
LEMMA FinallyStep ==
  ASSUME RootInv, NEW t \in Batches, Finally(t)
  PROVE  RootInv'
<1> DEFINE o == op[t].obj
<1>1. /\ UNCHANGED <<linked, life, giveUps, index, other, reading, links, role, timer,
                     happened, faults>>
      /\ UNCHANGED <<treeVars, watchVars>>
      /\ op[t].at = "finally" /\ Leave(t, o, HeldBy(o))
  BY DEF Finally, treeVars, diskVars, lifeVars, watchVars, bounds
<1>2. RestType'
  BY <1>1 DEF RootInv, RestType, treeVars, watchVars
<1>3. /\ t \in Threads /\ op \in [Threads -> OpType] /\ root \in [Objs -> RootType]
      /\ o \in 0..MaxLinks /\ HeldBy(o) \in SUBSET Paths
      /\ (o # 0 => o \in Objs /\ HeldBy(o) = root[o].held)
      /\ \A q \in Objs : t # Load(q)
  BY Zero, Kinds DEF RootInv, OpType, RootType, Threads, HeldBy
<1>4. /\ OnlyThread(t) /\ op'[t] = Idle /\ RootTyped
      /\ \A x \in Objs : SameWatch(x) /\ SameHandle(x) /\ SameNewer(x)
      /\ \A x \in Objs \ {o} : SameHeld(x)
      /\ o # 0 => /\ root'[o].held = root[o].held /\ (root'[o].flag <=> root[o].held # {})
                  /\ root'[o].passed <=> root[o].passed /\ root[o].held # {}
  BY <1>1, <1>3, Leaving
<1>5. HeldInv'
  <2>1. \A u \in Batches : op'[u].at # "idle" => u # t /\ op'[u] = op[u]
    BY <1>4, Records DEF OnlyThread, Threads
  <2>2. \A x \in Objs : root'[x].held = root[x].held
    BY <1>4, Zero DEF SameHeld
  <2>3. linked # 0 => linked \in Objs
    BY Touching
  <2>4. \A u \in Batches : op'[u].at \in Taken /\ op'[u].obj # 0 => root'[op'[u].obj].held = {}
    BY <2>1, <2>2, Touching DEF RootInv, HeldInv, Threads, Taken
  <2>5. linked # 0 /\ root[linked].held # {} /\ Soon(linked) => Soon(linked)'
    BY <1>1, <1>3, <1>4, <2>3 DEF Soon, OnlyThread, Threads, Batches, SameHeld
  <2>6. linked # 0 /\ root[linked].held # {} => 
          \/ root'[linked].flag
          \/ \E u \in Batches : op'[u].at = "finally" /\ op'[u].obj = linked
    <3> SUFFICES ASSUME linked # 0, root[linked].held # {}, linked # o
                 PROVE  \/ root'[linked].flag
                        \/ \E u \in Batches : op'[u].at = "finally" /\ op'[u].obj = linked
      BY <1>4
    <3>1. SameHeld(linked)
      BY <1>4, <2>3
    <3>2. \A u \in Batches : op[u].obj = linked => op'[u] = op[u]
      BY <1>4 DEF OnlyThread, Threads
    <3> QED BY <3>1, <3>2 DEF RootInv, HeldInv, SameHeld
  <2>7. \A u \in Batches : op'[u].at # "lock"
    BY <1>1, <1>3, <2>1 DEF RootInv, GateInv, Holding, Threads
  <2> QED BY <1>1, <2>2, <2>3, <2>4, <2>5, <2>6, <2>7 DEF RootInv, HeldInv
<1>6. KeptInv'
  <2>1. \A u \in Batches, p \in Paths : Bears(u, p) => Bears(u, p)'
    BY <1>1, <1>4 DEF Bears, OnlyThread, Threads, treeVars
  <2>2. linked # 0 => \A p \in Paths : Comes(linked, p) => Comes(linked, p)'
    BY <1>1, <1>3, <1>4, Touching, Kinds DEF Comes, OnlyThread, treeVars
  <2>3. \A u \in Batches : op'[u].at \in Taken \cup {"finally"} =>
           op[u].at \in Taken \cup {"finally"} /\ op'[u].obj = op[u].obj
    BY <1>4, Records DEF OnlyThread, Threads, Taken
  <2>4. \A q \in Objs : op'[Callback(q)].at = "walk" => op[Callback(q)].at = "walk"
    BY <1>4, Kinds, Records DEF OnlyThread
  <2>5. linked # 0 => root[linked].held \subseteq root'[linked].held
    BY <1>4, Touching DEF SameHeld
  <2>6. /\ missed' = missed /\ events' = events /\ overflow' = overflow
        /\ stale' = stale /\ dropped' = dropped /\ linked' = linked
    BY <1>1 DEF treeVars, watchVars
  <2> QED BY <1>4, <2>1, <2>2, <2>3, <2>4, <2>5, <2>6, KeptSteps
<1> HIDE DEF o
<1>7. o \in {linked, op[t].obj}
  BY DEF o
<1> QED BY <1>1, <1>2, <1>3, <1>5, <1>6, <1>7, LeaveSteps

\* A batch that lost events leaves the walk to the user.
LEMMA SkipRebuildStep ==
  ASSUME RootInv, NEW t \in Batches, SkipRebuild(t)
  PROVE  RootInv'
<1> DEFINE o == op[t].obj
           held == HeldBy(o) \cup op[t].paths
<1>1. /\ UNCHANGED <<linked, life, giveUps, index, other, reading, links, role, timer,
                     happened, faults, auto>>
      /\ UNCHANGED watchVars /\ stale' = stale /\ missed' = missed
      /\ dropped' = dropped \cup (stale \ (events \cup IF o = linked THEN op[t].paths ELSE {}))
      /\ op[t].at = "lock" /\ op[t].full /\ Leave(t, o, held)
  BY DEF SkipRebuild, diskVars, lifeVars, bounds
<1>2. RestType'
  BY <1>1 DEF RootInv, RestType, watchVars
<1>3. /\ t \in Threads /\ op \in [Threads -> OpType] /\ root \in [Objs -> RootType]
      /\ o \in 0..MaxLinks /\ held \in SUBSET Paths
      /\ o # 0 => o \in Objs /\ held = op[t].paths
      /\ \A q \in Objs : t # Load(q)
  <2>1. o # 0 => o \in Objs /\ root[o].held = {}
    BY <1>1, Touching DEF RootInv, HeldInv, Threads, Taken
  <2> QED BY <2>1, Kinds DEF RootInv, OpType, RootType, Threads, HeldBy
<1> HIDE DEF held
<1>4. /\ OnlyThread(t) /\ op'[t] = Idle /\ RootTyped
      /\ \A x \in Objs : SameWatch(x) /\ SameHandle(x) /\ SameNewer(x)
      /\ \A x \in Objs \ {o} : SameHeld(x)
      /\ o # 0 => /\ root'[o].held = held /\ (root'[o].flag <=> held # {})
                  /\ root'[o].passed <=> root[o].passed /\ held # {}
  BY <1>1, <1>3, Leaving
<1>5. HeldInv'
  <2>1. \A u \in Batches : op'[u].at \notin Taken
    BY <1>1, <1>3, <1>4, Records DEF OnlyThread, RootInv, GateInv, Threads, Taken, Holding
  <2>2. linked # 0 => linked \in Objs
    BY Touching
  <2>3. ASSUME linked # 0, root'[linked].held # {}
        PROVE  Soon(linked)' /\ (\/ root'[linked].flag
                                 \/ \E u \in Batches : op'[u].at = "finally" /\ op'[u].obj = linked)
    <3>1. \A u \in Batches : op[u].at \in {"fired", "waits", "finally"} => op'[u] = op[u]
      BY <1>1, <1>4 DEF OnlyThread, Threads
    <3>2. CASE o = linked
      <4>1. held = op[t].paths /\ held # {}
        BY <3>2, <2>3, <1>3, <1>4
      <4>2. root[linked].flag /\ Soon(linked)
        BY <3>2, <4>1, <2>3, <1>1 DEF RootInv, HeldInv
      <4> QED BY <4>1, <4>2, <3>1, <3>2, <2>3, <1>1, <1>4 DEF Soon, Batches
    <3>3. CASE o # linked
      <4>1. SameHeld(linked)
        BY <3>3, <2>2, <2>3, <1>4
      <4>2. /\ Soon(linked)
            /\ root[linked].flag \/ \E u \in Batches : op[u].at = "finally" /\ op[u].obj = linked
        BY <4>1, <2>3 DEF RootInv, HeldInv, SameHeld
      <4> QED BY <4>1, <4>2, <3>1, <1>1 DEF Soon, Batches, SameHeld
    <3> QED BY <3>2, <3>3
  <2> QED BY <1>1, <2>1, <2>3 DEF HeldInv, Taken
<1>6. KeptInv'
  <2>1. \A u \in Batches : op'[u].at \in Taken \cup {"finally"} =>
           op[u].at \in Taken \cup {"finally"} /\ op'[u].obj = op[u].obj
    BY <1>4, Records DEF OnlyThread, Threads, Taken
  <2>2. \A q \in Objs : op'[Callback(q)].at = "walk" => op[Callback(q)].at = "walk"
    BY <1>4, Kinds, Records DEF OnlyThread
  <2>3. \A u \in Batches : op'[u].at \in Taken \cup {"finally"} /\ op'[u].obj = 0 =>
          linked' = 0 /\ u \in Watches
    BY <1>1, <2>1 DEF RootInv, KeptInv
  <2>4. \A q \in Objs : op'[Callback(q)].at = "walk" /\ root'[q].watch =>
          missed' \subseteq events' \/ overflow'
    BY <1>1, <1>4, <2>2 DEF RootInv, KeptInv, SameWatch, watchVars
  <2>5. ASSUME linked # 0, NEW p \in stale' \ dropped'
        PROVE  Near(linked, p)'
    <3>1. p \in events \/ (o = linked /\ p \in op[t].paths)
      BY <1>1, <2>5
    <3> QED BY <3>1, <2>5, <1>1, <1>3, <1>4 DEF Near, watchVars
  <2> QED BY <1>1, <2>3, <2>4, <2>5 DEF KeptInv
<1>7. o \in {linked, op[t].obj}
  BY DEF o
<1> HIDE DEF o
<1> QED BY <1>1, <1>2, <1>3, <1>5, <1>6, <1>7, LeaveSteps

\* What a batch finds when it has BuildGate.
Over(t) == /\ HeldBy(linked) # {}
           /\ Cardinality(HeldBy(linked)) + Cardinality(op[t].paths) > MaxPending
EntryPaths(t) == (IF Over(t) THEN {} ELSE HeldBy(linked)) \cup op[t].paths
EntryFull(t) == op[t].full \/ Over(t)
Void(t) == \/ linked # 0 /\ root[linked].newer
           \/ EntryPaths(t) = {} /\ ~EntryFull(t)

\* What Enter does, by whether the batch has anything to do.
LEMMA Entering ==
  ASSUME RootInv, NEW t \in Batches, Enter(t)
  PROVE  /\ op[t].at = "waits" /\ GateFree
         /\ UNCHANGED <<linked, life, giveUps, index, other, reading, links, role, timer,
                        happened, faults, auto>>
         /\ UNCHANGED watchVars /\ stale' = stale /\ missed' = missed
         /\ Void(t) => /\ Leave(t, linked, {})
                       /\ dropped' = dropped \cup (IF EntryFull(t) THEN stale \ events
                                                   ELSE stale \cap EntryPaths(t))
         /\ ~Void(t) =>
              /\ Become(t, [At("lock") EXCEPT !.obj = linked, !.paths = EntryPaths(t),
                                              !.full = EntryFull(t)])
              /\ root' = IF linked = 0 THEN root ELSE [root EXCEPT ![linked].held = {}]
              /\ dropped' = dropped
BY DEF Enter, EntryPaths, EntryFull, Over, Void, Merged, diskVars, lifeVars, bounds

\* The parts of it have their types.
LEMMA EntryTypes ==
  ASSUME RootInv, NEW t \in Batches, op[t].at = "waits"
  PROVE  /\ EntryPaths(t) \in SUBSET Paths /\ EntryFull(t) \in BOOLEAN
         /\ HeldBy(linked) \subseteq EntryPaths(t) \/ EntryFull(t)
         /\ op[t].paths \subseteq EntryPaths(t) /\ (op[t].full => EntryFull(t))
         /\ t \in Retries /\ EntryFull(t) => EntryPaths(t) = {}
         /\ EntryFull(t) /\ EntryPaths(t) # {} => HeldBy(linked) # {}
         /\ linked = 0 /\ ~Void(t) => t \in Watches
<1>1. /\ t \in Threads /\ op[t].paths \in SUBSET Paths /\ op[t].full \in BOOLEAN
      /\ StageOk(t, op[t])
  BY DEF RootInv, OpType, Threads, StageInv
<1>2. HeldBy(linked) \in SUBSET Paths /\ (linked = 0 => HeldBy(linked) = {})
  BY Touching DEF HeldBy, RootInv, RootType
<1>3. Over(t) \in BOOLEAN /\ (Over(t) => HeldBy(linked) # {})
  BY DEF Over
<1> QED BY <1>1, <1>2, <1>3 DEF EntryPaths, EntryFull, StageOk, Void, Batches

\* A batch that has nothing to do, or a root that is not to be written, ends at once.
LEMMA VoidStep ==
  ASSUME RootInv, NEW t \in Batches, Enter(t), Void(t)
  PROVE  RootInv'
<1>1. /\ UNCHANGED <<linked, life, giveUps, index, other, reading, links, role, timer,
                     happened, faults, auto>>
      /\ UNCHANGED watchVars /\ stale' = stale /\ missed' = missed
      /\ dropped' = dropped \cup (IF EntryFull(t) THEN stale \ events
                                  ELSE stale \cap EntryPaths(t))
      /\ op[t].at = "waits" /\ GateFree /\ Leave(t, linked, {})
  BY Entering
<1>2. RestType'
  BY <1>1 DEF RootInv, RestType, watchVars
<1>3. /\ t \in Threads /\ op \in [Threads -> OpType] /\ root \in [Objs -> RootType]
      /\ linked \in 0..MaxLinks /\ {} \in SUBSET Paths
      /\ \A q \in Objs : t # Load(q)
  BY Kinds DEF RootInv, RestType, Threads
<1>4. /\ OnlyThread(t) /\ op'[t] = Idle /\ RootTyped
      /\ \A x \in Objs : SameWatch(x) /\ SameHandle(x) /\ SameNewer(x)
      /\ \A x \in Objs \ {linked} : SameHeld(x)
      /\ linked # 0 => root'[linked].held = {}
  BY <1>1, <1>3, Leaving
<1>5. \A u \in Batches : op'[u].at \notin Taken
  BY <1>1, <1>3, <1>4, Records DEF OnlyThread, GateFree, Threads, Taken, Holding, RootInv,
       StageInv, StageOk, StagesOf
<1>6. HeldInv'
  <2>1. \A u \in Batches : op'[u].at # "lock" /\ op'[u].at \notin Taken
    BY <1>5 DEF Taken
  <2> QED BY <1>1, <1>4, <2>1 DEF HeldInv
<1>7. KeptInv'
  <2>1. \A u \in Batches : op'[u].at \in Taken \cup {"finally"} => op'[u] = op[u]
    BY <1>4, Records DEF OnlyThread, Threads, Taken
  <2>2. \A u \in Batches : op'[u].at \in Taken \cup {"finally"} /\ op'[u].obj = 0 =>
          linked' = 0 /\ u \in Watches
    BY <1>1, <2>1 DEF RootInv, KeptInv
  <2>3. \A q \in Objs : op'[Callback(q)].at # "walk"
    BY <1>5, Kinds DEF Taken, Batches, Watches
  <2>4. ASSUME linked # 0, root'[linked].watch, NEW p \in stale' \ dropped'
        PROVE  Near(linked, p)'
    <3>1. linked \in Objs /\ HeldBy(linked) = root[linked].held
      BY <2>4, Touching DEF HeldBy
    <3>2. Near(linked, p)
      BY <1>1, <1>4, <2>4, <3>1 DEF RootInv, KeptInv, SameWatch
    <3>3. EntryFull(t) => p \in events
      BY <1>1, <2>4
    <3>4. ~EntryFull(t) => p \notin EntryPaths(t)
      BY <1>1, <2>4
    <3>5. CASE p \in events \/ overflow
      BY <3>5, <1>1 DEF Near, watchVars
    <3>6. CASE p \in root[linked].held
      BY <3>1, <3>3, <3>4, <3>5, <3>6, <1>1, EntryTypes
    <3>7. CASE \E u \in Batches : Bears(u, p)
      <4>1. PICK u \in Batches : Bears(u, p)
        BY <3>7
      <4>2. CASE u = t
        BY <4>1, <4>2, <3>3, <3>4, <3>5, <1>1, EntryTypes DEF Bears
      <4>3. CASE u # t
        <5>1. Bears(u, p)'
          BY <4>1, <4>3, <1>1, <1>4 DEF Bears, OnlyThread, Threads
        <5> QED BY <5>1 DEF Near
      <4> QED BY <4>2, <4>3
    <3>8. CASE Comes(linked, p)
      <4>1. op'[Load(linked)] = op[Load(linked)]
        BY <3>1, <1>3, <1>4, Kinds DEF OnlyThread
      <4> QED BY <3>8, <4>1, <1>1 DEF Comes, Near
    <3> QED BY <3>2, <3>5, <3>6, <3>7, <3>8 DEF Near
  <2> QED BY <1>1, <2>2, <2>3, <2>4 DEF KeptInv
<1>8. linked \in {linked, op[t].obj} /\ op[t].at \notin {"idle", "install"}
  BY <1>1
<1> QED BY <1>1, <1>2, <1>3, <1>6, <1>7, <1>8, LeaveSteps

\* A batch with something to do takes BuildGate, and what is held back with it.
LEMMA TakeStep ==
  ASSUME RootInv, NEW t \in Batches, Enter(t), ~Void(t)
  PROVE  RootInv'
<1> DEFINE r == [At("lock") EXCEPT !.obj = linked, !.paths = EntryPaths(t),
                                   !.full = EntryFull(t)]
<1>1. /\ UNCHANGED <<linked, life, giveUps, index, other, reading, links, role, timer,
                     happened, faults, auto>>
      /\ UNCHANGED watchVars /\ stale' = stale /\ missed' = missed /\ dropped' = dropped
      /\ op[t].at = "waits" /\ GateFree /\ Become(t, r)
      /\ root' = IF linked = 0 THEN root ELSE [root EXCEPT ![linked].held = {}]
  BY Entering
<1>2. RestType'
  BY <1>1 DEF RootInv, RestType, watchVars
<1>3. /\ t \in Threads /\ op \in [Threads -> OpType] /\ root \in [Objs -> RootType]
      /\ linked \in 0..MaxLinks /\ t # Query
      /\ \A q \in Objs : t # Load(q)
      /\ linked # 0 => linked \in Objs
  BY Kinds, Zero DEF RootInv, RestType, Threads
<1>4. /\ r \in OpType /\ r.at = "lock" /\ r.obj = linked /\ r.paths = EntryPaths(t)
      /\ r.full = EntryFull(t) /\ r.bump = FALSE /\ r.gen = 0
  <2>1. /\ At("lock") \in OpType /\ At("lock").gen = 0 /\ At("lock").bump = FALSE
        /\ At("lock").at = "lock"
    BY Records DEF Stages
  <2>2. EntryPaths(t) \in SUBSET Paths /\ EntryFull(t) \in BOOLEAN
    BY <1>1, EntryTypes
  <2> QED BY <1>3, <2>1, <2>2 DEF OpType
<1>5. OnlyThread(t) /\ op'[t] = r
  BY <1>1, <1>3, <1>4, Becomes
<1> HIDE DEF r
<1>6. /\ RootTyped
      /\ \A x \in Objs : SameWatch(x) /\ SameHandle(x) /\ SameNewer(x)
      /\ \A x \in Objs \ {linked} : SameHeld(x)
      /\ linked # 0 => /\ root'[linked].held = {} /\ root'[linked].flag = root[linked].flag
                       /\ root'[linked].passed = root[linked].passed
  <2>1. CASE linked = 0
    BY <2>1, <1>1, <1>3, SameRoots DEF SameRoot
  <2>2. CASE linked # 0
    <3>1. root' = [root EXCEPT ![linked].held = {}] /\ root[linked] \in RootType
      BY <2>2, <1>1, <1>3
    <3> QED BY <3>1, <2>2, <1>3 DEF RootTyped, RootType, SameWatch, SameHandle, SameNewer, SameHeld
  <2> QED BY <2>1, <2>2
<1>7. StageOk(t, op'[t])
  <2>1. /\ EntryPaths(t) # {} => t \in Batches
        /\ t \in Retries /\ EntryFull(t) => EntryPaths(t) = {}
    BY <1>1, EntryTypes
  <2> QED BY <2>1, <1>4, <1>5, <1>3 DEF StageOk, StagesOf, Batches
<1>8. GoneInv'
  BY <1>1, <1>4, <1>5, GoneSteps DEF OnlyThread, Threads
<1>9. \A u \in Batches : op'[u].at \in Taken => u = t
  BY <1>1, <1>5 DEF OnlyThread, GateFree, Threads, Taken, Holding
<1>10. HeldInv'
  <2>1. \A u \in Batches : op'[u].at \in Taken /\ op'[u].obj # 0 => root'[op'[u].obj].held = {}
    BY <1>4, <1>5, <1>6, <1>9
  <2>2. ASSUME linked # 0, EntryFull(t), EntryPaths(t) # {}
        PROVE  root'[linked].flag /\ Soon(linked)'
    <3>1. root[linked].held # {} /\ t \notin Retries
      BY <2>2, <1>1, EntryTypes DEF HeldBy
    <3>2. \A u \in Batches : op[u].at # "finally"
      BY <1>1 DEF GateFree, Holding, Threads
    <3>3. Soon(linked) /\ root[linked].flag
      BY <2>2, <3>1, <3>2 DEF RootInv, HeldInv
    <3> QED BY <2>2, <3>1, <3>3, <1>1, <1>5, <1>6 DEF Soon, OnlyThread, Threads, Batches
  <2> QED BY <1>1, <1>4, <1>5, <1>6, <1>9, <2>1, <2>2 DEF HeldInv, Taken
<1>11. KeptInv'
  <2>1. \A u \in Batches : op'[u].at \in Taken \cup {"finally"} => u = t \/ op'[u] = op[u]
    BY <1>5 DEF OnlyThread, Threads
  <2>2. \A u \in Batches : op'[u].at \in Taken \cup {"finally"} /\ op'[u].obj = 0 =>
          linked' = 0 /\ u \in Watches
    BY <1>1, <1>4, <1>5, <2>1, EntryTypes DEF RootInv, KeptInv
  <2>3. \A q \in Objs : op'[Callback(q)].at # "walk"
    <3>1. \A q \in Objs : Callback(q) \in Batches
      BY DEF Batches, Watches
    <3> QED BY <3>1, <1>4, <1>5, <1>9 DEF Taken
  <2>4. ASSUME linked # 0, root'[linked].watch, NEW p \in stale' \ dropped'
        PROVE  Near(linked, p)'
    <3>1. linked \in Objs /\ HeldBy(linked) = root[linked].held
      BY <2>4, Touching DEF HeldBy
    <3>2. Near(linked, p)
      BY <1>1, <1>6, <2>4, <3>1 DEF RootInv, KeptInv, SameWatch
    <3>3. EntryFull(t) \/ p \in EntryPaths(t) => Near(linked, p)'
      BY <1>4, <1>5 DEF Near, Bears
    <3>4. CASE p \in events \/ overflow
      BY <3>4, <1>1 DEF Near, watchVars
    <3>5. CASE p \in root[linked].held
      BY <3>1, <3>3, <3>5, <1>1, EntryTypes
    <3>6. CASE \E u \in Batches : Bears(u, p)
      <4>1. PICK u \in Batches : Bears(u, p)
        BY <3>6
      <4>2. CASE u = t
        BY <4>1, <4>2, <3>3, <1>1, EntryTypes DEF Bears
      <4>3. CASE u # t
        <5>1. Bears(u, p)'
          BY <4>1, <4>3, <1>1, <1>5 DEF Bears, OnlyThread, Threads
        <5> QED BY <5>1 DEF Near
      <4> QED BY <4>2, <4>3
    <3>7. CASE Comes(linked, p)
      <4>1. op'[Load(linked)] = op[Load(linked)]
        BY <3>1, <1>3, <1>5, Kinds DEF OnlyThread
      <4> QED BY <3>7, <4>1, <1>1 DEF Comes, Near
    <3> QED BY <3>2, <3>4, <3>5, <3>6, <3>7 DEF Near
  <2> QED BY <1>1, <2>2, <2>3, <2>4 DEF KeptInv
<1>12. index.gen <= index'.gen
  BY <1>1, IndexTyped
<1>13. linked \in {linked, op[t].obj}
  OBVIOUS
<1>14. /\ op'[t].obj = linked /\ op'[t].gen = 0 /\ op[t].at # "idle" /\ op[t].at # "install"
  BY <1>1, <1>4, <1>5
<1> QED BY <1>1, <1>2, <1>5, <1>6, <1>7, <1>8, <1>10, <1>11, <1>12, <1>13, <1>14, BatchSteps
     DEF SameNewer

\* A batch enters BuildGate.
LEMMA EnterStep ==
  ASSUME RootInv, NEW t \in Threads, t \in Batches, Enter(t)
  PROVE  RootInv'
BY VoidStep, TakeStep

\* What an update does to the threads and the objects.
Queues(u) == /\ linked # 0 /\ u = Load(linked) /\ root[linked].live
             /\ op[u] = Idle /\ op'[u] = At("queued")

\* What an update of the index does to the threads, the objects and the ledger.
LEMMA Updating ==
  ASSUME RootInv, NEW t \in Batches, Update(t)
  PROVE  /\ op' \in [Threads -> OpType] /\ RootTyped /\ \A o \in Objs : SameRoot(o)
         /\ op'[t].at = "install" /\ (op'[t].bump <=> stale \cap op[t].paths # {})
         /\ op'[t].paths = {} /\ op'[t].obj = op[t].obj /\ op'[t].gen = op[t].gen
         /\ op'[t].full = op[t].full
         /\ \A u \in Threads \ {t} : op'[u] = op[u] \/ Queues(u)
<1> DEFINE touched == stale \cap op[t].paths # {}
           written == [op EXCEPT ![t].at = "install", ![t].bump = touched, ![t].paths = {}]
<1>1. /\ op \in [Threads -> OpType] /\ root \in [Objs -> RootType] /\ t \in Threads
      /\ touched \in BOOLEAN
  BY DEF RootInv, Threads
<1>2. /\ written \in [Threads -> OpType]
      /\ written[t].at = "install" /\ written[t].bump = touched /\ written[t].paths = {}
      /\ written[t].obj = op[t].obj /\ written[t].gen = op[t].gen /\ written[t].full = op[t].full
      /\ \A u \in Threads \ {t} : written[u] = op[u]
  <2> HIDE DEF touched
  <2>1. op[t] \in OpType /\ "install" \in Stages
    BY <1>1 DEF Stages
  <2> QED BY <1>1, <2>1 DEF OpType
<1>3. \/ op' = written /\ root' = root
      \/ linked # 0 /\ root[linked].live /\ op[Load(linked)] = Idle
         /\ op' = [written EXCEPT ![Load(linked)] = At("queued")] /\ root' = root
      \/ linked # 0 /\ op' = written /\ root' = [root EXCEPT ![linked].again = TRUE]
  <2> USE DEF touched
  <2>1. CASE op' = written /\ UNCHANGED root
    BY <2>1
  <2>2. CASE ~(op' = written /\ UNCHANGED root)
    <3>1. /\ linked # 0 /\ root[linked].live
          /\ IF op[Load(linked)] = Idle
               THEN op' = [written EXCEPT ![Load(linked)] = At("queued")] /\ UNCHANGED root
               ELSE op' = written /\ root' = [root EXCEPT ![linked].again = TRUE]
      BY <2>2, Zenon DEF Update
    <3> QED BY <3>1
  <2> QED BY <2>1, <2>2
<1> HIDE DEF touched, written
<1>4. linked # 0 => linked \in Objs
  BY Touching
<1>5. CASE op' = written /\ root' = root
  BY <1>1, <1>2, <1>5, SameRoots DEF touched
<1>6. CASE linked # 0 /\ root[linked].live /\ op[Load(linked)] = Idle
           /\ op' = [written EXCEPT ![Load(linked)] = At("queued")] /\ root' = root
  <2>1. Load(linked) # t /\ Load(linked) \in Threads /\ At("queued") \in OpType
    BY <1>4, <1>6, Kinds, Records DEF Stages
  <2>2. /\ op' \in [Threads -> OpType] /\ op'[t] = written[t]
        /\ op'[Load(linked)] = At("queued")
        /\ \A u \in Threads \ {t, Load(linked)} : op'[u] = op[u]
    BY <1>1, <1>2, <1>6, <2>1
  <2> QED BY <1>1, <1>2, <1>6, <2>1, <2>2, SameRoots DEF touched, Queues
<1>7. CASE linked # 0 /\ op' = written /\ root' = [root EXCEPT ![linked].again = TRUE]
  <2>1. /\ root'[linked] = [root[linked] EXCEPT !.again = TRUE] /\ root[linked] \in RootType
        /\ \A x \in Objs \ {linked} : root'[x] = root[x]
    BY <1>1, <1>4, <1>7
  <2>2. RootTyped
    BY <1>1, <1>4, <1>7, <2>1 DEF RootTyped, RootType
  <2>3. \A o \in Objs : SameRoot(o)
    BY <2>1 DEF SameRoot, SameWatch, SameHandle, SameNewer, SameHeld, RootType
  <2> QED BY <1>1, <1>2, <1>7, <2>2, <2>3 DEF touched
<1> QED BY <1>3, <1>5, <1>6, <1>7

\* An update: its paths are no longer missing from the index.
LEMMA UpdateStep ==
  ASSUME RootInv, NEW t \in Batches, Update(t)
  PROVE  RootInv'
<1>1. /\ UNCHANGED <<linked, life, giveUps, other, reading, links, role, timer, happened,
                     faults, auto>>
      /\ UNCHANGED watchVars /\ missed' = missed
      /\ stale' = stale \ op[t].paths /\ dropped' = dropped \ op[t].paths
      /\ op[t].at = "lock" /\ op[t].full = FALSE /\ index.is = "ok"
      /\ index' = IF stale \cap op[t].paths # {} THEN [index EXCEPT !.ver = @ + 1] ELSE index
  <2>1. op[t].full \in BOOLEAN
    BY DEF RootInv, OpType, Threads
  <2> QED BY <2>1 DEF Update, lifeVars, bounds
<1>2. /\ op' \in [Threads -> OpType] /\ RootTyped /\ \A o \in Objs : SameRoot(o)
      /\ op'[t].at = "install" /\ (op'[t].bump <=> stale \cap op[t].paths # {})
      /\ op'[t].paths = {} /\ op'[t].obj = op[t].obj /\ op'[t].gen = op[t].gen
      /\ op'[t].full = op[t].full
      /\ \A u \in Threads \ {t} : op'[u] = op[u] \/ Queues(u)
  BY Updating
<1>3. /\ t \in Threads /\ t # Query /\ \A q \in Objs : t # Load(q)
      /\ linked # 0 => linked \in Objs
  BY Kinds, Touching DEF Threads
<1>4. \A u \in Threads : Queues(u) => /\ u \in Loads /\ u \notin Batches /\ op[u] = Idle
                                      /\ op'[u] = At("queued") /\ op'[u].at = "queued"
                                      /\ op'[u].gen = 0 /\ op'[u].obj = 0 /\ op'[u].paths = {}
                                      /\ op'[u].full = FALSE /\ u # Query
  <2>1. "queued" \in Stages
    BY DEF Stages
  <2> QED BY <1>3, <2>1, Kinds, Records DEF Queues, Loads
<1>5. \A u \in Batches \ {t} : op'[u] = op[u]
  BY <1>2, <1>4 DEF Threads
<1>6. /\ index' \in IndexType /\ index'.gen = index.gen /\ index'.is = index.is
      /\ stale \cap op[t].paths = {} => index' = index
  <2>1. index \in IndexType
    BY DEF RootInv, RestType
  <2>2. LET y == [index EXCEPT !.ver = @ + 1]
        IN y \in IndexType /\ y.is = index.is /\ y.gen = index.gen
    BY <2>1, IndexUpdates
  <2> QED BY <1>1, <2>1, <2>2
<1>7. RestType'
  BY <1>1, <1>6 DEF RootInv, RestType, watchVars
<1>8. GateInv'
  BY <1>1, <1>2, <1>3, <1>4, GateSteps DEF Holding
<1>9. StageInv'
  <2>1. StageOk(t, op'[t])
    BY <1>1, <1>2, <1>3 DEF StageOk, StagesOf, Batches
  <2>2. \A u \in Threads : Queues(u) => StageOk(u, op'[u])
    BY <1>4 DEF StageOk, StagesOf, Batches
  <2> QED BY <1>2, <2>1, <2>2 DEF RootInv, StageInv
<1>10. Steady
  <2>1. ASSUME NEW o \in Objs
        PROVE  /\ op'[Callback(o)] # Idle => op[Callback(o)] # Idle
               /\ op'[Load(o)] # Idle => op[Load(o)] # Idle \/ root[o].live
    <3>1. Callback(o) \in Batches /\ Load(o) \in Threads \ {t}
      BY <1>3, Kinds DEF Batches, Watches
    <3>2. Queues(Load(o)) => root[o].live
      BY <1>3, Kinds DEF Queues
    <3> QED BY <1>1, <1>2, <1>5, <3>1, <3>2, Records
  <2>2. \A u \in Threads : op'[u].obj = op[u].obj \/ op'[u].obj = 0
    BY <1>2, <1>4
  <2> QED BY <1>1, <1>2, <2>1, <2>2 DEF Steady, SameRoot, SameHandle, SameNewer, Known
<1>11. KnownInv' /\ LifeInv' /\ OwnedInv'
  BY <1>10, SteadySteps
<1>12. GenInv'
  <2>1. \A u \in Threads : op'[u].gen = op[u].gen \/ op'[u].gen <= index'.gen
    BY <1>2, <1>4, <1>6, IndexTyped
  <2>2. \A o \in Objs : root'[o].gen = root[o].gen /\ root'[o].failed = root[o].failed
    BY <1>2 DEF SameRoot, SameHandle
  <2>3. life'.gen = life.gen /\ index.gen <= index'.gen
    BY <1>1, <1>6, IndexTyped
  <2> QED BY <1>2, <1>7, <2>1, <2>2, <2>3, GenSteps
<1>13. GoneInv'
  BY <1>1, <1>2, <1>5, <1>6, GoneSteps
<1>14. ServeInv'
  <2>1. Publishing => Publishing'
    <3>1. \A u \in Threads : op[u].at = "install" => op'[u] = op[u]
      BY <1>1, <1>2, <1>4, Records
    <3> QED BY <1>1, <3>1 DEF Publishing
  <2>2. index' = index \/ Publishing'
    BY <1>2, <1>3, <1>6 DEF Publishing
  <2> QED BY <1>1, <1>2, <1>7, <2>1, <2>2, ServeSteps DEF SameRoot, SameNewer
<1>15. HeldInv'
  <2>1. \A u \in Batches : Quiet(u, op'[u])
    BY <1>1, <1>2, <1>5 DEF Quiet, Taken
  <2>2. linked # 0 => (Soon(linked) => Soon(linked)')
    BY <1>1, <1>2, <1>3, <1>5 DEF Soon, SameRoot, SameHeld, Batches
  <2> QED BY <1>1, <1>2, <2>1, <2>2, HeldSteps DEF SameRoot
<1>16. KeptInv'
  <2>1. \A u \in Batches : op'[u].at \in Taken \cup {"finally"} =>
           op[u].at \in Taken \cup {"finally"} /\ op'[u].obj = op[u].obj
    BY <1>1, <1>2, <1>5 DEF Taken
  <2>2. \A u \in Batches : op'[u].at \in Taken \cup {"finally"} /\ op'[u].obj = 0 =>
          linked' = 0 /\ u \in Watches
    BY <1>1, <2>1 DEF RootInv, KeptInv
  <2>3. \A q \in Objs : op'[Callback(q)].at # "walk"
    <3>1. \A q \in Objs : Callback(q) \in Batches
      BY DEF Batches, Watches
    <3>2. \A u \in Batches \ {t} : op[u].at # "walk"
      BY <1>1, <1>3 DEF RootInv, GateInv, Holding, Threads
    <3> QED BY <1>2, <1>5, <3>1, <3>2
  <2>4. ASSUME linked # 0, root'[linked].watch, NEW p \in stale' \ dropped'
        PROVE  Near(linked, p)'
    <3>1. linked \in Objs /\ p \notin op[t].paths /\ p \in stale \ dropped
      BY <2>4, <1>1, <1>3
    <3>2. Near(linked, p)
      BY <1>2, <2>4, <3>1 DEF RootInv, KeptInv, SameRoot, SameWatch
    <3>3. CASE p \in events \cup root[linked].held \/ overflow
      BY <3>1, <3>3, <1>1, <1>2 DEF Near, watchVars, SameRoot, SameHeld
    <3>4. CASE \E u \in Batches : Bears(u, p)
      <4>1. PICK u \in Batches : Bears(u, p)
        BY <3>4
      <4>2. u # t
        BY <4>1, <3>1, <1>1 DEF Bears
      <4>3. Bears(u, p)'
        BY <4>1, <4>2, <1>1, <1>5 DEF Bears
      <4> QED BY <4>3 DEF Near
    <3>5. CASE Comes(linked, p)
      <4>1. Load(linked) \in Threads \ {t}
        BY <3>1, <1>3, Kinds
      <4> QED BY <3>5, <4>1, <1>1, <1>2, <1>4 DEF Comes, Near
    <3> QED BY <3>2, <3>3, <3>4, <3>5 DEF Near
  <2> QED BY <1>1, <2>2, <2>3, <2>4 DEF KeptInv
<1> QED BY <1>2, <1>7, <1>8, <1>9, <1>11, <1>12, <1>13, <1>14, <1>15, <1>16 DEF RootInv, RootTyped

\* A walk begins: what changes from now on may be missed by it.
LEMMA BeginWalkStep ==
  ASSUME RootInv, NEW t \in Batches \cup Loads, BeginWalk(t)
  PROVE  RootInv'
<1>1. /\ UNCHANGED <<root, linked, life, giveUps, index, other, reading, links, role, timer,
                     happened, faults, auto>>
      /\ UNCHANGED watchVars /\ stale' = stale /\ dropped' = dropped /\ missed' = {}
      /\ op[t].at = "lock" /\ Advance(t, "walk")
      /\ t \notin Loads => op[t].full \/ index.is = "gone"
  BY DEF BeginWalk, diskVars, lifeVars, bounds
<1>2. RestType'
  BY <1>1 DEF RootInv, RestType, watchVars
<1>3. t \in Threads /\ (t \in Batches => t \notin Loads) /\ Query \notin Batches \cup Loads
  BY Kinds DEF Threads, Loads
<1>4. Onward(t, "walk")
  BY <1>1, <1>3, Advances DEF RootInv, Stages
<1>5. StageOk(t, op'[t])
  BY <1>1, <1>3, <1>4 DEF RootInv, StageInv, StageOk, StagesOf, Onward, Batches
<1>6. linked # 0 => (Soon(linked) => Soon(linked)')
  BY <1>1, <1>4 DEF Soon, Onward, OnlyThread, Threads, Batches
<1>7. KeptInv'
  <2>1. \A u \in Batches : op'[u].at \in Taken \cup {"finally"} =>
           op[u].at \in Taken \cup {"finally"} /\ op'[u].obj = op[u].obj
    BY <1>1, <1>4 DEF Onward, OnlyThread, Threads, Taken
  <2>2. \A u \in Batches : op'[u].at \in Taken \cup {"finally"} /\ op'[u].obj = 0 =>
          linked' = 0 /\ u \in Watches
    BY <1>1, <2>1 DEF RootInv, KeptInv
  <2>3. ASSUME linked # 0, root[linked].watch, NEW p \in stale \ dropped
        PROVE  Near(linked, p)'
    <3>1. Near(linked, p) /\ linked \in Objs /\ Load(linked) \in Threads
      BY <2>3, Touching, Kinds DEF RootInv, KeptInv
    <3>2. \A u \in Batches : Bears(u, p) => Bears(u, p)'
      BY <1>1, <1>4 DEF Bears, Onward, OnlyThread, Threads
    <3>3. Comes(linked, p) => Comes(linked, p)'
      BY <1>1, <1>4, <3>1 DEF Comes, Onward, OnlyThread
    <3> QED BY <3>1, <3>2, <3>3, <1>1 DEF Near, watchVars
  <2> QED BY <1>1, <2>2, <2>3 DEF KeptInv
<1>8. op'[t].at = "walk" /\ op[t] # Idle /\ op[t].at \in Holding /\ op[t].at # "install"
      /\ op'[t].obj = op[t].obj /\ op'[t].gen = op[t].gen /\ OnlyThread(t)
      /\ op'[t].full = op[t].full
  BY <1>1, <1>4, Records DEF Onward, Holding
<1>9. t \in Batches => Quiet(t, op'[t])
  BY <1>1, <1>8 DEF Quiet, Taken
<1> QED BY <1>1, <1>2, <1>3, <1>5, <1>6, <1>7, <1>8, <1>9, ThreadSteps

\* A walk ends: only what was missed is still missing from the index.
LEMMA EndWalkStep ==
  ASSUME RootInv, NEW t \in Batches \cup Loads, EndWalk(t)
  PROVE  RootInv'
<1> DEFINE untouched == t \in Loads /\ index.is = "ok" /\ stale \subseteq missed
<1>1. /\ UNCHANGED <<root, linked, life, giveUps, other, reading, links, role, timer,
                     happened, faults, auto>>
      /\ UNCHANGED watchVars /\ stale' = stale \cap missed /\ dropped' = dropped \cap missed
      /\ missed' = {} /\ op[t].at = "walk"
      /\ index' = IF untouched THEN index ELSE [index EXCEPT !.is = "ok", !.ver = @ + 1]
      /\ op' = [op EXCEPT ![t].at = "install", ![t].bump = ~untouched, ![t].paths = {}]
  BY DEF EndWalk, lifeVars, bounds
<1>2. t \in Threads /\ (t \in Batches => t \notin Loads) /\ Query \notin Batches \cup Loads
      /\ (~untouched) \in BOOLEAN
  BY Kinds DEF Threads, Loads
<1>3. /\ index' \in IndexType /\ index'.gen = index.gen
      /\ index'.is # "gone" /\ (untouched => index' = index)
  <2>1. index \in IndexType
    BY DEF RootInv, RestType
  <2>2. \A is \in {"ok", "newer"} :
          LET y == [index EXCEPT !.is = is, !.ver = @ + 1]
          IN y \in IndexType /\ y.is = is /\ y.ver = index.ver + 1 /\ y.gen = index.gen
    BY <2>1, IndexUpdates
  <2>3. CASE untouched
    BY <2>1, <2>3, <1>1
  <2>4. CASE ~untouched
    <3>1. index' = [index EXCEPT !.is = "ok", !.ver = @ + 1]
      BY <2>4, <1>1
    <3> QED BY <2>2, <2>4, <3>1
  <2> QED BY <2>3, <2>4
<1> HIDE DEF untouched
<1>4. RestType'
  BY <1>1, <1>3 DEF RootInv, RestType, watchVars
<1>5. /\ OnlyThread(t) /\ op'[t].at = "install" /\ (op'[t].bump <=> ~untouched)
      /\ op'[t].paths = {} /\ op'[t].obj = op[t].obj /\ op'[t].gen = op[t].gen
      /\ op'[t].full = op[t].full
  <2>1. op \in [Threads -> OpType] /\ op[t] \in OpType /\ "install" \in Stages
    BY <1>2 DEF RootInv, Stages
  <2> QED BY <1>1, <1>2, <2>1 DEF OnlyThread, OpType
<1>6. GateInv'
  BY <1>1, <1>2, <1>5, GateSteps DEF OnlyThread, Holding
<1>7. StageInv'
  <2>1. StageOk(t, op'[t])
    BY <1>2, <1>5 DEF StageOk, StagesOf, Batches
  <2> QED BY <1>2, <1>5, <2>1, StageSteps
<1>8. RootTyped /\ \A o \in Objs : SameRoot(o)
  BY <1>1, SameRoots DEF RootInv
<1>9. Steady
  <2>1. \A u \in Threads : op'[u].obj = op[u].obj /\ (op'[u] # Idle => op[u] # Idle)
    BY <1>1, <1>5, Records DEF OnlyThread
  <2>2. \A o \in Objs : Callback(o) \in Threads /\ Load(o) \in Threads
    BY Kinds
  <2> QED BY <1>1, <1>8, <2>1, <2>2 DEF Steady, SameRoot, SameHandle, SameNewer, Known
<1>10. KnownInv' /\ LifeInv' /\ OwnedInv'
  BY <1>9, SteadySteps
<1>11. GenInv'
  <2>1. \A u \in Threads : op'[u].gen = op[u].gen
    BY <1>5 DEF OnlyThread
  <2>2. \A o \in Objs : root'[o].gen = root[o].gen /\ root'[o].failed = root[o].failed
    BY <1>8 DEF SameRoot, SameHandle
  <2>3. life'.gen = life.gen /\ index.gen <= index'.gen
    BY <1>1, <1>3, IndexTyped
  <2> QED BY <1>4, <1>5, <1>8, <2>1, <2>2, <2>3, GenSteps DEF OnlyThread
<1>12. \A u \in Threads : op'[u].at # "walk"
  BY <1>1, <1>2, <1>5 DEF RootInv, GateInv, Holding, OnlyThread
<1>13. GoneInv'
  BY <1>3, <1>12 DEF GoneInv, Threads
<1>14. ServeInv'
  <2>1. Publishing => Publishing'
    BY <1>1, <1>2, <1>5 DEF Publishing, OnlyThread
  <2>2. index' = index \/ Publishing'
    BY <1>2, <1>3, <1>5 DEF Publishing
  <2> QED BY <1>1, <1>4, <1>8, <2>1, <2>2, ServeSteps DEF SameRoot, SameNewer
<1>15. HeldInv'
  <2>1. \A u \in Batches : Quiet(u, op'[u])
    BY <1>1, <1>5 DEF Quiet, Taken, OnlyThread, Threads
  <2>2. linked # 0 => (Soon(linked) => Soon(linked)')
    BY <1>1, <1>5 DEF Soon, OnlyThread, Threads, Batches
  <2> QED BY <1>1, <1>8, <2>1, <2>2, HeldSteps DEF SameRoot
<1>16. KeptInv'
  <2>1. \A u \in Batches : op'[u].at \in Taken \cup {"finally"} =>
           op[u].at \in Taken \cup {"finally"} /\ op'[u].obj = op[u].obj
    BY <1>1, <1>5 DEF OnlyThread, Threads, Taken
  <2>2. \A u \in Batches : op'[u].at \in Taken \cup {"finally"} /\ op'[u].obj = 0 =>
          linked' = 0 /\ u \in Watches
    BY <1>1, <2>1 DEF RootInv, KeptInv
  <2>3. ASSUME linked # 0, root[linked].watch, NEW p \in stale' \ dropped'
        PROVE  Near(linked, p)'
    <3>1. p \in missed /\ p \in stale \ dropped
      BY <2>3, <1>1
    <3>2. Near(linked, p) /\ linked \in Objs /\ Load(linked) \in Threads
      BY <2>3, <3>1, Touching, Kinds DEF RootInv, KeptInv
    <3>3. \A u \in Batches : Bears(u, p) => Bears(u, p)'
      BY <1>1, <1>5, <3>1 DEF Bears, OnlyThread, Threads
    <3>4. Comes(linked, p) => Comes(linked, p)'
      BY <1>1, <1>5, <3>1, <3>2 DEF Comes, OnlyThread
    <3> QED BY <3>2, <3>3, <3>4, <1>1 DEF Near, watchVars
  <2>4. \A q \in Objs : op'[Callback(q)].at # "walk"
    BY <1>12, Kinds
  <2> QED BY <1>1, <2>2, <2>3, <2>4 DEF KeptInv
<1>17. op' \in [Threads -> OpType]
  BY <1>5 DEF OnlyThread
<1> QED BY <1>4, <1>6, <1>7, <1>8, <1>10, <1>11, <1>13, <1>14, <1>15, <1>16, <1>17
     DEF RootInv, RootTyped

\* What a commit does to the thread and the objects.
LEMMA Installing ==
  ASSUME RootInv, NEW t \in Batches \cup Loads, Install(t)
  PROVE  /\ OnlyThread(t) /\ op'[t] \in {Idle, At("queued")} /\ (t \in Batches => op'[t] = Idle)
         /\ index' \in IndexType /\ index'.is = index.is /\ index'.ver = index.ver
         /\ index'.gen = IF op[t].bump THEN index.gen + 1 ELSE index.gen
         /\ RootTyped
         /\ \A x \in Objs : /\ SameWatch(x) /\ SameNewer(x)
                            /\ root'[x].held = root[x].held /\ root'[x].failed = root[x].failed
                            /\ x # linked => SameHandle(x)
                            /\ t \in Loads \/ x # op[t].obj => SameHeld(x)
         /\ linked # 0 => root'[linked].handle = index.ver /\ root'[linked].gen = index'.gen
         /\ \A x \in Objs \ {linked} : t \in Batches /\ x # op[t].obj => SameRoot(x)
<1> DEFINE gen == IF op[t].bump THEN index.gen + 1 ELSE index.gen
           r == IF linked = 0 THEN root
                ELSE [root EXCEPT ![linked].handle = index.ver, ![linked].gen = gen]
           b == op[t].obj
<1>1. /\ t \in Threads /\ op \in [Threads -> OpType] /\ root \in [Objs -> RootType]
      /\ linked \in 0..MaxLinks /\ index \in IndexType /\ b \in 0..MaxLinks
      /\ (t \in Batches => t \notin Loads) /\ (t \in Loads => t[2] \in Objs)
      /\ linked # 0 => linked \in Objs
      /\ b # 0 => b \in Objs
  BY Kinds, Zero DEF RootInv, RestType, OpType, Threads, Loads
<1>2. index.gen \in Nat /\ index.ver \in Nat /\ gen \in Nat
  <2>1. index.gen \in Nat /\ index.ver \in Nat /\ index.gen + 1 \in Nat
    BY IndexTyped
  <2> QED BY <2>1
<1>3. index' \in IndexType /\ index'.is = index.is /\ index'.ver = index.ver /\ index'.gen = gen
  <2>1. index' = [index EXCEPT !.gen = gen]
    BY DEF Install
  <2> HIDE DEF gen
  <2> QED BY <1>1, <1>2, <2>1 DEF IndexType
<1> HIDE DEF gen
<1>4. /\ r \in [Objs -> RootType]
      /\ \A x \in Objs : /\ r[x].watch = root[x].watch /\ r[x].live = root[x].live
                         /\ r[x].newer = root[x].newer /\ r[x].never = root[x].never
                         /\ r[x].held = root[x].held /\ r[x].flag = root[x].flag
                         /\ r[x].passed = root[x].passed /\ r[x].failed = root[x].failed
                         /\ x # linked => r[x] = root[x]
      /\ linked # 0 => r[linked].handle = index.ver /\ r[linked].gen = gen
  <2>1. CASE linked = 0
    BY <2>1, <1>1
  <2>2. CASE linked # 0
    <3>1. /\ r = [root EXCEPT ![linked].handle = index.ver, ![linked].gen = gen]
          /\ root[linked] \in RootType
      BY <1>1, <2>2
    <3>2. /\ r[linked] = [root[linked] EXCEPT !.handle = index.ver, !.gen = gen]
          /\ \A x \in Objs \ {linked} : r[x] = root[x]
          /\ DOMAIN r = Objs
      BY <1>1, <2>2, <3>1
    <3> HIDE DEF r
    <3>3. /\ r[linked] \in RootType /\ r[linked].handle = index.ver /\ r[linked].gen = gen
          /\ r[linked].watch = root[linked].watch /\ r[linked].live = root[linked].live
          /\ r[linked].newer = root[linked].newer /\ r[linked].never = root[linked].never
          /\ r[linked].held = root[linked].held /\ r[linked].flag = root[linked].flag
          /\ r[linked].passed = root[linked].passed /\ r[linked].failed = root[linked].failed
      <4>1. root[linked] \in RootType /\ index.ver \in Nat /\ gen \in Nat
        BY <1>2, <3>1
      <4>2. r[linked] = [root[linked] EXCEPT !.handle = index.ver, !.gen = gen]
        BY <3>2
      <4> QED BY <4>1, <4>2 DEF RootType
    <3>4. r \in [Objs -> RootType]
      BY <1>1, <3>1, <3>2, <3>3
    <3> QED BY <1>1, <2>2, <3>2, <3>3, <3>4
  <2> QED BY <2>1, <2>2
<1>5. /\ t \in Loads => /\ Become(t, IF root[t[2]].again THEN At("queued") ELSE Idle)
                        /\ root' = [r EXCEPT ![t[2]].again = FALSE]
      /\ t \notin Loads => /\ Become(t, Idle)
                           /\ root' = IF b = 0 THEN r
                                      ELSE [r EXCEPT ![b].flag = HeldBy(b) # {},
                                                     ![b].passed = FALSE]
  BY Zenon DEF Install, Released, gen
<1> HIDE DEF r
<1>6. /\ OnlyThread(t) /\ op'[t] \in {Idle, At("queued")} /\ (t \in Batches => op'[t] = Idle)
  <2>1. Idle \in OpType /\ At("queued") \in OpType
    BY Records DEF Stages
  <2>2. CASE t \in Loads
    <3>1. (IF root[t[2]].again THEN At("queued") ELSE Idle) \in {Idle, At("queued")}
      OBVIOUS
    <3> QED BY <1>1, <1>5, <2>1, <2>2, <3>1, Becomes
  <2>3. CASE t \notin Loads
    BY <1>1, <1>5, <2>1, <2>3, Becomes
  <2> QED BY <2>2, <2>3
<1>7. /\ RootTyped
      /\ \A x \in Objs : /\ root'[x].watch = r[x].watch /\ root'[x].live = r[x].live
                         /\ root'[x].newer = r[x].newer /\ root'[x].never = r[x].never
                         /\ root'[x].held = r[x].held /\ root'[x].failed = r[x].failed
                         /\ root'[x].handle = r[x].handle /\ root'[x].gen = r[x].gen
                         /\ t \in Loads \/ x # b =>
                              root'[x].flag = r[x].flag /\ root'[x].passed = r[x].passed
                         /\ t \in Batches /\ x # b => root'[x] = r[x]
  <2>1. CASE t \in Loads
    <3>1. /\ root' = [r EXCEPT ![t[2]].again = FALSE] /\ t[2] \in Objs /\ r[t[2]] \in RootType
      BY <1>1, <1>4, <1>5, <2>1
    <3> QED BY <1>1, <1>4, <2>1, <3>1 DEF RootTyped, RootType
  <2>2. CASE t \notin Loads /\ b = 0
    BY <1>4, <1>5, <2>2 DEF RootTyped
  <2>3. CASE t \notin Loads /\ b # 0
    <3>1. /\ root' = [r EXCEPT ![b].flag = HeldBy(b) # {}, ![b].passed = FALSE]
          /\ b \in Objs /\ r[b] \in RootType /\ (HeldBy(b) # {}) \in BOOLEAN
      BY <1>1, <1>4, <1>5, <2>3
    <3> QED BY <1>1, <1>4, <2>3, <3>1 DEF RootTyped, RootType
  <2> QED BY <2>1, <2>2, <2>3
<1> HIDE DEF b
<1>8. \A x \in Objs : /\ SameWatch(x) /\ SameNewer(x)
                      /\ root'[x].held = root[x].held /\ root'[x].failed = root[x].failed
                      /\ x # linked => SameHandle(x)
                      /\ t \in Loads \/ x # b => SameHeld(x)
  BY <1>4, <1>7 DEF SameWatch, SameNewer, SameHandle, SameHeld
<1>9. linked # 0 => root'[linked].handle = index.ver /\ root'[linked].gen = index'.gen
  BY <1>1, <1>3, <1>4, <1>7
<1>10. \A x \in Objs \ {linked} : t \in Batches /\ x # b => SameRoot(x)
  BY <1>8 DEF SameRoot
<1> QED BY <1>3, <1>6, <1>7, <1>8, <1>9, <1>10 DEF gen, b

\* The batch or the reconcile commits and has its object read the new index.
LEMMA InstallStep ==
  ASSUME RootInv, NEW t \in Batches \cup Loads, Install(t)
  PROVE  RootInv'
<1> DEFINE b == op[t].obj
<1>1. /\ UNCHANGED <<linked, life, giveUps, other, reading, links, role, timer, happened, faults>>
      /\ UNCHANGED <<treeVars, watchVars>> /\ op[t].at = "install" /\ reading.obj = 0
  BY DEF Install, Unread, lifeVars, bounds, treeVars, watchVars
<1>2. /\ OnlyThread(t) /\ op'[t] \in {Idle, At("queued")} /\ (t \in Batches => op'[t] = Idle)
      /\ index' \in IndexType /\ index'.is = index.is /\ index'.ver = index.ver
      /\ index'.gen = IF op[t].bump THEN index.gen + 1 ELSE index.gen
      /\ RootTyped
  BY Installing
<1>3. /\ \A x \in Objs : /\ SameWatch(x) /\ SameNewer(x)
                         /\ root'[x].held = root[x].held /\ root'[x].failed = root[x].failed
                         /\ x # linked => SameHandle(x)
                         /\ t \in Loads \/ x # b => SameHeld(x)
      /\ linked # 0 => root'[linked].handle = index.ver /\ root'[linked].gen = index'.gen
  BY Installing
<1>4. /\ t \in Threads /\ (t \in Batches => t \notin Loads) /\ t # Query
      /\ op'[t].at \in {"idle", "queued"} /\ op'[t].obj = 0 /\ op'[t].gen = 0
      /\ op'[t].paths = {} /\ op'[t].full = FALSE /\ op'[t].bump = FALSE
  BY <1>2, Kinds, Records DEF Threads, Stages, Loads
<1>5. /\ index.gen \in Nat /\ index.ver \in Nat /\ index.gen <= index'.gen /\ index.gen # 0
      /\ index'.gen # 0
      /\ op[t].bump => index.gen < index'.gen
      /\ ~op[t].bump => index'.gen = index.gen
  BY <1>2, IndexTyped DEF RootInv, GenInv
<1>6. RestType'
  BY <1>1, <1>2 DEF RootInv, RestType, treeVars, watchVars
<1>7. GateInv'
  BY <1>4, <1>2, GateSteps DEF OnlyThread, Holding
<1>8. StageInv'
  <2>1. StageOk(t, op'[t])
    BY <1>2, <1>4, Records DEF StageOk, StagesOf, Batches, Stages
  <2> QED BY <1>2, <1>4, <2>1, StageSteps
<1>9. Steady
  <2>1. \A o \in Objs : Touchable(o) \/ SameRoot(o)
    <3> SUFFICES ASSUME NEW o \in Objs, ~Touchable(o)
                 PROVE  SameRoot(o)
      OBVIOUS
    <3>1. o # linked /\ o # b
      BY <1>4, Touching, Zero
    <3> QED BY <1>3, <3>1 DEF SameRoot
  <2>2. \A u \in Threads : /\ op'[u].obj = op[u].obj \/ op'[u].obj = 0
                           /\ op'[u] # Idle => op[u] # Idle
    BY <1>1, <1>2, <1>4, Records DEF OnlyThread
  <2>3. \A o \in Objs : Callback(o) \in Threads /\ Load(o) \in Threads
    BY Kinds
  <2>4. ASSUME NEW o \in Objs, Known(o)
        PROVE  root'[o].gen # 0
    <3>1. CASE o = linked
      BY <3>1, <1>3, <1>5, Zero
    <3>2. CASE o # linked
      BY <3>2, <2>4, <1>3 DEF Known, SameHandle
    <3> QED BY <3>1, <3>2
  <2> QED BY <1>1, <1>3, <2>1, <2>2, <2>3, <2>4 DEF Steady, SameHandle, SameNewer
<1>10. KnownInv' /\ LifeInv' /\ OwnedInv'
  BY <1>9, SteadySteps
<1>11. GenInv'
  <2>1. \A u \in Threads : op'[u].gen = op[u].gen \/ op'[u].gen <= index'.gen
    BY <1>2, <1>4, <1>5 DEF OnlyThread
  <2>2. ASSUME NEW o \in Objs
        PROVE  /\ root'[o].gen = root[o].gen \/ root'[o].gen <= index'.gen
               /\ root'[o].failed = root[o].failed
    <3>0. index'.gen \in Nat
      BY <1>2, IndexUpdates
    <3>1. CASE o = linked
      <4>1. root'[o].gen = index'.gen /\ index'.gen <= index'.gen
        BY <3>0, <3>1, <1>3, Zero
      <4> QED BY <4>1, <1>3
    <3>2. CASE o # linked
      BY <3>2, <1>3 DEF SameHandle
    <3> QED BY <3>1, <3>2
  <2>3. life'.gen = life.gen /\ op' \in [Threads -> OpType]
    BY <1>1, <1>2 DEF OnlyThread
  <2> QED BY <1>2, <1>5, <1>6, <2>1, <2>2, <2>3, GenSteps
<1>12. \A u \in Threads : op'[u].at # "walk"
  BY <1>1, <1>2, <1>4 DEF RootInv, GateInv, Holding, OnlyThread
<1>13. GoneInv'
  BY <1>1, <1>2, <1>12 DEF RootInv, GoneInv, Threads
<1>14. ServeInv'
  <2>1. \A o \in Objs : /\ root[o].gen <= index.gen /\ root[o].failed <= index.gen
    BY DEF RootInv, GenInv
  <2>2. ASSUME NEW o \in Objs, o = linked \/ (life.at = "publish" /\ life.obj = o)
        PROVE  Noticed(o)'
    <3>1. Noticed(o)
      BY <2>2 DEF RootInv, ServeInv
    <3>2. CASE o = linked
      BY <3>1, <3>2, <1>2, <1>3, <1>6, Zero, NoticedSteps
    <3>3. CASE o # linked /\ op[t].bump
      BY <3>1, <3>3, <1>2, <1>3, <1>5, <1>6, <2>1, NoticedSteps DEF SameHandle
    <3>4. CASE o # linked /\ ~op[t].bump
      <4>1. Publishing => Publishing'
        BY <1>1, <1>2, <3>4 DEF Publishing, OnlyThread
      <4> QED BY <3>1, <3>4, <4>1, <1>2, <1>3, <1>5, <1>6, NoticedSteps DEF SameNewer
    <3> QED BY <3>2, <3>3, <3>4
  <2>3. linked' = linked /\ life' = life /\ reading' = reading
    BY <1>1
  <2> QED BY <1>1, <2>2, <2>3 DEF ServeInv
<1>15. HeldInv'
  <2>1. \A u \in Batches : op'[u].at \notin Taken
    BY <1>1, <1>2, <1>4 DEF OnlyThread, RootInv, GateInv, Threads, Taken, Holding
  <2>2. linked # 0 => linked \in Objs
    BY Touching
  <2>3. ASSUME linked # 0, root'[linked].held # {}
        PROVE  Soon(linked)' /\ (\/ root'[linked].flag
                                 \/ \E u \in Batches : op'[u].at = "finally" /\ op'[u].obj = linked)
    <3>1. \A u \in Batches : op[u].at \in {"fired", "waits", "finally"} => op'[u] = op[u]
      BY <1>1, <1>2 DEF OnlyThread, Threads
    <3>2. root[linked].held # {}
      BY <1>3, <2>2, <2>3
    <3>3. t \in Loads \/ linked # b
      BY <1>1, <2>3, <3>2 DEF RootInv, HeldInv, Taken
    <3>4. SameHeld(linked)
      BY <1>3, <2>2, <2>3, <3>3
    <3>5. /\ Soon(linked)
          /\ root[linked].flag \/ \E u \in Batches : op[u].at = "finally" /\ op[u].obj = linked
      BY <3>2, <2>3 DEF RootInv, HeldInv
    <3> QED BY <3>1, <3>4, <3>5, <1>1 DEF Soon, Batches, SameHeld
  <2> QED BY <1>1, <2>1, <2>3 DEF HeldInv, Taken
<1>16. KeptInv'
  <2>1. \A u \in Batches, p \in Paths : Bears(u, p) => Bears(u, p)'
    BY <1>1, <1>2 DEF Bears, OnlyThread, Threads, treeVars
  <2>2. linked # 0 => \A p \in Paths : Comes(linked, p) => Comes(linked, p)'
    BY <1>1, <1>2, Touching, Kinds DEF Comes, OnlyThread, treeVars
  <2>3. \A u \in Batches : op'[u].at \in Taken \cup {"finally"} =>
           op[u].at \in Taken \cup {"finally"} /\ op'[u].obj = op[u].obj
    BY <1>2, <1>4 DEF OnlyThread, Threads, Taken
  <2>4. \A q \in Objs : op'[Callback(q)].at = "walk" => op[Callback(q)].at = "walk"
    BY <1>12, Kinds
  <2>5. linked # 0 => root[linked].held \subseteq root'[linked].held
    BY <1>3, Touching
  <2>6. /\ missed' = missed /\ events' = events /\ overflow' = overflow
        /\ stale' = stale /\ dropped' = dropped /\ linked' = linked
    BY <1>1 DEF treeVars, watchVars
  <2> QED BY <1>3, <2>1, <2>2, <2>3, <2>4, <2>5, <2>6, KeptSteps
<1>17. op' \in [Threads -> OpType]
  BY <1>2 DEF OnlyThread
<1> QED BY <1>2, <1>6, <1>7, <1>8, <1>10, <1>11, <1>13, <1>14, <1>15, <1>16, <1>17
     DEF RootInv, RootTyped

\* An update throws: its batch keeps in hand what it was to do.
LEMMA ThrowStep ==
  ASSUME RootInv, NEW t \in Batches, Throw(t)
  PROVE  RootInv'
<1>1. /\ UNCHANGED <<root, linked, life, giveUps, other, reading, links, role, timer, happened,
                     auto>>
      /\ UNCHANGED watchVars /\ stale' = stale /\ dropped' = dropped /\ missed' = {}
      /\ op[t].at \in {"lock", "walk"} /\ Advance(t, "catch")
      /\ index' \in {index, [index EXCEPT !.gen = @ + 1]}
  BY DEF Throw, lifeVars
<1>2. faults' \in Nat
  <2>1. faults \in Nat /\ faults + 1 \in Nat
    BY DEF RootInv, RestType
  <2> QED BY <2>1 DEF Throw, Pay
<1>3. /\ index' \in IndexType /\ index'.is = index.is /\ index'.ver = index.ver
      /\ index.gen <= index'.gen
  <2>1. index \in IndexType /\ index.gen \in Nat
    BY IndexTyped
  <2>2. LET y == [index EXCEPT !.gen = @ + 1]
        IN y \in IndexType /\ y.is = index.is /\ y.ver = index.ver /\ y.gen = index.gen + 1
    BY <2>1, IndexUpdates
  <2>3. CASE index' = index
    BY <2>1, <2>3
  <2>4. CASE index' = [index EXCEPT !.gen = @ + 1]
    BY <2>1, <2>2, <2>4
  <2> QED BY <1>1, <2>3, <2>4
<1>4. RestType'
  BY <1>1, <1>2, <1>3 DEF RootInv, RestType, watchVars
<1>5. t \in Threads /\ \A q \in Objs : t # Load(q)
  BY Kinds DEF Threads
<1>6. Onward(t, "catch")
  BY <1>1, <1>5, Advances DEF RootInv, Stages
<1>7. /\ OnlyThread(t) /\ op'[t].at = "catch" /\ op'[t].obj = op[t].obj
      /\ op'[t].gen = op[t].gen /\ op'[t].paths = op[t].paths /\ op'[t].full = op[t].full
  BY <1>6 DEF Onward
<1>8. StageOk(t, op'[t])
  <2>1. StageOk(t, op[t]) /\ t # Query
    BY <1>5, Kinds DEF RootInv, StageInv
  <2> QED BY <1>1, <1>7, <2>1 DEF StageOk, StagesOf, Batches
<1>9. RootTyped /\ \A o \in Objs : SameRoot(o)
  BY <1>1, SameRoots DEF RootInv
<1>10. \A u \in Threads : op'[u].at # "walk"
  BY <1>1, <1>5, <1>7 DEF RootInv, GateInv, Holding, OnlyThread
<1>11. GoneInv'
  BY <1>1, <1>3, <1>10 DEF RootInv, GoneInv, Threads
<1>12. HeldInv'
  <2>1. \A u \in Batches : Quiet(u, op'[u])
    BY <1>1, <1>7 DEF Quiet, Taken, OnlyThread, Threads
  <2>2. linked # 0 => (Soon(linked) => Soon(linked)')
    BY <1>1, <1>7 DEF Soon, OnlyThread, Threads, Batches
  <2> QED BY <1>1, <1>9, <2>1, <2>2, HeldSteps DEF SameRoot
<1>13. KeptInv'
  <2>1. \A u \in Batches : op'[u].at \in Taken \cup {"finally"} =>
           op[u].at \in Taken \cup {"finally"} /\ op'[u].obj = op[u].obj
    BY <1>1, <1>7 DEF OnlyThread, Threads, Taken
  <2>2. \A u \in Batches : op'[u].at \in Taken \cup {"finally"} /\ op'[u].obj = 0 =>
          linked' = 0 /\ u \in Watches
    BY <1>1, <2>1 DEF RootInv, KeptInv
  <2>3. ASSUME linked # 0, root'[linked].watch, NEW p \in stale' \ dropped'
        PROVE  Near(linked, p)'
    <3>1. Near(linked, p) /\ linked \in Objs /\ Load(linked) \in Threads \ {t}
      BY <2>3, <1>1, <1>5, Touching, Kinds DEF RootInv, KeptInv
    <3>2. \A u \in Batches : Bears(u, p) => Bears(u, p)'
      BY <1>1, <1>7 DEF Bears, OnlyThread, Threads
    <3>3. Comes(linked, p) => Comes(linked, p)'
      BY <1>1, <1>7, <3>1 DEF Comes, OnlyThread
    <3> QED BY <3>1, <3>2, <3>3, <1>1 DEF Near, watchVars
  <2> QED BY <1>1, <2>2, <2>3 DEF KeptInv
<1>14. op[t].at # "idle" /\ op[t].at # "install" /\ op[t].at \in Holding
       /\ linked \in {linked, op[t].obj}
  BY <1>1 DEF Holding
<1> QED BY <1>1, <1>3, <1>4, <1>7, <1>8, <1>9, <1>11, <1>12, <1>13, <1>14, BatchSteps
     DEF SameRoot, SameNewer

\* The handler of a batch that failed.
LEMMA CatchStep ==
  ASSUME RootInv, NEW t \in Batches, Catch(t)
  PROVE  RootInv'
<1> DEFINE b == op[t].obj
           held == HeldBy(b) \cup (IF b = 0 THEN {} ELSE op[t].paths)
<1>1. /\ UNCHANGED <<linked, life, index, other, reading, links, role, happened, faults, auto>>
      /\ UNCHANGED watchVars /\ stale' = stale /\ missed' = missed /\ op[t].at = "catch"
  BY DEF Catch, diskVars, lifeVars, bounds
<1>2. /\ OnlyThread(t) /\ op'[t].at = "finally" /\ op'[t].obj = b
      /\ op'[t].paths = {} /\ op'[t].full = FALSE /\ op'[t].bump = FALSE /\ op'[t].gen = 0
      /\ (timer' <=> timer \/ KeptOf(t) # {}) /\ timer' \in BOOLEAN
      /\ RootTyped
      /\ \A x \in Objs : SameWatch(x) /\ SameHandle(x) /\ root'[x].flag = root[x].flag
      /\ \A x \in Objs \ {b} : SameHeld(x)
      /\ b # 0 => root'[b].held = KeptOf(t)
      /\ \A x \in Objs \ {linked} : SameNewer(x)
      /\ linked # 0 => IF index.is = "newer" /\ ~root[linked].newer
                         THEN root'[linked].newer /\ root'[linked].never
                         ELSE SameNewer(linked)
  BY Typed, Catching
<1>3. giveUps' = IF index.is = "newer" /\ linked # 0 /\ ~root[linked].newer
                   THEN giveUps \cup {linked} ELSE giveUps
  BY DEF Catch, GiveUpBegins
<1>4. /\ t \in Threads /\ t # Query /\ \A q \in Objs : t # Load(q)
      /\ b # 0 => b \in Objs
      /\ linked # 0 => linked \in Objs
  BY Kinds, Touching DEF Threads
<1>5. KeptOf(t) = IF index.is = "newer" THEN {} ELSE held
  BY DEF KeptOf, HeldBy
<1>6. dropped' = dropped \cup (IF op[t].full THEN stale \ (events \cup KeptOf(t)) ELSE {})
                         \cup (IF index.is = "newer" \/ b # linked THEN stale \cap held ELSE {})
  BY <1>5 DEF Catch
<1> HIDE DEF held
<1>7. dropped' \subseteq stale'
  BY <1>1, <1>6 DEF RootInv, RestType
<1>8. /\ giveUps' \subseteq Objs /\ giveUps \subseteq giveUps'
      /\ giveUps' \subseteq giveUps \cup {linked}
  BY <1>3, <1>4 DEF RootInv, RestType
<1>9. RestType'
  BY <1>1, <1>2, <1>7, <1>8 DEF RootInv, RestType, watchVars
<1>10. StageOk(t, op'[t])
  BY <1>2, <1>4 DEF StageOk, StagesOf, Batches
<1>11. GoneInv'
  BY <1>1, <1>2, GoneSteps DEF OnlyThread, Threads
<1>12. \A u \in Batches : op'[u].at \notin Taken
  BY <1>1, <1>2, <1>4 DEF OnlyThread, RootInv, GateInv, Threads, Taken, Holding
<1>13. HeldInv'
  <2>1. ASSUME linked # 0, root'[linked].held # {}
        PROVE  Soon(linked)' /\ (\/ root'[linked].flag
                                 \/ \E u \in Batches : op'[u].at = "finally" /\ op'[u].obj = linked)
    <3>1. CASE linked = b
      BY <3>1, <2>1, <1>1, <1>2 DEF Soon
    <3>2. CASE linked # b
      <4>1. SameHeld(linked)
        BY <3>2, <2>1, <1>2, <1>4
      <4>2. /\ Soon(linked)
            /\ root[linked].flag \/ \E u \in Batches : op[u].at = "finally" /\ op[u].obj = linked
        BY <4>1, <2>1 DEF RootInv, HeldInv, SameHeld
      <4>3. \A u \in Batches : op[u].at \in {"fired", "waits", "finally"} => op'[u] = op[u]
        BY <1>1, <1>2 DEF OnlyThread, Threads
      <4> QED BY <4>1, <4>2, <4>3, <1>1, <1>2 DEF Soon, Batches, SameHeld
    <3> QED BY <3>1, <3>2
  <2> QED BY <1>1, <1>12, <2>1 DEF HeldInv, Taken
<1>14. KeptInv'
  <2>1. \A u \in Batches : op'[u].at \in Taken \cup {"finally"} =>
           op[u].at \in Taken \cup {"finally"} /\ op'[u].obj = op[u].obj
    BY <1>1, <1>2 DEF OnlyThread, Threads, Taken
  <2>2. \A u \in Batches : op'[u].at \in Taken \cup {"finally"} /\ op'[u].obj = 0 =>
          linked' = 0 /\ u \in Watches
    BY <1>1, <2>1 DEF RootInv, KeptInv
  <2>3. \A q \in Objs : op'[Callback(q)].at # "walk"
    BY <1>12, Kinds DEF Taken, Batches, Watches
  <2>4. ASSUME linked # 0, root'[linked].watch, NEW p \in stale' \ dropped'
        PROVE  Near(linked, p)'
    <3>1. linked \in Objs /\ b # 0 /\ p \in stale \ dropped /\ Load(linked) \in Threads \ {t}
      BY <2>4, <1>1, <1>4, <1>6, Kinds DEF RootInv, KeptInv, Taken
    <3>2. Near(linked, p)
      BY <1>2, <2>4, <3>1 DEF RootInv, KeptInv, SameWatch
    <3>3. p \in held => b = linked /\ p \in KeptOf(t)
      BY <3>1, <2>4, <1>1, <1>5, <1>6
    <3>4. p \in held => Near(linked, p)'
      BY <3>1, <3>3, <1>1, <1>2 DEF Near
    <3>5. CASE p \in events \/ overflow
      BY <3>5, <1>1 DEF Near, watchVars
    <3>6. CASE p \in root[linked].held
      <4>1. CASE b = linked
        BY <3>4, <3>6, <4>1, <2>4 DEF held, HeldBy
      <4>2. CASE b # linked
        BY <3>6, <4>2, <3>1, <1>1, <1>2 DEF Near, SameHeld
      <4> QED BY <4>1, <4>2
    <3>7. CASE \E u \in Batches : Bears(u, p)
      <4>1. PICK u \in Batches : Bears(u, p)
        BY <3>7
      <4>2. CASE u = t /\ p \in op[t].paths
        BY <4>2, <3>1, <3>4 DEF held
      <4>3. CASE u = t /\ op[t].full
        <5>1. p \in events \/ p \in KeptOf(t)
          BY <4>3, <3>1, <2>4, <1>6
        <5>2. KeptOf(t) \subseteq held
          BY <1>5
        <5> QED BY <5>1, <5>2, <3>4, <3>5
      <4>4. CASE u # t
        <5>1. Bears(u, p)'
          BY <4>1, <4>4, <1>1, <1>2 DEF Bears, OnlyThread, Threads
        <5> QED BY <5>1 DEF Near
      <4> QED BY <4>1, <4>2, <4>3, <4>4 DEF Bears
    <3>8. CASE Comes(linked, p)
      <4>1. op'[Load(linked)] = op[Load(linked)]
        BY <3>1, <1>2 DEF OnlyThread
      <4> QED BY <3>8, <4>1, <1>1 DEF Comes, Near
    <3> QED BY <3>2, <3>5, <3>6, <3>7, <3>8 DEF Near
  <2> QED BY <1>1, <2>2, <2>3, <2>4 DEF KeptInv
<1>15. op[t].at # "idle" /\ op[t].at # "install" /\ op[t].at \in Holding
  BY <1>1 DEF Holding
<1>16. \A x \in Objs : /\ root[x].newer => root'[x].newer
                       /\ x = linked \/ SameNewer(x)
                       /\ root'[x].newer /\ root'[x].never /\ x \notin giveUps' =>
                            root[x].newer /\ root[x].never
  BY <1>2, <1>3, Zero DEF SameNewer
<1>17. index'.ver = index.ver /\ index.gen <= index'.gen
  BY <1>1, IndexTyped
<1>18. b \in {linked, op[t].obj} /\ op'[t].obj = op[t].obj
  BY <1>2
<1> HIDE DEF b
<1> QED BY <1>1, <1>2, <1>8, <1>9, <1>10, <1>11, <1>13, <1>14, <1>15, <1>16, <1>17, <1>18,
           BatchSteps

-----------------------------------------------------------------------------
(* The reconcile that is let go of, and a query's reload *)

\* What the end of a reconcile leaves behind.
LEMMA LoadEnding ==
  ASSUME RootInv, NEW o \in Objs, LoadEnds(o)
  PROVE  /\ OnlyThread(Load(o)) /\ op'[Load(o)] \in {Idle, At("queued")}
         /\ RootTyped /\ \A x \in Objs : SameRoot(x)
<1>1. /\ op \in [Threads -> OpType] /\ root \in [Objs -> RootType] /\ Load(o) \in Threads
      /\ Idle \in OpType /\ At("queued") \in OpType
  BY Kinds, Records DEF RootInv, Stages
<1>2. /\ Become(Load(o), IF root[o].again THEN At("queued") ELSE Idle)
      /\ root' = [root EXCEPT ![o].again = FALSE]
  BY DEF LoadEnds
<1>3. (IF root[o].again THEN At("queued") ELSE Idle) \in {Idle, At("queued")}
  OBVIOUS
<1>4. OnlyThread(Load(o)) /\ op'[Load(o)] \in {Idle, At("queued")}
  BY <1>1, <1>2, <1>3, Becomes
<1>5. /\ root'[o] = [root[o] EXCEPT !.again = FALSE] /\ root[o] \in RootType
      /\ \A x \in Objs \ {o} : root'[x] = root[x]
  BY <1>1, <1>2
<1>6. RootTyped
  BY <1>1, <1>2, <1>5 DEF RootTyped, RootType
<1>7. \A x \in Objs : SameRoot(x)
  BY <1>5 DEF SameRoot, SameWatch, SameHandle, SameNewer, SameHeld, RootType
<1> QED BY <1>4, <1>6, <1>7

\* What a batch has in its hands it will see to.
LEMMA InHands ==
  ASSUME RootInv, linked # 0, root[linked].watch, NEW u \in Threads, NEW p \in op[u].paths
  PROVE  /\ u \in Batches
         /\ Bears(u, p) \/ (op[u].at = "walk" /\ (p \in events \/ overflow))
<1>1. u \in Batches /\ op[u].at \in {"waits", "lock", "walk", "catch"} /\ StageOk(u, op[u])
  BY DEF RootInv, StageInv, StageOk
<1>2. CASE op[u].at = "walk" /\ p \in missed
  <2>1. op[u].full
    BY <1>1, <1>2 DEF RootInv, GoneInv
  <2>2. u \in Watches
    BY <1>1, <2>1 DEF StageOk, Batches
  <2>3. PICK q \in Objs : u = Callback(q)
    BY <2>2 DEF Watches
  <2>4. op[Callback(q)] # Idle
    BY <1>2, <2>3, Records
  <2>5. root[q].watch
    BY <2>4 DEF RootInv, OwnedInv, LifeInv
  <2>6. missed \subseteq events \/ overflow
    BY <1>2, <2>3, <2>5 DEF RootInv, KeptInv
  <2> QED BY <1>1, <1>2, <2>6
<1> QED BY <1>1, <1>2 DEF Bears

\* The reconcile is skipped or fails: what nobody else has in hand is let go of.
LEMMA LoadEndsStep ==
  ASSUME RootInv, NEW o \in Objs, LoadSkips(o) \/ LoadFails(o)
  PROVE  RootInv'
<1> DEFINE t == Load(o)
<1>1. /\ UNCHANGED <<linked, life, giveUps, other, reading, links, role, timer, happened, auto>>
      /\ UNCHANGED watchVars /\ stale' = stale
      /\ dropped' = dropped \cup (stale \ Carried)
      /\ LoadEnds(o) /\ op[t].at \in {"queued", "waits", "lock", "walk"}
      /\ \/ missed' = missed
         \/ missed' = {} /\ op[t].at \in {"lock", "walk"}
      /\ index' = index \/ index' = [index EXCEPT !.gen = @ + 1]
  BY DEF LoadSkips, LoadFails, lifeVars, bounds, diskVars
<1>2. faults' \in Nat
  <2>1. faults \in Nat /\ faults + 1 \in Nat
    BY DEF RootInv, RestType
  <2> QED BY <2>1 DEF LoadSkips, LoadFails, Pay, bounds
<1>3. /\ index' \in IndexType /\ index'.is = index.is /\ index'.ver = index.ver
      /\ index.gen \in Nat /\ index.gen <= index'.gen
      /\ index' = index \/ index.gen < index'.gen
  <2>1. index \in IndexType /\ index.gen \in Nat
    BY IndexTyped
  <2>2. LET y == [index EXCEPT !.gen = @ + 1]
        IN y \in IndexType /\ y.is = index.is /\ y.ver = index.ver /\ y.gen = index.gen + 1
    BY <2>1, IndexUpdates
  <2>3. CASE index' = index
    BY <2>1, <2>3
  <2>4. CASE index' = [index EXCEPT !.gen = @ + 1]
    BY <2>1, <2>2, <2>4
  <2> QED BY <1>1, <2>3, <2>4
<1>4. RestType'
  BY <1>1, <1>2, <1>3 DEF RootInv, RestType, watchVars
<1>5. /\ OnlyThread(t) /\ op'[t] \in {Idle, At("queued")}
      /\ RootTyped /\ \A x \in Objs : SameRoot(x)
  BY <1>1, LoadEnding
<1>6. /\ t \in Threads /\ t \notin Batches /\ t \in Loads /\ t # Query
      /\ \A q \in Objs : Callback(q) # t /\ (t = Load(q) => q = o)
      /\ op'[t].at \in {"idle", "queued"} /\ op'[t].obj = 0 /\ op'[t].gen = 0
      /\ op'[t].paths = {} /\ op'[t].full = FALSE
  BY <1>5, Kinds, Records DEF Stages, Loads
<1>7. op' \in [Threads -> OpType] /\ GateInv'
  BY <1>5, <1>6, GateSteps DEF OnlyThread, Holding
<1>8. StageInv'
  <2>1. StageOk(t, op'[t])
    BY <1>5, <1>6, Records DEF StageOk, StagesOf, Batches, Stages
  <2> QED BY <1>5, <1>6, <2>1, StageSteps
<1>9. Steady
  <2>1. \A u \in Threads : /\ op'[u].obj = op[u].obj \/ op'[u].obj = 0
                           /\ op'[u] # Idle => op[u] # Idle
    BY <1>1, <1>5, <1>6, Records DEF OnlyThread
  <2>2. \A q \in Objs : Callback(q) \in Threads /\ Load(q) \in Threads
    BY Kinds
  <2> QED BY <1>1, <1>5, <2>1, <2>2 DEF Steady, SameRoot, SameHandle, SameNewer, Known
<1>10. KnownInv' /\ LifeInv' /\ OwnedInv'
  BY <1>9, SteadySteps
<1>11. GenInv'
  <2>1. \A u \in Threads : op'[u].gen = op[u].gen \/ op'[u].gen <= index'.gen
    <3>1. 0 <= index'.gen
      BY <1>3 DEF IndexType
    <3> QED BY <3>1, <1>5, <1>6 DEF OnlyThread
  <2>2. \A q \in Objs : root'[q].gen = root[q].gen /\ root'[q].failed = root[q].failed
    BY <1>5 DEF SameRoot, SameHandle
  <2>3. life'.gen = life.gen
    BY <1>1
  <2> QED BY <1>3, <1>4, <1>5, <1>7, <2>1, <2>2, <2>3, GenSteps
<1>12. GoneInv'
  BY <1>1, <1>3, <1>5, <1>6, GoneSteps DEF OnlyThread, Threads
<1>13. ServeInv'
  <2>1. Publishing => Publishing'
    BY <1>1, <1>5 DEF Publishing, OnlyThread
  <2>2. \A q \in Objs : root[q].gen <= index.gen /\ root[q].failed <= index.gen
    BY DEF RootInv, GenInv
  <2>3. \A q \in Objs : Noticed(q) => Noticed(q)'
    BY <1>3, <1>4, <1>5, <2>1, <2>2, NoticedSteps DEF SameRoot, SameHandle, SameNewer
  <2>4. reading.obj # 0 => reading.obj \in Objs
    BY Touching DEF RootInv, ServeInv
  <2>5. linked' = linked /\ life' = life /\ reading' = reading
    BY <1>1
  <2> QED BY <1>5, <2>3, <2>4, <2>5 DEF RootInv, ServeInv, SameRoot, SameHandle
<1>14. \A u \in Batches : op'[u] = op[u]
  BY <1>5, <1>6 DEF OnlyThread, Threads
<1>15. HeldInv'
  <2>1. \A u \in Batches : Quiet(u, op'[u])
    BY <1>14 DEF Quiet
  <2>2. linked # 0 => (Soon(linked) => Soon(linked)')
    BY <1>1, <1>5, <1>14, Touching DEF Soon, SameRoot, SameHeld, Batches
  <2> QED BY <1>1, <1>5, <2>1, <2>2, HeldSteps DEF SameRoot
<1>16. KeptInv'
  <2>1. \A u \in Batches : op'[u].at \in Taken \cup {"finally"} /\ op'[u].obj = 0 =>
          linked' = 0 /\ u \in Watches
    BY <1>1, <1>14 DEF RootInv, KeptInv
  <2>2. \A q \in Objs : Callback(q) \in Batches
    BY DEF Batches, Watches
  <2>3. \A q \in Objs : op'[Callback(q)].at = "walk" /\ root'[q].watch =>
          missed' \subseteq events' \/ overflow'
    BY <1>1, <1>5, <1>14, <2>2 DEF RootInv, KeptInv, SameRoot, SameWatch, watchVars
  <2>4. ASSUME linked # 0, root'[linked].watch, NEW p \in stale' \ dropped'
        PROVE  Near(linked, p)'
    <3>1. linked \in Objs /\ root[linked].watch /\ p \in Carried
      BY <2>4, <1>1, <1>5, Touching DEF SameRoot, SameWatch
    <3>2. CASE p \in events \cup root[linked].held \/ overflow
      BY <3>1, <3>2, <1>1, <1>5 DEF Near, SameRoot, SameHeld, watchVars
    <3>3. CASE \E u \in Threads : p \in op[u].paths
      <4>1. PICK u \in Threads : p \in op[u].paths
        BY <3>3
      <4>2. u \in Batches /\ (Bears(u, p) \/ (p \in events \/ overflow))
        BY <3>1, <2>4, <4>1, InHands
      <4>3. CASE Bears(u, p)
        <5>1. Bears(u, p)'
          BY <4>2, <4>3, <1>1, <1>14 DEF Bears
        <5> QED BY <4>2, <5>1 DEF Near
      <4> QED BY <3>2, <4>2, <4>3
    <3> QED BY <3>1, <3>2, <3>3, <2>4 DEF Carried, HeldBy
  <2> QED BY <1>1, <2>1, <2>3, <2>4 DEF KeptInv
<1> QED BY <1>4, <1>5, <1>7, <1>8, <1>10, <1>11, <1>12, <1>13, <1>15, <1>16 DEF RootInv, RootTyped

\* What a reload does to the objects.
ReloadedRoots(o, g) ==
  /\ RootTyped /\ giveUps \subseteq giveUps' /\ giveUps' \subseteq Objs
  /\ giveUps' \subseteq giveUps \cup {linked}
  /\ \A x \in Objs : /\ SameWatch(x) /\ SameHeld(x)
                     /\ x \notin {o, linked} => SameRoot(x)
                     /\ x # linked => root'[x].handle = root[x].handle
                     /\ root'[x].gen \in {root[x].gen, g}
                     /\ root'[x].failed \in {root[x].failed, 0, g}
                     /\ root'[x].newer /\ root'[x].never /\ x \notin giveUps' =>
                          root[x].newer /\ root[x].never
  /\ \/ reading.obj = 0 /\ (linked # 0 => root'[linked].handle = index.ver)
     \/ /\ \A x \in Objs : root'[x].handle = root[x].handle /\ root'[x].gen = root[x].gen
        /\ linked # 0 => root'[linked].newer \/ (SameHandle(linked) /\ SameNewer(linked))

\* What a query's reload does to the objects, whether the index loads or not.
LEMMA Reloading ==
  ASSUME RootInv, Reloaded
  PROVE  /\ op[Query].obj \in Objs /\ op[Query].gen \in Nat \ {0}
         /\ ReloadedRoots(op[Query].obj, op[Query].gen)
<1> DEFINE o == op[Query].obj
           g == op[Query].gen
<1>1. /\ op \in [Threads -> OpType] /\ root \in [Objs -> RootType] /\ Query \in Threads
      /\ linked \in 0..MaxLinks /\ giveUps \subseteq Objs /\ op[Query].at = "reload"
  BY Kinds DEF RootInv, RestType, Reloaded
<1>2. /\ o \in Objs /\ g \in Nat \ {0} /\ index.ver \in Nat /\ index.gen \in Nat
      /\ linked # 0 => linked \in Objs
  BY <1>1, Touching, IndexTyped DEF RootInv, StageInv, StageOk, OpType
<1>3. \/ /\ Unread /\ giveUps' = giveUps
         /\ LET r == IF linked = 0 THEN root
                     ELSE [root EXCEPT ![linked].handle = index.ver, ![linked].gen = g]
            IN root' = [r EXCEPT ![o].failed = 0, ![o].newer = FALSE,
                                 ![o].never = @ /\ ~root[o].newer]
      \/ /\ root' = GivenUp([root EXCEPT ![o].failed = g])
         /\ GiveUpBegins
      \/ root' = root /\ giveUps' = giveUps
  BY Zenon DEF Reloaded
<1> HIDE DEF o, g
<1>4. CASE /\ Unread /\ giveUps' = giveUps
           /\ LET r == IF linked = 0 THEN root
                       ELSE [root EXCEPT ![linked].handle = index.ver, ![linked].gen = g]
              IN root' = [r EXCEPT ![o].failed = 0, ![o].newer = FALSE,
                                   ![o].never = @ /\ ~root[o].newer]
  <2> DEFINE r == IF linked = 0 THEN root
                  ELSE [root EXCEPT ![linked].handle = index.ver, ![linked].gen = g]
  <2>1. root' = [r EXCEPT ![o].failed = 0, ![o].newer = FALSE, ![o].never = @ /\ ~root[o].newer]
    BY <1>4
  <2>2. /\ r \in [Objs -> RootType]
        /\ \A x \in Objs : /\ r[x].watch = root[x].watch /\ r[x].live = root[x].live
                           /\ r[x].newer = root[x].newer /\ r[x].never = root[x].never
                           /\ r[x].held = root[x].held /\ r[x].flag = root[x].flag
                           /\ r[x].passed = root[x].passed /\ r[x].failed = root[x].failed
                           /\ x # linked => r[x] = root[x]
        /\ linked # 0 => r[linked].handle = index.ver /\ r[linked].gen = g
    <3>1. CASE linked = 0
      BY <1>1, <3>1
    <3>2. CASE linked # 0
      <4>1. r = [root EXCEPT ![linked].handle = index.ver, ![linked].gen = g]
        BY <3>2
      <4>2. /\ r[linked] = [root[linked] EXCEPT !.handle = index.ver, !.gen = g]
            /\ \A x \in Objs \ {linked} : r[x] = root[x]
            /\ DOMAIN r = Objs
        BY <1>1, <1>2, <3>2, <4>1
      <4> HIDE DEF r
      <4>3. /\ r[linked] \in RootType /\ r[linked].handle = index.ver /\ r[linked].gen = g
            /\ r[linked].watch = root[linked].watch /\ r[linked].live = root[linked].live
            /\ r[linked].newer = root[linked].newer /\ r[linked].never = root[linked].never
            /\ r[linked].held = root[linked].held /\ r[linked].flag = root[linked].flag
            /\ r[linked].passed = root[linked].passed /\ r[linked].failed = root[linked].failed
        <5>1. root[linked] \in RootType /\ index.ver \in Nat /\ g \in Nat
          BY <1>1, <1>2, <3>2
        <5>2. r[linked] = [root[linked] EXCEPT !.handle = index.ver, !.gen = g]
          BY <4>2
        <5> QED BY <5>1, <5>2 DEF RootType
      <4>4. r \in [Objs -> RootType]
        BY <1>1, <1>2, <3>2, <4>1, <4>2, <4>3
      <4> QED BY <1>1, <3>2, <4>2, <4>3, <4>4
    <3> QED BY <3>1, <3>2
  <2> HIDE DEF r
  <2>3. /\ root'[o] = [r[o] EXCEPT !.failed = 0, !.newer = FALSE, !.never = @ /\ ~root[o].newer]
        /\ r[o] \in RootType /\ \A x \in Objs \ {o} : root'[x] = r[x]
        /\ DOMAIN root' = Objs
    BY <1>2, <2>1, <2>2
  <2>4. PICK nv \in BOOLEAN :
          root'[o] = [r[o] EXCEPT !.failed = 0, !.newer = FALSE, !.never = nv]
    <3>1. (r[o].never /\ ~root[o].newer) \in BOOLEAN
      OBVIOUS
    <3> QED BY <2>3, <3>1
  <2>5. /\ root'[o] \in RootType /\ root'[o].failed = 0 /\ root'[o].newer = FALSE
        /\ root'[o].watch = r[o].watch /\ root'[o].live = r[o].live
        /\ root'[o].handle = r[o].handle /\ root'[o].gen = r[o].gen
        /\ root'[o].held = r[o].held /\ root'[o].flag = r[o].flag
        /\ root'[o].passed = r[o].passed
    <3>1. r[o] \in RootType
      BY <2>3
    <3>2. root'[o] \in RootType
      <4>1. [r[o] EXCEPT !.failed = 0] \in RootType
        BY <3>1 DEF RootType
      <4>2. [r[o] EXCEPT !.failed = 0, !.newer = FALSE] \in RootType
        BY <3>1, <4>1 DEF RootType
      <4> QED BY <2>4, <4>2, <3>1 DEF RootType
    <3>3. root'[o].failed = 0 /\ root'[o].newer = FALSE
      BY <2>4, <3>1 DEF RootType
    <3>4. /\ root'[o].watch = r[o].watch /\ root'[o].live = r[o].live
          /\ root'[o].handle = r[o].handle /\ root'[o].gen = r[o].gen
      BY <2>4, <3>1 DEF RootType
    <3>5. /\ root'[o].held = r[o].held /\ root'[o].flag = r[o].flag
          /\ root'[o].passed = r[o].passed
      BY <2>4, <3>1 DEF RootType
    <3> QED BY <3>2, <3>3, <3>4, <3>5
  <2>6. RootTyped
    BY <2>1, <2>2, <2>3, <2>5 DEF RootTyped
  <2>7. \A x \in Objs : /\ root'[x].watch = r[x].watch /\ root'[x].live = r[x].live
                        /\ root'[x].held = r[x].held /\ root'[x].flag = r[x].flag
                        /\ root'[x].passed = r[x].passed
                        /\ root'[x].handle = r[x].handle /\ root'[x].gen = r[x].gen
                        /\ x # o => root'[x] = r[x]
    <3>1. \A x \in Objs \ {o} : root'[x] = r[x]
      BY <2>3
    <3> QED BY <2>5, <3>1
  <2>8. \A x \in Objs : /\ SameWatch(x) /\ SameHeld(x)
                        /\ x \notin {o, linked} => SameRoot(x)
                        /\ x # linked => root'[x].handle = root[x].handle
    BY <2>2, <2>7 DEF SameRoot, SameWatch, SameHandle, SameNewer, SameHeld
  <2>9. \A x \in Objs : /\ root'[x].gen \in {root[x].gen, g}
                        /\ root'[x].failed \in {root[x].failed, 0, g}
                        /\ root'[x].newer /\ root'[x].never => root[x].newer /\ root[x].never
    <3>1. /\ root'[o].gen = r[o].gen /\ root'[o].failed = 0 /\ root'[o].newer = FALSE
          /\ \A x \in Objs \ {o} : root'[x] = r[x]
      BY <2>5, <2>7
    <3>2. \A x \in Objs : root'[x].gen \in {root[x].gen, g}
      BY <2>2, <3>1, Zero
    <3>3. \A x \in Objs \ {o} : /\ root'[x].failed = root[x].failed
                                /\ root'[x].newer = root[x].newer
                                /\ root'[x].never = root[x].never
      BY <2>2, <3>1
    <3> QED BY <3>1, <3>2, <3>3
  <2>10. reading.obj = 0 /\ (linked # 0 => root'[linked].handle = index.ver)
    BY <1>2, <1>4, <2>2, <2>7 DEF Unread
  <2> QED BY <1>1, <1>2, <1>4, <2>6, <2>7, <2>8, <2>9, <2>10 DEF ReloadedRoots, o, g
<1>5. CASE root' = GivenUp([root EXCEPT ![o].failed = g]) /\ GiveUpBegins
  <2> DEFINE r == [root EXCEPT ![o].failed = g]
  <2>1. /\ r \in [Objs -> RootType]
        /\ \A x \in Objs : /\ r[x].watch = root[x].watch /\ r[x].live = root[x].live
                           /\ r[x].newer = root[x].newer /\ r[x].never = root[x].never
                           /\ r[x].held = root[x].held /\ r[x].flag = root[x].flag
                           /\ r[x].passed = root[x].passed
                           /\ r[x].handle = root[x].handle /\ r[x].gen = root[x].gen
                           /\ x # o => r[x] = root[x]
        /\ r[o].failed = g
    <3>1. /\ r[o] = [root[o] EXCEPT !.failed = g] /\ root[o] \in RootType
          /\ \A x \in Objs \ {o} : r[x] = root[x]
      BY <1>1, <1>2
    <3>2. r \in [Objs -> RootType]
      BY <1>1, <1>2, <3>1 DEF RootType
    <3> HIDE DEF r
    <3> QED BY <1>2, <3>1, <3>2 DEF RootType
  <2>2. root' = GivenUp(r)
    BY <1>5
  <2> HIDE DEF r
  <2>3. /\ RootTyped
        /\ \A x \in Objs :
             /\ root'[x].watch = r[x].watch /\ root'[x].live = r[x].live
             /\ root'[x].gen = r[x].gen /\ root'[x].handle = r[x].handle
             /\ root'[x].failed = r[x].failed /\ root'[x].flag = r[x].flag
             /\ root'[x].held = r[x].held /\ root'[x].passed = r[x].passed
        /\ \A x \in Objs \ {linked} :
             root'[x].newer = r[x].newer /\ root'[x].never = r[x].never
        /\ linked # 0 => IF root[linked].newer
                           THEN /\ root'[linked].newer = r[linked].newer
                                /\ root'[linked].never = r[linked].never
                           ELSE root'[linked].newer /\ root'[linked].never
    BY <1>1, <2>1, <2>2, GivingUp
  <2>4. giveUps' = IF linked = 0 \/ root[linked].newer THEN giveUps ELSE giveUps \cup {linked}
    BY <1>5 DEF GiveUpBegins
  <2>5. /\ giveUps \subseteq giveUps' /\ giveUps' \subseteq Objs
        /\ giveUps' \subseteq giveUps \cup {linked}
    BY <1>1, <1>2, <2>4
  <2>6. \A x \in Objs : SameWatch(x) /\ SameHeld(x)
    BY <2>1, <2>3 DEF SameWatch, SameHeld
  <2>7. \A x \in Objs : /\ x \notin {o, linked} => SameRoot(x)
                        /\ root'[x].handle = root[x].handle /\ root'[x].gen = root[x].gen
                        /\ root'[x].failed \in {root[x].failed, g}
    BY <2>1, <2>3 DEF SameRoot, SameWatch, SameHandle, SameNewer, SameHeld
  <2>8. ASSUME NEW x \in Objs, root'[x].newer, root'[x].never, x \notin giveUps'
        PROVE  root[x].newer /\ root[x].never
    <3>1. CASE x = linked
      <4>1. linked # 0 /\ root[linked].newer
        BY <2>4, <2>8, <3>1, Zero
      <4> QED BY <2>1, <2>3, <2>8, <3>1, <4>1
    <3>2. CASE x # linked
      BY <2>1, <2>3, <2>8, <3>2
    <3> QED BY <3>1, <3>2
  <2>9. linked # 0 => root'[linked].newer
    BY <1>2, <2>1, <2>3
  <2> QED BY <1>1, <1>2, <2>3, <2>5, <2>6, <2>7, <2>8, <2>9 DEF ReloadedRoots, o, g
<1>6. CASE root' = root /\ giveUps' = giveUps
  <2>1. RootTyped /\ \A x \in Objs : SameRoot(x)
    BY <1>1, <1>6, SameRoots
  <2> QED BY <1>1, <1>2, <1>6, <2>1
       DEF ReloadedRoots, SameRoot, SameHandle, SameNewer, o, g
<1> QED BY <1>3, <1>4, <1>5, <1>6

\* A query's reload.
LEMMA ReloadedStep ==
  ASSUME RootInv, Reloaded
  PROVE  RootInv'
<1> DEFINE o == op[Query].obj
           g == op[Query].gen
<1>1. /\ UNCHANGED <<linked, life, index, other, reading, links, role, timer, happened>>
      /\ UNCHANGED <<treeVars, watchVars>> /\ op[Query].at = "reload" /\ Become(Query, Idle)
  BY DEF Reloaded, lifeVars, diskVars, bounds, treeVars, watchVars
<1>2. faults' \in Nat
  <2>1. faults \in Nat /\ faults + 1 \in Nat
    BY DEF RootInv, RestType
  <2> QED BY <2>1 DEF Reloaded, Pay
<1>3. o \in Objs /\ g \in Nat \ {0} /\ ReloadedRoots(o, g)
  BY Reloading
<1>4. /\ RootTyped /\ giveUps \subseteq giveUps' /\ giveUps' \subseteq Objs
      /\ giveUps' \subseteq giveUps \cup {linked}
      /\ \A x \in Objs : SameWatch(x) /\ SameHeld(x)
  BY <1>3 DEF ReloadedRoots
<1>5. RestType'
  BY <1>1, <1>2, <1>4 DEF RootInv, RestType, treeVars, watchVars
<1>6. /\ Query \in Threads /\ Query \notin Batches
      /\ \A x \in Objs : Query # Load(x) /\ Query # Callback(x)
  BY Kinds DEF Batches
<1>7. OnlyThread(Query) /\ op'[Query] = Idle
  BY <1>1, <1>6, Becomes, Records DEF RootInv
<1>8. op' \in [Threads -> OpType] /\ GateInv'
  BY <1>6, <1>7, Records, GateSteps DEF OnlyThread, Holding
<1>9. StageInv'
  <2>1. StageOk(Query, op'[Query])
    BY <1>6, <1>7, Kinds, Records DEF StageOk, StagesOf, Batches
  <2> QED BY <1>6, <1>7, <2>1, StageSteps
<1>10. \A u \in Batches : op'[u] = op[u]
  BY <1>6, <1>7 DEF OnlyThread, Threads
<1>11. Touchable(o) /\ g <= index.gen /\ index.gen \in Nat
  BY <1>3, <1>6, Touching, Zero, IndexTyped DEF RootInv, GenInv
<1> HIDE DEF o, g
<1>12. Steady
  <2>1. \A x \in Objs : Touchable(x) \/ SameRoot(x)
    BY <1>3, <1>11, Touching, Zero DEF ReloadedRoots
  <2>2. \A x \in Objs : op'[Callback(x)] = op[Callback(x)] /\ op'[Load(x)] = op[Load(x)]
    BY <1>6, <1>7, Kinds DEF OnlyThread
  <2>3. \A u \in Threads : op'[u].obj = op[u].obj \/ op'[u].obj = 0
    BY <1>7, Records DEF OnlyThread
  <2>4. \A x \in Objs : Known(x) => root'[x].gen # 0
    BY <1>3 DEF ReloadedRoots, Known
  <2>5. \A x \in Objs : 
          /\ x # linked => root'[x].handle = root[x].handle
          /\ root'[x].newer /\ root'[x].never /\ x \notin giveUps' => root[x].newer /\ root[x].never
    BY <1>3 DEF ReloadedRoots
  <2> QED BY <1>1, <1>4, <2>1, <2>2, <2>3, <2>4, <2>5 DEF Steady
<1>13. KnownInv' /\ LifeInv' /\ OwnedInv'
  BY <1>12, SteadySteps
<1>14. GenInv'
  <2>0. index' = index /\ life'.gen = life.gen /\ index.gen <= index'.gen /\ 0 <= index'.gen
    BY <1>1, <1>11
  <2>1. \A u \in Threads : op'[u].gen = op[u].gen \/ op'[u].gen <= index'.gen
    BY <2>0, <1>7, Records DEF OnlyThread
  <2>2. ASSUME NEW x \in Objs
        PROVE  /\ root'[x].gen = root[x].gen \/ root'[x].gen <= index'.gen
               /\ root'[x].failed = root[x].failed \/ root'[x].failed <= index'.gen
    <3>1. root'[x].gen \in {root[x].gen, g} /\ root'[x].failed \in {root[x].failed, 0, g}
      BY <1>3 DEF ReloadedRoots
    <3> QED BY <3>1, <2>0, <1>11
  <2> QED BY <2>0, <2>1, <2>2, <1>4, <1>5, <1>8, GenSteps
<1>15. GoneInv'
  BY <1>1, <1>10, GoneSteps
<1>16. ServeInv'
  <2>1. Publishing => Publishing'
    BY <1>1, <1>7 DEF Publishing, OnlyThread
  <2>2. ASSUME NEW x \in Objs, x = linked \/ (life.at = "publish" /\ life.obj = x)
        PROVE  Noticed(x)'
    <3>1. Noticed(x)
      BY <2>2 DEF RootInv, ServeInv
    <3>2. CASE x = linked /\ root'[linked].handle = index.ver
      BY <3>1, <3>2, <1>1, <1>4, <1>5, NoticedSteps
    <3>3. CASE x = linked /\ root'[x].handle = root[x].handle /\ root'[x].gen = root[x].gen
               /\ root'[linked].newer
      BY <3>1, <3>3, <1>1, <2>1 DEF Noticed
    <3>4. CASE SameHandle(x) /\ SameNewer(x)
      BY <3>1, <3>4, <1>1, <1>4, <1>5, <2>1, NoticedSteps DEF SameNewer
    <3>5. CASE x # linked
      <4>1. linked = 0 /\ x # o
        BY <2>2, <3>5, <1>11 DEF RootInv, LifeInv, Touchable
      <4>2. SameHandle(x) /\ SameNewer(x)
        BY <3>5, <4>1, <1>3 DEF ReloadedRoots, SameRoot
      <4> QED BY <3>4, <4>2
    <3> QED BY <3>2, <3>3, <3>4, <3>5, <1>3, Zero DEF ReloadedRoots
  <2>3. reading.obj # 0 => root'[reading.obj].handle = root[reading.obj].handle
    BY <1>3, Touching DEF RootInv, ServeInv, ReloadedRoots
  <2>4. linked' = linked /\ life' = life /\ reading' = reading
    BY <1>1
  <2> QED BY <2>2, <2>3, <2>4 DEF RootInv, ServeInv
<1>17. HeldInv'
  <2>1. \A u \in Batches : Quiet(u, op'[u])
    BY <1>10 DEF Quiet
  <2>2. linked # 0 => (Soon(linked) => Soon(linked)')
    BY <1>1, <1>4, <1>10, Touching DEF Soon, SameHeld, Batches
  <2> QED BY <1>1, <1>4, <2>1, <2>2, HeldSteps
<1>18. KeptInv'
  <2>1. \A u \in Batches, p \in Paths : Bears(u, p) => Bears(u, p)'
    BY <1>1, <1>10 DEF Bears, treeVars
  <2>2. linked # 0 => \A p \in Paths : Comes(linked, p) => Comes(linked, p)'
    BY <1>1, <1>6, <1>7, Touching, Kinds DEF Comes, OnlyThread, treeVars
  <2>3. \A q \in Objs : Callback(q) \in Batches
    BY DEF Batches, Watches
  <2>4. linked # 0 => root[linked].held \subseteq root'[linked].held
    BY <1>4, Touching DEF SameHeld
  <2>5. /\ missed' = missed /\ events' = events /\ overflow' = overflow
        /\ stale' = stale /\ dropped' = dropped /\ linked' = linked
    BY <1>1 DEF treeVars, watchVars
  <2> QED BY <1>4, <1>10, <2>1, <2>2, <2>3, <2>4, <2>5, KeptSteps
<1> QED BY <1>4, <1>5, <1>8, <1>9, <1>13, <1>14, <1>15, <1>16, <1>17, <1>18 DEF RootInv, RootTyped

-----------------------------------------------------------------------------
(* The lifecycle *)

\* Nobody holds _linkedGate, or the root is still to be loaded.
LEMMA Settled ==
  ASSUME RootInv, life.obj = 0
  PROVE  \A o \in Objs :
           /\ role = o <=> root[o].watch
           /\ op[Callback(o)] # Idle \/ op[Load(o)] # Idle \/ root[o].live => root[o].watch
           /\ o # linked => ~root[o].watch /\ root[o].handle = 0
           /\ root[o].newer /\ root[o].never /\ role = o => o \in giveUps
BY Zero DEF RootInv, OwnedInv

\* Nobody holds _linkedGate.
LEMMA Resting ==
  ASSUME RootInv, LifeFree
  PROVE  life.obj = 0 /\ life = AtRest
BY DEF RootInv, LifeInv, LifeFree, AtRest

\* What the lifecycle's record is at rest.
LEMMA Rests == /\ AtRest \in LifeType /\ AtRest.at = "idle" /\ AtRest.obj = 0
               /\ AtRest.gen = 0 /\ AtRest.sig = 0 /\ AtRest.unlinks = FALSE
BY Zero DEF AtRest, LifeType, Phases

\* A lifecycle step that is the last of its operation.
LEMMA Done ==
  ASSUME RootInv, NEW sig \in Nat, LinksDone(sig)
  PROVE  /\ life' = AtRest /\ life' \in LifeType
         /\ links' \in [wanted : BOOLEAN, sig : Nat, seen : Nat]
         /\ LifeInv'
<1>1. life' = AtRest /\ links' = [links EXCEPT !.seen = sig]
  BY DEF LinksDone
<1>2. life' \in LifeType /\ links' \in [wanted : BOOLEAN, sig : Nat, seen : Nat]
  BY <1>1, Rests DEF RootInv, RestType
<1>3. LifeInv'
  BY <1>1, Rests DEF LifeInv
<1> QED BY <1>1, <1>2, <1>3

\* The threads as they were.
LEMMA SameThreads ==
  ASSUME RootInv, op' = op
  PROVE  op' \in [Threads -> OpType] /\ GateInv' /\ StageInv'
BY DEF RootInv, GateInv, StageInv

\* A step of the lifecycle that leaves the linked object, its contents and its edits.
LEMMA CalmSteps ==
  ASSUME RootInv, RestType', RootTyped, op' = op, linked' = linked,
         UNCHANGED <<index, other, reading, timer>>,
         \A o \in Objs : /\ SameHeld(o) /\ root'[o].newer = root[o].newer
                         /\ root'[o].gen = root[o].gen /\ root'[o].failed = root[o].failed
                         /\ o = linked => SameHandle(o),
         life'.at # "publish", life'.gen <= index.gen,
         life'.obj # 0 => Known(life'.obj), giveUps' \subseteq giveUps,
         LifeInv', OwnedInv', KeptInv'
  PROVE  RootInv'
<1>1. op' \in [Threads -> OpType] /\ GateInv' /\ StageInv'
  BY SameThreads
<1>2. KnownInv'
  <2>1. ASSUME NEW o \in Objs, ~Known(o)'
        PROVE  /\ o # linked /\ o # life'.obj /\ o \notin giveUps'
               /\ root'[o].held = {} /\ ~root'[o].newer
               /\ \A t \in Threads : op[t].obj # o
    <3>1. ~Known(o) /\ o # 0
      BY <2>1, Zero DEF Known
    <3>2. o # life'.obj
      BY <3>1
    <3> QED BY <3>1, <3>2 DEF RootInv, KnownInv, SameHeld
  <2> QED BY <2>1 DEF KnownInv
<1>3. GoneInv'
  BY DEF RootInv, GoneInv
<1>4. GenInv'
  <2>1. index' = index /\ index.gen <= index'.gen
    BY IndexTyped
  <2> QED BY <1>1, <2>1, GenSteps
<1>5. ServeInv'
  <2>1. Publishing => Publishing'
    BY DEF Publishing
  <2>2. \A o \in Objs : o = linked /\ Noticed(o) => Noticed(o)'
    BY <2>1, NoticedSteps
  <2>3. reading.obj # 0 => reading.obj \in Objs
    BY Touching DEF RootInv, ServeInv
  <2> QED BY <2>2, <2>3 DEF RootInv, ServeInv, SameHandle
<1>6. HeldInv'
  <2>1. \A t \in Batches : Quiet(t, op'[t])
    BY DEF Quiet
  <2>2. linked # 0 => (Soon(linked) => Soon(linked)')
    BY Touching DEF Soon, SameHeld
  <2> QED BY <2>1, <2>2, HeldSteps
<1> QED BY <1>1, <1>2, <1>3, <1>4, <1>5, <1>6 DEF RootInv, RootTyped

\* ... and watches nothing more.
LEMMA CalmKept ==
  ASSUME RootInv, op' = op, linked' = linked, UNCHANGED <<treeVars, watchVars>>,
         \A o \in Objs : root'[o].held = root[o].held /\ (root'[o].watch => root[o].watch)
  PROVE  KeptInv'
<1>1. /\ stale' = stale /\ dropped' = dropped /\ missed' = missed
      /\ events' = events /\ overflow' = overflow
  BY DEF treeVars, watchVars
<1>2. \A t \in Batches, p \in Paths : Bears(t, p)' <=> Bears(t, p)
  BY <1>1 DEF Bears
<1>3. \A p \in Paths : Comes(linked, p)' <=> Comes(linked, p)
  BY <1>1 DEF Comes
<1>4. linked # 0 => linked \in Objs
  BY Touching
<1>5. stale \subseteq Paths
  BY DEF RootInv, RestType
<1>6. ASSUME linked # 0, root'[linked].watch, NEW p \in stale \ dropped
      PROVE  Near(linked, p)'
  <2>1. Near(linked, p) /\ p \in Paths
    BY <1>4, <1>5, <1>6 DEF RootInv, KeptInv
  <2> QED BY <2>1, <1>1, <1>2, <1>3, <1>4, <1>6 DEF Near
<1> QED BY <1>1, <1>6 DEF RootInv, KeptInv

\* A link begins, with the generation read before the index is.
LEMMA LinkStep ==
  ASSUME RootInv, Link
  PROVE  RootInv'
<1>1. /\ UNCHANGED <<index, other, reading, timer, op, root, linked, giveUps, links, role,
                     happened, faults>>
      /\ UNCHANGED <<treeVars, watchVars>> /\ LifeFree /\ linked = 0
      /\ \E o \in Objs : root[o].gen = 0
      /\ life' = [AtRest EXCEPT !.at = "load", !.gen = index.gen, !.sig = links.sig]
  BY DEF Link, treeVars, watchVars, diskVars, bounds
<1>2. life.obj = 0 /\ index.gen \in Nat /\ index.gen # 0 /\ links.sig \in Nat
  BY <1>1, Resting, IndexTyped DEF RootInv, RestType, GenInv
<1>3. /\ life' \in LifeType /\ life'.at = "load" /\ life'.gen = index.gen /\ life'.obj = 0
      /\ life'.unlinks = FALSE
  BY <1>1, <1>2, Rests DEF LifeType, Phases
<1>4. RestType'
  BY <1>1, <1>3 DEF RootInv, RestType, treeVars, watchVars
<1>5. RootTyped /\ \A o \in Objs : SameRoot(o)
  BY <1>1, SameRoots DEF RootInv
<1>6. LifeInv'
  BY <1>1, <1>2, <1>3 DEF LifeInv, Known
<1>7. OwnedInv'
  BY <1>1, <1>2, <1>3, Settled, Zero DEF OwnedInv
<1>8. KeptInv'
  BY <1>1, CalmKept
<1>9. life'.gen <= index.gen
  BY <1>2, <1>3
<1> QED BY <1>1, <1>3, <1>4, <1>5, <1>6, <1>7, <1>8, <1>9, CalmSteps
     DEF SameRoot, SameNewer, SameHandle

\* The role is free: the linked root takes it, and is to be watched.
LEMMA MaybePromoteLinkedStep ==
  ASSUME RootInv, MaybePromoteLinked
  PROVE  RootInv'
<1>1. /\ UNCHANGED <<index, other, reading, timer, op, root, linked, giveUps, links,
                     happened, faults>>
      /\ UNCHANGED <<treeVars, watchVars>> /\ LifeFree /\ linked # 0 /\ role = Free
      /\ ~root[linked].never /\ role' = linked
      /\ life' = [AtRest EXCEPT !.at = "watch", !.obj = linked, !.sig = links.seen]
  BY DEF MaybePromoteLinked, treeVars, watchVars, diskVars, bounds
<1>2. /\ life.obj = 0 /\ linked \in Objs /\ Known(linked) /\ links.seen \in Nat
      /\ linked \in 0..MaxLinks /\ index.gen \in Nat
  BY <1>1, Resting, Touching, IndexTyped DEF RootInv, RestType, Touchable
<1>3. /\ life' \in LifeType /\ life'.at = "watch" /\ life'.obj = linked /\ life'.gen = 0
      /\ life'.unlinks = FALSE
  BY <1>1, <1>2, Rests DEF LifeType, Phases
<1>4. role' \in 0..(MaxLinks + 1)
  BY <1>1, <1>2, LinkedRootAssumption DEF Objs
<1>5. RestType'
  BY <1>1, <1>3, <1>4 DEF RootInv, RestType, treeVars, watchVars
<1>6. RootTyped /\ \A o \in Objs : SameRoot(o)
  BY <1>1, SameRoots DEF RootInv
<1>7. \A o \in Objs : ~root[o].watch
  BY <1>1, <1>2, Settled, Zero
<1>8. LifeInv'
  BY <1>1, <1>2, <1>3, <1>7, Zero DEF LifeInv
<1>9. OwnedInv'
  BY <1>1, <1>2, <1>3, <1>7, Settled, Zero DEF OwnedInv
<1>10. KeptInv'
  BY <1>1, CalmKept
<1>11. life'.gen <= index.gen
  BY <1>2, <1>3
<1> QED BY <1>1, <1>2, <1>3, <1>5, <1>6, <1>8, <1>9, <1>10, <1>11, CalmSteps
     DEF SameRoot, SameNewer, SameHandle

\* A give-up's task begins to tear the watch down.
LEMMA GiveUpStep ==
  ASSUME RootInv, NEW o \in Objs, GiveUp(o)
  PROVE  RootInv'
<1>1. /\ UNCHANGED <<index, other, reading, timer, op, root, linked, links, role,
                     happened, faults>>
      /\ UNCHANGED <<treeVars, watchVars>> /\ LifeFree /\ o \in giveUps /\ giveUps' = giveUps \ {o}
      /\ life' = [AtRest EXCEPT !.at = "stop", !.obj = o, !.sig = links.seen]
  BY DEF GiveUp, treeVars, watchVars, diskVars, bounds
<1>2. /\ life.obj = 0 /\ Known(o) /\ links.seen \in Nat /\ o \in 0..MaxLinks /\ index.gen \in Nat
      /\ giveUps \subseteq Objs /\ giveUps' \subseteq giveUps
  BY <1>1, Resting, Zero, IndexTyped DEF RootInv, RestType, KnownInv
<1>3. /\ life' \in LifeType /\ life'.at = "stop" /\ life'.obj = o /\ life'.gen = 0
      /\ life'.unlinks = FALSE
  BY <1>1, <1>2, Rests DEF LifeType, Phases
<1>4. RestType'
  BY <1>1, <1>2, <1>3 DEF RootInv, RestType, treeVars, watchVars
<1>5. RootTyped /\ \A q \in Objs : SameRoot(q)
  BY <1>1, SameRoots DEF RootInv
<1>6. LifeInv'
  BY <1>1, <1>2, <1>3, Zero DEF LifeInv
<1>7. OwnedInv'
  BY <1>1, <1>2, <1>3, Settled DEF OwnedInv
<1>8. KeptInv'
  BY <1>1, CalmKept
<1>9. life'.gen <= index.gen
  BY <1>2, <1>3
<1> QED BY <1>1, <1>2, <1>3, <1>4, <1>5, <1>6, <1>7, <1>8, <1>9, CalmSteps
     DEF SameRoot, SameNewer, SameHandle

\* The reconcile is cancelled, once the watcher's batch is done.
LEMMA CancelLoadStep ==
  ASSUME RootInv, CancelLoad
  PROVE  RootInv'
<1> DEFINE o == life.obj
<1>1. /\ UNCHANGED <<index, other, reading, timer, op, linked, giveUps, links, role,
                     happened, faults>>
      /\ UNCHANGED <<treeVars, watchVars>> /\ life.at = "drain" /\ op[Callback(o)] = Idle
      /\ life' = [life EXCEPT !.at = "join"]
      /\ root' = [root EXCEPT ![o].live = FALSE]
  BY DEF CancelLoad, treeVars, watchVars, diskVars, bounds
<1>2. /\ o \in Objs /\ Known(o) /\ ~root[o].watch /\ root \in [Objs -> RootType]
      /\ life \in LifeType /\ life.gen <= index.gen
  BY <1>1, Zero DEF RootInv, RestType, LifeType, LifeInv, KnownInv, GenInv
<1>3. /\ life' \in LifeType /\ life'.at = "join" /\ life'.obj = o /\ life'.gen = life.gen
      /\ life'.unlinks = life.unlinks
  BY <1>1, <1>2 DEF LifeType, Phases
<1>4. RestType'
  BY <1>1, <1>3 DEF RootInv, RestType, treeVars, watchVars
<1>5. /\ RootTyped /\ root'[o].live = FALSE
      /\ \A q \in Objs : /\ SameHandle(q) /\ SameHeld(q) /\ SameNewer(q)
                         /\ root'[q].watch = root[q].watch
                         /\ q # o => root'[q].live = root[q].live
  <2>1. /\ root'[o] = [root[o] EXCEPT !.live = FALSE] /\ root[o] \in RootType
        /\ \A q \in Objs \ {o} : root'[q] = root[q]
    BY <1>1, <1>2
  <2>2. RootTyped
    BY <1>1, <1>2, <2>1 DEF RootTyped, RootType
  <2> QED BY <2>1, <2>2 DEF RootType, SameHandle, SameHeld, SameNewer
<1>6. LifeInv'
  BY <1>1, <1>2, <1>3, <1>5, Zero DEF RootInv, LifeInv
<1>7. OwnedInv'
  BY <1>1, <1>2, <1>3, <1>5 DEF RootInv, OwnedInv, SameHandle, SameNewer
<1>8. KeptInv'
  BY <1>1, <1>5, CalmKept DEF SameHeld
<1> HIDE DEF o
<1> QED BY <1>1, <1>2, <1>3, <1>4, <1>5, <1>6, <1>7, <1>8, CalmSteps DEF SameNewer, SameHandle

\* The watcher is disposed of: it reports no more.
LEMMA StopWatchingStep ==
  ASSUME RootInv, StopWatching
  PROVE  RootInv'
<1> DEFINE o == life.obj
<1>1. /\ UNCHANGED <<index, other, reading, timer, op, linked, giveUps, links, role,
                     happened, faults>>
      /\ UNCHANGED treeVars /\ life.at = "stop"
      /\ life' = [life EXCEPT !.at = "drain"]
      /\ root' = [root EXCEPT ![o].watch = FALSE]
      /\ IF root[o].watch THEN events' = {} /\ overflow' = FALSE
                          ELSE events' = events /\ overflow' = overflow
  BY DEF StopWatching, treeVars, watchVars, diskVars, bounds
<1>2. /\ o \in Objs /\ Known(o) /\ root \in [Objs -> RootType]
      /\ life \in LifeType /\ life.gen <= index.gen
  BY <1>1, Zero DEF RootInv, RestType, LifeType, LifeInv, KnownInv, GenInv
<1>3. /\ life' \in LifeType /\ life'.at = "drain" /\ life'.obj = o /\ life'.gen = life.gen
      /\ life'.unlinks = life.unlinks
  BY <1>1, <1>2 DEF LifeType, Phases
<1>4. RestType'
  BY <1>1, <1>3 DEF RootInv, RestType, treeVars
<1>5. /\ RootTyped /\ root'[o].watch = FALSE
      /\ \A q \in Objs : /\ SameHandle(q) /\ SameHeld(q) /\ SameNewer(q)
                         /\ root'[q].live = root[q].live
                         /\ q # o => root'[q].watch = root[q].watch
  <2>1. /\ root'[o] = [root[o] EXCEPT !.watch = FALSE] /\ root[o] \in RootType
        /\ \A q \in Objs \ {o} : root'[q] = root[q]
    BY <1>1, <1>2
  <2>2. RootTyped
    BY <1>1, <1>2, <2>1 DEF RootTyped, RootType
  <2> QED BY <2>1, <2>2 DEF RootType, SameHandle, SameHeld, SameNewer
<1>6. LifeInv'
  BY <1>1, <1>2, <1>3, <1>5, Zero DEF RootInv, LifeInv
<1>7. OwnedInv'
  BY <1>1, <1>2, <1>3, <1>5 DEF RootInv, OwnedInv, SameHandle, SameNewer
<1>8. KeptInv'
  <2>1. \A q \in Objs : root'[q].watch => events' = events /\ overflow' = overflow /\ root[q].watch
    BY <1>1, <1>2, <1>5 DEF RootInv, OwnedInv
  <2>2. \A q \in Objs : op'[Callback(q)].at = "walk" /\ root'[q].watch =>
          missed' \subseteq events' \/ overflow'
    BY <1>1, <2>1 DEF RootInv, KeptInv, treeVars
  <2>3. ASSUME linked # 0, root'[linked].watch, NEW p \in stale' \ dropped'
        PROVE  Near(linked, p)'
    <3>1. linked \in Objs /\ events' = events /\ overflow' = overflow /\ root[linked].watch
      BY <2>1, <2>3, Touching
    <3>2. Near(linked, p)
      BY <1>1, <2>3, <3>1 DEF RootInv, KeptInv, treeVars
    <3>3. \A t \in Batches : Bears(t, p)' <=> Bears(t, p)
      BY <1>1 DEF Bears, treeVars
    <3>4. Comes(linked, p)' <=> Comes(linked, p)
      BY <1>1 DEF Comes, treeVars
    <3> QED BY <3>1, <3>2, <3>3, <3>4, <1>1, <1>5 DEF Near, SameHeld
  <2> QED BY <1>1, <2>2, <2>3 DEF RootInv, KeptInv
<1> HIDE DEF o
<1> QED BY <1>1, <1>2, <1>3, <1>4, <1>5, <1>6, <1>7, <1>8, CalmSteps DEF SameNewer, SameHandle

\* The root is watched and reconciled, or the role handed back.
LEMMA StartLinkedWatchStep ==
  ASSUME RootInv, StartLinkedWatch
  PROVE  RootInv'
<1> DEFINE o == life.obj
           t == Load(o)
<1>1. /\ UNCHANGED <<index, other, reading, timer, linked, giveUps, happened>>
      /\ UNCHANGED <<treeVars, watchVars>> /\ life.at = "watch" /\ LinksDone(life.sig)
      /\ \/ /\ root' = [root EXCEPT ![o].watch = TRUE, ![o].live = TRUE]
            /\ op' = [op EXCEPT ![t] = At("queued")]
            /\ role' = role /\ faults' = faults
         \/ /\ root' = [root EXCEPT ![o].never = FALSE]
            /\ role' = Free /\ op' = op /\ faults' = faults + 1
  BY DEF StartLinkedWatch, Pay, treeVars, watchVars, diskVars
<1>2. /\ o \in Objs /\ o = linked /\ role = o /\ Known(o) /\ ~root[o].watch
      /\ life.sig \in Nat /\ root \in [Objs -> RootType] /\ op \in [Threads -> OpType]
      /\ index.gen \in Nat /\ faults \in Nat /\ faults + 1 \in Nat
  BY <1>1, Zero, IndexTyped DEF RootInv, RestType, LifeType, LifeInv, KnownInv
<1>3. /\ life' = AtRest /\ life' \in LifeType
      /\ links' \in [wanted : BOOLEAN, sig : Nat, seen : Nat] /\ LifeInv'
  BY <1>1, <1>2, Done
<1>4. role' \in 0..(MaxLinks + 1) /\ faults' \in Nat
  BY <1>1, <1>2, LinkedRootAssumption DEF RootInv, RestType, Free
<1>5. RestType'
  BY <1>1, <1>3, <1>4 DEF RootInv, RestType, treeVars, watchVars
<1>6. /\ \A q \in Objs : ~root[q].watch /\ op[Callback(q)] = Idle /\ op[Load(q)] = Idle
                         /\ ~root[q].live
      /\ \A q \in Objs \ {o} : root[q].handle = 0
  BY <1>1, <1>2 DEF RootInv, OwnedInv, LifeInv
<1> HIDE DEF o
<1>7. CASE /\ root' = [root EXCEPT ![o].never = FALSE]
           /\ role' = Free /\ op' = op
  <2>1. /\ RootTyped
        /\ \A q \in Objs : /\ SameHandle(q) /\ SameHeld(q) /\ SameWatch(q)
                           /\ root'[q].newer = root[q].newer
    <3>1. /\ root'[o] = [root[o] EXCEPT !.never = FALSE] /\ root[o] \in RootType
          /\ \A q \in Objs \ {o} : root'[q] = root[q]
      BY <1>2, <1>7
    <3>2. RootTyped
      BY <1>2, <1>7, <3>1 DEF RootTyped, RootType
    <3> QED BY <3>1, <3>2 DEF RootType, SameHandle, SameHeld, SameWatch
  <2>2. OwnedInv'
    BY <1>1, <1>2, <1>3, <1>6, <1>7, <2>1, Zero DEF OwnedInv, SameWatch, SameHandle
  <2>3. KeptInv'
    BY <1>1, <1>7, <2>1, CalmKept DEF SameWatch, SameHeld
  <2>4. life'.at = "idle" /\ life'.obj = 0 /\ life'.gen <= index.gen
    BY <1>2, <1>3, Rests
  <2> QED BY <1>1, <1>3, <1>5, <1>7, <2>1, <2>2, <2>3, <2>4, CalmSteps DEF SameHandle
<1>8. CASE /\ root' = [root EXCEPT ![o].watch = TRUE, ![o].live = TRUE]
           /\ op' = [op EXCEPT ![t] = At("queued")] /\ role' = role
  <2>1. /\ RootTyped /\ root'[o].watch = TRUE
        /\ \A q \in Objs : /\ SameHandle(q) /\ SameHeld(q) /\ SameNewer(q)
                           /\ q # o => SameWatch(q)
    <3>1. /\ root'[o] = [root[o] EXCEPT !.watch = TRUE, !.live = TRUE] /\ root[o] \in RootType
          /\ \A q \in Objs \ {o} : root'[q] = root[q]
      BY <1>2, <1>8
    <3>2. RootTyped
      BY <1>2, <1>8, <3>1 DEF RootTyped, RootType
    <3>3. root'[o].watch = TRUE /\ SameHandle(o) /\ SameHeld(o) /\ SameNewer(o)
      BY <3>1 DEF RootType, SameHandle, SameHeld, SameNewer
    <3>4. \A q \in Objs \ {o} : SameHandle(q) /\ SameHeld(q) /\ SameNewer(q) /\ SameWatch(q)
      BY <3>1 DEF SameHandle, SameHeld, SameNewer, SameWatch
    <3> QED BY <3>2, <3>3, <3>4
  <2>2. /\ t \in Threads /\ t \notin Batches \cup {Query} /\ t \in Loads /\ "queued" \in Stages
        /\ \A q \in Objs : Callback(q) # t /\ (Load(q) = t => q = o)
    BY <1>2, Kinds DEF Loads, Stages
  <2>3. /\ OnlyThread(t) /\ op'[t].at = "queued" /\ op'[t].obj = 0 /\ op'[t].gen = 0
        /\ op'[t].paths = {} /\ op'[t].full = FALSE /\ op[t] = Idle
    BY <1>2, <1>6, <1>8, <2>2, Records DEF OnlyThread
  <2>4. GateInv' /\ op' \in [Threads -> OpType]
    BY <2>2, <2>3, GateSteps DEF OnlyThread, Holding
  <2>5. StageInv'
    <3>1. StageOk(t, op'[t])
      BY <2>2, <2>3 DEF StageOk, StagesOf, Batches
    <3> QED BY <2>2, <2>3, <3>1, StageSteps
  <2>6. \A u \in Threads : op'[u].obj = op[u].obj \/ op'[u].obj = 0
    BY <2>3 DEF OnlyThread
  <2>7. KnownInv'
    BY <1>1, <1>3, <2>1, <2>6, Rests, Zero DEF RootInv, KnownInv, Known, SameHandle, SameHeld,
         SameNewer
  <2>8. OwnedInv'
    <3>1. ASSUME NEW q \in Objs, q # o
          PROVE  /\ ~root'[q].watch /\ role' # q /\ op'[Callback(q)] = Idle
                 /\ op'[Load(q)] = Idle /\ ~root'[q].live /\ root'[q].handle = 0
      BY <1>2, <1>6, <1>8, <2>1, <2>2, <2>3, <3>1, Kinds
           DEF OnlyThread, SameWatch, SameHandle
    <3>2. root'[o].newer /\ root'[o].never => o \in giveUps
      BY <1>1, <1>2, <2>1 DEF RootInv, OwnedInv, SameNewer
    <3> QED BY <1>1, <1>2, <1>8, <2>1, <3>1, <3>2 DEF OwnedInv
  <2>9. GoneInv'
    BY <1>1, <1>3, <2>2, <2>3, Rests DEF RootInv, GoneInv, OnlyThread, Threads
  <2>10. GenInv'
    <3>1. index' = index /\ 0 <= index.gen /\ index.gen <= index'.gen
      BY <1>1, <1>2
    <3>2. \A u \in Threads : op'[u].gen = op[u].gen \/ op'[u].gen <= index'.gen
      BY <2>3, <3>1 DEF OnlyThread
    <3>3. life'.gen <= index'.gen
      BY <1>3, <3>1, Rests
    <3> QED BY <1>5, <2>1, <2>4, <3>1, <3>2, <3>3, GenSteps DEF SameHandle
  <2>11. ServeInv'
    <3>1. Publishing => Publishing'
      <4>1. op[t].at # "install"
        BY <2>3, Records
      <4> QED BY <1>1, <2>3, <4>1 DEF Publishing, OnlyThread
    <3>2. \A q \in Objs : Noticed(q) => Noticed(q)'
      BY <1>1, <1>5, <2>1, <3>1, NoticedSteps DEF SameNewer
    <3>3. reading.obj # 0 => reading.obj \in Objs
      BY Touching DEF RootInv, ServeInv
    <3>4. linked' = linked /\ reading' = reading /\ life'.at = "idle"
      BY <1>1, <1>3, Rests
    <3> QED BY <2>1, <3>2, <3>3, <3>4 DEF RootInv, ServeInv, SameHandle
  <2>12. \A u \in Batches : op'[u] = op[u]
    BY <2>2, <2>3 DEF OnlyThread, Threads
  <2>13. HeldInv'
    <3>1. \A u \in Batches : Quiet(u, op'[u])
      BY <2>12 DEF Quiet
    <3>2. linked # 0 => (Soon(linked) => Soon(linked)')
      BY <1>1, <2>1, <2>12, Touching DEF Soon, SameHeld, Batches
    <3> QED BY <1>1, <2>1, <3>1, <3>2, HeldSteps
  <2>14. KeptInv'
    <3>1. \A q \in Objs : Callback(q) \in Batches
      BY DEF Batches, Watches
    <3>2. \A q \in Objs : op'[Callback(q)].at # "walk"
      BY <1>6, <2>12, <3>1, Records
    <3>3. \A p \in Paths : Near(linked, p)'
      BY <1>1, <1>2, <2>3 DEF Near, Comes
    <3>4. stale' \subseteq Paths
      BY <1>5 DEF RestType
    <3> QED BY <1>1, <2>12, <3>2, <3>3, <3>4 DEF RootInv, KeptInv
  <2> QED BY <1>3, <1>5, <2>1, <2>4, <2>5, <2>7, <2>8, <2>9, <2>10, <2>11, <2>13, <2>14
       DEF RootInv, RootTyped
<1> QED BY <1>1, <1>7, <1>8

\* The root leaves _linked: from here no query and no batch finds it.
LEMMA UnlinkStep ==
  ASSUME RootInv, Unlink
  PROVE  RootInv'
<1>1. /\ UNCHANGED <<index, other, reading, timer, op, root, role, giveUps, links,
                     happened, faults>>
      /\ UNCHANGED <<treeVars, watchVars>> /\ LifeFree /\ linked # 0 /\ reading.obj = 0
      /\ linked' = 0
      /\ life' = [at |-> "stop", obj |-> linked, gen |-> 0, sig |-> links.sig, unlinks |-> TRUE]
  BY DEF Unlink, Unread, treeVars, watchVars, diskVars, bounds
<1>2. /\ life.obj = 0 /\ linked \in Objs /\ Known(linked) /\ links.sig \in Nat
      /\ linked \in 0..MaxLinks /\ index.gen \in Nat
  BY <1>1, Resting, Touching, IndexTyped DEF RootInv, RestType, Touchable
<1>3. /\ life' \in LifeType /\ life'.at = "stop" /\ life'.obj = linked /\ life'.gen = 0
      /\ life'.unlinks = TRUE
  BY <1>1, <1>2 DEF LifeType, Phases
<1>4. RestType'
  BY <1>1, <1>3, Zero DEF RootInv, RestType, treeVars, watchVars
<1>5. op' \in [Threads -> OpType] /\ GateInv' /\ StageInv'
  BY <1>1, SameThreads
<1>6. KnownInv'
  BY <1>1, <1>2, <1>3, Zero DEF RootInv, KnownInv, Known
<1>7. LifeInv'
  BY <1>1, <1>2, <1>3, Zero DEF LifeInv
<1>8. OwnedInv'
  BY <1>1, <1>2, <1>3, Settled DEF OwnedInv
<1>9. GoneInv'
  BY <1>1, <1>3 DEF RootInv, GoneInv
<1>10. GenInv'
  BY <1>1, <1>2, <1>3 DEF RootInv, GenInv
<1>11. ServeInv'
  BY <1>1, <1>3, Zero DEF ServeInv
<1>12. HeldInv'
  BY <1>1 DEF RootInv, HeldInv
<1>13. KeptInv'
  BY <1>1 DEF RootInv, KeptInv, treeVars, watchVars
<1> QED BY <1>1, <1>4, <1>5, <1>6, <1>7, <1>8, <1>9, <1>10, <1>11, <1>12, <1>13 DEF RootInv

\* The loaded root enters _linked: what it loaded is what the index was at its
\* generation, or the difference shows.
LEMMA PublishStep ==
  ASSUME RootInv, Publish
  PROVE  RootInv'
<1> DEFINE o == life.obj
<1>1. /\ UNCHANGED <<index, other, reading, timer, op, role, giveUps, happened, faults>>
      /\ UNCHANGED <<treeVars, watchVars>> /\ life.at = "publish" /\ reading.obj = 0
      /\ linked' = o /\ root' = [root EXCEPT ![o].gen = root[o].gen]
      /\ IF role = o THEN life' = [life EXCEPT !.at = "watch"] /\ links' = links
                     ELSE LinksDone(life.sig)
  BY DEF Publish, PublishedGen, Unread, treeVars, watchVars, diskVars, bounds
<1>2. /\ o \in Objs /\ o \in 0..MaxLinks /\ linked = 0 /\ root \in [Objs -> RootType]
      /\ life.sig \in Nat /\ ~root[o].watch /\ Known(o) /\ life \in LifeType
      /\ life.gen <= index.gen /\ index.gen \in Nat /\ ~life.unlinks
      /\ root[o].held = {} /\ \A t \in Threads : op[t].obj # o
  BY <1>1, Zero, IndexTyped DEF RootInv, RestType, LifeType, LifeInv, KnownInv, GenInv
<1>15. /\ \A q \in Objs : /\ ~root[q].watch /\ ~root[q].live
                           /\ op[Callback(q)] = Idle /\ op[Load(q)] = Idle
       /\ \A q \in Objs \ {o} : root[q].handle = 0 /\ role # q
  <2>1. \A q \in Objs : ~root[q].watch
    BY <1>1, <1>2, Zero DEF RootInv, OwnedInv
  <2> QED BY <1>1, <1>2, <2>1, Zero DEF RootInv, OwnedInv
<1>16. Noticed(o)
  BY <1>1, <1>2 DEF RootInv, ServeInv
<1> HIDE DEF o
<1>3. root' = root
  <2>1. root[o] = [root[o] EXCEPT !.gen = root[o].gen]
    BY <1>2 DEF RootType
  <2> QED BY <1>1, <1>2, <2>1
<1>4. /\ life' \in LifeType /\ links' \in [wanted : BOOLEAN, sig : Nat, seen : Nat]
      /\ life'.gen <= index.gen /\ life'.unlinks = FALSE
      /\ \/ role = o /\ life'.at = "watch" /\ life'.obj = o
         \/ role # o /\ life' = AtRest /\ life'.at = "idle" /\ life'.obj = 0
  <2>1. CASE role = o
    <3>1. life' = [life EXCEPT !.at = "watch"] /\ links' = links /\ life.obj = o
      BY <1>1, <2>1 DEF o
    <3>2. /\ life' \in LifeType /\ life'.at = "watch" /\ life'.obj = o
          /\ life'.gen = life.gen /\ life'.unlinks = life.unlinks
      BY <1>2, <3>1 DEF LifeType, Phases
    <3>3. life.unlinks \in BOOLEAN
      BY <1>2 DEF LifeType
    <3> QED BY <1>2, <2>1, <3>1, <3>2, <3>3 DEF RootInv, RestType
  <2>2. CASE role # o
    BY <1>1, <1>2, <2>2, Done, Rests
  <2> QED BY <2>1, <2>2
<1>5. RestType'
  BY <1>1, <1>2, <1>4 DEF RootInv, RestType, treeVars, watchVars
<1>6. op' \in [Threads -> OpType] /\ GateInv' /\ StageInv'
  BY <1>1, SameThreads
<1>7. KnownInv'
  BY <1>1, <1>2, <1>3, <1>4, Zero DEF RootInv, KnownInv, Known
<1>8. LifeInv'
  BY <1>1, <1>2, <1>3, <1>4, Zero, Rests DEF LifeInv
<1>9. OwnedInv'
  <2>1. root[o].newer /\ root[o].never /\ role = o => o \in giveUps
    BY <1>1, <1>2 DEF RootInv, OwnedInv, o
  <2> QED BY <1>1, <1>2, <1>3, <1>4, <1>15, <2>1 DEF OwnedInv
<1>10. GoneInv'
  BY <1>1, <1>4 DEF RootInv, GoneInv
<1>11. GenInv'
  BY <1>1, <1>3, <1>4 DEF RootInv, GenInv
<1>12. ServeInv'
  <2>1. \A q \in Objs : Noticed(q)' <=> Noticed(q)
    BY <1>1, <1>3 DEF Noticed, Publishing
  <2> QED BY <1>1, <1>2, <1>4, <1>16, <2>1 DEF ServeInv
<1>13. HeldInv'
  <2>1. \A t \in Batches : op[t].obj # o
    BY <1>2 DEF Threads
  <2> QED BY <1>1, <1>2, <1>3, <2>1 DEF RootInv, HeldInv
<1>14. KeptInv'
  <2>1. \A t \in Batches : op[t].at \in Taken \cup {"finally"} => op[t].obj # 0
    <3> QED BY <1>15, Records DEF RootInv, KeptInv, Watches, Taken
  <2> QED BY <1>1, <1>2, <1>3, <1>15, <2>1 DEF RootInv, KeptInv, treeVars, watchVars
<1> QED BY <1>3, <1>5, <1>6, <1>7, <1>8, <1>9, <1>10, <1>11, <1>12, <1>13, <1>14 DEF RootInv

\* The reconcile is over: the role is let go of, and an unlinked root's files closed.
LEMMA LetGoStep ==
  ASSUME RootInv, LetGo
  PROVE  RootInv'
<1> DEFINE o == life.obj
<1>1. /\ UNCHANGED <<index, other, reading, timer, op, linked, giveUps, happened, faults>>
      /\ UNCHANGED <<treeVars, watchVars>> /\ life.at = "join" /\ op[Load(o)] = Idle
      /\ role' = (IF role = o THEN Free ELSE role) /\ LinksDone(life.sig)
      /\ root' = IF life.unlinks THEN [root EXCEPT ![o].handle = 0] ELSE root
  BY DEF LetGo, Joined, treeVars, watchVars, diskVars, bounds
<1>2. /\ o \in Objs /\ ~root[o].watch /\ root \in [Objs -> RootType] /\ life.sig \in Nat
      /\ index.gen \in Nat /\ (life.unlinks => linked = 0) /\ op[Callback(o)] = Idle
      /\ ~root[o].live
  BY <1>1, Zero, IndexTyped DEF RootInv, RestType, LifeType, LifeInv, OwnedInv
<1>3. /\ life' = AtRest /\ life' \in LifeType
      /\ links' \in [wanted : BOOLEAN, sig : Nat, seen : Nat] /\ LifeInv'
  BY <1>1, <1>2, Done
<1>4. role' \in 0..(MaxLinks + 1) /\ role' # o /\ \A q \in Objs : role' = q => role = q
  BY <1>1, <1>2, LinkedRootAssumption, Zero DEF RootInv, RestType, Free
<1>5. RestType'
  BY <1>1, <1>3, <1>4 DEF RootInv, RestType, treeVars, watchVars
<1>6. /\ RootTyped
      /\ \A q \in Objs : /\ SameWatch(q) /\ SameHeld(q) /\ SameNewer(q)
                         /\ root'[q].gen = root[q].gen /\ root'[q].failed = root[q].failed
                         /\ q = linked \/ q # o => SameHandle(q)
                         /\ root'[q].handle # 0 => root[q].handle # 0
      /\ life.unlinks => root'[o].handle = 0
  <2>1. CASE life.unlinks
    <3>1. /\ root'[o] = [root[o] EXCEPT !.handle = 0] /\ root[o] \in RootType
          /\ \A q \in Objs \ {o} : root'[q] = root[q]
      BY <1>1, <1>2, <2>1
    <3>2. RootTyped
      BY <1>1, <1>2, <2>1, <3>1 DEF RootTyped, RootType
    <3>3. /\ SameWatch(o) /\ SameHeld(o) /\ SameNewer(o)
          /\ root'[o].gen = root[o].gen /\ root'[o].failed = root[o].failed
          /\ root'[o].handle = 0
      BY <3>1 DEF RootType, SameWatch, SameHeld, SameNewer
    <3>4. \A q \in Objs \ {o} : SameWatch(q) /\ SameHeld(q) /\ SameNewer(q) /\ SameHandle(q)
      BY <3>1 DEF SameWatch, SameHeld, SameNewer, SameHandle
    <3>5. linked # o
      BY <1>2, <2>1, Zero
    <3> HIDE DEF o
    <3> QED BY <1>2, <3>2, <3>3, <3>4, <3>5 DEF SameHandle
  <2>2. CASE ~life.unlinks
    <3>1. root' = root
      BY <1>1, <2>2
    <3> HIDE DEF o
    <3> QED BY <1>2, <2>2, <3>1, SameRoots DEF SameRoot, SameHandle
  <2> QED BY <2>1, <2>2
<1>7. OwnedInv'
  <2>1. ASSUME NEW q \in Objs, q # o
        PROVE  /\ root'[q].watch = root[q].watch /\ root'[q].live = root[q].live
               /\ root'[q].handle = root[q].handle
               /\ root'[q].newer = root[q].newer /\ root'[q].never = root[q].never
               /\ role' = q <=> role = q
    BY <1>1, <1>4, <1>6, <2>1 DEF SameWatch, SameHandle, SameNewer
  <2>2. /\ ~root'[o].watch /\ ~root'[o].live
        /\ o # linked => root'[o].handle = 0
    <3>1. o # linked /\ ~life.unlinks => root[o].handle = 0
      BY <1>1, <1>2 DEF RootInv, OwnedInv
    <3> HIDE DEF o
    <3> QED BY <1>2, <1>6, <3>1 DEF SameWatch
  <2>3. \A q \in Objs \ {o} : life.obj # q
    OBVIOUS
  <2>4. life'.obj = 0 /\ life'.at = "idle"
    BY <1>3, Rests
  <2> HIDE DEF o
  <2> QED BY <1>1, <1>2, <1>4, <2>1, <2>2, <2>3, <2>4 DEF RootInv, OwnedInv
<1>8. KeptInv'
  BY <1>1, <1>6, CalmKept DEF SameWatch, SameHeld
<1>9. life'.at = "idle" /\ life'.obj = 0 /\ life'.gen <= index.gen
  BY <1>2, <1>3, Rests
<1> HIDE DEF o
<1> QED BY <1>1, <1>3, <1>5, <1>6, <1>7, <1>8, <1>9, CalmSteps DEF SameNewer

\* The numbers, smaller first.
NatLess == {ss \in Nat \X Nat : ss[1] < ss[2]}

\* Some member of a non-empty set of naturals has none below it.
LEMMA Least ==
  ASSUME NEW T \in SUBSET Nat, T # {}
  PROVE  \E x \in T : \A y \in T : ~(y < x)
<1>1. IsWellFoundedOn(NatLess, Nat)
  BY NatLessThanWellFounded DEF OpToRel, NatLess
<1>2. PICK x \in T : \A y \in T : <<y, x>> \notin NatLess
  BY <1>1, WFMin
<1>3. \A y, z \in Nat : <<y, z>> \in NatLess <=> y < z
  BY DEF NatLess
<1> QED BY <1>2, <1>3

\* An object that is still to be made, if there is one.
LEMMA NextObject ==
  ASSUME \E o \in Objs : ~Known(o)
  PROVE  NextObj \in Objs /\ ~Known(NextObj)
<1> DEFINE T == {o \in Objs : ~Known(o)}
<1>1. T \in SUBSET Nat /\ T # {}
  BY Zero
<1>2. PICK o \in T : \A q \in T : ~(q < o)
  BY <1>1, Least
<1>3. ASSUME NEW older \in 1..(o - 1)
      PROVE  root[older].gen # 0
  <2>1. older \in Objs /\ older < o
    BY <1>2, LinkedRootAssumption DEF Objs
  <2> QED BY <1>2, <2>1 DEF Known
<1>4. \E q \in Objs : /\ root[q].gen = 0
                      /\ \A older \in 1..(q - 1) : root[older].gen # 0
  BY <1>2, <1>3 DEF Known
<1> QED BY <1>4, Zenon DEF NextObj, Known

\* The index of a root to be linked is loaded into a new object, or does not load.
LEMMA LinkLoadsStep ==
  ASSUME RootInv, LinkLoads
  PROVE  RootInv'
<1>1. /\ UNCHANGED <<index, other, reading, timer, op, linked, giveUps, happened>>
      /\ UNCHANGED <<treeVars, watchVars>> /\ life.at = "load"
      /\ \/ /\ index.is = "ok"
            /\ root' = [root EXCEPT ![NextObj].handle = index.ver, ![NextObj].gen = life.gen]
            /\ life' = [life EXCEPT !.at = "publish", !.obj = NextObj]
            /\ role' = (IF role = Free THEN NextObj ELSE role)
            /\ faults' = faults /\ links' = links
         \/ /\ faults' = faults \/ faults' = faults + 1
            /\ LinksDone(life.sig) /\ root' = root /\ role' = role
  BY DEF LinkLoads, Pay, treeVars, watchVars, diskVars
<1>2. /\ life.obj = 0 /\ linked = 0 /\ life.sig \in Nat /\ life.gen # 0 /\ life.gen \in Nat
      /\ root \in [Objs -> RootType] /\ life \in LifeType /\ life.unlinks = FALSE
      /\ life.gen <= index.gen /\ index.gen \in Nat /\ index.ver \in Nat
      /\ faults \in Nat /\ faults + 1 \in Nat
      /\ NextObj \in Objs /\ ~Known(NextObj)
  <2>1. \E o \in Objs : ~Known(o)
    BY <1>1 DEF RootInv, LifeInv
  <2>2. NextObj \in Objs /\ ~Known(NextObj)
    BY <2>1, NextObject
  <2>3. life \in LifeType /\ faults \in Nat
    BY DEF RootInv, RestType
  <2>4. life.sig \in Nat /\ life.gen \in Nat /\ life.unlinks \in BOOLEAN
    BY <2>3 DEF LifeType
  <2>5. faults + 1 \in Nat
    BY <2>3
  <2> QED BY <1>1, <2>2, <2>3, <2>4, <2>5, IndexTyped DEF RootInv, LifeInv, GenInv
<1>3. \A q \in Objs : /\ role # q /\ ~root[q].watch /\ ~root[q].live /\ root[q].handle = 0
                      /\ op[Callback(q)] = Idle /\ op[Load(q)] = Idle
  BY <1>2, Settled, Zero
<1>4. CASE LinksDone(life.sig) /\ root' = root /\ role' = role
  <2>1. /\ life' = AtRest /\ life' \in LifeType
        /\ links' \in [wanted : BOOLEAN, sig : Nat, seen : Nat] /\ LifeInv'
    BY <1>2, <1>4, Done
  <2>2. RestType'
    BY <1>1, <1>2, <1>4, <2>1 DEF RootInv, RestType, treeVars, watchVars
  <2>3. RootTyped /\ \A q \in Objs : SameRoot(q)
    BY <1>2, <1>4, SameRoots
  <2>4. OwnedInv'
    BY <1>1, <1>3, <1>4 DEF OwnedInv
  <2>5. KeptInv'
    BY <1>1, <1>4, CalmKept
  <2>6. life'.at = "idle" /\ life'.obj = 0 /\ life'.gen <= index.gen
    BY <1>2, <2>1, Rests
  <2> QED BY <1>1, <2>1, <2>2, <2>3, <2>4, <2>5, <2>6, CalmSteps
       DEF SameRoot, SameHandle, SameNewer
<1>5. ASSUME NEW o \in Objs, ~Known(o), index.is = "ok", links' = links,
             root' = [root EXCEPT ![o].handle = index.ver, ![o].gen = life.gen],
             life' = [life EXCEPT !.at = "publish", !.obj = o],
             role' = IF role = Free THEN o ELSE role
      PROVE  RootInv'
  <2>1. /\ life' \in LifeType /\ life'.at = "publish" /\ life'.obj = o
        /\ life'.gen = life.gen /\ life'.unlinks = FALSE
    BY <1>2, <1>5, Zero DEF LifeType, Phases
  <2>2. /\ role' \in 0..(MaxLinks + 1)
        /\ \A q \in Objs : role' = q => q = o
    <3>1. o \in 0..(MaxLinks + 1) /\ role \in 0..(MaxLinks + 1)
      BY LinkedRootAssumption DEF Objs, RootInv, RestType
    <3> QED BY <1>3, <1>5, <3>1
  <2>3. RestType'
    BY <1>1, <1>2, <1>5, <2>1, <2>2 DEF RootInv, RestType, treeVars, watchVars
  <2>4. /\ RootTyped /\ root'[o].handle = index.ver /\ root'[o].gen = life.gen
        /\ root'[o].failed = root[o].failed
        /\ \A q \in Objs : /\ SameWatch(q) /\ SameHeld(q) /\ SameNewer(q)
                           /\ q # o => SameHandle(q)
    <3>1. /\ root'[o] = [root[o] EXCEPT !.handle = index.ver, !.gen = life.gen]
          /\ root[o] \in RootType
          /\ \A q \in Objs \ {o} : root'[q] = root[q]
      BY <1>2, <1>5
    <3>2. /\ root'[o] \in RootType /\ root'[o].handle = index.ver /\ root'[o].gen = life.gen
          /\ root'[o].failed = root[o].failed
          /\ SameWatch(o) /\ SameHeld(o) /\ SameNewer(o)
      BY <1>2, <3>1 DEF RootType, SameWatch, SameHeld, SameNewer
    <3>3. \A q \in Objs \ {o} : SameWatch(q) /\ SameHeld(q) /\ SameNewer(q) /\ SameHandle(q)
      BY <3>1 DEF SameWatch, SameHeld, SameNewer, SameHandle
    <3>4. RootTyped
      BY <1>2, <1>5, <3>1, <3>2 DEF RootTyped
    <3> QED BY <3>2, <3>3, <3>4
  <2>5. op' \in [Threads -> OpType] /\ GateInv' /\ StageInv'
    BY <1>1, SameThreads
  <2>6. \A q \in Objs : ~Known(q)' => ~Known(q) /\ q # o
    BY <1>2, <2>4 DEF Known, SameHandle
  <2>7. KnownInv'
    BY <1>1, <1>2, <2>1, <2>4, <2>6, Zero DEF RootInv, KnownInv, SameHeld, SameNewer
  <2>8. /\ root[o].held = {} /\ ~root[o].newer /\ \A t \in Threads : op[t].obj # o
    BY <1>5 DEF RootInv, KnownInv
  <2>9. LifeInv'
    BY <1>1, <1>2, <1>3, <2>1, <2>4, <2>8, Zero DEF LifeInv, SameHeld, SameWatch
  <2>10. OwnedInv'
    <3>1. \A q \in Objs : /\ ~root'[q].watch /\ ~root'[q].live
                          /\ op'[Callback(q)] = Idle /\ op'[Load(q)] = Idle
                          /\ q # o => root'[q].handle = 0
      BY <1>1, <1>3, <2>4 DEF SameWatch, SameHandle
    <3>2. ~root'[o].newer
      BY <2>4, <2>8 DEF SameNewer
    <3> QED BY <2>1, <2>2, <3>1, <3>2 DEF OwnedInv
  <2>11. GoneInv'
    BY <1>1, <1>5 DEF RootInv, GoneInv
  <2>12. GenInv'
    <3>1. index' = index /\ index.gen <= index'.gen /\ life'.gen <= index'.gen
      BY <1>1, <1>2, <2>1
    <3>2. \A q \in Objs : /\ root'[q].gen = root[q].gen \/ root'[q].gen <= index'.gen
                          /\ root'[q].failed = root[q].failed
      BY <1>2, <2>4, <3>1 DEF SameHandle
    <3>3. \A t \in Threads : op'[t].gen = op[t].gen
      BY <1>1
    <3> QED BY <2>3, <2>4, <2>5, <3>1, <3>2, <3>3, GenSteps
  <2>13. ServeInv'
    <3>1. Noticed(o)'
      <4>1. ~(root'[o].handle < index'.ver)
        BY <1>1, <1>2, <2>4
      <4> QED BY <4>1 DEF Noticed
    <3>2. reading'.obj = 0 /\ linked' = 0
      BY <1>1, <1>2 DEF RootInv, ServeInv
    <3> QED BY <2>1, <3>1, <3>2, Zero DEF ServeInv
  <2>14. HeldInv'
    <3>1. \A t \in Batches : Quiet(t, op'[t])
      BY <1>1 DEF Quiet
    <3> QED BY <1>1, <1>2, <2>4, <3>1, HeldSteps
  <2>15. KeptInv'
    BY <1>1, <2>4, CalmKept DEF SameWatch, SameHeld
  <2> QED BY <2>3, <2>4, <2>5, <2>7, <2>9, <2>10, <2>11, <2>12, <2>13, <2>14, <2>15
       DEF RootInv, RootTyped
<1> QED BY <1>1, <1>2, <1>4, <1>5

-----------------------------------------------------------------------------
(* The theorems *)

\* The invariant holds in the initial states ...
LEMMA RootInit == Init => RootInv
<1> SUFFICES ASSUME Init PROVE RootInv
  OBVIOUS
<1>1. /\ \A o \in Objs : root[o] = NewRoot
      /\ \A t \in Threads : op[t] = Idle
      /\ root = [o \in Objs |-> NewRoot] /\ op = [t \in Threads |-> Idle]
      /\ linked = 0 /\ life = AtRest /\ giveUps = {} /\ stale = {} /\ missed = {}
      /\ dropped = {} /\ events = {} /\ overflow = FALSE /\ timer = FALSE
      /\ reading = [obj |-> 0, ver |-> 0] /\ role \in {Free, Elsewhere}
      /\ index = [is |-> "ok", ver |-> 1, gen |-> 1]
  BY DEF Init
<1>2. /\ NewRoot \in RootType /\ NewRoot.gen = 0 /\ NewRoot.held = {} /\ NewRoot.newer = FALSE
      /\ NewRoot.watch = FALSE /\ NewRoot.live = FALSE /\ NewRoot.handle = 0
      /\ NewRoot.failed = 0
  BY DEF NewRoot, RootType
<1>3. RestType
  <2>1. role \in 0..(MaxLinks + 1)
    BY <1>1, LinkedRootAssumption DEF Free, Elsewhere
  <2>2. reading \in [obj : 0..MaxLinks, ver : Nat] /\ index \in IndexType
    BY <1>1, Zero DEF IndexType
  <2> QED BY <1>1, <2>1, <2>2, Zero, Rests DEF Init, RestType
<1>4. op \in [Threads -> OpType] /\ root \in [Objs -> RootType]
  BY <1>1, <1>2, Records
<1>5. \A t \in Threads : op[t].at = "idle" /\ op[t].obj = 0 /\ op[t].paths = {} /\ op[t].gen = 0
                         /\ op[t].full = FALSE
  BY <1>1, Records
<1>6. GateInv
  BY <1>5 DEF GateInv, Holding
<1>7. StageInv
  BY <1>1, <1>5 DEF StageInv, StageOk, StagesOf
<1>8. KnownInv
  BY <1>1, <1>2, <1>5, Rests, Zero DEF KnownInv
<1>9. LifeInv
  BY <1>1, Rests DEF LifeInv
<1>10. OwnedInv
  <2>1. \A o \in Objs : role # o /\ op[Callback(o)] = Idle /\ op[Load(o)] = Idle
    BY <1>1, Zero, Kinds
  <2> QED BY <1>1, <1>2, <2>1 DEF OwnedInv
<1>11. GoneInv
  BY <1>1, <1>5 DEF GoneInv, Threads
<1>12. GenInv
  BY <1>1, <1>2, <1>5, Rests DEF GenInv
<1>13. ServeInv
  BY <1>1, Rests, Zero DEF ServeInv
<1>14. HeldInv /\ KeptInv
  <2>1. \A t \in Batches : op[t].at = "idle"
    BY <1>5 DEF Threads
  <2>2. \A o \in Objs : op[Callback(o)].at = "idle"
    BY <1>5, Kinds
  <2> QED BY <1>1, <2>1, <2>2 DEF HeldInv, KeptInv, Taken
<1> QED BY <1>3, <1>4, <1>6, <1>7, <1>8, <1>9, <1>10, <1>11, <1>12, <1>13, <1>14 DEF RootInv

\* ... and is kept by steps that change nothing,
LEMMA RootStutter ==
  ASSUME RootInv, UNCHANGED vars
  PROVE  RootInv'
<1>1. /\ UNCHANGED <<op, root, linked, life, giveUps, index, other, reading, links, role, timer,
                     happened, faults>>
      /\ UNCHANGED <<treeVars, watchVars>>
  BY DEF vars, diskVars, lifeVars, bounds
<1>2. RestType'
  BY <1>1 DEF RootInv, RestType, treeVars, watchVars
<1>3. KeptInv'
  BY <1>1, KeptAside
<1>4. GoneInv' /\ ServeInv' /\ index.gen <= index'.gen
  BY <1>1, <1>2, IndexAside
<1> QED BY <1>1, <1>2, <1>3, <1>4, OutsideSteps

\* by every step of a batch,
LEMMA BatchWorkStep ==
  ASSUME RootInv, NEW t \in Batches, BatchWorks(t)
  PROVE  RootInv'
<1>1. t \in Threads /\ t \in Batches \cup Loads
  BY DEF Threads
<1>2. CASE Enter(t)
  BY <1>1, <1>2, EnterStep
<1>3. CASE BeginWalk(t)
  BY <1>1, <1>3, BeginWalkStep
<1>4. CASE EndWalk(t)
  BY <1>1, <1>4, EndWalkStep
<1>5. CASE Install(t)
  BY <1>1, <1>5, InstallStep
<1>6. CASE SkipRebuild(t)
  BY <1>6, SkipRebuildStep
<1>7. CASE Update(t)
  BY <1>7, UpdateStep
<1>8. CASE Throw(t)
  BY <1>8, ThrowStep
<1>9. CASE Catch(t)
  BY <1>9, CatchStep
<1>10. CASE Finally(t)
  BY <1>10, FinallyStep
<1> QED BY <1>2, <1>3, <1>4, <1>5, <1>6, <1>7, <1>8, <1>9, <1>10 DEF BatchWorks

\* by every step of a startup reconcile,
LEMMA LoadWorkStep ==
  ASSUME RootInv, NEW o \in Objs, LoadWorks(o)
  PROVE  RootInv'
<1>1. Load(o) \in Batches \cup Loads
  BY DEF Loads
<1>2. CASE LoadSkips(o) \/ LoadFails(o)
  BY <1>2, LoadEndsStep
<1>3. CASE LoadStarts(o) \/ LoadEnters(o)
  BY <1>3, LoadMovesStep
<1>4. CASE BeginWalk(Load(o))
  BY <1>1, <1>4, BeginWalkStep
<1>5. CASE EndWalk(Load(o))
  BY <1>1, <1>5, EndWalkStep
<1>6. CASE Install(Load(o))
  BY <1>1, <1>6, InstallStep
<1> QED BY <1>2, <1>3, <1>4, <1>5, <1>6 DEF LoadWorks

\* by every step of the lifecycle,
LEMMA LifeWorkStep ==
  ASSUME RootInv, LifeWorks
  PROVE  RootInv'
<1>1. CASE LinkLoads
  BY <1>1, LinkLoadsStep
<1>2. CASE Publish
  BY <1>2, PublishStep
<1>3. CASE StartLinkedWatch
  BY <1>3, StartLinkedWatchStep
<1>4. CASE StopWatching
  BY <1>4, StopWatchingStep
<1>5. CASE CancelLoad
  BY <1>5, CancelLoadStep
<1>6. CASE LetGo
  BY <1>6, LetGoStep
<1> QED BY <1>1, <1>2, <1>3, <1>4, <1>5, <1>6 DEF LifeWorks

\* by whatever goes on by itself,
LEMMA WorkStep ==
  ASSUME RootInv, Work
  PROVE  RootInv'
<1>1. CASE \E t \in Batches : BatchWorks(t)
  BY <1>1, BatchWorkStep
<1>2. CASE \E k \in Pool : RetryLooks(k)
  BY <1>2, RetryLooksStep
<1>3. CASE \E o \in Objs : LoadWorks(o)
  BY <1>3, LoadWorkStep
<1>4. CASE LifeWorks
  BY <1>4, LifeWorkStep
<1>5. CASE Reloaded
  BY <1>5, ReloadedStep
<1>6. CASE EndRead
  BY <1>6, ReadStep
<1>7. CASE OthersRelease
  BY <1>7, OthersStep
<1>8. CASE OtherPublishes
  BY <1>8, OtherWritesStep
<1> QED BY <1>1, <1>2, <1>3, <1>4, <1>5, <1>6, <1>7, <1>8 DEF Work

\* by whatever begins,
LEMMA BeginStep ==
  ASSUME RootInv, Begin
  PROVE  RootInv'
<1>1. CASE \E o \in Objs : Deliver(o)
  BY <1>1, DeliverStep
<1>2. CASE \E o \in Objs : GiveUp(o)
  BY <1>2, GiveUpStep
<1>3. CASE \E k \in Pool : RetryFires(k)
  BY <1>3, RetryFiresStep
<1>4. CASE Reload
  BY <1>4, ReloadStep
<1>5. CASE Read
  BY <1>5, ReadStep
<1>6. CASE Reconciled
  BY <1>6, LinksStep
<1>7. CASE Link
  BY <1>7, LinkStep
<1>8. CASE MaybePromoteLinked
  BY <1>8, MaybePromoteLinkedStep
<1>9. CASE Unlink
  BY <1>9, UnlinkStep
<1>10. CASE OthersHold
  BY <1>10, OthersStep
<1> QED BY <1>1, <1>2, <1>3, <1>4, <1>5, <1>6, <1>7, <1>8, <1>9, <1>10 DEF Begin

\* and by whatever others do.
LEMMA EnvironmentStep ==
  ASSUME RootInv, Environment
  PROVE  RootInv'
<1>1. CASE EditLinks \/ Recheck
  BY <1>1, LinksStep
<1>2. CASE Purge
  BY <1>2, PurgeStep
<1>3. CASE \E p \in Paths : Edit(p)
  BY <1>3, EditStep
<1>4. CASE OtherWrites
  BY <1>4, OtherWritesStep
<1>5. CASE RoleMoves \/ OthersArm
  BY <1>5, RoleMovesStep
<1> QED BY <1>1, <1>2, <1>3, <1>4, <1>5 DEF Environment

\* The invariant of a linked root: what is owned, held back, carried and loaded, for any
\* number of files, retries, links and failures.
THEOREM RootSafe == Spec => []RootInv
<1>1. ASSUME RootInv, [Next]_vars
      PROVE  RootInv'
  BY <1>1, WorkStep, BeginStep, EnvironmentStep, RootStutter DEF Next
<1> QED BY <1>1, RootInit, PTL DEF Spec

\* Every variable keeps its type, and one thread at a time holds BuildGate
\* (ServerContext.cs:34).
THEOREM RootTypeCorrect == Spec => []TypeOK
BY RootSafe, Typed, PTL

\* A linked root that nobody is setting up or tearing down is watched exactly while its
\* role is held here, and an unlinked one is quiet and closed (ReconcileTo,
\* StartLinkedWatch, GiveUpLinkedRoot).
THEOREM SettledRootIsWhole == Spec => []SettledIsWhole
<1>1. RootInv => SettledIsWhole
  BY DEF RootInv, OwnedInv, SettledIsWhole
<1> QED BY <1>1, RootSafe, PTL

\* A query's handles stay open under it, and handles older than the index are noticed
\* (SwapLinked, MaybeReloadLinked).
THEOREM LinkedHandlesServe == Spec => []HandlesServe
<1>1. RootInv => HandlesServe
  BY Zero DEF RootInv, RestType, ServeInv, Noticed, Publishing, HandlesServe
<1> QED BY <1>1, RootSafe, PTL

\* While a root is watched, every change its index lacks is in somebody's hands or was let
\* go of with a line in the log, and edits held back are retried (OnLinkedChanges).
THEOREM LinkedEditsKept == Spec => []EditsAreKept
<1>1. ASSUME RootInv
      PROVE  EditsAreKept
  <2>1. linked # 0 => linked \in Objs
    BY <1>1, Zero DEF RootInv, RestType
  <2>2. linked # 0 /\ root[linked].held # {} => Retried(linked)
    BY <1>1 DEF RootInv, HeldInv, Soon, Retried
  <2>3. \A o \in Objs, p \in Paths : Near(o, p) => InHand(o, p)
    BY DEF Near, Bears, Comes, InHand
  <2>4. stale \subseteq Paths
    BY <1>1 DEF RootInv, RestType
  <2>5. ASSUME linked # 0, root[linked].watch, NEW p \in stale \ dropped
        PROVE  InHand(linked, p)
    BY <1>1, <2>1, <2>3, <2>4, <2>5 DEF RootInv, KeptInv
  <2> QED BY <2>2, <2>5 DEF EditsAreKept
<1> QED BY <1>1, RootSafe, PTL

\* As long as somebody is at work on a linked root, somebody has what it waits for: the
\* gate, the write lock, the readers' lock, or the threads a teardown waits for.  This is
\* SomebodyCanGoOn in terms of the guards (ServerContext.cs:2034).
THEOREM SomebodyHasItsTurn == Spec => [](AtWork => SomebodyIsReady)
<1>1. ASSUME RootInv, AtWork, ~SomebodyIsReady
      PROVE  FALSE
  <2>1. /\ Unread /\ ~other /\ ~LifeReady
        /\ \A t \in Threads : ~Ready(t)
    BY <1>1 DEF SomebodyIsReady
  <2>2. /\ StageInv /\ LifeInv /\ life.obj \in 0..MaxLinks
        /\ \A t, u \in Threads : op[t].at \in Holding /\ op[u].at \in Holding => t = u
    BY <1>1, Typed DEF RootInv, TypeOK, LifeType
  \* A holder of BuildGate is in nobody's way but those who wait for BuildGate.
  <2>3. ASSUME NEW t \in Threads, op[t].at \in Holding
        PROVE  FALSE
    <3>1. op[t].at \in StagesOf(t)
      BY <2>2 DEF StageInv, StageOk
    <3>2. op[t].at = "other" => t = Others
      BY <3>1 DEF StagesOf, Threads, Batches
    <3>3. op[t].at = "lock" => LockFree
      BY <2>1, <2>2, <2>3 DEF LockFree, Holding
    <3> QED BY <2>1, <2>3, <3>2, <3>3 DEF Ready, Holding
  <2>4. GateFree
    BY <2>3 DEF GateFree
  <2>5. \A t \in Threads : op[t].at = "idle"
    <3> SUFFICES ASSUME NEW t \in Threads, op[t].at # "idle" PROVE FALSE
      OBVIOUS
    <3> QED BY <2>1, <2>3, <2>4 DEF Ready, Holding
  <2>6. \A t \in Threads : op[t] = Idle
    BY <2>2, <2>5 DEF StageInv, StageOk
  <2>7. life.at # "idle"
    BY <1>1, <2>1, <2>2, <2>6 DEF AtWork, LifeInv
  <2>8. life.at \in {"drain", "join"} => Callback(life.obj) \in Threads /\ Load(life.obj) \in Threads
    <3>1. life.at \in {"drain", "join"} => life.obj \in Objs
      BY <2>2, LinkedRootAssumption DEF LifeInv, Objs
    <3> QED BY <3>1, Kinds
  <2> QED BY <2>1, <2>6, <2>7, <2>8 DEF LifeReady
<1> QED BY <1>1, RootSafe, PTL
=============================================================================

----------------------------- MODULE SharedCache -----------------------------
(***************************************************************************)
(* One index cache shared by MCP sessions (Servers), `codecompass watch`   *)
(* processes (Watchers) and one-shot Commands: the order in which          *)
(* the holders of the write lock load, change and save the index and the   *)
(* change ledger, publish a generation, and reload what others wrote.      *)
(*                                                                         *)
(* The index is a map from paths to texts (SegmentedIndex.tla shows that   *)
(* its segments implement one), the ledger a map from paths to the text    *)
(* recorded as indexed (DiskSnapshot.tla; a path's size, stamp and hash    *)
(* stand for its text).  The generation is a GUID that is only compared    *)
(* (IndexWriteLock.tla), so it is the set of sessions that hold its value. *)
(* A hold that finds it cannot load or has nothing to do changes nothing   *)
(* and is left out, but for the one that follows a write.                  *)
(***************************************************************************)
EXTENDS Naturals

CONSTANTS Servers, Watchers, Commands, Paths, Texts, None,
          MaxEdits,  \* bound on the changes of the source tree
          MaxFaults  \* bound on kills, failed writes and unreadable files

VARIABLES tree,     \* the source files
          index,    \* the saved text and symbol index
          ledger,   \* the saved change ledger
          role,     \* who holds the live-watch role, or None
          mem,      \* each session's loaded index and ledger, or None
          copy,     \* a reload under way: the generation is read, then the index
          current,  \* the sessions whose _loadedGen is the generation on disk
          pending,  \* edits the role holder has been told of and not applied
          op,       \* the write operation that holds the lock, or None
          owed,     \* role holders that have not walked the tree since they took it
          edits, faults,
          missed,   \* ghost: sessions left behind by writes never published
          stray     \* ghost: paths that an accident left wrong

vars == <<tree, index, ledger, role, mem, copy, current, pending, op, owed,
          edits, faults, missed, stray>>
disk == <<index, ledger>>
bounds == <<edits, faults>>

Sessions == Servers \cup Watchers
Map == [Paths -> Texts \cup {None}]
Memory == [text : Map, ledger : Map \cup {None}]
Stages == {"text", "ledger", "commit", "compact", "walked", "refused"}
Operation == [who : Sessions \cup Commands, kind : {"edits", "update", "build"}, at : Stages,
              text : Map, ledger : Map, paths : SUBSET Paths, batch : SUBSET Paths,
              covers : BOOLEAN, saved : BOOLEAN, committed : BOOLEAN]

ASSUME Assumptions ==
  /\ Servers \cap Watchers = {} /\ Commands \cap Sessions = {}
  /\ None \notin Sessions \cup Commands \cup Texts \cup Map \cup Memory \cup Operation
  /\ MaxEdits \in Nat /\ MaxFaults \in Nat

TypeOK ==
  /\ tree \in Map /\ index \in Map /\ ledger \in Map
  /\ role \in Sessions \cup {None}
  /\ mem \in [Sessions -> Memory \cup {None}]
  /\ copy \in [Sessions -> [cur : BOOLEAN, missed : BOOLEAN, text : Map \cup {None}] \cup {None}]
  /\ current \in SUBSET {s \in Sessions : mem[s] # None}
  /\ pending \in [Sessions -> SUBSET Paths]
  /\ op \in Operation \cup {None}
  /\ owed \in SUBSET Sessions /\ missed \in SUBSET current
  /\ stray \in SUBSET Paths
  /\ edits \in 0 .. MaxEdits /\ faults \in 0 .. MaxFaults
-----------------------------------------------------------------------------
Fault == faults < MaxFaults /\ faults' = faults + 1

\* Ghost: an operation covers the whole tree if its walk began with the role
\* held.  What an accident touched stays astray until index, ledger, source
\* and what those who are current have in memory of both maps agree again.
Astray(candidates) ==
  {p \in candidates : \/ index'[p] # ledger'[p] \/ index'[p] # tree[p]
                      \/ \E s \in current' : \/ mem'[s].text[p] # index'[p]
                                            \/ /\ mem'[s].ledger # None
                                               /\ mem'[s].ledger[p] # ledger'[p]}

\* The generation's new value is known to `who`, if it is a session.
Bump(who) ==
  /\ current' = {who} \ (Commands \cup {None})
  /\ copy' = [s \in Sessions |->
                IF copy[s] = None THEN None ELSE [copy[s] EXCEPT !.cur = FALSE]]
  /\ missed' = {}

\* The lock goes and nothing is published: who will still believe to be current?
NotPublished(gone) ==
  /\ missed' = {s \in current \ gone : \/ s \in missed \/ mem[s].text # index
                                       \/ mem[s].ledger \notin {None, ledger}}
  /\ copy' = [s \in Sessions |->
                IF s \in gone \/ copy[s] = None THEN None
                ELSE [copy[s] EXCEPT !.missed = @ \/ copy[s].text \notin {None, index}]]

Holds(w) == op # None /\ op.who = w

\* Ghost: what an operation that is cut off may have left different.
Touched == IF op.who \in missed THEN Paths ELSE op.paths
LeftBehind == IF op.at \in {"text", "ledger"} \/ op.who \in missed THEN Touched ELSE {}

\* Other writes of the session's own process wait for BuildGate.
MayWrite(w) == op = None /\ (w \notin Commands => copy[w] = None)
-----------------------------------------------------------------------------
(* Source edits, the live-watch role, reloads *)

Edit(p) ==
  /\ edits < MaxEdits
  /\ \E v \in (Texts \cup {None}) \ {tree[p]} : tree' = [tree EXCEPT ![p] = v]
  /\ pending' = IF role = None \/ (role \in Watchers /\ mem[role] = None) THEN pending
                ELSE [pending EXCEPT ![role] = @ \cup {p}]
  /\ edits' = edits + 1
  /\ UNCHANGED <<disk, role, mem, copy, current, op, owed, faults, missed, stray>>

\* A session takes the role when it starts or once its holder has gone.
TakeRole(s) ==
  /\ role = None
  /\ role' = s
  /\ owed' = owed \cup {s}
  /\ UNCHANGED <<tree, disk, mem, copy, current, pending, op, bounds, missed, stray>>

\* A query finds a generation that is not the session's, or nothing loaded; a
\* watch loads once, as it starts.  No lock is held, only BuildGate.
ReadGeneration(s) ==
  /\ copy[s] = None /\ ~Holds(s)
  /\ s \notin current
  /\ s \in Watchers => role = s /\ mem[s] = None
  /\ copy' = [copy EXCEPT ![s] = [cur |-> TRUE, missed |-> FALSE, text |-> None]]
  /\ UNCHANGED <<tree, disk, role, mem, current, pending, op, owed, bounds, missed, stray>>

Load(s) ==
  /\ copy[s] # None /\ copy[s].text = None
  /\ copy' = [copy EXCEPT ![s].text = index]
  /\ UNCHANGED <<tree, disk, role, mem, current, pending, op, owed, bounds, missed, stray>>

\* A server reads the ledger when it first needs it, a watch here.
LoadedLedger(s) == IF s \in Watchers THEN ledger ELSE None

StillCurrent_Any(s) == TRUE
StillCurrent(s) == copy[s].cur
Install(s) ==
  /\ copy[s] # None /\ copy[s].text # None
  /\ mem' = [mem EXCEPT ![s] = [text |-> copy[s].text, ledger |-> LoadedLedger(s)]]
  /\ current' = IF StillCurrent(s) THEN current \cup {s} ELSE current \ {s}
  /\ missed' = IF StillCurrent(s) /\ copy[s].missed THEN missed \cup {s} ELSE missed \ {s}
  /\ copy' = [copy EXCEPT ![s] = None]
  /\ UNCHANGED <<tree, disk, role, pending, op, owed, bounds, stray>>
-----------------------------------------------------------------------------
(* What the holders of the lock are about to save *)

\* A live batch: reload if another process wrote, then apply what is pending,
\* but for paths a share gives no answer for.  A file that cannot be read stays
\* as it was in both maps.  The server's ledger is read once and kept.
Refreshed_Never(s) == mem[s]
Refreshed_TextOnly(s) ==
  IF s \in current THEN mem[s] ELSE [mem[s] EXCEPT !.text = index]
Refreshed(s) ==
  IF s \in current THEN mem[s] ELSE [text |-> index, ledger |-> LoadedLedger(s)]
KnownLedger(s) == IF Refreshed(s).ledger = None THEN ledger ELSE Refreshed(s).ledger

TakenPending_All(s, answered) == [pending EXCEPT ![s] = {}]
TakenPending(s, answered) == [pending EXCEPT ![s] = @ \ answered]
ApplyEdits(s, answered, unread) ==
  LET text == [p \in Paths |-> IF p \in answered \ unread /\ KnownLedger(s)[p] # tree[p]
                               THEN tree[p] ELSE Refreshed(s).text[p]]
      recorded == [p \in Paths |-> IF p \in answered \ unread THEN tree[p]
                                   ELSE KnownLedger(s)[p]]
  IN
  /\ MayWrite(s) /\ role = s /\ mem[s] # None
  /\ answered # {} /\ answered \subseteq pending[s] /\ unread \subseteq answered
  /\ IF unread = {} THEN UNCHANGED faults ELSE Fault
  /\ mem' = [mem EXCEPT ![s] = [text |-> text, ledger |-> recorded]]
  /\ current' = current \cup {s}
  /\ missed' = IF s \in current THEN missed ELSE missed \ {s}
  /\ pending' = TakenPending(s, answered)
  /\ op' = [who |-> s, kind |-> "edits", at |-> "text", text |-> text, ledger |-> recorded,
            paths |-> answered, batch |-> answered,
            covers |-> FALSE, saved |-> FALSE, committed |-> FALSE]
  /\ stray' = stray \cup unread
  /\ UNCHANGED <<tree, disk, role, copy, owed, edits>>

\* A walk reloads index and ledger and compares the ledger with what it lists.
\* An unreadable file stays as it was, and so does every path it did not find
\* when it could not list some folder.
Listed(dropped) == [p \in Paths |-> IF p \in dropped THEN None ELSE tree[p]]
Kept(unread, dropped) ==
  unread \cup IF dropped = {} THEN {} ELSE {p \in Paths : Listed(dropped)[p] = None}
Walked(unread, dropped) ==
  LET kept == Kept(unread, dropped) found == Listed(dropped) IN
  [text   |-> [p \in Paths |-> IF p \in kept \/ ledger[p] = found[p] THEN index[p] ELSE found[p]],
   ledger |-> [p \in Paths |-> IF p \in kept THEN ledger[p] ELSE found[p]]]
WalkFaults(unread, dropped) ==
  IF unread \cup dropped = {} THEN UNCHANGED faults ELSE Fault
Untouched(unread, dropped) == Walked(unread, dropped).ledger = ledger

MayUpdate(w) == w \in Commands \/ (w \in Servers /\ role = w /\ mem[w] # None)

Update(w, unread, dropped) ==
  /\ MayWrite(w) /\ MayUpdate(w)
  /\ WalkFaults(unread, dropped)
  /\ stray' = stray \cup Kept(unread, dropped)
  /\ ~Untouched(unread, dropped)
  /\ op' = [who |-> w, kind |-> "update", at |-> "text",
            text |-> Walked(unread, dropped).text, ledger |-> Walked(unread, dropped).ledger,
            paths |-> Paths, batch |-> {},
            covers |-> role = w, saved |-> FALSE, committed |-> FALSE]
  /\ UNCHANGED <<tree, disk, role, mem, copy, current, pending, owed, edits, missed>>

\* Nothing to save: the server takes what it loaded, at the token on disk.
UpdateUntouched(w, unread, dropped) ==
  /\ MayWrite(w) /\ MayUpdate(w) /\ w \notin Commands
  /\ WalkFaults(unread, dropped)
  /\ stray' = stray \cup Kept(unread, dropped)
  /\ Untouched(unread, dropped)
  /\ mem' = [mem EXCEPT ![w] = [text |-> index, ledger |-> None]]
  /\ current' = current \cup {w}
  /\ missed' = missed \ {w}
  /\ owed' = owed \ {w}
  /\ UNCHANGED <<tree, disk, role, copy, pending, op, edits>>

\* A build reads every file; what it cannot read it leaves out of both maps.
Build(w, unread) ==
  LET built == [p \in Paths |-> IF p \in unread THEN None ELSE tree[p]] IN
  /\ MayWrite(w)
  /\ w \in Watchers => role = w /\ mem[w] # None
  /\ IF unread = {} THEN UNCHANGED faults ELSE Fault
  /\ stray' = stray \cup unread
  /\ op' = [who |-> w, kind |-> "build", at |-> "text", text |-> built, ledger |-> built,
            paths |-> Paths, batch |-> {},
            covers |-> role = w, saved |-> FALSE, committed |-> FALSE]
  /\ UNCHANGED <<tree, disk, role, mem, copy, current, pending, owed, edits, missed>>
-----------------------------------------------------------------------------
(* Saving and publishing *)

SaveIndex ==
  /\ op # None /\ op.at = "text"
  /\ index' = op.text
  /\ op' = [op EXCEPT !.at = "ledger", !.saved = TRUE]
  /\ UNCHANGED <<tree, ledger, role, mem, copy, current, pending, owed, bounds, missed, stray>>

\* The ledger goes last: it claims only what the index already holds.
SaveLedger ==
  /\ op # None /\ op.at = "ledger"
  /\ ledger' = op.ledger
  /\ op' = [op EXCEPT !.at = "commit"]
  /\ UNCHANGED <<tree, index, role, mem, copy, current, pending, owed, bounds, missed, stray>>

\* A save throws.  The server logs it, keeps what it applied in memory and
\* commits; a watch keeps the batch for later; both, and every other operation,
\* publish on release what may have been written.
SaveFails ==
  /\ op # None /\ op.at \in {"text", "ledger"}
  /\ Fault
  /\ stray' = stray \cup Touched
  /\ IF op.who \in Servers /\ op.kind = "edits"
     THEN /\ op' = [op EXCEPT !.at = "commit"]
          /\ UNCHANGED <<copy, current, pending, missed>>
     ELSE /\ op' = None
          /\ Bump(None)
          /\ pending' = IF op.who \in Commands THEN pending
                        ELSE [pending EXCEPT ![op.who] = @ \cup op.batch]
  /\ UNCHANGED <<tree, disk, role, mem, owed, edits>>

\* Ghost: a save over a generation that its session had missed may revert any
\* path, and so may memory that an earlier failed save left ahead.
PublishedStray == Astray(IF op.who \in missed THEN Paths ELSE stray)

PublishedMemory(w) ==
  [text |-> op.text,
   ledger |-> IF op.kind = "edits" \/ w \in Watchers THEN op.ledger ELSE None]
PublishedTo_Everyone(w) == Sessions
PublishedTo(w) == {w} \ Commands
Publish ==
  /\ op # None /\ op.at \in {"commit", "walked"}
  /\ mem' = [s \in Sessions |-> IF s = op.who THEN PublishedMemory(s) ELSE mem[s]]
  /\ current' = PublishedTo(op.who)
  /\ copy' = [s \in Sessions |->
                IF copy[s] = None THEN None ELSE [copy[s] EXCEPT !.cur = FALSE]]
  /\ missed' = {}
  /\ owed' = IF op.covers THEN owed \ {op.who} ELSE owed
  /\ \/ op' = None
     \/ /\ op.who \in Servers /\ op.kind = "edits"
        /\ op' = [op EXCEPT !.at = "compact", !.saved = FALSE, !.committed = TRUE]
  /\ UNCHANGED <<tree, disk, role, pending, bounds>>
  /\ stray' = PublishedStray

\* The server merges segments under the same hold, from a fresh copy.  A merge
\* that fails is published on release unless it could not even load.
Compact ==
  /\ op # None /\ op.at = "compact"
  /\ \/ /\ mem' = [mem EXCEPT ![op.who] = [text |-> index, ledger |-> None]]
        /\ Bump(op.who)
        /\ UNCHANGED faults
     \/ Fault /\ Bump(None) /\ UNCHANGED mem
     \/ Fault /\ UNCHANGED <<mem, current, copy, missed>>
  /\ op' = None
  /\ UNCHANGED <<tree, disk, role, pending, owed, edits, stray>>

\* A watch whose batch changed an ignore file walks the tree under the lock it
\* holds: the nested hold resets what the outer one committed.
WatchWalks(unread, dropped) ==
  /\ op # None /\ op.at = "commit" /\ op.kind = "edits" /\ op.who \in Watchers
  /\ WalkFaults(unread, dropped)
  /\ stray' = stray \cup Kept(unread, dropped)
  /\ op' = IF Untouched(unread, dropped)
           THEN [op EXCEPT !.at = "walked", !.committed = TRUE, !.text = index, !.ledger = ledger]
           ELSE [op EXCEPT !.at = "text", !.kind = "update", !.paths = Paths, !.covers = TRUE, !.committed = FALSE,
                           !.text = Walked(unread, dropped).text,
                           !.ledger = Walked(unread, dropped).ledger]
  /\ UNCHANGED <<tree, disk, role, mem, copy, current, pending, owed, edits, missed>>

\* The walk cannot load the index: it says that nothing was written and throws.
WatchWalkRefused ==
  /\ op # None /\ op.at = "commit" /\ op.kind = "edits" /\ op.who \in Watchers
  /\ Fault
  /\ op' = [op EXCEPT !.at = "refused", !.committed = TRUE]
  /\ UNCHANGED <<tree, disk, role, mem, copy, current, pending, owed, edits, missed, stray>>

\* The batch is kept; the release believes that there is nothing to publish.  A
\* compaction that throws after a walk that found nothing ends the same way.
WatchFails ==
  /\ op # None
  /\ \/ op.at = "refused" /\ UNCHANGED faults
     \/ op.at = "walked" /\ Fault
  /\ pending' = [pending EXCEPT ![op.who] = @ \cup op.batch]
  /\ op' = None
  /\ stray' = stray \cup LeftBehind
  /\ IF op.committed THEN UNCHANGED current /\ NotPublished({op.who})
                     ELSE Bump(None)
  /\ UNCHANGED <<tree, disk, role, mem, owed, edits>>

\* A session ends, in the middle of an operation too: its handles go, and its
\* memory; nothing is published.
End(s) ==
  /\ s = role \/ mem[s] # None \/ copy[s] # None \/ Holds(s)
  /\ IF Holds(s)
     THEN /\ Fault /\ op' = None
          /\ stray' = stray \cup LeftBehind
          /\ NotPublished({s})
     ELSE /\ UNCHANGED <<faults, op, stray>>
          /\ missed' = missed \ {s} /\ copy' = [copy EXCEPT ![s] = None]
  /\ role' = IF role = s THEN None ELSE role
  /\ mem' = [mem EXCEPT ![s] = None]
  /\ current' = current \ {s} /\ owed' = owed \ {s}
  /\ pending' = [pending EXCEPT ![s] = {}]
  /\ UNCHANGED <<tree, disk, edits>>

EndCommand ==
  /\ op # None /\ op.who \in Commands
  /\ Fault /\ op' = None
  /\ stray' = stray \cup LeftBehind
  /\ NotPublished({})
  /\ UNCHANGED <<tree, disk, role, mem, current, pending, owed, edits>>
-----------------------------------------------------------------------------
Init ==
  /\ tree \in Map
  /\ index = tree /\ ledger = tree
  /\ role = None
  /\ mem = [s \in Sessions |-> None] /\ copy = [s \in Sessions |-> None]
  /\ current = {} /\ pending = [s \in Sessions |-> {}]
  /\ op = None /\ owed = {}
  /\ edits = 0 /\ faults = 0
  /\ missed = {} /\ stray = {}

Next ==
  \/ \E p \in Paths : Edit(p)
  \/ \E s \in Sessions : TakeRole(s) \/ ReadGeneration(s) \/ Load(s) \/ Install(s) \/ End(s)
  \/ \E s \in Sessions, answered, unread \in SUBSET Paths : ApplyEdits(s, answered, unread)
  \/ \E w \in Servers \cup Commands, unread, dropped \in SUBSET Paths :
       Update(w, unread, dropped) \/ UpdateUntouched(w, unread, dropped)
  \/ \E w \in Sessions \cup Commands, unread \in SUBSET Paths : Build(w, unread)
  \/ SaveIndex \/ SaveLedger \/ SaveFails \/ Publish \/ Compact
  \/ \E unread, dropped \in SUBSET Paths : WatchWalks(unread, dropped)
  \/ WatchWalkRefused \/ WatchFails
  \/ EndCommand

Spec == Init /\ [][Next]_vars
-----------------------------------------------------------------------------
(* Properties *)

\* A save reverts nothing another process wrote: it changes no path but those
\* its operation set out to change, unless its session could not know of that
\* write, for its writer died before it published.
NoLostUpdate ==
  [][index' # index /\ op.who \notin missed =>
       \A p \in Paths \ (op.paths \cup stray) : index'[p] = index[p]]_vars

\* With nobody writing, a session that compares its generation equal to the one
\* on disk serves the index that is on disk.
CurrentServesDisk ==
  op = None =>
    \A s \in current \ missed : \A p \in Paths \ stray : mem[s].text[p] = index[p]

\* With nobody writing, the ledger claims exactly what the index holds, but for
\* what a crash, a failed write or a missed generation left.
LedgerMatchesIndex == op = None => \A p \in Paths \ stray : ledger[p] = index[p]

\* What a live watch has applied is in the index on disk: with nobody writing
\* every path that the role holder has no edit pending for is as the tree has
\* it, once it has walked the tree.
LiveIndexIsFresh ==
  op = None /\ role # None /\ role \notin owed =>
    \A p \in Paths \ (pending[role] \cup stray) : index[p] = tree[p]

\* A hold that wrote and is released by a live process publishes: nobody else
\* still takes the generation that was on disk for the latest.
ReleasePublishes ==
  [][op # None /\ op' = None /\ op.saved /\ op.who \in Sessions /\ mem'[op.who] # None
       => current' \subseteq {op.who}]_vars
=============================================================================

---------------------------- MODULE DocumentMap ----------------------------
(***************************************************************************)
(* What the text index promises its callers: a map from paths to the       *)
(* content last added for them, edited in memory, committed by a save, and *)
(* back at the last commit when the process ends without one.  A full      *)
(* build replaces the whole map.  Where a file system may lose what was    *)
(* committed, the map is inexact from then on, and nothing is promised of  *)
(* it until the next full build.  Where it may keep a written file from    *)
(* being opened, the map that is searched slips: it is in doubt, and what  *)
(* was committed is too as soon as a map in doubt is committed.            *)
(***************************************************************************)
CONSTANTS Paths, Contents, None,
          MayLose, \* can a commit be lost?
          MaySlip  \* can edits be lost from the map that is searched?

VARIABLES exact,     \* FALSE from a loss or a recovery to the next build
          view,      \* the map a search reads, or None while it is in doubt
          committed  \* the map a reopened index would hold

vars == <<exact, view, committed>>

Maps  == [Paths -> Contents \cup {None}]
Empty == [p \in Paths |-> None]

Init == exact = TRUE /\ view = Empty /\ committed = Empty

Put(p, c) ==
  /\ exact /\ view # None
  /\ view[p] = None
  /\ view' = [view EXCEPT ![p] = c]
  /\ UNCHANGED <<exact, committed>>

Drop(p) ==
  /\ exact /\ view # None
  /\ view' = [view EXCEPT ![p] = None]
  /\ UNCHANGED <<exact, committed>>

Commit ==
  /\ exact /\ view # None
  /\ committed' = view
  /\ UNCHANGED <<exact, view>>

\* The process ends, and with it any doubt about edits that were not committed.
Revert ==
  /\ exact
  /\ view' = committed
  /\ UNCHANGED <<exact, committed>>

\* A build finished: its map is committed and served in one step.
Replace ==
  /\ exact
  /\ view' \in Maps
  /\ committed' = view'
  /\ UNCHANGED exact

\* The segments are taken from the directory: only when nothing is committed.
Recover ==
  /\ exact
  /\ committed = Empty
  /\ exact' = FALSE
  /\ view' = Empty
  /\ committed' = Empty

\* What was committed is lost with the process that was committing.
Lose ==
  /\ exact /\ MayLose
  /\ exact' = FALSE
  /\ view' = Empty
  /\ committed' = Empty

\* Edits are gone from the map, and which is not known.
Slip ==
  /\ exact /\ MaySlip
  /\ view' = None
  /\ UNCHANGED <<exact, committed>>

CommitInDoubt ==
  /\ exact /\ view = None
  /\ exact' = FALSE
  /\ view' = Empty
  /\ committed' = Empty

\* A build's commit makes the map exact again.
Rebuild ==
  /\ ~exact
  /\ exact' = TRUE
  /\ view' \in Maps
  /\ committed' = view'

Next ==
  \/ \E p \in Paths, c \in Contents : Put(p, c)
  \/ \E p \in Paths : Drop(p)
  \/ Commit \/ Revert \/ Replace
  \/ Recover \/ Lose \/ Slip \/ CommitInDoubt \/ Rebuild

Spec == Init /\ [][Next]_vars
=============================================================================

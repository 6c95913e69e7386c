------------------------------ MODULE PathLedger ------------------------------
(***************************************************************************)
(* What the change ledger promises the indexer: a map from paths to file   *)
(* states, edited in memory while it is open, committed by a save, and     *)
(* back at the last commit when it is opened again.  Rewriting its files   *)
(* shows in no answer.  A fold leaves the old journal to be deleted, and a *)
(* file may be damaged: until that is settled what an open finds is in     *)
(* doubt.                                                                  *)
(***************************************************************************)
CONSTANTS Paths, States, None,
          Faults   \* whether files may be damaged or unreadable

VARIABLES certain,   \* an open that reads every file finds what was committed
          view,      \* what the open ledger answers, or None
          committed  \* the map as last committed

vars == <<certain, view, committed>>

Maps  == [Paths -> States \cup {None}]
Empty == [p \in Paths |-> None]

Init == certain = TRUE /\ view = None /\ committed = Empty

Edit(p, s) ==
  /\ view # None
  /\ view' = [view EXCEPT ![p] = s]
  /\ UNCHANGED <<certain, committed>>

Commit ==
  /\ view # None
  /\ committed' = view
  /\ certain' \in BOOLEAN
  /\ UNCHANGED view

\* A build's ledger, or one of an old version, with nobody reading.
Replace ==
  /\ view = None
  /\ committed' \in Maps
  /\ certain' \in BOOLEAN
  /\ UNCHANGED view

\* The old journal is gone.
Settle ==
  /\ ~certain
  /\ certain' = TRUE
  /\ UNCHANGED <<view, committed>>

Damage ==
  /\ Faults /\ view = None
  /\ certain' = FALSE
  /\ UNCHANGED <<view, committed>>

Open ==
  /\ view = None
  /\ view' \in Maps
  /\ certain => view' = committed
  /\ UNCHANGED <<certain, committed>>

\* A file that is there could not be read.
Misread ==
  /\ Faults /\ view = None
  /\ view' \in Maps
  /\ UNCHANGED <<certain, committed>>

Close ==
  /\ view # None
  /\ view' = None
  /\ UNCHANGED <<certain, committed>>

Next ==
  \/ \E p \in Paths, s \in States \cup {None} : Edit(p, s)
  \/ Commit \/ Replace \/ Settle \/ Damage \/ Open \/ Misread \/ Close

Spec == Init /\ [][Next]_vars
=============================================================================

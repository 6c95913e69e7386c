----------------------------- MODULE LedgerTrust -----------------------------
(***************************************************************************)
(* When a file's size and modified time may stand in for its content       *)
(* (LedgerTrust.cs): one indexed file, its ledger entry and the update or  *)
(* live batch that reads it, against edits, atomic saves and tools that    *)
(* set the modified time, with a file system whose clock ticks coarsely    *)
(* and may differ from ours.                                               *)
(*                                                                         *)
(* A hash is the content it was taken of.  The file id, which a second     *)
(* look compares where both are known, is left out: without it an entry is *)
(* only trusted more often.                                                *)
(***************************************************************************)
EXTENDS Integers

CONSTANTS Contents, Size,  \* the contents of the file, and their sizes
          Start, End,      \* the first and the last reading of our clock
          Clocks,          \* what the file system may stamp at each of them
          Margin, Settle,  \* LocalMargin or NetworkMargin, SettleMargin
          Dates,           \* times that tools set a file's modified time to
          Nothing

Times == Start .. End

ASSUME Assumptions ==
  /\ Size \in [Contents -> Nat]
  /\ Start \in Nat \ {0} /\ End \in Nat /\ Start <= End
  /\ Margin \in Nat /\ Settle \in Nat
  /\ Clocks \subseteq [Times -> Nat \ {0}] /\ Dates \subseteq Nat \ {0}

\* What the margins are chosen for: stamps never run backwards, none is behind
\* our clock by the margin or more, and no tick lasts as long as Settle.
ASSUME ClockAssumption ==
  \A clock \in Clocks : \A t, u \in Times :
    /\ clock[t] + Margin > t
    /\ t <= u => clock[t] <= clock[u]
    /\ clock[t] = clock[u] => u < t + Settle

VARIABLES clock,   \* the file system's clock
          shared,  \* is the ledger on a share, written by other machines too?
          now,
          file,    \* [content, mtime, ctime]
          entry,   \* the ledger's entry for the file, or Nothing
          look,    \* the listing or the read under way, or Nothing
          written, \* when the ledger's files were last written
          lastSet, \* the latest upsert of this instance of the ledger
          ahead,   \* ghost: a tool has dated the file ahead of its file system
          redated  \* ghost: a tool has set its time since the entry's read began

trustVars == <<clock, shared, now, file, entry, look, written, lastSet, ahead, redated>>
ledger == <<entry, written, lastSet>>

Listing == [at : {"listed"}, size : Nat, mtime : Nat \ {0}, bound : Nat, redated : BOOLEAN]
Reading == [at : {"reading"}, size : Nat, mtime : Nat \ {0}, bound : Nat, redated : BOOLEAN,
            started : Times, known : BOOLEAN, ctime : Nat,
            same : BOOLEAN, attached : BOOLEAN, seen : SUBSET Contents]
Entry == [size : Nat, mtime : Int, hash : Contents, ctime : Nat, hashedAt : Nat]

ASSUME NothingAssumption == Nothing \notin Entry \cup Listing \cup Reading

TrustTypeOK ==
  /\ clock \in Clocks /\ shared \in BOOLEAN /\ now \in Times
  /\ file \in [content : Contents, mtime : Nat \ {0}, ctime : Nat]
  /\ entry \in Entry \cup {Nothing}
  /\ entry # Nothing /\ entry.mtime = 0 => entry.ctime = 0 \* vouches for nothing
  /\ look \in Listing \cup Reading \cup {Nothing}
  /\ written \in Nat /\ lastSet \in Nat
  /\ ahead \in BOOLEAN /\ redated \in BOOLEAN
-----------------------------------------------------------------------------
(* What may be trusted *)

Max(a, b) == IF a >= b THEN a ELSE b

\* Our time by which every entry of the ledger had been recorded: 0 is unknown.
\* The stamps of files on a share are not our clock.
FilesWritten == IF shared THEN 0 ELSE written
RecordedBy == Max(FilesWritten, lastSet)

\* An entry of a ledger older than version 2 (hashedAt = 0) was judged by none
\* of these rules.
IsLegacy(e) == e.hashedAt = 0
MatchesListing(e, size, mtime, bound) ==
  /\ e.mtime > 0 /\ e.size = size /\ e.mtime = mtime
  /\ IsLegacy(e) => bound > 0 /\ e.mtime + Margin <= bound

\* The file was modified, and changed, safely before the read began.
FirstLook(mtime, ctime, started) == Max(mtime, ctime) + Margin <= started

\* Its stamps were already on it when it was recorded pending, long enough ago.
\* What another machine recorded is not on our clock.
Anchor_Theirs(prior, bound) == IF prior.hashedAt > 0 THEN prior.hashedAt ELSE bound
Anchor(prior, bound) == IF ~shared /\ prior.hashedAt > 0 THEN prior.hashedAt ELSE bound
SecondLook(mtime, ctime, size, started, prior, bound) ==
  /\ prior # Nothing
  /\ prior.mtime = -mtime /\ prior.size = size /\ prior.ctime = ctime
  /\ Anchor(prior, bound) > 0 /\ Anchor(prior, bound) + Settle <= started

\* A file whose handle moved during the read, or is not the one listed, is not
\* vouched for; without the handle's times only the listing speaks.
Moved_Never(r, hash) == FALSE
Moved(r, hash) == r.known /\ (~r.same \/ Size[hash] # r.size)
Trusted(r, hash, prior) ==
  \/ FirstLook(r.mtime, r.ctime, r.started)
  \/ SecondLook(r.mtime, r.ctime, Size[hash], r.started, prior, r.bound)
Unknown_Stamped(r, hash) ==
  [size |-> Size[hash], mtime |-> 0, hash |-> hash, ctime |-> r.ctime, hashedAt |-> r.started]
Unknown(r, hash) ==
  [size |-> Size[hash], mtime |-> 0, hash |-> hash, ctime |-> 0, hashedAt |-> r.started]
Recorded(r, hash, prior) ==
  IF Moved(r, hash) THEN Unknown(r, hash)
  ELSE IF Trusted(r, hash, prior)
  THEN [size |-> Size[hash], mtime |-> r.mtime, hash |-> hash, ctime |-> r.ctime,
        hashedAt |-> r.started]
  ELSE [size |-> Size[hash], mtime |-> -r.mtime, hash |-> hash, ctime |-> r.ctime,
        hashedAt |-> now]
-----------------------------------------------------------------------------
(* The file system *)

Tick ==
  /\ now < End /\ now' = now + 1
  /\ UNCHANGED <<clock, shared, file, look, ledger, ahead, redated>>

IsReading == look # Nothing /\ look.at = "reading"

\* The handle a read holds sees a change of its file, and not a file that was
\* moved over it.  A read during which the file was written can return anything.
SameStat(m, c) == look.mtime = m /\ look.ctime = c

WriteInPlace(content) ==
  LET stamp == clock[now] IN
  /\ file' = [content |-> content, mtime |-> stamp, ctime |-> stamp]
  /\ look' = IF IsReading /\ look.attached
             THEN [look EXCEPT !.seen = Contents, !.same = @ /\ SameStat(stamp, stamp)]
             ELSE look
  /\ UNCHANGED <<clock, shared, now, ledger, ahead, redated>>

\* An editor writes a new file and renames it over this one.
Replace(content) ==
  LET stamp == clock[now] IN
  /\ file' = [content |-> content, mtime |-> stamp, ctime |-> stamp]
  /\ look' = IF IsReading THEN [look EXCEPT !.attached = FALSE] ELSE look
  /\ UNCHANGED <<clock, shared, now, ledger, ahead, redated>>

\* A tool sets the modified time, which moves the change time.
Redate(date) ==
  /\ file' = [file EXCEPT !.mtime = date, !.ctime = clock[now]]
  /\ look' = IF look = Nothing THEN Nothing
             ELSE IF IsReading /\ look.attached
             THEN [look EXCEPT !.redated = TRUE, !.same = @ /\ SameStat(date, clock[now])]
             ELSE [look EXCEPT !.redated = TRUE]
  /\ ahead' = (ahead \/ date > clock[now])
  /\ redated' = TRUE
  /\ UNCHANGED <<clock, shared, now, ledger>>
-----------------------------------------------------------------------------
(* Updates and live batches *)

Listed(bound) ==
  [at |-> "listed", size |-> Size[file.content], mtime |-> file.mtime, bound |-> bound,
   redated |-> FALSE]

\* An update opens the ledger anew, and reads what the listing does not match.
UpdateLists ==
  /\ look = Nothing /\ lastSet = 0
  /\ entry # Nothing => ~MatchesListing(entry, Size[file.content], file.mtime, FilesWritten)
  /\ look' = Listed(FilesWritten)
  /\ UNCHANGED <<clock, shared, now, file, ledger, ahead, redated>>

\* A live batch reads the file whatever its entry says.
BatchLists ==
  /\ look = Nothing
  /\ look' = Listed(RecordedBy)
  /\ UNCHANGED <<clock, shared, now, file, ledger, ahead, redated>>

\* The handle's times are known on Windows, if the query succeeds.
StartRead(known) ==
  /\ look # Nothing /\ look.at = "listed"
  /\ look' = [at |-> "reading", size |-> look.size, mtime |-> look.mtime, bound |-> look.bound,
              redated |-> look.redated,
              started |-> now, known |-> known, ctime |-> IF known THEN file.ctime ELSE 0,
              same |-> Size[file.content] = look.size /\ file.mtime = look.mtime,
              attached |-> TRUE, seen |-> {file.content}]
  /\ UNCHANGED <<clock, shared, now, file, ledger, ahead, redated>>

\* Ghost: the handle's times tell when its file's time was set during the read.
\* The hash is recorded as soon as the file is read.  A build has no prior entry.
Record(content, prior) ==
  /\ IsReading /\ content \in look.seen
  /\ entry' = Recorded(look, content, prior)
  /\ lastSet' = now
  /\ look' = Nothing
  /\ redated' = (look.redated /\ ~(look.known /\ look.attached))
  /\ UNCHANGED <<clock, shared, now, file, written, ahead>>

\* The ledger is saved, with this entry or only with those of other files, and
\* opened anew.  On a share, a pending entry may be another machine's, recorded
\* at whatever time its clock showed.
SaveAndReopen ==
  /\ look = Nothing
  /\ written' = now /\ lastSet' = 0
  /\ IF shared /\ entry # Nothing /\ entry.mtime < 0
     THEN \E t \in Times : entry' = [entry EXCEPT !.hashedAt = t]
     ELSE UNCHANGED entry
  /\ UNCHANGED <<clock, shared, now, file, look, ahead, redated>>
-----------------------------------------------------------------------------
\* A ledger of an older version may be found, with an entry for the file as it
\* is, trusted or pending, that was recorded when the ledger was written; the
\* file was edited just then, or unpacked with an old date.
TrustInit ==
  /\ clock \in Clocks /\ shared \in BOOLEAN
  /\ now = Start /\ written = Start /\ lastSet = 0
  /\ \E c \in Contents, m \in {clock[Start]} \cup {d \in Dates : d <= clock[Start]} :
       /\ file = [content |-> c, mtime |-> m, ctime |-> clock[Start]]
       /\ entry \in {Nothing} \cup
                    [size : {Size[c]}, mtime : {m, -m}, hash : {c},
                     ctime : {0}, hashedAt : {0}]
  /\ look = Nothing
  /\ ahead = FALSE /\ redated = FALSE

TrustNext ==
  \/ Tick
  \/ \E c \in Contents : WriteInPlace(c) \/ Replace(c)
  \/ \E date \in Dates : Redate(date)
  \/ UpdateLists \/ BatchLists
  \/ \E known \in BOOLEAN : StartRead(known)
  \/ \E c \in Contents, prior \in {entry, Nothing} : Record(c, prior)
  \/ SaveAndReopen

TrustSpec == TrustInit /\ [][TrustNext]_trustVars
-----------------------------------------------------------------------------
(* Properties *)

\* An update would skip the file, though it is not what the ledger says.
SkipsAnEdit ==
  /\ entry # Nothing /\ entry.hash # file.content
  /\ MatchesListing(entry, Size[file.content], file.mtime, FilesWritten)

\* "A recorded mtime is a promise: these bytes": no update skips an edited file,
\* however soon after the read it was edited, unless a tool set its time back
\* since the read began, or ahead of the clock.  An older ledger's entry is held
\* to this while that ledger has not been written again.
TrustIsKept ==
  ~ahead /\ ~redated /\ (entry # Nothing /\ IsLegacy(entry) => written = Start) => ~SkipsAnEdit

\* "No later write can share that stamp": the file system will never again stamp
\* a file with the modified time of a trusted entry.
StampIsOver ==
  ~ahead /\ entry # Nothing /\ entry.mtime > 0 /\ ~IsLegacy(entry) =>
    \A t \in now .. End : clock[t] # entry.mtime
=============================================================================

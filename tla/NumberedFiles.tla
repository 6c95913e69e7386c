---------------------------- MODULE NumberedFiles ----------------------------
(***************************************************************************)
(* The numbering of cache files (NumberedFiles in Storage/AtomicFile.cs):  *)
(* seg-N, sym-N and snapshot-N files take the number after the largest one *)
(* present in the directory, so that a number is not used twice while its  *)
(* file exists.                                                            *)
(***************************************************************************)
EXTENDS Naturals

\* NumberedFiles.Next, given the numbers of the files present.
NextNumber(used) ==
  CHOOSE k \in {0} \cup {n + 1 : n \in used} : \A n \in used : n < k

AtLeast(a, b) == IF a >= b THEN a ELSE b
=============================================================================

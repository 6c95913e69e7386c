------------------------------ MODULE ByteBudget ------------------------------
(***************************************************************************)
(* The gate that bounds how much file content is in memory during a build  *)
(* (ByteBudget.cs).  Requests are served in the order of their tickets; a  *)
(* request that must wait sleeps on the monitor until somebody pulses it.  *)
(***************************************************************************)
EXTENDS Integers, FiniteSets

CONSTANTS Tasks,  \* who asks
          Budget

VARIABLES available,
          nextTicket,
          serving,  \* the ticket at the head of the line
          request   \* what each task has asked for and how far it has come

vars == <<available, nextTicket, serving, request>>

Request == [at : {"none", "awake", "asleep", "granted"}, ticket : Nat, need : 0 .. Budget]
NoRequest == [at |-> "none", ticket |-> 0, need |-> 0]

\* The constructor raises a smaller budget to 1.
BudgetAssumption == Budget \in Nat \ {0}

TypeOK ==
  /\ available \in 0 .. Budget
  /\ nextTicket \in Nat /\ serving \in 0 .. nextTicket
  /\ request \in [Tasks -> Request]
-----------------------------------------------------------------------------
\* A file larger than the budget reserves all of it.
Reserve(bytes) == IF bytes < 0 THEN 0 ELSE IF bytes > Budget THEN Budget ELSE bytes

PulseAll_Nobody(requests) == requests
PulseAll(requests) ==
  [t \in Tasks |-> IF requests[t].at = "asleep" THEN [requests[t] EXCEPT !.at = "awake"]
                   ELSE requests[t]]

Acquire(t, bytes) ==
  /\ request[t].at = "none"
  /\ request' = [request EXCEPT ![t] = [at |-> "awake", ticket |-> nextTicket,
                                        need |-> Reserve(bytes)]]
  /\ nextTicket' = nextTicket + 1
  /\ UNCHANGED <<available, serving>>

\* The head of the line may take its bytes; then the next in line may already fit.
MayTake(t) == request[t].ticket = serving /\ available >= request[t].need
TakeBytes(t) ==
  /\ request[t].at = "awake" /\ MayTake(t)
  /\ available' = available - request[t].need
  /\ serving' = serving + 1
  /\ request' = PulseAll([request EXCEPT ![t].at = "granted"])
  /\ UNCHANGED nextTicket

Wait(t) ==
  /\ request[t].at = "awake" /\ ~MayTake(t)
  /\ request' = [request EXCEPT ![t].at = "asleep"]
  /\ UNCHANGED <<available, nextTicket, serving>>

Returned_Unclamped(bytes) == bytes
Returned(bytes) == Reserve(bytes)
Release(t, bytes) ==
  /\ request[t].at = "granted"
  /\ available' = available + Returned(bytes)
  /\ request' = PulseAll([request EXCEPT ![t] = NoRequest])
  /\ UNCHANGED <<nextTicket, serving>>
-----------------------------------------------------------------------------
Init ==
  /\ available = Budget /\ nextTicket = 0 /\ serving = 0
  /\ request = [t \in Tasks |-> NoRequest]
-----------------------------------------------------------------------------
(* Properties *)

\* Each byte in use, as the task that reserved it and its number among the task's.
Reserved ==
  {b \in Tasks \X (1 .. Budget) : request[b[1]].at = "granted" /\ b[2] <= request[b[1]].need}
InUse == Cardinality(Reserved)

\* What the tasks hold and what is available make up the budget, so the files
\* in memory never exceed it.
BudgetIsKept ==
  /\ available >= 0
  /\ available + InUse = Budget
=============================================================================

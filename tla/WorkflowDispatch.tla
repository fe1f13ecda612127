-------------------------- MODULE WorkflowDispatch --------------------------
(***************************************************************************)
(* What the dispatcher promises to the rest of SAIKI: a port waits for its *)
(* workflow at most once, a workflow starts only for a port that waited    *)
(* and only while fewer than Capacity are under way, and every one under   *)
(* way ends once.  AutomationEngine implements it.                         *)
(***************************************************************************)
EXTENDS Naturals

CONSTANTS Ports, Capacity

VARIABLES
  pending,   \* ports waiting for a workflow
  underway   \* the number of workflows that hold a slot

dispatchVars == <<pending, underway>>

DispatchInit == pending = {} /\ underway = 0

Submit(p) ==
  /\ p \notin pending
  /\ pending' = pending \cup {p}
  /\ UNCHANGED underway

(* A cancellation withdraws one port, the end of the service all of them.  *)
Withdraw(S) ==
  /\ S \subseteq pending
  /\ pending' = pending \ S
  /\ UNCHANGED underway

Launch(p) ==
  /\ p \in pending
  /\ underway < Capacity
  /\ pending' = pending \ {p}
  /\ underway' = underway + 1

Finish ==
  /\ underway > 0
  /\ underway' = underway - 1
  /\ UNCHANGED pending

DispatchNext ==
  \/ \E p \in Ports : Submit(p) \/ Launch(p) \/ Withdraw({p})
  \/ Withdraw(pending)
  \/ Finish

DispatchSpec == DispatchInit /\ [][DispatchNext]_dispatchVars
=============================================================================

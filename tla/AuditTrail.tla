----------------------------- MODULE AuditTrail -----------------------------
(***************************************************************************)
(* What the audit service promises: one trail per tenant, to which events   *)
(* are only ever added, each of them once.  AuditStore implements it.       *)
(***************************************************************************)
EXTENDS Sequences, Functions

CONSTANTS Tenants, Events

VARIABLE trail   \* tenant -> the sequence of its events

NoRepeats(s) == IsInjective(s)

TrailInit == trail = [t \in Tenants |-> << >>]

\* One call may extend the trails of several tenants, all at once.
Extend ==
  /\ trail' \in [Tenants -> Seq(Events)]
  /\ \A t \in Tenants :
       /\ Len(trail'[t]) >= Len(trail[t])
       /\ \A i \in 1..Len(trail[t]) : trail'[t][i] = trail[t][i]
       /\ NoRepeats(trail'[t])

TrailSpec == TrailInit /\ [][Extend]_trail
=============================================================================

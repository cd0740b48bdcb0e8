------------------------------ MODULE Attempts ------------------------------
(***************************************************************************)
(* What an Artifact's status promises about generation, whatever caches    *)
(* lag, patches are lost or processes restart: attempts are numbered 1, 2, *)
(* 3, ... and none is skipped; at most one is in flight, the latest; one   *)
(* that is no longer in flight never is again; and the failure count goes  *)
(* up only in a step that leaves none in flight.                           *)
(***************************************************************************)
EXTENDS Naturals

VARIABLES
  attempts,  \* the attempts that were ever started
  ref,       \* the one in flight, 0 for none
  failed     \* the failures that count against the budget

ledger == <<attempts, ref, failed>>

Init == attempts = 0 /\ ref = 0 /\ failed = 0

\* The next attempt starts; failures may be forgiven on the way.
Begin ==
  /\ ref = 0
  /\ attempts' = attempts + 1 /\ ref' = attempts'
  /\ failed' \in {failed, 0}

\* The run in flight is given up, or failures are forgiven.
Release ==
  /\ ref' \in {ref, 0}
  /\ failed' \in {failed, 0}
  /\ UNCHANGED attempts

\* A failure is counted.  It may be the one that is counted already, or follow
\* failures that were forgiven since: the count written is the one the reconcile
\* worked out from its own copy.
Charge ==
  /\ ref' = 0
  /\ failed' \in 0..attempts
  /\ UNCHANGED attempts

Next == Begin \/ Release \/ Charge

Spec == Init /\ [][Next]_ledger
=============================================================================

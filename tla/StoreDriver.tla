----------------------------- MODULE StoreDriver -----------------------------
(***************************************************************************)
(* What internal/store/store.go promises of a driver at one key, and what  *)
(* reconcileDelete and reconcileExpired rely on.  Observe reports an       *)
(* object that is there, and Delete that returns no error has found the    *)
(* key empty or made it empty: so when a look at the key and the deletion  *)
(* that follows it end without an error, the key was empty at some time    *)
(* since they began.  Deleting an absent object is not an error.  After an *)
(* error the object may be there or not.  Others use the store at any      *)
(* time.                                                                   *)
(***************************************************************************)
EXTENDS Naturals

VARIABLES
  object,  \* the object at the key, 0 for none
  call     \* the deletion: not begun, under way, key emptied, over

\* The deletion begins, or begins again after an error.
Call == call = "none" /\ call' = "delete" /\ UNCHANGED object

Remove == call = "delete" /\ call' = "gone" /\ object' = 0

ReturnNil ==
  /\ call = "gone" \/ (call = "delete" /\ object = 0)
  /\ call' = "ok" /\ UNCHANGED object

ReturnError ==
  /\ call \in {"delete", "gone"} /\ call' = "none"
  /\ object' \in {object, 0}

OthersUse == object' \in Nat /\ UNCHANGED call

Init == object \in Nat /\ call = "none"

Next == Call \/ Remove \/ ReturnNil \/ ReturnError \/ OthersUse

Spec == Init /\ [][Next]_<<object, call>>
=============================================================================

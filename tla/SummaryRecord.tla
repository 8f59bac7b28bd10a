---------------------------- MODULE SummaryRecord ----------------------------
(* What the store of a meeting's summary promises its user, without the     *)
(* columns, tokens and tasks that keep the promise: a generation that does  *)
(* not succeed leaves the summary that was there when it began.             *)
EXTENDS Integers

CONSTANTS Makers, \* who can write a summary
          Null    \* no summary

VARIABLES state, \* what the meeting's summary is said to be
          shown, \* the summary the user sees
          kept   \* the summary that a generation that gives up comes back to

vars == <<state, shown, kept>>
States == {"none", "PENDING", "completed", "failed", "cancelled"}

Init == state = "none" /\ shown = Null /\ kept = Null

Begin == state' = "PENDING" /\ kept' = shown /\ UNCHANGED shown
Succeed(m) == state # "none" /\ state' = "completed" /\ shown' = m /\ kept' = m
GiveUp(end) == state # "none" /\ state' = end /\ shown' = kept /\ UNCHANGED kept
(* A generation that is under way may come back to what it found, instead   *)
(* of an edit that was made meanwhile; otherwise the edit is kept.          *)
Edit(m) ==
    /\ state # "none"
    /\ shown' = m
    /\ \/ kept' = m
       \/ state = "PENDING" /\ kept # Null /\ UNCHANGED kept
    /\ UNCHANGED state
Delete == state' = "none" /\ shown' = Null /\ kept' = Null

Next ==
    \/ Begin \/ Delete
    \/ \E m \in Makers : Succeed(m) \/ Edit(m)
    \/ \E end \in {"failed", "cancelled"} : GiveUp(end)
Spec == Init /\ [][Next]_vars
=============================================================================

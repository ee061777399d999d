----------------------------- MODULE LoadedCopy -----------------------------
(***************************************************************************)
(* What a copy of a remote document promises that is loaded when there is  *)
(* none and refreshed when a user finds it wanting, whoever uses it.       *)
(* Attempts do not overlap.  A load starts only while there is no copy and *)
(* the last one did not fail within an Interval; refreshes start at least  *)
(* one Interval apart.  A copy is only ever replaced, at the end of an     *)
(* attempt, by a document that was in force during that attempt and is no  *)
(* older than the copy, or lost to a null document that was.  An attempt   *)
(* that is given up leaves no trace but the time a refresh started.        *)
(***************************************************************************)
EXTENDS Integers, Sequences

CONSTANTS Docs, None, Interval

VARIABLES
    clock,
    issued,       \* the documents published so far, with their times
    copy,         \* place in `issued` of the copy, 0 for none
    lastRefresh,  \* when the last refresh started, or None
    lastFailure,  \* when the last load started if it failed, or None
    attempt,      \* "load", "refresh" or "none"
    began         \* when the load under way started, 0 for none

copyVars == <<clock, issued, copy, lastRefresh, lastFailure, attempt, began>>

Init ==
    /\ clock = 0
    /\ \E d \in Docs : issued = <<[at |-> 0, doc |-> d]>>
    /\ copy = 0
    /\ lastRefresh = None
    /\ lastFailure = None
    /\ attempt = "none"
    /\ began = 0

Tick ==
    /\ clock' = clock + 1
    /\ UNCHANGED <<issued, copy, lastRefresh, lastFailure, attempt, began>>

Publish ==
    /\ \E d \in Docs : issued' = Append(issued, [at |-> clock, doc |-> d])
    /\ UNCHANGED <<clock, copy, lastRefresh, lastFailure, attempt, began>>

Over(then) == then = None \/ clock - then >= Interval

Load ==
    /\ attempt = "none"
    /\ copy = 0
    /\ Over(lastFailure)
    /\ attempt' = "load"
    /\ began' = clock
    /\ UNCHANGED <<clock, issued, copy, lastRefresh, lastFailure>>

Refresh ==
    /\ attempt = "none"
    /\ Over(lastRefresh)
    /\ attempt' = "refresh"
    /\ lastRefresh' = clock
    /\ UNCHANGED <<clock, issued, copy, lastFailure, began>>

Ended == attempt # "none" /\ attempt' = "none" /\ began' = 0 /\ UNCHANGED <<clock, issued, lastRefresh>>

Start == IF attempt = "load" THEN began ELSE lastRefresh

Take ==
    /\ Ended
    /\ \E v \in 1..Len(issued) :
          /\ v = Len(issued) \/ issued[v + 1].at >= Start
          /\ v >= copy
          /\ copy' = IF issued[v].doc = None THEN 0 ELSE v
    /\ lastFailure' = IF attempt = "load" THEN None ELSE lastFailure

LoadFails == attempt = "load" /\ Ended /\ lastFailure' = began /\ UNCHANGED copy

GiveUp == Ended /\ UNCHANGED <<copy, lastFailure>>

Next == Tick \/ Publish \/ Load \/ Refresh \/ Take \/ LoadFails \/ GiveUp

Spec == Init /\ [][Next]_copyVars
=============================================================================

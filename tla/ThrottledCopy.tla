---------------------------- MODULE ThrottledCopy ----------------------------
(***************************************************************************)
(* What a periodically refreshed copy of a remote document promises,       *)
(* whoever uses it: attempts to fetch it do not overlap and start at least *)
(* one Interval apart, and the copy is only ever replaced, at the end of   *)
(* an attempt, by a document that was in force during that attempt and is  *)
(* no older than the copy.  An attempt may also end with nothing.          *)
(***************************************************************************)
EXTENDS Integers, Sequences

CONSTANTS Docs, None, Interval

VARIABLES
    clock,
    issued,       \* the documents published so far, with their times
    copy,         \* place in `issued` of the copy, 0 for none
    lastAttempt,  \* when the last attempt started, or None
    busy          \* an attempt is under way

copyVars == <<clock, issued, copy, lastAttempt, busy>>

Init ==
    /\ clock = 0
    /\ \E d \in Docs : issued = <<[at |-> 0, doc |-> d]>>
    /\ copy = 0
    /\ lastAttempt = None
    /\ busy = FALSE

Tick == clock' = clock + 1 /\ UNCHANGED <<issued, copy, lastAttempt, busy>>

Publish ==
    /\ \E d \in Docs : issued' = Append(issued, [at |-> clock, doc |-> d])
    /\ UNCHANGED <<clock, copy, lastAttempt, busy>>

Begin ==
    /\ ~busy
    /\ lastAttempt # None => clock - lastAttempt >= Interval
    /\ lastAttempt' = clock
    /\ busy' = TRUE
    /\ UNCHANGED <<clock, issued, copy>>

Take ==
    /\ busy
    /\ \E v \in 1..Len(issued) :
          /\ v = Len(issued) \/ issued[v + 1].at >= lastAttempt
          /\ v >= copy
          /\ copy' = v
    /\ busy' = FALSE
    /\ UNCHANGED <<clock, issued, lastAttempt>>

GiveUp == busy /\ busy' = FALSE /\ UNCHANGED <<clock, issued, copy, lastAttempt>>

Next == Tick \/ Publish \/ Begin \/ Take \/ GiveUp

Spec == Init /\ [][Next]_copyVars
=============================================================================

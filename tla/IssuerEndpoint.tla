--------------------------- MODULE IssuerEndpoint ---------------------------
(***************************************************************************)
(* The far side of the two caches: an issuer that publishes one document   *)
(* (a JWKS or a revocation list) over HTTP, the requests the tasks of the  *)
(* code have outstanding against it, and the monotonic clock.              *)
(*                                                                         *)
(* The code of the issuer is not part of the repository.  `issued` is the  *)
(* issuer's timeline: every document it has published and when, so that a  *)
(* cached copy can be named by its place in it (0: nothing cached).        *)
(***************************************************************************)
EXTENDS Integers, Sequences

CONSTANTS
    Docs,       \* the documents the issuer may publish
    MaxClock,   \* bound of the clock
    MaxIssued   \* bound on the number of publications

ASSUME EndpointBounds == MaxClock \in Nat /\ MaxIssued \in Nat

VARIABLES
    clock,   \* time.monotonic()
    issued,  \* what the issuer published, and when
    phase,   \* of each task's request: none, sent, answered, broken
    answer   \* the publication each answered request carries

endpointVars == <<clock, issued, phase, answer>>

Publications == [at : Nat, doc : Docs]

Latest == Len(issued)

(* `clients`: the tasks that may send a request. *)
EndpointInit(clients) ==
    /\ clock = 0
    /\ \E d \in Docs : issued = <<[at |-> 0, doc |-> d]>>
    /\ phase = [c \in clients |-> "none"]
    /\ answer = [c \in clients |-> 0]

Tick ==
    /\ clock < MaxClock
    /\ clock' = clock + 1
    /\ UNCHANGED <<issued, phase, answer>>

Publish ==
    /\ Len(issued) < MaxIssued
    /\ \E d \in Docs :
          /\ d # issued[Latest].doc
          /\ issued' = Append(issued, [at |-> clock, doc |-> d])
    /\ UNCHANGED <<clock, phase, answer>>

(* client.get(uri): the request leaves. *)
Send(c) ==
    /\ phase' = [phase EXCEPT ![c] = "sent"]
    /\ UNCHANGED <<clock, issued, answer>>

(* The issuer answers with the document it publishes at that moment. *)
Answer ==
    \E c \in DOMAIN phase :
       /\ phase[c] = "sent"
       /\ phase' = [phase EXCEPT ![c] = "answered"]
       /\ answer' = [answer EXCEPT ![c] = Latest]
       /\ UNCHANGED <<clock, issued>>

(* Connection error, timeout, error status, or a body of the wrong shape. *)
Break ==
    \E c \in DOMAIN phase :
       /\ phase[c] = "sent"
       /\ phase' = [phase EXCEPT ![c] = "broken"]
       /\ UNCHANGED <<clock, issued, answer>>

(* The caller has consumed the outcome, or was cancelled. *)
Close(c) ==
    /\ phase' = [phase EXCEPT ![c] = "none"]
    /\ answer' = [answer EXCEPT ![c] = 0]
    /\ UNCHANGED <<clock, issued>>

(* The publications in force at some moment from t on. *)
InForceSince(t) ==
    {v \in 1..Latest : v = Latest \/ issued[v + 1].at >= t}
=============================================================================

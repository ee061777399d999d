------------------------- MODULE IssuerEndpointProofs -------------------------
(* Lemmas about the publications that were in force since some moment. *)
EXTENDS IssuerEndpoint, TLAPS

(* A publication that was in force at some moment since t stays so when    *)
(* the issuer publishes another.                                           *)
LEMMA InForceKept ==
    ASSUME issued \in Seq(Publications), clock \in Nat, Publish, NEW t \in Int, t <= clock,
           NEW v \in InForceSince(t)
    PROVE  v \in InForceSince(t)'
<1>1. PICK d \in Docs : issued' = Append(issued, [at |-> clock, doc |-> d])
  BY DEF Publish
<1>2. /\ Len(issued) \in Nat
      /\ Len(issued') = Len(issued) + 1
      /\ \A i \in 1..Len(issued) : issued'[i] = issued[i]
      /\ issued'[Len(issued) + 1] = [at |-> clock, doc |-> d]
  BY <1>1
<1>3. v \in 1..Len(issued) /\ (v = Len(issued) \/ issued[v + 1].at >= t)
  BY DEF InForceSince, Latest
<1>4. issued'[v + 1].at >= t
  <2>1. CASE v = Len(issued)
    BY <1>2, <2>1
  <2>2. CASE v # Len(issued)
    <3>1. v + 1 \in 1..Len(issued) /\ issued[v + 1].at >= t
      BY <1>2, <1>3, <2>2
    <3> QED BY <1>2, <3>1
  <2> QED BY <2>1, <2>2
<1>5. v \in 1..Len(issued')
  BY <1>2, <1>3
<1> QED BY <1>4, <1>5 DEF InForceSince, Latest

(* What was in force since t was in force since any earlier moment.        *)
LEMMA InForceEarlier ==
    ASSUME issued \in Seq(Publications), NEW t \in Int, NEW s \in Int, s <= t,
           NEW v \in InForceSince(t)
    PROVE  v \in InForceSince(s)
<1>1. v \in 1..Len(issued) /\ (v = Len(issued) \/ issued[v + 1].at >= t) /\ Len(issued) \in Nat
  BY DEF InForceSince, Latest
<1>2. CASE v = Len(issued)
  BY <1>1, <1>2 DEF InForceSince, Latest
<1>3. CASE v # Len(issued)
  <2>1. v + 1 \in 1..Len(issued) /\ issued[v + 1].at >= t
    BY <1>1, <1>3
  <2>2. issued[v + 1] \in Publications
    BY <2>1
  <2>3. issued[v + 1].at \in Nat
    BY <2>2 DEF Publications
  <2> QED BY <1>1, <2>1, <2>3 DEF InForceSince, Latest
<1> QED BY <1>2, <1>3

(* Every step of the endpoint that publishes nothing keeps the types of    *)
(* the requests.                                                           *)
LEMMA RequestTypes ==
    ASSUME NEW C, NEW c \in C, issued \in Seq(Publications), issued # <<>>,
           phase \in [C -> {"none", "sent", "answered", "broken"}],
           answer \in [C -> 0..Len(issued)],
           Tick \/ Answer \/ Break \/ Close(c) \/ UNCHANGED endpointVars
    PROVE  /\ issued' = issued
           /\ phase' \in [C -> {"none", "sent", "answered", "broken"}]
           /\ answer' \in [C -> 0..Len(issued')]
<1>1. CASE Tick \/ UNCHANGED endpointVars
  BY <1>1 DEF Tick, endpointVars
<1>2. CASE Answer
  <2>1. PICK d \in C :
           /\ phase' = [phase EXCEPT ![d] = "answered"]
           /\ answer' = [answer EXCEPT ![d] = Len(issued)]
           /\ issued' = issued
    BY <1>2 DEF Answer, Latest
  <2>2. Len(issued) \in 0..Len(issued)
    OBVIOUS
  <2> QED BY <2>1, <2>2
<1>3. CASE Break
  BY <1>3 DEF Break
<1>4. CASE Close(c)
  <2>1. 0 \in 0..Len(issued)
    OBVIOUS
  <2> QED BY <1>4, <2>1 DEF Close
<1> QED BY <1>1, <1>2, <1>3, <1>4
=============================================================================

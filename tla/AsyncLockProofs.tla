--------------------------- MODULE AsyncLockProofs ---------------------------
(* Lemmas about the waiting queue of AsyncLock. *)
EXTENDS AsyncLock, SequenceTheorems, TLAPS

(* A task that starts to wait joins the queue. *)
LEMMA AppendQueue ==
    ASSUME NEW q, NEW W, QueueOf(q, W), NEW t \in Tasks, t \notin W
    PROVE  QueueOf(Append(q, t), W \cup {t})
<1>1. q \in Seq(Tasks) BY DEF QueueOf
<1> DEFINE p == Append(q, t)
<1>2. /\ p \in Seq(Tasks)
      /\ DOMAIN p = 1..(Len(q) + 1)
      /\ \A i \in 1..Len(q) : p[i] = q[i]
      /\ p[Len(q) + 1] = t
      /\ DOMAIN q = 1..Len(q)
      /\ Len(q) \in Nat
  BY <1>1
<1>3. \A i \in DOMAIN q : q[i] # t
  BY DEF QueueOf
<1> HIDE DEF p
<1>4. ASSUME NEW i \in DOMAIN p, NEW j \in DOMAIN p, p[i] = p[j] PROVE i = j
  BY <1>2, <1>3, <1>4 DEF QueueOf
<1>5. W \cup {t} = {p[i] : i \in DOMAIN p}
  BY <1>2 DEF QueueOf
<1> QED BY <1>2, <1>4, <1>5 DEF QueueOf, p

(* The task that resumes leaves the queue. *)
LEMMA TailQueue ==
    ASSUME NEW q, NEW W, QueueOf(q, W), q # <<>>
    PROVE  /\ QueueOf(Tail(q), W \ {Head(q)})
           /\ Head(q) \in W
<1>1. q \in Seq(Tasks) BY DEF QueueOf
<1> DEFINE p == Tail(q)
<1>2. /\ p \in Seq(Tasks)
      /\ Len(q) \in Nat \ {0}
      /\ DOMAIN q = 1..Len(q)
      /\ DOMAIN p = 1..(Len(q) - 1)
      /\ \A i \in DOMAIN p : p[i] = q[i + 1]
      /\ Head(q) = q[1]
  BY <1>1
<1> HIDE DEF p
<1>3. ASSUME NEW i \in DOMAIN p, NEW j \in DOMAIN p, p[i] = p[j] PROVE i = j
  <2>1. i + 1 \in DOMAIN q /\ j + 1 \in DOMAIN q /\ i \in Int /\ j \in Int
    BY <1>2
  <2>2. q[i + 1] = q[j + 1]
    BY <1>2, <1>3
  <2>3. i + 1 = j + 1
    BY <2>1, <2>2 DEF QueueOf
  <2> QED BY <2>1, <2>3
<1>4. W \ {Head(q)} = {p[i] : i \in DOMAIN p}
  <2>1. ASSUME NEW w \in W, w # Head(q) PROVE \E i \in DOMAIN p : w = p[i]
    <3>1. PICK k \in DOMAIN q : w = q[k]
      BY DEF QueueOf
    <3>2. k - 1 \in DOMAIN p /\ k = (k - 1) + 1
      BY <1>2, <2>1, <3>1
    <3> QED BY <1>2, <3>1, <3>2
  <2>2. ASSUME NEW i \in DOMAIN p PROVE p[i] \in W /\ p[i] # Head(q)
    <3>1. i + 1 \in DOMAIN q /\ 1 \in DOMAIN q /\ i + 1 # 1
      BY <1>2
    <3> QED BY <1>2, <3>1 DEF QueueOf
  <2> QED BY <2>1, <2>2
<1>5. Head(q) \in W
  BY <1>2 DEF QueueOf
<1> QED BY <1>2, <1>3, <1>4, <1>5 DEF QueueOf, p

(* A cancelled waiter leaves the queue, and nobody else does. *)
LEMMA RemoveQueue ==
    ASSUME NEW q, NEW W, QueueOf(q, W), NEW k \in DOMAIN q
    PROVE  QueueOf(SubSeq(q, 1, k - 1) \o SubSeq(q, k + 1, Len(q)), W \ {q[k]})
<1>1. q \in Seq(Tasks) /\ Len(q) \in Nat /\ DOMAIN q = 1..Len(q) /\ k \in 1..Len(q)
  BY DEF QueueOf
<1> DEFINE a == SubSeq(q, 1, k - 1)
           b == SubSeq(q, k + 1, Len(q))
           p == a \o b
<1>2. /\ a \in Seq(Tasks)
      /\ Len(a) = k - 1
      /\ \A i \in 1..(k - 1) : a[i] = q[i]
  BY <1>1, SubSeqProperties
<1>3. /\ b \in Seq(Tasks)
      /\ Len(b) = Len(q) - k
      /\ \A i \in 1..(Len(q) - k) : b[i] = q[k + i]
  BY <1>1, SubSeqProperties
<1> HIDE DEF a, b
<1>4. /\ p \in Seq(Tasks)
      /\ Len(p) = Len(q) - 1
      /\ DOMAIN p = 1..(Len(q) - 1)
      /\ \A i \in 1..(k - 1) : p[i] = q[i]
      /\ \A i \in k..(Len(q) - 1) : p[i] = q[i + 1]
  <2>1. p \in Seq(Tasks) /\ Len(p) = Len(q) - 1 /\ DOMAIN p = 1..(Len(q) - 1)
    <3>1. p \in Seq(Tasks) /\ Len(p) = Len(a) + Len(b)
      BY <1>2, <1>3, ConcatProperties
    <3>2. DOMAIN p = 1..Len(p)
      BY <3>1
    <3> QED BY <1>1, <1>2, <1>3, <3>1, <3>2
  <2>2. ASSUME NEW i \in 1..(k - 1) PROVE p[i] = q[i]
    BY <1>1, <1>2, <1>3, <2>2
  <2>3. ASSUME NEW i \in k..(Len(q) - 1) PROVE p[i] = q[i + 1]
    <3>1. p[i] = b[i - (k - 1)]
      BY <1>1, <1>2, <1>3
    <3>2. i - (k - 1) \in 1..(Len(q) - k) /\ k + (i - (k - 1)) = i + 1
      BY <1>1
    <3> QED BY <1>3, <3>1, <3>2
  <2> QED BY <2>1, <2>2, <2>3
<1> HIDE DEF p
<1> DEFINE at(i) == IF i < k THEN i ELSE i + 1
<1>5. \A i \in DOMAIN p : at(i) \in DOMAIN q /\ at(i) # k /\ p[i] = q[at(i)]
  BY <1>1, <1>4
<1>6. ASSUME NEW i \in DOMAIN p, NEW j \in DOMAIN p, p[i] = p[j] PROVE i = j
  <2>1. at(i) = at(j)
    BY <1>5, <1>6 DEF QueueOf
  <2> QED BY <1>1, <1>4, <2>1
<1>7. W \ {q[k]} = {p[i] : i \in DOMAIN p}
  <2>1. ASSUME NEW w \in W, w # q[k] PROVE \E i \in DOMAIN p : w = p[i]
    <3>1. PICK j \in DOMAIN q : w = q[j]
      BY DEF QueueOf
    <3>2. j # k
      BY <2>1, <3>1
    <3>3. CASE j < k
      BY <1>1, <1>4, <3>1, <3>3
    <3>4. CASE j > k
      <4>1. j - 1 \in k..(Len(q) - 1) /\ j - 1 \in DOMAIN p /\ j = (j - 1) + 1
        BY <1>1, <1>4, <3>4
      <4> QED BY <1>4, <3>1, <4>1
    <3> QED BY <1>1, <3>2, <3>3, <3>4
  <2>2. ASSUME NEW i \in DOMAIN p PROVE p[i] \in W /\ p[i] # q[k]
    BY <1>5 DEF QueueOf
  <2> QED BY <2>1, <2>2
<1> QED BY <1>4, <1>6, <1>7 DEF QueueOf, p, a, b
=============================================================================

-------------------------- MODULE InputPlaneProofs --------------------------
(***************************************************************************)
(* Theorems about InputPlane, for every depth of its queues.               *)
(***************************************************************************)
EXTENDS InputPlane, SequenceTheorems, TLAPS

-----------------------------------------------------------------------------
(* What appending and taking do to a queue.                                *)

(* The numbers of the messages of kind k in q.                             *)
KindNumbers(q, k) == {q[i].seq : i \in {j \in DOMAIN q : q[j].kind = k}}

(* The messages of kind k are in q in the order of their numbers.          *)
Ascending(q, k) ==
  \A i, j \in DOMAIN q :
    i < j /\ q[i].kind = k /\ q[j].kind = k => q[i].seq < q[j].seq

LEMMA AppendFacts ==
  ASSUME NEW q \in Seq(Message), NEW m \in Message
  PROVE  /\ Append(q, m) \in Seq(Message) /\ Len(Append(q, m)) = Len(q) + 1
         /\ DOMAIN Append(q, m) = DOMAIN q \union {Len(q) + 1}
         /\ Append(q, m)[Len(q) + 1] = m
         /\ \A i \in DOMAIN q : Append(q, m)[i] = q[i] /\ i < Len(q) + 1
         /\ Len(q) + 1 \notin DOMAIN q
<1>1. Len(q) \in Nat /\ DOMAIN q = 1 .. Len(q)
  OBVIOUS
<1>2. Append(q, m) \in Seq(Message) /\ Len(Append(q, m)) = Len(q) + 1
  OBVIOUS
<1>3. DOMAIN Append(q, m) = 1 .. Len(q) + 1
  BY <1>1, <1>2
<1> QED
  BY <1>1, <1>2, <1>3

LEMMA AppendNumbers ==
  ASSUME NEW q \in Seq(Message), NEW m \in Message, NEW k
  PROVE  /\ KindNumbers(Append(q, m), k)
              = KindNumbers(q, k) \union (IF m.kind = k THEN {m.seq} ELSE {})
         /\ Numbers(Append(q, m)) = Numbers(q) \union {m.seq}
         /\ Ascending(q, k) /\ (m.kind = k => \A a \in KindNumbers(q, k) : a < m.seq)
              => Ascending(Append(q, m), k)
<1> DEFINE r == Append(q, m)
           l == Len(q) + 1
<1>1. /\ DOMAIN r = DOMAIN q \union {l} /\ r[l] = m /\ l \notin DOMAIN q
      /\ \A i \in DOMAIN q : r[i] = q[i] /\ i < l
      /\ \A i \in DOMAIN r : i \in Int
  BY AppendFacts
<1> HIDE DEF r, l
<1>2. KindNumbers(r, k) = KindNumbers(q, k) \union (IF m.kind = k THEN {m.seq} ELSE {})
  BY <1>1 DEF KindNumbers
<1>3. Numbers(r) = Numbers(q) \union {m.seq}
  BY <1>1 DEF Numbers
<1>4. ASSUME Ascending(q, k), m.kind = k => \A a \in KindNumbers(q, k) : a < m.seq
      PROVE  Ascending(r, k)
  <2>1. ASSUME NEW i \in DOMAIN r, NEW j \in DOMAIN r, i < j, r[i].kind = k, r[j].kind = k
        PROVE  r[i].seq < r[j].seq
    <3>1. CASE j \in DOMAIN q
      <4>1. i \in DOMAIN q
        BY <1>1, <2>1, <3>1
      <4> QED
        BY <1>1, <1>4, <2>1, <3>1, <4>1 DEF Ascending
    <3>2. CASE j = l
      <4>1. i \in DOMAIN q
        BY <1>1, <2>1, <3>2
      <4>2. r[i].seq \in KindNumbers(q, k)
        BY <1>1, <2>1, <4>1 DEF KindNumbers
      <4> QED
        BY <1>1, <1>4, <2>1, <3>2, <4>2
    <3> QED
      BY <1>1, <3>1, <3>2
  <2> QED
    BY <2>1 DEF Ascending
<1> QED
  BY <1>2, <1>3, <1>4 DEF r

LEMMA TailNumbers ==
  ASSUME NEW q \in Seq(Message), q # <<>>, NEW k
  PROVE  /\ Head(q) \in Message /\ Tail(q) \in Seq(Message) /\ Len(Tail(q)) < Len(q)
         /\ \A i \in DOMAIN Tail(q) : i + 1 \in DOMAIN q /\ Tail(q)[i] = q[i + 1]
         /\ \A j \in DOMAIN q : q[j] = Head(q) \/ \E i \in DOMAIN Tail(q) : q[j] = Tail(q)[i]
         /\ Numbers(q) = {Head(q).seq} \union Numbers(Tail(q))
         /\ KindNumbers(Tail(q), k) \subseteq KindNumbers(q, k)
         /\ Head(q).kind = k => Head(q).seq \in KindNumbers(q, k)
         /\ Ascending(q, k) =>
              /\ Ascending(Tail(q), k)
              /\ Head(q).kind = k => \A a \in KindNumbers(Tail(q), k) : Head(q).seq < a
<1> DEFINE u == Tail(q)
<1>1. /\ Len(q) \in Nat \ {0} /\ DOMAIN q = 1 .. Len(q)
      /\ Head(q) \in Message /\ Head(q) = q[1]
      /\ u \in Seq(Message) /\ Len(u) = Len(q) - 1 /\ DOMAIN u = 1 .. Len(q) - 1
      /\ \A i \in 1 .. Len(q) - 1 : u[i] = q[i + 1]
  BY EmptySeq, HeadTailProperties
<1> HIDE DEF u
<1>2. \A i \in DOMAIN u : i + 1 \in DOMAIN q /\ u[i] = q[i + 1]
  BY <1>1
<1>3. ASSUME NEW j \in DOMAIN q PROVE j = 1 \/ (j - 1 \in DOMAIN u /\ q[j] = u[j - 1])
  <2>1. CASE j # 1
    <3>1. j - 1 \in 1 .. Len(q) - 1 /\ (j - 1) + 1 = j
      BY <1>1, <2>1
    <3>2. u[j - 1] = q[(j - 1) + 1]
      BY <1>1, <3>1
    <3> QED
      BY <1>1, <3>1, <3>2
  <2> QED
    BY <2>1
<1>4. 1 \in DOMAIN q /\ Len(u) < Len(q)
  BY <1>1
<1>5. \A j \in DOMAIN q : q[j] = Head(q) \/ \E i \in DOMAIN u : q[j] = u[i]
  BY <1>1, <1>3
<1>6. Numbers(q) = {Head(q).seq} \union Numbers(u)
  <2>1. ASSUME NEW j \in DOMAIN q PROVE q[j].seq \in {Head(q).seq} \union Numbers(u)
    BY <1>5 DEF Numbers
  <2>2. Numbers(u) \subseteq Numbers(q)
    BY <1>2 DEF Numbers
  <2>3. Head(q).seq \in Numbers(q)
    BY <1>1, <1>4 DEF Numbers
  <2> QED
    BY <2>1, <2>2, <2>3 DEF Numbers
<1>7. KindNumbers(u, k) \subseteq KindNumbers(q, k)
  BY <1>2 DEF KindNumbers
<1>8. Head(q).kind = k => Head(q).seq \in KindNumbers(q, k)
  BY <1>1, <1>4 DEF KindNumbers
<1>9. ASSUME Ascending(q, k)
      PROVE  /\ Ascending(u, k)
             /\ Head(q).kind = k => \A a \in KindNumbers(u, k) : Head(q).seq < a
  <2>1. \A i, j \in DOMAIN u : i < j => i + 1 < j + 1
    BY <1>1
  <2>2. Ascending(u, k)
    BY <1>2, <1>9, <2>1 DEF Ascending
  <2>3. ASSUME NEW i \in DOMAIN u, u[i].kind = k, Head(q).kind = k
        PROVE  Head(q).seq < u[i].seq
    <3>1. 1 < i + 1
      BY <1>1
    <3> QED
      BY <1>1, <1>2, <1>4, <1>9, <2>3, <3>1 DEF Ascending
  <2> QED
    BY <2>2, <2>3 DEF KindNumbers
<1> QED
  BY <1>1, <1>2, <1>4, <1>5, <1>6, <1>7, <1>8, <1>9 DEF u


-----------------------------------------------------------------------------
(* Type correctness.                                                       *)

LEMMA TypeStep == TypeOK /\ [Next]_vars => TypeOK'
<1> SUFFICES ASSUME TypeOK, [Next]_vars PROVE TypeOK'
  OBVIOUS
<1> USE DepthsArePositive DEF DepthsArePositive, TypeOK
<1>n. /\ Len(routed) \in Nat /\ Len(outq) \in Nat /\ Len(evq) \in Nat
  OBVIOUS
<1>1. ASSUME NEW kind \in Kinds, Route(kind) PROVE TypeOK'
  <2> DEFINE m == [kind |-> kind, seq |-> Len(routed) + 1]
  <2>1. m \in Message
    BY <1>n DEF Message
  <2>2. Append(outq, m) \in Seq(Message) /\ Len(Append(outq, m)) = Len(outq) + 1
    BY <2>1, AppendFacts
  <2>3. outq' \in Seq(Message) /\ Len(outq') <= QueueDepth /\ condemned' \in BOOLEAN
    <3>1. IF Len(outq) < QueueDepth
            THEN outq' = Append(outq, m) /\ condemned' = condemned
            ELSE outq' = outq /\ condemned' = (condemned \/ Reliable(m))
      BY <1>1 DEF Route, Enqueue
    <3> HIDE DEF m
    <3>2. (condemned \/ Reliable(m)) \in BOOLEAN
      OBVIOUS
    <3>3. condemned' \in BOOLEAN
      <4>1. condemned' = condemned \/ condemned' = (condemned \/ Reliable(m))
        BY <3>1
      <4> QED
        BY <3>2, <4>1, Zenon
    <3>4. outq' \in Seq(Message) /\ Len(outq') <= QueueDepth
      <4>1. \/ Len(outq) < QueueDepth /\ outq' = Append(outq, m)
            \/ outq' = outq
        BY <3>1, Zenon
      <4>2. CASE outq' = outq
        BY <4>2
      <4>3. CASE Len(outq) < QueueDepth /\ outq' = Append(outq, m)
        <5>1. outq' \in Seq(Message) /\ Len(outq') = Len(outq) + 1
          BY <2>2, <4>3
        <5>2. Len(outq) + 1 <= QueueDepth
          BY <1>n, <4>3
        <5> QED
          BY <5>1, <5>2
      <4> QED
        BY <4>1, <4>2, <4>3
    <3> QED
      BY <3>3, <3>4
  <2>4. routed' \in Seq(Kinds) /\ Len(routed') <= MaxSent
    <3>1. routed' = Append(routed, kind) /\ Len(routed) < MaxSent
      BY <1>1 DEF Route
    <3>2. Append(routed, kind) \in Seq(Kinds) /\ Len(Append(routed, kind)) = Len(routed) + 1
      OBVIOUS
    <3> QED
      BY <1>n, <3>1, <3>2
  <2> QED
    BY <1>1, <2>3, <2>4 DEF Route
<1>2. ASSUME TransmitControl \/ TransmitReliably \/ TransmitDatagram PROVE TypeOK'
  <2>1. outq # <<>> /\ outq' = Tail(outq)
    BY <1>2 DEF TransmitControl, TransmitReliably, TransmitDatagram
  <2>2. Head(outq) \in Message /\ Tail(outq) \in Seq(Message) /\ Len(Tail(outq)) <= QueueDepth
    BY <1>n, <2>1, TailNumbers
  <2>3. Append(control, Head(outq)) \in Seq(Message) /\ Append(input, Head(outq)) \in Seq(Message)
    BY <2>2, AppendFacts
  <2> QED
    BY <1>2, <2>1, <2>2, <2>3 DEF TransmitControl, TransmitReliably, TransmitDatagram
<1>3. ASSUME ReadControl PROVE TypeOK'
  <2>1. Head(control) \in Message /\ Tail(control) \in Seq(Message)
    BY <1>3, TailNumbers DEF ReadControl
  <2>2. Append(evq, Head(control)) \in Seq(Message)
        /\ Len(Append(evq, Head(control))) <= EventDepth
    BY <1>3, <1>n, <2>1, AppendFacts DEF ReadControl
  <2> QED
    BY <1>3, <2>1, <2>2 DEF ReadControl
<1>4. ASSUME ReadReliableInput PROVE TypeOK'
  <2>1. Head(input) \in Message /\ Tail(input) \in Seq(Message)
    BY <1>4, TailNumbers DEF ReadReliableInput
  <2>2. Append(evq, Head(input)) \in Seq(Message)
        /\ Len(Append(evq, Head(input))) <= EventDepth
    BY <1>4, <1>n, <2>1, AppendFacts DEF ReadReliableInput
  <2> QED
    BY <1>4, <2>1, <2>2 DEF ReadReliableInput
<1>5. ASSUME NEW d \in datagrams, LoseDatagram(d) \/ ReadDatagram(d) PROVE TypeOK'
  <2>1. d \in Message
    OBVIOUS
  <2>2. Len(evq) < EventDepth =>
          Append(evq, d) \in Seq(Message) /\ Len(Append(evq, d)) <= EventDepth
    BY <1>n, <2>1, AppendFacts
  <2> QED
    BY <1>5, <2>2 DEF LoseDatagram, ReadDatagram
<1>6. ASSUME Handle PROVE TypeOK'
  <2>1. Head(evq) \in Message /\ Tail(evq) \in Seq(Message) /\ Len(Tail(evq)) <= EventDepth
    BY <1>6, <1>n, TailNumbers DEF Handle
  <2>2. Append(applied, Head(evq)) \in Seq(Message) /\ GateMark(Head(evq)) \in Nat
    BY <2>1, AppendFacts DEF GateMark, Message
  <2> QED
    BY <1>6, <2>1, <2>2 DEF Handle
<1>7. ASSUME GiveUp PROVE TypeOK'
  BY <1>7 DEF GiveUp
<1>8. CASE UNCHANGED vars
  BY <1>8 DEF vars
<1> QED
  BY <1>1, <1>2, <1>3, <1>4, <1>5, <1>6, <1>7, <1>8 DEF Next, Transmit

(* No queue ever exceeds its depth and every stage holds messages.         *)
THEOREM TypeCorrect == Spec => []TypeOK
<1>1. Init => TypeOK
  <2>1. <<>> \in Seq(Kinds) /\ <<>> \in Seq(Message) /\ Len(<<>>) = 0
    BY EmptySeq
  <2>2. \A s : s = <<>> => s \in Seq(Kinds) /\ s \in Seq(Message) /\ Len(s) = 0
    BY <2>1
  <2>3. 0 <= MaxSent /\ 0 <= QueueDepth /\ 0 <= EventDepth /\ 0 \in Nat
    BY DepthsArePositive DEF DepthsArePositive
  <2> QED
    BY <2>2, <2>3 DEF Init, TypeOK
<1> QED
  BY <1>1, TypeStep, PTL DEF Spec

-----------------------------------------------------------------------------
(* The gate.                                                               *)

(* The high-water mark is above every input frame that was applied.        *)
GateInv ==
  /\ MotionNeverRewinds
  /\ \A i \in DOMAIN applied : IsInput(applied[i]) => applied[i].seq <= highest

LEMMA GateStep == TypeOK /\ GateInv /\ [Next]_vars => GateInv'
<1> SUFFICES ASSUME TypeOK, GateInv, [Next]_vars PROVE GateInv'
  OBVIOUS
<1>1. CASE Handle
  <2> DEFINE m == Head(evq)
             r == Append(applied, m)
             l == Len(applied) + 1
  <2>1. m \in Message /\ applied \in Seq(Message) /\ highest \in Nat
    BY <1>1, TailNumbers DEF Handle, TypeOK
  <2>2. m.seq \in Nat /\ \A i \in DOMAIN applied : applied[i].seq \in Nat
    <3>1. \A i \in DOMAIN applied : applied[i] \in Message
      BY <2>1
    <3> QED
      BY <2>1, <3>1 DEF Message
  <2>3. highest <= highest' /\ (IsInput(m) => m.seq <= highest')
    <3>1. highest' = IF IsInput(m) THEN GateMark(m) ELSE highest
      BY <1>1 DEF Handle
    <3> HIDE DEF m
    <3> QED
      BY <2>1, <2>2, <3>1 DEF GateMark, Superseded
  <2>4. highest' \in Nat
    BY <1>1, <2>1, <2>2 DEF Handle, GateMark
  <2>5. CASE applied' = applied
    BY <2>1, <2>2, <2>3, <2>4, <2>5 DEF GateInv, MotionNeverRewinds
  <2>6. CASE applied' # applied
    <3>1. applied' = r /\ (m.kind = "motion" => highest < m.seq)
      BY <1>1, <2>1, <2>2, <2>6 DEF Handle, GateAccepts, Superseded, Reliable, IsInput
    <3>2. /\ DOMAIN r = DOMAIN applied \union {l} /\ r[l] = m /\ l \notin DOMAIN applied
          /\ \A i \in DOMAIN applied : r[i] = applied[i] /\ i < l
          /\ \A i \in DOMAIN r : i \in Int
      BY <2>1, AppendFacts
    <3> HIDE DEF m, r, l
    <3>3. \A i \in DOMAIN r : IsInput(r[i]) => r[i].seq <= highest'
      BY <2>1, <2>2, <2>3, <2>4, <3>2 DEF GateInv
    <3>4. ASSUME NEW i \in DOMAIN r, NEW j \in DOMAIN r, i < j, IsInput(r[i]),
                 r[j].kind = "motion"
          PROVE  r[i].seq < r[j].seq
      <4>1. i \in DOMAIN applied /\ r[i] = applied[i]
        BY <3>2, <3>4
      <4>2. CASE j = l
        BY <2>1, <2>2, <3>1, <3>2, <3>4, <4>1, <4>2 DEF GateInv
      <4>3. CASE j \in DOMAIN applied
        BY <3>2, <3>4, <4>1, <4>3 DEF GateInv, MotionNeverRewinds
      <4> QED
        BY <3>2, <4>2, <4>3
    <3> QED
      BY <3>1, <3>3, <3>4 DEF GateInv, MotionNeverRewinds
  <2> QED
    BY <2>5, <2>6
<1>2. CASE UNCHANGED <<applied, highest>>
  BY <1>2 DEF GateInv, MotionNeverRewinds
<1> QED
  BY <1>1, <1>2 DEF Next, Transmit, Route, GiveUp, TransmitControl, TransmitReliably,
    TransmitDatagram, LoseDatagram, ReadDatagram, ReadControl, ReadReliableInput, vars

(* A stale position never moves the pointer back, whatever the network     *)
(* and the two streams do.                                                 *)
THEOREM MotionMonotone == Spec => []MotionNeverRewinds
<1>1. Init => GateInv
  BY DEF Init, GateInv, MotionNeverRewinds
<1> QED
  BY <1>1, GateStep, TypeCorrect, PTL DEF Spec, GateInv


-----------------------------------------------------------------------------
(* The streams.                                                            *)

(* A message is still the one that was routed under its number.            *)
Faithful(q, rt) ==
  \A i \in DOMAIN q : q[i].seq \in DOMAIN rt /\ rt[q[i].seq] = q[i].kind

(* Every stage is faithful, and each stream carries what it is for.        *)
StageInv ==
  /\ Faithful(outq, routed) /\ Faithful(control, routed) /\ Faithful(input, routed)
  /\ Faithful(evq, routed) /\ Faithful(applied, routed)
  /\ \A d \in datagrams :
       d.kind = "motion" /\ d.seq \in DOMAIN routed /\ routed[d.seq] = d.kind
  /\ \A i \in DOMAIN control : control[i].kind = "control"
  /\ \A i \in DOMAIN input : input[i].kind # "control"

LEMMA FaithfulAppend ==
  ASSUME NEW q \in Seq(Message), NEW m \in Message, NEW rt,
         Faithful(q, rt), m.seq \in DOMAIN rt, rt[m.seq] = m.kind
  PROVE  Faithful(Append(q, m), rt)
  BY AppendFacts DEF Faithful

LEMMA FaithfulTail ==
  ASSUME NEW q \in Seq(Message), q # <<>>, NEW rt, Faithful(q, rt)
  PROVE  /\ Faithful(Tail(q), rt)
         /\ Head(q) \in Message /\ Head(q).seq \in DOMAIN rt /\ rt[Head(q).seq] = Head(q).kind
<1>1. /\ \A i \in DOMAIN Tail(q) : i + 1 \in DOMAIN q /\ Tail(q)[i] = q[i + 1]
      /\ Head(q) \in Message
  BY TailNumbers
<1>2. 1 \in DOMAIN q /\ Head(q) = q[1]
  BY EmptySeq
<1> QED
  BY <1>1, <1>2 DEF Faithful

LEMMA StageStep == TypeOK /\ StageInv /\ [Next]_vars => StageInv'
<1> SUFFICES ASSUME TypeOK, StageInv, [Next]_vars PROVE StageInv'
  OBVIOUS
<1>t. /\ outq \in Seq(Message) /\ control \in Seq(Message) /\ input \in Seq(Message)
      /\ evq \in Seq(Message) /\ applied \in Seq(Message) /\ datagrams \subseteq Message
      /\ routed \in Seq(Kinds)
  BY DEF TypeOK
<1>s. /\ Faithful(outq, routed) /\ Faithful(control, routed) /\ Faithful(input, routed)
      /\ Faithful(evq, routed) /\ Faithful(applied, routed)
  BY DEF StageInv
<1>1. ASSUME NEW kind \in Kinds, Route(kind) PROVE StageInv'
  <2> DEFINE m == [kind |-> kind, seq |-> Len(routed) + 1]
  <2>1. /\ DOMAIN routed' = DOMAIN routed \union {Len(routed) + 1}
        /\ \A i \in DOMAIN routed : routed'[i] = routed[i]
        /\ routed'[Len(routed) + 1] = kind
    BY <1>1, <1>t DEF Route
  <2>2. \A q : Faithful(q, routed) => Faithful(q, routed')
    BY <2>1 DEF Faithful
  <2>3. m \in Message /\ m.seq \in DOMAIN routed' /\ routed'[m.seq] = m.kind
    BY <1>t, <2>1 DEF Message
  <2>4. outq' = Append(outq, m) \/ outq' = outq
    BY <1>1 DEF Route, Enqueue
  <2> HIDE DEF m
  <2>5. Faithful(outq', routed')
    BY <1>s, <1>t, <2>2, <2>3, <2>4, FaithfulAppend
  <2>6. UNCHANGED <<control, input, datagrams, evq, applied>>
    BY <1>1 DEF Route
  <2> QED
    BY <1>s, <2>1, <2>2, <2>5, <2>6 DEF StageInv
<1>2. ASSUME TransmitControl \/ TransmitReliably \/ TransmitDatagram PROVE StageInv'
  <2>1. outq # <<>> /\ outq' = Tail(outq) /\ UNCHANGED <<routed, evq, applied>>
    BY <1>2 DEF TransmitControl, TransmitReliably, TransmitDatagram
  <2> DEFINE m == Head(outq)
  <2>2. Faithful(Tail(outq), routed) /\ m \in Message /\ m.seq \in DOMAIN routed
        /\ routed[m.seq] = m.kind
    BY <1>s, <1>t, <2>1, FaithfulTail
  <2>3. /\ (m.kind = "control" /\ control' = Append(control, m)) \/ control' = control
        /\ (m.kind # "control" /\ input' = Append(input, m)) \/ input' = input
        /\ (m.kind = "motion" /\ datagrams' = datagrams \union {m}) \/ datagrams' = datagrams
    BY <1>2 DEF TransmitControl, TransmitReliably, TransmitDatagram, IsInput, Reliable
  <2> HIDE DEF m
  <2>4. Faithful(control', routed) /\ \A i \in DOMAIN control' : control'[i].kind = "control"
    <3>1. CASE control' = control
      BY <1>s, <3>1 DEF StageInv
    <3>2. CASE m.kind = "control" /\ control' = Append(control, m)
      <4>1. Faithful(Append(control, m), routed)
        BY <1>s, <1>t, <2>2, FaithfulAppend
      <4>2. /\ DOMAIN Append(control, m) = DOMAIN control \union {Len(control) + 1}
            /\ Append(control, m)[Len(control) + 1] = m
            /\ \A i \in DOMAIN control : Append(control, m)[i] = control[i]
        BY <1>t, <2>2, AppendFacts
      <4>3. \A i \in DOMAIN control : control[i].kind = "control"
        BY DEF StageInv
      <4>4. \A i \in DOMAIN Append(control, m) : Append(control, m)[i].kind = "control"
        BY <3>2, <4>2, <4>3
      <4> QED
        BY <3>2, <4>1, <4>4
    <3> QED
      BY <2>3, <3>1, <3>2
  <2>5. Faithful(input', routed) /\ \A i \in DOMAIN input' : input'[i].kind # "control"
    <3>1. CASE input' = input
      BY <1>s, <3>1 DEF StageInv
    <3>2. CASE m.kind # "control" /\ input' = Append(input, m)
      <4>1. Faithful(Append(input, m), routed)
        BY <1>s, <1>t, <2>2, FaithfulAppend
      <4>2. /\ DOMAIN Append(input, m) = DOMAIN input \union {Len(input) + 1}
            /\ Append(input, m)[Len(input) + 1] = m
            /\ \A i \in DOMAIN input : Append(input, m)[i] = input[i]
        BY <1>t, <2>2, AppendFacts
      <4>3. \A i \in DOMAIN input : input[i].kind # "control"
        BY DEF StageInv
      <4>4. \A i \in DOMAIN Append(input, m) : Append(input, m)[i].kind # "control"
        BY <3>2, <4>2, <4>3
      <4> QED
        BY <3>2, <4>1, <4>4
    <3> QED
      BY <2>3, <3>1, <3>2
  <2> QED
    BY <1>s, <2>1, <2>2, <2>3, <2>4, <2>5 DEF StageInv
<1>3. ASSUME ReadControl PROVE StageInv'
  <2>1. /\ control # <<>> /\ control' = Tail(control) /\ evq' = Append(evq, Head(control))
        /\ UNCHANGED <<routed, outq, input, datagrams, applied>>
    BY <1>3 DEF ReadControl
  <2>2. /\ Faithful(Tail(control), routed) /\ Faithful(Append(evq, Head(control)), routed)
        /\ \A i \in DOMAIN Tail(control) : i + 1 \in DOMAIN control
                                           /\ Tail(control)[i] = control[i + 1]
    BY <1>s, <1>t, <2>1, FaithfulTail, FaithfulAppend, TailNumbers
  <2> QED
    BY <1>s, <2>1, <2>2 DEF StageInv
<1>4. ASSUME ReadReliableInput PROVE StageInv'
  <2>1. /\ input # <<>> /\ input' = Tail(input) /\ evq' = Append(evq, Head(input))
        /\ UNCHANGED <<routed, outq, control, datagrams, applied>>
    BY <1>4 DEF ReadReliableInput
  <2>2. /\ Faithful(Tail(input), routed) /\ Faithful(Append(evq, Head(input)), routed)
        /\ \A i \in DOMAIN Tail(input) : i + 1 \in DOMAIN input /\ Tail(input)[i] = input[i + 1]
    BY <1>s, <1>t, <2>1, FaithfulTail, FaithfulAppend, TailNumbers
  <2> QED
    BY <1>s, <2>1, <2>2 DEF StageInv
<1>5. ASSUME NEW d \in datagrams, LoseDatagram(d) \/ ReadDatagram(d) PROVE StageInv'
  <2>1. /\ datagrams' = datagrams \ {d} /\ UNCHANGED <<routed, outq, control, input, applied>>
        /\ evq' = evq \/ evq' = Append(evq, d)
    BY <1>5 DEF LoseDatagram, ReadDatagram
  <2>2. Faithful(Append(evq, d), routed)
    BY <1>s, <1>t, FaithfulAppend DEF StageInv
  <2> QED
    BY <1>s, <2>1, <2>2 DEF StageInv
<1>6. ASSUME Handle PROVE StageInv'
  <2>1. /\ evq # <<>> /\ evq' = Tail(evq)
        /\ applied' = applied \/ applied' = Append(applied, Head(evq))
        /\ UNCHANGED <<routed, outq, control, input, datagrams>>
    BY <1>6 DEF Handle
  <2>2. Faithful(Tail(evq), routed) /\ Faithful(Append(applied, Head(evq)), routed)
    BY <1>s, <1>t, <2>1, FaithfulTail, FaithfulAppend
  <2> QED
    BY <1>s, <2>1, <2>2 DEF StageInv
<1>7. CASE UNCHANGED <<routed, outq, control, input, datagrams, evq, applied>>
  BY <1>7 DEF StageInv
<1> QED
  BY <1>1, <1>2, <1>3, <1>4, <1>5, <1>6, <1>7 DEF Next, Transmit, GiveUp, vars

-----------------------------------------------------------------------------
(* What latches state is not lost.                                         *)

OnItsWay == Numbers(outq) \union Numbers(control) \union Numbers(input)
            \union Numbers(evq) \union Numbers(applied)

LEMMA SurvivalStep ==
  TypeOK /\ StageInv /\ LatchesSurviveOverflow /\ [Next]_vars => LatchesSurviveOverflow'
<1> SUFFICES ASSUME TypeOK, StageInv, LatchesSurviveOverflow, [Next]_vars, ~condemned',
                    NEW n \in DOMAIN routed', routed'[n] # "motion"
             PROVE  n \in OnItsWay'
  BY DEF LatchesSurviveOverflow, OnItsWay
<1>t. /\ outq \in Seq(Message) /\ control \in Seq(Message) /\ input \in Seq(Message)
      /\ evq \in Seq(Message) /\ applied \in Seq(Message) /\ datagrams \subseteq Message
      /\ routed \in Seq(Kinds)
  BY DEF TypeOK
<1>h. ASSUME ~condemned, n \in DOMAIN routed, routed[n] # "motion" PROVE n \in OnItsWay
  BY <1>h DEF LatchesSurviveOverflow, OnItsWay
<1>1. ASSUME NEW kind \in Kinds, Route(kind) PROVE n \in OnItsWay'
  <2> DEFINE m == [kind |-> kind, seq |-> Len(routed) + 1]
  <2>1. /\ DOMAIN routed' = DOMAIN routed \union {Len(routed) + 1}
        /\ \A i \in DOMAIN routed : routed'[i] = routed[i]
        /\ routed'[Len(routed) + 1] = kind
    BY <1>1, <1>t DEF Route
  <2>2. m \in Message /\ m.seq = Len(routed) + 1 /\ (Reliable(m) <=> kind # "motion")
    BY <1>t DEF Message, Reliable
  <2>3. /\ ~condemned
        /\ outq' = Append(outq, m) \/ (outq' = outq /\ ~Reliable(m))
        /\ UNCHANGED <<control, input, evq, applied>>
    BY <1>1 DEF Route, Enqueue
  <2> HIDE DEF m
  <2>4. Numbers(Append(outq, m)) = Numbers(outq) \union {m.seq}
    BY <1>t, <2>2, AppendNumbers
  <2>5. CASE n \in DOMAIN routed
    BY <1>h, <2>1, <2>3, <2>4, <2>5 DEF OnItsWay
  <2>6. CASE n = Len(routed) + 1
    BY <2>1, <2>2, <2>3, <2>4, <2>6 DEF OnItsWay
  <2> QED
    BY <2>1, <2>5, <2>6
<1>2. ASSUME TransmitControl \/ TransmitReliably \/ TransmitDatagram PROVE n \in OnItsWay'
  <2>1. outq # <<>> /\ outq' = Tail(outq) /\ UNCHANGED <<routed, evq, applied, condemned>>
    BY <1>2 DEF TransmitControl, TransmitReliably, TransmitDatagram
  <2> DEFINE m == Head(outq)
  <2>2. /\ m \in Message /\ routed[m.seq] = m.kind
        /\ Numbers(outq) = {m.seq} \union Numbers(Tail(outq))
    BY <1>t, <2>1, FaithfulTail, TailNumbers DEF StageInv
  <2>3. \/ control' = Append(control, m) /\ input' = input
        \/ input' = Append(input, m) /\ control' = control
        \/ m.kind = "motion" /\ UNCHANGED <<control, input>>
    BY <1>2 DEF TransmitControl, TransmitReliably, TransmitDatagram, Reliable
  <2> HIDE DEF m
  <2>4. /\ Numbers(Append(control, m)) = Numbers(control) \union {m.seq}
        /\ Numbers(Append(input, m)) = Numbers(input) \union {m.seq}
    BY <1>t, <2>2, AppendNumbers
  <2>5. n \in OnItsWay /\ routed[n] # "motion"
    BY <1>h, <2>1
  <2> QED
    BY <2>1, <2>2, <2>3, <2>4, <2>5 DEF OnItsWay
<1>3. ASSUME ReadControl PROVE n \in OnItsWay'
  <2>1. /\ control # <<>> /\ control' = Tail(control) /\ evq' = Append(evq, Head(control))
        /\ UNCHANGED <<routed, outq, input, applied, condemned>>
    BY <1>3 DEF ReadControl
  <2>2. /\ Numbers(control) = {Head(control).seq} \union Numbers(Tail(control))
        /\ Numbers(Append(evq, Head(control))) = Numbers(evq) \union {Head(control).seq}
    BY <1>t, <2>1, TailNumbers, AppendNumbers
  <2>3. n \in OnItsWay
    BY <1>h, <2>1
  <2> QED
    BY <2>1, <2>2, <2>3 DEF OnItsWay
<1>4. ASSUME ReadReliableInput PROVE n \in OnItsWay'
  <2>1. /\ input # <<>> /\ input' = Tail(input) /\ evq' = Append(evq, Head(input))
        /\ UNCHANGED <<routed, outq, control, applied, condemned>>
    BY <1>4 DEF ReadReliableInput
  <2>2. /\ Numbers(input) = {Head(input).seq} \union Numbers(Tail(input))
        /\ Numbers(Append(evq, Head(input))) = Numbers(evq) \union {Head(input).seq}
    BY <1>t, <2>1, TailNumbers, AppendNumbers
  <2>3. n \in OnItsWay
    BY <1>h, <2>1
  <2> QED
    BY <2>1, <2>2, <2>3 DEF OnItsWay
<1>5. ASSUME NEW d \in datagrams, LoseDatagram(d) \/ ReadDatagram(d) PROVE n \in OnItsWay'
  <2>1. /\ UNCHANGED <<routed, outq, control, input, applied, condemned>>
        /\ evq' = evq \/ evq' = Append(evq, d)
    BY <1>5 DEF LoseDatagram, ReadDatagram
  <2>2. Numbers(Append(evq, d)) = Numbers(evq) \union {d.seq}
    BY <1>t, AppendNumbers
  <2>3. n \in OnItsWay
    BY <1>h, <2>1
  <2> QED
    BY <2>1, <2>2, <2>3 DEF OnItsWay
<1>6. ASSUME Handle PROVE n \in OnItsWay'
  <2> DEFINE m == Head(evq)
  <2>1. /\ evq # <<>> /\ evq' = Tail(evq) /\ UNCHANGED <<routed, outq, control, input, condemned>>
        /\ applied' = Append(applied, m) \/ (applied' = applied /\ m.kind = "motion")
    BY <1>6 DEF Handle, GateAccepts, Reliable
  <2>2. /\ m \in Message /\ routed[m.seq] = m.kind
        /\ Numbers(evq) = {m.seq} \union Numbers(Tail(evq))
    BY <1>t, <2>1, FaithfulTail, TailNumbers DEF StageInv
  <2> HIDE DEF m
  <2>3. Numbers(Append(applied, m)) = Numbers(applied) \union {m.seq}
    BY <1>t, <2>2, AppendNumbers
  <2>4. n \in OnItsWay /\ routed[n] # "motion"
    BY <1>h, <2>1
  <2> QED
    BY <2>1, <2>2, <2>3, <2>4 DEF OnItsWay
<1>7. CASE UNCHANGED <<routed, outq, control, input, evq, applied, condemned>>
  <2>1. n \in OnItsWay
    BY <1>7, <1>h
  <2> QED
    BY <1>7, <2>1 DEF OnItsWay
<1> QED
  BY <1>1, <1>2, <1>3, <1>4, <1>5, <1>6, <1>7 DEF Next, Transmit, GiveUp, vars

(* On a session not condemned no message that latches state is lost.       *)
THEOREM LatchesSurvive == Spec => []LatchesSurviveOverflow
<1>1. Init => StageInv /\ LatchesSurviveOverflow
  BY DEF Init, StageInv, Faithful, LatchesSurviveOverflow
<1> QED
  BY <1>1, StageStep, SurvivalStep, TypeCorrect, PTL DEF Spec


-----------------------------------------------------------------------------
(* The order within a stream.                                              *)

Below(A, B) == \A a \in A : \A b \in B : a < b

(* Four stages hold the messages of kind k in the order of their numbers,  *)
(* the first stage the earliest.                                           *)
Ordered(a, e, s, o, k) ==
  /\ Ascending(a, k) /\ Ascending(e, k) /\ Ascending(s, k) /\ Ascending(o, k)
  /\ Below(KindNumbers(a, k), KindNumbers(e, k))
  /\ Below(KindNumbers(a, k), KindNumbers(s, k))
  /\ Below(KindNumbers(a, k), KindNumbers(o, k))
  /\ Below(KindNumbers(e, k), KindNumbers(s, k))
  /\ Below(KindNumbers(e, k), KindNumbers(o, k))
  /\ Below(KindNumbers(s, k), KindNumbers(o, k))

(* Moving the head of one stage to the end of the one before it.           *)
LEMMA MoveHead ==
  ASSUME NEW p \in Seq(Message), NEW q \in Seq(Message), q # <<>>, NEW k,
         Ascending(p, k), Ascending(q, k), Below(KindNumbers(p, k), KindNumbers(q, k))
  PROVE  /\ Ascending(Append(p, Head(q)), k) /\ Ascending(Tail(q), k)
         /\ KindNumbers(Append(p, Head(q)), k) \subseteq KindNumbers(p, k) \union KindNumbers(q, k)
         /\ KindNumbers(Tail(q), k) \subseteq KindNumbers(q, k)
         /\ Below(KindNumbers(Append(p, Head(q)), k), KindNumbers(Tail(q), k))
<1> DEFINE m == Head(q)
<1>1. /\ m \in Message /\ Ascending(Tail(q), k)
      /\ KindNumbers(Tail(q), k) \subseteq KindNumbers(q, k)
      /\ m.kind = k => m.seq \in KindNumbers(q, k)
      /\ m.kind = k => \A a \in KindNumbers(Tail(q), k) : m.seq < a
  BY TailNumbers
<1> HIDE DEF m
<1>2. m.kind = k => \A a \in KindNumbers(p, k) : a < m.seq
  BY <1>1 DEF Below
<1>3. /\ KindNumbers(Append(p, m), k)
           = KindNumbers(p, k) \union (IF m.kind = k THEN {m.seq} ELSE {})
      /\ Ascending(Append(p, m), k)
  BY <1>1, <1>2, AppendNumbers
<1> QED
  BY <1>1, <1>3 DEF Below, m

(* What the actions do to the stages of one stream.                        *)
LEMMA OrderedMoves ==
  ASSUME NEW a \in Seq(Message), NEW e \in Seq(Message), NEW s \in Seq(Message),
         NEW o \in Seq(Message), NEW k, Ordered(a, e, s, o, k)
  PROVE  /\ o # <<>> => Ordered(a, e, Append(s, Head(o)), Tail(o), k)
         /\ s # <<>> => Ordered(a, Append(e, Head(s)), Tail(s), o, k)
         /\ e # <<>> => Ordered(Append(a, Head(e)), Tail(e), s, o, k)
         /\ o # <<>> => Ordered(a, e, s, Tail(o), k)
         /\ e # <<>> => Ordered(a, Tail(e), s, o, k)
         /\ \A m \in Message : m.kind # k => Ordered(a, Append(e, m), s, o, k)
         /\ \A m \in Message :
              (m.kind = k => \A x \in KindNumbers(a, k) \union KindNumbers(e, k)
                                 \union KindNumbers(s, k) \union KindNumbers(o, k) : x < m.seq)
              => Ordered(a, e, s, Append(o, m), k)
<1>1. ASSUME o # <<>> PROVE Ordered(a, e, Append(s, Head(o)), Tail(o), k)
  <2>1. Ascending(s, k) /\ Ascending(o, k) /\ Below(KindNumbers(s, k), KindNumbers(o, k))
    BY DEF Ordered
  <2>2. /\ Ascending(Append(s, Head(o)), k) /\ Ascending(Tail(o), k)
        /\ KindNumbers(Append(s, Head(o)), k) \subseteq KindNumbers(s, k) \union KindNumbers(o, k)
        /\ KindNumbers(Tail(o), k) \subseteq KindNumbers(o, k)
        /\ Below(KindNumbers(Append(s, Head(o)), k), KindNumbers(Tail(o), k))
    BY <1>1, <2>1, MoveHead
  <2> QED
    BY <2>2 DEF Ordered, Below
<1>2. ASSUME s # <<>> PROVE Ordered(a, Append(e, Head(s)), Tail(s), o, k)
  <2>1. Ascending(e, k) /\ Ascending(s, k) /\ Below(KindNumbers(e, k), KindNumbers(s, k))
    BY DEF Ordered
  <2>2. /\ Ascending(Append(e, Head(s)), k) /\ Ascending(Tail(s), k)
        /\ KindNumbers(Append(e, Head(s)), k) \subseteq KindNumbers(e, k) \union KindNumbers(s, k)
        /\ KindNumbers(Tail(s), k) \subseteq KindNumbers(s, k)
        /\ Below(KindNumbers(Append(e, Head(s)), k), KindNumbers(Tail(s), k))
    BY <1>2, <2>1, MoveHead
  <2> QED
    BY <2>2 DEF Ordered, Below
<1>3. ASSUME e # <<>> PROVE Ordered(Append(a, Head(e)), Tail(e), s, o, k)
  <2>1. Ascending(a, k) /\ Ascending(e, k) /\ Below(KindNumbers(a, k), KindNumbers(e, k))
    BY DEF Ordered
  <2>2. /\ Ascending(Append(a, Head(e)), k) /\ Ascending(Tail(e), k)
        /\ KindNumbers(Append(a, Head(e)), k) \subseteq KindNumbers(a, k) \union KindNumbers(e, k)
        /\ KindNumbers(Tail(e), k) \subseteq KindNumbers(e, k)
        /\ Below(KindNumbers(Append(a, Head(e)), k), KindNumbers(Tail(e), k))
    BY <1>3, <2>1, MoveHead
  <2> QED
    BY <2>2 DEF Ordered, Below
<1>4. ASSUME o # <<>> PROVE Ordered(a, e, s, Tail(o), k)
  BY <1>4, TailNumbers DEF Ordered, Below
<1>5. ASSUME e # <<>> PROVE Ordered(a, Tail(e), s, o, k)
  BY <1>5, TailNumbers DEF Ordered, Below
<1>6. ASSUME NEW m \in Message, m.kind # k PROVE Ordered(a, Append(e, m), s, o, k)
  <2>1. /\ KindNumbers(Append(e, m), k)
             = KindNumbers(e, k) \union (IF m.kind = k THEN {m.seq} ELSE {})
        /\ Ascending(e, k) => Ascending(Append(e, m), k)
    BY <1>6, AppendNumbers
  <2> QED
    BY <1>6, <2>1 DEF Ordered
<1>7. ASSUME NEW m \in Message,
             m.kind = k => \A x \in KindNumbers(a, k) \union KindNumbers(e, k)
                               \union KindNumbers(s, k) \union KindNumbers(o, k) : x < m.seq
      PROVE  Ordered(a, e, s, Append(o, m), k)
  <2>1. /\ KindNumbers(Append(o, m), k)
             = KindNumbers(o, k) \union (IF m.kind = k THEN {m.seq} ELSE {})
        /\ Ascending(Append(o, m), k)
    BY <1>7, AppendNumbers DEF Ordered
  <2> QED
    BY <1>7, <2>1 DEF Ordered, Below
<1> QED
  BY <1>1, <1>2, <1>3, <1>4, <1>5, <1>6, <1>7

(* The latching input frames and the control messages, each in order.      *)
OrderInv ==
  /\ Ordered(applied, evq, input, outq, "latch")
  /\ Ordered(applied, evq, control, outq, "control")

(* A stage holds only numbers already routed.                              *)
LEMMA NumbersRouted ==
  ASSUME TypeOK, StageInv, NEW k
  PROVE  \A x \in KindNumbers(applied, k) \union KindNumbers(evq, k) \union KindNumbers(control, k)
                    \union KindNumbers(input, k) \union KindNumbers(outq, k) : x < Len(routed) + 1
<1>1. \A n \in DOMAIN routed : n < Len(routed) + 1
  BY DEF TypeOK
<1> QED
  BY <1>1 DEF StageInv, Faithful, KindNumbers

LEMMA OrderStep == TypeOK /\ StageInv /\ OrderInv /\ [Next]_vars => OrderInv'
<1> SUFFICES ASSUME TypeOK, StageInv, OrderInv, [Next]_vars PROVE OrderInv'
  OBVIOUS
<1>t. /\ outq \in Seq(Message) /\ control \in Seq(Message) /\ input \in Seq(Message)
      /\ evq \in Seq(Message) /\ applied \in Seq(Message) /\ datagrams \subseteq Message
      /\ routed \in Seq(Kinds)
  BY DEF TypeOK
<1>l. Ordered(applied, evq, input, outq, "latch")
  BY DEF OrderInv
<1>c. Ordered(applied, evq, control, outq, "control")
  BY DEF OrderInv
<1>1. ASSUME NEW kind \in Kinds, Route(kind) PROVE OrderInv'
  <2> DEFINE m == [kind |-> kind, seq |-> Len(routed) + 1]
  <2>1. m \in Message /\ m.seq = Len(routed) + 1
    BY <1>t DEF Message
  <2>2. /\ outq' = Append(outq, m) \/ outq' = outq
        /\ UNCHANGED <<applied, evq, control, input>>
    BY <1>1 DEF Route, Enqueue
  <2> HIDE DEF m
  <2>3. Ordered(applied, evq, input, Append(outq, m), "latch")
    BY <1>l, <1>t, <2>1, NumbersRouted, OrderedMoves
  <2>4. Ordered(applied, evq, control, Append(outq, m), "control")
    BY <1>c, <1>t, <2>1, NumbersRouted, OrderedMoves
  <2> QED
    BY <2>2, <2>3, <2>4 DEF OrderInv
<1>2. ASSUME TransmitControl PROVE OrderInv'
  <2>1. /\ outq # <<>> /\ outq' = Tail(outq) /\ control' = Append(control, Head(outq))
        /\ UNCHANGED <<applied, evq, input>>
    BY <1>2 DEF TransmitControl
  <2>2. Ordered(applied, evq, input, Tail(outq), "latch")
    BY <1>l, <1>t, <2>1, OrderedMoves
  <2>3. Ordered(applied, evq, Append(control, Head(outq)), Tail(outq), "control")
    BY <1>c, <1>t, <2>1, OrderedMoves
  <2> QED
    BY <2>1, <2>2, <2>3 DEF OrderInv
<1>3. ASSUME TransmitReliably PROVE OrderInv'
  <2>1. /\ outq # <<>> /\ outq' = Tail(outq) /\ input' = Append(input, Head(outq))
        /\ UNCHANGED <<applied, evq, control>>
    BY <1>3 DEF TransmitReliably
  <2>2. Ordered(applied, evq, Append(input, Head(outq)), Tail(outq), "latch")
    BY <1>l, <1>t, <2>1, OrderedMoves
  <2>3. Ordered(applied, evq, control, Tail(outq), "control")
    BY <1>c, <1>t, <2>1, OrderedMoves
  <2> QED
    BY <2>1, <2>2, <2>3 DEF OrderInv
<1>4. ASSUME TransmitDatagram PROVE OrderInv'
  <2>1. outq # <<>> /\ outq' = Tail(outq) /\ UNCHANGED <<applied, evq, input, control>>
    BY <1>4 DEF TransmitDatagram
  <2>2. Ordered(applied, evq, input, Tail(outq), "latch")
    BY <1>l, <1>t, <2>1, OrderedMoves
  <2>3. Ordered(applied, evq, control, Tail(outq), "control")
    BY <1>c, <1>t, <2>1, OrderedMoves
  <2> QED
    BY <2>1, <2>2, <2>3 DEF OrderInv
<1>5. ASSUME ReadControl PROVE OrderInv'
  <2>1. /\ control # <<>> /\ control' = Tail(control) /\ evq' = Append(evq, Head(control))
        /\ UNCHANGED <<applied, input, outq>>
    BY <1>5 DEF ReadControl
  <2>2. Head(control) \in Message /\ Head(control).kind = "control"
    <3>1. 1 \in DOMAIN control /\ Head(control) = control[1]
      BY <1>t, <2>1, EmptySeq
    <3> QED
      BY <1>t, <2>1, <3>1, TailNumbers DEF StageInv
  <2>3. Ordered(applied, Append(evq, Head(control)), input, outq, "latch")
    BY <1>l, <1>t, <2>2, OrderedMoves
  <2>4. Ordered(applied, Append(evq, Head(control)), Tail(control), outq, "control")
    BY <1>c, <1>t, <2>1, OrderedMoves
  <2> QED
    BY <2>1, <2>3, <2>4 DEF OrderInv
<1>6. ASSUME ReadReliableInput PROVE OrderInv'
  <2>1. /\ input # <<>> /\ input' = Tail(input) /\ evq' = Append(evq, Head(input))
        /\ UNCHANGED <<applied, control, outq>>
    BY <1>6 DEF ReadReliableInput
  <2>2. Head(input) \in Message /\ Head(input).kind # "control"
    <3>1. 1 \in DOMAIN input /\ Head(input) = input[1]
      BY <1>t, <2>1, EmptySeq
    <3> QED
      BY <1>t, <2>1, <3>1, TailNumbers DEF StageInv
  <2>3. Ordered(applied, Append(evq, Head(input)), Tail(input), outq, "latch")
    BY <1>l, <1>t, <2>1, OrderedMoves
  <2>4. Ordered(applied, Append(evq, Head(input)), control, outq, "control")
    BY <1>c, <1>t, <2>2, OrderedMoves
  <2> QED
    BY <2>1, <2>3, <2>4 DEF OrderInv
<1>7. ASSUME NEW d \in datagrams, LoseDatagram(d) \/ ReadDatagram(d) PROVE OrderInv'
  <2>1. /\ UNCHANGED <<applied, input, control, outq>>
        /\ evq' = evq \/ evq' = Append(evq, d)
    BY <1>7 DEF LoseDatagram, ReadDatagram
  <2>2. d \in Message /\ d.kind = "motion"
    BY <1>t DEF StageInv
  <2>3. Ordered(applied, Append(evq, d), input, outq, "latch")
    BY <1>l, <1>t, <2>2, OrderedMoves
  <2>4. Ordered(applied, Append(evq, d), control, outq, "control")
    BY <1>c, <1>t, <2>2, OrderedMoves
  <2> QED
    BY <2>1, <2>3, <2>4 DEF OrderInv
<1>8. ASSUME Handle PROVE OrderInv'
  <2>1. /\ evq # <<>> /\ evq' = Tail(evq) /\ UNCHANGED <<outq, control, input>>
        /\ applied' = applied \/ applied' = Append(applied, Head(evq))
    BY <1>8 DEF Handle
  <2>2. /\ Ordered(Append(applied, Head(evq)), Tail(evq), input, outq, "latch")
        /\ Ordered(applied, Tail(evq), input, outq, "latch")
    BY <1>l, <1>t, <2>1, OrderedMoves
  <2>3. /\ Ordered(Append(applied, Head(evq)), Tail(evq), control, outq, "control")
        /\ Ordered(applied, Tail(evq), control, outq, "control")
    BY <1>c, <1>t, <2>1, OrderedMoves
  <2> QED
    BY <2>1, <2>2, <2>3 DEF OrderInv
<1>9. CASE UNCHANGED <<applied, evq, input, control, outq>>
  BY <1>9 DEF OrderInv
<1> QED
  BY <1>1, <1>2, <1>3, <1>4, <1>5, <1>6, <1>7, <1>8, <1>9 DEF Next, Transmit, GiveUp, vars

(* Nothing overtakes within a stream, and nothing is applied twice.        *)
THEOREM StreamsOrdered == Spec => []EachStreamKeepsItsOrder
<1>1. Init => StageInv /\ OrderInv
  BY DEF Init, StageInv, Faithful, OrderInv, Ordered, Ascending, Below, KindNumbers
<1>2. TypeOK /\ OrderInv => EachStreamKeepsItsOrder
  <2> SUFFICES ASSUME TypeOK, OrderInv, NEW i \in DOMAIN applied, NEW j \in DOMAIN applied,
                      i < j, Reliable(applied[i]), applied[i].kind = applied[j].kind
               PROVE  applied[i].seq < applied[j].seq
    BY DEF EachStreamKeepsItsOrder
  <2>1. applied[i].kind \in {"latch", "control"}
    <3>1. applied[i] \in Message
      BY DEF TypeOK
    <3> QED
      BY <3>1 DEF Message, Kinds, Reliable
  <2> QED
    BY <2>1 DEF OrderInv, Ordered, Ascending
<1> QED
  BY <1>1, <1>2, StageStep, OrderStep, TypeCorrect, PTL DEF Spec

=============================================================================

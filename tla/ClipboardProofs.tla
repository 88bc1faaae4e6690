--------------------------- MODULE ClipboardProofs ---------------------------
(***************************************************************************)
(* Theorems about Clipboard, for any formats, shapes of copies, depths of  *)
(* the queues and numbers of copies and mishaps, and whichever machines'   *)
(* clipboards are a portal's.                                              *)
(***************************************************************************)
EXTENDS Clipboard, FiniteSetTheorems, NaturalsInduction, SequenceTheorems, TLAPS

LEMMA OtherMachine ==
  ASSUME NEW n \in Machine
  PROVE  /\ Peer(n) \in Machine /\ Peer(n) # n
         /\ \A m \in Machine : m # n => m = Peer(n)
         /\ Peer(Peer(n)) = n
<1>1. Cardinality(Machine \ {n}) = 1 /\ IsFiniteSet(Machine \ {n})
  BY ClipboardAssumption, FS_RemoveElement
<1>2. PICK p : Machine \ {n} = {p}
  BY <1>1, FS_Singleton
<1>3. Peer(n) \in Machine /\ Peer(n) # n
  BY <1>2 DEF Peer
<1>4. \A m \in Machine : m # n => m = Peer(n)
  BY <1>2, <1>3
<1>5. Peer(Peer(n)) \in Machine /\ Peer(Peer(n)) # Peer(n)
  BY <1>2, <1>3 DEF Peer
<1> QED
  BY <1>3, <1>4, <1>5

-----------------------------------------------------------------------------
(* Types, in the form the steps preserve.                                  *)

Contents == [kind : {"bytes"}, copy : 0 .. MaxCopies, format : Format]

Arms == {Nothing} \union [kind : {"armed"}, serial : Nat, format : Format]

Jobs ==
  [kind : {"poll"}, seen : SUBSET Nat, armed : Arms]
    \union [kind : {"serve"}, serial : Nat, format : Format]
    \union [kind : {"accept"}, bytes : Contents]

Works ==
  {Nothing}
    \union [kind : {"sampled"}, serial : Nat, armed : Arms]
    \union [kind : {"writing"}, bytes : Contents]
    \union [kind : {"written", "dead"}]

Dones ==
  [kind : {"nothing_new"}, armed : Arms]
    \union [kind : {"polled"}, serial : Nat, formats : SUBSET Format, armed : Arms, digest : BytesOf]
    \union [kind : {"served"}, format : Format, serial : Nat, bytes : BytesOf]
    \union [kind : {"writing"}, bytes : Contents]
    \union [kind : {"wrote"}, serial : Nat]
    \union [kind : {"not_written", "discarded", "worker_gone"}]

Messages ==
  [kind : {"offer"}, formats : SUBSET Format, serial : Nat]
    \union [kind : {"request"}, serial : Nat, format : Format]
    \union [kind : {"data"}, format : Format, serial : Nat, bytes : Contents]
    \union [kind : {"stale"}, serial : Nat]

BoardTypes ==
  /\ selection \in [Machine -> [copy : 0 .. MaxCopies, formats : SUBSET Format, agent : BOOLEAN]]
  /\ signals \in [Machine -> Seq([formats : SUBSET Format, ours : BOOLEAN])]
  /\ serial \in [Machine -> Nat]
  /\ offered \in [Machine -> SUBSET Format]
  /\ ours \in [Machine -> BOOLEAN]
  /\ staged \in [Machine -> BytesOf]
  /\ borrowed \in [Machine -> SUBSET Nat]
  /\ copiedAt \in [Machine -> Nat]
  /\ disturbed \in [Machine -> BOOLEAN]

WorkerTypes ==
  /\ jobs \in [Machine -> Seq(Jobs)]
  /\ \A n \in Machine : Len(jobs[n]) <= JobDepth
  /\ work \in [Machine -> Works]
  /\ reports \in [Machine -> Seq(Dones)]

SyncTypes ==
  /\ seen \in [Machine -> {Nothing} \union [kind : {"seen"}, serial : Nat, formats : SUBSET Format]]
  /\ writeBack \in [Machine -> {Nothing} \union [kind : {"guard"}, serial : Nat, bytes : Contents]]
  /\ asked \in [Machine -> {Nothing} \union [kind : {"asked"}, serial : Nat, format : Format]]
  /\ polling \in [Machine -> BOOLEAN]
  /\ writes \in [Machine -> Nat]
  /\ lost \in [Machine -> BOOLEAN]

LinkTypes ==
  /\ mail \in [Machine -> Seq(Messages)]
  /\ \A n \in Machine : Len(mail[n]) <= QueueDepth
  /\ joined \in [Machine -> BOOLEAN]
  /\ linked \in BOOLEAN
  /\ unanswered \in [Machine -> BOOLEAN]

Bounds == copies \in 0 .. MaxCopies /\ mishaps \in 0 .. MaxMishaps

Types == BoardTypes /\ WorkerTypes /\ SyncTypes /\ LinkTypes /\ Bounds

-----------------------------------------------------------------------------
(* What is with the worker.                                                *)

PollDones == {"nothing_new", "polled"}
WriteEnds == {"wrote", "not_written", "discarded"}
WriteDones == {"writing", "wrote", "not_written"}
Ordered == PollDones \union WriteDones \union WriteEnds

(* Nothing of a write or of another poll is ahead of a poll, at whichever  *)
(* of its three stations it is.                                            *)
PollsGoFirst(queue, doing, done) ==
  /\ \A i \in Kinds(done, PollDones) : \A j \in Kinds(done, Ordered) : i <= j
  /\ doing.kind = "sampled" => Kinds(done, Ordered) = {}
  /\ Kinds(queue, {"poll"}) # {} =>
       Kinds(done, Ordered) = {} /\ doing.kind \notin {"sampled", "writing", "written"}
  /\ \A i \in Kinds(queue, {"poll"}) : \A j \in Kinds(queue, {"poll", "accept"}) : i <= j

(* A write that was announced is under way, or its end is reported after.  *)
WritesEnd(doing, done) ==
  \A i \in Kinds(done, {"writing"}) :
    \/ doing.kind \in {"writing", "written", "dead"}
    \/ \E k \in Kinds(done, WriteEnds) : i < k

Current(armed, queue, doing, done) ==
  /\ \A i \in Kinds(queue, {"poll"}) : queue[i].armed = armed
  /\ doing.kind = "sampled" => doing.armed = armed
  /\ \A i \in Kinds(done, PollDones) : done[i].armed = armed

(* A poll report that waits while a write is under way has the writing     *)
(* announced behind it.                                                    *)
PollsBeforeWrites(doing, done) ==
  \A j \in Kinds(done, PollDones) :
    doing.kind \in {"writing", "written"} => \E k \in Kinds(done, {"writing"}) : j < k

Passes(queue, doing, done) ==
  PollsGoFirst(queue, doing, done) /\ WritesEnd(doing, done) /\ PollsBeforeWrites(doing, done)

LostIsDead(n) == lost[n] \/ Kinds(reports[n], {"worker_gone"}) # {} => work[n].kind = "dead"

Accounted(n) ==
  \/ /\ work[n].kind # "dead"
     /\ PollsWithWorker(n) = IF polling[n] THEN 1 ELSE 0
     /\ WritesWithWorker(n) = writes[n]
  \/ Kinds(reports[n], {"worker_gone"}) # {}
  \/ lost[n] /\ ~polling[n] /\ writes[n] = 0

WorkerInv(n) ==
  /\ Passes(jobs[n], work[n], reports[n])
  /\ Current(Armed(n), jobs[n], work[n], reports[n])
  /\ LostIsDead(n) /\ Accounted(n)

AskedOfPeer(n) == asked[n] # Nothing => joined[n]

-----------------------------------------------------------------------------
(* Queues: what is of some kind in one, once something is put at its end   *)
(* or taken from its head.                                                 *)

LEMMA Places ==
  ASSUME NEW S, NEW q \in Seq(S), NEW K
  PROVE  /\ Kinds(q, K) \subseteq 1 .. Len(q) /\ DOMAIN q = 1 .. Len(q)
         /\ IsFiniteSet(Kinds(q, K)) /\ Cardinality(Kinds(q, K)) \in Nat
<1>1. Kinds(q, K) \subseteq 1 .. Len(q) /\ DOMAIN q = 1 .. Len(q)
  BY DEF Kinds
<1>2. IsFiniteSet(1 .. Len(q))
  BY FS_Interval
<1>3. IsFiniteSet(Kinds(q, K))
  BY <1>1, <1>2, FS_Subset
<1> QED
  BY <1>1, <1>3, FS_CardinalityType

LEMMA Appended ==
  ASSUME NEW S, NEW q \in Seq(S), NEW e \in S, NEW K
  PROVE  /\ Kinds(Append(q, e), K) = Kinds(q, K) \union (IF e.kind \in K THEN {Len(q) + 1} ELSE {})
         /\ \A i \in DOMAIN q : Append(q, e)[i] = q[i]
         /\ \A i \in Kinds(q, K) : Append(q, e)[i] = q[i] /\ i < Len(q) + 1
         /\ Append(q, e)[Len(q) + 1] = e
         /\ DOMAIN Append(q, e) = 1 .. Len(q) + 1 /\ DOMAIN q = 1 .. Len(q)
<1> DEFINE p == Append(q, e)
<1>1. /\ p \in Seq(S) /\ Len(p) = Len(q) + 1
      /\ \A i \in 1 .. Len(q) : p[i] = q[i]
      /\ p[Len(q) + 1] = e
  BY AppendProperties
<1>2. DOMAIN p = 1 .. Len(q) + 1 /\ DOMAIN q = 1 .. Len(q) /\ Len(q) \in Nat
  BY <1>1, LenProperties
<1> HIDE DEF p
<1>3. Kinds(p, K) = Kinds(q, K) \union (IF e.kind \in K THEN {Len(q) + 1} ELSE {})
  <2>1. ASSUME NEW i \in 1 .. Len(q) PROVE i \in Kinds(p, K) <=> i \in Kinds(q, K)
    BY <1>1, <1>2 DEF Kinds
  <2>2. Len(q) + 1 \in Kinds(p, K) <=> e.kind \in K
    BY <1>1, <1>2 DEF Kinds
  <2>3. Kinds(p, K) \subseteq 1 .. Len(q) + 1 /\ Kinds(q, K) \subseteq 1 .. Len(q)
    BY <1>2 DEF Kinds
  <2> QED
    BY <2>1, <2>2, <2>3, <1>2
<1>4. \A i \in Kinds(q, K) : p[i] = q[i] /\ i < Len(q) + 1
  BY <1>1, <1>2 DEF Kinds
<1> QED
  BY <1>1, <1>2, <1>3, <1>4 DEF p

LEMMA AppendedKinds ==
  ASSUME NEW S, NEW q \in Seq(S), NEW e \in S
  PROVE  \A K : /\ e.kind \in K => Kinds(Append(q, e), K) = Kinds(q, K) \union {Len(q) + 1}
                /\ e.kind \notin K => Kinds(Append(q, e), K) = Kinds(q, K)
<1> SUFFICES ASSUME NEW K
             PROVE  /\ e.kind \in K => Kinds(Append(q, e), K) = Kinds(q, K) \union {Len(q) + 1}
                    /\ e.kind \notin K => Kinds(Append(q, e), K) = Kinds(q, K)
  OBVIOUS
<1>1. Kinds(Append(q, e), K) = Kinds(q, K) \union (IF e.kind \in K THEN {Len(q) + 1} ELSE {})
  BY Appended
<1> QED
  BY <1>1

LEMMA CountAppended ==
  ASSUME NEW S, NEW q \in Seq(S), NEW e \in S, NEW K
  PROVE  Cardinality(Kinds(Append(q, e), K)) = Cardinality(Kinds(q, K)) + (IF e.kind \in K THEN 1 ELSE 0)
<1>1. IsFiniteSet(Kinds(q, K)) /\ Len(q) + 1 \notin Kinds(q, K) /\ Cardinality(Kinds(q, K)) \in Nat
  <2>1. Len(q) \in Nat
    OBVIOUS
  <2> QED
    BY Places, <2>1
<1>2. Kinds(Append(q, e), K) = Kinds(q, K) \union (IF e.kind \in K THEN {Len(q) + 1} ELSE {})
  BY Appended
<1>3. CASE e.kind \in K
  BY <1>1, <1>2, <1>3, FS_AddElement
<1>4. CASE e.kind \notin K
  <2>1. Kinds(Append(q, e), K) = Kinds(q, K)
    BY <1>2, <1>4
  <2> QED
    BY <2>1, <1>1, <1>4
<1> QED
  BY <1>3, <1>4

LEMMA Taken ==
  ASSUME NEW S, NEW q \in Seq(S), q # <<>>, NEW K
  PROVE  /\ \A i \in Kinds(Tail(q), K) : i + 1 \in Kinds(q, K) /\ Tail(q)[i] = q[i + 1] /\ i \in Nat \ {0}
         /\ \A i \in Kinds(q, K) : i # 1 => i - 1 \in Kinds(Tail(q), K) /\ Tail(q)[i - 1] = q[i] /\ i - 1 \in Nat \ {0}
         /\ 1 \in Kinds(q, K) <=> Head(q).kind \in K
         /\ q[1] = Head(q) /\ 1 \in DOMAIN q
         /\ \A i \in DOMAIN Tail(q) : i + 1 \in DOMAIN q /\ Tail(q)[i] = q[i + 1] /\ i \in Nat \ {0}
<1> DEFINE t == Tail(q)
<1>1. /\ t \in Seq(S) /\ Len(t) = Len(q) - 1
      /\ \A i \in 1 .. Len(t) : t[i] = q[i + 1]
  BY HeadTailProperties
<1>2. /\ DOMAIN t = 1 .. Len(t) /\ DOMAIN q = 1 .. Len(q) /\ Len(q) \in Nat \ {0} /\ Len(t) \in Nat
      /\ q[1] = Head(q)
  BY <1>1, LenProperties, EmptySeq
<1> HIDE DEF t
<1>3. \A i \in Kinds(t, K) : i + 1 \in Kinds(q, K) /\ t[i] = q[i + 1] /\ i \in Nat \ {0}
  BY <1>1, <1>2 DEF Kinds
<1>4. \A i \in Kinds(q, K) : i # 1 => i - 1 \in Kinds(t, K) /\ t[i - 1] = q[i] /\ i - 1 \in Nat \ {0}
  <2> SUFFICES ASSUME NEW i \in Kinds(q, K), i # 1
               PROVE  i - 1 \in Kinds(t, K) /\ t[i - 1] = q[i] /\ i - 1 \in Nat \ {0}
    OBVIOUS
  <2>1. i \in 1 .. Len(q) /\ q[i].kind \in K
    BY <1>2 DEF Kinds
  <2>2. i - 1 \in 1 .. Len(t) /\ (i - 1) + 1 = i
    BY <2>1, <1>1, <1>2
  <2>3. t[i - 1] = q[i]
    BY <2>2, <1>1
  <2> QED
    BY <2>1, <2>2, <2>3, <1>2 DEF Kinds
<1>5. 1 \in Kinds(q, K) <=> Head(q).kind \in K
  BY <1>2 DEF Kinds
<1>6. 1 \in DOMAIN q
  BY <1>2
<1>7. \A i \in DOMAIN t : i + 1 \in DOMAIN q /\ t[i] = q[i + 1] /\ i \in Nat \ {0}
  BY <1>1, <1>2
<1> QED
  BY <1>2, <1>3, <1>4, <1>5, <1>6, <1>7 DEF t

LEMMA CountTaken ==
  ASSUME NEW S, NEW q \in Seq(S), q # <<>>, NEW K
  PROVE  Cardinality(Kinds(q, K)) = Cardinality(Kinds(Tail(q), K)) + (IF Head(q).kind \in K THEN 1 ELSE 0)
<1> DEFINE from == Kinds(Tail(q), K)
           to == Kinds(q, K) \ {1}
           f == [i \in from |-> i + 1]
<1>1. /\ \A i \in from : i + 1 \in to /\ i \in Nat \ {0}
      /\ \A i \in to : i - 1 \in from /\ i - 1 \in Nat \ {0} /\ i \in Nat
  <2>1. \A i \in from : i + 1 \in Kinds(q, K) /\ i \in Nat \ {0}
    BY Taken
  <2>2. \A i \in Kinds(q, K) : i # 1 => i - 1 \in from /\ i - 1 \in Nat \ {0}
    BY Taken
  <2>3. Kinds(q, K) \subseteq Nat
    BY Places
  <2> HIDE DEF from
  <2> QED
    BY <2>1, <2>2, <2>3
<1>2. f \in Bijection(from, to)
  <2> HIDE DEF from, to
  <2>1. f \in [from -> to]
    BY <1>1
  <2>2. \A i, j \in from : f[i] = f[j] => i = j
    BY <1>1
  <2>3. \A k \in to : \E i \in from : f[i] = k
    <3> SUFFICES ASSUME NEW k \in to PROVE \E i \in from : f[i] = k
      OBVIOUS
    <3>1. k - 1 \in from /\ (k - 1) + 1 = k
      BY <1>1
    <3>2. f[k - 1] = k
      BY <3>1
    <3> QED
      BY <3>1, <3>2
  <2> HIDE DEF f
  <2> QED
    BY <2>1, <2>2, <2>3 DEF Bijection, Injection, Surjection, IsInjective
<1>3. Tail(q) \in Seq(S)
  BY HeadTailProperties
<1>4. /\ IsFiniteSet(from) /\ Cardinality(from) \in Nat
      /\ IsFiniteSet(Kinds(q, K)) /\ Cardinality(Kinds(q, K)) \in Nat
  BY <1>3, Places
<1>5. ExistsBijection(from, to)
  BY <1>2 DEF ExistsBijection
<1>6. Cardinality(to) = Cardinality(from)
  BY <1>4, <1>5, FS_Bijection
<1>7. Cardinality(to) = IF 1 \in Kinds(q, K) THEN Cardinality(Kinds(q, K)) - 1 ELSE Cardinality(Kinds(q, K))
  BY <1>4, FS_RemoveElement
<1>8. 1 \in Kinds(q, K) <=> Head(q).kind \in K
  BY Taken
<1> HIDE DEF to
<1> QED
  BY <1>4, <1>6, <1>7, <1>8

-----------------------------------------------------------------------------
(* What the kinds of a queue's elements say of them.                       *)

LEMMA JobParts ==
  ASSUME NEW j \in Jobs
  PROVE  /\ j.kind \in {"poll", "serve", "accept"}
         /\ j.kind = "poll" => j.seen \in SUBSET Nat /\ j.armed \in Arms
         /\ j.kind = "serve" => j.serial \in Nat /\ j.format \in Format
         /\ j.kind = "accept" => j.bytes \in Contents
BY DEF Jobs

LEMMA WorkParts ==
  ASSUME NEW w \in Works
  PROVE  /\ w.kind \in {"nothing", "sampled", "writing", "written", "dead"}
         /\ w = Nothing <=> w.kind = "nothing"
         /\ w.kind = "sampled" => w.serial \in Nat /\ w.armed \in Arms
         /\ w.kind = "writing" => w.bytes \in Contents
BY DEF Works, Nothing

LEMMA DoneParts ==
  ASSUME NEW d \in Dones
  PROVE  /\ d.kind \in {"nothing_new", "polled", "served", "writing", "wrote", "not_written", "discarded", "worker_gone"}
         /\ d.kind = "polled" => d.serial \in Nat /\ d.formats \in SUBSET Format
         /\ d.kind = "served" => d.format \in Format /\ d.serial \in Nat /\ d.bytes \in BytesOf
         /\ d.kind = "writing" => d.bytes \in Contents
         /\ d.kind = "wrote" => d.serial \in Nat /\ d = [kind |-> "wrote", serial |-> d.serial]
BY DEF Dones

LEMMA MessageParts ==
  ASSUME NEW e \in Messages
  PROVE  /\ e.kind \in {"offer", "request", "data", "stale"}
         /\ e.kind = "offer" => e.formats \in SUBSET Format /\ e.serial \in Nat
         /\ e.kind = "request" => e.serial \in Nat /\ e.format \in Format
         /\ e.kind = "data" => e.serial \in Nat /\ e.format \in Format /\ e.bytes \in Contents
         /\ e.kind = "stale" => e.serial \in Nat
BY DEF Messages

LEMMA BytesParts == \A b : b \in BytesOf <=> b = Nothing \/ b \in Contents
BY DEF BytesOf, Contents

LEMMA ContentParts ==
  ASSUME NEW b \in Contents
  PROVE  b # Nothing /\ b \in BytesOf /\ b.copy \in 0 .. MaxCopies /\ b.format \in Format
BY DEF Contents, Nothing, BytesOf

(* A set of formats that is not empty has a richest one.                   *)
LEMMA RichestIsOne ==
  ASSUME NEW formats \in SUBSET Format, formats # {}
  PROVE  Richest(formats) \in formats
<1>1. formats \subseteq Nat
  BY ClipboardAssumption
<1>2. PICK f \in formats : \A g \in formats : ~(<<g, f>> \in OpToRel(<, Nat))
  BY <1>1, NatLessThanWellFounded, WFMin
<1>3. \A g \in formats : f <= g
  <2> SUFFICES ASSUME NEW g \in formats, ~(f <= g) PROVE FALSE
    OBVIOUS
  <2>1. <<g, f>> \in {p \in Nat \X Nat : p[1] < p[2]}
    BY <1>1
  <2> QED
    BY <1>2, <2>1, Zenon DEF OpToRel
<1>4. \E r \in formats : \A g \in formats : r <= g
  BY <1>3
<1> QED
  BY <1>4, Zenon DEF Richest

LEMMA ArmedType ==
  ASSUME Types, NEW n \in Machine
  PROVE  Armed(n) \in Arms /\ SeenSerials(n) \in SUBSET Nat
<1>1. writeBack[n] = Nothing \/ writeBack[n] \in [kind : {"guard"}, serial : Nat, bytes : Contents]
  BY DEF Types, SyncTypes
<1>2. Armed(n) \in Arms
  BY <1>1 DEF Armed, Arms, Contents
<1>3. seen[n] = Nothing \/ seen[n] \in [kind : {"seen"}, serial : Nat, formats : SUBSET Format]
  BY DEF Types, SyncTypes
<1> QED
  BY <1>2, <1>3 DEF SeenSerials

LEMMA ReadType ==
  ASSUME Types, NEW n \in Machine, NEW format \in Format
  PROVE  ReadBytes(n, format) \in BytesOf
<1>1. staged[n] \in BytesOf /\ selection[n].copy \in 0 .. MaxCopies
  BY DEF Types, BoardTypes
<1>2. Bytes(selection[n].copy, format) \in BytesOf /\ Nothing \in BytesOf
  BY <1>1 DEF Bytes, BytesOf
<1> QED
  BY <1>1, <1>2 DEF ReadBytes

LEMMA QueuesAppended ==
  ASSUME NEW S, NEW q \in [Machine -> Seq(S)], NEW n \in Machine, NEW e \in S
  PROVE  /\ [q EXCEPT ![n] = Append(@, e)] \in [Machine -> Seq(S)]
         /\ [q EXCEPT ![n] = Append(@, e)][n] = Append(q[n], e)
         /\ Len(Append(q[n], e)) = Len(q[n]) + 1
         /\ \A m \in Machine : m # n => [q EXCEPT ![n] = Append(@, e)][m] = q[m]
<1>1. Append(q[n], e) \in Seq(S) /\ Len(Append(q[n], e)) = Len(q[n]) + 1
  BY AppendProperties
<1> QED
  BY <1>1

LEMMA QueuesTaken ==
  ASSUME NEW S, NEW q \in [Machine -> Seq(S)], NEW n \in Machine, q[n] # <<>>
  PROVE  /\ [q EXCEPT ![n] = Tail(@)] \in [Machine -> Seq(S)]
         /\ [q EXCEPT ![n] = Tail(@)][n] = Tail(q[n])
         /\ Head(q[n]) \in S /\ Len(Tail(q[n])) = Len(q[n]) - 1 /\ Len(q[n]) \in Nat
         /\ \A m \in Machine : m # n => [q EXCEPT ![n] = Tail(@)][m] = q[m]
<1>1. Tail(q[n]) \in Seq(S) /\ Head(q[n]) \in S /\ Len(Tail(q[n])) = Len(q[n]) - 1 /\ Len(q[n]) \in Nat
  BY HeadTailProperties, LenProperties
<1> QED
  BY <1>1

(* The mail once a message is sent, or not for want of room.               *)
MailOK(box) == box \in [Machine -> Seq(Messages)] /\ \A n \in Machine : Len(box[n]) <= QueueDepth

LEMMA Sent ==
  ASSUME NEW box, MailOK(box), NEW n \in Machine, NEW msg \in Messages
  PROVE  /\ MailOK(AfterSending(n, box, msg))
         /\ AfterSending(n, box, msg)[n] =
              IF joined[n] /\ linked /\ Room(box[n]) THEN Append(box[n], msg) ELSE box[n]
         /\ \A m \in Machine : m # n => AfterSending(n, box, msg)[m] = box[m]
<1>1. /\ Append(box[n], msg) \in Seq(Messages) /\ Len(Append(box[n], msg)) = Len(box[n]) + 1
      /\ Len(box[n]) \in Nat /\ QueueDepth \in Nat
  BY AppendProperties, LenProperties, ClipboardAssumption DEF MailOK
<1>2. Room(box[n]) => Len(Append(box[n], msg)) <= QueueDepth
  BY <1>1 DEF Room
<1> DEFINE q == IF joined[n] /\ linked /\ Room(box[n]) THEN Append(box[n], msg) ELSE box[n]
<1>3. q \in Seq(Messages) /\ Len(q) <= QueueDepth
  BY <1>1, <1>2 DEF MailOK
<1>4. AfterSending(n, box, msg) = [box EXCEPT ![n] = q]
  BY DEF AfterSending, Posted
<1> HIDE DEF q
<1>5. /\ AfterSending(n, box, msg) \in [Machine -> Seq(Messages)]
      /\ AfterSending(n, box, msg)[n] = q
      /\ \A m \in Machine : m # n => AfterSending(n, box, msg)[m] = box[m]
  BY <1>3, <1>4 DEF MailOK
<1>6. \A m \in Machine : Len(AfterSending(n, box, msg)[m]) <= QueueDepth
  BY <1>3, <1>5 DEF MailOK
<1> QED
  BY <1>5, <1>6 DEF MailOK, q

LEMMA MailReceived ==
  ASSUME MailOK(mail), NEW n \in Machine, mail[Peer(n)] # <<>>
  PROVE  /\ MailOK(Received(n)) /\ Message(n) \in Messages
         /\ Received(n)[n] = mail[n] /\ Received(n)[Peer(n)] = Tail(mail[Peer(n)])
<1>1. Peer(n) \in Machine /\ Peer(n) # n
  BY OtherMachine
<1>2. mail \in [Machine -> Seq(Messages)] /\ QueueDepth \in Nat
  BY ClipboardAssumption DEF MailOK
<1>3. /\ Received(n) \in [Machine -> Seq(Messages)] /\ Received(n)[Peer(n)] = Tail(mail[Peer(n)])
      /\ Message(n) \in Messages
      /\ Len(Tail(mail[Peer(n)])) = Len(mail[Peer(n)]) - 1 /\ Len(mail[Peer(n)]) \in Nat
      /\ \A m \in Machine : m # Peer(n) => Received(n)[m] = mail[m]
  BY <1>1, <1>2, QueuesTaken DEF Received, Message
<1>4. \A m \in Machine : Len(Received(n)[m]) <= QueueDepth
  BY <1>1, <1>2, <1>3 DEF MailOK
<1> QED
  BY <1>1, <1>3, <1>4 DEF MailOK

LEMMA MailCut ==
  ASSUME NEW q \in Seq(Messages), NEW i \in 0 .. Len(q)
  PROVE  /\ SubSeq(q, 1, i) \in Seq(Messages) /\ Len(SubSeq(q, 1, i)) <= Len(q)
         /\ \A j \in DOMAIN SubSeq(q, 1, i) : j \in DOMAIN q /\ SubSeq(q, 1, i)[j] = q[j]
<1>1. Len(q) \in Nat /\ i \in Nat /\ i <= Len(q) /\ DOMAIN q = 1 .. Len(q) /\ \A j \in 1 .. i : q[j] \in Messages
  BY LenProperties, ElementOfSeq
<1>2. /\ SubSeq(q, 1, i) \in Seq(Messages)
      /\ Len(SubSeq(q, 1, i)) = IF 1 <= i THEN i - 1 + 1 ELSE 0
      /\ \A j \in 1 .. i - 1 + 1 : SubSeq(q, 1, i)[j] = q[1 + j - 1]
  BY <1>1, SubSeqProperties
<1>3. Len(SubSeq(q, 1, i)) = i
  BY <1>1, <1>2
<1>4. DOMAIN SubSeq(q, 1, i) = 1 .. i
  BY <1>2, <1>3, LenProperties
<1> QED
  BY <1>1, <1>2, <1>3, <1>4

-----------------------------------------------------------------------------
(* Types are preserved.                                                    *)

LEMMA TypesGiveTypeOK == Types => ClipboardTypeOK
<1> SUFFICES ASSUME Types PROVE ClipboardTypeOK
  OBVIOUS
<1>1. \A n \in Machine : \A i \in DOMAIN signals[n] : signals[n][i] \in [formats : SUBSET Format, ours : BOOLEAN]
  <2> SUFFICES ASSUME NEW n \in Machine, NEW i \in DOMAIN signals[n]
               PROVE  signals[n][i] \in [formats : SUBSET Format, ours : BOOLEAN]
    OBVIOUS
  <2>1. signals[n] \in Seq([formats : SUBSET Format, ours : BOOLEAN])
    BY DEF Types, BoardTypes
  <2> QED
    BY <2>1, LenProperties, ElementOfSeq
<1>2. \A n \in Machine : writeBack[n] # Nothing => writeBack[n].bytes \in BytesOf
  <2> SUFFICES ASSUME NEW n \in Machine, writeBack[n] # Nothing
               PROVE  writeBack[n].bytes \in BytesOf
    OBVIOUS
  <2>1. writeBack[n] \in [kind : {"guard"}, serial : Nat, bytes : Contents]
    BY DEF Types, SyncTypes
  <2> QED
    BY <2>1, BytesParts
<1> QED
  BY <1>1, <1>2 DEF Types, BoardTypes, WorkerTypes, SyncTypes, LinkTypes, ClipboardTypeOK

LEMMA InitTypes == ClipboardInit => Types
<1> SUFFICES ASSUME ClipboardInit PROVE Types
  OBVIOUS
<1>1. \A S : <<>> \in Seq(S) /\ Len(<<>>) = 0
  OBVIOUS
<1>2. BoardTypes
  <2>1. signals \in [Machine -> Seq([formats : SUBSET Format, ours : BOOLEAN])]
    BY <1>1 DEF ClipboardInit
  <2>2. selection \in [Machine -> [copy : 0 .. MaxCopies, formats : SUBSET Format, agent : BOOLEAN]]
    BY ClipboardAssumption DEF ClipboardInit
  <2>3. staged \in [Machine -> BytesOf]
    BY DEF ClipboardInit, BytesOf
  <2> QED
    BY <2>1, <2>2, <2>3 DEF ClipboardInit, BoardTypes
<1>3. WorkerTypes
  <2>1. jobs \in [Machine -> Seq(Jobs)] /\ reports \in [Machine -> Seq(Dones)]
    BY <1>1 DEF ClipboardInit
  <2>2. \A n \in Machine : Len(jobs[n]) <= JobDepth
    BY <1>1, ClipboardAssumption DEF ClipboardInit
  <2>3. work \in [Machine -> Works]
    BY DEF ClipboardInit, Works
  <2> QED
    BY <2>1, <2>2, <2>3 DEF WorkerTypes
<1>4. SyncTypes
  BY DEF ClipboardInit, SyncTypes
<1>5. LinkTypes
  <2>1. mail \in [Machine -> Seq(Messages)]
    BY <1>1 DEF ClipboardInit
  <2>2. \A n \in Machine : Len(mail[n]) <= QueueDepth
    BY <1>1, ClipboardAssumption DEF ClipboardInit
  <2> QED
    BY <2>1, <2>2 DEF ClipboardInit, LinkTypes
<1>6. Bounds
  BY ClipboardAssumption DEF ClipboardInit, Bounds
<1> QED
  BY <1>2, <1>3, <1>4, <1>5, <1>6 DEF Types

LEMMA TypesKept ==
  /\ BoardTypes /\ UNCHANGED boardVars => BoardTypes'
  /\ WorkerTypes /\ UNCHANGED <<workerVars, reports>> => WorkerTypes'
  /\ SyncTypes /\ UNCHANGED syncVars => SyncTypes'
  /\ LinkTypes /\ UNCHANGED linkVars => LinkTypes'
  /\ Bounds /\ UNCHANGED <<copies, mishaps>> => Bounds'
  /\ Bounds /\ UNCHANGED copies /\ MayFail => Bounds'
<1>1. Bounds /\ UNCHANGED copies /\ MayFail => Bounds'
  BY ClipboardAssumption DEF Bounds, MayFail
<1> QED
  BY <1>1 DEF BoardTypes, WorkerTypes, SyncTypes, LinkTypes, Bounds, boardVars, workerVars, syncVars, linkVars

LEMMA ReportTypes ==
  ASSUME Types, NEW n \in Machine, NEW d \in Dones, Report(n, d)
  PROVE  reports' \in [Machine -> Seq(Dones)]
BY QueuesAppended DEF Types, WorkerTypes, Report

LEMMA StartsTypes ==
  ASSUME Types, NEW n \in Machine, NEW kind, Starts(n, kind)
  PROVE  /\ jobs' \in [Machine -> Seq(Jobs)] /\ \A m \in Machine : Len(jobs'[m]) <= JobDepth
         /\ Head(jobs[n]) \in Jobs /\ Head(jobs[n]).kind = kind
         /\ jobs[n] \in Seq(Jobs) /\ jobs[n] # <<>> /\ jobs'[n] = Tail(jobs[n])
         /\ \A m \in Machine : m # n => jobs'[m] = jobs[m]
<1>1. /\ jobs \in [Machine -> Seq(Jobs)] /\ \A m \in Machine : Len(jobs[m]) <= JobDepth
      /\ jobs' = [jobs EXCEPT ![n] = Tail(@)] /\ jobs[n] # <<>> /\ Head(jobs[n]).kind = kind
      /\ JobDepth \in Nat
  BY ClipboardAssumption DEF Types, WorkerTypes, Starts
<1>2. /\ jobs' \in [Machine -> Seq(Jobs)] /\ jobs'[n] = Tail(jobs[n])
      /\ Head(jobs[n]) \in Jobs /\ Len(Tail(jobs[n])) = Len(jobs[n]) - 1 /\ Len(jobs[n]) \in Nat
      /\ \A m \in Machine : m # n => jobs'[m] = jobs[m]
  BY <1>1, QueuesTaken
<1>3. \A m \in Machine : Len(jobs'[m]) <= JobDepth
  BY <1>1, <1>2
<1> QED
  BY <1>1, <1>2, <1>3

LEMMA DispatchTypes ==
  ASSUME Types, NEW n \in Machine, NEW job \in Jobs, Dispatches(n, job)
  PROVE  /\ jobs' \in [Machine -> Seq(Jobs)] /\ \A m \in Machine : Len(jobs'[m]) <= JobDepth
         /\ jobs[n] \in Seq(Jobs) /\ jobs'[n] = Append(jobs[n], job)
         /\ \A m \in Machine : m # n => jobs'[m] = jobs[m]
<1>1. /\ jobs \in [Machine -> Seq(Jobs)] /\ \A m \in Machine : Len(jobs[m]) <= JobDepth
      /\ jobs' = [jobs EXCEPT ![n] = Append(@, job)] /\ Len(jobs[n]) < JobDepth
      /\ JobDepth \in Nat /\ Len(jobs[n]) \in Nat
  BY ClipboardAssumption, LenProperties DEF Types, WorkerTypes, Dispatches
<1>2. /\ jobs' \in [Machine -> Seq(Jobs)] /\ jobs'[n] = Append(jobs[n], job)
      /\ Len(Append(jobs[n], job)) = Len(jobs[n]) + 1
      /\ \A m \in Machine : m # n => jobs'[m] = jobs[m]
  BY <1>1, QueuesAppended
<1>3. \A m \in Machine : Len(jobs'[m]) <= JobDepth
  BY <1>1, <1>2
<1> QED
  BY <1>1, <1>2, <1>3

LEMMA GivesUpTypes ==
  ASSUME Types, NEW n \in Machine, CannotDispatch(n), GivesUpWorker(n)
  PROVE  /\ polling' \in [Machine -> BOOLEAN] /\ writes' \in [Machine -> Nat]
         /\ lost' \in [Machine -> BOOLEAN] /\ jobs' = jobs
<1>1. CASE work[n].kind = "dead"
  <2>1. /\ polling' = [polling EXCEPT ![n] = FALSE]
        /\ writes' = [writes EXCEPT ![n] = 0]
        /\ lost' = [lost EXCEPT ![n] = TRUE]
        /\ jobs' = jobs
    BY <1>1 DEF CannotDispatch, GivesUpWorker
  <2>2. polling \in [Machine -> BOOLEAN] /\ writes \in [Machine -> Nat] /\ lost \in [Machine -> BOOLEAN]
    BY DEF Types, SyncTypes
  <2> QED
    BY <2>1, <2>2
<1>2. CASE work[n].kind # "dead"
  BY <1>2 DEF Types, SyncTypes, CannotDispatch, GivesUpWorker
<1> QED
  BY <1>1, <1>2

(* The board's own steps.                                                  *)

LEMMA BoardStepTypes ==
  ASSUME Types, NEW n \in Machine, UserCopies(n) \/ SelectionChanged(n)
  PROVE  Types'
<1> DEFINE Signals == [formats : SUBSET Format, ours : BOOLEAN]
<1>1. CASE UserCopies(n)
  <2>1. PICK formats \in Shapes :
          /\ selection' = [selection EXCEPT ![n] = [copy |-> copies', formats |-> formats, agent |-> FALSE]]
          /\ IF n \in Portal
             THEN /\ signals' = [signals EXCEPT ![n] = Append(@, [formats |-> formats, ours |-> FALSE])]
                  /\ UNCHANGED <<serial, offered, borrowed, copiedAt>>
             ELSE /\ offered' = [offered EXCEPT ![n] = formats]
                  /\ Bump(n, FALSE)
                  /\ copiedAt' = [copiedAt EXCEPT ![n] = serial'[n]]
                  /\ UNCHANGED signals
    BY <1>1 DEF UserCopies
  <2>2. formats \in SUBSET Format
    BY ClipboardAssumption
  <2>3. copies' \in 0 .. MaxCopies /\ UNCHANGED mishaps
    BY <1>1, ClipboardAssumption DEF Types, Bounds, UserCopies
  <2>4. selection' \in [Machine -> [copy : 0 .. MaxCopies, formats : SUBSET Format, agent : BOOLEAN]]
    BY <2>1, <2>2, <2>3 DEF Types, BoardTypes
  <2>5. signals' \in [Machine -> Seq(Signals)]
    <3> DEFINE signal == [formats |-> formats, ours |-> FALSE]
    <3>1. signal \in Signals /\ signals \in [Machine -> Seq(Signals)]
      BY <2>2 DEF Types, BoardTypes
    <3>2. signals' = [signals EXCEPT ![n] = Append(@, signal)] \/ signals' = signals
      BY <2>1
    <3> HIDE DEF Signals, signal
    <3>3. [signals EXCEPT ![n] = Append(@, signal)] \in [Machine -> Seq(Signals)]
      BY <3>1, QueuesAppended
    <3> QED
      BY <3>1, <3>2, <3>3
  <2>6. /\ serial' \in [Machine -> Nat] /\ offered' \in [Machine -> SUBSET Format]
        /\ borrowed' \in [Machine -> SUBSET Nat] /\ copiedAt' \in [Machine -> Nat]
    <3>1. CASE n \in Portal
      BY <2>1, <3>1 DEF Types, BoardTypes
    <3>2. CASE n \notin Portal
      <4>1. /\ offered' = [offered EXCEPT ![n] = formats]
            /\ serial' = [serial EXCEPT ![n] = @ + 1]
            /\ borrowed' = borrowed
            /\ copiedAt' = [copiedAt EXCEPT ![n] = serial'[n]]
        BY <2>1, <3>2 DEF Bump
      <4> QED
        BY <2>2, <4>1 DEF Types, BoardTypes
    <3> QED
      BY <3>1, <3>2
  <2>7. UNCHANGED <<ours, staged, disturbed, workerVars, reports, syncVars, linkVars>>
    BY <1>1 DEF UserCopies
  <2> QED
    BY <2>3, <2>4, <2>5, <2>6, <2>7, TypesKept DEF Types, BoardTypes, Bounds
<1>2. CASE SelectionChanged(n)
  <2>1. signals \in [Machine -> Seq(Signals)] /\ signals[n] # <<>> /\ signals' = [signals EXCEPT ![n] = Tail(@)]
    BY <1>2 DEF Types, BoardTypes, SelectionChanged
  <2>2. signals' \in [Machine -> Seq(Signals)] /\ Head(signals[n]) \in Signals
    <3> HIDE DEF Signals
    <3> QED
      BY <2>1, QueuesTaken
  <2>3. Head(signals[n]).formats \in SUBSET Format /\ Head(signals[n]).ours \in BOOLEAN
    BY <2>2
  <2>4. staged' \in [Machine -> BytesOf]
    BY <1>2 DEF Types, BoardTypes, SelectionChanged, BytesOf
  <2>5. /\ serial' \in [Machine -> Nat] /\ offered' \in [Machine -> SUBSET Format]
        /\ borrowed' \in [Machine -> SUBSET Nat] /\ copiedAt' \in [Machine -> Nat] /\ ours' \in [Machine -> BOOLEAN]
    BY <1>2, <2>3 DEF Types, BoardTypes, SelectionChanged, Bump
  <2>6. UNCHANGED <<selection, disturbed, workerVars, reports, syncVars, linkVars, copies, mishaps>>
    BY <1>2 DEF SelectionChanged
  <2> QED
    BY <2>2, <2>4, <2>5, <2>6, TypesKept DEF Types, BoardTypes
<1> QED
  BY <1>1, <1>2

LEMMA PutTypes ==
  ASSUME Types, NEW n \in Machine, NEW bytes \in Contents, PutOnClipboard(n, bytes),
         disturbed' \in [Machine -> BOOLEAN]
  PROVE  BoardTypes'
<1> DEFINE Signals == [formats : SUBSET Format, ours : BOOLEAN]
<1>1. bytes.copy \in 0 .. MaxCopies /\ bytes.format \in Format /\ bytes \in BytesOf
  BY ContentParts
<1>2. signals' \in [Machine -> Seq(Signals)]
  <2> DEFINE signal == [formats |-> {bytes.format}, ours |-> TRUE]
  <2>1. signal \in Signals /\ signals \in [Machine -> Seq(Signals)]
    BY <1>1 DEF Types, BoardTypes
  <2>2. signals' = [signals EXCEPT ![n] = Append(@, signal)] \/ signals' = signals
    BY DEF PutOnClipboard
  <2> HIDE DEF Signals, signal
  <2>3. [signals EXCEPT ![n] = Append(@, signal)] \in [Machine -> Seq(Signals)]
    BY <2>1, QueuesAppended
  <2> QED
    BY <2>1, <2>2, <2>3
<1>3. selection' \in [Machine -> [copy : 0 .. MaxCopies, formats : SUBSET Format, agent : BOOLEAN]]
  BY <1>1 DEF Types, BoardTypes, PutOnClipboard
<1>4. staged' \in [Machine -> BytesOf] /\ ours' \in [Machine -> BOOLEAN]
  BY <1>1 DEF Types, BoardTypes, PutOnClipboard
<1>5. /\ serial' \in [Machine -> Nat] /\ offered' \in [Machine -> SUBSET Format]
      /\ borrowed' \in [Machine -> SUBSET Nat] /\ copiedAt' \in [Machine -> Nat]
  BY <1>1 DEF Types, BoardTypes, PutOnClipboard, Bump
<1> QED
  BY <1>2, <1>3, <1>4, <1>5 DEF BoardTypes

(* The worker's.                                                           *)

LEMMA SampleTypes ==
  ASSUME Types, NEW n \in Machine, SampleSerial(n) \/ SampleFormats(n)
  PROVE  Types'
<1>1. CASE SampleSerial(n)
  <2>1. Starts(n, "poll")
    BY <1>1 DEF SampleSerial
  <2>2. Head(jobs[n]) \in Jobs /\ Head(jobs[n]).kind = "poll"
    BY <2>1, StartsTypes
  <2>3. Head(jobs[n]).armed \in Arms
    BY <2>2, JobParts
  <2>4. reports' \in [Machine -> Seq(Dones)] /\ work' \in [Machine -> Works]
    <3>1. CASE serial[n] \in Head(jobs[n]).seen
      <4>1. [kind |-> "nothing_new", armed |-> Head(jobs[n]).armed] \in Dones
        BY <2>3 DEF Dones
      <4>2. Report(n, [kind |-> "nothing_new", armed |-> Head(jobs[n]).armed]) /\ UNCHANGED work
        BY <1>1, <3>1 DEF SampleSerial
      <4> QED
        BY <4>1, <4>2, ReportTypes DEF Types, WorkerTypes
    <3>2. CASE serial[n] \notin Head(jobs[n]).seen
      <4>1. [kind |-> "sampled", serial |-> serial[n], armed |-> Head(jobs[n]).armed] \in Works
        BY <2>3 DEF Works, Types, BoardTypes
      <4>2. /\ work' = [work EXCEPT ![n] = [kind |-> "sampled", serial |-> serial[n], armed |-> Head(jobs[n]).armed]]
            /\ UNCHANGED reports
        BY <1>1, <3>2 DEF SampleSerial
      <4> QED
        BY <4>1, <4>2 DEF Types, WorkerTypes
    <3> QED
      BY <3>1, <3>2
  <2>5. UNCHANGED <<boardVars, syncVars, linkVars, copies, mishaps>>
    BY <1>1 DEF SampleSerial
  <2> QED
    BY <2>1, <2>4, <2>5, StartsTypes, TypesKept DEF Types, WorkerTypes
<1>2. CASE SampleFormats(n)
  <2>1. work[n] \in Works /\ work[n].kind = "sampled"
    BY <1>2 DEF SampleFormats, Types, WorkerTypes
  <2>2. work[n].serial \in Nat /\ work[n].armed \in Arms
    BY <2>1, WorkParts
  <2> DEFINE digest ==
        IF work[n].armed # Nothing /\ work[n].armed.serial # work[n].serial /\ work[n].armed.format \in offered[n]
        THEN ReadBytes(n, work[n].armed.format) ELSE Nothing
      done == [kind |-> "polled", serial |-> work[n].serial, formats |-> offered[n], armed |-> work[n].armed,
               digest |-> digest]
  <2>3. digest \in BytesOf
    <3>1. Nothing \in BytesOf
      BY DEF BytesOf
    <3>2. work[n].armed # Nothing => work[n].armed.format \in Format
      BY <2>2 DEF Arms
    <3> QED
      BY <3>1, <3>2, ReadType
  <2>4. offered[n] \in SUBSET Format
    BY DEF Types, BoardTypes
  <2>5. Report(n, done) /\ work' = [work EXCEPT ![n] = Nothing]
    BY <1>2 DEF SampleFormats
  <2>6. done \in Dones
    <3> HIDE DEF digest
    <3> QED
      BY <2>2, <2>3, <2>4 DEF Dones
  <2> HIDE DEF done
  <2>7. reports' \in [Machine -> Seq(Dones)] /\ work' \in [Machine -> Works]
    BY <2>5, <2>6, ReportTypes DEF Types, WorkerTypes, Works
  <2>8. UNCHANGED <<boardVars, jobs, syncVars, linkVars, copies, mishaps>>
    BY <1>2 DEF SampleFormats
  <2> QED
    BY <2>7, <2>8, TypesKept DEF Types, WorkerTypes
<1> QED
  BY <1>1, <1>2

LEMMA WorkerStepTypes ==
  ASSUME Types, NEW n \in Machine,
         ReadForPeer(n) \/ Unpack(n) \/ Write(n) \/ WriteRefused(n) \/ ReadSerial(n) \/ WorkerDies(n)
  PROVE  Types'
<1>1. CASE ReadForPeer(n)
  <2>1. Starts(n, "serve")
    BY <1>1 DEF ReadForPeer
  <2>2. Head(jobs[n]).format \in Format /\ Head(jobs[n]).serial \in Nat
    BY <2>1, StartsTypes, JobParts
  <2> DEFINE done == [kind |-> "served", format |-> Head(jobs[n]).format, serial |-> Head(jobs[n]).serial,
                      bytes |-> ReadBytes(n, Head(jobs[n]).format)]
  <2>3. done \in Dones /\ Report(n, done)
    <3>1. ReadBytes(n, Head(jobs[n]).format) \in BytesOf
      BY <2>2, ReadType
    <3> QED
      BY <1>1, <2>2, <3>1 DEF Dones, ReadForPeer
  <2>4. UNCHANGED <<boardVars, work, syncVars, linkVars, copies, mishaps>>
    BY <1>1 DEF ReadForPeer
  <2> HIDE DEF done
  <2>5. reports' \in [Machine -> Seq(Dones)]
    BY <2>3, ReportTypes
  <2> QED
    BY <2>1, <2>4, <2>5, StartsTypes, TypesKept DEF Types, WorkerTypes
<1>2. CASE Unpack(n)
  <2>1. Starts(n, "accept")
    BY <1>2 DEF Unpack
  <2>2. Head(jobs[n]).bytes \in Contents
    BY <2>1, StartsTypes, JobParts
  <2>3. /\ [kind |-> "writing", bytes |-> Head(jobs[n]).bytes] \in Dones
        /\ [kind |-> "writing", bytes |-> Head(jobs[n]).bytes] \in Works
        /\ [kind |-> "discarded"] \in Dones
    BY <2>2 DEF Dones, Works
  <2>4. UNCHANGED <<boardVars, syncVars, linkVars, copies>>
    BY <1>2 DEF Unpack
  <2>5. CASE /\ Report(n, [kind |-> "writing", bytes |-> Head(jobs[n]).bytes])
             /\ work' = [work EXCEPT ![n] = [kind |-> "writing", bytes |-> Head(jobs[n]).bytes]]
             /\ UNCHANGED mishaps
    <3>1. reports' \in [Machine -> Seq(Dones)] /\ work' \in [Machine -> Works]
      BY <2>3, <2>5, ReportTypes DEF Types, WorkerTypes
    <3> QED
      BY <2>1, <2>4, <2>5, <3>1, StartsTypes, TypesKept DEF Types, WorkerTypes
  <2>6. CASE MayFail /\ Report(n, [kind |-> "discarded"]) /\ UNCHANGED work
    <3>1. reports' \in [Machine -> Seq(Dones)] /\ work' \in [Machine -> Works]
      BY <2>3, <2>6, ReportTypes DEF Types, WorkerTypes
    <3>2. Bounds'
      BY <2>4, <2>6, TypesKept DEF Types
    <3> QED
      BY <2>1, <2>4, <3>1, <3>2, StartsTypes, TypesKept DEF Types, WorkerTypes
  <2> QED
    BY <1>2, <2>5, <2>6 DEF Unpack
<1>3. CASE Write(n)
  <2>1. work[n].bytes \in Contents
    BY <1>3, WorkParts DEF Write, Types, WorkerTypes
  <2>2. disturbed' \in [Machine -> BOOLEAN]
    BY <1>3 DEF Write, Types, BoardTypes
  <2>3. BoardTypes'
    BY <1>3, <2>1, <2>2, PutTypes DEF Write
  <2>4. work' \in [Machine -> Works]
    BY <1>3 DEF Write, Types, WorkerTypes, Works
  <2>5. UNCHANGED <<jobs, reports, syncVars, linkVars, copies, mishaps>>
    BY <1>3 DEF Write
  <2> QED
    BY <2>3, <2>4, <2>5, TypesKept DEF Types, WorkerTypes
<1>4. CASE WriteRefused(n)
  <2>1. [kind |-> "not_written"] \in Dones /\ Nothing \in Works
    BY DEF Dones, Works
  <2>2. reports' \in [Machine -> Seq(Dones)]
    BY <1>4, <2>1, ReportTypes DEF WriteRefused
  <2>3. work' \in [Machine -> Works] /\ disturbed' \in [Machine -> BOOLEAN]
    BY <1>4, <2>1 DEF WriteRefused, Types, WorkerTypes, BoardTypes
  <2>4. /\ MayFail
        /\ UNCHANGED <<selection, signals, serial, offered, ours, staged, borrowed, copiedAt,
                       jobs, syncVars, linkVars, copies>>
    BY <1>4 DEF WriteRefused
  <2> QED
    BY <2>2, <2>3, <2>4, TypesKept DEF Types, WorkerTypes, BoardTypes
<1>5. CASE ReadSerial(n)
  <2>1. [kind |-> "wrote", serial |-> serial[n]] \in Dones /\ Nothing \in Works
    BY DEF Dones, Works, Types, BoardTypes
  <2>2. reports' \in [Machine -> Seq(Dones)]
    BY <1>5, <2>1, ReportTypes DEF ReadSerial
  <2>3. work' \in [Machine -> Works]
    BY <1>5, <2>1 DEF ReadSerial, Types, WorkerTypes
  <2>4. UNCHANGED <<boardVars, jobs, syncVars, linkVars, copies, mishaps>>
    BY <1>5 DEF ReadSerial
  <2> QED
    BY <2>2, <2>3, <2>4, TypesKept DEF Types, WorkerTypes
<1>6. CASE WorkerDies(n)
  <2>1. [kind |-> "worker_gone"] \in Dones /\ [kind |-> "dead"] \in Works
    BY DEF Dones, Works
  <2>2. reports' \in [Machine -> Seq(Dones)]
    BY <1>6, <2>1, ReportTypes DEF WorkerDies
  <2>3. work' \in [Machine -> Works]
    BY <1>6, <2>1 DEF WorkerDies, Types, WorkerTypes
  <2>4. jobs' \in [Machine -> Seq(Jobs)] /\ \A m \in Machine : Len(jobs'[m]) <= JobDepth
    <3>1. \A S : <<>> \in Seq(S) /\ Len(<<>>) = 0
      OBVIOUS
    <3>2. jobs' = [jobs EXCEPT ![n] = <<>>] /\ jobs \in [Machine -> Seq(Jobs)]
      BY <1>6 DEF WorkerDies, Types, WorkerTypes
    <3>3. jobs' \in [Machine -> Seq(Jobs)]
      BY <3>1, <3>2
    <3>4. \A m \in Machine : jobs'[m] = IF m = n THEN <<>> ELSE jobs[m]
      BY <3>2
    <3>5. \A m \in Machine : Len(jobs'[m]) <= JobDepth
      BY <3>1, <3>4, ClipboardAssumption DEF Types, WorkerTypes
    <3> QED
      BY <3>3, <3>5
  <2>5. MayFail /\ UNCHANGED <<boardVars, syncVars, linkVars, copies>>
    BY <1>6 DEF WorkerDies
  <2> QED
    BY <2>2, <2>3, <2>4, <2>5, TypesKept DEF Types, WorkerTypes
<1> QED
  BY <1>1, <1>2, <1>3, <1>4, <1>5, <1>6

(* The engine's.                                                           *)

LEMMA PollTypes ==
  ASSUME Types, NEW n \in Machine, PollClipboard(n)
  PROVE  Types'
<1> DEFINE job == [kind |-> "poll", seen |-> SeenSerials(n), armed |-> Armed(n)]
<1>1. job \in Jobs
  BY ArmedType DEF Jobs
<1>2. UNCHANGED <<boardVars, work, reports, seen, writeBack, asked, linkVars, copies, mishaps>>
  BY DEF PollClipboard
<1>3. \/ Dispatches(n, job) /\ polling' = [polling EXCEPT ![n] = TRUE] /\ UNCHANGED <<writes, lost>>
      \/ CannotDispatch(n) /\ GivesUpWorker(n)
  BY DEF PollClipboard
<1> HIDE DEF job
<1>4. CASE Dispatches(n, job) /\ polling' = [polling EXCEPT ![n] = TRUE] /\ UNCHANGED <<writes, lost>>
  <2>1. WorkerTypes'
    BY <1>1, <1>2, <1>4, DispatchTypes DEF Types, WorkerTypes
  <2>2. SyncTypes'
    BY <1>2, <1>4 DEF Types, SyncTypes
  <2> QED
    BY <1>2, <2>1, <2>2, TypesKept DEF Types
<1>5. CASE CannotDispatch(n) /\ GivesUpWorker(n)
  <2>1. WorkerTypes'
    BY <1>2, <1>5, GivesUpTypes DEF Types, WorkerTypes
  <2>2. SyncTypes'
    BY <1>2, <1>5, GivesUpTypes DEF Types, SyncTypes
  <2> QED
    BY <1>2, <2>1, <2>2, TypesKept DEF Types
<1> QED
  BY <1>3, <1>4, <1>5

(* What is left of the reports once the oldest is taken.                   *)
LEMMA DoneTaken ==
  ASSUME Types, NEW n \in Machine, OnClipboardDone(n)
  PROVE  /\ reports \in [Machine -> Seq(Dones)] /\ reports[n] \in Seq(Dones) /\ reports[n] # <<>>
         /\ reports' \in [Machine -> Seq(Dones)] /\ reports'[n] = Tail(reports[n])
         /\ Head(reports[n]) \in Dones
         /\ \A m \in Machine : m # n => reports'[m] = reports[m]
<1>1. /\ reports \in [Machine -> Seq(Dones)] /\ reports[n] # <<>>
      /\ reports' = [reports EXCEPT ![n] = Tail(@)]
  BY DEF OnClipboardDone, Types, WorkerTypes
<1> QED
  BY <1>1, QueuesTaken

LEMMA PolledParts ==
  ASSUME Types, NEW n \in Machine, NEW done \in Dones, done.kind = "polled", OnPolled(n, done)
  PROVE  LET offer == [kind |-> "offer", formats |-> Takeable(n, done.formats), serial |-> done.serial]
         IN /\ offer \in Messages
            /\ seen' = seen \/ seen' = [seen EXCEPT ![n] = [kind |-> "seen", serial |-> done.serial, formats |-> done.formats]]
            /\ \/ writeBack' = writeBack /\ mail' = mail
               \/ /\ ~IsEcho(n, done) /\ writeBack' = [writeBack EXCEPT ![n] = Nothing]
                  /\ mail' = mail \/ mail' = AfterSending(n, mail, offer)
            /\ polling' = [polling EXCEPT ![n] = FALSE]
            /\ UNCHANGED <<writes, lost, asked, unanswered>>
<1> DEFINE offer == [kind |-> "offer", formats |-> Takeable(n, done.formats), serial |-> done.serial]
<1>1. done.serial \in Nat /\ done.formats \in SUBSET Format
  BY DoneParts
<1>2. offer \in Messages
  BY <1>1 DEF Messages, Takeable
<1> QED
  BY <1>2 DEF OnPolled

LEMMA DoneTypes ==
  ASSUME Types, NEW n \in Machine, OnClipboardDone(n)
  PROVE  Types'
<1> DEFINE done == Head(reports[n])
<1>1. done \in Dones /\ reports' \in [Machine -> Seq(Dones)]
  BY DoneTaken
<1>2. UNCHANGED <<boardVars, workerVars, joined, linked, copies, mishaps>>
  BY DEF OnClipboardDone
<1>3. BoardTypes' /\ WorkerTypes' /\ Bounds'
  BY <1>1, <1>2, TypesKept DEF Types, WorkerTypes, workerVars
<1>4. MailOK(mail)
  BY DEF Types, LinkTypes, MailOK
<1>5. ASSUME MailOK(mail'), unanswered' \in [Machine -> BOOLEAN] PROVE LinkTypes'
  BY <1>2, <1>5 DEF Types, LinkTypes, MailOK
<1>6. LinkTypes /\ SyncTypes
  BY DEF Types
<1>7. CASE done.kind = "nothing_new" /\ OnNothingNew(n)
  <2>1. SyncTypes'
    BY <1>6, <1>7 DEF SyncTypes, OnNothingNew
  <2>2. LinkTypes'
    BY <1>2, <1>6, <1>7 DEF LinkTypes, OnNothingNew
  <2> QED
    BY <1>3, <2>1, <2>2 DEF Types
<1>8. CASE done.kind = "polled" /\ OnPolled(n, done)
  <2> DEFINE offer == [kind |-> "offer", formats |-> Takeable(n, done.formats), serial |-> done.serial]
  <2>1. /\ offer \in Messages
        /\ seen' = seen \/ seen' = [seen EXCEPT ![n] = [kind |-> "seen", serial |-> done.serial, formats |-> done.formats]]
        /\ writeBack' = writeBack \/ writeBack' = [writeBack EXCEPT ![n] = Nothing]
        /\ mail' = mail \/ mail' = AfterSending(n, mail, offer)
        /\ polling' = [polling EXCEPT ![n] = FALSE]
        /\ UNCHANGED <<writes, lost, asked, unanswered>>
    <3> HIDE DEF done
    <3> QED
      BY <1>1, <1>8, PolledParts
  <2>2. done.serial \in Nat /\ done.formats \in SUBSET Format
    BY <1>1, <1>8, DoneParts
  <2>3. SyncTypes'
    <3> HIDE DEF done
    <3>1. [kind |-> "seen", serial |-> done.serial, formats |-> done.formats]
            \in [kind : {"seen"}, serial : Nat, formats : SUBSET Format]
      BY <2>2
    <3>2. seen' \in [Machine -> {Nothing} \union [kind : {"seen"}, serial : Nat, formats : SUBSET Format]]
      BY <1>6, <2>1, <3>1 DEF SyncTypes
    <3>3. writeBack' \in [Machine -> {Nothing} \union [kind : {"guard"}, serial : Nat, bytes : Contents]]
      BY <1>6, <2>1 DEF SyncTypes
    <3> QED
      BY <1>6, <2>1, <3>2, <3>3 DEF SyncTypes
  <2>4. MailOK(mail')
    <3> HIDE DEF offer
    <3> QED
      BY <1>4, <2>1, Sent
  <2>5. LinkTypes'
    BY <1>5, <1>6, <2>1, <2>4 DEF LinkTypes
  <2> QED
    BY <1>3, <2>3, <2>5 DEF Types
<1>9. CASE done.kind = "served" /\ OnServed(n, done)
  <2> DEFINE msg == IF done.serial \in SeenSerials(n) /\ Shared(n) /\ done.bytes # Nothing
                    THEN [kind |-> "data", format |-> done.format, serial |-> done.serial, bytes |-> done.bytes]
                    ELSE [kind |-> "stale", serial |-> done.serial]
  <2>1. done.format \in Format /\ done.serial \in Nat /\ done.bytes \in BytesOf
    BY <1>1, <1>9, DoneParts
  <2>2. msg \in Messages
    <3> HIDE DEF done
    <3> QED
      BY <2>1, BytesParts DEF Messages
  <2>3. /\ mail' = AfterSending(n, mail, msg)
        /\ unanswered' = [unanswered EXCEPT ![n] = @ \/ ~Room(mail[n])]
        /\ UNCHANGED <<seen, writeBack, asked, polling, writes, lost>>
    BY <1>9 DEF OnServed, Answers
  <2> HIDE DEF msg
  <2>4. MailOK(mail')
    BY <1>4, <2>2, <2>3, Sent
  <2>5. unanswered' \in [Machine -> BOOLEAN]
    BY <2>3 DEF Types, LinkTypes
  <2>6. SyncTypes'
    BY <1>6, <2>3 DEF SyncTypes
  <2> QED
    BY <1>3, <1>5, <2>4, <2>5, <2>6 DEF Types
<1>10. CASE done.kind = "writing" /\ OnWriting(n, done)
  <2>1. done.bytes \in Contents
    BY <1>1, <1>10, DoneParts
  <2>2. (IF seen[n] = Nothing THEN 0 ELSE seen[n].serial) \in Nat
    BY <1>6 DEF SyncTypes
  <2>3. writeBack' \in [Machine -> {Nothing} \union [kind : {"guard"}, serial : Nat, bytes : Contents]]
    <3> HIDE DEF done
    <3> QED
      BY <1>6, <1>10, <2>1, <2>2 DEF SyncTypes, OnWriting
  <2>4. UNCHANGED <<seen, asked, polling, writes, lost, mail, unanswered>>
    BY <1>10 DEF OnWriting
  <2>5. SyncTypes' /\ LinkTypes'
    BY <1>2, <1>6, <2>3, <2>4 DEF SyncTypes, LinkTypes
  <2> QED
    BY <1>3, <2>5 DEF Types
<1>11. ASSUME SettlesWrite(n) PROVE /\ writes' \in [Machine -> Nat] /\ LinkTypes'
                                    /\ UNCHANGED <<seen, asked, polling, lost>>
  <2>1. writes' = [writes EXCEPT ![n] = IF @ > 0 THEN @ - 1 ELSE 0] /\ writes \in [Machine -> Nat]
    BY <1>6, <1>11 DEF SettlesWrite, SyncTypes
  <2>2. UNCHANGED <<seen, asked, polling, lost, mail, unanswered>>
    BY <1>11 DEF SettlesWrite
  <2> QED
    BY <1>2, <1>6, <2>1, <2>2 DEF LinkTypes
<1>12. CASE done.kind = "wrote" /\ OnWrote(n, done)
  <2>1. done.serial \in Nat
    BY <1>1, <1>12, DoneParts
  <2>2. writeBack' \in [Machine -> {Nothing} \union [kind : {"guard"}, serial : Nat, bytes : Contents]]
    <3> HIDE DEF done
    <3>1. CASE writeBack[n] = Nothing
      BY <1>6, <1>12, <3>1 DEF SyncTypes, OnWrote
    <3>2. CASE writeBack[n] # Nothing
      <4>1. writeBack[n] \in [kind : {"guard"}, serial : Nat, bytes : Contents]
        BY <1>6, <3>2 DEF SyncTypes
      <4> DEFINE g == [writeBack[n] EXCEPT !.serial = done.serial]
      <4>2. g \in [kind : {"guard"}, serial : Nat, bytes : Contents]
        BY <2>1, <4>1
      <4>3. writeBack' = [writeBack EXCEPT ![n] = g]
        BY <1>12, <3>2 DEF OnWrote
      <4> HIDE DEF g
      <4> QED
        BY <1>6, <4>2, <4>3 DEF SyncTypes
    <3> QED
      BY <3>1, <3>2
  <2>3. SettlesWrite(n)
    BY <1>12 DEF OnWrote
  <2>4. SyncTypes' /\ LinkTypes'
    BY <1>6, <1>11, <2>2, <2>3 DEF SyncTypes
  <2> QED
    BY <1>3, <2>4 DEF Types
<1>13. CASE done.kind = "not_written" /\ OnNotWritten(n)
  <2>1. SettlesWrite(n) /\ writeBack' = [writeBack EXCEPT ![n] = Nothing]
    BY <1>13 DEF OnNotWritten
  <2>2. SyncTypes' /\ LinkTypes'
    BY <1>6, <1>11, <2>1 DEF SyncTypes
  <2> QED
    BY <1>3, <2>2 DEF Types
<1>15. CASE done.kind = "discarded" /\ OnDiscarded(n)
  <2>1. SettlesWrite(n) /\ writeBack' = writeBack
    BY <1>15 DEF OnDiscarded
  <2>2. SyncTypes' /\ LinkTypes'
    BY <1>6, <1>11, <2>1 DEF SyncTypes
  <2> QED
    BY <1>3, <2>2 DEF Types
<1>14. CASE done.kind = "worker_gone" /\ OnWorkerGone(n)
  <2>1. /\ polling' = [polling EXCEPT ![n] = FALSE]
        /\ writes' = [writes EXCEPT ![n] = 0]
        /\ lost' = [lost EXCEPT ![n] = TRUE]
        /\ UNCHANGED <<seen, writeBack, asked, mail, unanswered>>
    BY <1>14 DEF OnWorkerGone
  <2>2. SyncTypes' /\ LinkTypes'
    BY <1>2, <1>6, <2>1 DEF SyncTypes, LinkTypes
  <2> QED
    BY <1>3, <2>2 DEF Types
<1> QED
  BY <1>7, <1>8, <1>9, <1>10, <1>12, <1>13, <1>14, <1>15 DEF OnClipboardDone

(* What is done with a message of the other machine.                       *)
LEMMA MessageTaken ==
  ASSUME Types, NEW n \in Machine, NEW kind, Receives(n, kind)
  PROVE  /\ MailOK(mail) /\ mail[Peer(n)] # <<>>
         /\ Message(n) \in Messages /\ Message(n).kind = kind
         /\ MailOK(Received(n)) /\ Received(n)[n] = mail[n]
         /\ Received(n)[Peer(n)] = Tail(mail[Peer(n)])
         /\ mail[Peer(n)] \in Seq(Messages) /\ mail[n] \in Seq(Messages)
<1>1. MailOK(mail) /\ mail[Peer(n)] # <<>> /\ Message(n).kind = kind
  BY DEF Types, LinkTypes, MailOK, Receives, Message
<1>2. Peer(n) \in Machine
  BY OtherMachine
<1> QED
  BY <1>1, <1>2, MailReceived DEF MailOK

LEMMA OfferTypes ==
  ASSUME Types, NEW n \in Machine, OnOffer(n)
  PROVE  Types'
<1>1. Receives(n, "offer") /\ LinkTypes /\ SyncTypes
  BY DEF OnOffer, Types
<1> DEFINE formats == Takeable(n, Message(n).formats)
           wish == [kind |-> "asked", serial |-> Message(n).serial, format |-> Richest(formats)]
           request == [kind |-> "request", serial |-> wish.serial, format |-> wish.format]
<1>2. Message(n).serial \in Nat /\ formats \in SUBSET Format
  BY <1>1, MessageTaken, MessageParts DEF Takeable
<1>3. UNCHANGED <<boardVars, workerVars, reports, seen, writeBack, polling, writes, lost,
                  joined, linked, unanswered, copies, mishaps>>
  BY DEF OnOffer
<1>4. ASSUME MailOK(mail') PROVE LinkTypes'
  BY <1>1, <1>3, <1>4 DEF LinkTypes, MailOK
<1>5. \/ /\ formats # {}
         /\ mail' = AfterSending(n, Received(n), request)
         /\ asked' = [asked EXCEPT ![n] = wish] \/ asked' = [asked EXCEPT ![n] = Nothing]
      \/ mail' = Received(n) /\ asked' = asked
  BY DEF OnOffer
<1>6. CASE formats # {} /\ mail' = AfterSending(n, Received(n), request)
           /\ (asked' = [asked EXCEPT ![n] = wish] \/ asked' = [asked EXCEPT ![n] = Nothing])
  <2>1. Richest(formats) \in Format
    BY <1>2, <1>6, RichestIsOne
  <2>2. wish \in [kind : {"asked"}, serial : Nat, format : Format] /\ request \in Messages
    <3> HIDE DEF formats
    <3> QED
      BY <1>2, <2>1 DEF Messages
  <2> HIDE DEF wish, request
  <2>3. MailOK(mail')
    BY <1>1, <1>6, <2>2, MessageTaken, Sent
  <2>4. SyncTypes'
    BY <1>1, <1>3, <1>6, <2>2 DEF SyncTypes
  <2> QED
    BY <1>3, <1>4, <2>3, <2>4, TypesKept DEF Types
<1>7. CASE mail' = Received(n) /\ asked' = asked
  <2>1. MailOK(mail') /\ SyncTypes'
    BY <1>1, <1>3, <1>7, MessageTaken DEF SyncTypes
  <2> QED
    BY <1>3, <1>4, <2>1, TypesKept DEF Types
<1> QED
  BY <1>5, <1>6, <1>7

(* What is left of a request that is not answered at once: the refusal.    *)
LEMMA RefusalTypes ==
  ASSUME Types, NEW n \in Machine, Receives(n, "request"),
         \/ mail' = Received(n) /\ UNCHANGED unanswered
         \/ Answers(n, Received(n), [kind |-> "stale", serial |-> Message(n).serial]),
         UNCHANGED <<joined, linked>>
  PROVE  LinkTypes'
<1>1. [kind |-> "stale", serial |-> Message(n).serial] \in Messages
  BY MessageTaken, MessageParts DEF Messages
<1>2. MailOK(mail')
  BY <1>1, MessageTaken, Sent DEF Answers
<1>3. unanswered' \in [Machine -> BOOLEAN]
  BY DEF Types, LinkTypes, Answers
<1> QED
  BY <1>2, <1>3 DEF Types, LinkTypes, MailOK

LEMMA RequestTypes ==
  ASSUME Types, NEW n \in Machine, OnRequest(n)
  PROVE  Types'
<1>1. Receives(n, "request")
  BY DEF OnRequest
<1> DEFINE job == [kind |-> "serve", serial |-> Message(n).serial, format |-> Message(n).format]
           refuses == Answers(n, Received(n), [kind |-> "stale", serial |-> Message(n).serial])
<1>2. job \in Jobs
  BY <1>1, MessageTaken, MessageParts DEF Jobs
<1>3. UNCHANGED <<boardVars, work, reports, seen, writeBack, asked, joined, linked, copies, mishaps>>
  BY DEF OnRequest
<1>4. \/ Dispatches(n, job) /\ mail' = Received(n) /\ UNCHANGED <<polling, writes, lost, unanswered>>
      \/ CannotDispatch(n) /\ GivesUpWorker(n) /\ refuses
      \/ refuses /\ UNCHANGED <<jobs, polling, writes, lost>>
  BY DEF OnRequest
<1>5. LinkTypes'
  BY <1>1, <1>3, <1>4, RefusalTypes
<1> HIDE DEF job, refuses
<1>6. CASE Dispatches(n, job) /\ UNCHANGED <<polling, writes, lost>>
  <2>1. WorkerTypes' /\ SyncTypes'
    BY <1>2, <1>3, <1>6, DispatchTypes DEF Types, WorkerTypes, SyncTypes
  <2> QED
    BY <1>3, <1>5, <2>1, TypesKept DEF Types
<1>7. CASE CannotDispatch(n) /\ GivesUpWorker(n)
  <2>1. WorkerTypes' /\ SyncTypes'
    BY <1>3, <1>7, GivesUpTypes DEF Types, WorkerTypes, SyncTypes
  <2> QED
    BY <1>3, <1>5, <2>1, TypesKept DEF Types
<1>8. CASE UNCHANGED <<jobs, polling, writes, lost>>
  <2>1. WorkerTypes' /\ SyncTypes'
    BY <1>3, <1>8 DEF Types, WorkerTypes, SyncTypes
  <2> QED
    BY <1>3, <1>5, <2>1, TypesKept DEF Types
<1> QED
  BY <1>4, <1>6, <1>7, <1>8

LEMMA DataTypes ==
  ASSUME Types, NEW n \in Machine, OnData(n)
  PROVE  Types'
<1>1. Receives(n, "data") /\ mail' = Received(n)
  BY DEF OnData
<1> DEFINE job == [kind |-> "accept", bytes |-> Message(n).bytes]
<1>2. job \in Jobs
  BY <1>1, MessageTaken, MessageParts DEF Jobs
<1>3. UNCHANGED <<boardVars, work, reports, seen, writeBack, joined, linked, unanswered, copies, mishaps>>
  BY DEF OnData
<1>4. LinkTypes'
  BY <1>1, <1>3, MessageTaken DEF Types, LinkTypes, MailOK
<1>5. asked' = asked \/ asked' = [asked EXCEPT ![n] = Nothing]
  BY DEF OnData
<1>6. \/ Dispatches(n, job) /\ writes' = [writes EXCEPT ![n] = @ + 1] /\ UNCHANGED <<polling, lost>>
      \/ CannotDispatch(n) /\ GivesUpWorker(n)
      \/ UNCHANGED <<jobs, polling, writes, lost>>
  BY DEF OnData
<1> HIDE DEF job
<1>7. CASE Dispatches(n, job) /\ writes' = [writes EXCEPT ![n] = @ + 1] /\ UNCHANGED <<polling, lost>>
  <2>1. WorkerTypes'
    BY <1>2, <1>3, <1>7, DispatchTypes DEF Types, WorkerTypes
  <2>2. SyncTypes'
    BY <1>3, <1>5, <1>7 DEF Types, SyncTypes
  <2> QED
    BY <1>3, <1>4, <2>1, <2>2, TypesKept DEF Types
<1>8. CASE CannotDispatch(n) /\ GivesUpWorker(n)
  <2>1. WorkerTypes' /\ SyncTypes'
    BY <1>3, <1>5, <1>8, GivesUpTypes DEF Types, WorkerTypes, SyncTypes
  <2> QED
    BY <1>3, <1>4, <2>1, TypesKept DEF Types
<1>9. CASE UNCHANGED <<jobs, polling, writes, lost>>
  <2>1. WorkerTypes' /\ SyncTypes'
    BY <1>3, <1>5, <1>9 DEF Types, WorkerTypes, SyncTypes
  <2> QED
    BY <1>3, <1>4, <2>1, TypesKept DEF Types
<1> QED
  BY <1>6, <1>7, <1>8, <1>9

LEMMA StaleTypes ==
  ASSUME Types, NEW n \in Machine, OnStale(n)
  PROVE  Types'
<1>1. /\ Receives(n, "stale") /\ mail' = Received(n) /\ asked' = [asked EXCEPT ![n] = Nothing]
      /\ UNCHANGED <<boardVars, workerVars, reports, seen, writeBack, polling, writes, lost,
                     joined, linked, unanswered, copies, mishaps>>
  BY DEF OnStale
<1>2. LinkTypes' /\ SyncTypes'
  BY <1>1, MessageTaken DEF Types, LinkTypes, SyncTypes, MailOK
<1> QED
  BY <1>1, <1>2, TypesKept DEF Types

(* Sessions come and go, agents restart.                                   *)
LEMMA SessionTypes ==
  ASSUME Types, Disconnect \/ Connect \/ \E n \in Machine : PeerGone(n)
  PROVE  Types'
<1>1. CASE Disconnect
  <2>0. PICK n \in Machine : \E i \in 0 .. Len(mail[n]), j \in 0 .. Len(mail[Peer(n)]) :
          mail' = [mail EXCEPT ![n] = SubSeq(@, 1, i), ![Peer(n)] = SubSeq(@, 1, j)]
    BY <1>1 DEF Disconnect
  <2>1. PICK i \in 0 .. Len(mail[n]), j \in 0 .. Len(mail[Peer(n)]) :
          mail' = [mail EXCEPT ![n] = SubSeq(@, 1, i), ![Peer(n)] = SubSeq(@, 1, j)]
    BY <2>0
  <2>2. Peer(n) \in Machine /\ Peer(n) # n
    BY OtherMachine
  <2>3. mail \in [Machine -> Seq(Messages)] /\ \A m \in Machine : Len(mail[m]) <= QueueDepth
    BY DEF Types, LinkTypes
  <2>4. /\ SubSeq(mail[n], 1, i) \in Seq(Messages) /\ Len(SubSeq(mail[n], 1, i)) <= Len(mail[n])
        /\ SubSeq(mail[Peer(n)], 1, j) \in Seq(Messages) /\ Len(SubSeq(mail[Peer(n)], 1, j)) <= Len(mail[Peer(n)])
    BY <2>2, <2>3, MailCut
  <2>5. mail' \in [Machine -> Seq(Messages)]
    BY <2>1, <2>2, <2>3, <2>4
  <2>6. \A m \in Machine : Len(mail'[m]) <= Len(mail[m])
    <3>1. \A m \in Machine : m = n \/ m = Peer(n)
      BY OtherMachine
    <3>2. mail'[n] = SubSeq(mail[n], 1, i) /\ mail'[Peer(n)] = SubSeq(mail[Peer(n)], 1, j)
      BY <2>1, <2>2, <2>3
    <3> QED
      BY <3>1, <3>2, <2>4
  <2>7. \A m \in Machine : Len(mail'[m]) <= QueueDepth
    BY <2>3, <2>5, <2>6, ClipboardAssumption, LenProperties
  <2>8. UNCHANGED <<boardVars, workerVars, reports, syncVars, joined, unanswered, copies>> /\ linked' = FALSE /\ MayFail
    BY <1>1 DEF Disconnect
  <2>9. LinkTypes'
    BY <2>5, <2>7, <2>8 DEF Types, LinkTypes
  <2> QED
    BY <2>8, <2>9, TypesKept DEF Types
<1>2. CASE Connect
  <2>1. LinkTypes' /\ UNCHANGED <<boardVars, workerVars, reports, syncVars, copies, mishaps>>
    BY <1>2 DEF Types, LinkTypes, Connect
  <2> QED
    BY <2>1, TypesKept DEF Types
<1>3. ASSUME NEW n \in Machine, PeerGone(n) PROVE Types'
  <2>1. /\ joined' = [joined EXCEPT ![n] = FALSE] /\ asked' = [asked EXCEPT ![n] = Nothing]
        /\ UNCHANGED <<boardVars, workerVars, reports, seen, writeBack, polling, writes, lost,
                       mail, linked, unanswered, copies, mishaps>>
    BY <1>3 DEF PeerGone
  <2>2. LinkTypes' /\ SyncTypes'
    BY <2>1 DEF Types, LinkTypes, SyncTypes
  <2> QED
    BY <2>1, <2>2, TypesKept DEF Types
<1> QED
  BY <1>1, <1>2, <1>3

LEMMA RestartTypes ==
  ASSUME Types, NEW n \in Machine, Restart(n)
  PROVE  Types'
<1>1. \A S : <<>> \in Seq(S) /\ Len(<<>>) = 0
  OBVIOUS
<1>2. Peer(n) \in Machine /\ Peer(n) # n
  BY OtherMachine
<1>3. BoardTypes'
  <2>1. BoardTypes
    BY DEF Types
  <2>2. signals' \in [Machine -> Seq([formats : SUBSET Format, ours : BOOLEAN])]
    BY <1>1, <2>1 DEF BoardTypes, Restart
  <2>3. selection' \in [Machine -> [copy : 0 .. MaxCopies, formats : SUBSET Format, agent : BOOLEAN]]
    <3>1. selection[n] \in [copy : 0 .. MaxCopies, formats : SUBSET Format, agent : BOOLEAN]
      BY <2>1 DEF BoardTypes
    <3> DEFINE s == [selection[n] EXCEPT !.agent = FALSE]
    <3>2. s \in [copy : 0 .. MaxCopies, formats : SUBSET Format, agent : BOOLEAN]
      BY <3>1
    <3>3. selection' = [selection EXCEPT ![n] = s]
      BY DEF Restart
    <3> HIDE DEF s
    <3> QED
      BY <2>1, <3>2, <3>3 DEF BoardTypes
  <2>4. offered' \in [Machine -> SUBSET Format]
    BY <2>1 DEF BoardTypes, Restart
  <2>5. staged' \in [Machine -> BytesOf]
    BY <2>1 DEF BoardTypes, Restart, BytesOf
  <2>6. /\ serial' \in [Machine -> Nat] /\ ours' \in [Machine -> BOOLEAN]
        /\ borrowed' \in [Machine -> SUBSET Nat] /\ copiedAt' \in [Machine -> Nat]
        /\ disturbed' \in [Machine -> BOOLEAN]
    BY <2>1 DEF BoardTypes, Restart
  <2> QED
    BY <2>2, <2>3, <2>4, <2>5, <2>6 DEF BoardTypes
<1>4. WorkerTypes'
  <2>1. /\ jobs' = [jobs EXCEPT ![n] = <<>>] /\ reports' = [reports EXCEPT ![n] = <<>>]
        /\ work' = [work EXCEPT ![n] = Nothing] /\ WorkerTypes
    BY DEF Types, Restart
  <2>2. jobs' \in [Machine -> Seq(Jobs)] /\ reports' \in [Machine -> Seq(Dones)] /\ work' \in [Machine -> Works]
    BY <1>1, <2>1 DEF WorkerTypes, Works
  <2>3. \A m \in Machine : jobs'[m] = IF m = n THEN <<>> ELSE jobs[m]
    BY <2>1 DEF WorkerTypes
  <2>4. \A m \in Machine : Len(jobs'[m]) <= JobDepth
    BY <1>1, <2>1, <2>3, ClipboardAssumption DEF WorkerTypes
  <2> QED
    BY <2>2, <2>4 DEF WorkerTypes
<1>5. SyncTypes'
  BY DEF Types, SyncTypes, Restart
<1>6. LinkTypes'
  <2>1. mail \in [Machine -> Seq(Messages)] /\ \A m \in Machine : Len(mail[m]) <= QueueDepth
    BY DEF Types, LinkTypes
  <2>2. PICK i \in 0 .. Len(mail[n]) : mail' = [mail EXCEPT ![n] = SubSeq(@, 1, i), ![Peer(n)] = <<>>]
    BY DEF Restart
  <2>3. SubSeq(mail[n], 1, i) \in Seq(Messages) /\ Len(SubSeq(mail[n], 1, i)) <= Len(mail[n])
    BY <2>1, MailCut
  <2>4. mail' \in [Machine -> Seq(Messages)] /\ mail'[n] = SubSeq(mail[n], 1, i) /\ mail'[Peer(n)] = <<>>
    BY <1>1, <1>2, <2>1, <2>2, <2>3
  <2>5. \A m \in Machine : Len(mail'[m]) <= QueueDepth
    <3>1. \A m \in Machine : m = n \/ m = Peer(n)
      BY OtherMachine
    <3>2. Len(mail'[n]) \in Nat /\ Len(mail[n]) \in Nat /\ Len(mail[n]) <= QueueDepth
      BY <2>1, <2>4, LenProperties
    <3>3. Len(mail'[n]) <= QueueDepth /\ Len(mail'[Peer(n)]) <= QueueDepth
      BY <1>1, <2>3, <2>4, <3>2, ClipboardAssumption
    <3> QED
      BY <3>1, <3>3
  <2>6. linked' = FALSE /\ joined' \in [Machine -> BOOLEAN] /\ unanswered' = unanswered
    BY DEF Types, LinkTypes, Restart
  <2> QED
    BY <2>4, <2>5, <2>6 DEF Types, LinkTypes
<1>7. MayFail /\ UNCHANGED copies
  BY DEF Restart
<1> QED
  BY <1>3, <1>4, <1>5, <1>6, <1>7, TypesKept DEF Types

LEMMA TypesStep == Types /\ [ClipboardNext]_clipboardVars => Types'
<1> SUFFICES ASSUME Types, [ClipboardNext]_clipboardVars PROVE Types'
  OBVIOUS
<1>1. CASE UNCHANGED clipboardVars
  BY <1>1, TypesKept DEF Types, clipboardVars
<1>2. CASE Disconnect \/ Connect
  BY <1>2, SessionTypes
<1>3. ASSUME NEW n \in Machine,
             \/ UserCopies(n) \/ SelectionChanged(n) \/ SampleSerial(n) \/ SampleFormats(n)
             \/ ReadForPeer(n) \/ Unpack(n) \/ Write(n) \/ WriteRefused(n) \/ ReadSerial(n) \/ WorkerDies(n)
             \/ PollClipboard(n) \/ OnClipboardDone(n) \/ OnOffer(n) \/ OnRequest(n) \/ OnData(n) \/ OnStale(n)
             \/ PeerGone(n) \/ Restart(n)
      PROVE  Types'
  BY <1>3, BoardStepTypes, SampleTypes, WorkerStepTypes, PollTypes, DoneTypes, OfferTypes, RequestTypes,
     DataTypes, StaleTypes, SessionTypes, RestartTypes
<1> QED
  BY <1>1, <1>2, <1>3 DEF ClipboardNext

LEMMA TypesAlways == ClipboardSpec => []Types
<1>1. ClipboardInit => Types
  BY InitTypes
<1>2. Types /\ [ClipboardNext]_clipboardVars => Types'
  BY TypesStep
<1> QED
  BY <1>1, <1>2, PTL DEF ClipboardSpec

(* ClipboardSync, ClipboardTraffic, the worker and the messages hold only  *)
(* what they are meant to, and no queue exceeds its depth.                 *)
THEOREM ClipboardTypeCorrect == ClipboardSpec => []ClipboardTypeOK
<1>1. Types => ClipboardTypeOK
  BY TypesGiveTypeOK
<1> QED
  BY <1>1, TypesAlways, PTL

-----------------------------------------------------------------------------
(* Queues that grow at their end and shrink at their head.                 *)

Grown(q, e, p) ==
  /\ \A K : /\ e.kind \in K => Kinds(p, K) = Kinds(q, K) \union {Len(q) + 1}
            /\ e.kind \notin K => Kinds(p, K) = Kinds(q, K)
            /\ \A i \in Kinds(q, K) : p[i] = q[i] /\ i \in Nat /\ i < Len(q) + 1
  /\ p[Len(q) + 1] = e
  /\ Len(q) + 1 \in Nat

Shrunk(q, e, p) ==
  /\ \A K : /\ \A i \in Kinds(p, K) : i + 1 \in Kinds(q, K) /\ p[i] = q[i + 1] /\ i \in Nat \ {0}
            /\ \A i \in Kinds(q, K) : i # 1 => i - 1 \in Kinds(p, K) /\ p[i - 1] = q[i] /\ i \in Nat \ {0, 1}
            /\ 1 \in Kinds(q, K) <=> e.kind \in K
  /\ q[1] = e

LEMMA Grows ==
  ASSUME NEW S, NEW q \in Seq(S), NEW e \in S
  PROVE  Grown(q, e, Append(q, e))
<1> DEFINE p == Append(q, e)
<1>1. p[Len(q) + 1] = e /\ Len(q) + 1 \in Nat
  BY AppendProperties, LenProperties
<1>2. \A i \in DOMAIN q : p[i] = q[i]
  BY AppendProperties, LenProperties
<1>3. \A K : /\ e.kind \in K => Kinds(p, K) = Kinds(q, K) \union {Len(q) + 1}
             /\ e.kind \notin K => Kinds(p, K) = Kinds(q, K)
  BY AppendedKinds
<1>4. \A K : \A i \in Kinds(q, K) : i \in DOMAIN q
  BY DEF Kinds
<1>5. \A i \in DOMAIN q : i \in Nat /\ i < Len(q) + 1
  BY LenProperties
<1> HIDE DEF p
<1>6. Grown(q, e, p)
  BY <1>1, <1>2, <1>3, <1>4, <1>5 DEF Grown
<1> QED
  BY <1>6 DEF p

LEMMA Shrinks ==
  ASSUME NEW S, NEW q \in Seq(S), q # <<>>
  PROVE  Shrunk(q, Head(q), Tail(q))
<1> DEFINE t == Tail(q)
<1>1. /\ t \in Seq(S) /\ Len(t) = Len(q) - 1
      /\ \A i \in 1 .. Len(t) : t[i] = q[i + 1]
  BY HeadTailProperties
<1>2. /\ DOMAIN t = 1 .. Len(t) /\ DOMAIN q = 1 .. Len(q) /\ Len(q) \in Nat \ {0} /\ Len(t) \in Nat
      /\ q[1] = Head(q)
  BY <1>1, LenProperties, EmptySeq
<1> HIDE DEF t
<1> SUFFICES ASSUME NEW K
             PROVE  /\ \A i \in Kinds(t, K) : i + 1 \in Kinds(q, K) /\ t[i] = q[i + 1] /\ i \in Nat \ {0}
                    /\ \A i \in Kinds(q, K) : i # 1 => i - 1 \in Kinds(t, K) /\ t[i - 1] = q[i] /\ i \in Nat \ {0, 1}
                    /\ 1 \in Kinds(q, K) <=> Head(q).kind \in K
  BY <1>2 DEF Shrunk, t
<1>3. \A i \in Kinds(t, K) : i + 1 \in Kinds(q, K) /\ t[i] = q[i + 1] /\ i \in Nat \ {0}
  BY <1>1, <1>2 DEF Kinds
<1>4. \A i \in Kinds(q, K) : i # 1 => i - 1 \in Kinds(t, K) /\ t[i - 1] = q[i] /\ i \in Nat \ {0, 1}
  <2> SUFFICES ASSUME NEW i \in Kinds(q, K), i # 1
               PROVE  i - 1 \in Kinds(t, K) /\ t[i - 1] = q[i] /\ i \in Nat \ {0, 1}
    OBVIOUS
  <2>1. i \in 1 .. Len(q) /\ q[i].kind \in K
    BY <1>2 DEF Kinds
  <2>2. i - 1 \in 1 .. Len(t) /\ (i - 1) + 1 = i
    BY <2>1, <1>1, <1>2
  <2>3. t[i - 1] = q[i]
    BY <2>2, <1>1
  <2> QED
    BY <2>1, <2>2, <2>3, <1>2 DEF Kinds
<1>5. 1 \in Kinds(q, K) <=> Head(q).kind \in K
  BY <1>2 DEF Kinds
<1> QED
  BY <1>3, <1>4, <1>5

-----------------------------------------------------------------------------
(* What passes the worker keeps its order.                                 *)

LEMMA OrderedKinds ==
  ASSUME NEW done
  PROVE  /\ Kinds(done, PollDones) \subseteq Kinds(done, Ordered)
         /\ Kinds(done, {"writing"}) \subseteq Kinds(done, Ordered)
         /\ Kinds(done, WriteEnds) \subseteq Kinds(done, Ordered)
         /\ Kinds(done, {"polled"}) \subseteq Kinds(done, PollDones)
         /\ Kinds(done, WriteDones) \subseteq Kinds(done, Ordered)
         /\ Kinds(done, {"writing"}) \subseteq Kinds(done, WriteDones)
BY DEF Kinds, PollDones, WriteEnds, WriteDones, Ordered

LEMMA JobTaken ==
  ASSUME NEW queue, NEW job, NEW rest, Shrunk(queue, job, rest), NEW doing, NEW done, Passes(queue, doing, done)
  PROVE  /\ Passes(rest, doing, done)
         /\ job.kind \in {"poll", "accept"} => Kinds(rest, {"poll"}) = {}
         /\ job.kind = "poll" => Kinds(done, Ordered) = {}
<1>1. /\ \A i \in Kinds(rest, {"poll"}) : i + 1 \in Kinds(queue, {"poll"}) /\ i \in Nat \ {0}
      /\ \A i \in Kinds(rest, {"poll", "accept"}) : i + 1 \in Kinds(queue, {"poll", "accept"}) /\ i \in Nat \ {0}
      /\ 1 \in Kinds(queue, {"poll", "accept"}) <=> job.kind \in {"poll", "accept"}
      /\ 1 \in Kinds(queue, {"poll"}) <=> job.kind \in {"poll"}
  BY DEF Shrunk
<1>2. \A i \in Kinds(queue, {"poll"}) : \A j \in Kinds(queue, {"poll", "accept"}) : i <= j
  BY DEF Passes, PollsGoFirst
<1>3. \A i \in Kinds(rest, {"poll"}) : \A j \in Kinds(rest, {"poll", "accept"}) : i <= j
  BY <1>1, <1>2
<1>4. job.kind \in {"poll", "accept"} => Kinds(rest, {"poll"}) = {}
  BY <1>1, <1>2
<1>5. job.kind = "poll" => Kinds(done, Ordered) = {}
  BY <1>1 DEF Passes, PollsGoFirst
<1>6. Kinds(rest, {"poll"}) # {} => Kinds(queue, {"poll"}) # {}
  BY <1>1
<1> QED
  BY <1>3, <1>4, <1>5, <1>6 DEF Passes, PollsGoFirst

LEMMA PollEnds ==
  ASSUME NEW queue, NEW done, NEW d, NEW after, Grown(done, d, after), d.kind \in PollDones,
         Kinds(done, Ordered) = {}, Kinds(queue, {"poll"}) = {}
  PROVE  Passes(queue, Nothing, after)
<1>1. /\ Kinds(after, Ordered) = {Len(done) + 1}
      /\ Kinds(after, PollDones) \subseteq {Len(done) + 1}
      /\ Kinds(after, {"writing"}) = {}
  <2>1. d.kind \in Ordered /\ d.kind \notin {"writing"}
    BY DEF PollDones, Ordered
  <2>2. /\ Kinds(after, Ordered) = Kinds(done, Ordered) \union {Len(done) + 1}
        /\ Kinds(after, {"writing"}) = Kinds(done, {"writing"})
    BY <2>1 DEF Grown
  <2> QED
    BY <2>2, OrderedKinds
<1>2. Len(done) + 1 \in Nat
  BY DEF Grown
<1> QED
  BY <1>1, <1>2 DEF Passes, PollsGoFirst, WritesEnd, PollsBeforeWrites, Nothing

LEMMA PollSampled ==
  ASSUME NEW queue, NEW done, NEW w, w.kind = "sampled", Kinds(done, Ordered) = {}, Kinds(queue, {"poll"}) = {}
  PROVE  Passes(queue, w, done)
BY OrderedKinds DEF Passes, PollsGoFirst, WritesEnd, PollsBeforeWrites

LEMMA OtherReport ==
  ASSUME NEW queue, NEW doing, NEW done, NEW d, NEW after, Grown(done, d, after),
         d.kind \in {"served", "worker_gone"}, Passes(queue, doing, done)
  PROVE  Passes(queue, doing, after)
<1>1. d.kind \notin Ordered /\ d.kind \notin PollDones /\ d.kind \notin WriteEnds /\ d.kind \notin {"writing"}
  BY DEF Ordered, PollDones, WriteDones, WriteEnds
<1>2. /\ Kinds(after, Ordered) = Kinds(done, Ordered)
      /\ Kinds(after, PollDones) = Kinds(done, PollDones)
      /\ Kinds(after, WriteEnds) = Kinds(done, WriteEnds)
      /\ Kinds(after, {"writing"}) = Kinds(done, {"writing"})
  BY <1>1 DEF Grown
<1> QED
  BY <1>2 DEF Passes, PollsGoFirst, WritesEnd, PollsBeforeWrites

LEMMA WriteBegins ==
  ASSUME NEW queue, NEW done, NEW d, NEW after, Grown(done, d, after), d.kind = "writing",
         NEW w, w.kind = "writing", Passes(queue, Nothing, done), Kinds(queue, {"poll"}) = {}
  PROVE  Passes(queue, w, after)
<1>1. d.kind \in Ordered /\ d.kind \notin PollDones /\ d.kind \in {"writing"}
  BY DEF Ordered, WriteDones, WriteEnds, PollDones
<1>2. /\ Kinds(after, Ordered) = Kinds(done, Ordered) \union {Len(done) + 1}
      /\ Kinds(after, PollDones) = Kinds(done, PollDones)
      /\ Kinds(after, {"writing"}) = Kinds(done, {"writing"}) \union {Len(done) + 1}
      /\ \A i \in Kinds(done, PollDones) : i \in Nat /\ i < Len(done) + 1
      /\ Len(done) + 1 \in Nat
  BY <1>1 DEF Grown
<1> QED
  BY <1>2 DEF Passes, PollsGoFirst, WritesEnd, PollsBeforeWrites

LEMMA WriteMade ==
  ASSUME NEW queue, NEW done, NEW v, NEW w, v.kind = "writing", w.kind = "written", Passes(queue, v, done)
  PROVE  Passes(queue, w, done)
BY DEF Passes, PollsGoFirst, WritesEnd, PollsBeforeWrites

LEMMA WriteEnded ==
  ASSUME NEW queue, NEW w, w.kind \in {"writing", "written"}, NEW done, NEW d, NEW after, Grown(done, d, after),
         d.kind \in WriteEnds, Passes(queue, w, done)
  PROVE  Passes(queue, Nothing, after)
<1>1. d.kind \in Ordered /\ d.kind \notin PollDones /\ d.kind \notin {"writing"}
  BY DEF Ordered, WriteDones, WriteEnds, PollDones
<1>2. /\ Kinds(after, Ordered) = Kinds(done, Ordered) \union {Len(done) + 1}
      /\ Kinds(after, PollDones) = Kinds(done, PollDones)
      /\ Kinds(after, {"writing"}) = Kinds(done, {"writing"})
      /\ Kinds(after, WriteEnds) = Kinds(done, WriteEnds) \union {Len(done) + 1}
      /\ \A i \in Kinds(done, Ordered) : i \in Nat /\ i < Len(done) + 1
      /\ Len(done) + 1 \in Nat
  BY <1>1 DEF Grown
<1>4. Kinds(queue, {"poll"}) = {}
  BY DEF Passes, PollsGoFirst
<1>5. /\ Kinds(done, PollDones) \subseteq Kinds(done, Ordered)
      /\ Kinds(done, {"writing"}) \subseteq Kinds(done, Ordered)
  BY OrderedKinds
<1>6. PollsGoFirst(queue, Nothing, after)
  BY <1>2, <1>4, <1>5 DEF Passes, PollsGoFirst, Nothing
<1>7. WritesEnd(Nothing, after)
  BY <1>2, <1>5 DEF WritesEnd
<1> QED
  BY <1>6, <1>7 DEF Passes, PollsBeforeWrites, Nothing

LEMMA WriteDropped ==
  ASSUME NEW queue, Kinds(queue, {"poll"}) = {}, NEW done, NEW d, NEW after, Grown(done, d, after),
         d.kind = "discarded", Passes(queue, Nothing, done)
  PROVE  Passes(queue, Nothing, after)
<1>1. d.kind \in Ordered /\ d.kind \in WriteEnds /\ d.kind \notin PollDones /\ d.kind \notin {"writing"}
  BY DEF Ordered, WriteDones, WriteEnds, PollDones
<1>2. /\ Kinds(after, Ordered) = Kinds(done, Ordered) \union {Len(done) + 1}
      /\ Kinds(after, PollDones) = Kinds(done, PollDones)
      /\ Kinds(after, {"writing"}) = Kinds(done, {"writing"})
      /\ Kinds(after, WriteEnds) = Kinds(done, WriteEnds) \union {Len(done) + 1}
      /\ \A i \in Kinds(done, Ordered) : i \in Nat /\ i < Len(done) + 1
      /\ Len(done) + 1 \in Nat
  BY <1>1 DEF Grown
<1>3. /\ Kinds(done, PollDones) \subseteq Kinds(done, Ordered)
      /\ Kinds(done, {"writing"}) \subseteq Kinds(done, Ordered)
  BY OrderedKinds
<1>4. PollsGoFirst(queue, Nothing, after)
  BY <1>2, <1>3 DEF Passes, PollsGoFirst, Nothing
<1>5. WritesEnd(Nothing, after)
  BY <1>2, <1>3 DEF WritesEnd
<1> QED
  BY <1>4, <1>5 DEF Passes, PollsBeforeWrites, Nothing

LEMMA NoJobs == \A K : Kinds(<<>>, K) = {}
BY DEF Kinds

LEMMA WorkerDead ==
  ASSUME NEW queue, NEW doing, NEW w, w.kind = "dead", NEW done, Passes(queue, doing, done)
  PROVE  Passes(<<>>, w, done)
BY NoJobs DEF Passes, PollsGoFirst, WritesEnd, PollsBeforeWrites

LEMMA PollDispatched ==
  ASSUME NEW queue, NEW doing, NEW done, NEW job, NEW after, Grown(queue, job, after), job.kind = "poll",
         Kinds(queue, {"poll", "accept"}) = {}, Kinds(done, Ordered) = {},
         doing.kind \notin {"sampled", "writing", "written"}
  PROVE  Passes(after, doing, done)
<1>1. /\ Kinds(after, {"poll", "accept"}) = {Len(queue) + 1}
      /\ Kinds(after, {"poll"}) \subseteq Kinds(after, {"poll", "accept"})
      /\ Len(queue) + 1 \in Nat
  <2>1. job.kind \in {"poll", "accept"}
    OBVIOUS
  <2>2. Kinds(after, {"poll", "accept"}) = Kinds(queue, {"poll", "accept"}) \union {Len(queue) + 1} /\ Len(queue) + 1 \in Nat
    BY <2>1 DEF Grown
  <2>3. Kinds(after, {"poll"}) \subseteq Kinds(after, {"poll", "accept"})
    BY DEF Kinds
  <2> QED
    BY <2>2, <2>3
<1> QED
  BY <1>1, OrderedKinds DEF Passes, PollsGoFirst, WritesEnd, PollsBeforeWrites

LEMMA JobDispatched ==
  ASSUME NEW queue, NEW doing, NEW done, NEW job, NEW after, Grown(queue, job, after),
         job.kind \in {"serve", "accept"}, Passes(queue, doing, done)
  PROVE  Passes(after, doing, done)
<1>1. job.kind \notin {"poll"}
  OBVIOUS
<1>2. /\ Kinds(after, {"poll"}) = Kinds(queue, {"poll"})
      /\ Kinds(after, {"poll", "accept"}) \subseteq Kinds(queue, {"poll", "accept"}) \union {Len(queue) + 1}
      /\ \A i \in Kinds(queue, {"poll"}) : i \in Nat /\ i < Len(queue) + 1
      /\ Len(queue) + 1 \in Nat
  BY <1>1 DEF Grown
<1> QED
  BY <1>2 DEF Passes, PollsGoFirst

LEMMA ReportHandled ==
  ASSUME NEW queue, NEW doing, NEW done, NEW d, NEW rest, Shrunk(done, d, rest), Passes(queue, doing, done)
  PROVE  /\ Passes(queue, doing, rest)
         /\ d.kind \in Ordered =>
              /\ Kinds(rest, PollDones) = {}
              /\ Kinds(queue, {"poll"}) = {}
              /\ doing.kind # "sampled"
<1>1. /\ \A i \in Kinds(rest, PollDones) : i + 1 \in Kinds(done, PollDones) /\ i \in Nat \ {0}
      /\ \A i \in Kinds(rest, Ordered) : i + 1 \in Kinds(done, Ordered) /\ i \in Nat \ {0}
      /\ \A i \in Kinds(rest, {"writing"}) : i + 1 \in Kinds(done, {"writing"}) /\ i \in Nat \ {0}
      /\ \A i \in Kinds(done, {"writing"}) : i # 1 => i - 1 \in Kinds(rest, {"writing"}) /\ i \in Nat
      /\ \A i \in Kinds(done, WriteEnds) : i # 1 => i - 1 \in Kinds(rest, WriteEnds) /\ i \in Nat
      /\ 1 \in Kinds(done, Ordered) <=> d.kind \in Ordered
  BY DEF Shrunk
<1>3. PollsGoFirst(queue, doing, done) /\ WritesEnd(doing, done) /\ PollsBeforeWrites(doing, done)
  BY DEF Passes
<1>4. PollsGoFirst(queue, doing, rest)
  BY <1>1, <1>3 DEF PollsGoFirst
<1>5. WritesEnd(doing, rest)
  <2> SUFFICES ASSUME NEW i \in Kinds(rest, {"writing"}), doing.kind \notin {"writing", "written", "dead"}
               PROVE  \E k \in Kinds(rest, WriteEnds) : i < k
    BY DEF WritesEnd
  <2>1. i + 1 \in Kinds(done, {"writing"}) /\ i \in Nat \ {0}
    BY <1>1
  <2>2. PICK k \in Kinds(done, WriteEnds) : i + 1 < k
    BY <1>3, <2>1 DEF WritesEnd
  <2>3. k # 1
    BY <2>1, <2>2
  <2>4. k - 1 \in Kinds(rest, WriteEnds) /\ i < k - 1
    BY <1>1, <2>1, <2>2, <2>3
  <2> QED
    BY <2>4
<1>6. PollsBeforeWrites(doing, rest)
  <2> SUFFICES ASSUME NEW j \in Kinds(rest, PollDones), doing.kind \in {"writing", "written"}
               PROVE  \E k \in Kinds(rest, {"writing"}) : j < k
    BY DEF PollsBeforeWrites
  <2>1. j + 1 \in Kinds(done, PollDones) /\ j \in Nat \ {0}
    BY <1>1
  <2>2. PICK k \in Kinds(done, {"writing"}) : j + 1 < k
    BY <1>3, <2>1 DEF PollsBeforeWrites
  <2>3. k # 1
    BY <2>1, <2>2
  <2>4. k - 1 \in Kinds(rest, {"writing"}) /\ j < k - 1
    BY <1>1, <2>1, <2>2, <2>3
  <2> QED
    BY <2>4
<1>7. ASSUME d.kind \in Ordered
      PROVE  Kinds(rest, PollDones) = {} /\ Kinds(queue, {"poll"}) = {} /\ doing.kind # "sampled"
  BY <1>1, <1>3, <1>7 DEF PollsGoFirst
<1> QED
  BY <1>4, <1>5, <1>6, <1>7 DEF Passes

-----------------------------------------------------------------------------
(* How many polls and writes are where, and which guard the polls carry.   *)

PollJobs(queue) == Cardinality(Kinds(queue, {"poll"}))
WriteJobs(queue) == Cardinality(Kinds(queue, {"accept"}))
PollReports(done) == Cardinality(Kinds(done, PollDones))
WriteReports(done) == Cardinality(Kinds(done, WriteEnds))
Obituaries(done) == Kinds(done, {"worker_gone"})

LEMMA WithWorker ==
  ASSUME NEW n \in Machine
  PROVE  /\ PollsWithWorker(n) =
              PollJobs(jobs[n]) + PollReports(reports[n]) + IF work[n].kind = "sampled" THEN 1 ELSE 0
         /\ WritesWithWorker(n) =
              WriteJobs(jobs[n]) + WriteReports(reports[n]) + IF work[n].kind \in {"writing", "written"} THEN 1 ELSE 0
BY DEF PollsWithWorker, WritesWithWorker, PollJobs, WriteJobs, PollReports, WriteReports, PollDones, WriteEnds

LEMMA WithWorkerAfter ==
  ASSUME NEW n \in Machine
  PROVE  /\ PollsWithWorker(n)' =
              PollJobs(jobs'[n]) + PollReports(reports'[n]) + IF work'[n].kind = "sampled" THEN 1 ELSE 0
         /\ WritesWithWorker(n)' =
              WriteJobs(jobs'[n]) + WriteReports(reports'[n]) + IF work'[n].kind \in {"writing", "written"} THEN 1 ELSE 0
BY DEF PollsWithWorker, WritesWithWorker, PollJobs, WriteJobs, PollReports, WriteReports, PollDones, WriteEnds

LEMMA CountTypes ==
  /\ \A queue \in Seq(Jobs) : PollJobs(queue) \in Nat /\ WriteJobs(queue) \in Nat
  /\ \A done \in Seq(Dones) : PollReports(done) \in Nat /\ WriteReports(done) \in Nat
BY Places DEF PollJobs, WriteJobs, PollReports, WriteReports

LEMMA NoJobsCounted ==
  ASSUME NEW queue \in Seq(Jobs), PollJobs(queue) = 0, WriteJobs(queue) = 0
  PROVE  Kinds(queue, {"poll"}) = {} /\ Kinds(queue, {"accept"}) = {}
<1>1. IsFiniteSet(Kinds(queue, {"poll"})) /\ IsFiniteSet(Kinds(queue, {"accept"}))
  BY Places
<1> QED
  BY <1>1, FS_EmptySet DEF PollJobs, WriteJobs

LEMMA NoReportsCounted ==
  ASSUME NEW done \in Seq(Dones), PollReports(done) = 0, WriteReports(done) = 0
  PROVE  Kinds(done, PollDones) = {} /\ Kinds(done, WriteEnds) = {}
<1>1. IsFiniteSet(Kinds(done, PollDones)) /\ IsFiniteSet(Kinds(done, WriteEnds))
  BY Places
<1> QED
  BY <1>1, FS_EmptySet DEF PollReports, WriteReports

LEMMA JobCounts ==
  ASSUME NEW queue \in Seq(Jobs), queue # <<>>, NEW rest, rest = Tail(queue), NEW kind, Head(queue).kind = kind
  PROVE  /\ kind = "poll" => PollJobs(queue) = PollJobs(rest) + 1
         /\ kind # "poll" => PollJobs(queue) = PollJobs(rest)
         /\ kind = "accept" => WriteJobs(queue) = WriteJobs(rest) + 1
         /\ kind # "accept" => WriteJobs(queue) = WriteJobs(rest)
         /\ PollJobs(rest) \in Nat /\ WriteJobs(rest) \in Nat
<1>1. Cardinality(Kinds(queue, {"poll"})) = Cardinality(Kinds(rest, {"poll"})) + (IF Head(queue).kind \in {"poll"} THEN 1 ELSE 0)
  BY CountTaken
<1>2. Cardinality(Kinds(queue, {"accept"})) = Cardinality(Kinds(rest, {"accept"})) + (IF Head(queue).kind \in {"accept"} THEN 1 ELSE 0)
  BY CountTaken
<1>3. rest \in Seq(Jobs)
  BY HeadTailProperties
<1>4. PollJobs(rest) \in Nat /\ WriteJobs(rest) \in Nat
  BY <1>3, CountTypes
<1> QED
  BY <1>1, <1>2, <1>4 DEF PollJobs, WriteJobs

LEMMA MoreJobCounts ==
  ASSUME NEW queue \in Seq(Jobs), NEW job \in Jobs, NEW after, after = Append(queue, job)
  PROVE  /\ PollJobs(after) = PollJobs(queue) + (IF job.kind = "poll" THEN 1 ELSE 0)
         /\ WriteJobs(after) = WriteJobs(queue) + (IF job.kind = "accept" THEN 1 ELSE 0)
<1>1. Cardinality(Kinds(after, {"poll"})) = Cardinality(Kinds(queue, {"poll"})) + (IF job.kind \in {"poll"} THEN 1 ELSE 0)
  BY CountAppended
<1>2. Cardinality(Kinds(after, {"accept"})) = Cardinality(Kinds(queue, {"accept"})) + (IF job.kind \in {"accept"} THEN 1 ELSE 0)
  BY CountAppended
<1> QED
  BY <1>1, <1>2 DEF PollJobs, WriteJobs

LEMMA ReportCounts ==
  ASSUME NEW done \in Seq(Dones), done # <<>>, NEW rest, rest = Tail(done)
  PROVE  /\ PollReports(done) = PollReports(rest) + (IF Head(done).kind \in PollDones THEN 1 ELSE 0)
         /\ WriteReports(done) = WriteReports(rest) + (IF Head(done).kind \in WriteEnds THEN 1 ELSE 0)
         /\ PollReports(rest) \in Nat /\ WriteReports(rest) \in Nat
<1>1. rest \in Seq(Dones)
  BY HeadTailProperties
<1>2. PollReports(done) = PollReports(rest) + (IF Head(done).kind \in PollDones THEN 1 ELSE 0)
  BY CountTaken DEF PollReports
<1>3. WriteReports(done) = WriteReports(rest) + (IF Head(done).kind \in WriteEnds THEN 1 ELSE 0)
  BY CountTaken DEF WriteReports
<1> QED
  BY <1>1, <1>2, <1>3, CountTypes

LEMMA MoreReportCounts ==
  ASSUME NEW done \in Seq(Dones), NEW d \in Dones, NEW after, after = Append(done, d)
  PROVE  /\ PollReports(after) = PollReports(done) + (IF d.kind \in PollDones THEN 1 ELSE 0)
         /\ WriteReports(after) = WriteReports(done) + (IF d.kind \in WriteEnds THEN 1 ELSE 0)
<1>1. PollReports(after) = PollReports(done) + (IF d.kind \in PollDones THEN 1 ELSE 0)
  BY CountAppended DEF PollReports
<1>2. WriteReports(after) = WriteReports(done) + (IF d.kind \in WriteEnds THEN 1 ELSE 0)
  BY CountAppended DEF WriteReports
<1> QED
  BY <1>1, <1>2

LEMMA ObituariesKept ==
  ASSUME NEW done, NEW d, NEW other, d.kind # "worker_gone"
  PROVE  /\ Grown(done, d, other) => Obituaries(other) = Obituaries(done)
         /\ Shrunk(done, d, other) => (Obituaries(other) = {} <=> Obituaries(done) = {})
<1>1. d.kind \notin {"worker_gone"}
  OBVIOUS
<1>2. ASSUME Grown(done, d, other) PROVE Obituaries(other) = Obituaries(done)
  BY <1>1, <1>2 DEF Grown, Obituaries
<1>3. ASSUME Shrunk(done, d, other) PROVE Obituaries(other) = {} <=> Obituaries(done) = {}
  BY <1>1, <1>3 DEF Shrunk, Obituaries
<1> QED
  BY <1>2, <1>3

LEMMA ObituaryCame ==
  ASSUME NEW done, NEW d, NEW other, d.kind = "worker_gone"
  PROVE  /\ Grown(done, d, other) => Obituaries(other) # {}
         /\ Shrunk(done, d, other) => Obituaries(done) # {}
<1>1. d.kind \in {"worker_gone"}
  OBVIOUS
<1> QED
  BY <1>1 DEF Grown, Shrunk, Obituaries

LEMMA CurrentIfNone ==
  ASSUME NEW armed, NEW queue, NEW doing, NEW done, Kinds(queue, {"poll"}) = {}, doing.kind # "sampled",
         Kinds(done, PollDones) = {}
  PROVE  Current(armed, queue, doing, done)
BY DEF Current

LEMMA CurrentPollEnds ==
  ASSUME NEW queue, NEW done, NEW d, NEW after, Grown(done, d, after), d.kind \in PollDones, NEW armed,
         d.armed = armed, Kinds(done, Ordered) = {}, Kinds(queue, {"poll"}) = {}
  PROVE  Current(armed, queue, Nothing, after)
<1>1. Kinds(after, PollDones) = Kinds(done, PollDones) \union {Len(done) + 1} /\ after[Len(done) + 1] = d
  BY DEF Grown
<1>2. Kinds(done, PollDones) = {}
  BY OrderedKinds
<1> QED
  BY <1>1, <1>2 DEF Current, Nothing

LEMMA CurrentStarted ==
  ASSUME NEW queue, NEW job, NEW rest, Shrunk(queue, job, rest), NEW armed, NEW doing, NEW done,
         Current(armed, queue, doing, done)
  PROVE  /\ Current(armed, rest, doing, done)
         /\ job.kind = "poll" => job.armed = armed
<1>1. /\ \A i \in Kinds(rest, {"poll"}) : i + 1 \in Kinds(queue, {"poll"}) /\ rest[i] = queue[i + 1]
      /\ 1 \in Kinds(queue, {"poll"}) <=> job.kind \in {"poll"}
      /\ queue[1] = job
  BY DEF Shrunk
<1> QED
  BY <1>1 DEF Current

LEMMA CurrentReported ==
  ASSUME NEW queue, NEW done, NEW d, NEW after, Grown(done, d, after), d.kind \notin PollDones, NEW armed,
         NEW doing, Current(armed, queue, doing, done), NEW w, w.kind # "sampled"
  PROVE  Current(armed, queue, w, after)
<1>1. Kinds(after, PollDones) = Kinds(done, PollDones) /\ \A i \in Kinds(done, PollDones) : after[i] = done[i]
  BY DEF Grown
<1> QED
  BY <1>1 DEF Current

LEMMA CurrentDispatched ==
  ASSUME NEW queue, NEW job, NEW after, Grown(queue, job, after), NEW armed, NEW doing, NEW done,
         job.kind = "poll" => job.armed = armed, Current(armed, queue, doing, done)
  PROVE  Current(armed, after, doing, done)
<1>1. \A i \in Kinds(queue, {"poll"}) : after[i] = queue[i]
  BY DEF Grown
<1>2. CASE job.kind = "poll"
  <2>1. Kinds(after, {"poll"}) = Kinds(queue, {"poll"}) \union {Len(queue) + 1} /\ after[Len(queue) + 1] = job
    BY <1>2 DEF Grown
  <2> QED
    BY <1>1, <1>2, <2>1 DEF Current
<1>3. CASE job.kind # "poll"
  <2>1. Kinds(after, {"poll"}) = Kinds(queue, {"poll"})
    BY <1>3 DEF Grown
  <2> QED
    BY <1>1, <2>1 DEF Current
<1> QED
  BY <1>2, <1>3

LEMMA CurrentHandled ==
  ASSUME NEW done, NEW d, NEW rest, Shrunk(done, d, rest), NEW armed, NEW queue, NEW doing,
         Current(armed, queue, doing, done)
  PROVE  Current(armed, queue, doing, rest)
<1>1. \A i \in Kinds(rest, PollDones) : i + 1 \in Kinds(done, PollDones) /\ rest[i] = done[i + 1]
  BY DEF Shrunk
<1> QED
  BY <1>1 DEF Current

-----------------------------------------------------------------------------
(* What the engine knows of its worker is true: one lemma for a machine    *)
(* nothing happens to, one for each step of its worker or its engine.      *)

LEMMA WorkerKept ==
  ASSUME NEW n \in Machine, WorkerInv(n),
         jobs'[n] = jobs[n], work'[n] = work[n], reports'[n] = reports[n], writeBack'[n] = writeBack[n],
         polling'[n] = polling[n], writes'[n] = writes[n], lost'[n] = lost[n]
  PROVE  WorkerInv(n)'
<1>1. Armed(n)' = Armed(n)
  BY DEF Armed
<1>2. PollsWithWorker(n)' = PollsWithWorker(n) /\ WritesWithWorker(n)' = WritesWithWorker(n)
  BY WithWorker, WithWorkerAfter
<1> QED
  BY <1>1, <1>2 DEF WorkerInv, LostIsDead, Accounted

(* A step of a worker that lives: what it was given is still with it.      *)
LEMMA WorkerMoved ==
  ASSUME NEW n \in Machine, WorkerInv(n), UNCHANGED syncVars,
         work[n].kind # "dead", work'[n].kind # "dead",
         Passes(jobs'[n], work'[n], reports'[n]),
         Current(Armed(n), jobs'[n], work'[n], reports'[n]),
         PollsWithWorker(n)' = PollsWithWorker(n), WritesWithWorker(n)' = WritesWithWorker(n),
         Obituaries(reports'[n]) = Obituaries(reports[n])
  PROVE  WorkerInv(n)'
<1>1. Armed(n)' = Armed(n)
  BY DEF Armed, syncVars
<1>2. LostIsDead(n)' /\ Accounted(n)'
  BY DEF WorkerInv, LostIsDead, Accounted, syncVars, Obituaries
<1> QED
  BY <1>1, <1>2 DEF WorkerInv

LEMMA QueueTypes ==
  ASSUME Types, NEW n \in Machine
  PROVE  /\ jobs[n] \in Seq(Jobs) /\ reports[n] \in Seq(Dones) /\ work[n] \in Works
         /\ reports \in [Machine -> Seq(Dones)] /\ work \in [Machine -> Works] /\ jobs \in [Machine -> Seq(Jobs)]
         /\ writes[n] \in Nat /\ polling[n] \in BOOLEAN
         /\ serial[n] \in Nat
BY DEF Types, WorkerTypes, SyncTypes, BoardTypes

LEMMA Reported ==
  ASSUME Types, NEW n \in Machine, NEW d \in Dones, Report(n, d)
  PROVE  /\ Grown(reports[n], d, reports'[n])
         /\ PollReports(reports'[n]) = PollReports(reports[n]) + (IF d.kind \in PollDones THEN 1 ELSE 0)
         /\ WriteReports(reports'[n]) = WriteReports(reports[n]) + (IF d.kind \in WriteEnds THEN 1 ELSE 0)
         /\ PollReports(reports[n]) \in Nat /\ WriteReports(reports[n]) \in Nat
         /\ d.kind # "worker_gone" => Obituaries(reports'[n]) = Obituaries(reports[n])
         /\ \A m \in Machine : m # n => reports'[m] = reports[m]
<1>1. reports \in [Machine -> Seq(Dones)] /\ reports[n] \in Seq(Dones)
  BY QueueTypes
<1>2. reports'[n] = Append(reports[n], d) /\ \A m \in Machine : m # n => reports'[m] = reports[m]
  BY <1>1 DEF Report
<1>3. Grown(reports[n], d, reports'[n])
  BY <1>1, <1>2, Grows
<1>4. /\ PollReports(reports'[n]) = PollReports(reports[n]) + (IF d.kind \in PollDones THEN 1 ELSE 0)
      /\ WriteReports(reports'[n]) = WriteReports(reports[n]) + (IF d.kind \in WriteEnds THEN 1 ELSE 0)
  BY <1>1, <1>2, MoreReportCounts
<1> QED
  BY <1>1, <1>2, <1>3, <1>4, CountTypes, ObituariesKept

(* The facts every such step starts from.                                  *)
LEMMA Started ==
  ASSUME Types, NEW n \in Machine, WorkerInv(n), NEW kind, Starts(n, kind)
  PROVE  /\ work[n] = Nothing
         /\ Head(jobs[n]) \in Jobs /\ Head(jobs[n]).kind = kind
         /\ jobs'[n] \in Seq(Jobs) /\ Shrunk(jobs[n], Head(jobs[n]), jobs'[n])
         /\ \A m \in Machine : m # n => jobs'[m] = jobs[m]
         /\ Passes(jobs'[n], Nothing, reports[n]) /\ Current(Armed(n), jobs'[n], Nothing, reports[n])
         /\ kind \in {"poll", "accept"} => Kinds(jobs'[n], {"poll"}) = {}
         /\ kind = "poll" => Kinds(reports[n], Ordered) = {} /\ Head(jobs[n]).armed = Armed(n)
         /\ kind = "poll" => PollJobs(jobs[n]) = PollJobs(jobs'[n]) + 1
         /\ kind # "poll" => PollJobs(jobs[n]) = PollJobs(jobs'[n])
         /\ kind = "accept" => WriteJobs(jobs[n]) = WriteJobs(jobs'[n]) + 1
         /\ kind # "accept" => WriteJobs(jobs[n]) = WriteJobs(jobs'[n])
         /\ PollJobs(jobs'[n]) \in Nat /\ WriteJobs(jobs'[n]) \in Nat
         /\ PollReports(reports[n]) \in Nat /\ WriteReports(reports[n]) \in Nat
<1>1. /\ work[n] = Nothing /\ jobs[n] \in Seq(Jobs) /\ jobs[n] # <<>>
      /\ Head(jobs[n]) \in Jobs /\ Head(jobs[n]).kind = kind /\ jobs'[n] = Tail(jobs[n])
      /\ jobs'[n] \in Seq(Jobs)
      /\ \A m \in Machine : m # n => jobs'[m] = jobs[m]
  BY StartsTypes DEF Starts
<1>2. Passes(jobs[n], Nothing, reports[n]) /\ Current(Armed(n), jobs[n], Nothing, reports[n])
  BY <1>1 DEF WorkerInv
<1>7. Shrunk(jobs[n], Head(jobs[n]), jobs'[n])
  BY <1>1, Shrinks
<1>3. /\ Passes(jobs'[n], Nothing, reports[n])
      /\ kind \in {"poll", "accept"} => Kinds(jobs'[n], {"poll"}) = {}
      /\ kind = "poll" => Kinds(reports[n], Ordered) = {}
  BY <1>1, <1>2, <1>7, JobTaken
<1>4. Current(Armed(n), jobs'[n], Nothing, reports[n]) /\ (kind = "poll" => Head(jobs[n]).armed = Armed(n))
  BY <1>1, <1>2, <1>7, CurrentStarted
<1>5. /\ kind = "poll" => PollJobs(jobs[n]) = PollJobs(jobs'[n]) + 1
      /\ kind # "poll" => PollJobs(jobs[n]) = PollJobs(jobs'[n])
      /\ kind = "accept" => WriteJobs(jobs[n]) = WriteJobs(jobs'[n]) + 1
      /\ kind # "accept" => WriteJobs(jobs[n]) = WriteJobs(jobs'[n])
      /\ PollJobs(jobs'[n]) \in Nat /\ WriteJobs(jobs'[n]) \in Nat
  BY <1>1, JobCounts
<1>6. PollReports(reports[n]) \in Nat /\ WriteReports(reports[n]) \in Nat
  BY QueueTypes, CountTypes
<1>8. /\ work[n] = Nothing
      /\ Head(jobs[n]) \in Jobs /\ Head(jobs[n]).kind = kind
      /\ jobs'[n] \in Seq(Jobs)
      /\ \A m \in Machine : m # n => jobs'[m] = jobs[m]
  BY <1>1
<1>9. kind = "poll" => Kinds(reports[n], Ordered) = {} /\ Head(jobs[n]).armed = Armed(n)
  BY <1>3, <1>4
<1> QED
  BY <1>3, <1>4, <1>5, <1>6, <1>7, <1>8, <1>9

LEMMA SampleSerialWorker ==
  ASSUME Types, NEW n \in Machine, WorkerInv(n), SampleSerial(n)
  PROVE  WorkerInv(n)'
<1> DEFINE job == Head(jobs[n])
<1>1. Starts(n, "poll") /\ UNCHANGED syncVars
  BY DEF SampleSerial
<1>2. /\ work[n] = Nothing /\ job \in Jobs /\ job.kind = "poll" /\ job.armed = Armed(n)
      /\ Kinds(jobs'[n], {"poll"}) = {} /\ Kinds(reports[n], Ordered) = {}
      /\ PollJobs(jobs[n]) = PollJobs(jobs'[n]) + 1 /\ WriteJobs(jobs[n]) = WriteJobs(jobs'[n])
      /\ PollJobs(jobs'[n]) \in Nat /\ WriteJobs(jobs'[n]) \in Nat
      /\ PollReports(reports[n]) \in Nat /\ WriteReports(reports[n]) \in Nat
  BY <1>1, Started
<1>3. reports[n] \in Seq(Dones) /\ work \in [Machine -> Works]
  BY QueueTypes
<1>4. CASE serial[n] \in job.seen
  <2> DEFINE done == [kind |-> "nothing_new", armed |-> job.armed]
  <2>1. Report(n, done) /\ work' = work
    BY <1>4 DEF SampleSerial
  <2>2. /\ done \in Dones /\ done.kind = "nothing_new" /\ done.armed = Armed(n)
        /\ done.kind \in PollDones /\ done.kind \notin WriteEnds
    BY <1>2, JobParts DEF Dones, PollDones, WriteEnds
  <2> HIDE DEF done, job
  <2>3. /\ Grown(reports[n], done, reports'[n]) /\ work'[n] = Nothing
        /\ PollReports(reports'[n]) = PollReports(reports[n]) + 1
        /\ WriteReports(reports'[n]) = WriteReports(reports[n])
        /\ Obituaries(reports'[n]) = Obituaries(reports[n])
    BY <1>2, <2>1, <2>2, Reported
  <2>4. Passes(jobs'[n], work'[n], reports'[n])
    BY <1>2, <2>2, <2>3, PollEnds
  <2>5. Current(Armed(n), jobs'[n], work'[n], reports'[n])
    BY <1>2, <2>2, <2>3, CurrentPollEnds
  <2>6. Nothing.kind = "nothing"
    BY DEF Nothing
  <2>7. PollsWithWorker(n)' = PollsWithWorker(n) /\ WritesWithWorker(n)' = WritesWithWorker(n)
    BY <1>2, <2>3, <2>6, WithWorker, WithWorkerAfter
  <2> QED
    BY <1>1, <1>2, <2>3, <2>4, <2>5, <2>6, <2>7, WorkerMoved
<1>5. CASE serial[n] \notin job.seen
  <2>1. work' = [work EXCEPT ![n] = [kind |-> "sampled", serial |-> serial[n], armed |-> job.armed]] /\ reports' = reports
    BY <1>5 DEF SampleSerial
  <2>2. work'[n].kind = "sampled" /\ work'[n].armed = Armed(n) /\ reports'[n] = reports[n]
    BY <1>2, <1>3, <2>1
  <2> HIDE DEF job
  <2>3. Passes(jobs'[n], work'[n], reports'[n])
    BY <1>2, <2>2, PollSampled
  <2>4. Current(Armed(n), jobs'[n], work'[n], reports'[n])
    BY <1>2, <2>2, OrderedKinds DEF Current
  <2>5. Nothing.kind = "nothing"
    BY DEF Nothing
  <2>6. PollsWithWorker(n)' = PollsWithWorker(n) /\ WritesWithWorker(n)' = WritesWithWorker(n)
    BY <1>2, <2>2, <2>5, WithWorker, WithWorkerAfter
  <2> QED
    BY <1>1, <1>2, <2>2, <2>3, <2>4, <2>5, <2>6, WorkerMoved
<1> QED
  BY <1>4, <1>5

(* What a sample finds.                                                    *)
Sample(n) ==
  LET armed == work[n].armed
      asks == armed # Nothing /\ armed.serial # work[n].serial /\ armed.format \in offered[n]
  IN [kind |-> "polled", serial |-> work[n].serial, formats |-> offered[n], armed |-> armed,
      digest |-> IF asks THEN ReadBytes(n, armed.format) ELSE Nothing]

LEMMA SampleFound ==
  ASSUME Types, NEW n \in Machine, SampleFormats(n)
  PROVE  /\ Sample(n) \in Dones /\ Sample(n).kind = "polled" /\ Sample(n).armed = work[n].armed
         /\ Sample(n).serial = work[n].serial /\ Sample(n).formats = offered[n]
         /\ Report(n, Sample(n)) /\ work[n].kind = "sampled" /\ work' = [work EXCEPT ![n] = Nothing]
<1> DEFINE digest ==
        IF work[n].armed # Nothing /\ work[n].armed.serial # work[n].serial /\ work[n].armed.format \in offered[n]
        THEN ReadBytes(n, work[n].armed.format) ELSE Nothing
      done == [kind |-> "polled", serial |-> work[n].serial, formats |-> offered[n], armed |-> work[n].armed,
               digest |-> digest]
<1>1. work[n].serial \in Nat /\ work[n].armed \in Arms /\ offered[n] \in SUBSET Format
  BY QueueTypes, WorkParts DEF SampleFormats, Types, BoardTypes
<1>2. digest \in BytesOf
  <2>1. Nothing \in BytesOf
    BY DEF BytesOf
  <2>2. work[n].armed # Nothing => work[n].armed.format \in Format
    BY <1>1 DEF Arms
  <2> QED
    BY <2>1, <2>2, ReadType
<1>3. Report(n, done) /\ Sample(n) = done
  BY DEF SampleFormats, Sample
<1> HIDE DEF digest
<1>4. done \in Dones /\ done.kind = "polled" /\ done.armed = work[n].armed /\ done.serial = work[n].serial
      /\ done.formats = offered[n]
  BY <1>1, <1>2 DEF Dones
<1> HIDE DEF done
<1> QED
  BY <1>3, <1>4 DEF SampleFormats

LEMMA SampleFormatsWorker ==
  ASSUME Types, NEW n \in Machine, WorkerInv(n), SampleFormats(n)
  PROVE  WorkerInv(n)'
<1> DEFINE d == Sample(n)
<1>1. /\ d \in Dones /\ d.kind = "polled" /\ d.armed = work[n].armed /\ Report(n, d)
      /\ work[n].kind = "sampled" /\ work' = [work EXCEPT ![n] = Nothing] /\ UNCHANGED <<jobs, syncVars>>
  BY SampleFound DEF SampleFormats
<1> HIDE DEF d
<1>2. d.kind \in PollDones /\ d.kind \notin WriteEnds
  BY <1>1 DEF PollDones, WriteEnds
<1>3. work \in [Machine -> Works] /\ jobs[n] \in Seq(Jobs)
  BY QueueTypes
<1>4. /\ work'[n] = Nothing /\ jobs'[n] = jobs[n]
      /\ Grown(reports[n], d, reports'[n])
      /\ PollReports(reports'[n]) = PollReports(reports[n]) + 1
      /\ WriteReports(reports'[n]) = WriteReports(reports[n])
      /\ PollReports(reports[n]) \in Nat /\ WriteReports(reports[n]) \in Nat
      /\ Obituaries(reports'[n]) = Obituaries(reports[n])
  BY <1>1, <1>2, <1>3, Reported
<1>5. Passes(jobs[n], work[n], reports[n]) /\ work[n].armed = Armed(n)
  BY <1>1 DEF WorkerInv, Current
<1>6. Kinds(jobs[n], {"poll"}) = {} /\ Kinds(reports[n], Ordered) = {}
  BY <1>1, <1>5 DEF Passes, PollsGoFirst
<1>7. Passes(jobs'[n], work'[n], reports'[n])
  BY <1>2, <1>4, <1>6, PollEnds
<1>8. Current(Armed(n), jobs'[n], work'[n], reports'[n])
  BY <1>1, <1>2, <1>4, <1>5, <1>6, CurrentPollEnds
<1>9. PollJobs(jobs[n]) \in Nat /\ WriteJobs(jobs[n]) \in Nat /\ Nothing.kind = "nothing"
  BY <1>3, CountTypes DEF Nothing
<1>10. PollsWithWorker(n)' = PollsWithWorker(n) /\ WritesWithWorker(n)' = WritesWithWorker(n)
  BY <1>1, <1>4, <1>9, WithWorker, WithWorkerAfter
<1> QED
  BY <1>1, <1>4, <1>7, <1>8, <1>9, <1>10, WorkerMoved

LEMMA ReadForPeerWorker ==
  ASSUME Types, NEW n \in Machine, WorkerInv(n), ReadForPeer(n)
  PROVE  WorkerInv(n)'
<1> DEFINE d == [kind |-> "served", format |-> Head(jobs[n]).format, serial |-> Head(jobs[n]).serial,
                 bytes |-> ReadBytes(n, Head(jobs[n]).format)]
<1>1. Starts(n, "serve") /\ Report(n, d) /\ UNCHANGED <<work, syncVars>>
  BY DEF ReadForPeer
<1>2. /\ work[n] = Nothing /\ Head(jobs[n]) \in Jobs /\ Head(jobs[n]).kind = "serve"
      /\ Passes(jobs'[n], Nothing, reports[n]) /\ Current(Armed(n), jobs'[n], Nothing, reports[n])
      /\ PollJobs(jobs[n]) = PollJobs(jobs'[n]) /\ WriteJobs(jobs[n]) = WriteJobs(jobs'[n])
  BY <1>1, Started
<1>3. d \in Dones /\ d.kind = "served"
  BY <1>2, JobParts, ReadType DEF Dones
<1> HIDE DEF d
<1>4. d.kind \notin PollDones /\ d.kind \notin WriteEnds
  BY <1>3 DEF PollDones, WriteEnds
<1>5. /\ Grown(reports[n], d, reports'[n]) /\ work'[n] = Nothing
      /\ PollReports(reports'[n]) = PollReports(reports[n])
      /\ WriteReports(reports'[n]) = WriteReports(reports[n])
      /\ Obituaries(reports'[n]) = Obituaries(reports[n])
  BY <1>1, <1>2, <1>3, <1>4, Reported
<1>6. Nothing.kind = "nothing"
  BY DEF Nothing
<1>7. Passes(jobs'[n], work'[n], reports'[n])
  BY <1>2, <1>3, <1>5, OtherReport
<1>8. Current(Armed(n), jobs'[n], work'[n], reports'[n])
  BY <1>2, <1>4, <1>5, <1>6, CurrentReported
<1>9. PollsWithWorker(n)' = PollsWithWorker(n) /\ WritesWithWorker(n)' = WritesWithWorker(n)
  BY <1>2, <1>5, WithWorker, WithWorkerAfter
<1> QED
  BY <1>1, <1>2, <1>5, <1>6, <1>7, <1>8, <1>9, WorkerMoved

LEMMA UnpackedWorker ==
  ASSUME Types, NEW n \in Machine, WorkerInv(n), Unpack(n), work' # work
  PROVE  WorkerInv(n)'
<1> DEFINE d == [kind |-> "writing", bytes |-> Head(jobs[n]).bytes]
<1>1. Starts(n, "accept") /\ Report(n, d) /\ work' = [work EXCEPT ![n] = d] /\ UNCHANGED syncVars
  BY DEF Unpack
<1>2. /\ work[n] = Nothing /\ Head(jobs[n]) \in Jobs /\ Head(jobs[n]).kind = "accept"
      /\ Passes(jobs'[n], Nothing, reports[n]) /\ Current(Armed(n), jobs'[n], Nothing, reports[n])
      /\ Kinds(jobs'[n], {"poll"}) = {}
      /\ PollJobs(jobs[n]) = PollJobs(jobs'[n]) /\ WriteJobs(jobs[n]) = WriteJobs(jobs'[n]) + 1
      /\ PollJobs(jobs'[n]) \in Nat /\ WriteJobs(jobs'[n]) \in Nat
      /\ PollReports(reports[n]) \in Nat /\ WriteReports(reports[n]) \in Nat
  BY <1>1, Started
<1>3. d \in Dones /\ d.kind = "writing"
  BY <1>2, JobParts DEF Dones
<1> HIDE DEF d
<1>4. d.kind \notin PollDones /\ d.kind \notin WriteEnds /\ work \in [Machine -> Works]
  BY <1>3, QueueTypes DEF PollDones, WriteEnds
<1>5. /\ Grown(reports[n], d, reports'[n]) /\ work'[n] = d
      /\ PollReports(reports'[n]) = PollReports(reports[n])
      /\ WriteReports(reports'[n]) = WriteReports(reports[n])
      /\ Obituaries(reports'[n]) = Obituaries(reports[n])
  BY <1>1, <1>3, <1>4, Reported
<1>6. Nothing.kind = "nothing"
  BY DEF Nothing
<1>7. Passes(jobs'[n], work'[n], reports'[n])
  BY <1>2, <1>3, <1>5, WriteBegins
<1>8. Current(Armed(n), jobs'[n], work'[n], reports'[n])
  BY <1>2, <1>3, <1>4, <1>5, CurrentReported
<1>9. PollsWithWorker(n)' = PollsWithWorker(n) /\ WritesWithWorker(n)' = WritesWithWorker(n)
  BY <1>2, <1>3, <1>5, <1>6, WithWorker, WithWorkerAfter
<1> QED
  BY <1>1, <1>2, <1>3, <1>5, <1>6, <1>7, <1>8, <1>9, WorkerMoved

LEMMA DiscardedWorker ==
  ASSUME Types, NEW n \in Machine, WorkerInv(n), Unpack(n), work' = work
  PROVE  WorkerInv(n)'
<1> DEFINE d == [kind |-> "discarded"]
<1>1. Starts(n, "accept") /\ Report(n, d) /\ UNCHANGED syncVars
  <2>1. work[n] = Nothing /\ work \in [Machine -> Works]
    BY QueueTypes DEF Unpack, Starts
  <2>2. ~(work' = [work EXCEPT ![n] = [kind |-> "writing", bytes |-> Head(jobs[n]).bytes]])
    BY <2>1 DEF Nothing
  <2> QED
    BY <2>2 DEF Unpack
<1>2. /\ work[n] = Nothing /\ Head(jobs[n]) \in Jobs /\ Head(jobs[n]).kind = "accept"
      /\ Passes(jobs'[n], Nothing, reports[n]) /\ Current(Armed(n), jobs'[n], Nothing, reports[n])
      /\ Kinds(jobs'[n], {"poll"}) = {}
      /\ PollJobs(jobs[n]) = PollJobs(jobs'[n]) /\ WriteJobs(jobs[n]) = WriteJobs(jobs'[n]) + 1
      /\ PollJobs(jobs'[n]) \in Nat /\ WriteJobs(jobs'[n]) \in Nat
      /\ PollReports(reports[n]) \in Nat /\ WriteReports(reports[n]) \in Nat
  BY <1>1, Started
<1>3. d \in Dones /\ d.kind = "discarded"
  BY DEF Dones
<1> HIDE DEF d
<1>4. d.kind \notin PollDones /\ d.kind \in WriteEnds
  BY <1>3 DEF PollDones, WriteEnds
<1>5. /\ Grown(reports[n], d, reports'[n]) /\ work'[n] = Nothing
      /\ PollReports(reports'[n]) = PollReports(reports[n])
      /\ WriteReports(reports'[n]) = WriteReports(reports[n]) + 1
      /\ Obituaries(reports'[n]) = Obituaries(reports[n])
  BY <1>1, <1>2, <1>3, <1>4, Reported
<1>6. Nothing.kind = "nothing"
  BY DEF Nothing
<1>7. Passes(jobs'[n], work'[n], reports'[n])
  BY <1>2, <1>3, <1>5, WriteDropped
<1>8. Current(Armed(n), jobs'[n], work'[n], reports'[n])
  BY <1>2, <1>4, <1>5, <1>6, CurrentReported
<1>9. PollsWithWorker(n)' = PollsWithWorker(n) /\ WritesWithWorker(n)' = WritesWithWorker(n)
  BY <1>2, <1>5, <1>6, WithWorker, WithWorkerAfter
<1> QED
  BY <1>1, <1>2, <1>5, <1>6, <1>7, <1>8, <1>9, WorkerMoved

LEMMA UnpackWorker ==
  ASSUME Types, NEW n \in Machine, WorkerInv(n), Unpack(n)
  PROVE  WorkerInv(n)'
BY UnpackedWorker, DiscardedWorker

LEMMA WriteWorker ==
  ASSUME Types, NEW n \in Machine, WorkerInv(n), Write(n)
  PROVE  WorkerInv(n)'
<1>1. /\ work[n].kind = "writing" /\ work' = [work EXCEPT ![n] = [kind |-> "written"]]
      /\ UNCHANGED <<jobs, reports, syncVars>>
  BY DEF Write
<1>2. work'[n].kind = "written" /\ jobs'[n] = jobs[n] /\ reports'[n] = reports[n]
  BY <1>1, QueueTypes
<1>3. Passes(jobs[n], work[n], reports[n]) /\ Current(Armed(n), jobs[n], work[n], reports[n])
  BY DEF WorkerInv
<1>4. Passes(jobs'[n], work'[n], reports'[n])
  BY <1>1, <1>2, <1>3, WriteMade
<1>5. Current(Armed(n), jobs'[n], work'[n], reports'[n])
  BY <1>2, <1>3 DEF Current
<1>6. PollsWithWorker(n)' = PollsWithWorker(n) /\ WritesWithWorker(n)' = WritesWithWorker(n)
  BY <1>1, <1>2, WithWorker, WithWorkerAfter
<1> QED
  BY <1>1, <1>2, <1>4, <1>5, <1>6, WorkerMoved

LEMMA WriteEndsWorker ==
  ASSUME Types, NEW n \in Machine, WorkerInv(n), WriteRefused(n) \/ ReadSerial(n)
  PROVE  WorkerInv(n)'
<1> DEFINE d == IF work[n].kind = "writing" THEN [kind |-> "not_written"] ELSE [kind |-> "wrote", serial |-> serial[n]]
<1>1. /\ work[n].kind \in {"writing", "written"} /\ Report(n, d) /\ work' = [work EXCEPT ![n] = Nothing]
      /\ UNCHANGED <<jobs, syncVars>>
  BY DEF WriteRefused, ReadSerial
<1>2. d \in Dones /\ d.kind \in {"wrote", "not_written"}
  BY QueueTypes DEF Dones
<1> HIDE DEF d
<1>3. d.kind \notin PollDones /\ d.kind \in WriteEnds
  BY <1>2 DEF PollDones, WriteEnds
<1>4. work \in [Machine -> Works] /\ jobs[n] \in Seq(Jobs) /\ Nothing.kind = "nothing"
  BY QueueTypes DEF Nothing
<1>5. /\ Grown(reports[n], d, reports'[n]) /\ work'[n] = Nothing /\ jobs'[n] = jobs[n]
      /\ PollReports(reports'[n]) = PollReports(reports[n])
      /\ WriteReports(reports'[n]) = WriteReports(reports[n]) + 1
      /\ PollReports(reports[n]) \in Nat /\ WriteReports(reports[n]) \in Nat
      /\ Obituaries(reports'[n]) = Obituaries(reports[n])
  BY <1>1, <1>2, <1>3, <1>4, Reported
<1>6. Passes(jobs[n], work[n], reports[n]) /\ Current(Armed(n), jobs[n], work[n], reports[n])
  BY DEF WorkerInv
<1>7. Passes(jobs'[n], work'[n], reports'[n])
  BY <1>1, <1>3, <1>5, <1>6, WriteEnded
<1>8. Current(Armed(n), jobs'[n], work'[n], reports'[n])
  BY <1>3, <1>4, <1>5, <1>6, CurrentReported
<1>9. PollJobs(jobs[n]) \in Nat /\ WriteJobs(jobs[n]) \in Nat
  BY <1>4, CountTypes
<1>10. PollsWithWorker(n)' = PollsWithWorker(n) /\ WritesWithWorker(n)' = WritesWithWorker(n)
  BY <1>1, <1>4, <1>5, <1>9, WithWorker, WithWorkerAfter
<1> QED
  BY <1>1, <1>4, <1>5, <1>7, <1>8, <1>10, WorkerMoved

LEMMA WorkerDiesWorker ==
  ASSUME Types, NEW n \in Machine, WorkerInv(n), WorkerDies(n)
  PROVE  WorkerInv(n)'
<1> DEFINE d == [kind |-> "worker_gone"]
<1>1. /\ Report(n, d) /\ work' = [work EXCEPT ![n] = [kind |-> "dead"]] /\ jobs' = [jobs EXCEPT ![n] = <<>>]
      /\ UNCHANGED syncVars
  BY DEF WorkerDies
<1>2. d \in Dones /\ d.kind = "worker_gone"
  BY DEF Dones
<1> HIDE DEF d
<1>3. work'[n].kind = "dead" /\ jobs'[n] = <<>>
  BY <1>1, QueueTypes
<1>4. Grown(reports[n], d, reports'[n])
  BY <1>1, <1>2, Reported
<1>5. Passes(jobs[n], work[n], reports[n]) /\ Current(Armed(n), jobs[n], work[n], reports[n])
  BY DEF WorkerInv
<1>6. Passes(<<>>, work'[n], reports[n])
  BY <1>3, <1>5, WorkerDead
<1>7. Passes(jobs'[n], work'[n], reports'[n])
  BY <1>2, <1>3, <1>4, <1>6, OtherReport
<1>8. Current(Armed(n), <<>>, work'[n], reports[n])
  BY <1>3, <1>5, NoJobs DEF Current
<1>9. Current(Armed(n), jobs'[n], work'[n], reports'[n])
  <2>1. d.kind \notin PollDones
    BY <1>2 DEF PollDones
  <2> QED
    BY <1>3, <1>4, <1>8, <2>1, CurrentReported
<1>10. Armed(n)' = Armed(n)
  BY <1>1 DEF Armed, syncVars
<1>11. Kinds(reports'[n], {"worker_gone"}) # {}
  BY <1>2, <1>4, ObituaryCame DEF Obituaries
<1> QED
  BY <1>3, <1>7, <1>9, <1>10, <1>11 DEF WorkerInv, LostIsDead, Accounted

(* A job that could not be dispatched.                                     *)
LEMMA GivenUp ==
  ASSUME Types, NEW n \in Machine, WorkerInv(n), CannotDispatch(n), GivesUpWorker(n),
         UNCHANGED <<work, reports, writeBack>>
  PROVE  WorkerInv(n)'
<1>1. CASE work[n].kind = "dead"
  <2>1. polling'[n] = FALSE /\ writes'[n] = 0 /\ lost'[n] = TRUE /\ jobs' = jobs
    BY <1>1 DEF GivesUpWorker, CannotDispatch, Types, SyncTypes
  <2>2. Armed(n)' = Armed(n)
    BY DEF Armed
  <2> QED
    BY <1>1, <2>1, <2>2 DEF WorkerInv, LostIsDead, Accounted
<1>2. CASE work[n].kind # "dead"
  <2>1. UNCHANGED <<jobs, polling, writes, lost>>
    BY <1>2 DEF GivesUpWorker, CannotDispatch
  <2> QED
    BY <2>1, WorkerKept
<1> QED
  BY <1>1, <1>2

(* A job that was.                                                         *)
LEMMA Dispatched ==
  ASSUME Types, NEW n \in Machine, WorkerInv(n), NEW job \in Jobs, Dispatches(n, job)
  PROVE  /\ Grown(jobs[n], job, jobs'[n])
         /\ job.kind = "poll" => PollJobs(jobs'[n]) = PollJobs(jobs[n]) + 1
         /\ job.kind # "poll" => PollJobs(jobs'[n]) = PollJobs(jobs[n])
         /\ job.kind = "accept" => WriteJobs(jobs'[n]) = WriteJobs(jobs[n]) + 1
         /\ job.kind # "accept" => WriteJobs(jobs'[n]) = WriteJobs(jobs[n])
         /\ PollJobs(jobs[n]) \in Nat /\ WriteJobs(jobs[n]) \in Nat
         /\ PollReports(reports[n]) \in Nat /\ WriteReports(reports[n]) \in Nat
         /\ work[n].kind # "dead" /\ ~lost[n] /\ Kinds(reports[n], {"worker_gone"}) = {}
         /\ PollsWithWorker(n) = IF polling[n] THEN 1 ELSE 0
         /\ WritesWithWorker(n) = writes[n]
         /\ \A m \in Machine : m # n => jobs'[m] = jobs[m]
<1>1. /\ jobs[n] \in Seq(Jobs) /\ jobs'[n] = Append(jobs[n], job)
      /\ \A m \in Machine : m # n => jobs'[m] = jobs[m]
  BY DispatchTypes
<1>2. Grown(jobs[n], job, jobs'[n])
  BY <1>1, Grows
<1>3. /\ PollJobs(jobs'[n]) = PollJobs(jobs[n]) + (IF job.kind = "poll" THEN 1 ELSE 0)
      /\ WriteJobs(jobs'[n]) = WriteJobs(jobs[n]) + (IF job.kind = "accept" THEN 1 ELSE 0)
  BY <1>1, MoreJobCounts
<1>4. /\ PollJobs(jobs[n]) \in Nat /\ WriteJobs(jobs[n]) \in Nat
      /\ PollReports(reports[n]) \in Nat /\ WriteReports(reports[n]) \in Nat
  BY QueueTypes, CountTypes
<1>5. work[n].kind # "dead"
  BY DEF Dispatches
<1>6. ~lost[n] /\ Kinds(reports[n], {"worker_gone"}) = {}
  BY <1>5 DEF WorkerInv, LostIsDead
<1>7. PollsWithWorker(n) = (IF polling[n] THEN 1 ELSE 0) /\ WritesWithWorker(n) = writes[n]
  BY <1>5, <1>6 DEF WorkerInv, Accounted
<1>8. \A m \in Machine : m # n => jobs'[m] = jobs[m]
  BY <1>1
<1>9. /\ job.kind = "poll" => PollJobs(jobs'[n]) = PollJobs(jobs[n]) + 1
      /\ job.kind # "poll" => PollJobs(jobs'[n]) = PollJobs(jobs[n])
      /\ job.kind = "accept" => WriteJobs(jobs'[n]) = WriteJobs(jobs[n]) + 1
      /\ job.kind # "accept" => WriteJobs(jobs'[n]) = WriteJobs(jobs[n])
  BY <1>3, <1>4
<1> QED
  BY <1>2, <1>4, <1>5, <1>6, <1>7, <1>8, <1>9

LEMMA PollClipboardWorker ==
  ASSUME Types, NEW n \in Machine, WorkerInv(n), PollClipboard(n)
  PROVE  WorkerInv(n)'
<1> DEFINE job == [kind |-> "poll", seen |-> SeenSerials(n), armed |-> Armed(n)]
<1>1. /\ ~polling[n] /\ writes[n] = 0 /\ UNCHANGED <<work, reports, writeBack>>
      /\ \/ /\ Dispatches(n, job) /\ polling' = [polling EXCEPT ![n] = TRUE] /\ UNCHANGED <<writes, lost>>
         \/ CannotDispatch(n) /\ GivesUpWorker(n)
  BY DEF PollClipboard, MayPoll
<1>2. job \in Jobs /\ job.kind = "poll" /\ job.armed = Armed(n)
  BY ArmedType DEF Jobs
<1> HIDE DEF job
<1>3. CASE Dispatches(n, job) /\ polling' = [polling EXCEPT ![n] = TRUE] /\ UNCHANGED <<writes, lost>>
  <2>1. /\ Grown(jobs[n], job, jobs'[n]) /\ PollJobs(jobs'[n]) = PollJobs(jobs[n]) + 1
        /\ WriteJobs(jobs'[n]) = WriteJobs(jobs[n])
        /\ PollJobs(jobs[n]) \in Nat /\ WriteJobs(jobs[n]) \in Nat
        /\ PollReports(reports[n]) \in Nat /\ WriteReports(reports[n]) \in Nat
        /\ work[n].kind # "dead" /\ ~lost[n] /\ Kinds(reports[n], {"worker_gone"}) = {}
        /\ PollsWithWorker(n) = 0 /\ WritesWithWorker(n) = 0
    BY <1>1, <1>2, <1>3, Dispatched
  <2>2. /\ PollJobs(jobs[n]) = 0 /\ WriteJobs(jobs[n]) = 0
        /\ PollReports(reports[n]) = 0 /\ WriteReports(reports[n]) = 0
        /\ work[n].kind \notin {"sampled", "writing", "written"}
    BY <2>1, WithWorker
  <2>3. /\ Kinds(jobs[n], {"poll"}) = {} /\ Kinds(jobs[n], {"accept"}) = {}
        /\ Kinds(reports[n], PollDones) = {} /\ Kinds(reports[n], WriteEnds) = {}
    <3>1. jobs[n] \in Seq(Jobs) /\ reports[n] \in Seq(Dones)
      BY QueueTypes
    <3>2. Kinds(jobs[n], {"poll"}) = {} /\ Kinds(jobs[n], {"accept"}) = {}
      BY <2>2, <3>1, NoJobsCounted
    <3>3. Kinds(reports[n], PollDones) = {} /\ Kinds(reports[n], WriteEnds) = {}
      BY <2>2, <3>1, NoReportsCounted
    <3> QED
      BY <3>2, <3>3
  <2>4. Kinds(reports[n], {"writing"}) = {}
    BY <2>1, <2>2, <2>3 DEF WorkerInv, Passes, WritesEnd
  <2>5. Kinds(reports[n], Ordered) = {} /\ Kinds(jobs[n], {"poll", "accept"}) = {}
    BY <2>3, <2>4 DEF Kinds, Ordered, WriteDones, WriteEnds
  <2>6. Passes(jobs'[n], work'[n], reports'[n])
    BY <1>1, <1>2, <2>1, <2>2, <2>5, PollDispatched
  <2>7. Current(Armed(n), jobs'[n], work'[n], reports'[n])
    BY <1>1, <1>2, <2>1, CurrentDispatched DEF WorkerInv
  <2>8. Armed(n)' = Armed(n)
    BY <1>1 DEF Armed
  <2>9. polling'[n] = TRUE /\ writes'[n] = 0 /\ lost'[n] = lost[n]
    BY <1>1, <1>3 DEF Types, SyncTypes
  <2>10. PollsWithWorker(n)' = 1 /\ WritesWithWorker(n)' = 0
    BY <1>1, <2>1, <2>2, WithWorkerAfter
  <2>11. LostIsDead(n)' /\ Accounted(n)'
    BY <1>1, <2>1, <2>9, <2>10 DEF LostIsDead, Accounted
  <2> QED
    BY <2>6, <2>7, <2>8, <2>11 DEF WorkerInv
<1>4. CASE CannotDispatch(n) /\ GivesUpWorker(n)
  BY <1>1, <1>4, GivenUp
<1> QED
  BY <1>1, <1>3, <1>4

(* What handling a report leaves.                                          *)
LEMMA Handled ==
  ASSUME Types, NEW n \in Machine, WorkerInv(n), OnClipboardDone(n), NEW d, d = Head(reports[n])
  PROVE  /\ d \in Dones /\ UNCHANGED <<jobs, work>> /\ \A m \in Machine : m # n => reports'[m] = reports[m]
         /\ Shrunk(reports[n], d, reports'[n])
         /\ Passes(jobs[n], work[n], reports'[n])
         /\ d.kind \in Ordered => \A armed : Current(armed, jobs[n], work[n], reports'[n])
         /\ Current(Armed(n), jobs[n], work[n], reports'[n])
         /\ PollReports(reports[n]) = PollReports(reports'[n]) + (IF d.kind \in PollDones THEN 1 ELSE 0)
         /\ WriteReports(reports[n]) = WriteReports(reports'[n]) + (IF d.kind \in WriteEnds THEN 1 ELSE 0)
         /\ PollReports(reports'[n]) \in Nat /\ WriteReports(reports'[n]) \in Nat
         /\ PollJobs(jobs[n]) \in Nat /\ WriteJobs(jobs[n]) \in Nat
         /\ LostIsDead(n) /\ Accounted(n)
         /\ d.kind # "worker_gone" => (Obituaries(reports'[n]) = {} <=> Obituaries(reports[n]) = {})
         /\ d.kind = "worker_gone" => Obituaries(reports[n]) # {}
<1>1. /\ reports[n] \in Seq(Dones) /\ reports[n] # <<>> /\ reports'[n] = Tail(reports[n]) /\ d \in Dones
      /\ \A m \in Machine : m # n => reports'[m] = reports[m]
  BY DoneTaken
<1>2. UNCHANGED <<jobs, work>>
  BY DEF OnClipboardDone, workerVars
<1>3. Shrunk(reports[n], d, reports'[n])
  BY <1>1, Shrinks
<1>4. /\ Passes(jobs[n], work[n], reports[n]) /\ Current(Armed(n), jobs[n], work[n], reports[n])
      /\ LostIsDead(n) /\ Accounted(n)
  BY DEF WorkerInv
<1>5. /\ Passes(jobs[n], work[n], reports'[n])
      /\ d.kind \in Ordered =>
           Kinds(reports'[n], PollDones) = {} /\ Kinds(jobs[n], {"poll"}) = {} /\ work[n].kind # "sampled"
  BY <1>3, <1>4, ReportHandled
<1>6. d.kind \in Ordered => \A armed : Current(armed, jobs[n], work[n], reports'[n])
  BY <1>5, CurrentIfNone
<1>7. Current(Armed(n), jobs[n], work[n], reports'[n])
  BY <1>3, <1>4, CurrentHandled
<1>8. /\ PollReports(reports[n]) = PollReports(reports'[n]) + (IF d.kind \in PollDones THEN 1 ELSE 0)
      /\ WriteReports(reports[n]) = WriteReports(reports'[n]) + (IF d.kind \in WriteEnds THEN 1 ELSE 0)
      /\ PollReports(reports'[n]) \in Nat /\ WriteReports(reports'[n]) \in Nat
  BY <1>1, ReportCounts
<1>9. PollJobs(jobs[n]) \in Nat /\ WriteJobs(jobs[n]) \in Nat
  BY QueueTypes, CountTypes
<1>10. /\ d.kind # "worker_gone" => (Obituaries(reports'[n]) = {} <=> Obituaries(reports[n]) = {})
       /\ d.kind = "worker_gone" => Obituaries(reports[n]) # {}
  BY <1>3, ObituariesKept, ObituaryCame
<1>11. d \in Dones /\ \A m \in Machine : m # n => reports'[m] = reports[m]
  BY <1>1
<1> QED
  BY <1>2, <1>3, <1>4, <1>5, <1>6, <1>7, <1>8, <1>9, <1>10, <1>11

(* The engine has a poll that is reported, a write that ended, ...         *)
LEMMA PollHandled ==
  ASSUME Types, NEW n \in Machine, WorkerInv(n), OnClipboardDone(n), Head(reports[n]).kind \in PollDones,
         polling' = [polling EXCEPT ![n] = FALSE], UNCHANGED <<writes, lost>>
  PROVE  Accounted(n)' /\ LostIsDead(n)'
<1> DEFINE d == Head(reports[n])
<1>1. d.kind # "worker_gone" /\ d.kind \notin WriteEnds /\ d.kind \in PollDones
  BY DEF PollDones, WriteEnds
<1>2. /\ UNCHANGED <<jobs, work>>
      /\ PollReports(reports[n]) = PollReports(reports'[n]) + (IF d.kind \in PollDones THEN 1 ELSE 0)
      /\ WriteReports(reports[n]) = WriteReports(reports'[n]) + (IF d.kind \in WriteEnds THEN 1 ELSE 0)
      /\ PollReports(reports'[n]) \in Nat /\ WriteReports(reports'[n]) \in Nat
      /\ PollJobs(jobs[n]) \in Nat /\ WriteJobs(jobs[n]) \in Nat
      /\ LostIsDead(n) /\ Accounted(n)
      /\ d.kind # "worker_gone" => (Obituaries(reports'[n]) = {} <=> Obituaries(reports[n]) = {})
  BY Handled
<1> HIDE DEF d
<1>3. /\ PollReports(reports[n]) = PollReports(reports'[n]) + 1
      /\ WriteReports(reports[n]) = WriteReports(reports'[n])
      /\ Obituaries(reports'[n]) = {} <=> Obituaries(reports[n]) = {}
  BY <1>1, <1>2
<1>4. polling[n] \in BOOLEAN /\ writes[n] \in Nat /\ polling'[n] = FALSE /\ writes'[n] = writes[n] /\ lost'[n] = lost[n]
  BY QueueTypes DEF Types, SyncTypes
<1>5. PollsWithWorker(n)' = PollsWithWorker(n) - 1 /\ WritesWithWorker(n)' = WritesWithWorker(n)
  BY <1>2, <1>3, WithWorker, WithWorkerAfter
<1>6. PollsWithWorker(n) \in Nat \ {0}
  BY <1>2, <1>3, WithWorker
<1>7. LostIsDead(n)'
  BY <1>2, <1>3, <1>4 DEF LostIsDead, Obituaries
<1>8. Accounted(n)'
  BY <1>2, <1>3, <1>4, <1>5, <1>6 DEF Accounted, Obituaries
<1> QED
  BY <1>7, <1>8

LEMMA WriteHandled ==
  ASSUME Types, NEW n \in Machine, WorkerInv(n), OnClipboardDone(n), Head(reports[n]).kind \in WriteEnds,
         SettlesWrite(n)
  PROVE  Accounted(n)' /\ LostIsDead(n)'
<1> DEFINE d == Head(reports[n])
<1>1. d.kind # "worker_gone" /\ d.kind \in WriteEnds /\ d.kind \notin PollDones
  BY DEF PollDones, WriteEnds
<1>2. /\ UNCHANGED <<jobs, work>>
      /\ PollReports(reports[n]) = PollReports(reports'[n]) + (IF d.kind \in PollDones THEN 1 ELSE 0)
      /\ WriteReports(reports[n]) = WriteReports(reports'[n]) + (IF d.kind \in WriteEnds THEN 1 ELSE 0)
      /\ PollReports(reports'[n]) \in Nat /\ WriteReports(reports'[n]) \in Nat
      /\ PollJobs(jobs[n]) \in Nat /\ WriteJobs(jobs[n]) \in Nat
      /\ LostIsDead(n) /\ Accounted(n)
      /\ d.kind # "worker_gone" => (Obituaries(reports'[n]) = {} <=> Obituaries(reports[n]) = {})
  BY Handled
<1> HIDE DEF d
<1>3. /\ PollReports(reports[n]) = PollReports(reports'[n])
      /\ WriteReports(reports[n]) = WriteReports(reports'[n]) + 1
      /\ Obituaries(reports'[n]) = {} <=> Obituaries(reports[n]) = {}
  BY <1>1, <1>2
<1>4. /\ polling'[n] = polling[n] /\ lost'[n] = lost[n] /\ writes[n] \in Nat
      /\ writes'[n] = IF writes[n] > 0 THEN writes[n] - 1 ELSE 0
  BY QueueTypes DEF Types, SyncTypes, SettlesWrite
<1>5. PollsWithWorker(n)' = PollsWithWorker(n) /\ WritesWithWorker(n)' = WritesWithWorker(n) - 1
  BY <1>2, <1>3, WithWorker, WithWorkerAfter
<1>6. WritesWithWorker(n) \in Nat \ {0}
  BY <1>2, <1>3, WithWorker
<1>7. LostIsDead(n)'
  BY <1>2, <1>3, <1>4 DEF LostIsDead, Obituaries
<1>8. Accounted(n)'
  BY <1>2, <1>3, <1>4, <1>5, <1>6 DEF Accounted, Obituaries
<1> QED
  BY <1>7, <1>8

LEMMA OtherHandled ==
  ASSUME Types, NEW n \in Machine, WorkerInv(n), OnClipboardDone(n), Head(reports[n]).kind \in {"served", "writing"},
         UNCHANGED <<polling, writes, lost>>
  PROVE  Accounted(n)' /\ LostIsDead(n)'
<1> DEFINE d == Head(reports[n])
<1>1. d.kind # "worker_gone" /\ d.kind \notin WriteEnds /\ d.kind \notin PollDones
  BY DEF PollDones, WriteEnds
<1>2. /\ UNCHANGED <<jobs, work>>
      /\ PollReports(reports[n]) = PollReports(reports'[n]) + (IF d.kind \in PollDones THEN 1 ELSE 0)
      /\ WriteReports(reports[n]) = WriteReports(reports'[n]) + (IF d.kind \in WriteEnds THEN 1 ELSE 0)
      /\ PollReports(reports'[n]) \in Nat /\ WriteReports(reports'[n]) \in Nat
      /\ LostIsDead(n) /\ Accounted(n)
      /\ d.kind # "worker_gone" => (Obituaries(reports'[n]) = {} <=> Obituaries(reports[n]) = {})
  BY Handled
<1> HIDE DEF d
<1>3. /\ PollReports(reports[n]) = PollReports(reports'[n])
      /\ WriteReports(reports[n]) = WriteReports(reports'[n])
      /\ Obituaries(reports'[n]) = {} <=> Obituaries(reports[n]) = {}
  BY <1>1, <1>2
<1>5. PollsWithWorker(n)' = PollsWithWorker(n) /\ WritesWithWorker(n)' = WritesWithWorker(n)
  BY <1>2, <1>3, WithWorker, WithWorkerAfter
<1>7. LostIsDead(n)'
  BY <1>2, <1>3 DEF LostIsDead, Obituaries
<1>8. Accounted(n)'
  BY <1>2, <1>3, <1>5 DEF Accounted, Obituaries
<1> QED
  BY <1>7, <1>8

LEMMA DoneWorker ==
  ASSUME Types, NEW n \in Machine, WorkerInv(n), OnClipboardDone(n)
  PROVE  WorkerInv(n)'
<1> DEFINE d == Head(reports[n])
<1>1. /\ UNCHANGED <<jobs, work>> /\ d \in Dones
      /\ Passes(jobs[n], work[n], reports'[n])
      /\ d.kind \in Ordered => \A armed : Current(armed, jobs[n], work[n], reports'[n])
      /\ Current(Armed(n), jobs[n], work[n], reports'[n])
      /\ LostIsDead(n)
      /\ d.kind = "worker_gone" => Obituaries(reports[n]) # {}
  BY Handled
<1>2. \/ d.kind = "nothing_new" /\ OnNothingNew(n)
      \/ d.kind = "polled" /\ OnPolled(n, d)
      \/ d.kind = "served" /\ OnServed(n, d)
      \/ d.kind = "writing" /\ OnWriting(n, d)
      \/ d.kind = "wrote" /\ OnWrote(n, d)
      \/ d.kind = "not_written" /\ OnNotWritten(n)
      \/ d.kind = "discarded" /\ OnDiscarded(n)
      \/ d.kind = "worker_gone" /\ OnWorkerGone(n)
  BY DEF OnClipboardDone
<1>3. Passes(jobs'[n], work'[n], reports'[n])
  BY <1>1
<1>4. CASE d.kind \in Ordered /\ Accounted(n)' /\ LostIsDead(n)'
  <2>1. Current(Armed(n)', jobs'[n], work'[n], reports'[n])
    BY <1>1, <1>4
  <2> QED
    BY <1>3, <1>4, <2>1 DEF WorkerInv
<1>5. CASE UNCHANGED writeBack /\ Accounted(n)' /\ LostIsDead(n)'
  <2>1. Armed(n)' = Armed(n)
    BY <1>5 DEF Armed
  <2>2. Current(Armed(n)', jobs'[n], work'[n], reports'[n])
    BY <1>1, <2>1
  <2> QED
    BY <1>3, <1>5, <2>2 DEF WorkerInv
<1>6. CASE d.kind = "nothing_new" /\ OnNothingNew(n)
  <2>1. d.kind \in PollDones
    BY <1>6 DEF PollDones
  <2>2. Accounted(n)' /\ LostIsDead(n)' /\ UNCHANGED writeBack
    BY <1>6, <2>1, PollHandled DEF OnNothingNew
  <2> QED
    BY <1>5, <2>2
<1>7. CASE d.kind = "polled" /\ OnPolled(n, d)
  <2>1. d.kind \in PollDones /\ d.kind \in Ordered
    BY <1>7 DEF PollDones, Ordered
  <2>2. polling' = [polling EXCEPT ![n] = FALSE] /\ UNCHANGED <<writes, lost>>
    BY <1>1, <1>7, PolledParts
  <2>3. Accounted(n)' /\ LostIsDead(n)'
    BY <2>1, <2>2, PollHandled
  <2> QED
    BY <1>4, <2>1, <2>3
<1>8. CASE d.kind = "served" /\ OnServed(n, d)
  <2>1. UNCHANGED <<polling, writes, lost, writeBack>>
    BY <1>8 DEF OnServed
  <2>2. Accounted(n)' /\ LostIsDead(n)'
    BY <1>8, <2>1, OtherHandled
  <2> QED
    BY <1>5, <2>1, <2>2
<1>9. CASE d.kind = "writing" /\ OnWriting(n, d)
  <2>1. UNCHANGED <<polling, writes, lost>>
    BY <1>9 DEF OnWriting
  <2>2. Accounted(n)' /\ LostIsDead(n)'
    BY <1>9, <2>1, OtherHandled
  <2>3. d.kind \in Ordered
    BY <1>9 DEF Ordered, WriteDones, WriteEnds
  <2> QED
    BY <1>4, <2>2, <2>3
<1>10. CASE \/ d.kind = "wrote" /\ OnWrote(n, d)
            \/ d.kind = "not_written" /\ OnNotWritten(n)
            \/ d.kind = "discarded" /\ OnDiscarded(n)
  <2>1. d.kind \in WriteEnds /\ d.kind \in Ordered /\ SettlesWrite(n)
    BY <1>10 DEF WriteEnds, Ordered, WriteDones, OnWrote, OnNotWritten, OnDiscarded
  <2>2. Accounted(n)' /\ LostIsDead(n)'
    BY <2>1, WriteHandled
  <2> QED
    BY <1>4, <2>1, <2>2
<1>11. CASE d.kind = "worker_gone" /\ OnWorkerGone(n)
  <2>1. /\ polling'[n] = FALSE /\ writes'[n] = 0 /\ lost'[n] = TRUE /\ UNCHANGED writeBack
    BY <1>11 DEF OnWorkerGone, Types, SyncTypes
  <2>2. work[n].kind = "dead" /\ work'[n] = work[n]
    BY <1>1, <1>11 DEF LostIsDead, Obituaries
  <2>3. Accounted(n)' /\ LostIsDead(n)'
    BY <2>1, <2>2 DEF Accounted, LostIsDead
  <2> QED
    BY <1>5, <2>1, <2>3
<1> QED
  BY <1>2, <1>6, <1>7, <1>8, <1>9, <1>10, <1>11

LEMMA RequestWorker ==
  ASSUME Types, NEW n \in Machine, WorkerInv(n), OnRequest(n)
  PROVE  WorkerInv(n)'
<1> DEFINE job == [kind |-> "serve", serial |-> Message(n).serial, format |-> Message(n).format]
<1>1. /\ \/ Dispatches(n, job) /\ UNCHANGED <<polling, writes, lost>>
         \/ CannotDispatch(n) /\ GivesUpWorker(n)
         \/ UNCHANGED <<jobs, polling, writes, lost>>
      /\ UNCHANGED <<work, reports, writeBack>> /\ Receives(n, "request")
  BY DEF OnRequest
<1>2. job \in Jobs /\ job.kind = "serve"
  BY <1>1, MessageTaken, MessageParts DEF Jobs
<1> HIDE DEF job
<1>3. CASE Dispatches(n, job) /\ UNCHANGED <<polling, writes, lost>>
  <2>1. job.kind # "poll" /\ job.kind # "accept" /\ job.kind \in {"serve", "accept"}
    BY <1>2
  <2>2. /\ Grown(jobs[n], job, jobs'[n]) /\ PollJobs(jobs'[n]) = PollJobs(jobs[n])
        /\ WriteJobs(jobs'[n]) = WriteJobs(jobs[n]) /\ work[n].kind # "dead"
    BY <1>2, <1>3, <2>1, Dispatched
  <2>3. Passes(jobs'[n], work'[n], reports'[n])
    BY <1>1, <2>1, <2>2, JobDispatched DEF WorkerInv
  <2>4. Current(Armed(n), jobs'[n], work'[n], reports'[n])
    BY <1>1, <2>1, <2>2, CurrentDispatched DEF WorkerInv
  <2>5. PollsWithWorker(n)' = PollsWithWorker(n) /\ WritesWithWorker(n)' = WritesWithWorker(n)
    BY <1>1, <2>2, WithWorker, WithWorkerAfter
  <2>6. Armed(n)' = Armed(n)
    BY <1>1 DEF Armed
  <2>7. LostIsDead(n)' /\ Accounted(n)'
    BY <1>1, <1>3, <2>5 DEF WorkerInv, LostIsDead, Accounted
  <2> QED
    BY <2>3, <2>4, <2>6, <2>7 DEF WorkerInv
<1>4. CASE CannotDispatch(n) /\ GivesUpWorker(n)
  BY <1>1, <1>4, GivenUp
<1>5. CASE UNCHANGED <<jobs, polling, writes, lost>>
  BY <1>1, <1>5, WorkerKept
<1> QED
  BY <1>1, <1>3, <1>4, <1>5

LEMMA DataWorker ==
  ASSUME Types, NEW n \in Machine, WorkerInv(n), OnData(n)
  PROVE  WorkerInv(n)'
<1> DEFINE job == [kind |-> "accept", bytes |-> Message(n).bytes]
<1>1. /\ \/ Dispatches(n, job) /\ writes' = [writes EXCEPT ![n] = @ + 1] /\ UNCHANGED <<polling, lost>>
         \/ CannotDispatch(n) /\ GivesUpWorker(n)
         \/ UNCHANGED <<jobs, polling, writes, lost>>
      /\ UNCHANGED <<work, reports, writeBack>> /\ Receives(n, "data")
  BY DEF OnData
<1>2. job \in Jobs /\ job.kind = "accept"
  BY <1>1, MessageTaken, MessageParts DEF Jobs
<1> HIDE DEF job
<1>3. CASE Dispatches(n, job) /\ writes' = [writes EXCEPT ![n] = @ + 1] /\ UNCHANGED <<polling, lost>>
  <2>1. job.kind # "poll" /\ job.kind = "accept" /\ job.kind \in {"serve", "accept"}
    BY <1>2
  <2>2. /\ Grown(jobs[n], job, jobs'[n]) /\ PollJobs(jobs'[n]) = PollJobs(jobs[n])
        /\ WriteJobs(jobs'[n]) = WriteJobs(jobs[n]) + 1 /\ work[n].kind # "dead"
        /\ ~lost[n] /\ Kinds(reports[n], {"worker_gone"}) = {}
        /\ PollJobs(jobs[n]) \in Nat /\ WriteJobs(jobs[n]) \in Nat
        /\ PollReports(reports[n]) \in Nat /\ WriteReports(reports[n]) \in Nat
        /\ PollsWithWorker(n) = IF polling[n] THEN 1 ELSE 0
        /\ WritesWithWorker(n) = writes[n]
    BY <1>2, <1>3, <2>1, Dispatched
  <2>3. Passes(jobs'[n], work'[n], reports'[n])
    BY <1>1, <2>1, <2>2, JobDispatched DEF WorkerInv
  <2>4. Current(Armed(n), jobs'[n], work'[n], reports'[n])
    BY <1>1, <2>1, <2>2, CurrentDispatched DEF WorkerInv
  <2>5. PollsWithWorker(n)' = PollsWithWorker(n) /\ WritesWithWorker(n)' = WritesWithWorker(n) + 1
    BY <1>1, <2>2, WithWorker, WithWorkerAfter
  <2>6. Armed(n)' = Armed(n)
    BY <1>1 DEF Armed
  <2>7. writes'[n] = writes[n] + 1
    BY <1>3 DEF Types, SyncTypes
  <2>8. LostIsDead(n)' /\ Accounted(n)'
    BY <1>1, <1>3, <2>2, <2>5, <2>7 DEF LostIsDead, Accounted
  <2> QED
    BY <2>3, <2>4, <2>6, <2>8 DEF WorkerInv
<1>4. CASE CannotDispatch(n) /\ GivesUpWorker(n)
  BY <1>1, <1>4, GivenUp
<1>5. CASE UNCHANGED <<jobs, polling, writes, lost>>
  BY <1>1, <1>5, WorkerKept
<1> QED
  BY <1>1, <1>3, <1>4, <1>5

(* A worker and an engine that have just begun.                            *)
LEMMA NewWorker ==
  ASSUME NEW n \in Machine, jobs[n] = <<>>, work[n] = Nothing, reports[n] = <<>>,
         polling[n] = FALSE, writes[n] = 0, lost[n] = FALSE
  PROVE  WorkerInv(n)
<1>1. \A K : Kinds(jobs[n], K) = {} /\ Kinds(reports[n], K) = {}
  BY NoJobs
<1>2. work[n].kind = "nothing"
  BY DEF Nothing
<1>3. PollsWithWorker(n) = 0 /\ WritesWithWorker(n) = 0
  <2>1. Cardinality({}) = 0
    BY FS_EmptySet
  <2>2. /\ PollJobs(jobs[n]) = 0 /\ WriteJobs(jobs[n]) = 0
        /\ PollReports(reports[n]) = 0 /\ WriteReports(reports[n]) = 0
    <3> DEFINE queue == jobs[n]
               done == reports[n]
    <3>1. \A K : Kinds(queue, K) = {} /\ Kinds(done, K) = {}
      BY <1>1
    <3> HIDE DEF queue, done
    <3>2. PollJobs(queue) = 0 /\ WriteJobs(queue) = 0 /\ PollReports(done) = 0 /\ WriteReports(done) = 0
      BY <2>1, <3>1 DEF PollJobs, WriteJobs, PollReports, WriteReports
    <3> QED
      BY <3>2 DEF queue, done
  <2> QED
    BY <1>2, <2>2, WithWorker
<1>4. Passes(jobs[n], work[n], reports[n]) /\ Current(Armed(n), jobs[n], work[n], reports[n])
  BY <1>1, <1>2 DEF Passes, PollsGoFirst, WritesEnd, PollsBeforeWrites, Current
<1> QED
  BY <1>1, <1>2, <1>3, <1>4 DEF WorkerInv, LostIsDead, Accounted

(* No step of one machine touches the worker of the other, nor what its    *)
(* engine knows of it.                                                     *)
SameWorker(m) ==
  /\ jobs'[m] = jobs[m] /\ work'[m] = work[m] /\ reports'[m] = reports[m] /\ writeBack'[m] = writeBack[m]
  /\ polling'[m] = polling[m] /\ writes'[m] = writes[m] /\ lost'[m] = lost[m]

LEMMA BoardOrMail ==
  ASSUME NEW n \in Machine,
         \/ UserCopies(n) \/ SelectionChanged(n) \/ OnOffer(n) \/ OnStale(n) \/ PeerGone(n)
         \/ Disconnect \/ Connect
  PROVE  UNCHANGED <<jobs, work, reports, writeBack, polling, writes, lost>>
BY DEF UserCopies, SelectionChanged, OnOffer, OnStale, PeerGone, Disconnect, Connect, workerVars, syncVars

LEMMA WorkersElsewhere ==
  ASSUME Types, NEW n \in Machine, NEW m \in Machine, m # n,
         \/ SampleSerial(n) \/ SampleFormats(n) \/ ReadForPeer(n) \/ Unpack(n) \/ Write(n)
         \/ WriteRefused(n) \/ ReadSerial(n) \/ WorkerDies(n)
  PROVE  SameWorker(m)
<1>1. UNCHANGED syncVars
  BY DEF SampleSerial, SampleFormats, ReadForPeer, Unpack, Write, WriteRefused, ReadSerial, WorkerDies
<1>2. jobs \in [Machine -> Seq(Jobs)] /\ work \in [Machine -> Works] /\ reports \in [Machine -> Seq(Dones)]
  BY QueueTypes
<1>3. jobs'[m] = jobs[m]
  BY <1>2 DEF SampleSerial, SampleFormats, ReadForPeer, Unpack, Write, WriteRefused, ReadSerial, WorkerDies, Starts
<1>4. work'[m] = work[m]
  BY <1>2 DEF SampleSerial, SampleFormats, ReadForPeer, Unpack, Write, WriteRefused, ReadSerial, WorkerDies
<1>5. ASSUME NEW d, Report(n, d) PROVE reports'[m] = reports[m]
  BY <1>2, <1>5 DEF Report
<1>6. reports'[m] = reports[m]
  <2>1. CASE SampleSerial(n)
    BY <2>1, <1>5 DEF SampleSerial
  <2>2. CASE SampleFormats(n)
    BY <2>2, <1>5 DEF SampleFormats
  <2>3. CASE ReadForPeer(n) \/ Unpack(n)
    BY <2>3, <1>5 DEF ReadForPeer, Unpack
  <2>4. CASE WriteRefused(n) \/ ReadSerial(n) \/ WorkerDies(n)
    BY <2>4, <1>5 DEF WriteRefused, ReadSerial, WorkerDies
  <2>5. CASE Write(n)
    BY <2>5 DEF Write
  <2> QED
    BY <2>1, <2>2, <2>3, <2>4, <2>5
<1> QED
  BY <1>1, <1>3, <1>4, <1>6 DEF SameWorker, syncVars

LEMMA EnginesElsewhere ==
  ASSUME Types, NEW n \in Machine, NEW m \in Machine, m # n,
         PollClipboard(n) \/ OnClipboardDone(n) \/ OnRequest(n) \/ OnData(n) \/ Restart(n)
  PROVE  SameWorker(m)
<1>1. /\ jobs \in [Machine -> Seq(Jobs)] /\ work \in [Machine -> Works] /\ reports \in [Machine -> Seq(Dones)]
      /\ SyncTypes
  BY QueueTypes DEF Types
<1>2. ASSUME GivesUpWorker(n)
      PROVE  polling'[m] = polling[m] /\ writes'[m] = writes[m] /\ lost'[m] = lost[m]
  BY <1>1, <1>2 DEF GivesUpWorker, SyncTypes
<1>3. ASSUME NEW job, Dispatches(n, job)
      PROVE  jobs'[m] = jobs[m]
  BY <1>1, <1>3 DEF Dispatches
<1>4. ASSUME CannotDispatch(n)
      PROVE  jobs'[m] = jobs[m]
  BY <1>4 DEF CannotDispatch
<1>5. CASE PollClipboard(n)
  <2>1. UNCHANGED <<work, reports, writeBack>>
    BY <1>5 DEF PollClipboard
  <2>2. jobs'[m] = jobs[m]
    BY <1>3, <1>4, <1>5 DEF PollClipboard
  <2>3. polling'[m] = polling[m] /\ writes'[m] = writes[m] /\ lost'[m] = lost[m]
    BY <1>1, <1>2, <1>5 DEF PollClipboard, SyncTypes
  <2> QED
    BY <2>1, <2>2, <2>3 DEF SameWorker
<1>6. CASE OnRequest(n)
  <2>1. UNCHANGED <<work, reports, writeBack>>
    BY <1>6 DEF OnRequest
  <2>2. jobs'[m] = jobs[m]
    BY <1>3, <1>4, <1>6 DEF OnRequest
  <2>3. polling'[m] = polling[m] /\ writes'[m] = writes[m] /\ lost'[m] = lost[m]
    BY <1>2, <1>6 DEF OnRequest
  <2> QED
    BY <2>1, <2>2, <2>3 DEF SameWorker
<1>7. CASE OnData(n)
  <2>1. UNCHANGED <<work, reports, writeBack>>
    BY <1>7 DEF OnData
  <2>2. jobs'[m] = jobs[m]
    BY <1>3, <1>4, <1>7 DEF OnData
  <2>3. polling'[m] = polling[m] /\ writes'[m] = writes[m] /\ lost'[m] = lost[m]
    BY <1>1, <1>2, <1>7 DEF OnData, SyncTypes
  <2> QED
    BY <2>1, <2>2, <2>3 DEF SameWorker
<1>8. CASE OnClipboardDone(n)
  <2>1. jobs' = jobs /\ work' = work /\ reports'[m] = reports[m]
    BY <1>1, <1>8 DEF OnClipboardDone, workerVars
  <2>2. /\ writeBack'[m] = writeBack[m] /\ polling'[m] = polling[m]
        /\ writes'[m] = writes[m] /\ lost'[m] = lost[m]
    <3> DEFINE d == Head(reports[n])
    <3>1. CASE d.kind = "polled" /\ OnPolled(n, d)
      <4>1. d \in Dones
        BY <1>8, DoneTaken
      <4> HIDE DEF d
      <4>2. /\ writeBack' = writeBack \/ writeBack' = [writeBack EXCEPT ![n] = Nothing]
            /\ polling' = [polling EXCEPT ![n] = FALSE]
            /\ UNCHANGED <<writes, lost>>
        BY <3>1, <4>1, PolledParts
      <4> QED
        BY <1>1, <4>2 DEF SyncTypes
    <3>2. CASE ~(d.kind = "polled" /\ OnPolled(n, d))
      <4>1. \/ OnNothingNew(n) \/ OnServed(n, d) \/ OnWriting(n, d)
            \/ OnWrote(n, d) \/ OnNotWritten(n) \/ OnDiscarded(n) \/ OnWorkerGone(n)
        BY <1>8, <3>2 DEF OnClipboardDone
      <4> HIDE DEF d
      <4> QED
        BY <1>1, <4>1 DEF SyncTypes, OnNothingNew, OnServed, OnWriting, OnWrote, OnNotWritten, OnDiscarded, OnWorkerGone, SettlesWrite
    <3> QED
      BY <3>1, <3>2
  <2> QED
    BY <2>1, <2>2 DEF SameWorker
<1>9. CASE Restart(n)
  BY <1>1, <1>9 DEF Restart, SameWorker, SyncTypes
<1> QED
  BY <1>5, <1>6, <1>7, <1>8, <1>9

LEMMA SameWorkerKept ==
  ASSUME NEW m \in Machine, WorkerInv(m), SameWorker(m)
  PROVE  WorkerInv(m)'
BY WorkerKept DEF SameWorker

Fresh(n) ==
  /\ jobs[n] = <<>> /\ work[n] = Nothing /\ reports[n] = <<>>
  /\ polling[n] = FALSE /\ writes[n] = 0 /\ lost[n] = FALSE

LEMMA FreshWorkers == \A m \in Machine : Fresh(m) => WorkerInv(m)
BY NewWorker DEF Fresh

LEMMA RestartWorker ==
  ASSUME Types, NEW n \in Machine, Restart(n)
  PROVE  WorkerInv(n)'
<1>1. Fresh(n)'
  BY QueueTypes DEF Fresh, Restart, Types, SyncTypes
<1>2. (\A m \in Machine : Fresh(m) => WorkerInv(m))'
  BY FreshWorkers, PTL
<1> QED
  BY <1>1, <1>2

LEMMA WorkersStep ==
  ASSUME Types, \A n \in Machine : WorkerInv(n), [ClipboardNext]_clipboardVars
  PROVE  \A n \in Machine : WorkerInv(n)'
<1> SUFFICES ASSUME NEW m \in Machine PROVE WorkerInv(m)'
  OBVIOUS
<1>1. CASE UNCHANGED <<jobs, work, reports, writeBack, polling, writes, lost>>
  BY <1>1, SameWorkerKept DEF SameWorker
<1>2. CASE UNCHANGED clipboardVars
  BY <1>1, <1>2 DEF clipboardVars, workerVars, syncVars
<1>3. CASE Disconnect \/ Connect
  BY <1>1, <1>3, BoardOrMail
<1>4. ASSUME NEW n \in Machine,
             \/ UserCopies(n) \/ SelectionChanged(n) \/ SampleSerial(n) \/ SampleFormats(n)
             \/ ReadForPeer(n) \/ Unpack(n) \/ Write(n) \/ WriteRefused(n) \/ ReadSerial(n) \/ WorkerDies(n)
             \/ PollClipboard(n) \/ OnClipboardDone(n) \/ OnOffer(n) \/ OnRequest(n) \/ OnData(n) \/ OnStale(n)
             \/ PeerGone(n) \/ Restart(n)
      PROVE  WorkerInv(m)'
  <2>1. CASE UserCopies(n) \/ SelectionChanged(n) \/ OnOffer(n) \/ OnStale(n) \/ PeerGone(n)
    BY <1>1, <2>1, BoardOrMail
  <2>2. CASE m # n /\ (\/ SampleSerial(n) \/ SampleFormats(n) \/ ReadForPeer(n) \/ Unpack(n) \/ Write(n)
                       \/ WriteRefused(n) \/ ReadSerial(n) \/ WorkerDies(n))
    BY <2>2, WorkersElsewhere, SameWorkerKept
  <2>3. CASE m # n /\ (PollClipboard(n) \/ OnClipboardDone(n) \/ OnRequest(n) \/ OnData(n) \/ Restart(n))
    BY <2>3, EnginesElsewhere, SameWorkerKept
  <2>4. CASE m = n /\ (\/ SampleSerial(n) \/ SampleFormats(n) \/ ReadForPeer(n) \/ Unpack(n) \/ Write(n)
                       \/ WriteRefused(n) \/ ReadSerial(n) \/ WorkerDies(n))
    BY <2>4, SampleSerialWorker, SampleFormatsWorker, ReadForPeerWorker, UnpackWorker, WriteWorker,
       WriteEndsWorker, WorkerDiesWorker
  <2>5. CASE m = n /\ (PollClipboard(n) \/ OnClipboardDone(n) \/ OnRequest(n) \/ OnData(n) \/ Restart(n))
    BY <2>5, PollClipboardWorker, DoneWorker, RequestWorker, DataWorker, RestartWorker
  <2> QED
    BY <1>4, <2>1, <2>2, <2>3, <2>4, <2>5
<1> QED
  BY <1>2, <1>3, <1>4 DEF ClipboardNext

LEMMA WorkersInit == ClipboardInit => \A n \in Machine : WorkerInv(n)
<1> SUFFICES ASSUME ClipboardInit, NEW n \in Machine PROVE WorkerInv(n)
  OBVIOUS
<1>1. /\ jobs[n] = <<>> /\ work[n] = Nothing /\ reports[n] = <<>>
      /\ polling[n] = FALSE /\ writes[n] = 0 /\ lost[n] = FALSE
  BY DEF ClipboardInit
<1> QED
  BY <1>1, NewWorker

LEMMA WorkersAlways == ClipboardSpec => [](\A n \in Machine : WorkerInv(n))
<1>1. ClipboardInit => \A n \in Machine : WorkerInv(n)
  BY WorkersInit
<1>2. Types /\ (\A n \in Machine : WorkerInv(n)) /\ [ClipboardNext]_clipboardVars => (\A n \in Machine : WorkerInv(n))'
  BY WorkersStep
<1> QED
  BY <1>1, <1>2, TypesAlways, PTL DEF ClipboardSpec

-----------------------------------------------------------------------------
(* A request and what becomes of it: through the mail, the other worker's  *)
(* queue, its report, and back.                                            *)

Names(e, a) == e.serial = a.serial /\ (e.kind # "stale" => e.format = a.format)

Has(q, kind, a) == \E i \in Kinds(q, {kind}) : Names(q[i], a)

Keeps(q, kinds, p) == \A kind \in kinds : \A a : Has(q, kind, a) => Has(p, kind, a)

LEMMA KeepsSame ==
  ASSUME NEW q, NEW kinds
  PROVE  Keeps(q, kinds, q)
BY DEF Keeps

LEMMA KeepsGrown ==
  ASSUME NEW q, NEW e, NEW p, Grown(q, e, p)
  PROVE  /\ \A kinds : Keeps(q, kinds, p)
         /\ \A a : Names(e, a) => Has(p, e.kind, a)
<1>1. \A kind, a : Has(q, kind, a) => Has(p, kind, a)
  <2> SUFFICES ASSUME NEW kind, NEW a, NEW i \in Kinds(q, {kind}), Names(q[i], a)
               PROVE  Has(p, kind, a)
    BY DEF Has
  <2>1. i \in Kinds(p, {kind}) /\ p[i] = q[i]
    BY DEF Grown
  <2> QED
    BY <2>1 DEF Has
<1>2. \A a : Names(e, a) => Has(p, e.kind, a)
  <2>1. Len(q) + 1 \in Kinds(p, {e.kind}) /\ p[Len(q) + 1] = e
    BY DEF Grown
  <2> QED
    BY <2>1 DEF Has
<1> QED
  BY <1>1, <1>2 DEF Keeps

LEMMA HasShrunk ==
  ASSUME NEW q, NEW e, NEW p, Shrunk(q, e, p), NEW kind, NEW a, Has(q, kind, a)
  PROVE  Has(p, kind, a) \/ (e.kind = kind /\ Names(e, a))
<1>1. PICK i \in Kinds(q, {kind}) : Names(q[i], a)
  BY DEF Has
<1>2. CASE i = 1
  BY <1>1, <1>2 DEF Shrunk
<1>3. CASE i # 1
  <2>1. i - 1 \in Kinds(p, {kind}) /\ p[i - 1] = q[i]
    BY <1>3 DEF Shrunk
  <2> QED
    BY <1>1, <2>1 DEF Has
<1> QED
  BY <1>2, <1>3

LEMMA KeepsShrunk ==
  ASSUME NEW q, NEW e, NEW p, Shrunk(q, e, p)
  PROVE  \A kinds : e.kind \notin kinds => Keeps(q, kinds, p)
BY HasShrunk DEF Keeps

(* The mail after one message is sent, and after one is taken.             *)
LEMMA SentGrows ==
  ASSUME NEW box, MailOK(box), NEW n \in Machine, NEW msg \in Messages
  PROVE  /\ joined[n] /\ linked /\ Room(box[n]) => Grown(box[n], msg, AfterSending(n, box, msg)[n])
         /\ \A kinds : Keeps(box[n], kinds, AfterSending(n, box, msg)[n])
         /\ \A m \in Machine : m # n => AfterSending(n, box, msg)[m] = box[m]
<1>1. Grown(box[n], msg, Append(box[n], msg))
  BY Grows DEF MailOK
<1>2. /\ AfterSending(n, box, msg)[n] = IF joined[n] /\ linked /\ Room(box[n]) THEN Append(box[n], msg) ELSE box[n]
      /\ \A m \in Machine : m # n => AfterSending(n, box, msg)[m] = box[m]
  BY Sent
<1> DEFINE longer == Append(box[n], msg)
<1> HIDE DEF longer
<1>3. /\ AfterSending(n, box, msg)[n] = IF joined[n] /\ linked /\ Room(box[n]) THEN longer ELSE box[n]
      /\ Grown(box[n], msg, longer)
  BY <1>1, <1>2 DEF longer
<1>4. \A kinds : Keeps(box[n], kinds, longer) /\ Keeps(box[n], kinds, box[n])
  BY <1>3, KeepsGrown, KeepsSame
<1> QED
  BY <1>2, <1>3, <1>4

LEMMA MessageShrinks ==
  ASSUME Types, NEW n \in Machine, NEW kind, Receives(n, kind)
  PROVE  /\ Shrunk(mail[Peer(n)], Message(n), Received(n)[Peer(n)])
         /\ Message(n).kind = kind /\ Received(n)[n] = mail[n]
         /\ \A kinds : kind \notin kinds => Keeps(mail[Peer(n)], kinds, Received(n)[Peer(n)])
<1>1. /\ mail[Peer(n)] # <<>> /\ Message(n).kind = kind /\ Received(n)[n] = mail[n]
      /\ Received(n)[Peer(n)] = Tail(mail[Peer(n)]) /\ mail[Peer(n)] \in Seq(Messages)
  BY MessageTaken
<1>2. Shrunk(mail[Peer(n)], Message(n), Received(n)[Peer(n)])
  BY <1>1, Shrinks DEF Message
<1> QED
  BY <1>1, <1>2, KeepsShrunk

Waits(n) ==
  /\ asked[n] # Nothing /\ linked /\ joined[n] /\ joined[Peer(n)]
  /\ work[Peer(n)].kind # "dead" /\ ~unanswered[Peer(n)]

Pursued(n) ==
  \/ Has(mail[n], "request", asked[n])
  \/ Has(jobs[Peer(n)], "serve", asked[n])
  \/ Has(reports[Peer(n)], "served", asked[n])
  \/ Has(mail[Peer(n)], "data", asked[n])
  \/ Has(mail[Peer(n)], "stale", asked[n])

UnderWay(n) == Waits(n) => Pursued(n)

LEMMA UnderWayIsIt == (\A n \in Machine : UnderWay(n)) => RequestsAreUnderWay
<1> SUFFICES ASSUME NEW n \in Machine, UnderWay(n), Waits(n)
             PROVE  LET m == Peer(n)
                        Named(e) == e.serial = asked[n].serial /\ e.format = asked[n].format
                    IN \/ \E i \in Kinds(mail[n], {"request"}) : Named(mail[n][i])
                       \/ \E i \in Kinds(jobs[m], {"serve"}) : Named(jobs[m][i])
                       \/ \E i \in Kinds(reports[m], {"served"}) : Named(reports[m][i])
                       \/ \E i \in Kinds(mail[m], {"data"}) : Named(mail[m][i])
                       \/ \E i \in Kinds(mail[m], {"stale"}) : mail[m][i].serial = asked[n].serial
  BY DEF RequestsAreUnderWay, Waits
<1>1. \A q, kind : kind # "stale" /\ Has(q, kind, asked[n]) =>
        \E i \in Kinds(q, {kind}) : q[i].serial = asked[n].serial /\ q[i].format = asked[n].format
  BY DEF Has, Names, Kinds
<1>2. \A q, kind : Has(q, kind, asked[n]) => \E i \in Kinds(q, {kind}) : q[i].serial = asked[n].serial
  BY DEF Has, Names
<1> QED
  BY <1>1, <1>2 DEF UnderWay, Pursued

(* Everything a request could be at stays where it is, or behind it.       *)
LEMMA Carried ==
  ASSUME NEW n \in Machine, UnderWay(n), asked'[n] = asked[n], Waits(n)' => Waits(n),
         Keeps(mail[n], {"request"}, mail'[n]),
         Keeps(jobs[Peer(n)], {"serve"}, jobs'[Peer(n)]),
         Keeps(reports[Peer(n)], {"served"}, reports'[Peer(n)]),
         Keeps(mail[Peer(n)], {"data", "stale"}, mail'[Peer(n)])
  PROVE  UnderWay(n)'
BY DEF UnderWay, Pursued, Keeps

LEMMA KeepsAppended ==
  ASSUME NEW S, NEW q \in Seq(S), NEW e
  PROVE  \A kinds : Keeps(q, kinds, Append(q, e))
<1>1. q \in Seq(S \union {e})
  BY LenProperties, ElementOfSeq, SeqDef
<1>2. Grown(q, e, Append(q, e))
  BY <1>1, Grows
<1> QED
  BY <1>2, KeepsGrown

LEMMA KeepsTaken ==
  ASSUME NEW S, NEW q \in Seq(S), q # <<>>
  PROVE  \A kinds : Head(q).kind \notin kinds => Keeps(q, kinds, Tail(q))
<1>1. Shrunk(q, Head(q), Tail(q))
  BY Shrinks
<1> QED
  BY <1>1, KeepsShrunk

(* What the worker of the machine asked does, but for serving.             *)
LEMMA WorkerPursues ==
  ASSUME Types, NEW n \in Machine, UnderWay(n),
         LET m == Peer(n) IN
           \/ SampleSerial(m) \/ SampleFormats(m) \/ Unpack(m) \/ Write(m)
           \/ WriteRefused(m) \/ ReadSerial(m) \/ WorkerDies(m)
  PROVE  UnderWay(n)'
<1> DEFINE m == Peer(n)
<1>1. m \in Machine
  BY OtherMachine
<1>2. UNCHANGED <<mail, asked, joined, linked, unanswered>>
  BY DEF SampleSerial, SampleFormats, Unpack, Write, WriteRefused, ReadSerial, WorkerDies, linkVars, syncVars
<1>3. /\ jobs \in [Machine -> Seq(Jobs)] /\ work \in [Machine -> Works] /\ reports \in [Machine -> Seq(Dones)]
      /\ Nothing.kind # "dead"
  BY QueueTypes DEF Nothing
<1>4. CASE WorkerDies(m)
  <2>1. work'[m].kind = "dead"
    BY <1>1, <1>3, <1>4 DEF WorkerDies
  <2> QED
    BY <2>1 DEF UnderWay, Waits
<1>5. CASE SampleSerial(m) \/ SampleFormats(m) \/ Unpack(m) \/ Write(m) \/ WriteRefused(m) \/ ReadSerial(m)
  <2>1. work[m].kind # "dead"
    BY <1>3, <1>5 DEF SampleSerial, SampleFormats, Unpack, Write, WriteRefused, ReadSerial, Starts
  <2>2. Keeps(jobs[m], {"serve"}, jobs'[m])
    <3>1. jobs' = jobs \/ (jobs[m] # <<>> /\ jobs' = [jobs EXCEPT ![m] = Tail(@)] /\ Head(jobs[m]).kind # "serve")
      BY <1>5 DEF SampleSerial, SampleFormats, Unpack, Write, WriteRefused, ReadSerial, Starts, workerVars
    <3>2. jobs'[m] = jobs[m] \/ (jobs[m] # <<>> /\ jobs'[m] = Tail(jobs[m]) /\ Head(jobs[m]).kind # "serve")
      BY <1>1, <1>3, <3>1
    <3>3. jobs[m] # <<>> /\ Head(jobs[m]).kind # "serve" => Keeps(jobs[m], {"serve"}, Tail(jobs[m]))
      <4>1. Head(jobs[m]).kind # "serve" => Head(jobs[m]).kind \notin {"serve"}
        OBVIOUS
      <4> QED
        BY <1>1, <1>3, <4>1, KeepsTaken
    <3> QED
      BY <3>2, <3>3, KeepsSame
  <2>3. Keeps(reports[m], {"served"}, reports'[m])
    <3>1. reports' = reports \/ \E done : reports' = [reports EXCEPT ![m] = Append(@, done)]
      BY <1>5 DEF SampleSerial, SampleFormats, Unpack, Write, WriteRefused, ReadSerial, Report
    <3>2. reports'[m] = reports[m] \/ \E done : reports'[m] = Append(reports[m], done)
      BY <1>1, <1>3, <3>1
    <3> QED
      BY <1>1, <1>3, <3>2, KeepsAppended, KeepsSame
  <2> QED
    BY <1>2, <2>1, <2>2, <2>3, Carried, KeepsSame DEF Waits
<1> QED
  BY <1>4, <1>5

(* One of the places is where it is handed on from.                        *)
LEMMA Handed ==
  ASSUME NEW n \in Machine, UnderWay(n), asked'[n] = asked[n], Waits(n)' => Waits(n),
         Has(mail[n], "request", asked[n]) => UnderWay(n)',
         Has(jobs[Peer(n)], "serve", asked[n]) => UnderWay(n)',
         Has(reports[Peer(n)], "served", asked[n]) => UnderWay(n)',
         Keeps(mail[Peer(n)], {"data", "stale"}, mail'[Peer(n)])
  PROVE  UnderWay(n)'
BY DEF UnderWay, Pursued, Keeps

LEMMA FoundAgain ==
  ASSUME NEW n \in Machine, asked'[n] = asked[n]
  PROVE  /\ Has(mail'[n], "request", asked[n]) => UnderWay(n)'
         /\ Has(jobs'[Peer(n)], "serve", asked[n]) => UnderWay(n)'
         /\ Has(reports'[Peer(n)], "served", asked[n]) => UnderWay(n)'
         /\ Has(mail'[Peer(n)], "data", asked[n]) => UnderWay(n)'
         /\ Has(mail'[Peer(n)], "stale", asked[n]) => UnderWay(n)'
BY DEF UnderWay, Pursued

LEMMA ServePursues ==
  ASSUME Types, NEW n \in Machine, UnderWay(n), ReadForPeer(Peer(n))
  PROVE  UnderWay(n)'
<1> DEFINE m == Peer(n)
           job == Head(jobs[m])
           done == [kind |-> "served", format |-> job.format, serial |-> job.serial, bytes |-> ReadBytes(m, job.format)]
           a == asked[n]
<1>1. m \in Machine
  BY OtherMachine
<1>2. UNCHANGED <<mail, asked, joined, linked, unanswered, work>>
  BY DEF ReadForPeer, linkVars, syncVars
<1>3. jobs \in [Machine -> Seq(Jobs)] /\ reports \in [Machine -> Seq(Dones)]
  BY QueueTypes
<1>4. /\ jobs[m] # <<>> /\ job.kind = "serve" /\ jobs'[m] = Tail(jobs[m])
      /\ reports'[m] = Append(reports[m], done)
  BY <1>1, <1>3 DEF ReadForPeer, Starts, Report
<1>5. Shrunk(jobs[m], job, jobs'[m])
  BY <1>1, <1>3, <1>4, Shrinks
<1>6. done \in Dones
  <2>1. job \in Jobs
    BY <1>1, <1>3, <1>4, QueuesTaken
  <2>2. job.format \in Format /\ job.serial \in Nat
    BY <2>1, <1>4, JobParts
  <2>3. ReadBytes(m, job.format) \in BytesOf
    BY <2>2, <1>1, ReadType
  <2> QED
    BY <2>2, <2>3 DEF Dones
<1>7. done.kind = "served" /\ done.format = job.format /\ done.serial = job.serial
  OBVIOUS
<1> HIDE DEF done
<1>8. Grown(reports[m], done, reports'[m])
  BY <1>1, <1>3, <1>4, <1>6, Grows
<1>9. Waits(n)' => Waits(n)
  BY <1>2 DEF Waits
<1>10. Has(jobs[m], "serve", a) => UnderWay(n)'
  <2>1. Has(jobs[m], "serve", a) => Has(jobs'[m], "serve", a) \/ Names(job, a)
    BY <1>5, HasShrunk
  <2>2. Names(job, a) => Names(done, a)
    BY <1>4, <1>7 DEF Names
  <2>3. Names(done, a) => Has(reports'[m], "served", a)
    BY <1>7, <1>8, KeepsGrown
  <2> QED
    BY <2>1, <2>2, <2>3, <1>2, FoundAgain
<1>11. Has(reports[m], "served", a) => UnderWay(n)'
  <2>1. Keeps(reports[m], {"served"}, reports'[m])
    BY <1>8, KeepsGrown
  <2> QED
    BY <2>1, <1>2, FoundAgain DEF Keeps
<1> QED
  BY <1>2, <1>9, <1>10, <1>11, Handed, FoundAgain, KeepsSame

(* What a machine answers is in the mail, or it will not be waited for.    *)
LEMMA AnswerSent ==
  ASSUME NEW n \in Machine, NEW box, MailOK(box), NEW msg \in Messages, Answers(Peer(n), box, msg),
         msg.kind \in {"data", "stale"}, Names(msg, asked[n]), asked'[n] = asked[n],
         UNCHANGED <<joined, linked>>, unanswered \in [Machine -> BOOLEAN]
  PROVE  UnderWay(n)'
<1> DEFINE m == Peer(n)
<1>1. m \in Machine
  BY OtherMachine
<1>2. CASE joined[m] /\ linked /\ Room(box[m])
  <2>1. Grown(box[m], msg, mail'[m])
    BY <1>1, <1>2, SentGrows DEF Answers
  <2>2. Has(mail'[m], msg.kind, asked[n])
    BY <2>1, KeepsGrown
  <2> QED
    BY <2>2, FoundAgain
<1>3. CASE ~(joined[m] /\ linked)
  BY <1>3 DEF UnderWay, Waits
<1>4. CASE ~Room(box[m])
  <2>1. unanswered'[m]
    BY <1>1, <1>4 DEF Answers
  <2> QED
    BY <2>1 DEF UnderWay, Waits
<1> QED
  BY <1>2, <1>3, <1>4

(* What a report does to the mail.                                         *)
LEMMA ServedAnswers ==
  ASSUME NEW n \in Machine, NEW done \in Dones, done.kind = "served", OnServed(n, done)
  PROVE  /\ UNCHANGED asked
         /\ \E msg \in Messages :
              /\ Answers(n, mail, msg) /\ msg.kind \in {"data", "stale"}
              /\ \A a : Names(done, a) => Names(msg, a)
<1> DEFINE data == [kind |-> "data", format |-> done.format, serial |-> done.serial, bytes |-> done.bytes]
           stale == [kind |-> "stale", serial |-> done.serial]
<1>1. done.format \in Format /\ done.serial \in Nat /\ done.bytes \in BytesOf
  BY DoneParts
<1>2. stale \in Messages
  BY <1>1 DEF Messages
<1>3. done.bytes # Nothing => data \in Messages
  BY <1>1, BytesParts DEF Messages
<1>4. /\ data.kind = "data" /\ data.format = done.format /\ data.serial = done.serial
      /\ stale.kind = "stale" /\ stale.serial = done.serial
  OBVIOUS
<1>5. \/ Answers(n, mail, data) /\ done.bytes # Nothing
      \/ Answers(n, mail, stale)
  BY DEF OnServed
<1>6. UNCHANGED asked
  BY DEF OnServed
<1> HIDE DEF data, stale
<1>7. \A a : Names(done, a) => Names(data, a) /\ Names(stale, a)
  BY <1>4 DEF Names
<1> QED
  BY <1>2, <1>3, <1>4, <1>5, <1>6, <1>7

LEMMA DoneMail ==
  ASSUME Types, NEW n \in Machine, OnClipboardDone(n)
  PROVE  /\ UNCHANGED <<jobs, work, joined, linked, asked>>
         /\ \/ Head(reports[n]).kind = "served" /\ OnServed(n, Head(reports[n]))
            \/ /\ Head(reports[n]).kind # "served" /\ unanswered' = unanswered
               /\ mail' = mail \/ \E msg \in Messages : mail' = AfterSending(n, mail, msg)
<1> DEFINE done == Head(reports[n])
<1>1. done \in Dones
  BY DoneTaken
<1>2. UNCHANGED <<jobs, work, joined, linked>>
  BY DEF OnClipboardDone, workerVars
<1>3. \/ done.kind = "polled" /\ OnPolled(n, done)
      \/ done.kind = "served" /\ OnServed(n, done)
      \/ done.kind # "served" /\ UNCHANGED <<asked, mail, unanswered>>
  BY DEF OnClipboardDone, OnNothingNew, OnWriting, OnWrote, OnNotWritten, OnDiscarded, OnWorkerGone, SettlesWrite
<1> HIDE DEF done
<1>4. CASE done.kind = "polled" /\ OnPolled(n, done)
  <2>1. /\ \/ mail' = mail
           \/ \E msg \in Messages : mail' = AfterSending(n, mail, msg)
        /\ UNCHANGED <<asked, unanswered>>
    BY <1>1, <1>4, PolledParts
  <2> QED
    BY <1>2, <1>4, <2>1 DEF done
<1>5. CASE done.kind = "served" /\ OnServed(n, done)
  BY <1>1, <1>2, <1>5, ServedAnswers DEF done
<1>6. CASE done.kind # "served" /\ UNCHANGED <<asked, mail, unanswered>>
  BY <1>2, <1>6 DEF done
<1> QED
  BY <1>3, <1>4, <1>5, <1>6

LEMMA MailTypes ==
  ASSUME Types
  PROVE  /\ MailOK(mail) /\ unanswered \in [Machine -> BOOLEAN]
         /\ \A n \in Machine : asked[n] \in {Nothing} \union [kind : {"asked"}, serial : Nat, format : Format]
BY DEF Types, LinkTypes, SyncTypes, MailOK

(* The reports of the asker's own worker ...                               *)
LEMMA OwnDonePursues ==
  ASSUME Types, NEW n \in Machine, UnderWay(n), OnClipboardDone(n)
  PROVE  UnderWay(n)'
<1>1. Peer(n) \in Machine /\ Peer(n) # n
  BY OtherMachine
<1>2. UNCHANGED <<jobs, work, joined, linked, asked>> /\ reports'[Peer(n)] = reports[Peer(n)]
  BY <1>1, DoneMail, DoneTaken
<1>3. /\ mail' = mail \/ \E msg \in Messages : mail' = AfterSending(n, mail, msg)
      /\ unanswered'[Peer(n)] = unanswered[Peer(n)]
  <2>1. CASE Head(reports[n]).kind = "served" /\ OnServed(n, Head(reports[n]))
    <3>1. Head(reports[n]) \in Dones
      BY DoneTaken
    <3>2. \E msg \in Messages : Answers(n, mail, msg)
      BY <2>1, <3>1, ServedAnswers
    <3> QED
      BY <1>1, <3>2, MailTypes DEF Answers
  <2>2. CASE ~(Head(reports[n]).kind = "served" /\ OnServed(n, Head(reports[n])))
    BY <2>2, DoneMail
  <2> QED
    BY <2>1, <2>2
<1>4. Keeps(mail[n], {"request"}, mail'[n]) /\ mail'[Peer(n)] = mail[Peer(n)]
  BY <1>1, <1>3, MailTypes, SentGrows, KeepsSame
<1> QED
  BY <1>2, <1>3, <1>4, Carried, KeepsSame DEF Waits

(* ... and those of the machine asked.                                     *)
LEMMA DonePursues ==
  ASSUME Types, NEW n \in Machine, UnderWay(n), OnClipboardDone(Peer(n))
  PROVE  UnderWay(n)'
<1> DEFINE m == Peer(n)
           done == Head(reports[m])
           a == asked[n]
<1>1. m \in Machine /\ m # n
  BY OtherMachine
<1>2. /\ reports[m] \in Seq(Dones) /\ reports[m] # <<>> /\ reports'[m] = Tail(reports[m]) /\ done \in Dones
      /\ UNCHANGED <<jobs, work, joined, linked, asked>>
  BY <1>1, DoneTaken, DoneMail
<1>3. Shrunk(reports[m], done, reports'[m])
  BY <1>2, Shrinks
<1>4. CASE done.kind = "served" /\ OnServed(m, done)
  <2> HIDE DEF m, done
  <2>1. PICK msg \in Messages :
          Answers(m, mail, msg) /\ msg.kind \in {"data", "stale"} /\ (Names(done, a) => Names(msg, a))
    BY <1>1, <1>2, <1>4, ServedAnswers
  <2>2. mail'[n] = mail[n] /\ Keeps(mail[m], {"data", "stale"}, mail'[m])
    BY <1>1, <2>1, MailTypes, SentGrows DEF Answers
  <2>3. Waits(n)' => Waits(n)
    BY <1>1, <1>2, <2>1, MailTypes DEF Waits, Answers, m
  <2>4. Names(done, a) => UnderWay(n)'
    BY <1>2, <2>1, MailTypes, AnswerSent DEF m
  <2>5. Has(reports[m], "served", a) => UnderWay(n)'
    <3>1. Has(reports[m], "served", a) => Has(reports'[m], "served", a) \/ Names(done, a)
      BY <1>3, HasShrunk
    <3> QED
      BY <1>2, <2>4, <3>1, FoundAgain DEF m
  <2> QED
    BY <1>2, <2>2, <2>3, <2>5, Handed, FoundAgain DEF m
<1>5. CASE done.kind # "served"
  <2>1. unanswered' = unanswered /\ (mail' = mail \/ \E msg \in Messages : mail' = AfterSending(m, mail, msg))
    BY <1>1, <1>5, DoneMail
  <2>2. mail'[n] = mail[n] /\ Keeps(mail[m], {"data", "stale"}, mail'[m])
    BY <1>1, <2>1, MailTypes, SentGrows, KeepsSame
  <2>3. Keeps(reports[m], {"served"}, reports'[m])
    <3>1. done.kind \notin {"served"}
      BY <1>5
    <3> QED
      BY <1>3, <3>1, KeepsShrunk
  <2> QED
    BY <1>2, <2>1, <2>2, <2>3, Carried, KeepsSame DEF Waits
<1> QED
  BY <1>1, <1>4, <1>5, DoneMail

(* A job that is dispatched, or is not, loses no other.                    *)
LEMMA DispatchKeeps ==
  ASSUME Types, NEW n \in Machine, NEW job, Dispatches(n, job) \/ CannotDispatch(n)
  PROVE  /\ Keeps(jobs[n], {"serve"}, jobs'[n])
         /\ \A m \in Machine : m # n => jobs'[m] = jobs[m]
<1>1. jobs \in [Machine -> Seq(Jobs)]
  BY QueueTypes
<1>2. jobs' = jobs \/ jobs' = [jobs EXCEPT ![n] = Append(@, job)]
  BY DEF Dispatches, CannotDispatch
<1>3. /\ jobs'[n] = jobs[n] \/ jobs'[n] = Append(jobs[n], job)
      /\ \A m \in Machine : m # n => jobs'[m] = jobs[m]
  BY <1>1, <1>2
<1> QED
  BY <1>1, <1>3, KeepsAppended, KeepsSame

(* What does not come from the machine asked, nor is for the asker.        *)
LEMMA PollPursues ==
  ASSUME Types, NEW n \in Machine, UnderWay(n), NEW p \in Machine, PollClipboard(p)
  PROVE  UnderWay(n)'
<1>1. Peer(n) \in Machine /\ Peer(n) # n
  BY OtherMachine
<1>2. UNCHANGED <<work, reports, asked, mail, joined, linked, unanswered>>
  BY DEF PollClipboard, linkVars
<1>3. \E job : Dispatches(p, job) \/ CannotDispatch(p)
  BY DEF PollClipboard
<1>4. Keeps(jobs[Peer(n)], {"serve"}, jobs'[Peer(n)])
  <2>1. CASE p = Peer(n)
    BY <1>3, <2>1, DispatchKeeps
  <2>2. CASE p # Peer(n)
    <3>1. jobs'[Peer(n)] = jobs[Peer(n)]
      BY <1>1, <1>3, <2>2, DispatchKeeps
    <3> QED
      BY <3>1, KeepsSame
  <2> QED
    BY <2>1, <2>2
<1> QED
  BY <1>2, <1>4, Carried, KeepsSame DEF Waits

LEMMA OfferParts ==
  ASSUME Types, NEW n \in Machine, OnOffer(n)
  PROVE  LET formats == Takeable(n, Message(n).formats)
             wish == [kind |-> "asked", serial |-> Message(n).serial, format |-> Richest(formats)]
             request == [kind |-> "request", serial |-> wish.serial, format |-> wish.format]
         IN /\ UNCHANGED <<jobs, work, reports, joined, linked, unanswered>>
            /\ \/ /\ request \in Messages
                  /\ mail' = AfterSending(n, Received(n), request)
                  /\ asked' = [asked EXCEPT ![n] = IF joined[n] /\ Room(mail[n]) THEN wish ELSE Nothing]
               \/ mail' = Received(n) /\ UNCHANGED asked
<1> DEFINE formats == Takeable(n, Message(n).formats)
           wish == [kind |-> "asked", serial |-> Message(n).serial, format |-> Richest(formats)]
           request == [kind |-> "request", serial |-> wish.serial, format |-> wish.format]
<1>1. Receives(n, "offer")
  BY DEF OnOffer
<1>2. Message(n).serial \in Nat /\ formats \in SUBSET Format
  BY <1>1, MessageTaken, MessageParts DEF Takeable
<1>3. formats # {} => request \in Messages
  <2>1. formats # {} => Richest(formats) \in Format
    BY <1>2, RichestIsOne
  <2> HIDE DEF formats
  <2> QED
    BY <1>2, <2>1 DEF Messages
<1>4. \/ /\ formats # {}
         /\ mail' = AfterSending(n, Received(n), request)
         /\ asked' = [asked EXCEPT ![n] = IF joined[n] /\ Room(mail[n]) THEN wish ELSE Nothing]
      \/ mail' = Received(n) /\ UNCHANGED asked
  BY DEF OnOffer
<1>5. UNCHANGED <<jobs, work, reports, joined, linked, unanswered>>
  BY DEF OnOffer, workerVars
<1> QED
  BY <1>3, <1>4, <1>5

(* The asker asks.                                                         *)
LEMMA OwnOfferPursues ==
  ASSUME Types, NEW n \in Machine, UnderWay(n), OnOffer(n)
  PROVE  UnderWay(n)'
<1> DEFINE m == Peer(n)
           formats == Takeable(n, Message(n).formats)
           wish == [kind |-> "asked", serial |-> Message(n).serial, format |-> Richest(formats)]
           request == [kind |-> "request", serial |-> wish.serial, format |-> wish.format]
<1>1. m \in Machine /\ m # n /\ Receives(n, "offer")
  BY OtherMachine DEF OnOffer
<1>2. UNCHANGED <<jobs, work, reports, joined, linked, unanswered>>
  BY OfferParts
<1>3. \/ /\ request \in Messages
         /\ mail' = AfterSending(n, Received(n), request)
         /\ asked' = [asked EXCEPT ![n] = IF joined[n] /\ Room(mail[n]) THEN wish ELSE Nothing]
      \/ mail' = Received(n) /\ UNCHANGED asked
  BY OfferParts
<1>4. /\ MailOK(Received(n)) /\ Received(n)[n] = mail[n]
      /\ Keeps(mail[m], {"data", "stale"}, Received(n)[m])
  <2>1. "offer" \notin {"data", "stale"}
    OBVIOUS
  <2> QED
    BY <1>1, <2>1, MessageTaken, MessageShrinks
<1>5. CASE /\ request \in Messages
           /\ mail' = AfterSending(n, Received(n), request)
           /\ asked' = [asked EXCEPT ![n] = IF joined[n] /\ Room(mail[n]) THEN wish ELSE Nothing]
  <2>1. request.serial = wish.serial /\ request.format = wish.format /\ request.kind = "request"
    OBVIOUS
  <2> HIDE DEF wish, request
  <2>2. asked'[n] = IF joined[n] /\ Room(mail[n]) THEN wish ELSE Nothing
    BY <1>5, MailTypes DEF Types, SyncTypes
  <2>3. CASE joined[n] /\ linked /\ Room(mail[n])
    <3>1. Grown(mail[n], request, mail'[n])
      BY <1>4, <1>5, <2>3, SentGrows
    <3>2. Names(request, asked'[n])
      BY <2>1, <2>2, <2>3 DEF Names
    <3>3. Has(mail'[n], "request", asked'[n])
      BY <2>1, <3>1, <3>2, KeepsGrown
    <3> QED
      BY <3>3 DEF UnderWay, Pursued
  <2>4. CASE ~(joined[n] /\ linked /\ Room(mail[n]))
    BY <1>2, <2>2, <2>4 DEF UnderWay, Waits
  <2> QED
    BY <2>3, <2>4
<1>6. CASE mail' = Received(n) /\ UNCHANGED asked
  BY <1>2, <1>4, <1>6, Carried, KeepsSame DEF Waits
<1> QED
  BY <1>3, <1>5, <1>6

(* The machine asked asks, itself.                                         *)
LEMMA OfferPursues ==
  ASSUME Types, NEW n \in Machine, UnderWay(n), OnOffer(Peer(n))
  PROVE  UnderWay(n)'
<1> DEFINE m == Peer(n)
<1>1. m \in Machine /\ m # n /\ Receives(m, "offer") /\ Peer(m) = n
  BY OtherMachine DEF OnOffer
<1>2. /\ UNCHANGED <<jobs, work, reports, joined, linked, unanswered>>
      /\ \/ /\ \E request \in Messages : mail' = AfterSending(m, Received(m), request)
            /\ \E wish : asked' = [asked EXCEPT ![m] = wish]
         \/ mail' = Received(m) /\ UNCHANGED asked
  BY <1>1, OfferParts
<1>3. /\ MailOK(Received(m)) /\ Received(m)[m] = mail[m]
      /\ Keeps(mail[n], {"request"}, Received(m)[n])
  <2>1. "offer" \notin {"request"}
    OBVIOUS
  <2> QED
    BY <1>1, <2>1, MessageTaken, MessageShrinks
<1>4. asked'[n] = asked[n]
  BY <1>1, <1>2 DEF Types, SyncTypes
<1>5. mail'[n] = Received(m)[n] /\ Keeps(mail[m], {"data", "stale"}, mail'[m])
  BY <1>1, <1>2, <1>3, SentGrows, KeepsSame
<1> QED
  BY <1>2, <1>3, <1>4, <1>5, Carried, KeepsSame DEF Waits

(* A request is served or refused.                                         *)
LEMMA RequestParts ==
  ASSUME Types, NEW n \in Machine, OnRequest(n)
  PROVE  LET job == [kind |-> "serve", serial |-> Message(n).serial, format |-> Message(n).format]
             stale == [kind |-> "stale", serial |-> Message(n).serial]
         IN /\ Receives(n, "request") /\ stale \in Messages /\ job \in Jobs
            /\ UNCHANGED <<work, reports, asked, joined, linked>>
            /\ \/ Dispatches(n, job) /\ mail' = Received(n) /\ UNCHANGED unanswered
               \/ UNCHANGED jobs /\ Answers(n, Received(n), stale)
<1> DEFINE job == [kind |-> "serve", serial |-> Message(n).serial, format |-> Message(n).format]
           stale == [kind |-> "stale", serial |-> Message(n).serial]
<1>1. Receives(n, "request") /\ UNCHANGED <<work, reports, asked, joined, linked>>
  BY DEF OnRequest
<1>2. stale \in Messages /\ job \in Jobs
  BY <1>1, MessageTaken, MessageParts DEF Messages, Jobs
<1>3. \/ Dispatches(n, job) /\ mail' = Received(n) /\ UNCHANGED unanswered
      \/ UNCHANGED jobs /\ Answers(n, Received(n), stale)
  BY DEF OnRequest, CannotDispatch
<1> QED
  BY <1>1, <1>2, <1>3

LEMMA RequestPursues ==
  ASSUME Types, NEW n \in Machine, UnderWay(n), OnRequest(Peer(n))
  PROVE  UnderWay(n)'
<1> DEFINE m == Peer(n)
           job == [kind |-> "serve", serial |-> Message(m).serial, format |-> Message(m).format]
           stale == [kind |-> "stale", serial |-> Message(m).serial]
           a == asked[n]
<1>1. m \in Machine /\ m # n /\ Peer(m) = n
  BY OtherMachine
<1>2. /\ Receives(m, "request") /\ stale \in Messages /\ job \in Jobs
      /\ UNCHANGED <<work, reports, asked, joined, linked>>
      /\ \/ Dispatches(m, job) /\ mail' = Received(m) /\ UNCHANGED unanswered
         \/ UNCHANGED jobs /\ Answers(m, Received(m), stale)
  BY <1>1, RequestParts
<1>3. /\ MailOK(Received(m)) /\ Received(m)[m] = mail[m]
      /\ Shrunk(mail[n], Message(m), Received(m)[n])
  BY <1>1, <1>2, MessageTaken, MessageShrinks
<1>4. /\ job.kind = "serve" /\ job.serial = Message(m).serial /\ job.format = Message(m).format
      /\ stale.kind = "stale" /\ stale.serial = Message(m).serial
      /\ Message(m).kind = "request"
  BY <1>1, <1>2, MessageTaken
<1> HIDE DEF job, stale
<1>5. Names(Message(m), a) => Names(job, a) /\ Names(stale, a)
  BY <1>4 DEF Names
<1>6. Has(mail[n], "request", a) => Has(Received(m)[n], "request", a) \/ Names(Message(m), a)
  BY <1>3, HasShrunk
<1>7. CASE Dispatches(m, job) /\ mail' = Received(m) /\ UNCHANGED unanswered
  <2>1. Keeps(jobs[m], {"serve"}, jobs'[m])
    BY <1>1, <1>7, DispatchKeeps
  <2>2. Names(job, a) => Has(jobs'[m], "serve", a)
    <3>1. jobs \in [Machine -> Seq(Jobs)]
      BY QueueTypes
    <3>2. jobs'[m] = Append(jobs[m], job)
      BY <1>1, <1>7, <3>1 DEF Dispatches
    <3>3. Grown(jobs[m], job, jobs'[m])
      BY <1>1, <1>2, <3>1, <3>2, Grows
    <3> QED
      BY <1>4, <3>3, KeepsGrown
  <2>3. Has(mail[n], "request", a) => UnderWay(n)'
    BY <1>2, <1>5, <1>6, <1>7, <2>2, FoundAgain
  <2>4. Has(jobs[m], "serve", a) => UnderWay(n)'
    BY <1>2, <2>1, FoundAgain DEF Keeps
  <2>5. Keeps(mail[m], {"data", "stale"}, mail'[m])
    BY <1>3, <1>7, KeepsSame
  <2>6. Waits(n)' => Waits(n)
    BY <1>2, <1>7 DEF Waits
  <2> QED
    BY <1>2, <2>3, <2>4, <2>5, <2>6, Handed, FoundAgain
<1>8. CASE UNCHANGED jobs /\ Answers(m, Received(m), stale)
  <2>1. mail'[n] = Received(m)[n] /\ Keeps(mail[m], {"data", "stale"}, mail'[m])
    BY <1>1, <1>2, <1>3, <1>8, SentGrows DEF Answers
  <2>2. Waits(n)' => Waits(n)
    BY <1>1, <1>2, <1>8, MailTypes DEF Waits, Answers
  <2>3. Names(stale, a) => UnderWay(n)'
    BY <1>2, <1>3, <1>4, <1>8, MailTypes, AnswerSent
  <2>4. Has(mail[n], "request", a) => UnderWay(n)'
    BY <1>2, <1>5, <1>6, <2>1, <2>3, FoundAgain
  <2> QED
    BY <1>2, <1>8, <2>1, <2>2, <2>4, Handed, FoundAgain
<1> QED
  BY <1>2, <1>7, <1>8

(* The asker is asked, itself.                                             *)
LEMMA OwnRequestPursues ==
  ASSUME Types, NEW n \in Machine, UnderWay(n), OnRequest(n)
  PROVE  UnderWay(n)'
<1> DEFINE m == Peer(n)
<1>1. m \in Machine /\ m # n
  BY OtherMachine
<1>2. /\ Receives(n, "request") /\ UNCHANGED <<work, reports, asked, joined, linked>>
      /\ \/ (\E job : Dispatches(n, job)) /\ mail' = Received(n) /\ UNCHANGED unanswered
         \/ UNCHANGED jobs /\ \E stale \in Messages : Answers(n, Received(n), stale)
  BY RequestParts
<1>3. /\ MailOK(Received(n)) /\ Received(n)[n] = mail[n]
      /\ Keeps(mail[m], {"data", "stale"}, Received(n)[m])
  <2>1. "request" \notin {"data", "stale"}
    OBVIOUS
  <2> QED
    BY <1>2, <2>1, MessageTaken, MessageShrinks
<1>4. jobs'[m] = jobs[m]
  BY <1>1, <1>2, DispatchKeeps
<1>5. mail'[m] = Received(n)[m] /\ Keeps(mail[n], {"request"}, mail'[n])
  BY <1>1, <1>2, <1>3, SentGrows, KeepsSame DEF Answers
<1>6. unanswered'[m] = unanswered[m]
  BY <1>1, <1>2, MailTypes DEF Answers
<1> QED
  BY <1>2, <1>3, <1>4, <1>5, <1>6, Carried, KeepsSame DEF Waits

LEMMA DataParts ==
  ASSUME Types, NEW n \in Machine, OnData(n)
  PROVE  /\ Receives(n, "data") /\ mail' = Received(n)
         /\ UNCHANGED <<work, reports, joined, linked, unanswered>>
         /\ asked' = IF asked[n] = [kind |-> "asked", serial |-> Message(n).serial, format |-> Message(n).format]
                     THEN [asked EXCEPT ![n] = Nothing] ELSE asked
         /\ UNCHANGED jobs \/ \E job : Dispatches(n, job) \/ CannotDispatch(n)
BY DEF OnData

(* The answer comes: it is not waited for any more.                        *)
LEMMA OwnDataPursues ==
  ASSUME Types, NEW n \in Machine, UnderWay(n), OnData(n)
  PROVE  UnderWay(n)'
<1> DEFINE m == Peer(n)
           a == asked[n]
<1>1. m \in Machine /\ m # n
  BY OtherMachine
<1>2. /\ Receives(n, "data") /\ mail' = Received(n)
      /\ UNCHANGED <<work, reports, joined, linked, unanswered>>
      /\ asked' = IF asked[n] = [kind |-> "asked", serial |-> Message(n).serial, format |-> Message(n).format]
                  THEN [asked EXCEPT ![n] = Nothing] ELSE asked
  BY DataParts
<1>3. jobs'[m] = jobs[m]
  BY <1>1, DataParts, DispatchKeeps
<1>4. /\ Shrunk(mail[m], Message(n), mail'[m]) /\ Message(n).kind = "data" /\ mail'[n] = mail[n]
      /\ Keeps(mail[m], {"stale"}, mail'[m])
  <2>1. "data" \notin {"stale"}
    OBVIOUS
  <2> QED
    BY <1>2, <2>1, MessageShrinks
<1>5. CASE asked'[n] = Nothing
  BY <1>5 DEF UnderWay, Waits
<1>6. CASE asked'[n] = a /\ ~(a # Nothing /\ Names(Message(n), a))
  <2>1. Waits(n)' => Waits(n) /\ ~Names(Message(n), a)
    BY <1>2, <1>6 DEF Waits
  <2>2. Has(mail[m], "data", a) /\ ~Names(Message(n), a) => Has(mail'[m], "data", a)
    BY <1>4, HasShrunk
  <2> QED
    BY <1>2, <1>3, <1>4, <1>6, <2>1, <2>2 DEF UnderWay, Pursued, Keeps
<1>7. (a # Nothing /\ Names(Message(n), a)) => asked'[n] = Nothing
  <2>1. a # Nothing /\ Names(Message(n), a) =>
          a = [kind |-> "asked", serial |-> Message(n).serial, format |-> Message(n).format]
    BY <1>4, MailTypes DEF Names
  <2>2. asked \in [Machine -> {Nothing} \union [kind : {"asked"}, serial : Nat, format : Format]]
    BY DEF Types, SyncTypes
  <2> QED
    BY <1>2, <2>1, <2>2
<1>8. asked'[n] = Nothing \/ asked'[n] = a
  <2>1. asked \in [Machine -> {Nothing} \union [kind : {"asked"}, serial : Nat, format : Format]]
    BY DEF Types, SyncTypes
  <2> QED
    BY <1>2, <2>1
<1> QED
  BY <1>5, <1>6, <1>7, <1>8

LEMMA DataPursues ==
  ASSUME Types, NEW n \in Machine, UnderWay(n), OnData(Peer(n))
  PROVE  UnderWay(n)'
<1> DEFINE m == Peer(n)
<1>1. m \in Machine /\ m # n /\ Peer(m) = n
  BY OtherMachine
<1>2. /\ Receives(m, "data") /\ mail' = Received(m)
      /\ UNCHANGED <<work, reports, joined, linked, unanswered>>
      /\ asked' = asked \/ asked' = [asked EXCEPT ![m] = Nothing]
      /\ UNCHANGED jobs \/ \E job : Dispatches(m, job) \/ CannotDispatch(m)
  BY <1>1, DataParts
<1>3. Keeps(jobs[m], {"serve"}, jobs'[m])
  BY <1>1, <1>2, DispatchKeeps, KeepsSame
<1>4. mail'[m] = mail[m] /\ Keeps(mail[n], {"request"}, mail'[n])
  <2>1. "data" \notin {"request"}
    OBVIOUS
  <2> QED
    BY <1>1, <1>2, <2>1, MessageShrinks
<1>5. asked'[n] = asked[n]
  BY <1>1, <1>2 DEF Types, SyncTypes
<1> QED
  BY <1>2, <1>3, <1>4, <1>5, Carried, KeepsSame DEF Waits

LEMMA StalePursues ==
  ASSUME Types, NEW n \in Machine, UnderWay(n), OnStale(n) \/ OnStale(Peer(n))
  PROVE  UnderWay(n)'
<1> DEFINE m == Peer(n)
<1>1. m \in Machine /\ m # n /\ Peer(m) = n
  BY OtherMachine
<1>2. asked \in [Machine -> {Nothing} \union [kind : {"asked"}, serial : Nat, format : Format]]
  BY DEF Types, SyncTypes
<1>3. CASE OnStale(n)
  <2>1. asked'[n] = Nothing
    BY <1>2, <1>3 DEF OnStale
  <2> QED
    BY <2>1 DEF UnderWay, Waits
<1>4. CASE OnStale(m)
  <2>1. /\ Receives(m, "stale") /\ mail' = Received(m) /\ asked' = [asked EXCEPT ![m] = Nothing]
        /\ UNCHANGED <<jobs, work, reports, joined, linked, unanswered>>
    BY <1>4 DEF OnStale, workerVars
  <2>2. mail'[m] = mail[m] /\ Keeps(mail[n], {"request"}, mail'[n])
    <3>1. "stale" \notin {"request"}
      OBVIOUS
    <3> QED
      BY <1>1, <2>1, <3>1, MessageShrinks
  <2>3. asked'[n] = asked[n]
    BY <1>1, <1>2, <2>1
  <2> QED
    BY <2>1, <2>2, <2>3, Carried, KeepsSame DEF Waits
<1> QED
  BY <1>3, <1>4

LEMMA SessionsPursue ==
  ASSUME Types, NEW n \in Machine, AskedOfPeer(n), NEW p \in Machine,
         Disconnect \/ Connect \/ PeerGone(p) \/ Restart(p)
  PROVE  UnderWay(n)'
<1>1. CASE Disconnect \/ PeerGone(p) \/ Restart(p)
  <2>1. ~linked'
    BY <1>1 DEF Disconnect, PeerGone, Restart
  <2> QED
    BY <2>1 DEF UnderWay, Waits
<1>2. CASE Connect
  <2>1. asked'[n] = Nothing
    BY <1>2 DEF Connect, AskedOfPeer, syncVars
  <2> QED
    BY <2>1 DEF UnderWay, Waits
<1> QED
  BY <1>1, <1>2

(* What is asked is forgotten with the session it was asked in.            *)
LEMMA AskedStep ==
  ASSUME Types, NEW n \in Machine, AskedOfPeer(n), [ClipboardNext]_clipboardVars
  PROVE  AskedOfPeer(n)'
<1>1. /\ asked \in [Machine -> {Nothing} \union [kind : {"asked"}, serial : Nat, format : Format]]
      /\ joined \in [Machine -> BOOLEAN]
  BY DEF Types, SyncTypes, LinkTypes
<1>2. CASE asked'[n] = asked[n] /\ (joined[n] => joined'[n])
  BY <1>2 DEF AskedOfPeer
<1>3. CASE asked'[n] = Nothing
  BY <1>3 DEF AskedOfPeer
<1>4. CASE UNCHANGED clipboardVars
  BY <1>2, <1>4 DEF clipboardVars, syncVars, linkVars
<1>5. CASE Disconnect
  BY <1>2, <1>5 DEF Disconnect, syncVars
<1>6. CASE Connect
  BY <1>2, <1>6 DEF Connect, syncVars
<1>7. ASSUME NEW p \in Machine,
             \/ UserCopies(p) \/ SelectionChanged(p) \/ SampleSerial(p) \/ SampleFormats(p)
             \/ ReadForPeer(p) \/ Unpack(p) \/ Write(p) \/ WriteRefused(p) \/ ReadSerial(p) \/ WorkerDies(p)
      PROVE  AskedOfPeer(n)'
  <2>1. UNCHANGED <<asked, joined>>
    BY <1>7 DEF UserCopies, SelectionChanged, SampleSerial, SampleFormats, ReadForPeer, Unpack, Write,
       WriteRefused, ReadSerial, WorkerDies, syncVars, linkVars
  <2> QED
    BY <1>2, <2>1
<1>8. ASSUME NEW p \in Machine, PollClipboard(p) \/ OnRequest(p) \/ OnClipboardDone(p)
      PROVE  AskedOfPeer(n)'
  <2>1. UNCHANGED <<asked, joined>>
    BY <1>8, RequestParts, DoneMail DEF PollClipboard, linkVars
  <2> QED
    BY <1>2, <2>1
<1>9. ASSUME NEW p \in Machine, OnOffer(p)
      PROVE  AskedOfPeer(n)'
  <2>1. /\ joined' = joined
        /\ \/ \E wish : asked' = [asked EXCEPT ![p] = IF joined[p] /\ Room(mail[p]) THEN wish ELSE Nothing]
           \/ asked' = asked
    BY <1>9, OfferParts
  <2>2. asked'[n] = asked[n] \/ asked'[n] = Nothing \/ joined'[n]
    BY <1>1, <2>1
  <2> QED
    BY <1>2, <1>3, <2>1, <2>2 DEF AskedOfPeer
<1>10. ASSUME NEW p \in Machine, OnData(p) \/ OnStale(p)
       PROVE  AskedOfPeer(n)'
  <2>1. joined' = joined /\ (asked' = asked \/ asked' = [asked EXCEPT ![p] = Nothing])
    BY <1>10, DataParts DEF OnStale
  <2>2. asked'[n] = asked[n] \/ asked'[n] = Nothing
    BY <1>1, <2>1
  <2> QED
    BY <1>2, <1>3, <2>1, <2>2
<1>11. ASSUME NEW p \in Machine, PeerGone(p) \/ Restart(p)
       PROVE  AskedOfPeer(n)'
  <2>1. joined' = [joined EXCEPT ![p] = FALSE] /\ asked' = [asked EXCEPT ![p] = Nothing]
    BY <1>11 DEF PeerGone, Restart
  <2>2. asked'[n] = Nothing \/ (asked'[n] = asked[n] /\ joined'[n] = joined[n])
    BY <1>1, <2>1
  <2> QED
    BY <1>2, <1>3, <2>2
<1> QED
  BY <1>4, <1>5, <1>6, <1>7, <1>8, <1>9, <1>10, <1>11 DEF ClipboardNext

(* What is neither the other machine's worker nor the traffic.             *)
LEMMA AsidePursues ==
  ASSUME Types, NEW n \in Machine, UnderWay(n), NEW p \in Machine,
         \/ UserCopies(p) \/ SelectionChanged(p)
         \/ p = n /\ (\/ SampleSerial(p) \/ SampleFormats(p) \/ ReadForPeer(p) \/ Unpack(p) \/ Write(p)
                      \/ WriteRefused(p) \/ ReadSerial(p) \/ WorkerDies(p))
  PROVE  UnderWay(n)'
<1>1. Peer(n) \in Machine /\ Peer(n) # n
  BY OtherMachine
<1>2. UNCHANGED <<asked, mail, joined, linked, unanswered>>
  BY DEF UserCopies, SelectionChanged, SampleSerial, SampleFormats, ReadForPeer, Unpack, Write,
     WriteRefused, ReadSerial, WorkerDies, syncVars, linkVars
<1>3. CASE UserCopies(p) \/ SelectionChanged(p)
  <2>1. UNCHANGED <<jobs, work, reports>>
    BY <1>3, BoardOrMail
  <2> QED
    BY <1>2, <2>1, Carried, KeepsSame DEF Waits
<1>4. CASE p = n /\ (\/ SampleSerial(p) \/ SampleFormats(p) \/ ReadForPeer(p) \/ Unpack(p) \/ Write(p)
                     \/ WriteRefused(p) \/ ReadSerial(p) \/ WorkerDies(p))
  <2>1. SameWorker(Peer(n))
    BY <1>1, <1>4, WorkersElsewhere
  <2> QED
    BY <1>2, <2>1, Carried, KeepsSame DEF Waits, SameWorker
<1> QED
  BY <1>3, <1>4

LEMMA UnderWayStep ==
  ASSUME Types, NEW n \in Machine, AskedOfPeer(n), UnderWay(n), [ClipboardNext]_clipboardVars
  PROVE  UnderWay(n)'
<1>1. CASE UNCHANGED clipboardVars
  BY <1>1, Carried, KeepsSame DEF clipboardVars, workerVars, syncVars, linkVars, Waits
<1>2. CASE Disconnect \/ Connect
  BY <1>2, SessionsPursue
<1>3. ASSUME NEW p \in Machine,
             \/ UserCopies(p) \/ SelectionChanged(p) \/ SampleSerial(p) \/ SampleFormats(p)
             \/ ReadForPeer(p) \/ Unpack(p) \/ Write(p) \/ WriteRefused(p) \/ ReadSerial(p) \/ WorkerDies(p)
             \/ PollClipboard(p) \/ OnClipboardDone(p) \/ OnOffer(p) \/ OnRequest(p) \/ OnData(p) \/ OnStale(p)
             \/ PeerGone(p) \/ Restart(p)
      PROVE  UnderWay(n)'
  <2>1. CASE UserCopies(p) \/ SelectionChanged(p)
    BY <2>1, AsidePursues
  <2>2. CASE PollClipboard(p)
    BY <2>2, PollPursues
  <2>3. CASE PeerGone(p) \/ Restart(p)
    BY <2>3, SessionsPursue
  <2>4. CASE p = n /\ (\/ SampleSerial(p) \/ SampleFormats(p) \/ ReadForPeer(p) \/ Unpack(p) \/ Write(p)
                       \/ WriteRefused(p) \/ ReadSerial(p) \/ WorkerDies(p))
    BY <2>4, AsidePursues
  <2>5. CASE p = n /\ (OnClipboardDone(p) \/ OnOffer(p) \/ OnRequest(p) \/ OnData(p) \/ OnStale(p))
    BY <2>5, OwnDonePursues, OwnOfferPursues, OwnRequestPursues, OwnDataPursues, StalePursues
  <2>6. CASE p = Peer(n) /\ (\/ SampleSerial(p) \/ SampleFormats(p) \/ ReadForPeer(p) \/ Unpack(p) \/ Write(p)
                             \/ WriteRefused(p) \/ ReadSerial(p) \/ WorkerDies(p))
    BY <2>6, WorkerPursues, ServePursues
  <2>7. CASE p = Peer(n) /\ (OnClipboardDone(p) \/ OnOffer(p) \/ OnRequest(p) \/ OnData(p) \/ OnStale(p))
    BY <2>7, DonePursues, OfferPursues, RequestPursues, DataPursues, StalePursues
  <2>8. p = n \/ p = Peer(n)
    BY OtherMachine
  <2> QED
    BY <1>3, <2>1, <2>2, <2>3, <2>4, <2>5, <2>6, <2>7, <2>8
<1> QED
  BY <1>1, <1>2, <1>3 DEF ClipboardNext

LEMMA UnderWayAlways == ClipboardSpec => [](\A n \in Machine : AskedOfPeer(n) /\ UnderWay(n))
<1>1. ClipboardInit => \A n \in Machine : AskedOfPeer(n) /\ UnderWay(n)
  BY DEF ClipboardInit, AskedOfPeer, UnderWay, Waits
<1>2. Types /\ (\A n \in Machine : AskedOfPeer(n) /\ UnderWay(n)) /\ [ClipboardNext]_clipboardVars
        => (\A n \in Machine : AskedOfPeer(n) /\ UnderWay(n))'
  BY AskedStep, UnderWayStep
<1> QED
  BY <1>1, <1>2, TypesAlways, PTL DEF ClipboardSpec

(* What the engine remembers of its worker, its peer and its own writes is *)
(* what they are really doing: polls carry the guard there still is when   *)
(* they are handled, every job counted will be reported, and a request     *)
(* waited for is on its way, or its answer is (ClipboardTraffic and        *)
(* ClipboardSync.asked).                                                   *)
THEOREM ClipboardTrafficTrue == ClipboardSpec => []TrafficIsTrue
<1>1. (\A n \in Machine : WorkerInv(n)) => PollsAreCurrent
  BY DEF WorkerInv, Current, PollsAreCurrent, PollDones
<1>2. (\A n \in Machine : WorkerInv(n)) => JobsAreAccountedFor
  BY DEF WorkerInv, Accounted, JobsAreAccountedFor
<1>3. (\A n \in Machine : AskedOfPeer(n) /\ UnderWay(n)) => RequestsAreUnderWay
  BY UnderWayIsIt
<1>4. (\A n \in Machine : WorkerInv(n)) /\ (\A n \in Machine : AskedOfPeer(n) /\ UnderWay(n)) => TrafficIsTrue
  BY <1>1, <1>2, <1>3 DEF TrafficIsTrue
<1> QED
  BY <1>4, WorkersAlways, UnderWayAlways, PTL

-----------------------------------------------------------------------------
(* What is on the board, and what the guard will know of it.               *)

(* What a machine remembers having put on its board, a portal's, is there. *)
OnBoard(n, bytes) ==
  n \in Portal => ours[n] /\ staged[n] = bytes /\ offered[n] = {bytes.format}

LastOf(q, kinds, i) == i \in Kinds(q, kinds) /\ \A j \in Kinds(q, kinds) : j <= i

(* The guard will hold these bytes once the reports are handled.           *)
Announced(done, guard, bytes) ==
  \/ \E i \in Kinds(done, {"writing"}) : LastOf(done, {"writing"}, i) /\ done[i].bytes = bytes
  \/ Kinds(done, {"writing"}) = {} /\ guard # Nothing /\ guard.bytes = bytes

(* ... and this serial.                                                    *)
Told(done, guard, s) ==
  \/ \E i \in Kinds(done, WriteDones) :
       LastOf(done, WriteDones, i) /\ done[i].kind = "wrote" /\ done[i].serial = s
  \/ Kinds(done, WriteDones) = {} /\ guard # Nothing /\ guard.serial = s

Announces(n, bytes) == Announced(reports[n], writeBack[n], bytes)
SerialKnown(n) == Told(reports[n], writeBack[n], serial[n])

Echoes(guard, d) ==
  /\ guard # Nothing
  /\ \/ d.serial = guard.serial
     \/ guard.bytes.format \in d.formats /\ d.digest = guard.bytes

Followed(q, kind, i) == \E k \in Kinds(q, {kind}) : i < k

Sampled(n, s) == s <= serial[n] /\ (s \in borrowed[n] \/ s <= copiedAt[n])

Serials(n) ==
  /\ copiedAt[n] <= serial[n]
  /\ serial[n] = copiedAt[n] \/ serial[n] \in borrowed[n]
  /\ copiedAt[n] \notin borrowed[n]
  /\ \A s \in borrowed[n] : s <= serial[n]
  /\ work[n].kind = "sampled" => Sampled(n, work[n].serial)
  /\ \A i \in Kinds(reports[n], {"polled"}) : Sampled(n, reports[n][i].serial)

Lent(n, s) == s \in borrowed[n] /\ copiedAt[n] < s

SignalsInv(n) ==
  /\ n \notin Portal => signals[n] = <<>>
  /\ ~disturbed[n] =>
       \A i \in DOMAIN signals[n] :
         signals[n][i].ours =>
           i = 1 /\ staged[n] # Nothing /\ signals[n][i].formats = {staged[n].format} /\ copiedAt[n] < serial[n]

GuardInv(n) ==
  /\ Kinds(reports[n], {"not_written"}) = {}
  /\ work[n].kind = "writing" => Announces(n, work[n].bytes)
  /\ work[n].kind \notin {"writing", "dead"} /\ copiedAt[n] < serial[n] =>
       /\ \E bytes \in Contents : Announces(n, bytes) /\ OnBoard(n, bytes)
       /\ n \notin Portal /\ work[n].kind # "written" => SerialKnown(n)

(* A sample under which a peer's content is still on the board, ...        *)
SampleInv(n) ==
  work[n].kind = "sampled" =>
    /\ Lent(n, work[n].serial) =>
         /\ writeBack[n] # Nothing
         /\ OnBoard(n, writeBack[n].bytes)
         /\ n \notin Portal => work[n].serial = writeBack[n].serial
    /\ work[n].serial <= copiedAt[n] => serial[n] = copiedAt[n]

(* ... and its report, which the guard will know for an echo.  One from    *)
(* before the user's latest copy has the writes since announced behind it. *)
PolledInv(n) ==
  \A i \in Kinds(reports[n], {"polled"}) :
    /\ Lent(n, reports[n][i].serial) => Echoes(writeBack[n], reports[n][i])
    /\ reports[n][i].serial <= copiedAt[n] /\ copiedAt[n] < serial[n] => Followed(reports[n], "writing", i)

EchoInv(n) ==
  /\ Serials(n) /\ SignalsInv(n)
  /\ ~disturbed[n] => GuardInv(n) /\ SampleInv(n) /\ PolledInv(n)

(* After a restart, what is left of the mail is of another numbering; but  *)
(* nothing of a peer's gets on this machine's clipboard before it is gone. *)
Aloof(n) ==
  /\ ~joined[n] /\ borrowed[n] = {}
  /\ Kinds(jobs[n], {"accept"}) = {}
  /\ work[n].kind \notin {"writing", "written"}
  /\ \A i \in DOMAIN signals[n] : ~signals[n][i].ours

Sound(n, s) == s <= serial[n] /\ (s \in borrowed[n] /\ ~disturbed[n] => s < copiedAt[n])


LEMMA AnnouncedGrown ==
  ASSUME NEW q, NEW e, NEW p, Grown(q, e, p), NEW guard, NEW bytes
  PROVE  /\ e.kind # "writing" /\ Announced(q, guard, bytes) => Announced(p, guard, bytes)
         /\ e.kind = "writing" /\ e.bytes = bytes => Announced(p, guard, bytes)
<1>1. ASSUME e.kind # "writing", Announced(q, guard, bytes) PROVE Announced(p, guard, bytes)
  <2>1. Kinds(p, {"writing"}) = Kinds(q, {"writing"}) /\ \A i \in Kinds(q, {"writing"}) : p[i] = q[i]
    BY <1>1 DEF Grown
  <2> QED
    BY <1>1, <2>1 DEF Announced, LastOf
<1>2. ASSUME e.kind = "writing", e.bytes = bytes PROVE Announced(p, guard, bytes)
  <2>1. /\ Kinds(p, {"writing"}) = Kinds(q, {"writing"}) \union {Len(q) + 1} /\ p[Len(q) + 1] = e
        /\ \A i \in Kinds(q, {"writing"}) : i \in Nat /\ i < Len(q) + 1
        /\ Len(q) + 1 \in Nat
    BY <1>2 DEF Grown
  <2>2. LastOf(p, {"writing"}, Len(q) + 1)
    BY <2>1 DEF LastOf
  <2> QED
    BY <1>2, <2>1, <2>2 DEF Announced
<1> QED
  BY <1>1, <1>2

LEMMA ToldGrown ==
  ASSUME NEW q, NEW e, NEW p, Grown(q, e, p), NEW guard, NEW s
  PROVE  /\ e.kind \notin WriteDones /\ Told(q, guard, s) => Told(p, guard, s)
         /\ e.kind = "wrote" /\ e.serial = s => Told(p, guard, s)
<1>1. ASSUME e.kind \notin WriteDones, Told(q, guard, s) PROVE Told(p, guard, s)
  <2>1. Kinds(p, WriteDones) = Kinds(q, WriteDones) /\ \A i \in Kinds(q, WriteDones) : p[i] = q[i]
    BY <1>1 DEF Grown
  <2> QED
    BY <1>1, <2>1 DEF Told, LastOf
<1>2. ASSUME e.kind = "wrote", e.serial = s PROVE Told(p, guard, s)
  <2>1. e.kind \in WriteDones
    BY <1>2 DEF WriteDones, WriteEnds
  <2>2. /\ Kinds(p, WriteDones) = Kinds(q, WriteDones) \union {Len(q) + 1} /\ p[Len(q) + 1] = e
        /\ \A i \in Kinds(q, WriteDones) : i \in Nat /\ i < Len(q) + 1
        /\ Len(q) + 1 \in Nat
    BY <2>1 DEF Grown
  <2>3. LastOf(p, WriteDones, Len(q) + 1)
    BY <2>2 DEF LastOf
  <2> QED
    BY <1>2, <2>2, <2>3 DEF Told
<1> QED
  BY <1>1, <1>2

LEMMA LastShrunk ==
  ASSUME NEW q, NEW e, NEW p, Shrunk(q, e, p), NEW kinds, NEW i, LastOf(q, kinds, i), i # 1
  PROVE  i - 1 \in Kinds(p, kinds) /\ LastOf(p, kinds, i - 1) /\ p[i - 1] = q[i]
<1>1. i - 1 \in Kinds(p, kinds) /\ p[i - 1] = q[i] /\ i \in Nat
  BY DEF Shrunk, LastOf
<1>2. ASSUME NEW j \in Kinds(p, kinds) PROVE j <= i - 1
  <2>1. j + 1 \in Kinds(q, kinds) /\ j \in Nat
    BY DEF Shrunk
  <2>2. j + 1 <= i
    BY <2>1 DEF LastOf
  <2> QED
    BY <1>1, <2>1, <2>2
<1> QED
  BY <1>1, <1>2 DEF LastOf

LEMMA NoneLeft ==
  ASSUME NEW q, NEW e, NEW p, Shrunk(q, e, p), NEW kinds
  PROVE  /\ LastOf(q, kinds, 1) => Kinds(p, kinds) = {} /\ e.kind \in kinds /\ q[1] = e
         /\ Kinds(p, kinds) = {} <=> Kinds(q, kinds) \subseteq {1}
         /\ e.kind \notin kinds /\ Kinds(p, kinds) = {} => Kinds(q, kinds) = {}
<1>1. Kinds(p, kinds) = {} <=> Kinds(q, kinds) \subseteq {1}
  <2>1. ASSUME NEW j \in Kinds(p, kinds) PROVE j + 1 \in Kinds(q, kinds) /\ j + 1 # 1
    BY DEF Shrunk
  <2>2. ASSUME NEW j \in Kinds(q, kinds), j # 1 PROVE j - 1 \in Kinds(p, kinds)
    BY <2>2 DEF Shrunk
  <2> QED
    BY <2>1, <2>2
<1>2. ASSUME LastOf(q, kinds, 1) PROVE Kinds(q, kinds) \subseteq {1}
  <2>1. ASSUME NEW j \in Kinds(q, kinds), j # 1 PROVE FALSE
    <3>1. j \in Nat \ {0, 1} /\ j <= 1
      BY <1>2, <2>1 DEF Shrunk, LastOf
    <3> QED
      BY <3>1
  <2> QED
    BY <2>1
<1>3. 1 \in Kinds(q, kinds) <=> e.kind \in kinds
  BY DEF Shrunk
<1>4. LastOf(q, kinds, 1) => Kinds(p, kinds) = {} /\ e.kind \in kinds /\ q[1] = e
  BY <1>1, <1>2, <1>3 DEF LastOf, Shrunk
<1> QED
  BY <1>1, <1>3, <1>4

LEMMA AnnouncedShrunk ==
  ASSUME NEW q, NEW e, NEW p, Shrunk(q, e, p), NEW guard, NEW bytes, Announced(q, guard, bytes), NEW new
  PROVE  /\ e.kind # "writing" => Announced(p, guard, bytes)
         /\ e.kind # "writing" /\ Kinds(p, {"writing"}) # {} => Announced(p, new, bytes)
         /\ e.kind = "writing" /\ new # Nothing /\ new.bytes = e.bytes => Announced(p, new, bytes)
<1>1. CASE \E i \in Kinds(q, {"writing"}) : LastOf(q, {"writing"}, i) /\ q[i].bytes = bytes /\ i # 1
  <2>1. PICK i : LastOf(q, {"writing"}, i) /\ q[i].bytes = bytes /\ i # 1
    BY <1>1
  <2>2. i - 1 \in Kinds(p, {"writing"}) /\ LastOf(p, {"writing"}, i - 1) /\ p[i - 1] = q[i]
    BY <2>1, LastShrunk
  <2> QED
    BY <2>1, <2>2 DEF Announced
<1>2. CASE LastOf(q, {"writing"}, 1) /\ q[1].bytes = bytes
  <2>1. Kinds(p, {"writing"}) = {} /\ e.kind \in {"writing"} /\ q[1] = e
    BY <1>2, NoneLeft
  <2> QED
    BY <1>2, <2>1 DEF Announced
<1>3. CASE Kinds(q, {"writing"}) = {} /\ guard # Nothing /\ guard.bytes = bytes
  <2>1. Kinds(p, {"writing"}) = {} /\ e.kind \notin {"writing"}
    <3>1. Kinds(p, {"writing"}) = {}
      BY <1>3, NoneLeft
    <3>2. 1 \in Kinds(q, {"writing"}) <=> e.kind \in {"writing"}
      BY DEF Shrunk
    <3> QED
      BY <1>3, <3>1, <3>2
  <2> QED
    BY <1>3, <2>1 DEF Announced
<1> QED
  BY <1>1, <1>2, <1>3 DEF Announced

LEMMA ToldShrunk ==
  ASSUME NEW q, NEW e, NEW p, Shrunk(q, e, p), NEW guard, NEW s, Told(q, guard, s), NEW new
  PROVE  /\ e.kind \notin WriteDones => Told(p, guard, s)
         /\ e.kind \notin WriteDones /\ Kinds(p, WriteDones) # {} => Told(p, new, s)
         /\ e.kind = "writing" => Told(p, new, s)
         /\ e.kind = "wrote" /\ new # Nothing /\ new.serial = e.serial => Told(p, new, s)
<1>1. CASE \E i \in Kinds(q, WriteDones) : LastOf(q, WriteDones, i) /\ q[i].kind = "wrote" /\ q[i].serial = s /\ i # 1
  <2>1. PICK i : LastOf(q, WriteDones, i) /\ q[i].kind = "wrote" /\ q[i].serial = s /\ i # 1
    BY <1>1
  <2>2. i - 1 \in Kinds(p, WriteDones) /\ LastOf(p, WriteDones, i - 1) /\ p[i - 1] = q[i]
    BY <2>1, LastShrunk
  <2> QED
    BY <2>1, <2>2 DEF Told
<1>2. CASE LastOf(q, WriteDones, 1) /\ q[1].kind = "wrote" /\ q[1].serial = s
  <2>1. Kinds(p, WriteDones) = {} /\ e.kind \in WriteDones /\ q[1] = e
    BY <1>2, NoneLeft
  <2> QED
    BY <1>2, <2>1 DEF Told
<1>3. CASE Kinds(q, WriteDones) = {} /\ guard # Nothing /\ guard.serial = s
  <2>1. Kinds(p, WriteDones) = {} /\ e.kind \notin WriteDones
    <3>1. Kinds(p, WriteDones) = {}
      BY <1>3, NoneLeft
    <3>2. 1 \in Kinds(q, WriteDones) <=> e.kind \in WriteDones
      BY DEF Shrunk
    <3> QED
      BY <1>3, <3>1, <3>2
  <2>2. "writing" \in WriteDones /\ "wrote" \in WriteDones
    BY DEF WriteDones, WriteEnds
  <2> QED
    BY <1>3, <2>1, <2>2 DEF Told
<1> QED
  BY <1>1, <1>2, <1>3 DEF Told


LEMMA EchoTypes ==
  ASSUME Types, NEW n \in Machine
  PROVE  /\ serial[n] \in Nat /\ copiedAt[n] \in Nat /\ borrowed[n] \in SUBSET Nat
         /\ disturbed[n] \in BOOLEAN
         /\ work[n] \in Works /\ reports[n] \in Seq(Dones)
         /\ work[n].kind = "sampled" => work[n].serial \in Nat
         /\ \A i \in Kinds(reports[n], {"polled"}) : reports[n][i].serial \in Nat
         /\ signals[n] \in Seq([formats : SUBSET Format, ours : BOOLEAN])
<1>1. /\ serial[n] \in Nat /\ copiedAt[n] \in Nat /\ borrowed[n] \in SUBSET Nat
      /\ disturbed[n] \in BOOLEAN
      /\ work[n] \in Works /\ reports[n] \in Seq(Dones)
      /\ signals[n] \in Seq([formats : SUBSET Format, ours : BOOLEAN])
  BY DEF Types, BoardTypes, WorkerTypes
<1>2. \A i \in Kinds(reports[n], {"polled"}) : reports[n][i].serial \in Nat
  <2> DEFINE q == reports[n]
  <2>1. \A i \in DOMAIN q : q[i] \in Dones
    BY <1>1, LenProperties, ElementOfSeq
  <2> HIDE DEF q
  <2>2. \A i \in Kinds(q, {"polled"}) : q[i].serial \in Nat
    BY <2>1, DoneParts DEF Kinds
  <2> QED
    BY <2>2 DEF q
<1>3. work[n].kind = "sampled" => work[n].serial \in Nat
  BY <1>1, WorkParts
<1> QED
  BY <1>1, <1>2, <1>3

BoardSame(n) ==
  /\ signals'[n] = signals[n] /\ serial'[n] = serial[n] /\ offered'[n] = offered[n]
  /\ ours'[n] = ours[n] /\ staged'[n] = staged[n] /\ borrowed'[n] = borrowed[n]
  /\ copiedAt'[n] = copiedAt[n] /\ disturbed'[n] = disturbed[n]

LEMMA EchoKept ==
  ASSUME NEW n \in Machine, EchoInv(n), BoardSame(n),
         work'[n] = work[n], reports'[n] = reports[n], writeBack'[n] = writeBack[n]
  PROVE  EchoInv(n)'
<1>1. Serials(n)'
  BY DEF EchoInv, BoardSame, Serials, Sampled
<1>2. SignalsInv(n)'
  BY DEF EchoInv, BoardSame, SignalsInv
<1>3. ~disturbed[n] => GuardInv(n)'
  BY DEF EchoInv, BoardSame, GuardInv, Announces, SerialKnown, OnBoard
<1>4. ~disturbed[n] => SampleInv(n)' /\ PolledInv(n)'
  BY DEF EchoInv, BoardSame, SampleInv, PolledInv, OnBoard, Lent
<1> QED
  BY <1>1, <1>2, <1>3, <1>4 DEF EchoInv, BoardSame

(* The parts, when the board stays and something is reported or handled.   *)
LEMMA BoardKept ==
  ASSUME NEW n \in Machine, Serials(n), SignalsInv(n), BoardSame(n),
         work'[n].kind = "sampled" => Sampled(n, work'[n].serial),
         \A i \in Kinds(reports'[n], {"polled"}) : Sampled(n, reports'[n][i].serial)
  PROVE  Serials(n)' /\ SignalsInv(n)'
<1>1. Serials(n)'
  BY DEF BoardSame, Serials, Sampled
<1>2. SignalsInv(n)'
  BY DEF BoardSame, SignalsInv
<1> QED
  BY <1>1, <1>2

LEMMA SampledGrown ==
  ASSUME NEW n \in Machine, Serials(n), NEW d, Grown(reports[n], d, reports'[n]),
         d.kind = "polled" => Sampled(n, d.serial)
  PROVE  \A i \in Kinds(reports'[n], {"polled"}) : Sampled(n, reports'[n][i].serial)
<1> DEFINE q == reports[n]
           p == reports'[n]
<1>1. /\ d.kind \in {"polled"} => Kinds(p, {"polled"}) = Kinds(q, {"polled"}) \union {Len(q) + 1}
      /\ d.kind \notin {"polled"} => Kinds(p, {"polled"}) = Kinds(q, {"polled"})
      /\ \A i \in Kinds(q, {"polled"}) : p[i] = q[i]
      /\ p[Len(q) + 1] = d
  BY DEF Grown
<1>2. \A i \in Kinds(q, {"polled"}) : Sampled(n, q[i].serial)
  BY DEF Serials
<1> HIDE DEF p, q
<1>3. \A i \in Kinds(p, {"polled"}) : Sampled(n, p[i].serial)
  BY <1>1, <1>2
<1> QED
  BY <1>3 DEF p

LEMMA SampledShrunk ==
  ASSUME NEW n \in Machine, Serials(n), NEW d, Shrunk(reports[n], d, reports'[n])
  PROVE  \A i \in Kinds(reports'[n], {"polled"}) : Sampled(n, reports'[n][i].serial)
BY DEF Serials, Shrunk

LEMMA PolledGrown ==
  ASSUME NEW n \in Machine, PolledInv(n), BoardSame(n), writeBack'[n] = writeBack[n],
         NEW d, Grown(reports[n], d, reports'[n]),
         d.kind = "polled" =>
           /\ Lent(n, d.serial) => Echoes(writeBack[n], d)
           /\ ~(d.serial <= copiedAt[n] /\ copiedAt[n] < serial[n])
  PROVE  PolledInv(n)'
<1> DEFINE q == reports[n]
           p == reports'[n]
<1> SUFFICES ASSUME NEW i \in Kinds(p, {"polled"})
             PROVE  /\ Lent(n, p[i].serial) => Echoes(writeBack[n], p[i])
                    /\ p[i].serial <= copiedAt[n] /\ copiedAt[n] < serial[n] => Followed(p, "writing", i)
  BY DEF PolledInv, BoardSame, Lent
<1>1. /\ d.kind \in {"polled"} => Kinds(p, {"polled"}) = Kinds(q, {"polled"}) \union {Len(q) + 1}
      /\ d.kind \notin {"polled"} => Kinds(p, {"polled"}) = Kinds(q, {"polled"})
      /\ \A j \in Kinds(q, {"polled"}) : p[j] = q[j]
      /\ p[Len(q) + 1] = d
  BY DEF Grown
<1>2. \A k \in Kinds(q, {"writing"}) : k \in Kinds(p, {"writing"})
  BY DEF Grown
<1>3. CASE i \in Kinds(q, {"polled"})
  BY <1>1, <1>2, <1>3 DEF PolledInv, Followed
<1>4. CASE i \notin Kinds(q, {"polled"})
  <2>1. p[i] = d /\ d.kind = "polled"
    BY <1>1, <1>4
  <2> QED
    BY <2>1
<1> QED
  BY <1>3, <1>4

LEMMA PolledShrunk ==
  ASSUME NEW n \in Machine, PolledInv(n), BoardSame(n), NEW d, Shrunk(reports[n], d, reports'[n]),
         writeBack'[n] = writeBack[n] \/ Kinds(reports'[n], {"polled"}) = {}
  PROVE  PolledInv(n)'
<1> DEFINE q == reports[n]
           p == reports'[n]
<1> SUFFICES ASSUME NEW i \in Kinds(p, {"polled"})
             PROVE  /\ Lent(n, p[i].serial) => Echoes(writeBack'[n], p[i])
                    /\ p[i].serial <= copiedAt[n] /\ copiedAt[n] < serial[n] => Followed(p, "writing", i)
  BY DEF PolledInv, BoardSame, Lent
<1>1. i + 1 \in Kinds(q, {"polled"}) /\ p[i] = q[i + 1] /\ i \in Nat \ {0}
  BY DEF Shrunk
<1>2. writeBack'[n] = writeBack[n]
  OBVIOUS
<1>3. Followed(q, "writing", i + 1) => Followed(p, "writing", i)
  <2> SUFFICES ASSUME NEW k \in Kinds(q, {"writing"}), i + 1 < k PROVE Followed(p, "writing", i)
    BY DEF Followed
  <2>1. k # 1
    BY <1>1
  <2>2. k - 1 \in Kinds(p, {"writing"}) /\ k \in Nat
    BY <2>1 DEF Shrunk
  <2>3. i < k - 1
    BY <1>1, <2>2
  <2> QED
    BY <2>2, <2>3 DEF Followed
<1> QED
  BY <1>1, <1>2, <1>3 DEF PolledInv

(* The user copies: whatever has been sampled is from before that.         *)
LEMMA Copied ==
  ASSUME Types, NEW n \in Machine, EchoInv(n), serial'[n] = serial[n] + 1, copiedAt'[n] = serial[n] + 1,
         borrowed'[n] = borrowed[n], disturbed'[n] = disturbed[n],
         work'[n] = work[n], reports'[n] = reports[n], writeBack'[n] = writeBack[n], SignalsInv(n)'
  PROVE  EchoInv(n)'
<1>1. /\ serial[n] \in Nat /\ copiedAt[n] \in Nat /\ borrowed[n] \in SUBSET Nat
      /\ work[n].kind = "sampled" => work[n].serial \in Nat
      /\ \A i \in Kinds(reports[n], {"polled"}) : reports[n][i].serial \in Nat
  BY EchoTypes
<1>2. /\ copiedAt[n] <= serial[n] /\ \A s \in borrowed[n] : s <= serial[n]
      /\ work[n].kind = "sampled" => work[n].serial <= serial[n]
      /\ \A i \in Kinds(reports[n], {"polled"}) : reports[n][i].serial <= serial[n]
  BY DEF EchoInv, Serials, Sampled
<1>3. \A s \in Nat : s <= serial[n] => s <= serial'[n] /\ s <= copiedAt'[n] /\ s # copiedAt'[n] /\ ~(copiedAt'[n] < s)
  BY <1>1
<1>4. copiedAt'[n] = serial'[n] /\ copiedAt'[n] <= serial'[n] /\ ~(copiedAt'[n] < serial'[n])
  BY <1>1
<1>5. Serials(n)'
  BY <1>1, <1>2, <1>3, <1>4 DEF Serials, Sampled
<1>6. ~disturbed[n] => GuardInv(n)'
  BY <1>4 DEF EchoInv, GuardInv, Announces
<1>7. \A s \in borrowed[n] : ~(copiedAt'[n] < s)
  BY <1>1, <1>2, <1>3
<1>8. ~disturbed[n] => SampleInv(n)' /\ PolledInv(n)'
  BY <1>4, <1>7 DEF SampleInv, PolledInv, Lent
<1> QED
  BY <1>5, <1>6, <1>8 DEF EchoInv

LEMMA UserCopiesEcho ==
  ASSUME Types, NEW n \in Machine, EchoInv(n), UserCopies(n)
  PROVE  EchoInv(n)'
<1>1. /\ BoardTypes
      /\ UNCHANGED <<ours, staged, disturbed, work, reports, writeBack>>
      /\ IF n \in Portal
         THEN /\ \E formats : signals' = [signals EXCEPT ![n] = Append(@, [formats |-> formats, ours |-> FALSE])]
              /\ UNCHANGED <<serial, offered, borrowed, copiedAt>>
         ELSE /\ Bump(n, FALSE)
              /\ copiedAt' = [copiedAt EXCEPT ![n] = serial'[n]]
              /\ UNCHANGED signals
  BY DEF UserCopies, workerVars, syncVars, Types
<1>2. CASE n \in Portal
  <2> PICK formats : signals' = [signals EXCEPT ![n] = Append(@, [formats |-> formats, ours |-> FALSE])]
    BY <1>1, <1>2
  <2>1. Serials(n)'
    BY <1>1, <1>2 DEF EchoInv, Serials, Sampled
  <2>2. SignalsInv(n)'
    <3> DEFINE q == signals[n]
               e == [formats |-> formats, ours |-> FALSE]
               S == [formats : SUBSET Format, ours : BOOLEAN] \union {e}
    <3>1. q \in Seq(S) /\ signals'[n] = Append(q, e)
      <4>1. q \in Seq([formats : SUBSET Format, ours : BOOLEAN])
        BY <1>1 DEF BoardTypes
      <4>2. signals'[n] = Append(q, e)
        BY <1>1 DEF BoardTypes
      <4> QED
        BY <4>1, <4>2, SeqMonotonic
    <3>2. /\ \A i \in DOMAIN q : signals'[n][i] = q[i]
          /\ DOMAIN signals'[n] = 1 .. Len(q) + 1 /\ DOMAIN q = 1 .. Len(q) /\ Len(q) \in Nat
          /\ signals'[n][Len(q) + 1] = e
      BY <3>1, AppendProperties, LenProperties
    <3>3. ~e.ours
      OBVIOUS
    <3> HIDE DEF e
    <3>4. \A i \in DOMAIN signals'[n] : signals'[n][i].ours => i \in DOMAIN q /\ signals'[n][i] = q[i]
      BY <3>2, <3>3
    <3>5. /\ staged'[n] = staged[n] /\ copiedAt'[n] = copiedAt[n] /\ serial'[n] = serial[n]
          /\ disturbed'[n] = disturbed[n]
      BY <1>1, <1>2
    <3> QED
      BY <1>2, <3>4, <3>5 DEF SignalsInv, EchoInv
  <2>3. GuardInv(n) => GuardInv(n)'
    BY <1>1, <1>2 DEF GuardInv, Announces, SerialKnown, OnBoard
  <2>4. SampleInv(n) /\ PolledInv(n) => SampleInv(n)' /\ PolledInv(n)'
    BY <1>1, <1>2 DEF SampleInv, PolledInv, Lent, OnBoard
  <2> QED
    BY <1>1, <2>1, <2>2, <2>3, <2>4 DEF EchoInv
<1>3. CASE n \notin Portal
  <2>1. /\ serial'[n] = serial[n] + 1 /\ copiedAt'[n] = serial[n] + 1
        /\ borrowed'[n] = borrowed[n] /\ disturbed'[n] = disturbed[n]
        /\ work'[n] = work[n] /\ reports'[n] = reports[n] /\ writeBack'[n] = writeBack[n]
    BY <1>1, <1>3 DEF Bump, BoardTypes
  <2>2. signals' = signals /\ signals[n] = <<>>
    BY <1>1, <1>3 DEF EchoInv, SignalsInv
  <2>3. SignalsInv(n)'
    BY <2>2 DEF SignalsInv
  <2> QED
    BY <2>1, <2>3, Copied
<1> QED
  BY <1>2, <1>3

LEMMA SelectionChangedEcho ==
  ASSUME Types, NEW n \in Machine, EchoInv(n), SelectionChanged(n)
  PROVE  EchoInv(n)'
<1> DEFINE signal == Head(signals[n])
<1>1. /\ BoardTypes /\ signals[n] # <<>>
      /\ signals[n] \in Seq([formats : SUBSET Format, ours : BOOLEAN])
      /\ UNCHANGED <<disturbed, work, reports, writeBack>>
  BY DEF SelectionChanged, workerVars, syncVars, Types, BoardTypes
<1>2. /\ signals'[n] = Tail(signals[n]) /\ ours'[n] = signal.ours /\ offered'[n] = signal.formats
      /\ staged'[n] = IF signal.ours THEN staged[n] ELSE Nothing
      /\ serial'[n] = serial[n] + 1
      /\ borrowed'[n] = IF signal.ours THEN borrowed[n] \union {serial[n] + 1} ELSE borrowed[n]
      /\ copiedAt'[n] = IF signal.ours THEN copiedAt[n] ELSE serial[n] + 1
  BY <1>1 DEF SelectionChanged, Bump, BoardTypes
<1>3. n \in Portal
  BY <1>1 DEF EchoInv, SignalsInv
<1>4. /\ signal = signals[n][1] /\ 1 \in DOMAIN signals[n]
      /\ \A i \in DOMAIN signals'[n] : i + 1 \in DOMAIN signals[n] /\ signals'[n][i] = signals[n][i + 1] /\ i \in Nat \ {0}
  <2> DEFINE q == signals[n]
             t == Tail(q)
  <2>1. /\ t \in Seq([formats : SUBSET Format, ours : BOOLEAN]) /\ Len(t) = Len(q) - 1
        /\ \A i \in 1 .. Len(t) : t[i] = q[i + 1]
    BY <1>1, HeadTailProperties
  <2>2. DOMAIN t = 1 .. Len(t) /\ DOMAIN q = 1 .. Len(q) /\ Len(q) \in Nat \ {0} /\ q[1] = Head(q)
    BY <1>1, <2>1, LenProperties, EmptySeq
  <2> HIDE DEF t
  <2>3. 1 \in DOMAIN q /\ \A i \in DOMAIN t : i + 1 \in DOMAIN q /\ t[i] = q[i + 1] /\ i \in Nat \ {0}
    BY <2>1, <2>2
  <2> QED
    BY <1>2, <2>2, <2>3 DEF t
<1> HIDE DEF signal
<1>5. ~disturbed[n] => \A i \in DOMAIN signals'[n] : ~signals'[n][i].ours
  <2> SUFFICES ASSUME ~disturbed[n], NEW i \in DOMAIN signals'[n], signals'[n][i].ours PROVE FALSE
    OBVIOUS
  <2>1. i + 1 = 1 /\ i \in Nat \ {0}
    BY <1>4 DEF EchoInv, SignalsInv
  <2> QED
    BY <2>1
<1>6. SignalsInv(n)'
  BY <1>1, <1>3, <1>5 DEF SignalsInv
<1>7. CASE ~signal.ours
  <2>1. /\ serial'[n] = serial[n] + 1 /\ copiedAt'[n] = serial[n] + 1
        /\ borrowed'[n] = borrowed[n] /\ disturbed'[n] = disturbed[n]
        /\ work'[n] = work[n] /\ reports'[n] = reports[n] /\ writeBack'[n] = writeBack[n]
    BY <1>1, <1>2, <1>7
  <2> QED
    BY <2>1, <1>6, Copied
<1>8. CASE signal.ours
  <2>1. /\ serial[n] \in Nat /\ copiedAt[n] \in Nat /\ borrowed[n] \in SUBSET Nat
        /\ work[n].kind = "sampled" => work[n].serial \in Nat
        /\ \A i \in Kinds(reports[n], {"polled"}) : reports[n][i].serial \in Nat
    BY EchoTypes
  <2>2. /\ serial'[n] = serial[n] + 1 /\ copiedAt'[n] = copiedAt[n]
        /\ borrowed'[n] = borrowed[n] \union {serial[n] + 1} /\ staged'[n] = staged[n] /\ ours'[n]
    BY <1>2, <1>8
  <2>3. Serials(n)'
    BY <1>1, <2>1, <2>2 DEF EchoInv, Serials, Sampled
  <2>4. ~disturbed[n] => /\ staged[n] # Nothing /\ offered'[n] = {staged[n].format} /\ copiedAt[n] < serial[n]
    BY <1>2, <1>4, <1>8 DEF EchoInv, SignalsInv
  <2>5. \A bytes : ~disturbed[n] /\ OnBoard(n, bytes) => OnBoard(n, bytes)'
    BY <1>3, <2>2, <2>4 DEF OnBoard
  <2>6. ~disturbed[n] => GuardInv(n)'
    <3> SUFFICES ASSUME ~disturbed[n] PROVE GuardInv(n)'
      OBVIOUS
    <3>1. GuardInv(n) /\ copiedAt[n] < serial[n]
      BY <2>4 DEF EchoInv
    <3>2. \A bytes : Announces(n, bytes)' <=> Announces(n, bytes)
      BY <1>1 DEF Announces
    <3>3. work'[n] = work[n] /\ reports'[n] = reports[n]
      BY <1>1
    <3>4. Kinds(reports'[n], {"not_written"}) = {} /\ (work'[n].kind = "writing" => Announces(n, work[n].bytes)')
      BY <3>1, <3>2, <3>3 DEF GuardInv
    <3>5. work'[n].kind \notin {"writing", "dead"} => \E bytes \in Contents : Announces(n, bytes)' /\ OnBoard(n, bytes)'
      BY <2>5, <3>1, <3>2, <3>3 DEF GuardInv
    <3> QED
      BY <1>3, <3>3, <3>4, <3>5 DEF GuardInv
  <2>7. ~disturbed[n] => SampleInv(n)'
    <3> SUFFICES ASSUME ~disturbed[n], work[n].kind = "sampled" PROVE SampleInv(n)'
      BY <1>1 DEF SampleInv
    <3>1. SampleInv(n) /\ Serials(n) /\ copiedAt[n] < serial[n]
      BY <2>4 DEF EchoInv
    <3>2. Lent(n, work[n].serial)' => Lent(n, work[n].serial)
      BY <1>1, <2>1, <2>2, <3>1 DEF Lent, Serials, Sampled
    <3>3. ~(work[n].serial <= copiedAt[n])
      BY <2>1, <3>1 DEF SampleInv
    <3>4. work'[n] = work[n] /\ writeBack'[n] = writeBack[n]
      BY <1>1
    <3> QED
      BY <1>3, <2>2, <2>5, <3>1, <3>2, <3>3, <3>4 DEF SampleInv
  <2>8. ~disturbed[n] => PolledInv(n)'
    <3> SUFFICES ASSUME ~disturbed[n], NEW i \in Kinds(reports[n], {"polled"})
                 PROVE  /\ Lent(n, reports[n][i].serial)' => Echoes(writeBack[n], reports[n][i])
                        /\ reports[n][i].serial <= copiedAt[n] => Followed(reports[n], "writing", i)
      BY <1>1, <2>2 DEF PolledInv
    <3>1. PolledInv(n) /\ Serials(n) /\ copiedAt[n] < serial[n]
      BY <2>4 DEF EchoInv
    <3>2. Lent(n, reports[n][i].serial)' => Lent(n, reports[n][i].serial)
      BY <1>1, <2>1, <2>2, <3>1 DEF Lent, Serials, Sampled
    <3> QED
      BY <3>1, <3>2 DEF PolledInv
  <2> QED
    BY <1>1, <1>6, <2>3, <2>6, <2>7, <2>8 DEF EchoInv
<1> QED
  BY <1>7, <1>8

(* The worker's steps.                                                     *)
LEMMA GuardKept ==
  ASSUME NEW n \in Machine, GuardInv(n), BoardSame(n),
         \A bytes : Announces(n, bytes) => Announces(n, bytes)',
         SerialKnown(n) => SerialKnown(n)',
         Kinds(reports'[n], {"not_written"}) = {},
         work'[n].kind = "writing" => work'[n] = work[n],
         work'[n].kind \notin {"writing", "dead"} =>
           work[n].kind \notin {"writing", "dead"} /\ (work[n].kind = "written" => work'[n].kind = "written")
  PROVE  GuardInv(n)'
<1>1. \A bytes : OnBoard(n, bytes)' <=> OnBoard(n, bytes)
  BY DEF OnBoard, BoardSame
<1>2. work'[n].kind = "writing" => Announces(n, work[n].bytes)'
  BY DEF GuardInv
<1>3. work'[n].kind \notin {"writing", "dead"} /\ copiedAt[n] < serial[n] =>
        /\ \E bytes \in Contents : Announces(n, bytes)' /\ OnBoard(n, bytes)'
        /\ n \notin Portal /\ work'[n].kind # "written" => SerialKnown(n)'
  BY <1>1 DEF GuardInv
<1>4. copiedAt'[n] = copiedAt[n] /\ serial'[n] = serial[n]
  BY DEF BoardSame
<1> QED
  BY <1>2, <1>3, <1>4 DEF GuardInv

LEMMA GuardGrown ==
  ASSUME NEW n \in Machine, GuardInv(n), BoardSame(n), writeBack'[n] = writeBack[n],
         NEW d, Grown(reports[n], d, reports'[n]), d.kind \notin WriteDones,
         work'[n].kind = "writing" => work'[n] = work[n],
         work'[n].kind \notin {"writing", "dead"} =>
           work[n].kind \notin {"writing", "dead"} /\ (work[n].kind = "written" => work'[n].kind = "written")
  PROVE  GuardInv(n)'
<1>1. d.kind # "writing" /\ d.kind \notin {"not_written"}
  BY DEF WriteDones, WriteEnds
<1>2. \A bytes : Announces(n, bytes) => Announces(n, bytes)'
  BY <1>1, AnnouncedGrown DEF Announces
<1>3. SerialKnown(n) => SerialKnown(n)'
  BY ToldGrown DEF SerialKnown, BoardSame
<1>4. Kinds(reports'[n], {"not_written"}) = {}
  BY <1>1 DEF Grown, GuardInv
<1> QED
  BY <1>2, <1>3, <1>4, GuardKept

(* A report that says nothing of the board.                                *)
LEMMA PlainReport ==
  ASSUME Types, NEW n \in Machine, EchoInv(n), BoardSame(n), writeBack'[n] = writeBack[n],
         NEW d, Grown(reports[n], d, reports'[n]), d.kind \in {"nothing_new", "served", "discarded", "worker_gone"},
         work'[n] = work[n] \/ work'[n].kind = "dead"
  PROVE  EchoInv(n)'
<1>1. d.kind \notin WriteDones /\ d.kind # "polled"
  BY DEF WriteDones, WriteEnds
<1>2. \A i \in Kinds(reports'[n], {"polled"}) : Sampled(n, reports'[n][i].serial)
  BY <1>1, SampledGrown DEF EchoInv
<1>3. Serials(n)' /\ SignalsInv(n)'
  BY <1>2, BoardKept DEF EchoInv, Serials
<1>4. ~disturbed[n] => GuardInv(n)'
  BY <1>1, GuardGrown DEF EchoInv
<1>5. ~disturbed[n] => PolledInv(n)'
  BY <1>1, PolledGrown DEF EchoInv
<1>6. ~disturbed[n] => SampleInv(n)'
  BY DEF EchoInv, SampleInv, BoardSame, Lent, OnBoard
<1> QED
  BY <1>3, <1>4, <1>5, <1>6 DEF EchoInv, BoardSame

LEMMA SampleSerialEcho ==
  ASSUME Types, NEW n \in Machine, WorkerInv(n), EchoInv(n), SampleSerial(n)
  PROVE  EchoInv(n)'
<1> DEFINE job == Head(jobs[n])
<1>1. /\ Starts(n, "poll") /\ BoardSame(n) /\ writeBack'[n] = writeBack[n]
  BY DEF SampleSerial, BoardSame, boardVars, syncVars
<1>2. work[n] = Nothing /\ Kinds(reports[n], Ordered) = {} /\ job \in Jobs /\ job.kind = "poll"
  BY <1>1, Started
<1>3. CASE serial[n] \in job.seen
  <2> DEFINE d == [kind |-> "nothing_new", armed |-> job.armed]
  <2>1. Report(n, d) /\ work' = work
    BY <1>3 DEF SampleSerial
  <2>2. d \in Dones /\ d.kind = "nothing_new"
    BY <1>2, JobParts DEF Dones
  <2> HIDE DEF d
  <2>3. Grown(reports[n], d, reports'[n])
    BY <2>1, <2>2, Reported
  <2> QED
    BY <1>1, <2>1, <2>2, <2>3, PlainReport
<1>4. CASE serial[n] \notin job.seen
  <2>1. /\ reports' = reports
        /\ work'[n] = [kind |-> "sampled", serial |-> serial[n], armed |-> job.armed]
    BY <1>4, QueueTypes DEF SampleSerial
  <2>2. work'[n].kind = "sampled" /\ work'[n].serial = serial[n]
    BY <2>1
  <2>3. serial[n] \in Nat /\ copiedAt[n] \in Nat
    BY EchoTypes
  <2>4. Serials(n) /\ SignalsInv(n)
    BY DEF EchoInv
  <2>5. Sampled(n, serial[n]) /\ (serial[n] <= copiedAt[n] => serial[n] = copiedAt[n])
    BY <2>3, <2>4 DEF Serials, Sampled
  <2>6. \A i \in Kinds(reports'[n], {"polled"}) : Sampled(n, reports'[n][i].serial)
    BY <2>1, <2>4 DEF Serials
  <2>7. Serials(n)' /\ SignalsInv(n)'
    BY <1>1, <2>2, <2>4, <2>5, <2>6, BoardKept
  <2>8. work[n].kind = "nothing"
    BY <1>2 DEF Nothing
  <2>9. ~disturbed[n] => GuardInv(n)'
    <3>1. \A bytes : Announces(n, bytes)' <=> Announces(n, bytes)
      BY <1>1, <2>1 DEF Announces
    <3>2. SerialKnown(n)' <=> SerialKnown(n)
      BY <1>1, <2>1 DEF SerialKnown, BoardSame
    <3>3. ~disturbed[n] => Kinds(reports'[n], {"not_written"}) = {} /\ GuardInv(n)
      BY <2>1 DEF EchoInv, GuardInv
    <3> QED
      BY <1>1, <2>2, <2>8, <3>1, <3>2, <3>3, GuardKept
  <2>10. ~disturbed[n] => PolledInv(n)'
    BY <1>1, <2>1 DEF EchoInv, PolledInv, BoardSame, Lent
  <2>11. ~disturbed[n] => SampleInv(n)'
    <3> SUFFICES ASSUME ~disturbed[n], Lent(n, serial[n])
                 PROVE  /\ writeBack[n] # Nothing
                        /\ OnBoard(n, writeBack[n].bytes)
                        /\ n \notin Portal => serial[n] = writeBack[n].serial
      BY <1>1, <2>2, <2>5 DEF SampleInv, BoardSame, Lent, OnBoard
    <3>1. Kinds(reports[n], {"writing"}) = {} /\ Kinds(reports[n], WriteDones) = {}
      BY <1>2, OrderedKinds DEF Kinds, Ordered, WriteDones, WriteEnds
    <3>2. /\ \E bytes \in Contents : Announces(n, bytes) /\ OnBoard(n, bytes)
          /\ n \notin Portal => SerialKnown(n)
      BY <2>8 DEF EchoInv, GuardInv, Lent
    <3> QED
      BY <3>1, <3>2 DEF Announces, Announced, SerialKnown, Told
  <2> QED
    BY <1>1, <2>7, <2>9, <2>10, <2>11 DEF EchoInv, BoardSame
<1> QED
  BY <1>3, <1>4

LEMMA ServeEcho ==
  ASSUME Types, NEW n \in Machine, EchoInv(n), ReadForPeer(n)
  PROVE  EchoInv(n)'
<1> DEFINE job == Head(jobs[n])
           d == [kind |-> "served", format |-> job.format, serial |-> job.serial, bytes |-> ReadBytes(n, job.format)]
<1>1. BoardSame(n) /\ writeBack'[n] = writeBack[n] /\ work'[n] = work[n] /\ Report(n, d) /\ Starts(n, "serve")
  BY DEF ReadForPeer, BoardSame, boardVars, syncVars
<1>2. d \in Dones
  <2>1. job.format \in Format /\ job.serial \in Nat
    BY <1>1, StartsTypes, JobParts
  <2>2. ReadBytes(n, job.format) \in BytesOf
    BY <2>1, ReadType
  <2> QED
    BY <2>1, <2>2 DEF Dones
<1>3. d.kind = "served"
  OBVIOUS
<1> HIDE DEF d
<1>4. Grown(reports[n], d, reports'[n])
  BY <1>1, <1>2, Reported
<1> QED
  BY <1>1, <1>3, <1>4, PlainReport

LEMMA WorkerDiesEcho ==
  ASSUME Types, NEW n \in Machine, EchoInv(n), WorkerDies(n)
  PROVE  EchoInv(n)'
<1> DEFINE d == [kind |-> "worker_gone"]
<1>1. BoardSame(n) /\ writeBack'[n] = writeBack[n] /\ Report(n, d)
  BY DEF WorkerDies, BoardSame, boardVars, syncVars
<1>2. d \in Dones /\ d.kind = "worker_gone"
  BY DEF Dones
<1> HIDE DEF d
<1>3. work'[n].kind = "dead"
  BY QueueTypes DEF WorkerDies
<1>4. Grown(reports[n], d, reports'[n])
  BY <1>1, <1>2, Reported
<1> QED
  BY <1>1, <1>2, <1>3, <1>4, PlainReport

(* The sample is of what a peer sent: the guard will know it again.        *)
LEMMA SampleEchoes ==
  ASSUME Types, NEW n \in Machine, work[n].kind = "sampled", work[n].armed = Armed(n),
         writeBack[n] # Nothing, OnBoard(n, writeBack[n].bytes),
         n \notin Portal => work[n].serial = writeBack[n].serial,
         NEW d, d.serial = work[n].serial, d.formats = offered[n],
         LET armed == work[n].armed
             asks == armed # Nothing /\ armed.serial # work[n].serial /\ armed.format \in offered[n]
         IN d.digest = IF asks THEN ReadBytes(n, armed.format) ELSE Nothing
  PROVE  Echoes(writeBack[n], d)
<1> DEFINE guard == writeBack[n]
           arm == [kind |-> "armed", serial |-> guard.serial, format |-> guard.bytes.format]
<1>1. guard.bytes \in Contents
  BY DEF Types, SyncTypes
<1>2. guard.bytes # Nothing
  BY <1>1, ContentParts
<1>3. work[n].armed = arm
  BY DEF Armed
<1>4. arm # Nothing /\ arm.serial = guard.serial /\ arm.format = guard.bytes.format
  BY DEF Nothing
<1> HIDE DEF arm
<1>5. CASE d.serial = guard.serial
  BY <1>5 DEF Echoes
<1>6. CASE d.serial # guard.serial
  <2>1. n \in Portal /\ ours[n] /\ staged[n] = guard.bytes /\ offered[n] = {guard.bytes.format}
    BY <1>6 DEF OnBoard
  <2>2. guard.bytes.format \in offered[n]
    BY <2>1
  <2>3. d.digest = ReadBytes(n, guard.bytes.format)
    BY <1>3, <1>4, <1>6, <2>2
  <2>4. ReadBytes(n, guard.bytes.format) = guard.bytes
    BY <1>2, <2>1, <2>2 DEF ReadBytes
  <2> QED
    BY <2>2, <2>3, <2>4 DEF Echoes
<1> QED
  BY <1>5, <1>6

LEMMA SampleFormatsEcho ==
  ASSUME Types, NEW n \in Machine, WorkerInv(n), EchoInv(n), SampleFormats(n)
  PROVE  EchoInv(n)'
<1> DEFINE armed == work[n].armed
           asks == armed # Nothing /\ armed.serial # work[n].serial /\ armed.format \in offered[n]
           d == [kind |-> "polled", serial |-> work[n].serial, formats |-> offered[n], armed |-> armed,
                 digest |-> IF asks THEN ReadBytes(n, armed.format) ELSE Nothing]
<1>1. BoardSame(n) /\ writeBack'[n] = writeBack[n] /\ Report(n, d) /\ work[n].kind = "sampled"
  BY DEF SampleFormats, BoardSame, boardVars, syncVars
<1>2. work'[n].kind = "nothing"
  BY QueueTypes DEF SampleFormats, Nothing
<1>3. /\ d.kind = "polled" /\ d.serial = work[n].serial /\ d.formats = offered[n]
      /\ d.digest = IF asks THEN ReadBytes(n, armed.format) ELSE Nothing
  OBVIOUS
<1>4. armed = Armed(n)
  BY <1>1 DEF WorkerInv, Current
<1>5. Grown(reports[n], d, reports'[n])
  <2>1. reports[n] \in Seq(Dones) /\ reports \in [Machine -> Seq(Dones)]
    BY QueueTypes
  <2> HIDE DEF d
  <2>2. reports'[n] = Append(reports[n], d) /\ reports[n] \in Seq(Dones \union {d})
    BY <1>1, <2>1, SeqMonotonic DEF Report
  <2> QED
    BY <2>2, Grows
<1> HIDE DEF d
<1>6. Sampled(n, d.serial)
  BY <1>1, <1>3 DEF EchoInv, Serials
<1>7. \A i \in Kinds(reports'[n], {"polled"}) : Sampled(n, reports'[n][i].serial)
  BY <1>5, <1>6, SampledGrown DEF EchoInv
<1>8. Serials(n)' /\ SignalsInv(n)'
  BY <1>1, <1>2, <1>7, BoardKept DEF EchoInv
<1>9. ~disturbed[n] => GuardInv(n)'
  <2>1. d.kind \notin WriteDones
    BY <1>3 DEF WriteDones, WriteEnds
  <2> QED
    BY <1>1, <1>2, <1>5, <2>1, GuardGrown DEF EchoInv
<1>10. ~disturbed[n] => PolledInv(n)'
  <2> SUFFICES ASSUME ~disturbed[n] PROVE PolledInv(n)'
    OBVIOUS
  <2>1. SampleInv(n) /\ PolledInv(n)
    BY DEF EchoInv
  <2>2. Lent(n, d.serial) => Echoes(writeBack[n], d)
    <3> SUFFICES ASSUME Lent(n, work[n].serial) PROVE Echoes(writeBack[n], d)
      BY <1>3
    <3>1. writeBack[n] # Nothing /\ OnBoard(n, writeBack[n].bytes) /\ (n \notin Portal => work[n].serial = writeBack[n].serial)
      BY <1>1, <2>1 DEF SampleInv
    <3> QED
      BY <1>1, <1>3, <1>4, <3>1, SampleEchoes
  <2>3. serial[n] \in Nat /\ copiedAt[n] \in Nat
    BY EchoTypes
  <2>4. ~(d.serial <= copiedAt[n] /\ copiedAt[n] < serial[n])
    BY <1>1, <1>3, <2>1, <2>3 DEF SampleInv
  <2> QED
    BY <1>1, <1>5, <2>1, <2>2, <2>4, PolledGrown
<1>11. SampleInv(n)'
  BY <1>2 DEF SampleInv
<1> QED
  BY <1>1, <1>8, <1>9, <1>10, <1>11 DEF EchoInv, BoardSame

LEMMA UnpackedEcho ==
  ASSUME Types, NEW n \in Machine, EchoInv(n), Unpack(n), work' # work
  PROVE  EchoInv(n)'
<1> DEFINE d == [kind |-> "writing", bytes |-> Head(jobs[n]).bytes]
<1>1. BoardSame(n) /\ writeBack'[n] = writeBack[n] /\ Report(n, d) /\ Starts(n, "accept")
  BY DEF Unpack, BoardSame, boardVars, syncVars
<1>2. work'[n] = d
  BY QueueTypes DEF Unpack
<1>3. d \in Dones /\ d.kind = "writing"
  BY <1>1, StartsTypes, JobParts DEF Dones
<1> HIDE DEF d
<1>4. Grown(reports[n], d, reports'[n])
  BY <1>1, <1>3, Reported
<1>5. \A i \in Kinds(reports'[n], {"polled"}) : Sampled(n, reports'[n][i].serial)
  BY <1>3, <1>4, SampledGrown DEF EchoInv
<1>6. Serials(n)' /\ SignalsInv(n)'
  BY <1>1, <1>2, <1>3, <1>5, BoardKept DEF EchoInv
<1>7. ~disturbed[n] => GuardInv(n)'
  <2> SUFFICES ASSUME GuardInv(n) PROVE GuardInv(n)'
    BY DEF EchoInv
  <2>1. Kinds(reports'[n], {"not_written"}) = {}
    <3>1. d.kind \notin {"not_written"}
      BY <1>3
    <3> QED
      BY <1>4, <3>1 DEF Grown, GuardInv
  <2>2. Announced(reports'[n], writeBack'[n], work'[n].bytes)
    BY <1>2, <1>3, <1>4, AnnouncedGrown
  <2> QED
    BY <1>2, <1>3, <2>1, <2>2 DEF GuardInv, Announces
<1>8. ~disturbed[n] => PolledInv(n)'
  BY <1>1, <1>3, <1>4, PolledGrown DEF EchoInv
<1>9. SampleInv(n)'
  BY <1>2, <1>3 DEF SampleInv
<1> QED
  BY <1>1, <1>6, <1>7, <1>8, <1>9 DEF EchoInv, BoardSame

LEMMA ReadSerialEcho ==
  ASSUME Types, NEW n \in Machine, EchoInv(n), ReadSerial(n)
  PROVE  EchoInv(n)'
<1> DEFINE d == [kind |-> "wrote", serial |-> serial[n]]
<1>1. BoardSame(n) /\ writeBack'[n] = writeBack[n] /\ Report(n, d) /\ work[n].kind = "written"
  BY DEF ReadSerial, BoardSame, boardVars, syncVars
<1>2. work'[n].kind = "nothing"
  BY QueueTypes DEF ReadSerial, Nothing
<1>3. d \in Dones /\ d.kind = "wrote" /\ d.serial = serial[n]
  BY QueueTypes DEF Dones
<1> HIDE DEF d
<1>4. Grown(reports[n], d, reports'[n])
  BY <1>1, <1>3, Reported
<1>5. \A i \in Kinds(reports'[n], {"polled"}) : Sampled(n, reports'[n][i].serial)
  BY <1>3, <1>4, SampledGrown DEF EchoInv
<1>6. Serials(n)' /\ SignalsInv(n)'
  BY <1>1, <1>2, <1>5, BoardKept DEF EchoInv
<1>7. ~disturbed[n] => GuardInv(n)'
  <2> SUFFICES ASSUME GuardInv(n) PROVE GuardInv(n)'
    BY DEF EchoInv
  <2>1. Kinds(reports'[n], {"not_written"}) = {}
    <3>1. d.kind \notin {"not_written"}
      BY <1>3
    <3> QED
      BY <1>4, <3>1 DEF Grown, GuardInv
  <2>2. \A bytes : Announces(n, bytes) => Announces(n, bytes)'
    BY <1>1, <1>3, <1>4, AnnouncedGrown DEF Announces
  <2>3. SerialKnown(n)'
    BY <1>1, <1>3, <1>4, ToldGrown DEF SerialKnown, BoardSame
  <2>4. \A bytes : OnBoard(n, bytes)' <=> OnBoard(n, bytes)
    BY <1>1 DEF OnBoard, BoardSame
  <2>5. copiedAt[n] < serial[n] => \E bytes \in Contents : Announces(n, bytes)' /\ OnBoard(n, bytes)'
    BY <1>1, <2>2, <2>4 DEF GuardInv
  <2>6. copiedAt'[n] = copiedAt[n] /\ serial'[n] = serial[n]
    BY <1>1 DEF BoardSame
  <2> QED
    BY <1>2, <2>1, <2>3, <2>5, <2>6 DEF GuardInv
<1>8. ~disturbed[n] => PolledInv(n)'
  BY <1>1, <1>3, <1>4, PolledGrown DEF EchoInv
<1>9. SampleInv(n)'
  BY <1>2 DEF SampleInv
<1> QED
  BY <1>1, <1>6, <1>7, <1>8, <1>9 DEF EchoInv, BoardSame

LEMMA WriteRefusedEcho ==
  ASSUME Types, NEW n \in Machine, EchoInv(n), WriteRefused(n)
  PROVE  EchoInv(n)'
<1> DEFINE d == [kind |-> "not_written"]
<1>1. /\ UNCHANGED <<signals, serial, offered, ours, staged, borrowed, copiedAt>> /\ Report(n, d)
      /\ disturbed'[n] = TRUE
  BY DEF WriteRefused, Types, BoardTypes
<1>2. d \in Dones /\ d.kind = "not_written"
  BY DEF Dones
<1> HIDE DEF d
<1>3. work'[n].kind = "nothing"
  BY QueueTypes DEF WriteRefused, Nothing
<1>4. Grown(reports[n], d, reports'[n])
  BY <1>1, <1>2, Reported
<1>5. \A i \in Kinds(reports'[n], {"polled"}) : Sampled(n, reports'[n][i].serial)
  BY <1>2, <1>4, SampledGrown DEF EchoInv
<1>6. Serials(n)'
  BY <1>1, <1>3, <1>5 DEF EchoInv, Serials, Sampled
<1>7. SignalsInv(n)'
  BY <1>1 DEF EchoInv, SignalsInv
<1> QED
  BY <1>1, <1>6, <1>7 DEF EchoInv

LEMMA DiscardedEcho ==
  ASSUME Types, NEW n \in Machine, EchoInv(n), Unpack(n), work' = work
  PROVE  EchoInv(n)'
<1> DEFINE d == [kind |-> "discarded"]
<1>1. work[n] = Nothing /\ work \in [Machine -> Works]
  BY QueueTypes DEF Unpack, Starts
<1>2. ~(work' = [work EXCEPT ![n] = [kind |-> "writing", bytes |-> Head(jobs[n]).bytes]])
  BY <1>1 DEF Nothing
<1>3. BoardSame(n) /\ writeBack'[n] = writeBack[n] /\ Report(n, d)
  BY <1>2 DEF Unpack, BoardSame, boardVars, syncVars
<1>4. d \in Dones /\ d.kind = "discarded"
  BY DEF Dones
<1> HIDE DEF d
<1>5. Grown(reports[n], d, reports'[n])
  BY <1>3, <1>4, Reported
<1> QED
  BY <1>3, <1>4, <1>5, PlainReport

LEMMA UnpackEcho ==
  ASSUME Types, NEW n \in Machine, EchoInv(n), Unpack(n)
  PROVE  EchoInv(n)'
BY UnpackedEcho, DiscardedEcho

(* The write itself: the bytes announced are the bytes on the board.       *)
LEMMA WriteEcho ==
  ASSUME Types, NEW n \in Machine, WorkerInv(n), EchoInv(n), Write(n)
  PROVE  EchoInv(n)'
<1> DEFINE bytes == work[n].bytes
<1>1. work[n].kind = "writing" /\ PutOnClipboard(n, bytes) /\ reports' = reports /\ writeBack' = writeBack
  BY DEF Write, syncVars
<1>2. bytes \in Contents /\ bytes # Nothing
  BY <1>1, QueueTypes, WorkParts, ContentParts
<1>3. work'[n].kind = "written"
  BY QueueTypes DEF Write
<1>4. disturbed'[n] = (disturbed[n] \/ signals[n] # <<>>)
  BY DEF Write, Types, BoardTypes
<1>5. /\ serial'[n] = serial[n] + 1 /\ borrowed'[n] = borrowed[n] \union {serial[n] + 1} /\ copiedAt'[n] = copiedAt[n]
      /\ offered'[n] = {bytes.format}
      /\ n \in Portal => /\ signals'[n] = Append(signals[n], [formats |-> {bytes.format}, ours |-> TRUE])
                         /\ ours'[n] = TRUE /\ staged'[n] = bytes
      /\ n \notin Portal => signals'[n] = signals[n]
  BY <1>1 DEF PutOnClipboard, Bump, Types, BoardTypes
<1>6. /\ serial[n] \in Nat /\ copiedAt[n] \in Nat /\ borrowed[n] \in SUBSET Nat /\ disturbed[n] \in BOOLEAN
      /\ \A i \in Kinds(reports[n], {"polled"}) : reports[n][i].serial \in Nat
  BY EchoTypes
<1> HIDE DEF bytes
<1>7. Serials(n) /\ SignalsInv(n)
  BY DEF EchoInv
<1>8. Serials(n)'
  BY <1>1, <1>3, <1>5, <1>6, <1>7 DEF Serials, Sampled
<1>9. copiedAt[n] < serial[n] + 1
  BY <1>6, <1>7 DEF Serials
<1>10. SignalsInv(n)'
  <2>1. ASSUME n \in Portal, signals[n] = <<>>
        PROVE  \A i \in DOMAIN signals'[n] : i = 1 /\ signals'[n][i].formats = {bytes.format}
    <3> DEFINE e == [formats |-> {bytes.format}, ours |-> TRUE]
    <3>1. signals'[n] = <<e>>
      BY <1>5, <2>1
    <3>2. e.formats = {bytes.format}
      OBVIOUS
    <3> HIDE DEF e
    <3> QED
      BY <3>1, <3>2
  <2>2. n \in Portal /\ ~disturbed'[n] => signals[n] = <<>>
    BY <1>4
  <2>3. n \notin Portal => signals'[n] = <<>>
    BY <1>5, <1>7 DEF SignalsInv
  <2>4. n \notin Portal => \A i \in DOMAIN signals'[n] : FALSE
    BY <2>3
  <2> QED
    BY <1>2, <1>5, <1>9, <2>1, <2>2, <2>3, <2>4 DEF SignalsInv
<1>11. ~disturbed'[n] => GuardInv(n)'
  <2> SUFFICES ASSUME GuardInv(n) PROVE GuardInv(n)'
    BY <1>4, <1>6 DEF EchoInv
  <2>1. Announced(reports'[n], writeBack'[n], bytes)
    BY <1>1 DEF GuardInv, Announces, bytes
  <2>2. n \in Portal => ours'[n] /\ staged'[n] = bytes /\ offered'[n] = {bytes.format}
    BY <1>5
  <2>3. \E b \in Contents : Announces(n, b)' /\ OnBoard(n, b)'
    BY <1>2, <2>1, <2>2 DEF Announces, OnBoard
  <2>4. Kinds(reports'[n], {"not_written"}) = {}
    BY <1>1 DEF GuardInv
  <2> QED
    BY <1>3, <2>3, <2>4 DEF GuardInv
<1>12. SampleInv(n)'
  BY <1>3 DEF SampleInv
<1>13. ~disturbed'[n] => PolledInv(n)'
  <2> SUFFICES ASSUME PolledInv(n), NEW i \in Kinds(reports[n], {"polled"})
               PROVE  /\ Lent(n, reports[n][i].serial)' => Echoes(writeBack[n], reports[n][i])
                      /\ Followed(reports[n], "writing", i)
    BY <1>1, <1>4, <1>6 DEF PolledInv, EchoInv
  <2>1. Lent(n, reports[n][i].serial)' => Lent(n, reports[n][i].serial)
    BY <1>1, <1>5, <1>6, <1>7 DEF Lent, Serials, Sampled
  <2>2. i \in Kinds(reports[n], PollDones)
    BY DEF Kinds, PollDones
  <2>3. Followed(reports[n], "writing", i)
    BY <1>1, <2>2 DEF WorkerInv, Passes, PollsBeforeWrites, Followed
  <2> QED
    BY <2>1, <2>3 DEF PolledInv
<1> QED
  BY <1>8, <1>10, <1>11, <1>12, <1>13 DEF EchoInv

LEMMA RestartEcho ==
  ASSUME Types, NEW n \in Machine, Restart(n)
  PROVE  EchoInv(n)'
<1>1. /\ serial'[n] = 0 /\ signals'[n] = <<>> /\ borrowed'[n] = {} /\ copiedAt'[n] = 0 /\ disturbed'[n] = FALSE
      /\ work'[n] = Nothing /\ reports'[n] = <<>>
  BY QueueTypes DEF Restart, Types, BoardTypes
<1>2. Nothing.kind = "nothing" /\ \A K : Kinds(reports'[n], K) = {}
  BY <1>1, NoJobs DEF Nothing
<1>3. Serials(n)'
  BY <1>1, <1>2 DEF Serials
<1>4. SignalsInv(n)'
  BY <1>1 DEF SignalsInv
<1>5. GuardInv(n)'
  BY <1>1, <1>2 DEF GuardInv
<1>6. SampleInv(n)' /\ PolledInv(n)'
  BY <1>1, <1>2 DEF SampleInv, PolledInv
<1> QED
  BY <1>3, <1>4, <1>5, <1>6 DEF EchoInv

(* The engine's handling of a report.                                      *)
LEMMA HandledEcho ==
  ASSUME NEW n \in Machine, EchoInv(n), BoardSame(n), work'[n] = work[n],
         NEW d, Shrunk(reports[n], d, reports'[n]),
         ~disturbed[n] => GuardInv(n)' /\ SampleInv(n)',
         writeBack'[n] = writeBack[n] \/ Kinds(reports'[n], {"polled"}) = {}
  PROVE  EchoInv(n)'
<1>1. \A i \in Kinds(reports'[n], {"polled"}) : Sampled(n, reports'[n][i].serial)
  BY SampledShrunk DEF EchoInv
<1>2. Serials(n)' /\ SignalsInv(n)'
  BY <1>1, BoardKept DEF EchoInv, Serials
<1>3. ~disturbed[n] => PolledInv(n)'
  BY PolledShrunk DEF EchoInv
<1> QED
  BY <1>2, <1>3 DEF EchoInv, BoardSame

LEMMA EndsLeft ==
  ASSUME NEW n \in Machine, GuardInv(n), NEW d, Shrunk(reports[n], d, reports'[n])
  PROVE  /\ Kinds(reports'[n], {"not_written"}) = {}
         /\ d.kind # "not_written"
<1>1. d.kind \notin {"not_written"} /\ Kinds(reports'[n], {"not_written"}) = {}
  BY DEF GuardInv, Shrunk
<1> QED
  BY <1>1

(* A report the guard does not change for.                                 *)
LEMMA SettledEcho ==
  ASSUME NEW n \in Machine, EchoInv(n), BoardSame(n), work'[n] = work[n], writeBack'[n] = writeBack[n],
         NEW d, Shrunk(reports[n], d, reports'[n]), d.kind \notin WriteDones
  PROVE  EchoInv(n)'
<1>1. ~disturbed[n] => GuardInv(n)'
  <2> SUFFICES ASSUME GuardInv(n) PROVE GuardInv(n)'
    BY DEF EchoInv
  <2>1. d.kind # "writing"
    BY DEF WriteDones
  <2>2. \A bytes : Announces(n, bytes) => Announces(n, bytes)'
    BY <2>1, AnnouncedShrunk DEF Announces
  <2>3. SerialKnown(n) => SerialKnown(n)'
    BY ToldShrunk DEF SerialKnown, BoardSame
  <2> QED
    BY <2>2, <2>3, EndsLeft, GuardKept
<1>2. ~disturbed[n] => SampleInv(n)'
  BY DEF EchoInv, SampleInv, BoardSame, Lent, OnBoard
<1> QED
  BY <1>1, <1>2, HandledEcho

(* A change of the guard, with no poll about.                              *)
LEMMA GuardMoves ==
  ASSUME NEW n \in Machine, EchoInv(n), BoardSame(n), work'[n] = work[n], work[n].kind # "sampled",
         NEW d, Shrunk(reports[n], d, reports'[n]), Kinds(reports'[n], {"polled"}) = {},
         ~disturbed[n] /\ GuardInv(n) /\ (work[n].kind = "writing" \/ copiedAt[n] < serial[n]) =>
           \A bytes : Announces(n, bytes) => Announces(n, bytes)' /\ (SerialKnown(n) => SerialKnown(n)')
  PROVE  EchoInv(n)'
<1>1. ~disturbed[n] => GuardInv(n)'
  <2> SUFFICES ASSUME ~disturbed[n], GuardInv(n) PROVE GuardInv(n)'
    BY DEF EchoInv
  <2>1. Kinds(reports'[n], {"not_written"}) = {}
    BY EndsLeft
  <2>2. work[n].kind = "writing" => Announces(n, work[n].bytes)'
    BY DEF GuardInv
  <2>3. \A bytes : OnBoard(n, bytes)' <=> OnBoard(n, bytes)
    BY DEF OnBoard, BoardSame
  <2>4. work[n].kind \notin {"writing", "dead"} /\ copiedAt[n] < serial[n] =>
          /\ \E bytes \in Contents : Announces(n, bytes)' /\ OnBoard(n, bytes)'
          /\ n \notin Portal /\ work[n].kind # "written" => SerialKnown(n)'
    BY <2>3 DEF GuardInv
  <2>5. copiedAt'[n] = copiedAt[n] /\ serial'[n] = serial[n]
    BY DEF BoardSame
  <2> QED
    BY <2>1, <2>2, <2>4, <2>5 DEF GuardInv
<1>2. SampleInv(n)'
  BY DEF SampleInv
<1> QED
  BY <1>1, <1>2, HandledEcho

(* No poll is about when one of what is ordered is handled.                *)
LEMMA NoPollAbout ==
  ASSUME Types, NEW n \in Machine, WorkerInv(n), OnClipboardDone(n), Head(reports[n]).kind \in Ordered
  PROVE  Kinds(reports'[n], {"polled"}) = {} /\ work[n].kind # "sampled"
<1>1. reports[n] \in Seq(Dones) /\ reports[n] # <<>> /\ reports'[n] = Tail(reports[n])
  BY DoneTaken
<1>2. Shrunk(reports[n], Head(reports[n]), reports'[n])
  BY <1>1, Shrinks
<1>3. Passes(jobs[n], work[n], reports[n])
  BY DEF WorkerInv
<1> DEFINE d == Head(reports[n])
<1> HIDE DEF d
<1>4. Kinds(reports'[n], PollDones) = {} /\ work[n].kind # "sampled"
  BY <1>2, <1>3, ReportHandled
<1> QED
  BY <1>4 DEF Kinds, PollDones

LEMMA ToldBehind ==
  ASSUME NEW q, NEW e, NEW p, Shrunk(q, e, p), NEW guard, NEW s, Told(q, guard, s), Kinds(p, WriteDones) # {}, NEW new
  PROVE  Told(p, new, s)
<1>1. Kinds(q, WriteDones) # {} /\ ~LastOf(q, WriteDones, 1)
  <2>1. ~LastOf(q, WriteDones, 1) /\ ~(Kinds(q, WriteDones) \subseteq {1})
    BY NoneLeft
  <2> QED
    BY <2>1
<1>2. PICK i : LastOf(q, WriteDones, i) /\ q[i].kind = "wrote" /\ q[i].serial = s
  BY <1>1 DEF Told
<1>3. i - 1 \in Kinds(p, WriteDones) /\ LastOf(p, WriteDones, i - 1) /\ p[i - 1] = q[i]
  BY <1>1, <1>2, LastShrunk
<1> QED
  BY <1>2, <1>3 DEF Told

LEMMA AnnouncedBy ==
  ASSUME NEW q, NEW guard, NEW new, NEW bytes, Announced(q, guard, bytes),
         guard # Nothing => new # Nothing /\ new.bytes = guard.bytes
  PROVE  Announced(q, new, bytes)
BY DEF Announced

LEMMA DoneKeepsBoard ==
  ASSUME NEW n \in Machine, OnClipboardDone(n)
  PROVE  BoardSame(n) /\ work'[n] = work[n]
BY DEF OnClipboardDone, BoardSame, boardVars, workerVars

(* What is new on the clipboard and no echo is not of a peer's: whatever   *)
(* the guard was to know is announced behind it.                           *)
LEMMA PolledEcho ==
  ASSUME Types, NEW n \in Machine, WorkerInv(n), EchoInv(n), OnClipboardDone(n),
         Head(reports[n]).kind = "polled", OnPolled(n, Head(reports[n]))
  PROVE  EchoInv(n)'
<1> DEFINE d == Head(reports[n])
<1>1. reports[n] \in Seq(Dones) /\ reports[n] # <<>> /\ reports'[n] = Tail(reports[n]) /\ d \in Dones
  BY DoneTaken
<1>2. Shrunk(reports[n], d, reports'[n])
  BY <1>1, Shrinks
<1>3. \/ writeBack' = writeBack
      \/ ~IsEcho(n, d) /\ writeBack' = [writeBack EXCEPT ![n] = Nothing]
  <2> HIDE DEF d
  <2> QED
    BY <1>1, PolledParts DEF d
<1>4. BoardSame(n) /\ work'[n] = work[n]
  BY DoneKeepsBoard
<1>5. d.kind \in Ordered /\ d.kind \in PollDones /\ d.kind \notin WriteDones
  BY DEF Ordered, PollDones, WriteDones, WriteEnds
<1>6. Kinds(reports'[n], {"polled"}) = {} /\ work[n].kind # "sampled"
  BY <1>5, NoPollAbout
<1>7. 1 \in Kinds(reports[n], {"polled"}) /\ 1 \in Kinds(reports[n], PollDones) /\ reports[n][1] = d
  BY <1>2, <1>5 DEF Shrunk
<1>8. Followed(reports[n], "writing", 1) => Kinds(reports'[n], {"writing"}) # {} /\ Kinds(reports'[n], WriteDones) # {}
  <2> SUFFICES ASSUME NEW k \in Kinds(reports[n], {"writing"}), 1 < k
               PROVE  Kinds(reports'[n], {"writing"}) # {} /\ Kinds(reports'[n], WriteDones) # {}
    BY DEF Followed
  <2>1. k # 1
    OBVIOUS
  <2>2. k - 1 \in Kinds(reports'[n], {"writing"})
    BY <1>2, <2>1 DEF Shrunk
  <2> QED
    BY <2>2 DEF Kinds, WriteDones
<1>9. work[n].kind = "writing" => Followed(reports[n], "writing", 1)
  BY <1>7 DEF WorkerInv, Passes, PollsBeforeWrites, Followed
<1>10. ASSUME ~disturbed[n], ~IsEcho(n, d), copiedAt[n] < serial[n]
       PROVE  Followed(reports[n], "writing", 1)
  <2>1. PolledInv(n) /\ Serials(n)
    BY <1>10 DEF EchoInv
  <2>2. ~Echoes(writeBack[n], d)
    BY <1>10 DEF IsEcho, Echoes
  <2>3. ~Lent(n, d.serial) /\ Sampled(n, d.serial)
    BY <1>7, <2>1, <2>2 DEF PolledInv, Serials
  <2>4. d.serial \in Nat /\ copiedAt[n] \in Nat
    BY <1>7, EchoTypes
  <2>5. d.serial <= copiedAt[n]
    BY <2>3, <2>4 DEF Lent, Sampled
  <2> QED
    BY <1>7, <1>10, <2>1, <2>5 DEF PolledInv
<1> HIDE DEF d
<1>11. CASE writeBack' = writeBack
  BY <1>2, <1>4, <1>5, <1>11, SettledEcho
<1>12. CASE ~IsEcho(n, d)
  <2>1. ASSUME ~disturbed[n], work[n].kind = "writing" \/ copiedAt[n] < serial[n], NEW bytes, Announces(n, bytes)
        PROVE  Announces(n, bytes)' /\ (SerialKnown(n) => SerialKnown(n)')
    <3>1. Kinds(reports'[n], {"writing"}) # {} /\ Kinds(reports'[n], WriteDones) # {}
      BY <1>8, <1>9, <1>10, <1>12, <2>1
    <3>2. d.kind # "writing"
      BY <1>5 DEF WriteDones
    <3>3. Announces(n, bytes)'
      BY <1>2, <2>1, <3>1, <3>2, AnnouncedShrunk DEF Announces
    <3>4. SerialKnown(n) => SerialKnown(n)'
      BY <1>2, <1>4, <3>1, ToldBehind DEF SerialKnown, BoardSame
    <3> QED
      BY <3>3, <3>4
  <2> QED
    BY <1>2, <1>4, <1>6, <2>1, GuardMoves
<1> QED
  BY <1>3, <1>11, <1>12

LEMMA WritingEcho ==
  ASSUME Types, NEW n \in Machine, WorkerInv(n), EchoInv(n), OnClipboardDone(n),
         Head(reports[n]).kind = "writing", OnWriting(n, Head(reports[n]))
  PROVE  EchoInv(n)'
<1> DEFINE d == Head(reports[n])
           guard == [kind |-> "guard", serial |-> IF seen[n] = Nothing THEN 0 ELSE seen[n].serial, bytes |-> d.bytes]
<1>1. reports[n] \in Seq(Dones) /\ reports[n] # <<>> /\ reports'[n] = Tail(reports[n])
  BY DoneTaken
<1>2. Shrunk(reports[n], d, reports'[n])
  BY <1>1, Shrinks
<1>3. writeBack'[n] = guard /\ guard # Nothing /\ guard.bytes = d.bytes
  BY DEF OnWriting, Types, SyncTypes, Nothing
<1>4. BoardSame(n) /\ work'[n] = work[n]
  BY DoneKeepsBoard
<1>5. d.kind \in Ordered
  BY DEF Ordered, WriteDones, WriteEnds
<1>6. Kinds(reports'[n], {"polled"}) = {} /\ work[n].kind # "sampled"
  BY <1>5, NoPollAbout
<1> HIDE DEF d, guard
<1>7. d.kind = "writing"
  BY DEF d
<1>8. ASSUME NEW bytes, Announces(n, bytes) PROVE Announces(n, bytes)'
  BY <1>2, <1>3, <1>7, <1>8, AnnouncedShrunk DEF Announces
<1>9. SerialKnown(n) => SerialKnown(n)'
  BY <1>2, <1>4, <1>7, ToldShrunk DEF SerialKnown, BoardSame
<1> QED
  BY <1>2, <1>4, <1>6, <1>8, <1>9, GuardMoves

LEMMA WroteEcho ==
  ASSUME Types, NEW n \in Machine, WorkerInv(n), EchoInv(n), OnClipboardDone(n),
         Head(reports[n]).kind = "wrote", OnWrote(n, Head(reports[n]))
  PROVE  EchoInv(n)'
<1> DEFINE d == Head(reports[n])
           guard == writeBack[n]
           new == writeBack'[n]
<1>1. reports[n] \in Seq(Dones) /\ reports[n] # <<>> /\ reports'[n] = Tail(reports[n])
  BY DoneTaken
<1>2. Shrunk(reports[n], d, reports'[n])
  BY <1>1, Shrinks
<1>3. guard # Nothing => new # Nothing /\ new.bytes = guard.bytes /\ new.serial = d.serial
  <2>1. guard # Nothing => guard \in [kind : {"guard"}, serial : Nat, bytes : Contents]
    BY DEF Types, SyncTypes
  <2>2. guard # Nothing => new = [guard EXCEPT !.serial = d.serial]
    BY DEF OnWrote, Types, SyncTypes
  <2> HIDE DEF guard, new, d
  <2>3. guard # Nothing => new.kind = "guard"
    BY <2>1, <2>2
  <2> QED
    BY <2>1, <2>2, <2>3 DEF Nothing
<1>4. BoardSame(n) /\ work'[n] = work[n]
  BY DoneKeepsBoard
<1>5. d.kind \in Ordered
  BY DEF Ordered, WriteDones, WriteEnds
<1>6. Kinds(reports'[n], {"polled"}) = {} /\ work[n].kind # "sampled"
  BY <1>5, NoPollAbout
<1> HIDE DEF d
<1>7. d.kind = "wrote"
  BY DEF d
<1>8. ASSUME NEW bytes, Announces(n, bytes) PROVE Announces(n, bytes)' /\ (SerialKnown(n) => SerialKnown(n)')
  <2>1. Announced(reports'[n], guard, bytes)
    BY <1>2, <1>7, <1>8, AnnouncedShrunk DEF Announces
  <2>2. Announces(n, bytes)'
    BY <1>3, <2>1, AnnouncedBy DEF Announces
  <2>3. CASE Kinds(reports'[n], WriteDones) # {}
    <3>1. SerialKnown(n) => SerialKnown(n)'
      BY <1>2, <1>4, <2>3, ToldBehind DEF SerialKnown, BoardSame
    <3> QED
      BY <2>2, <3>1
  <2>4. CASE Kinds(reports'[n], WriteDones) = {}
    <3>1. Kinds(reports'[n], {"writing"}) = {}
      BY <2>4 DEF Kinds, WriteDones
    <3>2. guard # Nothing
      BY <2>1, <3>1 DEF Announced
    <3>3. SerialKnown(n) => SerialKnown(n)'
      BY <1>2, <1>3, <1>4, <1>7, <3>2, ToldShrunk DEF SerialKnown, BoardSame
    <3> QED
      BY <2>2, <3>3
  <2> QED
    BY <2>3, <2>4
<1> QED
  BY <1>2, <1>4, <1>6, <1>8, GuardMoves

LEMMA DoneEcho ==
  ASSUME Types, NEW n \in Machine, WorkerInv(n), EchoInv(n), OnClipboardDone(n)
  PROVE  EchoInv(n)'
<1> DEFINE d == Head(reports[n])
<1>1. reports[n] \in Seq(Dones) /\ reports[n] # <<>> /\ reports'[n] = Tail(reports[n])
  BY DoneTaken
<1>2. Shrunk(reports[n], d, reports'[n])
  BY <1>1, Shrinks
<1>3. BoardSame(n) /\ work'[n] = work[n]
  BY DoneKeepsBoard
<1>4. \/ d.kind = "polled" /\ OnPolled(n, d)
      \/ d.kind = "writing" /\ OnWriting(n, d)
      \/ d.kind = "wrote" /\ OnWrote(n, d)
      \/ d.kind = "not_written" /\ OnNotWritten(n)
      \/ d.kind \in {"nothing_new", "served", "discarded", "worker_gone"} /\ UNCHANGED writeBack
  BY DEF OnClipboardDone, OnNothingNew, OnServed, OnDiscarded, OnWorkerGone
<1>5. CASE d.kind = "not_written" /\ OnNotWritten(n)
  <2>1. d.kind \in Ordered
    BY <1>5 DEF Ordered, WriteDones, WriteEnds
  <2>2. Kinds(reports'[n], {"polled"}) = {} /\ work[n].kind # "sampled"
    BY <2>1, NoPollAbout
  <2> HIDE DEF d
  <2>3. GuardInv(n) => FALSE
    BY <1>2, <1>5, EndsLeft
  <2> QED
    BY <1>2, <1>3, <2>2, <2>3, GuardMoves
<1>6. CASE d.kind \in {"nothing_new", "served", "discarded", "worker_gone"} /\ UNCHANGED writeBack
  <2>1. d.kind \notin WriteDones /\ writeBack'[n] = writeBack[n]
    BY <1>6 DEF WriteDones, WriteEnds
  <2> HIDE DEF d
  <2> QED
    BY <1>2, <1>3, <2>1, SettledEcho
<1> QED
  BY <1>4, <1>5, <1>6, PolledEcho, WritingEcho, WroteEcho

(* Whose clipboard it is not.                                              *)
LEMMA BoardElsewhere ==
  ASSUME Types, NEW n \in Machine, NEW m \in Machine, m # n,
         \/ UserCopies(n) \/ SelectionChanged(n) \/ SampleSerial(n) \/ SampleFormats(n)
         \/ ReadForPeer(n) \/ Unpack(n) \/ Write(n) \/ WriteRefused(n) \/ ReadSerial(n) \/ WorkerDies(n)
         \/ PollClipboard(n) \/ OnClipboardDone(n) \/ OnOffer(n) \/ OnRequest(n) \/ OnData(n) \/ OnStale(n)
         \/ PeerGone(n) \/ Restart(n)
  PROVE  BoardSame(m)
<1>1. BoardTypes
  BY DEF Types
<1>2. CASE \/ SampleSerial(n) \/ SampleFormats(n)
           \/ ReadForPeer(n) \/ Unpack(n) \/ ReadSerial(n) \/ WorkerDies(n)
           \/ PollClipboard(n) \/ OnClipboardDone(n) \/ OnOffer(n) \/ OnRequest(n) \/ OnData(n) \/ OnStale(n)
           \/ PeerGone(n)
  <2>1. UNCHANGED boardVars
    BY <1>2 DEF SampleSerial, SampleFormats, ReadForPeer, Unpack, ReadSerial, WorkerDies, PollClipboard,
       OnClipboardDone, OnOffer, OnRequest, OnData, OnStale, PeerGone
  <2> QED
    BY <2>1 DEF boardVars, BoardSame
<1>3. CASE UserCopies(n)
  BY <1>1, <1>3 DEF UserCopies, Bump, BoardSame, BoardTypes
<1>4. CASE SelectionChanged(n)
  BY <1>1, <1>4 DEF SelectionChanged, Bump, BoardSame, BoardTypes
<1>5. CASE Write(n)
  BY <1>1, <1>5 DEF Write, PutOnClipboard, Bump, BoardSame, BoardTypes
<1>6. CASE WriteRefused(n)
  BY <1>1, <1>6 DEF WriteRefused, BoardSame, BoardTypes
<1>7. CASE Restart(n)
  BY <1>1, <1>7 DEF Restart, BoardSame, BoardTypes
<1> QED
  BY <1>2, <1>3, <1>4, <1>5, <1>6, <1>7

LEMMA EchoStep ==
  ASSUME Types, NEW m \in Machine, WorkerInv(m), EchoInv(m), [ClipboardNext]_clipboardVars
  PROVE  EchoInv(m)'
<1>1. CASE UNCHANGED boardVars /\ UNCHANGED <<work, reports, writeBack>>
  BY <1>1, EchoKept DEF boardVars, BoardSame
<1>2. CASE UNCHANGED clipboardVars \/ Disconnect \/ Connect
  BY <1>1, <1>2 DEF clipboardVars, workerVars, syncVars, Disconnect, Connect
<1>3. ASSUME NEW n \in Machine, m # n,
             \/ UserCopies(n) \/ SelectionChanged(n) \/ SampleSerial(n) \/ SampleFormats(n)
             \/ ReadForPeer(n) \/ Unpack(n) \/ Write(n) \/ WriteRefused(n) \/ ReadSerial(n) \/ WorkerDies(n)
             \/ PollClipboard(n) \/ OnClipboardDone(n) \/ OnOffer(n) \/ OnRequest(n) \/ OnData(n) \/ OnStale(n)
             \/ PeerGone(n) \/ Restart(n)
      PROVE  EchoInv(m)'
  <2>1. BoardSame(m)
    BY <1>3, BoardElsewhere
  <2>2. SameWorker(m)
    <3>1. CASE UserCopies(n) \/ SelectionChanged(n) \/ OnOffer(n) \/ OnStale(n) \/ PeerGone(n)
      BY <3>1, BoardOrMail DEF SameWorker
    <3>2. CASE \/ SampleSerial(n) \/ SampleFormats(n) \/ ReadForPeer(n) \/ Unpack(n) \/ Write(n)
               \/ WriteRefused(n) \/ ReadSerial(n) \/ WorkerDies(n)
      BY <1>3, <3>2, WorkersElsewhere
    <3>3. CASE PollClipboard(n) \/ OnClipboardDone(n) \/ OnRequest(n) \/ OnData(n) \/ Restart(n)
      BY <1>3, <3>3, EnginesElsewhere
    <3> QED
      BY <1>3, <3>1, <3>2, <3>3
  <2> QED
    BY <2>1, <2>2, EchoKept DEF SameWorker
<1>4. CASE PollClipboard(m) \/ OnOffer(m) \/ OnRequest(m) \/ OnData(m) \/ OnStale(m) \/ PeerGone(m)
  BY <1>1, <1>4 DEF PollClipboard, OnOffer, OnRequest, OnData, OnStale, PeerGone, workerVars
<1>5. CASE \/ UserCopies(m) \/ SelectionChanged(m) \/ SampleSerial(m) \/ SampleFormats(m)
           \/ ReadForPeer(m) \/ Unpack(m) \/ Write(m) \/ WriteRefused(m) \/ ReadSerial(m) \/ WorkerDies(m)
           \/ OnClipboardDone(m) \/ Restart(m)
  BY <1>5, UserCopiesEcho, SelectionChangedEcho, SampleSerialEcho, SampleFormatsEcho, ServeEcho, UnpackEcho,
     WriteEcho, WriteRefusedEcho, ReadSerialEcho, WorkerDiesEcho, DoneEcho, RestartEcho
<1> QED
  BY <1>2, <1>3, <1>4, <1>5 DEF ClipboardNext

LEMMA EchoAlways == ClipboardSpec => [](\A n \in Machine : EchoInv(n))
<1>1. ClipboardInit => \A n \in Machine : EchoInv(n)
  <2> SUFFICES ASSUME ClipboardInit, NEW n \in Machine PROVE EchoInv(n)
    OBVIOUS
  <2>1. /\ serial[n] = 0 /\ signals[n] = <<>> /\ borrowed[n] = {} /\ copiedAt[n] = 0
        /\ work[n] = Nothing /\ reports[n] = <<>>
    BY DEF ClipboardInit
  <2>2. Nothing.kind = "nothing" /\ \A K : Kinds(reports[n], K) = {}
    BY <2>1, NoJobs DEF Nothing
  <2> QED
    BY <2>1, <2>2 DEF EchoInv, Serials, SignalsInv, GuardInv, SampleInv, PolledInv
<1>2. Types /\ (\A n \in Machine : WorkerInv(n)) /\ (\A n \in Machine : EchoInv(n)) /\ [ClipboardNext]_clipboardVars
        => (\A n \in Machine : EchoInv(n))'
  BY EchoStep
<1> QED
  BY <1>1, <1>2, TypesAlways, WorkersAlways, PTL DEF ClipboardSpec

-----------------------------------------------------------------------------
(* Offers on their way.                                                    *)

OffersOf(q) == {q[i].serial : i \in Kinds(q, {"offer"})}

LEMMA OffersShrunk ==
  ASSUME NEW q, NEW e, NEW p, Shrunk(q, e, p)
  PROVE  OffersOf(p) \subseteq OffersOf(q)
<1> SUFFICES ASSUME NEW i \in Kinds(p, {"offer"}) PROVE p[i].serial \in OffersOf(q)
  BY DEF OffersOf
<1>1. i + 1 \in Kinds(q, {"offer"}) /\ p[i] = q[i + 1]
  BY DEF Shrunk
<1> QED
  BY <1>1 DEF OffersOf

LEMMA OffersGrown ==
  ASSUME NEW q, NEW e, NEW p, Grown(q, e, p)
  PROVE  /\ e.kind # "offer" => OffersOf(p) \subseteq OffersOf(q)
         /\ OffersOf(p) \subseteq OffersOf(q) \union {e.serial}
<1> SUFFICES ASSUME NEW i \in Kinds(p, {"offer"})
             PROVE  p[i].serial \in OffersOf(q) \/ (e.kind = "offer" /\ p[i].serial = e.serial)
  BY DEF OffersOf
<1>1. /\ e.kind \in {"offer"} => Kinds(p, {"offer"}) = Kinds(q, {"offer"}) \union {Len(q) + 1}
      /\ e.kind \notin {"offer"} => Kinds(p, {"offer"}) = Kinds(q, {"offer"})
      /\ \A j \in Kinds(q, {"offer"}) : p[j] = q[j]
      /\ p[Len(q) + 1] = e
  BY DEF Grown
<1>2. CASE i \in Kinds(q, {"offer"})
  BY <1>1, <1>2 DEF OffersOf
<1>3. CASE i \notin Kinds(q, {"offer"})
  BY <1>1, <1>3
<1> QED
  BY <1>2, <1>3

LEMMA OffersCut ==
  ASSUME NEW q \in Seq(Messages), NEW i \in 0 .. Len(q)
  PROVE  OffersOf(SubSeq(q, 1, i)) \subseteq OffersOf(q)
<1> DEFINE p == SubSeq(q, 1, i)
<1>1. \A j \in DOMAIN p : j \in DOMAIN q /\ p[j] = q[j]
  BY MailCut
<1> HIDE DEF p
<1>2. OffersOf(p) \subseteq OffersOf(q)
  BY <1>1 DEF OffersOf, Kinds
<1> QED
  BY <1>2 DEF p

LEMMA NoOffers == OffersOf(<<>>) = {}
BY NoJobs DEF OffersOf

LEMMA OffersSent ==
  ASSUME NEW box, MailOK(box), NEW n \in Machine, NEW msg \in Messages
  PROVE  /\ msg.kind # "offer" => OffersOf(AfterSending(n, box, msg)[n]) \subseteq OffersOf(box[n])
         /\ OffersOf(AfterSending(n, box, msg)[n]) \subseteq OffersOf(box[n]) \union {msg.serial}
<1>1. Grown(box[n], msg, Append(box[n], msg))
  BY Grows DEF MailOK
<1>2. AfterSending(n, box, msg)[n] = IF joined[n] /\ linked /\ Room(box[n]) THEN Append(box[n], msg) ELSE box[n]
  BY Sent
<1> DEFINE longer == Append(box[n], msg)
<1> HIDE DEF longer
<1>3. /\ AfterSending(n, box, msg)[n] = IF joined[n] /\ linked /\ Room(box[n]) THEN longer ELSE box[n]
      /\ Grown(box[n], msg, longer)
  BY <1>1, <1>2 DEF longer
<1>4. /\ msg.kind # "offer" => OffersOf(longer) \subseteq OffersOf(box[n])
      /\ OffersOf(longer) \subseteq OffersOf(box[n]) \union {msg.serial}
  BY <1>3, OffersGrown
<1> QED
  BY <1>3, <1>4

LEMMA OffersTaken ==
  ASSUME Types, NEW n \in Machine, NEW kind, Receives(n, kind)
  PROVE  /\ OffersOf(Received(n)[Peer(n)]) \subseteq OffersOf(mail[Peer(n)])
         /\ Received(n)[n] = mail[n] /\ MailOK(Received(n))
<1>1. Shrunk(mail[Peer(n)], Message(n), Received(n)[Peer(n)])
  BY MessageShrinks
<1> QED
  BY <1>1, OffersShrunk, MessageTaken

(* Only a report of a change that is no echo adds one.                     *)
LEMMA DoneOffers ==
  ASSUME Types, NEW n \in Machine, OnClipboardDone(n)
  PROVE  LET d == Head(reports[n]) IN
         /\ \/ OffersOf(mail'[n]) \subseteq OffersOf(mail[n])
            \/ /\ d.kind = "polled" /\ ~IsEcho(n, d)
               /\ OffersOf(mail'[n]) \subseteq OffersOf(mail[n]) \union {d.serial}
         /\ \A m \in Machine : m # n => mail'[m] = mail[m]
<1> DEFINE d == Head(reports[n])
<1>1. d \in Dones /\ MailOK(mail)
  BY DoneTaken, MailTypes
<1>2. \/ d.kind = "polled" /\ OnPolled(n, d)
      \/ d.kind = "served" /\ OnServed(n, d)
      \/ UNCHANGED mail
  BY DEF OnClipboardDone, OnNothingNew, OnWriting, OnWrote, OnNotWritten, OnDiscarded, OnWorkerGone, SettlesWrite
<1> HIDE DEF d
<1>3. CASE d.kind = "polled" /\ OnPolled(n, d)
  <2> DEFINE offer == [kind |-> "offer", formats |-> Takeable(n, d.formats), serial |-> d.serial]
  <2>1. /\ offer \in Messages
        /\ \/ mail' = mail
           \/ ~IsEcho(n, d) /\ (mail' = mail \/ mail' = AfterSending(n, mail, offer))
    BY <1>1, <1>3, PolledParts
  <2>2. offer.serial = d.serial
    OBVIOUS
  <2> HIDE DEF offer
  <2> QED
    BY <1>1, <1>3, <2>1, <2>2, OffersSent, SentGrows DEF d
<1>4. CASE d.kind = "served" /\ OnServed(n, d)
  <2>1. PICK msg \in Messages : Answers(n, mail, msg) /\ msg.kind \in {"data", "stale"}
    BY <1>1, <1>4, ServedAnswers
  <2> QED
    BY <1>1, <2>1, OffersSent, SentGrows DEF Answers
<1> QED
  BY <1>2, <1>3, <1>4

(* What is on its way to or from a machine, after any step but that.       *)
LEMMA OffersKept ==
  ASSUME Types, NEW n \in Machine, NEW p \in Machine, p = n \/ p = Peer(n),
         OnOffer(p) \/ OnRequest(p) \/ OnData(p) \/ OnStale(p)
  PROVE  OffersOf(mail'[n]) \subseteq OffersOf(mail[n])
<1>1. /\ Peer(p) \in Machine /\ Peer(p) # p
      /\ n = p \/ n = Peer(p)
  BY OtherMachine
<1>2. /\ \E kind : Receives(p, kind)
      /\ \/ mail' = Received(p)
         \/ \E msg \in Messages : msg.kind # "offer" /\ mail' = AfterSending(p, Received(p), msg)
  <2>1. CASE OnOffer(p)
    <3>1. Receives(p, "offer")
      BY <2>1 DEF OnOffer
    <3> DEFINE wish == [kind |-> "asked", serial |-> Message(p).serial,
                        format |-> Richest(Takeable(p, Message(p).formats))]
               request == [kind |-> "request", serial |-> wish.serial, format |-> wish.format]
    <3>2. \/ request \in Messages /\ mail' = AfterSending(p, Received(p), request)
          \/ mail' = Received(p)
      BY <2>1, OfferParts
    <3>3. request.kind # "offer"
      OBVIOUS
    <3> QED
      BY <3>1, <3>2, <3>3
  <2>2. CASE OnRequest(p)
    <3> DEFINE stale == [kind |-> "stale", serial |-> Message(p).serial]
    <3>1. /\ Receives(p, "request") /\ stale \in Messages
          /\ mail' = Received(p) \/ Answers(p, Received(p), stale)
      BY <2>2, RequestParts
    <3>2. stale.kind # "offer"
      OBVIOUS
    <3> QED
      BY <3>1, <3>2 DEF Answers
  <2>3. CASE OnData(p) \/ OnStale(p)
    BY <2>3 DEF OnData, OnStale
  <2> QED
    BY <2>1, <2>2, <2>3
<1>3. /\ OffersOf(Received(p)[Peer(p)]) \subseteq OffersOf(mail[Peer(p)])
      /\ Received(p)[p] = mail[p] /\ MailOK(Received(p))
  BY <1>2, OffersTaken
<1> QED
  BY <1>1, <1>2, <1>3, OffersSent, SentGrows

OffersInv(n) == \A s \in OffersOf(mail[n]) : Aloof(n) \/ Sound(n, s)

LEMMA OffersAreNumbers ==
  ASSUME Types, NEW n \in Machine
  PROVE  OffersOf(mail[n]) \subseteq Nat
<1> DEFINE q == mail[n]
<1>1. q \in Seq(Messages)
  BY DEF Types, LinkTypes
<1> HIDE DEF q
<1>2. \A i \in DOMAIN q : q[i] \in Messages
  BY <1>1, LenProperties, ElementOfSeq
<1>3. OffersOf(q) \subseteq Nat
  BY <1>2, MessageParts DEF OffersOf, Kinds
<1> QED
  BY <1>3 DEF q

(* But for a restart, the board's numbers only go up.                      *)
Onward(n) ==
  /\ serial[n] <= serial'[n] /\ copiedAt[n] <= copiedAt'[n]
  /\ \A s \in borrowed'[n] : s \in borrowed[n] \/ serial[n] < s
  /\ disturbed[n] => disturbed'[n]

LEMMA SoundKept ==
  ASSUME Types, NEW n \in Machine, Onward(n), serial'[n] \in Nat, copiedAt'[n] \in Nat,
         NEW s \in Nat, Sound(n, s)
  PROVE  Sound(n, s)'
<1>1. serial[n] \in Nat /\ copiedAt[n] \in Nat
  BY EchoTypes
<1>2. s <= serial'[n]
  BY <1>1 DEF Onward, Sound
<1>3. ASSUME s \in borrowed'[n], ~disturbed'[n] PROVE s < copiedAt'[n]
  <2>1. s \in borrowed[n] /\ ~disturbed[n]
    BY <1>1, <1>3 DEF Onward, Sound
  <2> QED
    BY <1>1, <2>1 DEF Onward, Sound
<1> QED
  BY <1>2, <1>3 DEF Sound

LEMMA SameIsOnward ==
  ASSUME Types, NEW n \in Machine, BoardSame(n)
  PROVE  Onward(n)
<1>1. serial[n] \in Nat /\ copiedAt[n] \in Nat
  BY EchoTypes
<1> QED
  BY <1>1 DEF BoardSame, Onward

LEMMA BoardOnward ==
  ASSUME Types, NEW n \in Machine, Serials(n), [ClipboardNext]_clipboardVars
  PROVE  Onward(n) \/ Restart(n)
<1>1. BoardTypes /\ serial[n] \in Nat /\ copiedAt[n] \in Nat /\ copiedAt[n] <= serial[n]
  BY EchoTypes DEF Types, Serials
<1>2. CASE UNCHANGED clipboardVars \/ Disconnect \/ Connect
  <2>1. UNCHANGED boardVars
    BY <1>2 DEF clipboardVars, Disconnect, Connect
  <2>2. BoardSame(n)
    BY <2>1 DEF boardVars, BoardSame
  <2> QED
    BY <2>2, SameIsOnward
<1>3. ASSUME NEW m \in Machine, n # m,
             \/ UserCopies(m) \/ SelectionChanged(m) \/ SampleSerial(m) \/ SampleFormats(m)
             \/ ReadForPeer(m) \/ Unpack(m) \/ Write(m) \/ WriteRefused(m) \/ ReadSerial(m) \/ WorkerDies(m)
             \/ PollClipboard(m) \/ OnClipboardDone(m) \/ OnOffer(m) \/ OnRequest(m) \/ OnData(m) \/ OnStale(m)
             \/ PeerGone(m) \/ Restart(m)
      PROVE  Onward(n)
  <2>1. BoardSame(n)
    BY <1>3, BoardElsewhere
  <2> QED
    BY <2>1, SameIsOnward
<1>4. CASE \/ SampleSerial(n) \/ SampleFormats(n)
           \/ ReadForPeer(n) \/ Unpack(n) \/ ReadSerial(n) \/ WorkerDies(n)
           \/ PollClipboard(n) \/ OnClipboardDone(n) \/ OnOffer(n) \/ OnRequest(n) \/ OnData(n) \/ OnStale(n)
           \/ PeerGone(n)
  <2>1. UNCHANGED boardVars
    BY <1>4 DEF SampleSerial, SampleFormats, ReadForPeer, Unpack, ReadSerial, WorkerDies, PollClipboard,
       OnClipboardDone, OnOffer, OnRequest, OnData, OnStale, PeerGone
  <2>2. BoardSame(n)
    BY <2>1 DEF boardVars, BoardSame
  <2> QED
    BY <2>2, SameIsOnward
<1>5. CASE UserCopies(n)
  <2>1. /\ borrowed'[n] = borrowed[n] /\ disturbed' = disturbed
        /\ \/ serial'[n] = serial[n] /\ copiedAt'[n] = copiedAt[n]
           \/ serial'[n] = serial[n] + 1 /\ copiedAt'[n] = serial'[n]
    BY <1>1, <1>5 DEF UserCopies, Bump, BoardTypes
  <2> QED
    BY <1>1, <2>1 DEF Onward
<1>6. CASE SelectionChanged(n)
  <2>1. /\ borrowed'[n] \subseteq borrowed[n] \union {serial[n] + 1} /\ disturbed' = disturbed
        /\ serial'[n] = serial[n] + 1 /\ copiedAt'[n] \in {copiedAt[n], serial'[n]}
    BY <1>1, <1>6 DEF SelectionChanged, Bump, BoardTypes
  <2> QED
    BY <1>1, <2>1 DEF Onward
<1>7. CASE Write(n)
  <2>1. /\ borrowed'[n] \subseteq borrowed[n] \union {serial[n] + 1} /\ (disturbed[n] => disturbed'[n])
        /\ serial'[n] = serial[n] + 1 /\ copiedAt'[n] = copiedAt[n]
    BY <1>1, <1>7 DEF Write, PutOnClipboard, Bump, BoardTypes
  <2> QED
    BY <1>1, <2>1 DEF Onward
<1>8. CASE WriteRefused(n)
  <2>1. /\ borrowed'[n] = borrowed[n] /\ disturbed'[n]
        /\ serial'[n] = serial[n] /\ copiedAt'[n] = copiedAt[n]
    BY <1>1, <1>8 DEF WriteRefused, BoardTypes
  <2> QED
    BY <1>1, <2>1 DEF Onward
<1> QED
  BY <1>2, <1>3, <1>4, <1>5, <1>6, <1>7, <1>8 DEF ClipboardNext

(* Nothing is brought to a machine's clipboard before it has a session.    *)
LEMMA AloofSame ==
  ASSUME NEW n \in Machine, Aloof(n), BoardSame(n), jobs'[n] = jobs[n], work'[n] = work[n], joined'[n] = joined[n]
  PROVE  Aloof(n)'
BY DEF Aloof, BoardSame

LEMMA AloofAfterStart ==
  ASSUME Types, NEW n \in Machine, NEW kind, Starts(n, kind), Kinds(jobs[n], {"accept"}) = {}
  PROVE  Kinds(jobs'[n], {"accept"}) = {} /\ kind # "accept"
<1>1. jobs[n] \in Seq(Jobs) /\ jobs[n] # <<>> /\ jobs'[n] = Tail(jobs[n]) /\ Head(jobs[n]).kind = kind
  BY StartsTypes
<1> DEFINE q == jobs[n]
           e == Head(q)
<1>2. Shrunk(q, e, jobs'[n]) /\ e.kind = kind
  BY <1>1, Shrinks
<1> HIDE DEF e
<1>3. Kinds(jobs'[n], {"accept"}) = {} /\ e.kind \notin {"accept"}
  BY <1>2 DEF Shrunk
<1> QED
  BY <1>2, <1>3

LEMMA AloofSignals ==
  ASSUME Types, NEW n \in Machine, \A i \in DOMAIN signals[n] : ~signals[n][i].ours
  PROVE  /\ \A formats \in SUBSET Format :
              LET after == Append(signals[n], [formats |-> formats, ours |-> FALSE])
              IN \A i \in DOMAIN after : ~after[i].ours
         /\ signals[n] # <<>> =>
              ~Head(signals[n]).ours /\ \A i \in DOMAIN Tail(signals[n]) : ~Tail(signals[n])[i].ours
<1> DEFINE q == signals[n]
<1>1. q \in Seq([formats : SUBSET Format, ours : BOOLEAN])
  BY EchoTypes
<1> HIDE DEF q
<1>2. \A i \in DOMAIN q : ~q[i].ours
  BY DEF q
<1>3. DOMAIN q = 1 .. Len(q) /\ Len(q) \in Nat
  BY <1>1, LenProperties
<1>4. ASSUME NEW formats \in SUBSET Format, NEW i \in DOMAIN Append(q, [formats |-> formats, ours |-> FALSE])
      PROVE  ~Append(q, [formats |-> formats, ours |-> FALSE])[i].ours
  <2> DEFINE e == [formats |-> formats, ours |-> FALSE]
  <2>1. e \in [formats : SUBSET Format, ours : BOOLEAN] /\ ~e.ours
    OBVIOUS
  <2> HIDE DEF e
  <2>2. /\ DOMAIN Append(q, e) = 1 .. Len(q) + 1
        /\ \A j \in 1 .. Len(q) : Append(q, e)[j] = q[j]
        /\ Append(q, e)[Len(q) + 1] = e
    BY <1>1, <1>3, <2>1, AppendProperties, LenProperties
  <2>3. i \in 1 .. Len(q) + 1
    BY <1>4, <2>2 DEF e
  <2>4. ~Append(q, e)[i].ours
    BY <1>2, <1>3, <2>1, <2>2, <2>3
  <2> QED
    BY <2>4 DEF e
<1>5. ASSUME q # <<>> PROVE ~Head(q).ours /\ \A i \in DOMAIN Tail(q) : ~Tail(q)[i].ours
  <2>1. /\ Len(Tail(q)) = Len(q) - 1 /\ Tail(q) \in Seq([formats : SUBSET Format, ours : BOOLEAN])
        /\ \A i \in 1 .. Len(Tail(q)) : Tail(q)[i] = q[i + 1]
        /\ Head(q) = q[1]
    BY <1>1, <1>5, HeadTailProperties
  <2>2. Len(q) # 0
    BY <1>1, <1>5, EmptySeq
  <2>3. DOMAIN Tail(q) = 1 .. Len(q) - 1
    BY <2>1, LenProperties
  <2>4. 1 \in DOMAIN q /\ \A i \in DOMAIN Tail(q) : i + 1 \in DOMAIN q
    BY <1>3, <2>2, <2>3
  <2> QED
    BY <1>2, <2>1, <2>3, <2>4
<1> QED
  BY <1>4, <1>5 DEF q

LEMMA AloofBoard ==
  ASSUME Types, NEW n \in Machine, Aloof(n), UserCopies(n) \/ SelectionChanged(n)
  PROVE  Aloof(n)'
<1>1. BoardTypes
  BY DEF Types
<1>2. UNCHANGED <<jobs, work, joined>>
  BY DEF UserCopies, SelectionChanged, workerVars, linkVars
<1>3. CASE UserCopies(n)
  <2>1. PICK formats \in Shapes :
          \/ signals'[n] = Append(signals[n], [formats |-> formats, ours |-> FALSE]) /\ borrowed' = borrowed
          \/ signals'[n] = signals[n] /\ borrowed' = borrowed
    BY <1>1, <1>3 DEF UserCopies, BoardTypes, Bump
  <2>2. formats \in SUBSET Format
    BY ClipboardAssumption
  <2>3. \A i \in DOMAIN signals'[n] : ~signals'[n][i].ours
    <3> DEFINE after == Append(signals[n], [formats |-> formats, ours |-> FALSE])
    <3>1. \A i \in DOMAIN after : ~after[i].ours
      BY <2>2, AloofSignals DEF Aloof
    <3> HIDE DEF after
    <3>2. signals'[n] \in {after, signals[n]}
      BY <2>1 DEF after
    <3> QED
      BY <3>1, <3>2 DEF Aloof
  <2> QED
    BY <1>2, <2>1, <2>3 DEF Aloof
<1>4. CASE SelectionChanged(n)
  <2>1. signals[n] # <<>> /\ signals'[n] = Tail(signals[n])
    BY <1>1, <1>4 DEF SelectionChanged, BoardTypes
  <2>2. ~Head(signals[n]).ours /\ \A i \in DOMAIN Tail(signals[n]) : ~Tail(signals[n])[i].ours
    BY <2>1, AloofSignals DEF Aloof
  <2>3. borrowed' = borrowed
    BY <1>4, <2>2 DEF SelectionChanged, Bump
  <2> QED
    BY <1>2, <2>1, <2>2, <2>3 DEF Aloof
<1> QED
  BY <1>3, <1>4

LEMMA AloofWorker ==
  ASSUME Types, NEW n \in Machine, Aloof(n),
         \/ SampleSerial(n) \/ SampleFormats(n) \/ ReadForPeer(n) \/ Unpack(n) \/ Write(n)
         \/ WriteRefused(n) \/ ReadSerial(n) \/ WorkerDies(n)
  PROVE  Aloof(n)'
<1>1. Kinds(jobs[n], {"accept"}) = {} /\ work[n].kind \notin {"writing", "written"}
  BY DEF Aloof
<1>2. ~Unpack(n) /\ ~Write(n) /\ ~WriteRefused(n) /\ ~ReadSerial(n)
  BY <1>1, AloofAfterStart DEF Unpack, Write, WriteRefused, ReadSerial
<1>3. UNCHANGED boardVars /\ UNCHANGED joined
  BY <1>2 DEF SampleSerial, SampleFormats, ReadForPeer, WorkerDies, linkVars
<1>4. BoardTypes /\ jobs \in [Machine -> Seq(Jobs)] /\ work \in [Machine -> Works]
  BY QueueTypes DEF Types
<1>5. Kinds(jobs'[n], {"accept"}) = {}
  <2>1. CASE SampleSerial(n) \/ ReadForPeer(n)
    BY <1>1, <2>1, AloofAfterStart DEF SampleSerial, ReadForPeer
  <2>2. CASE SampleFormats(n)
    BY <1>1, <2>2 DEF SampleFormats
  <2>3. CASE WorkerDies(n)
    <3>1. jobs'[n] = <<>>
      BY <1>4, <2>3 DEF WorkerDies
    <3> QED
      BY <3>1, NoJobs
  <2> QED
    BY <1>2, <2>1, <2>2, <2>3
<1>6. work'[n].kind \notin {"writing", "written"}
  <2>1. \/ work'[n] = work[n] \/ work'[n] = Nothing
        \/ work'[n].kind = "sampled" \/ work'[n].kind = "dead"
    BY <1>2, <1>4 DEF SampleSerial, SampleFormats, ReadForPeer, WorkerDies
  <2> QED
    BY <1>1, <2>1 DEF Nothing
<1> QED
  BY <1>3, <1>5, <1>6 DEF Aloof, boardVars

LEMMA AloofEngine ==
  ASSUME Types, NEW n \in Machine, Aloof(n),
         \/ PollClipboard(n) \/ OnClipboardDone(n) \/ OnOffer(n) \/ OnRequest(n) \/ OnData(n) \/ OnStale(n)
         \/ PeerGone(n)
  PROVE  Aloof(n)'
<1>1. ~joined[n]
  BY DEF Aloof
<1>2. ~PollClipboard(n) /\ ~PeerGone(n)
  BY <1>1 DEF PollClipboard, PeerGone
<1>3. UNCHANGED boardVars /\ UNCHANGED <<work, joined>>
  BY <1>2 DEF OnClipboardDone, OnOffer, OnRequest, OnData, OnStale, workerVars, linkVars
<1>4. UNCHANGED jobs
  BY <1>1, <1>2 DEF OnClipboardDone, OnOffer, OnRequest, OnData, OnStale, workerVars, Shared
<1>5. BoardSame(n)
  BY <1>3 DEF boardVars, BoardSame
<1> QED
  BY <1>3, <1>4, <1>5, AloofSame

LEMMA AloofElsewhere ==
  ASSUME Types, NEW n \in Machine, Aloof(n), NEW m \in Machine, n # m,
         \/ UserCopies(m) \/ SelectionChanged(m) \/ SampleSerial(m) \/ SampleFormats(m)
         \/ ReadForPeer(m) \/ Unpack(m) \/ Write(m) \/ WriteRefused(m) \/ ReadSerial(m) \/ WorkerDies(m)
         \/ PollClipboard(m) \/ OnClipboardDone(m) \/ OnOffer(m) \/ OnRequest(m) \/ OnData(m) \/ OnStale(m)
         \/ PeerGone(m) \/ Restart(m)
  PROVE  Aloof(n)'
<1>1. BoardSame(n)
  BY BoardElsewhere
<1>2. jobs'[n] = jobs[n] /\ work'[n] = work[n]
  <2>1. CASE UserCopies(m) \/ SelectionChanged(m) \/ OnOffer(m) \/ OnStale(m) \/ PeerGone(m)
    BY <2>1, BoardOrMail
  <2>2. CASE \/ SampleSerial(m) \/ SampleFormats(m) \/ ReadForPeer(m) \/ Unpack(m) \/ Write(m)
             \/ WriteRefused(m) \/ ReadSerial(m) \/ WorkerDies(m)
    BY <2>2, WorkersElsewhere DEF SameWorker
  <2>3. CASE PollClipboard(m) \/ OnClipboardDone(m) \/ OnRequest(m) \/ OnData(m) \/ Restart(m)
    BY <2>3, EnginesElsewhere DEF SameWorker
  <2> QED
    BY <2>1, <2>2, <2>3
<1>3. joined'[n] = joined[n]
  <2>1. joined \in [Machine -> BOOLEAN]
    BY DEF Types, LinkTypes
  <2> QED
    BY <2>1 DEF UserCopies, SelectionChanged, SampleSerial, SampleFormats, ReadForPeer, Unpack, Write, WriteRefused,
       ReadSerial, WorkerDies, PollClipboard, OnClipboardDone, OnOffer, OnRequest, OnData, OnStale, PeerGone, Restart,
       linkVars
<1> QED
  BY <1>1, <1>2, <1>3, AloofSame

LEMMA AloofRestarted ==
  ASSUME Types, NEW n \in Machine, Restart(n)
  PROVE  Aloof(n)'
<1>1. BoardTypes /\ jobs \in [Machine -> Seq(Jobs)] /\ work \in [Machine -> Works] /\ joined \in [Machine -> BOOLEAN]
  BY QueueTypes DEF Types, LinkTypes
<1>2. /\ ~joined'[n] /\ borrowed'[n] = {} /\ jobs'[n] = <<>> /\ work'[n] = Nothing /\ signals'[n] = <<>>
  BY <1>1 DEF Restart, BoardTypes
<1>3. Kinds(jobs'[n], {"accept"}) = {}
  BY <1>2, NoJobs
<1>4. work'[n].kind \notin {"writing", "written"}
  BY <1>2 DEF Nothing
<1> QED
  BY <1>2, <1>3, <1>4 DEF Aloof

LEMMA AloofKept ==
  ASSUME Types, NEW n \in Machine, Aloof(n), [ClipboardNext]_clipboardVars
  PROVE  Aloof(n)' \/ Connect
<1>1. CASE UNCHANGED clipboardVars \/ Disconnect
  <2>1. UNCHANGED boardVars /\ UNCHANGED <<jobs, work, joined>>
    BY <1>1 DEF clipboardVars, Disconnect, workerVars, linkVars
  <2>2. BoardSame(n)
    BY <2>1 DEF boardVars, BoardSame
  <2> QED
    BY <2>1, <2>2, AloofSame
<1>2. CASE UserCopies(n) \/ SelectionChanged(n)
  BY <1>2, AloofBoard
<1>3. CASE \/ SampleSerial(n) \/ SampleFormats(n) \/ ReadForPeer(n) \/ Unpack(n) \/ Write(n)
           \/ WriteRefused(n) \/ ReadSerial(n) \/ WorkerDies(n)
  BY <1>3, AloofWorker
<1>4. CASE \/ PollClipboard(n) \/ OnClipboardDone(n) \/ OnOffer(n) \/ OnRequest(n) \/ OnData(n) \/ OnStale(n)
           \/ PeerGone(n)
  BY <1>4, AloofEngine
<1> QED
  BY <1>1, <1>2, <1>3, <1>4, AloofElsewhere, AloofRestarted DEF ClipboardNext

(* What there is to send a machine's offers from: fewer, or one more that  *)
(* its own engine has just decided on.                                     *)
LEMMA OffersAfter ==
  ASSUME Types, NEW n \in Machine, [ClipboardNext]_clipboardVars
  PROVE  \/ OffersOf(mail'[n]) \subseteq OffersOf(mail[n])
         \/ /\ OnClipboardDone(n) /\ Head(reports[n]).kind = "polled" /\ ~IsEcho(n, Head(reports[n]))
            /\ OffersOf(mail'[n]) \subseteq OffersOf(mail[n]) \union {Head(reports[n]).serial}
<1>1. mail \in [Machine -> Seq(Messages)] /\ Peer(n) \in Machine /\ Peer(n) # n /\ \A m \in Machine : m # n => m = Peer(n)
  BY OtherMachine DEF Types, LinkTypes
<1>2. CASE UNCHANGED mail
  BY <1>2
<1>3. CASE Disconnect
  <2>1. PICK m \in Machine : \E i \in 0 .. Len(mail[m]), j \in 0 .. Len(mail[Peer(m)]) :
          mail' = [mail EXCEPT ![m] = SubSeq(@, 1, i), ![Peer(m)] = SubSeq(@, 1, j)]
    BY <1>3 DEF Disconnect
  <2>2. /\ Peer(m) \in Machine /\ Peer(m) # m
        /\ n = m \/ n = Peer(m)
    BY OtherMachine
  <2>3. \E i \in 0 .. Len(mail[n]) : mail'[n] = SubSeq(mail[n], 1, i)
    BY <1>1, <2>1, <2>2
  <2> QED
    BY <1>1, <2>3, OffersCut
<1>4. CASE Restart(n)
  <2>1. \E i \in 0 .. Len(mail[n]) : mail'[n] = SubSeq(mail[n], 1, i)
    BY <1>1, <1>4 DEF Restart
  <2> QED
    BY <1>1, <2>1, OffersCut
<1>5. CASE Restart(Peer(n))
  <2>1. mail'[n] = <<>>
    <3>1. Peer(Peer(n)) = n
      BY OtherMachine
    <3> QED
      BY <1>1, <1>5, <3>1 DEF Restart
  <2> QED
    BY <2>1, NoOffers
<1>6. CASE OnClipboardDone(n)
  BY <1>6, DoneOffers
<1>7. CASE OnClipboardDone(Peer(n))
  <2>1. mail'[n] = mail[n]
    BY <1>1, <1>7, DoneOffers
  <2> QED
    BY <2>1
<1>8. ASSUME NEW m \in Machine, OnOffer(m) \/ OnRequest(m) \/ OnData(m) \/ OnStale(m)
      PROVE  OffersOf(mail'[n]) \subseteq OffersOf(mail[n])
  BY <1>1, <1>8, OffersKept
<1>9. ASSUME NEW m \in Machine,
             \/ UserCopies(m) \/ SelectionChanged(m) \/ SampleSerial(m) \/ SampleFormats(m)
             \/ ReadForPeer(m) \/ Unpack(m) \/ Write(m) \/ WriteRefused(m) \/ ReadSerial(m) \/ WorkerDies(m)
             \/ PollClipboard(m) \/ PeerGone(m)
      PROVE  UNCHANGED mail
  BY <1>9 DEF UserCopies, SelectionChanged, SampleSerial, SampleFormats, ReadForPeer, Unpack, Write, WriteRefused,
     ReadSerial, WorkerDies, PollClipboard, PeerGone, linkVars
<1>10. CASE UNCHANGED clipboardVars \/ Connect
  BY <1>10 DEF clipboardVars, linkVars, Connect
<1> QED
  BY <1>1, <1>2, <1>3, <1>4, <1>5, <1>6, <1>7, <1>8, <1>9, <1>10 DEF ClipboardNext

(* The engine's decision: a change that is no echo is a copy of the user's,*)
(* or the user has copied since.                                           *)
LEMMA NewOfferSound ==
  ASSUME Types, NEW n \in Machine, EchoInv(n), OnClipboardDone(n),
         Head(reports[n]).kind = "polled", ~IsEcho(n, Head(reports[n]))
  PROVE  Sound(n, Head(reports[n]).serial) /\ Head(reports[n]).serial \in Nat
<1> DEFINE d == Head(reports[n])
<1>1. reports[n] \in Seq(Dones) /\ reports[n] # <<>>
  BY DoneTaken
<1>2. 1 \in Kinds(reports[n], {"polled"}) /\ reports[n][1] = d
  <2> DEFINE q == reports[n]
  <2>1. Shrunk(q, d, Tail(q))
    BY <1>1, Shrinks
  <2> HIDE DEF q
  <2> QED
    BY <2>1 DEF Shrunk, q
<1>3. /\ d.serial \in Nat /\ serial[n] \in Nat /\ copiedAt[n] \in Nat
  BY <1>2, EchoTypes
<1>4. Sampled(n, d.serial) /\ copiedAt[n] \notin borrowed[n]
  BY <1>2 DEF EchoInv, Serials
<1>5. ~disturbed[n] => ~Lent(n, d.serial)
  <2> SUFFICES ASSUME ~disturbed[n], Lent(n, d.serial) PROVE FALSE
    OBVIOUS
  <2>1. Echoes(writeBack[n], d)
    BY <1>2 DEF EchoInv, PolledInv
  <2> QED
    BY <2>1 DEF Echoes, IsEcho
<1> HIDE DEF d
<1>6. Sound(n, d.serial)
  BY <1>3, <1>4, <1>5 DEF Sound, Sampled, Lent
<1> QED
  BY <1>3, <1>6 DEF d

LEMMA OffersStep ==
  ASSUME Types, Types', NEW n \in Machine, EchoInv(n), OffersInv(n), [ClipboardNext]_clipboardVars
  PROVE  OffersInv(n)'
<1>1. Serials(n) /\ OffersOf(mail[n]) \subseteq Nat
  BY OffersAreNumbers DEF EchoInv
<1>2. serial'[n] \in Nat /\ copiedAt'[n] \in Nat
  BY DEF Types, BoardTypes
<1>3. CASE Connect
  <2>1. mail'[n] = <<>>
    BY <1>3 DEF Connect
  <2> QED
    BY <2>1, NoOffers DEF OffersInv
<1>4. CASE Restart(n)
  <2>1. Aloof(n)'
    BY <1>4, AloofRestarted
  <2> QED
    BY <2>1 DEF OffersInv
<1>5. CASE ~Connect /\ ~Restart(n)
  <2>1. Onward(n)
    BY <1>1, <1>5, BoardOnward
  <2>2. Aloof(n) => Aloof(n)'
    BY <1>5, AloofKept
  <2>3. \A s \in OffersOf(mail[n]) : Aloof(n)' \/ Sound(n, s)'
    BY <1>1, <1>2, <2>1, <2>2, SoundKept DEF OffersInv
  <2>4. CASE OffersOf(mail'[n]) \subseteq OffersOf(mail[n])
    BY <2>3, <2>4 DEF OffersInv
  <2>5. CASE /\ OnClipboardDone(n) /\ Head(reports[n]).kind = "polled" /\ ~IsEcho(n, Head(reports[n]))
             /\ OffersOf(mail'[n]) \subseteq OffersOf(mail[n]) \union {Head(reports[n]).serial}
    <3>1. Sound(n, Head(reports[n]).serial) /\ Head(reports[n]).serial \in Nat
      BY <2>5, NewOfferSound
    <3> DEFINE s == Head(reports[n]).serial
    <3>2. BoardSame(n)
      BY <2>5 DEF OnClipboardDone, boardVars, BoardSame
    <3>3. Sound(n, Head(reports[n]).serial) => serial'[n] >= Head(reports[n]).serial
              /\ (Head(reports[n]).serial \in borrowed'[n] /\ ~disturbed'[n] => Head(reports[n]).serial < copiedAt'[n])
      BY <1>2, <3>1, <3>2 DEF Sound, BoardSame
    <3>4. \A t \in OffersOf(mail'[n]) : Aloof(n)' \/ Sound(n, t)'
      BY <1>2, <2>3, <2>5, <3>1, <3>3 DEF Sound
    <3> QED
      BY <3>4 DEF OffersInv
  <2> QED
    BY <2>4, <2>5, OffersAfter
<1> QED
  BY <1>3, <1>4, <1>5

(* What a peer sent is not offered back to it: an offer on its way names a *)
(* serial under which a peer's content was on the clipboard only if the    *)
(* user has copied something since.  ClipboardSync::observe holds every    *)
(* change against the guard of the last write announced, and the guard is  *)
(* that of the write the change came from, however many writes, copies and *)
(* polls overlap (unless a write was refused, or made while a portal still *)
(* had a change to tell of).                                               *)
THEOREM ClipboardNeverEchoes == ClipboardSpec => []NoEcho
<1>1. ClipboardInit => \A n \in Machine : OffersInv(n)
  <2>1. ClipboardInit => \A n \in Machine : mail[n] = <<>>
    BY DEF ClipboardInit
  <2> QED
    BY <2>1, NoOffers DEF OffersInv
<1>2. Types /\ Types' /\ (\A n \in Machine : EchoInv(n)) /\ (\A n \in Machine : OffersInv(n))
        /\ [ClipboardNext]_clipboardVars => (\A n \in Machine : OffersInv(n))'
  BY OffersStep
<1>3. Types /\ (\A n \in Machine : OffersInv(n)) => NoEcho
  <2> SUFFICES ASSUME Types, NEW n \in Machine, OffersInv(n), NEW i \in Kinds(mail[n], {"offer"}),
                      mail[n][i].serial \in borrowed[n], ~disturbed[n]
               PROVE  copiedAt[n] > mail[n][i].serial
    BY DEF NoEcho
  <2>1. mail[n][i].serial \in OffersOf(mail[n]) /\ mail[n][i].serial \in Nat
    BY OffersAreNumbers DEF OffersOf
  <2>2. Sound(n, mail[n][i].serial)
    BY <2>1 DEF OffersInv, Aloof
  <2> QED
    BY <2>1, <2>2, EchoTypes DEF Sound
<1> QED
  BY <1>1, <1>2, <1>3, TypesAlways, EchoAlways, PTL DEF ClipboardSpec

=============================================================================

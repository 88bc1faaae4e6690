---------------------------- MODULE PairingProofs ----------------------------
(***************************************************************************)
(* Theorems about Pairing, for any set of codes and any number of dials,   *)
(* typed codes and mishaps.                                                *)
(***************************************************************************)
EXTENDS Pairing, FiniteSetTheorems, SequenceTheorems, TLAPS

LEMMA OtherMachine ==
  ASSUME NEW m \in Machine
  PROVE  /\ Other(m) \in Machine /\ Other(m) # m
         /\ \A o \in Machine : o # m => o = Other(m)
         /\ Other(Other(m)) = m
<1>1. Cardinality(Machine \ {m}) = 1 /\ IsFiniteSet(Machine \ {m})
  BY PairingAssumption, FS_RemoveElement
<1>2. PICK p : Machine \ {m} = {p}
  BY <1>1, FS_Singleton
<1>3. Other(m) \in Machine /\ Other(m) # m
  BY <1>2 DEF Other
<1>4. \A o \in Machine : o # m => o = Other(m)
  BY <1>2, <1>3
<1>5. Other(Other(m)) \in Machine /\ Other(Other(m)) # Other(m)
  BY <1>2, <1>3 DEF Other
<1> QED
  BY <1>3, <1>4, <1>5

-----------------------------------------------------------------------------
(* Types, in the form the steps preserve.                                  *)

Trusts == {"stranger", "paired", "blocked"}
Statuses == {"offline", "connecting", "pairing", "connected"}

Dials ==
  {Unused}
    \union [stage : {"trying"}, by : Machine, pairing : BOOLEAN, known : Trusts]
    \union [stage : {"up", "down"}, by : Machine, pairing : BOOLEAN, paired : [Machine -> BOOLEAN]]
    \union [stage : {"failed"}, by : Machine]

Pendings == {NoPairing} \union [conn : Dial, mine : BOOLEAN, code : Code \union {NoCode}]

Types ==
  /\ trust \in [Machine -> Trusts]
  /\ admits \in [Machine -> Trusts]
  /\ status \in [Machine -> Statuses]
  /\ session \in [Machine -> Dial \union {0}]
  /\ pending \in [Machine -> Pendings]
  /\ offered \in [Machine -> Code \union {NoCode}]
  /\ dialing \in [Machine -> Dial \union {0}]
  /\ dial \in [Dial -> Dials]
  /\ held \in [Dial -> [Machine -> SUBSET Code]]
  /\ entries \in 0 .. MaxEntries /\ mishaps \in 0 .. MaxMishaps

Made(n) == n \in Dial /\ dial[n] # Unused

(* A dial that is waited for is the machine's own.                         *)
DialingIsOwn == \A m \in Machine : dialing[m] # 0 => Made(dialing[m]) /\ dial[dialing[m]].by = m

(* What a machine has on record as its exchange.                           *)
ExchangeOf(m) ==
  /\ session[m] # 0 => Made(session[m])
  /\ InPairing(m) =>
       /\ pending[m].conn = session[m] /\ session[m] \in Dial
       /\ pending[m].mine = (dial[session[m]].by = m)
       /\ pending[m].mine => pending[m].code # NoCode
       /\ pending[m].code # NoCode => pending[m].code \in held[session[m]][m]

(* A proof in a queue was made by a machine that has held the code it is   *)
(* of on the connection it is for.                                         *)
IsHonest(known, m, message) ==
  message.kind = "confirm" => message.code \in known[message.conn][Other(m)]

Honest(queue, known) ==
  /\ queue \in [Machine -> [Dial -> Seq(Message)]]
  /\ \A m \in Machine, n \in Dial :
       /\ queue[m][n] # <<>> => Made(n)
       /\ \A i \in DOMAIN queue[m][n] : IsHonest(known, m, queue[m][n][i])

Inv == Types /\ DialingIsOwn /\ (\A m \in Machine : ExchangeOf(m)) /\ Honest(news, held)

LEMMA InvGivesTypeOK == Inv => PairingTypeOK
<1> SUFFICES ASSUME Inv PROVE PairingTypeOK
  OBVIOUS
<1>1. ASSUME NEW m \in Machine
      PROVE  /\ dialing[m] # 0 => dial[dialing[m]].by = m
             /\ InPairing(m) =>
                  /\ pending[m].conn = session[m] /\ session[m] \in Dial
                  /\ pending[m].mine = (dial[session[m]].by = m)
                  /\ pending[m].code \in Code \union {NoCode}
                  /\ pending[m].mine => pending[m].code # NoCode
             /\ \A n \in Dial : news[m][n] \in Seq(Message)
  <2>1. InPairing(m) => pending[m].code \in Code \union {NoCode}
    BY DEF Inv, Types, Pendings, InPairing
  <2>2. \A n \in Dial : news[m][n] \in Seq(Message)
    BY DEF Inv, Honest
  <2>3. dialing[m] # 0 => dial[dialing[m]].by = m
    BY DEF Inv, DialingIsOwn
  <2> QED
    BY <2>1, <2>2, <2>3 DEF Inv, ExchangeOf
<1> QED
  BY <1>1 DEF Inv, Types, PairingTypeOK, Trusts, Statuses

LEMMA InitInv == PairingInit => Inv
<1> SUFFICES ASSUME PairingInit PROVE Inv
  OBVIOUS
<1>1. news = [m \in Machine |-> [n \in Dial |-> <<>>]]
  BY DEF PairingInit
<1>2. news \in [Machine -> [Dial -> Seq(Message)]]
  <2>1. <<>> \in Seq(Message)
    OBVIOUS
  <2> QED
    BY <1>1, <2>1
<1>3. Honest(news, held)
  BY <1>1, <1>2 DEF Honest
<1>4. DialingIsOwn /\ \A m \in Machine : ExchangeOf(m)
  BY DEF PairingInit, DialingIsOwn, ExchangeOf, InPairing
<1>5. entries \in 0 .. MaxEntries /\ mishaps \in 0 .. MaxMishaps
  BY PairingAssumption DEF PairingInit
<1>6. dial \in [Dial -> Dials] /\ pending \in [Machine -> Pendings]
  BY DEF PairingInit, Dials, Pendings
<1>7. /\ trust \in [Machine -> Trusts]
      /\ admits \in [Machine -> Trusts]
      /\ status \in [Machine -> Statuses]
      /\ session \in [Machine -> Dial \union {0}]
      /\ offered \in [Machine -> Code \union {NoCode}]
      /\ dialing \in [Machine -> Dial \union {0}]
      /\ held \in [Dial -> [Machine -> SUBSET Code]]
  BY DEF PairingInit, Trusts, Statuses
<1> QED
  BY <1>3, <1>4, <1>5, <1>6, <1>7 DEF Inv, Types

-----------------------------------------------------------------------------
(* What every step leaves alone: a dial keeps its maker, and nothing is    *)
(* forgotten of which codes were held.                                     *)

MadeKept ==
  /\ dial' \in [Dial -> Dials]
  /\ \A n \in Dial : dial[n] # Unused => dial'[n] # Unused /\ dial'[n].by = dial[n].by

HeldKept ==
  /\ held' \in [Dial -> [Machine -> SUBSET Code]]
  /\ \A n \in Dial, m \in Machine : held[n][m] \subseteq held'[n][m]

LEMMA ClosedType ==
  ASSUME Types, NEW n \in Dial \union {0}
  PROVE  /\ Closed(n) \in [Dial -> Dials]
         /\ \A k \in Dial : /\ Closed(n)[k] = Unused <=> dial[k] = Unused
                            /\ dial[k] # Unused => Closed(n)[k].by = dial[k].by
<1>1. CASE ~IsUp(n)
  BY <1>1 DEF Closed, Types
<1>2. CASE IsUp(n)
  <2>1. n \in Dial /\ dial[n].stage = "up" /\ dial \in [Dial -> Dials]
    BY <1>2 DEF IsUp, Types
  <2>2. dial[n] \in [stage : {"up", "down"}, by : Machine, pairing : BOOLEAN, paired : [Machine -> BOOLEAN]]
    BY <2>1 DEF Dials, Unused
  <2> DEFINE down == [dial[n] EXCEPT !.stage = "down"]
  <2>3. down \in Dials /\ down # Unused /\ down.by = dial[n].by
    BY <2>2 DEF Dials, Unused
  <2>4. Closed(n) = [dial EXCEPT ![n] = down]
    BY <1>2 DEF Closed
  <2>5. dial[n] # Unused
    BY <2>1 DEF Unused
  <2> HIDE DEF down
  <2> QED
    BY <2>1, <2>3, <2>4, <2>5
<1> QED
  BY <1>1, <1>2

LEMMA ClosedKeeps ==
  ASSUME Types, NEW n \in Dial \union {0}, dial' = Closed(n)
  PROVE  MadeKept
BY ClosedType DEF MadeKept

LEMMA SameKeeps ==
  /\ Types /\ dial' = dial => MadeKept
  /\ Types /\ held' = held => HeldKept
BY DEF MadeKept, HeldKept, Types

LEMMA DialingKept ==
  ASSUME Types, DialingIsOwn, MadeKept, NEW m \in Machine,
         dialing' = dialing \/ dialing' = [dialing EXCEPT ![m] = 0]
  PROVE  DialingIsOwn' /\ dialing' \in [Machine -> Dial \union {0}]
<1>1. dialing' \in [Machine -> Dial \union {0}] /\ \A o \in Machine : dialing'[o] \in {0, dialing[o]}
  BY DEF Types
<1> QED
  BY <1>1 DEF DialingIsOwn, Made, MadeKept

LEMMA StartDialKeeps ==
  ASSUME Types, DialingIsOwn, NEW m \in Machine, NEW n \in Dial, NEW mode \in BOOLEAN,
         NEW c \in Dial \union {0}, StartDial(m, n, mode, Closed(c))
  PROVE  MadeKept /\ DialingIsOwn' /\ dialing' \in [Machine -> Dial \union {0}]
<1> DEFINE trying == [stage |-> "trying", by |-> m, pairing |-> mode, known |-> trust[m]]
<1>1. trying \in Dials /\ trying # Unused /\ trying.by = m
  BY DEF Dials, Unused, Types
<1>2. Closed(c)[n] = Unused /\ dial' = [Closed(c) EXCEPT ![n] = trying] /\ dialing' = [dialing EXCEPT ![m] = n]
  BY DEF StartDial
<1>3. MadeKept /\ dial'[n] = trying
  <2> HIDE DEF trying
  <2> QED
    BY <1>1, <1>2, ClosedType DEF MadeKept
<1>4. dialing' \in [Machine -> Dial \union {0}]
  BY <1>2 DEF Types
<1>5. ASSUME NEW o \in Machine, dialing'[o] # 0
      PROVE  Made(dialing[o])' /\ dial'[dialing'[o]].by = o
  <2>1. CASE o = m
    BY <1>1, <1>2, <1>3, <2>1 DEF Made, Types
  <2>2. CASE o # m
    <3>1. dialing'[o] = dialing[o]
      BY <1>2, <2>2 DEF Types
    <3> QED
      BY <1>3, <1>5, <3>1 DEF DialingIsOwn, Made, MadeKept
  <2> QED
    BY <2>1, <2>2
<1> QED
  BY <1>3, <1>4, <1>5 DEF DialingIsOwn

LEMMA ExchangeKept ==
  ASSUME Types, MadeKept, HeldKept, NEW m \in Machine, ExchangeOf(m),
         \/ session'[m] = session[m] /\ pending'[m] = pending[m]
         \/ session'[m] \in {0, session[m]} /\ pending'[m] = NoPairing
  PROVE  ExchangeOf(m)'
<1>1. session[m] \in Dial \union {0} /\ session[m] # 0 => session[m] \in Dial
  BY DEF Types
<1>2. CASE session'[m] = session[m] /\ pending'[m] = pending[m]
  <2>1. session'[m] # 0 => Made(session[m])'
    BY <1>1, <1>2 DEF ExchangeOf, Made, MadeKept
  <2>2. ASSUME InPairing(m)'
        PROVE  /\ pending'[m].conn = session'[m] /\ session'[m] \in Dial
               /\ pending'[m].mine = (dial'[session'[m]].by = m)
               /\ pending'[m].mine => pending'[m].code # NoCode
               /\ pending'[m].code # NoCode => pending'[m].code \in held'[session'[m]][m]
    <3>1. InPairing(m)
      BY <1>2, <2>2 DEF InPairing
    <3>2. dial'[session[m]].by = dial[session[m]].by
      BY <3>1 DEF ExchangeOf, MadeKept, Made, Dial
    <3> QED
      BY <1>2, <3>1, <3>2 DEF ExchangeOf, HeldKept
  <2> QED
    BY <2>1, <2>2 DEF ExchangeOf
<1>3. CASE session'[m] \in {0, session[m]} /\ pending'[m] = NoPairing
  BY <1>1, <1>3 DEF ExchangeOf, InPairing, Made, MadeKept
<1> QED
  BY <1>2, <1>3

-----------------------------------------------------------------------------
(* Queues stay honest.                                                     *)

LEMMA MessageParts ==
  /\ [kind |-> "session"] \in Message /\ Rejection \in Message
  /\ \A n \in Dial, c \in Code : Proof(n, c) \in Message
  /\ \A message \in Message :
       message.kind = "confirm" => /\ message.conn \in Dial /\ message.code \in Code
                                   /\ message = Proof(message.conn, message.code)
<1>1. ASSUME NEW message \in Message, message.kind = "confirm"
      PROVE  message.conn \in Dial /\ message.code \in Code /\ message = Proof(message.conn, message.code)
  <2>1. message # [kind |-> "session"] /\ message # Rejection
    BY <1>1 DEF Rejection
  <2>2. PICK n \in Dial, c \in Code : message = Proof(n, c)
    BY <2>1 DEF Message
  <2> QED
    BY <2>2 DEF Proof
<1>2. [kind |-> "session"] \in Message /\ Rejection \in Message
  BY DEF Message
<1>3. \A n \in Dial, c \in Code : Proof(n, c) \in Message
  BY DEF Message
<1> QED
  BY <1>1, <1>2, <1>3

LEMMA HonestKept ==
  ASSUME MadeKept, HeldKept, Honest(news', held)
  PROVE  Honest(news, held)'
<1>1. news' \in [Machine -> [Dial -> Seq(Message)]]
  BY DEF Honest
<1>2. ASSUME NEW m \in Machine, NEW n \in Dial
      PROVE  /\ news'[m][n] # <<>> => Made(n)'
             /\ \A i \in DOMAIN news'[m][n] : IsHonest(held', m, news'[m][n][i])
  <2>1. news'[m][n] # <<>> => Made(n)'
    BY DEF Honest, Made, MadeKept
  <2>2. ASSUME NEW i \in DOMAIN news'[m][n]
        PROVE  IsHonest(held', m, news'[m][n][i])
    <3>1. IsHonest(held, m, news'[m][n][i])
      BY DEF Honest
    <3>2. news'[m][n][i] \in Message
      BY <1>1, <2>2, LenProperties, ElementOfSeq
    <3> QED
      BY <3>1, <3>2, MessageParts, OtherMachine DEF IsHonest, HeldKept
  <2> QED
    BY <2>1, <2>2
<1> QED
  BY <1>1, <1>2 DEF Honest

(* HonestKept, when the step has made the proof it sends.                  *)
LEMMA HonestAgain ==
  ASSUME MadeKept, Honest(news', held')
  PROVE  Honest(news, held)'
BY DEF Honest, Made, MadeKept

LEMMA MoreHeld ==
  ASSUME HeldKept, NEW queue, Honest(queue, held)
  PROVE  Honest(queue, held')
<1>1. ASSUME NEW m \in Machine, NEW n \in Dial, NEW i \in DOMAIN queue[m][n]
      PROVE  IsHonest(held', m, queue[m][n][i])
  <2>1. IsHonest(held, m, queue[m][n][i])
    BY DEF Honest
  <2>2. queue[m][n] \in Seq(Message)
    BY DEF Honest
  <2>3. queue[m][n][i] \in Message
    BY <2>2, <1>1, LenProperties, ElementOfSeq
  <2> QED
    BY <2>1, <2>3, MessageParts, OtherMachine DEF IsHonest, HeldKept
<1> QED
  BY <1>1 DEF Honest

LEMMA AfterHonest ==
  ASSUME Honest(news, held), NEW m \in Machine, NEW n \in Dial, news[m][n] # <<>>
  PROVE  Honest(After(m, n), held) /\ Head(news[m][n]) \in Message
         /\ IsHonest(held, m, Head(news[m][n])) /\ Made(n)
<1>1. news[m][n] \in Seq(Message)
  BY DEF Honest
<1>2. /\ Head(news[m][n]) = news[m][n][1] /\ 1 \in DOMAIN news[m][n]
      /\ Head(news[m][n]) \in Message
      /\ Tail(news[m][n]) \in Seq(Message)
      /\ \A i \in DOMAIN Tail(news[m][n]) : i + 1 \in DOMAIN news[m][n] /\ Tail(news[m][n])[i] = news[m][n][i + 1]
  BY <1>1, HeadTailProperties, LenProperties
<1>3. IsHonest(held, m, Head(news[m][n])) /\ Made(n)
  BY <1>2 DEF Honest
<1>4. \A i \in DOMAIN Tail(news[m][n]) : IsHonest(held, m, Tail(news[m][n])[i])
  BY <1>2 DEF Honest
<1>5. ASSUME NEW o \in Machine, NEW k \in Dial
      PROVE  After(m, n)[o][k] = IF o = m /\ k = n THEN Tail(news[m][n]) ELSE news[o][k]
  BY DEF After, Honest
<1>6. After(m, n) \in [Machine -> [Dial -> Seq(Message)]]
  BY <1>2 DEF After, Honest
<1>7. ASSUME NEW o \in Machine, NEW k \in Dial
      PROVE  /\ After(m, n)[o][k] # <<>> => Made(k)
             /\ \A i \in DOMAIN After(m, n)[o][k] : IsHonest(held, o, After(m, n)[o][k][i])
  BY <1>3, <1>4, <1>5 DEF Honest
<1> QED
  BY <1>2, <1>3, <1>6, <1>7 DEF Honest

LEMMA SentHonest ==
  ASSUME Types, NEW queue, NEW known, Honest(queue, known), NEW m \in Machine,
         NEW messages \in Seq(Message),
         \A i \in DOMAIN messages : IsHonest(known, Other(m), messages[i])
  PROVE  Honest(Sent(queue, m, messages), known)
<1>1. CASE ~IsUp(session[m])
  BY <1>1 DEF Sent
<1>2. CASE IsUp(session[m])
  <2> DEFINE o == Other(m)
             n == session[m]
             q == queue[o][n] \o messages
  <2>1. o \in Machine /\ n \in Dial /\ Made(n)
    BY <1>2, OtherMachine DEF IsUp, Types, Made, Unused
  <2>2. queue[o][n] \in Seq(Message) /\ \A i \in DOMAIN queue[o][n] : IsHonest(known, o, queue[o][n][i])
    BY <2>1 DEF Honest
  <2>3. q \in Seq(Message)
    BY <2>2, ConcatProperties
  <2>4. ASSUME NEW i \in DOMAIN q
        PROVE  IsHonest(known, o, q[i])
    <3> HIDE DEF o, n
    <3>1. CASE i \in DOMAIN queue[o][n]
      <4>1. q[i] = queue[o][n][i]
        BY <2>2, <3>1, ConcatProperties, LenProperties
      <4> QED
        BY <2>2, <3>1, <4>1
    <3>2. CASE i \notin DOMAIN queue[o][n]
      <4>1. i - Len(queue[o][n]) \in DOMAIN messages /\ q[i] = messages[i - Len(queue[o][n])]
        BY <2>2, <2>3, <3>2, ConcatProperties, LenProperties
      <4> QED
        BY <4>1 DEF o
    <3> QED
      BY <3>1, <3>2
  <2>5. Sent(queue, m, messages) = [queue EXCEPT ![o][n] = q]
    BY <1>2 DEF Sent
  <2> HIDE DEF o, n, q
  <2> QED
    BY <2>1, <2>3, <2>4, <2>5 DEF Honest
<1> QED
  BY <1>1, <1>2

-----------------------------------------------------------------------------
(* How an exchange ends.                                                   *)

ExchangeTypes ==
  /\ session \in [Machine -> Dial \union {0}]
  /\ pending \in [Machine -> Pendings]
  /\ offered \in [Machine -> Code \union {NoCode}]
  /\ trust \in [Machine -> Trusts]
  /\ status \in [Machine -> Statuses]
  /\ \A m \in Machine : ExchangeOf(m)

LEMMA EndedExchange ==
  ASSUME Inv, NEW m \in Machine, MadeKept, HeldKept,
         session' = session \/ session' = [session EXCEPT ![m] = 0],
         pending' = [pending EXCEPT ![m] = NoPairing]
  PROVE  /\ session' \in [Machine -> Dial \union {0}]
         /\ pending' \in [Machine -> Pendings]
         /\ \A o \in Machine : ExchangeOf(o)'
<1>1. session' \in [Machine -> Dial \union {0}] /\ pending' \in [Machine -> Pendings]
  BY DEF Inv, Types, Pendings
<1>2. ASSUME NEW o \in Machine
      PROVE  \/ session'[o] = session[o] /\ pending'[o] = pending[o]
             \/ session'[o] \in {0, session[o]} /\ pending'[o] = NoPairing
  BY DEF Inv, Types
<1>3. ASSUME NEW o \in Machine PROVE ExchangeOf(o)'
  BY <1>2, ExchangeKept DEF Inv
<1> QED
  BY <1>1, <1>3

LEMMA SameExchange ==
  ASSUME Inv, MadeKept, HeldKept, UNCHANGED <<session, pending>>
  PROVE  \A m \in Machine : ExchangeOf(m)'
BY ExchangeKept DEF Inv

LEMMA AbandonKeeps ==
  ASSUME Inv, NEW m \in Machine, Abandon(m), HeldKept
  PROVE  MadeKept /\ ExchangeTypes'
<1>1. MadeKept /\ (session' = session \/ session' = [session EXCEPT ![m] = 0])
  <2>1. session[m] \in Dial \union {0}
    BY DEF Inv, Types
  <2> QED
    BY <2>1, ClosedKeeps, SameKeeps DEF Abandon, Inv
<1>2. offered' \in [Machine -> Code \union {NoCode}] /\ trust' = trust /\ status' = status
  BY DEF Abandon, Inv, Types
<1>3. pending' = [pending EXCEPT ![m] = NoPairing]
  BY DEF Abandon
<1> QED
  BY <1>1, <1>2, <1>3, EndedExchange DEF ExchangeTypes, Inv, Types

LEMMA PeerGoneKeeps ==
  ASSUME Inv, NEW m \in Machine, PeerGone(m), HeldKept, trust' \in [Machine -> Trusts]
  PROVE  MadeKept /\ ExchangeTypes'
<1>1. session[m] \in Dial \union {0}
  BY DEF Inv, Types
<1>2. MadeKept
  BY <1>1, ClosedKeeps DEF PeerGone, Inv
<1>3. offered' \in [Machine -> Code \union {NoCode}]
  BY DEF PeerGone, AfterTeardown, Inv, Types
<1>4. status' \in [Machine -> Statuses]
  BY DEF PeerGone, Statuses, Inv, Types
<1>5. /\ session' = [session EXCEPT ![m] = 0]
      /\ pending' = [pending EXCEPT ![m] = NoPairing]
  BY DEF PeerGone
<1> QED
  BY <1>2, <1>3, <1>4, <1>5, EndedExchange DEF ExchangeTypes

(* What remains to be said of a step, once its parts are known to keep     *)
(* what they are about.                                                    *)
LEMMA Assembled ==
  ASSUME MadeKept, HeldKept, Honest(news', held), ExchangeTypes',
         DialingIsOwn', dialing' \in [Machine -> Dial \union {0}],
         admits' \in [Machine -> Trusts],
         entries' \in 0 .. MaxEntries, mishaps' \in 0 .. MaxMishaps
  PROVE  Inv'
<1>1. Honest(news, held)'
  BY HonestKept
<1> QED
  BY <1>1 DEF Inv, Types, ExchangeTypes, MadeKept, HeldKept

-----------------------------------------------------------------------------
(* One lemma per step.                                                     *)

LEMMA ConnectStep ==
  ASSUME Inv, NEW n \in Dial, Connect(n)
  PROVE  Inv'
<1> DEFINE m == dial[n].by
           o == Other(m)
           judged == [x \in Machine |-> IF x = m THEN dial[n].known = "paired" ELSE admits[o] = "paired"]
           up == [stage |-> "up", by |-> m, pairing |-> dial[n].pairing, paired |-> judged]
<1>1. dial[n] \in [stage : {"trying"}, by : Machine, pairing : BOOLEAN, known : Trusts]
  BY DEF Connect, Inv, Types, Dials, Unused
<1>2. m \in Machine /\ dial[n] # Unused
  BY <1>1 DEF Unused
<1>3. judged \in [Machine -> BOOLEAN]
  OBVIOUS
<1>4. up \in Dials /\ up # Unused /\ up.by = m
  <2> HIDE DEF judged, m
  <2>1. up \in [stage : {"up", "down"}, by : Machine, pairing : BOOLEAN, paired : [Machine -> BOOLEAN]]
    BY <1>1, <1>2, <1>3
  <2> QED
    BY <2>1 DEF Dials, Unused
<1>5. dial' = [dial EXCEPT ![n] = up]
  BY DEF Connect
<1>6. MadeKept
  <2> HIDE DEF up
  <2> QED
    BY <1>4, <1>5 DEF MadeKept, Inv, Types
<1>7. HeldKept /\ ExchangeTypes'
  <2>1. HeldKept
    BY SameKeeps DEF Connect, Inv
  <2>2. \A x \in Machine : ExchangeOf(x)'
    BY <1>6, <2>1, SameExchange DEF Connect
  <2> QED
    BY <2>1, <2>2 DEF Connect, ExchangeTypes, Inv, Types
<1>8. Honest(news', held)
  <2> DEFINE first == <<[kind |-> "session"]>>
  <2>1. first \in Seq(Message) /\ first[1] = [kind |-> "session"] /\ DOMAIN first = 1 .. 1
    BY MessageParts
  <2>2. news' = [x \in Machine |-> [news[x] EXCEPT ![n] = first]]
    BY DEF Connect
  <2>3. \A x \in Machine, i \in DOMAIN first : IsHonest(held, x, first[i])
    BY <2>1 DEF IsHonest
  <2> HIDE DEF first
  <2> QED
    BY <1>2, <2>1, <2>2, <2>3 DEF Honest, Made, Inv
<1>9. admits' \in [Machine -> Trusts]
  BY <1>2, OtherMachine DEF Connect, Inv, Types
<1>10. DialingIsOwn' /\ dialing' \in [Machine -> Dial \union {0}]
  BY <1>2, <1>6, DialingKept DEF Connect, Inv
<1> QED
  BY <1>6, <1>7, <1>8, <1>9, <1>10, Assembled DEF Connect, Inv, Types

LEMMA DialFailsStep ==
  ASSUME Inv, NEW n \in Dial, DialFails(n)
  PROVE  Inv'
<1> DEFINE m == dial[n].by
           failed == [stage |-> "failed", by |-> m]
<1>1. dial[n] \in [stage : {"trying"}, by : Machine, pairing : BOOLEAN, known : Trusts]
  <2>1. dial[n] \in Dials /\ dial[n].stage = "trying"
    BY DEF DialFails, Inv, Types
  <2> QED
    BY <2>1 DEF Dials, Unused
<1>2. m \in Machine /\ dial[n] # Unused
  BY <1>1 DEF Unused
<1>3. failed \in Dials /\ failed # Unused /\ failed.by = m
  BY <1>2 DEF Dials, Unused
<1>4. MadeKept
  <2>1. dial' = [dial EXCEPT ![n] = failed]
    BY DEF DialFails
  <2> HIDE DEF failed
  <2> QED
    BY <1>3, <2>1 DEF MadeKept, Inv, Types
<1>5. HeldKept
  BY SameKeeps DEF DialFails, Inv
<1>6. ExchangeTypes'
  <2>1. \A x \in Machine : ExchangeOf(x)'
    BY <1>4, <1>5, SameExchange DEF DialFails
  <2>2. offered' \in [Machine -> Code \union {NoCode}] /\ status' \in [Machine -> Statuses]
    BY DEF DialFails, Statuses, Inv, Types
  <2> QED
    BY <2>1, <2>2 DEF DialFails, ExchangeTypes, Inv, Types
<1>7. admits' \in [Machine -> Trusts]
  BY <1>2, OtherMachine DEF DialFails, AcceptsAgain, Inv, Types
<1>8. DialingIsOwn' /\ dialing' \in [Machine -> Dial \union {0}]
  BY <1>2, <1>4, DialingKept DEF DialFails, Inv
<1>9. Honest(news', held)
  BY DEF DialFails, Inv
<1> QED
  BY <1>4, <1>5, <1>6, <1>7, <1>8, <1>9, Assembled DEF DialFails, Inv, Types

(* A message is taken, and nothing new is sent.                            *)
LEMMA TakenHonest ==
  ASSUME Inv, NEW m \in Machine, NEW n \in Dial, NEW message, Heard(m, n, message)
  PROVE  Honest(After(m, n), held) /\ Made(n)
BY AfterHonest DEF Heard, Inv

LEMMA OnSecondSessionStep ==
  ASSUME Inv, NEW m \in Machine, NEW n \in Dial, OnSecondSession(m, n)
  PROVE  Inv'
<1>1. MadeKept /\ HeldKept
  BY ClosedKeeps, SameKeeps DEF OnSecondSession, Inv
<1>2. ExchangeTypes'
  <2>1. \A x \in Machine : ExchangeOf(x)'
    BY <1>1, SameExchange DEF OnSecondSession
  <2> QED
    BY <2>1 DEF OnSecondSession, ExchangeTypes, Inv, Types
<1>3. Honest(news', held)
  BY TakenHonest DEF OnSecondSession
<1>4. DialingIsOwn' /\ dialing' \in [Machine -> Dial \union {0}]
  BY <1>1, DialingKept DEF OnSecondSession, Inv
<1> QED
  BY <1>1, <1>2, <1>3, <1>4, Assembled DEF OnSecondSession, Inv, Types

(* The exchange of m is replaced by one on connection n.                   *)
LEMMA NewExchange ==
  ASSUME Inv, NEW m \in Machine, NEW n \in Dial, Made(n), MadeKept, HeldKept,
         session' = [session EXCEPT ![m] = n],
         NEW p \in Pendings, pending' = [pending EXCEPT ![m] = p],
         p # NoPairing => /\ p.conn = n
                          /\ p.mine = (dial[n].by = m)
                          /\ p.mine => p.code # NoCode
                          /\ p.code # NoCode => p.code \in held'[n][m]
  PROVE  /\ session' \in [Machine -> Dial \union {0}]
         /\ pending' \in [Machine -> Pendings]
         /\ \A o \in Machine : ExchangeOf(o)'
<1>1. session' \in [Machine -> Dial \union {0}] /\ pending' \in [Machine -> Pendings]
  BY DEF Inv, Types
<1>2. session'[m] = n /\ pending'[m] = p
  BY DEF Inv, Types
<1>3. Made(n)' /\ dial'[n].by = dial[n].by
  BY DEF MadeKept, Made
<1>4. ExchangeOf(m)'
  BY <1>2, <1>3 DEF ExchangeOf, InPairing, Made
<1>5. ASSUME NEW o \in Machine, o # m
      PROVE  session'[o] = session[o] /\ pending'[o] = pending[o]
  BY <1>5 DEF Inv, Types
<1>6. ASSUME NEW o \in Machine, o # m PROVE ExchangeOf(o)'
  BY <1>5, <1>6, ExchangeKept DEF Inv
<1> QED
  BY <1>1, <1>4, <1>6

LEMMA OnTrustedSessionStep ==
  ASSUME Inv, NEW m \in Machine, NEW n \in Dial, OnTrustedSession(m, n)
  PROVE  Inv'
<1>1. MadeKept /\ HeldKept
  BY SameKeeps DEF OnTrustedSession, Inv
<1>2. Honest(news', held) /\ Made(n)
  BY TakenHonest DEF OnTrustedSession
<1>3. pending[m] = NoPairing
  BY DEF OnTrustedSession, Inv, ExchangeOf, InPairing, Dial
<1>4. ExchangeTypes'
  <2>1. NoPairing \in Pendings /\ pending' = [pending EXCEPT ![m] = NoPairing]
    BY <1>3 DEF OnTrustedSession, Pendings, Inv, Types
  <2>2. /\ session' \in [Machine -> Dial \union {0}]
        /\ pending' \in [Machine -> Pendings]
        /\ \A o \in Machine : ExchangeOf(o)'
    BY <1>1, <1>2, <2>1, NewExchange DEF OnTrustedSession
  <2>3. status' \in [Machine -> Statuses]
    BY DEF OnTrustedSession, Statuses, Inv, Types
  <2> QED
    BY <2>2, <2>3 DEF OnTrustedSession, ExchangeTypes, Inv, Types
<1>5. DialingIsOwn' /\ dialing' \in [Machine -> Dial \union {0}]
  BY <1>1, DialingKept DEF OnTrustedSession, Inv
<1> QED
  BY <1>1, <1>2, <1>4, <1>5, Assembled DEF OnTrustedSession, Inv, Types

LEMMA OnPairingSessionStep ==
  ASSUME Inv, NEW m \in Machine, NEW n \in Dial, OnPairingSession(m, n)
  PROVE  Inv'
<1> DEFINE mine == dial[n].by = m
           code == IF mine THEN offered[m] ELSE NoCode
           canGoOn == mine => code # NoCode
           p == [conn |-> n, mine |-> mine, code |-> code]
<1>1. Honest(news', held) /\ Made(n)
  BY TakenHonest DEF OnPairingSession
<1>2. code \in Code \union {NoCode} /\ offered[m] \in Code \union {NoCode} /\ NoCode \notin Code
  BY PairingAssumption DEF Inv, Types, NoCode
<1>3. MadeKept
  BY ClosedKeeps, SameKeeps DEF OnPairingSession, Inv
<1>4. HeldKept
  <2>1. CASE held' = held
    BY <2>1, SameKeeps DEF Inv
  <2>2. CASE mine /\ canGoOn /\ held' = [held EXCEPT ![n][m] = @ \union {code}]
    <3>1. code \in Code
      BY <1>2, <2>2
    <3> HIDE DEF code
    <3> QED
      BY <2>2, <3>1 DEF HeldKept, Inv, Types
  <2> QED
    BY <2>1, <2>2 DEF OnPairingSession
<1>5. /\ session' \in [Machine -> Dial \union {0}]
      /\ pending' \in [Machine -> Pendings]
      /\ \A o \in Machine : ExchangeOf(o)'
  <2>1. CASE canGoOn
    <3>1. session' = [session EXCEPT ![m] = n] /\ pending' = [pending EXCEPT ![m] = p]
      BY <2>1 DEF OnPairingSession
    <3>2. p \in Pendings
      <4> HIDE DEF code
      <4> QED
        BY <1>2 DEF Pendings
    <3>3. code # NoCode => code \in held'[n][m]
      <4>1. ASSUME code # NoCode
            PROVE  held' = [held EXCEPT ![n][m] = @ \union {code}]
        BY <2>1, <4>1 DEF OnPairingSession
      <4> QED
        BY <4>1 DEF Inv, Types
    <3>4. p.conn = n /\ p.mine = mine /\ p.code = code
      OBVIOUS
    <3>5. mine => code # NoCode
      BY <2>1
    <3> HIDE DEF p, code
    <3> QED
      BY <1>1, <1>3, <1>4, <3>1, <3>2, <3>3, <3>4, <3>5, NewExchange
  <2>2. CASE ~canGoOn
    <3>1. UNCHANGED <<session, pending>>
      BY <2>2 DEF OnPairingSession
    <3> QED
      BY <1>3, <1>4, <3>1, SameExchange DEF Inv, Types
  <2> QED
    BY <2>1, <2>2
<1>6. offered' \in [Machine -> Code \union {NoCode}] /\ status' \in [Machine -> Statuses]
  BY DEF OnPairingSession, Statuses, Inv, Types
<1>7. ExchangeTypes'
  BY <1>5, <1>6 DEF OnPairingSession, ExchangeTypes, Inv, Types
<1>8. DialingIsOwn' /\ dialing' \in [Machine -> Dial \union {0}]
  BY <1>3, DialingKept DEF OnPairingSession, Inv
<1> QED
  BY <1>1, <1>3, <1>4, <1>7, <1>8, Assembled DEF OnPairingSession, Inv, Types

LEMMA OnEarlyConfirmStep ==
  ASSUME Inv, NEW m \in Machine, NEW n \in Dial, OnEarlyConfirm(m, n)
  PROVE  Inv'
<1>1. MadeKept /\ HeldKept
  BY SameKeeps DEF OnEarlyConfirm, Inv
<1>2. ExchangeTypes'
  <2>1. \A x \in Machine : ExchangeOf(x)'
    BY <1>1, SameExchange DEF OnEarlyConfirm
  <2> QED
    BY <2>1 DEF OnEarlyConfirm, ExchangeTypes, Inv, Types
<1>3. Honest(news', held)
  BY AfterHonest DEF OnEarlyConfirm, Inv
<1>4. DialingIsOwn' /\ dialing' \in [Machine -> Dial \union {0}]
  BY <1>1, DialingKept DEF OnEarlyConfirm, Listening, Inv
<1> QED
  BY <1>1, <1>2, <1>3, <1>4, Assembled DEF OnEarlyConfirm, Listening, Inv, Types

(* What a machine in an exchange holds, and a proof made from it.          *)
LEMMA OwnProof ==
  ASSUME Inv, NEW m \in Machine, InPairing(m), pending[m].code # NoCode
  PROVE  /\ pending[m].conn \in Dial /\ pending[m].conn = session[m]
         /\ pending[m].code \in Code
         /\ pending[m].code \in held[pending[m].conn][m]
         /\ Proof(pending[m].conn, pending[m].code) \in Message
         /\ IsHonest(held, Other(m), Proof(pending[m].conn, pending[m].code))
<1>1. /\ pending[m].conn \in Dial /\ pending[m].conn = session[m]
      /\ pending[m].code \in Code
      /\ pending[m].code \in held[pending[m].conn][m]
  BY DEF Inv, Types, ExchangeOf, Pendings, InPairing
<1> QED
  BY <1>1, MessageParts, OtherMachine DEF IsHonest, Proof

LEMMA OnPairConfirmStep ==
  ASSUME Inv, NEW m \in Machine, NEW n \in Dial, OnPairConfirm(m, n)
  PROVE  Inv'
<1> DEFINE message == Head(news[m][n])
           p == pending[m]
<1>1. Honest(After(m, n), held)
  BY AfterHonest DEF OnPairConfirm, Inv
<1>2. InPairing(m) /\ p.code # NoCode
  BY DEF OnPairConfirm
<1>3. HeldKept
  BY SameKeeps DEF OnPairConfirm, Inv
<1>4. CASE news' = Sent(After(m, n), m, Answer(p)) /\ Finish(m)
  <2>1. Answer(p) \in Seq(Message) /\ \A i \in DOMAIN Answer(p) : IsHonest(held, Other(m), Answer(p)[i])
    <3>1. CASE p.mine
      BY <1>2, <3>1, OwnProof DEF Answer
    <3>2. CASE ~p.mine
      BY <3>2 DEF Answer
    <3> QED
      BY <3>1, <3>2
  <2>2. Honest(news', held)
    BY <1>1, <1>4, <2>1, SentHonest DEF Inv
  <2>3. MadeKept
    BY <1>4, SameKeeps DEF Finish, Inv
  <2>4. ExchangeTypes'
    <3>1. /\ session' \in [Machine -> Dial \union {0}]
          /\ pending' \in [Machine -> Pendings]
          /\ \A o \in Machine : ExchangeOf(o)'
      BY <1>3, <1>4, <2>3, EndedExchange DEF Finish
    <3>2. /\ offered' \in [Machine -> Code \union {NoCode}]
          /\ trust' \in [Machine -> Trusts] /\ status' \in [Machine -> Statuses]
      BY <1>4 DEF Finish, Trusts, Statuses, Inv, Types
    <3> QED
      BY <3>1, <3>2 DEF ExchangeTypes
  <2>5. DialingIsOwn' /\ dialing' \in [Machine -> Dial \union {0}]
    BY <2>3, DialingKept DEF OnPairConfirm, Listening, Inv
  <2> QED
    BY <1>3, <2>2, <2>3, <2>4, <2>5, Assembled DEF OnPairConfirm, Listening, Inv, Types
<1>5. CASE news' = Sent(After(m, n), m, <<Rejection>>) /\ Abandon(m)
  <2>1. <<Rejection>> \in Seq(Message) /\ \A i \in DOMAIN <<Rejection>> : IsHonest(held, Other(m), <<Rejection>>[i])
    BY MessageParts DEF IsHonest, Rejection
  <2>2. Honest(news', held)
    BY <1>1, <1>5, <2>1, SentHonest DEF Inv
  <2>3. MadeKept /\ ExchangeTypes'
    BY <1>3, <1>5, AbandonKeeps
  <2>4. DialingIsOwn' /\ dialing' \in [Machine -> Dial \union {0}]
    BY <2>3, DialingKept DEF OnPairConfirm, Listening, Inv
  <2> QED
    BY <1>3, <2>2, <2>3, <2>4, Assembled DEF OnPairConfirm, Listening, Inv, Types
<1> QED
  BY <1>4, <1>5 DEF OnPairConfirm

LEMMA OnPairResultStep ==
  ASSUME Inv, NEW m \in Machine, NEW n \in Dial, OnPairResult(m, n)
  PROVE  Inv'
<1>1. HeldKept
  BY SameKeeps DEF OnPairResult, Inv
<1>2. MadeKept /\ ExchangeTypes'
  BY <1>1, AbandonKeeps DEF OnPairResult
<1>3. Honest(news', held)
  BY TakenHonest DEF OnPairResult
<1>4. DialingIsOwn' /\ dialing' \in [Machine -> Dial \union {0}]
  BY <1>2, DialingKept DEF OnPairResult, Listening, Inv
<1> QED
  BY <1>1, <1>2, <1>3, <1>4, Assembled DEF OnPairResult, Listening, Inv, Types

(* The sweep, and a user who gives up.                                     *)
LEMMA GivenUp ==
  ASSUME Inv, NEW m \in Machine, Abandon(m), UNCHANGED <<news, held>>, Listening
  PROVE  Inv'
<1>1. HeldKept
  BY SameKeeps DEF Inv
<1>2. MadeKept /\ ExchangeTypes'
  BY <1>1, AbandonKeeps
<1>3. Honest(news', held)
  BY DEF Inv
<1>4. DialingIsOwn' /\ dialing' \in [Machine -> Dial \union {0}]
  BY <1>2, DialingKept DEF Listening, Inv
<1> QED
  BY <1>1, <1>2, <1>3, <1>4, Assembled DEF Listening, Inv, Types

LEMMA OnPumpGoneStep ==
  ASSUME Inv, NEW m \in Machine, NEW n \in Dial, OnPumpGone(m, n)
  PROVE  Inv'
<1>1. HeldKept
  BY SameKeeps DEF OnPumpGone, Inv
<1>2. MadeKept /\ ExchangeTypes'
  <2>1. CASE session[m] \in {0, n}
    <3>1. PeerGone(m) /\ trust' \in [Machine -> Trusts]
      BY <2>1 DEF OnPumpGone, Inv, Types
    <3> QED
      BY <1>1, <3>1, PeerGoneKeeps
  <2>2. CASE session[m] \notin {0, n}
    <3>1. UNCHANGED <<session, dial, pending, offered, status, trust>>
      BY <2>2 DEF OnPumpGone
    <3>2. MadeKept
      BY <3>1, SameKeeps DEF Inv
    <3>3. \A x \in Machine : ExchangeOf(x)'
      BY <1>1, <3>1, <3>2, SameExchange
    <3> QED
      BY <3>1, <3>2, <3>3 DEF ExchangeTypes, Inv, Types
  <2> QED
    BY <2>1, <2>2
<1>3. Honest(news', held)
  <2>1. <<>> \in Seq(Message) /\ news' = [news EXCEPT ![m][n] = <<>>]
    BY DEF OnPumpGone
  <2> QED
    BY <2>1 DEF Honest, Inv
<1>4. DialingIsOwn' /\ dialing' \in [Machine -> Dial \union {0}]
  BY <1>2, DialingKept DEF OnPumpGone, Inv
<1> QED
  BY <1>1, <1>2, <1>3, <1>4, Assembled DEF OnPumpGone, Inv, Types

LEMMA RedialStep ==
  ASSUME Inv, NEW m \in Machine, Redial(m)
  PROVE  Inv'
<1>1. PICK n \in Dial : StartDial(m, n, FALSE, dial)
  BY DEF Redial
<1>2. Closed(0) = dial
  BY DEF Closed, IsUp
<1>3. MadeKept /\ DialingIsOwn' /\ dialing' \in [Machine -> Dial \union {0}]
  BY <1>1, <1>2, StartDialKeeps DEF Inv
<1>4. HeldKept
  BY SameKeeps DEF Redial, Inv
<1>5. ExchangeTypes'
  <2>1. \A x \in Machine : ExchangeOf(x)'
    BY <1>3, <1>4, SameExchange DEF Redial
  <2>2. status' \in [Machine -> Statuses]
    BY DEF Redial, Statuses, Inv, Types
  <2> QED
    BY <2>1, <2>2 DEF Redial, ExchangeTypes, Inv, Types
<1>6. Honest(news', held)
  BY DEF Redial, Inv
<1> QED
  BY <1>3, <1>4, <1>5, <1>6, Assembled DEF Redial, Inv, Types

LEMMA BeginPairingStep ==
  ASSUME Inv, NEW m \in Machine, BeginPairing(m)
  PROVE  Inv'
<1>1. PICK n \in Dial : StartDial(m, n, TRUE, Closed(session[m]))
  BY DEF BeginPairing
<1>2. session[m] \in Dial \union {0}
  BY DEF Inv, Types
<1>3. MadeKept /\ DialingIsOwn' /\ dialing' \in [Machine -> Dial \union {0}]
  BY <1>1, <1>2, StartDialKeeps DEF Inv
<1>4. HeldKept
  BY SameKeeps DEF BeginPairing, Inv
<1>5. ExchangeTypes'
  <2>1. /\ session' \in [Machine -> Dial \union {0}]
        /\ pending' \in [Machine -> Pendings]
        /\ \A o \in Machine : ExchangeOf(o)'
    BY <1>3, <1>4, EndedExchange DEF BeginPairing
  <2>2. offered' \in [Machine -> Code \union {NoCode}] /\ status' \in [Machine -> Statuses]
    BY DEF BeginPairing, Statuses, Inv, Types
  <2> QED
    BY <2>1, <2>2 DEF BeginPairing, ExchangeTypes, Inv, Types
<1>6. Honest(news', held)
  BY DEF BeginPairing, Inv
<1> QED
  BY <1>3, <1>4, <1>5, <1>6, Assembled DEF BeginPairing, Inv, Types

LEMMA ConfirmPairingStep ==
  ASSUME Inv, NEW m \in Machine, ConfirmPairing(m)
  PROVE  Inv'
<1>1. PICK code \in Code :
        /\ pending' = [pending EXCEPT ![m].code = code]
        /\ Holds(m, pending[m].conn, code)
        /\ news' = Sent(news, m, <<Proof(pending[m].conn, code)>>)
  BY DEF ConfirmPairing
<1> DEFINE n == session[m]
           p == [pending[m] EXCEPT !.code = code]
<1>2. /\ pending[m] \in [conn : Dial, mine : BOOLEAN, code : Code \union {NoCode}]
      /\ pending[m].conn = n /\ n \in Dial
      /\ pending[m].mine = (dial[n].by = m)
  BY DEF ConfirmPairing, Inv, Types, ExchangeOf, Pendings, InPairing
<1>3. p \in Pendings /\ p.conn = n /\ p.code = code /\ p.mine = pending[m].mine /\ code # NoCode
  BY <1>2, PairingAssumption DEF Pendings, NoCode
<1>4. held' = [held EXCEPT ![n][m] = @ \union {code}]
  BY <1>1, <1>2 DEF Holds
<1>5. HeldKept /\ code \in held'[n][m]
  <2> HIDE DEF n
  <2> QED
    BY <1>2, <1>4 DEF HeldKept, Inv, Types
<1>6. MadeKept
  BY SameKeeps DEF ConfirmPairing, Inv
<1>7. /\ session' \in [Machine -> Dial \union {0}]
      /\ pending' \in [Machine -> Pendings]
      /\ \A o \in Machine : ExchangeOf(o)'
  <2>1. session' = [session EXCEPT ![m] = n] /\ pending' = [pending EXCEPT ![m] = p]
    BY <1>1 DEF ConfirmPairing, Inv, Types
  <2>2. Made(n)
    BY <1>2, 0 \notin Dial DEF Inv, ExchangeOf, Dial
  <2> HIDE DEF n, p
  <2> QED
    BY <1>2, <1>3, <1>5, <1>6, <2>1, <2>2, NewExchange
<1>8. Honest(news', held')
  <2> DEFINE proof == Proof(n, code)
  <2>1. proof \in Message /\ proof.conn = n /\ proof.code = code
    BY <1>2, MessageParts DEF Proof
  <2>2. IsHonest(held', Other(m), proof)
    BY <1>5, <2>1, OtherMachine DEF IsHonest
  <2>3. <<proof>> \in Seq(Message) /\ \A i \in DOMAIN <<proof>> : IsHonest(held', Other(m), <<proof>>[i])
    <3> HIDE DEF proof
    <3> QED
      BY <2>1, <2>2
  <2>4. Honest(news, held')
    BY <1>5, MoreHeld DEF Inv
  <2> QED
    BY <1>1, <1>2, <2>3, <2>4, SentHonest DEF Inv
<1>9. Honest(news, held)'
  BY <1>6, <1>8, HonestAgain
<1>10. DialingIsOwn' /\ dialing' \in [Machine -> Dial \union {0}]
  BY <1>6, DialingKept DEF ConfirmPairing, Inv
<1>11. entries' \in 0 .. MaxEntries
  BY PairingAssumption DEF ConfirmPairing, MayEnter, Inv, Types
<1>12. Types'
  BY <1>5, <1>6, <1>7, <1>10, <1>11 DEF ConfirmPairing, HeldKept, MadeKept, Inv, Types
<1> QED
  BY <1>7, <1>9, <1>10, <1>12 DEF Inv

LEMMA ForgetPeerStep ==
  ASSUME Inv, NEW m \in Machine, ForgetPeer(m)
  PROVE  Inv'
<1>1. HeldKept
  BY SameKeeps DEF ForgetPeer, Inv
<1>2. trust' \in [Machine -> Trusts]
  BY DEF ForgetPeer, Trusts, Inv, Types
<1>3. MadeKept /\ ExchangeTypes'
  BY <1>1, <1>2, PeerGoneKeeps DEF ForgetPeer
<1>4. DialingIsOwn' /\ dialing' \in [Machine -> Dial \union {0}]
  BY <1>3, DialingKept DEF ForgetPeer, Inv
<1>5. mishaps' \in 0 .. MaxMishaps
  BY PairingAssumption DEF ForgetPeer, MayFail, Inv, Types
<1>6. Honest(news', held)
  BY DEF ForgetPeer, Inv
<1> QED
  BY <1>1, <1>3, <1>4, <1>5, <1>6, Assembled DEF ForgetPeer, Inv, Types

LEMMA BreakStep ==
  ASSUME Inv, NEW n \in Dial, Break(n)
  PROVE  Inv'
<1>1. HeldKept /\ MadeKept
  BY ClosedKeeps, SameKeeps DEF Break, Inv
<1>2. ExchangeTypes'
  <2>1. \A x \in Machine : ExchangeOf(x)'
    BY <1>1, SameExchange DEF Break
  <2> QED
    BY <2>1 DEF Break, ExchangeTypes, Inv, Types
<1>3. PICK m : m \in Machine
  BY PairingAssumption, FS_EmptySet
<1>4. DialingIsOwn' /\ dialing' \in [Machine -> Dial \union {0}]
  BY <1>1, <1>3, DialingKept DEF Break, Inv
<1>5. mishaps' \in 0 .. MaxMishaps
  BY PairingAssumption DEF Break, MayFail, Inv, Types
<1>6. Honest(news', held)
  BY DEF Break, Inv
<1> QED
  BY <1>1, <1>2, <1>4, <1>5, <1>6, Assembled DEF Break, Inv, Types

LEMMA RestartStep ==
  ASSUME Inv, NEW m \in Machine, Restart(m)
  PROVE  Inv'
<1>1. HeldKept
  BY SameKeeps DEF Restart, Inv
<1>2. MadeKept
  <2> DEFINE after(n) == IF dial[n].stage = "up" THEN [dial[n] EXCEPT !.stage = "down"]
                         ELSE IF dial[n].stage = "trying" /\ dial[n].by = m THEN [stage |-> "failed", by |-> m]
                         ELSE dial[n]
  <2>1. ASSUME NEW n \in Dial
        PROVE  /\ after(n) \in Dials
               /\ dial[n] # Unused => after(n) # Unused /\ after(n).by = dial[n].by
    <3>1. dial[n] \in Dials
      BY DEF Inv, Types
    <3>2. CASE dial[n].stage = "up"
      <4>1. dial[n] \in [stage : {"up", "down"}, by : Machine, pairing : BOOLEAN, paired : [Machine -> BOOLEAN]]
        BY <3>1, <3>2 DEF Dials, Unused
      <4> QED
        BY <3>2, <4>1 DEF Dials, Unused
    <3>3. CASE dial[n].stage = "trying" /\ dial[n].by = m
      BY <3>3 DEF Dials, Unused
    <3>4. CASE dial[n].stage # "up" /\ ~(dial[n].stage = "trying" /\ dial[n].by = m)
      BY <3>1, <3>4
    <3> QED
      BY <3>2, <3>3, <3>4
  <2>2. dial' = [n \in Dial |-> after(n)]
    BY DEF Restart
  <2> HIDE DEF after
  <2> QED
    BY <2>1, <2>2 DEF MadeKept
<1>3. ExchangeTypes'
  <2>1. /\ session' \in [Machine -> Dial \union {0}]
        /\ pending' \in [Machine -> Pendings]
        /\ \A o \in Machine : ExchangeOf(o)'
    BY <1>1, <1>2, EndedExchange DEF Restart
  <2>2. offered' \in [Machine -> Code \union {NoCode}] /\ status' \in [Machine -> Statuses]
    BY DEF Restart, Statuses, Inv, Types
  <2> QED
    BY <2>1, <2>2 DEF Restart, ExchangeTypes, Inv, Types
<1>4. Honest(news', held)
  <2>1. <<>> \in Seq(Message) /\ news' = [news EXCEPT ![m] = [n \in Dial |-> <<>>]]
    BY DEF Restart
  <2> QED
    BY <2>1 DEF Honest, Inv
<1>5. DialingIsOwn' /\ dialing' \in [Machine -> Dial \union {0}]
  BY <1>2, DialingKept DEF Restart, Inv
<1>6. admits' \in [Machine -> Trusts] /\ mishaps' \in 0 .. MaxMishaps
  BY PairingAssumption DEF Restart, MayFail, Inv, Types
<1> QED
  BY <1>1, <1>2, <1>3, <1>4, <1>5, <1>6, Assembled DEF Restart, Inv, Types

-----------------------------------------------------------------------------
LEMMA NextKeeps == Inv /\ [PairingNext]_pairingVars => Inv'
<1> SUFFICES ASSUME Inv, [PairingNext]_pairingVars PROVE Inv'
  OBVIOUS
<1>1. ASSUME NEW m \in Machine, NEW n \in Dial, OnNews(m, n) PROVE Inv'
  BY <1>1, OnSecondSessionStep, OnTrustedSessionStep, OnPairingSessionStep, OnEarlyConfirmStep,
     OnPairConfirmStep, OnPairResultStep, OnPumpGoneStep DEF OnNews
<1>2. ASSUME NEW n \in Dial, DialResolves(n) \/ Break(n) PROVE Inv'
  BY <1>2, ConnectStep, DialFailsStep, BreakStep DEF DialResolves
<1>3. ASSUME NEW m \in Machine, SweepPairing(m) \/ CancelPairing(m) PROVE Inv'
  BY <1>3, GivenUp DEF SweepPairing, CancelPairing
<1>4. ASSUME NEW m \in Machine,
             Redial(m) \/ BeginPairing(m) \/ ConfirmPairing(m) \/ ForgetPeer(m) \/ Restart(m)
      PROVE  Inv'
  BY <1>4, RedialStep, BeginPairingStep, ConfirmPairingStep, ForgetPeerStep, RestartStep
<1>5. CASE UNCHANGED pairingVars
  BY <1>5 DEF pairingVars, Inv, Types, DialingIsOwn, ExchangeOf, InPairing, Honest, Made, IsHonest
<1> QED
  BY <1>1, <1>2, <1>3, <1>4, <1>5 DEF PairingNext

LEMMA InvAlways == PairingSpec => []Inv
BY InitInv, NextKeeps, PTL DEF PairingSpec

(* What is on record as an exchange is on the session in use and was       *)
(* opened by the machine that dialled it, whatever is replaced, repeated,  *)
(* given up, lost or restarted: PairingTypeOK.                             *)
THEOREM PairingTypeCorrect == PairingSpec => []PairingTypeOK
BY InvAlways, InvGivesTypeOK, PTL

(* Trust comes only from finish_pairing, after a right proof.              *)
LEMMA WhereTrustComesFrom ==
  ASSUME Inv, PairingNext, NEW m \in Machine, trust[m] # "paired", trust'[m] = "paired"
  PROVE  \E n \in Dial : OnPairConfirm(m, n) /\ Accepts(pending[m], Head(news[m][n]))
<1>1. trust' # trust
  OBVIOUS
<1>2. CASE \E n \in Dial : DialResolves(n) \/ Break(n)
  BY <1>1, <1>2 DEF DialResolves, Connect, DialFails, Break
<1>3. ASSUME NEW o \in Machine,
             \/ SweepPairing(o) \/ Redial(o) \/ BeginPairing(o) \/ ConfirmPairing(o)
             \/ CancelPairing(o) \/ Restart(o)
      PROVE  FALSE
  BY <1>1, <1>3 DEF SweepPairing, Redial, BeginPairing, ConfirmPairing, CancelPairing, Restart, Abandon
<1>4. ASSUME NEW o \in Machine, ForgetPeer(o) PROVE FALSE
  <2>1. PICK known \in {"stranger", "blocked"} : trust' = [trust EXCEPT ![o] = known]
    BY <1>4 DEF ForgetPeer
  <2> QED
    BY <2>1 DEF Inv, Types
<1>5. ASSUME NEW o \in Machine, NEW n \in Dial, OnNews(o, n)
      PROVE  o = m /\ OnPairConfirm(m, n) /\ Accepts(pending[m], Head(news[m][n]))
  <2>1. OnPairConfirm(o, n)
    BY <1>1, <1>5 DEF OnNews, OnSecondSession, OnTrustedSession, OnPairingSession, OnEarlyConfirm,
                      OnPairResult, OnPumpGone, Abandon
  <2>2. Accepts(pending[o], Head(news[o][n])) /\ trust' = [trust EXCEPT ![o] = "paired"]
    BY <1>1, <2>1 DEF OnPairConfirm, Finish, Abandon
  <2>3. o = m
    BY <2>2 DEF Inv, Types
  <2> QED
    BY <2>1, <2>2, <2>3
<1> QED
  BY <1>2, <1>3, <1>4, <1>5 DEF PairingNext

(* A machine comes to trust the other only on a session on which both have *)
(* held one and the same code: TrustIsEarned.  The proof it accepts is for *)
(* the exchange it is in, hence for its session and for a code it has      *)
(* held; and proofs in queues are honest.                                  *)
THEOREM PairingTrustEarned == PairingSpec => TrustIsEarned
<1>1. ASSUME Inv, [PairingNext]_pairingVars, NEW m \in Machine,
             trust[m] # "paired", trust'[m] = "paired"
      PROVE  \E n \in Dial : n = session[m] /\ held[n][m] \intersect held[n][Other(m)] # {}
  <2>1. PairingNext
    BY <1>1 DEF pairingVars
  <2>2. PICK k \in Dial : OnPairConfirm(m, k) /\ Accepts(pending[m], Head(news[m][k]))
    BY <1>1, <2>1, WhereTrustComesFrom
  <2> DEFINE n == session[m]
             code == pending[m].code
  <2>3. n \in Dial /\ pending[m].conn = n /\ code \in held[n][m]
    BY <1>1, <2>2, OwnProof DEF OnPairConfirm
  <2>4. IsHonest(held, m, Head(news[m][k]))
    BY <1>1, <2>2, AfterHonest DEF OnPairConfirm, Inv
  <2>5. code \in held[n][Other(m)]
    BY <2>2, <2>3, <2>4 DEF IsHonest, Accepts, Proof
  <2> QED
    BY <2>3, <2>5
<1>2. Inv /\ [PairingNext]_pairingVars =>
        [\A m \in Machine :
           trust[m] # "paired" /\ trust'[m] = "paired" =>
             \E n \in Dial :
               /\ n = session[m]
               /\ held[n][m] \intersect held[n][Other(m)] # {}]_pairingVars
  BY <1>1
<1> QED
  BY <1>2, InvAlways, PTL DEF PairingSpec, TrustIsEarned

-----------------------------------------------------------------------------
(* What could end before a step can end after it.                          *)

Connected(n) == dial[n].stage \in {"up", "down"}

NewsOnConnections == \A m \in Machine, n \in Dial : news[m][n] # <<>> => Connected(n)

(* on_session takes note that the dial is over, and nobody dials over a    *)
(* session.                                                                *)
Answered(m) == session[m] # 0 => dialing[m] = 0

(* A session without an exchange is with a machine that is trusted, or was *)
(* taken for one.                                                          *)
Judged(m) ==
  session[m] # 0 /\ trust[m] # "paired" =>
    InPairing(m) \/ (Connected(session[m]) /\ dial[session[m]].paired[m])

EndInv == Inv /\ NewsOnConnections /\ \A m \in Machine : Answered(m) /\ Judged(m)

(* What a step owes to machine x.                                          *)
EndsKept(x) == (CodeCanEnd(x) => CodeCanEnd(x)') /\ (SessionCanEnd(x) => SessionCanEnd(x)')
Lasts(x) == Answered(x)' /\ Judged(x)' /\ (TakesForPaired(x) \/ EndsKept(x))

(* Connections stay connections, and what they were made for.              *)
ConnectionsKept ==
  \A n \in Dial : Connected(n) => Connected(n)' /\ dial'[n].paired = dial[n].paired

(* A dial that is out stays out.                                           *)
Settled(n) ==
  /\ dial'[n].pairing = dial[n].pairing
  /\ dial[n].stage = "trying" => dial'[n].stage = "trying"

SessionNews == [kind |-> "session"]

LEMMA ClosedSettles ==
  ASSUME Types, NEW n \in Dial \union {0}, dial' = Closed(n)
  PROVE  ConnectionsKept /\ \A k \in Dial : Settled(k)
<1>1. CASE ~IsUp(n)
  BY <1>1 DEF Closed, ConnectionsKept, Connected, Settled
<1>2. CASE IsUp(n)
  <2>1. n \in Dial /\ dial[n].stage = "up" /\ dial \in [Dial -> Dials]
    BY <1>2 DEF IsUp, Types
  <2> DEFINE down == [dial[n] EXCEPT !.stage = "down"]
  <2>2. dial[n] \in [stage : {"up", "down"}, by : Machine, pairing : BOOLEAN, paired : [Machine -> BOOLEAN]]
    BY <2>1 DEF Dials, Unused
  <2>3. down.stage = "down" /\ down.pairing = dial[n].pairing /\ down.paired = dial[n].paired
    BY <2>2
  <2>4. dial' = [dial EXCEPT ![n] = down]
    BY <1>2 DEF Closed
  <2> HIDE DEF down
  <2> QED
    BY <2>1, <2>3, <2>4 DEF ConnectionsKept, Connected, Settled
<1> QED
  BY <1>1, <1>2

LEMMA SameSettles ==
  ASSUME dial' = dial
  PROVE  ConnectionsKept /\ \A k \in Dial : Settled(k)
BY DEF ConnectionsKept, Connected, Settled

LEMMA NewsKept ==
  ASSUME NewsOnConnections, ConnectionsKept,
         \A m \in Machine, n \in Dial : news'[m][n] # <<>> => news[m][n] # <<>> \/ Connected(n)
  PROVE  NewsOnConnections'
BY DEF NewsOnConnections, ConnectionsKept

LEMMA UnderWayKept ==
  ASSUME Inv, NEW x \in Machine, DialUnderWay(x), Settled(dialing[x]), dialing'[x] = dialing[x],
         Heard(x, dialing[x], SessionNews) => Heard(x, dialing[x], SessionNews)'
  PROVE  DialUnderWay(x)'
BY DEF DialUnderWay, Settled, SessionNews

LEMMA LastsIf ==
  ASSUME EndInv, ConnectionsKept, NEW x \in Machine,
         CodeCanEnd(x) => CodeCanEnd(x)',
         session'[x] # 0 => dialing'[x] = 0,
         session'[x] # 0 /\ trust'[x] # "paired"
           => \/ InPairing(x)'
              \/ session'[x] = session[x] /\ trust[x] # "paired" /\ pending'[x] = pending[x]
  PROVE  Lasts(x)
<1>1. session[x] # 0 /\ trust[x] # "paired" => InPairing(x) \/ (Connected(session[x]) /\ dial[session[x]].paired[x])
  BY DEF EndInv, Judged
<1>2. session[x] \in Dial \union {0}
  BY DEF EndInv, Inv, Types
<1>3. Judged(x)'
  <2> SUFFICES ASSUME session'[x] # 0, trust'[x] # "paired", ~InPairing(x)'
               PROVE  dial'[session'[x]].stage \in {"up", "down"} /\ dial'[session'[x]].paired[x]
    BY DEF Judged, Connected
  <2>1. session'[x] = session[x] /\ trust[x] # "paired" /\ ~InPairing(x) /\ session[x] \in Dial
    BY <1>2 DEF InPairing
  <2>2. Connected(session[x]) /\ dial[session[x]].paired[x]
    BY <1>1, <2>1
  <2>3. dial'[session[x]].stage \in {"up", "down"} /\ dial'[session[x]].paired[x]
    BY <2>1, <2>2 DEF ConnectionsKept, Connected
  <2> QED
    BY <2>1, <2>3
<1>4. SessionCanEnd(x) => SessionCanEnd(x)'
  BY DEF SessionCanEnd, InPairing
<1> QED
  BY <1>3, <1>4 DEF Lasts, EndsKept, Answered

(* A machine whose records a step leaves alone, and whose news at most     *)
(* grow.                                                                   *)
LEMMA BystanderLasts ==
  ASSUME EndInv, ConnectionsKept, NEW x \in Machine,
         offered'[x] = offered[x], pending'[x] = pending[x], session'[x] = session[x],
         trust'[x] = trust[x], dialing'[x] = dialing[x],
         dialing[x] # 0 => Settled(dialing[x]),
         \A n \in Dial : Heard(x, n, SessionNews) => Heard(x, n, SessionNews)'
  PROVE  Lasts(x)
<1>1. DialUnderWay(x) => DialUnderWay(x)'
  <2> SUFFICES ASSUME DialUnderWay(x) PROVE DialUnderWay(x)'
    OBVIOUS
  <2>1. dialing[x] # 0 /\ dialing[x] \in Dial
    BY DEF DialUnderWay, EndInv, Inv, Types
  <2> QED
    BY <2>1, UnderWayKept DEF EndInv
<1>2. CodeCanEnd(x) => CodeCanEnd(x)'
  BY <1>1 DEF CodeCanEnd, InPairing
<1>3. session'[x] # 0 => dialing'[x] = 0
  BY DEF EndInv, Answered
<1> QED
  BY <1>2, <1>3, LastsIf

LEMMA AfterNews ==
  ASSUME Honest(news, held), NEW m \in Machine, NEW n \in Dial, news[m][n] # <<>>
  PROVE  /\ \A x \in Machine, k \in Dial : After(m, n)[x][k] # <<>> => news[x][k] # <<>>
         /\ \A x \in Machine, k \in Dial : x # m \/ k # n => After(m, n)[x][k] = news[x][k]
BY DEF After, Honest

LEMMA SentNews ==
  ASSUME Types, NEW queue, NEW known, Honest(queue, known), NEW m \in Machine,
         NEW messages \in Seq(Message)
  PROVE  \A x \in Machine, n \in Dial :
           /\ Sent(queue, m, messages)[x][n] # <<>> => queue[x][n] # <<>> \/ Connected(n)
           /\ queue[x][n] # <<>> => /\ Sent(queue, m, messages)[x][n] # <<>>
                                    /\ Head(Sent(queue, m, messages)[x][n]) = Head(queue[x][n])
<1>1. CASE ~IsUp(session[m])
  BY <1>1 DEF Sent
<1>2. CASE IsUp(session[m])
  <2> DEFINE o == Other(m)
             k == session[m]
             q == queue[o][k] \o messages
  <2>1. o \in Machine /\ k \in Dial /\ Connected(k)
    BY <1>2, OtherMachine DEF IsUp, Types, Connected
  <2>2. queue[o][k] \in Seq(Message)
    BY <2>1 DEF Honest
  <2>3. queue[o][k] # <<>> => q # <<>> /\ Head(q) = Head(queue[o][k])
    <3> HIDE DEF o, k
    <3> QED
      BY <2>2, ConcatProperties, LenProperties
  <2>4. Sent(queue, m, messages) = [queue EXCEPT ![o][k] = q]
    BY <1>2 DEF Sent
  <2>5. ASSUME NEW x \in Machine, NEW n \in Dial
        PROVE  Sent(queue, m, messages)[x][n] = IF x = o /\ n = k THEN q ELSE queue[x][n]
    <3> HIDE DEF o, k, q
    <3> QED
      BY <2>1, <2>4 DEF Honest
  <2> HIDE DEF o, k, q
  <2> QED
    BY <2>1, <2>3, <2>5
<1> QED
  BY <1>1, <1>2

LEMMA ConnectEnds ==
  ASSUME EndInv, NEW n \in Dial, Connect(n)
  PROVE  NewsOnConnections' /\ \A x \in Machine : Lasts(x)
<1> DEFINE first == <<SessionNews>>
<1>1. /\ dial[n].stage = "trying" /\ dial'[n].stage = "up" /\ dial'[n].pairing = dial[n].pairing
      /\ \A k \in Dial : k # n => dial'[k] = dial[k]
  BY DEF Connect, EndInv, Inv, Types
<1>2. ConnectionsKept /\ Connected(n)'
  BY <1>1 DEF ConnectionsKept, Connected
<1>3. \A x \in Machine, k \in Dial : news'[x][k] = IF k = n THEN first ELSE news[x][k]
  BY DEF Connect, SessionNews, EndInv, Inv, Honest
<1>4. first # <<>> /\ Head(first) = SessionNews
  OBVIOUS
<1>5. NewsOnConnections'
  BY <1>2, <1>3 DEF NewsOnConnections, ConnectionsKept, EndInv
<1>7. ASSUME NEW x \in Machine PROVE Lasts(x)
  <2> HIDE DEF first
  <2>1. UNCHANGED <<trust, session, pending, offered, dialing>>
    BY DEF Connect
  <2>2. DialUnderWay(x) => DialUnderWay(x)'
    <3> SUFFICES ASSUME DialUnderWay(x) PROVE DialUnderWay(x)'
      OBVIOUS
    <3>1. dialing[x] \in Dial
      BY DEF DialUnderWay, EndInv, Inv, Types
    <3>2. CASE dialing[x] = n
      BY <1>1, <1>3, <1>4, <2>1, <3>1, <3>2 DEF DialUnderWay, Heard, SessionNews
    <3>3. CASE dialing[x] # n
      BY <1>1, <1>3, <2>1, <3>1, <3>3 DEF DialUnderWay, Heard
    <3> QED
      BY <3>2, <3>3
  <2>4. CodeCanEnd(x) => CodeCanEnd(x)'
    BY <2>1, <2>2 DEF CodeCanEnd, InPairing
  <2>5. session'[x] # 0 => dialing'[x] = 0
    BY <2>1 DEF EndInv, Answered
  <2> QED
    BY <1>2, <2>1, <2>4, <2>5, LastsIf
<1> QED
  BY <1>5, <1>7

LEMMA DialFailsEnds ==
  ASSUME EndInv, NEW n \in Dial, DialFails(n)
  PROVE  NewsOnConnections' /\ \A x \in Machine : Lasts(x)
<1> DEFINE m == dial[n].by
<1>1. dial[n].stage = "trying" /\ \A k \in Dial : k # n => dial'[k] = dial[k]
  BY DEF DialFails, EndInv, Inv, Types
<1>2. ConnectionsKept
  BY <1>1 DEF ConnectionsKept, Connected
<1>3. NewsOnConnections'
  BY <1>2, NewsKept DEF DialFails, EndInv
<1>4. \A x \in Machine : offered'[x] \in {NoCode, offered[x]}
  BY DEF DialFails, EndInv, Inv, Types
<1>6. ASSUME NEW x \in Machine PROVE Lasts(x)
  <2>1. UNCHANGED <<trust, session, pending, news>>
    BY DEF DialFails
  <2>2. offered'[x] # NoCode /\ DialUnderWay(x) => DialUnderWay(x)'
    <3> SUFFICES ASSUME offered'[x] # NoCode, DialUnderWay(x) PROVE DialUnderWay(x)'
      OBVIOUS
    <3>1. dialing[x] \in Dial /\ dialing[x] # 0
      BY DEF DialUnderWay, EndInv, Inv, Types
    <3>2. dialing[x] # n
      <4> SUFFICES ASSUME dialing[x] = n PROVE FALSE
        OBVIOUS
      <4>1. m = x /\ dial[n].pairing
        BY <3>1 DEF DialUnderWay, EndInv, Inv, DialingIsOwn
      <4>2. offered' = [offered EXCEPT ![x] = NoCode]
        BY <4>1 DEF DialFails
      <4> QED
        BY <4>2 DEF EndInv, Inv, Types
    <3>3. dialing'[x] = dialing[x]
      BY <3>2 DEF DialFails, EndInv, Inv, Types
    <3> QED
      BY <1>1, <2>1, <3>1, <3>2, <3>3 DEF DialUnderWay, Heard
  <2>3. dialing'[x] \in {0, dialing[x]}
    BY DEF DialFails, EndInv, Inv, Types
  <2>4. CodeCanEnd(x) => CodeCanEnd(x)'
    BY <1>4, <2>1, <2>2 DEF CodeCanEnd, InPairing
  <2>5. session'[x] # 0 => dialing'[x] = 0
    BY <2>1, <2>3 DEF EndInv, Answered
  <2> QED
    BY <1>2, <2>1, <2>4, <2>5, LastsIf
<1> QED
  BY <1>3, <1>6

LEMMA OnSecondSessionEnds ==
  ASSUME EndInv, NEW m \in Machine, NEW n \in Dial, OnSecondSession(m, n)
  PROVE  NewsOnConnections' /\ \A x \in Machine : Lasts(x)
<1>1. ConnectionsKept /\ \A k \in Dial : Settled(k)
  BY ClosedSettles DEF OnSecondSession, EndInv, Inv
<1>2. /\ news[m][n] # <<>> /\ news' = After(m, n) /\ dialing' = [dialing EXCEPT ![m] = 0]
      /\ UNCHANGED <<trust, session, pending, offered>>
  BY DEF OnSecondSession, Heard
<1>3. NewsOnConnections'
  BY <1>1, <1>2, AfterNews, NewsKept DEF EndInv, Inv
<1>5. ASSUME NEW x \in Machine PROVE Lasts(x)
  <2>1. CASE x = m
    <3>1. session[m] # 0
      BY DEF OnSecondSession
    <3>2. ~DialUnderWay(m)
      BY <3>1 DEF DialUnderWay, EndInv, Answered
    <3>3. CodeCanEnd(m) => CodeCanEnd(m)'
      BY <1>2, <3>2 DEF CodeCanEnd, InPairing
    <3>4. dialing'[m] = 0
      BY <1>2 DEF EndInv, Inv, Types
    <3> QED
      BY <1>1, <1>2, <2>1, <3>3, <3>4, LastsIf
  <2>2. CASE x # m
    <3>1. dialing'[x] = dialing[x] /\ (dialing[x] # 0 => Settled(dialing[x]))
      BY <1>1, <1>2, <2>2 DEF EndInv, Inv, Types
    <3>2. \A k \in Dial : Heard(x, k, SessionNews) => Heard(x, k, SessionNews)'
      BY <1>2, <2>2, AfterNews DEF Heard, EndInv, Inv
    <3> QED
      BY <1>1, <1>2, <3>1, <3>2, BystanderLasts
  <2> QED
    BY <2>1, <2>2
<1> QED
  BY <1>3, <1>5

LEMMA OnTrustedSessionEnds ==
  ASSUME EndInv, NEW m \in Machine, NEW n \in Dial, OnTrustedSession(m, n)
  PROVE  NewsOnConnections' /\ \A x \in Machine : Lasts(x)
<1>1. ConnectionsKept /\ \A k \in Dial : Settled(k)
  BY SameSettles DEF OnTrustedSession
<1>2. /\ news[m][n] # <<>> /\ news' = After(m, n) /\ dialing' = [dialing EXCEPT ![m] = 0]
      /\ session' = [session EXCEPT ![m] = n] /\ UNCHANGED <<trust, pending, offered, dial>>
  BY DEF OnTrustedSession, Heard
<1>3. NewsOnConnections'
  BY <1>1, <1>2, AfterNews, NewsKept DEF EndInv, Inv
<1>5. TakesForPaired(m) /\ Answered(m)' /\ Judged(m)'
  <2>1. Connected(n) /\ dial[n].paired[m]
    BY <1>2 DEF OnTrustedSession, EndInv, NewsOnConnections
  <2> QED
    <3>1. session[m] = 0 /\ session'[m] = n /\ n # 0 /\ dialing'[m] = 0
      BY <1>2 DEF OnTrustedSession, EndInv, Inv, Types, Dial
    <3> QED
      BY <1>2, <2>1, <3>1 DEF TakesForPaired, Answered, Judged, Connected
<1>6. ASSUME NEW x \in Machine PROVE Lasts(x)
  <2>1. CASE x = m
    BY <1>5, <2>1 DEF Lasts
  <2>2. CASE x # m
    <3>1. dialing'[x] = dialing[x] /\ session'[x] = session[x] /\ (dialing[x] # 0 => Settled(dialing[x]))
      BY <1>1, <1>2, <2>2 DEF EndInv, Inv, Types
    <3>2. \A k \in Dial : Heard(x, k, SessionNews) => Heard(x, k, SessionNews)'
      BY <1>2, <2>2, AfterNews DEF Heard, EndInv, Inv
    <3> QED
      BY <1>1, <1>2, <3>1, <3>2, BystanderLasts
  <2> QED
    BY <2>1, <2>2
<1> QED
  BY <1>3, <1>6

LEMMA OnPairingSessionEnds ==
  ASSUME EndInv, NEW m \in Machine, NEW n \in Dial, OnPairingSession(m, n)
  PROVE  NewsOnConnections' /\ \A x \in Machine : Lasts(x)
<1> DEFINE mine == dial[n].by = m
           code == IF mine THEN offered[m] ELSE NoCode
           canGoOn == mine => code # NoCode
           p == [conn |-> n, mine |-> mine, code |-> code]
<1>1. ConnectionsKept /\ \A k \in Dial : Settled(k)
  BY ClosedSettles, SameSettles DEF OnPairingSession, EndInv, Inv
<1>2. /\ news[m][n] # <<>> /\ news' = After(m, n) /\ dialing' = [dialing EXCEPT ![m] = 0]
      /\ offered' = (IF mine THEN [offered EXCEPT ![m] = NoCode] ELSE offered) /\ trust' = trust
      /\ canGoOn => session' = [session EXCEPT ![m] = n] /\ pending' = [pending EXCEPT ![m] = p]
      /\ ~canGoOn => UNCHANGED <<session, pending>>
  BY DEF OnPairingSession, Heard
<1>3. NewsOnConnections'
  BY <1>1, <1>2, AfterNews, NewsKept DEF EndInv, Inv
<1>4. \A x \in Machine : offered'[x] \in {NoCode, offered[x]} /\ (x # m => offered'[x] = offered[x])
  BY <1>2 DEF EndInv, Inv, Types
<1>7. dialing'[m] = 0
  BY <1>2 DEF EndInv, Inv, Types
<1>6. ASSUME NEW x \in Machine PROVE Lasts(x)
  <2>1. CASE x = m /\ canGoOn
    <3>1. pending'[m] = p
      BY <1>2, <2>1 DEF EndInv, Inv, Types
    <3>2. p # NoPairing
      <4>1. p.conn # NoPairing.conn
        BY DEF NoPairing, Dial
      <4> QED
        BY <4>1
    <3>3. InPairing(m)'
      BY <3>1, <3>2 DEF InPairing
    <3> QED
      BY <1>1, <1>7, <2>1, <3>3, LastsIf DEF CodeCanEnd
  <2>2. CASE x = m /\ ~canGoOn
    <3>1. offered'[m] = NoCode
      BY <1>2, <2>2 DEF EndInv, Inv, Types
    <3>2. session'[m] = session[m] /\ pending'[m] = pending[m]
      BY <1>2, <2>2
    <3> QED
      BY <1>1, <1>2, <1>7, <2>2, <3>1, <3>2, LastsIf DEF CodeCanEnd
  <2>3. CASE x # m
    <3>1. /\ dialing'[x] = dialing[x] /\ session'[x] = session[x] /\ pending'[x] = pending[x]
          /\ dialing[x] # 0 => Settled(dialing[x])
      BY <1>1, <1>2, <2>3 DEF EndInv, Inv, Types
    <3>2. \A k \in Dial : Heard(x, k, SessionNews) => Heard(x, k, SessionNews)'
      BY <1>2, <2>3, AfterNews DEF Heard, EndInv, Inv
    <3> QED
      BY <1>1, <1>2, <1>4, <2>3, <3>1, <3>2, BystanderLasts
  <2> QED
    BY <2>1, <2>2, <2>3
<1> QED
  BY <1>3, <1>6

LEMMA OnEarlyConfirmEnds ==
  ASSUME EndInv, NEW m \in Machine, NEW n \in Dial, OnEarlyConfirm(m, n)
  PROVE  NewsOnConnections' /\ \A x \in Machine : Lasts(x)
<1>1. /\ news[m][n] # <<>> /\ Head(news[m][n]).kind = "confirm" /\ news' = After(m, n)
      /\ UNCHANGED <<trust, session, pending, offered, dial, dialing>>
  BY DEF OnEarlyConfirm, Listening
<1>2. ConnectionsKept /\ \A k \in Dial : Settled(k)
  BY <1>1, SameSettles
<1>3. NewsOnConnections'
  BY <1>1, <1>2, AfterNews, NewsKept DEF EndInv, Inv
<1>5. ASSUME NEW x \in Machine PROVE Lasts(x)
  <2>1. ASSUME NEW k \in Dial, Heard(x, k, SessionNews)
        PROVE  Heard(x, k, SessionNews)'
    <3>1. x # m \/ k # n
      BY <1>1, <2>1 DEF Heard, SessionNews
    <3> QED
      BY <1>1, <2>1, <3>1, AfterNews DEF Heard, EndInv, Inv
  <2>2. dialing[x] # 0 => Settled(dialing[x])
    BY <1>2 DEF EndInv, Inv, Types
  <2> QED
    BY <1>1, <1>2, <2>1, <2>2, BystanderLasts
<1> QED
  BY <1>3, <1>5

(* The news of everybody but m are what they were, or begin as they did.   *)
OthersStillHear(m) ==
  \A x \in Machine, k \in Dial :
    x # m /\ Heard(x, k, SessionNews) => Heard(x, k, SessionNews)'

LEMMA AbandonEnds ==
  ASSUME EndInv, NEW m \in Machine, Abandon(m), dialing' = dialing, OthersStillHear(m)
  PROVE  ConnectionsKept /\ \A x \in Machine : Lasts(x)
<1>1. ConnectionsKept /\ \A k \in Dial : Settled(k)
  <2>1. session[m] \in Dial \union {0}
    BY DEF EndInv, Inv, Types
  <2> QED
    BY <2>1, ClosedSettles, SameSettles DEF Abandon, EndInv, Inv
<1>2. /\ trust' = trust
      /\ offered' = [offered EXCEPT ![m] = NoCode]
      /\ pending' = [pending EXCEPT ![m] = NoPairing]
      /\ session' = (IF Reachable(m) THEN session ELSE [session EXCEPT ![m] = 0])
  BY DEF Abandon
<1>4. ASSUME NEW x \in Machine PROVE Lasts(x)
  <2>1. CASE x = m
    <3>1. offered'[m] = NoCode
      BY <1>2 DEF EndInv, Inv, Types
    <3>3. session'[m] # 0 => dialing'[m] = 0
      BY <1>2 DEF EndInv, Inv, Types, Answered
    <3>2. session'[m] # 0 => trust'[m] = "paired"
      BY <1>2 DEF Reachable, EndInv, Inv, Types
    <3> QED
      BY <1>1, <2>1, <3>1, <3>2, <3>3, LastsIf DEF CodeCanEnd
  <2>2. CASE x # m
    <3>1. /\ offered'[x] = offered[x] /\ pending'[x] = pending[x] /\ session'[x] = session[x]
          /\ dialing[x] # 0 => Settled(dialing[x])
      BY <1>1, <1>2, <2>2 DEF EndInv, Inv, Types
    <3> QED
      BY <1>1, <1>2, <2>2, <3>1, BystanderLasts DEF OthersStillHear
  <2> QED
    BY <2>1, <2>2
<1> QED
  BY <1>1, <1>4

LEMMA OnPairConfirmEnds ==
  ASSUME EndInv, NEW m \in Machine, NEW n \in Dial, OnPairConfirm(m, n)
  PROVE  NewsOnConnections' /\ \A x \in Machine : Lasts(x)
<1>1. PICK messages \in Seq(Message) :
        /\ news' = Sent(After(m, n), m, messages)
        /\ Finish(m) \/ Abandon(m)
  <2>1. Answer(pending[m]) \in Seq(Message)
    <3>1. InPairing(m) /\ pending[m].code # NoCode
      BY DEF OnPairConfirm
    <3> QED
      BY <3>1, OwnProof DEF Answer, EndInv
  <2>2. <<Rejection>> \in Seq(Message)
    BY MessageParts
  <2> QED
    BY <2>1, <2>2 DEF OnPairConfirm
<1>2. Honest(After(m, n), held) /\ news[m][n] # <<>>
  BY AfterHonest DEF OnPairConfirm, EndInv, Inv
<1>3. \A x \in Machine, k \in Dial :
        /\ news'[x][k] # <<>> => news[x][k] # <<>> \/ Connected(k)
        /\ x # m /\ news[x][k] # <<>> => news'[x][k] # <<>> /\ Head(news'[x][k]) = Head(news[x][k])
  BY <1>1, <1>2, AfterNews, SentNews DEF EndInv, Inv
<1>4. OthersStillHear(m)
  BY <1>3 DEF OthersStillHear, Heard
<1>5. dialing' = dialing
  BY DEF OnPairConfirm, Listening
<1>6. CASE Abandon(m)
  BY <1>3, <1>4, <1>5, <1>6, AbandonEnds, NewsKept DEF EndInv
<1>7. CASE Finish(m)
  <2>1. ConnectionsKept /\ \A k \in Dial : Settled(k)
    BY <1>7, SameSettles DEF Finish
  <2>2. \A x \in Machine :
          IF x = m THEN offered'[x] = NoCode /\ trust'[x] = "paired"
          ELSE /\ offered'[x] = offered[x] /\ trust'[x] = trust[x] /\ pending'[x] = pending[x]
               /\ session'[x] = session[x]
    BY <1>7 DEF Finish, EndInv, Inv, Types
  <2>4. ASSUME NEW x \in Machine PROVE Lasts(x)
    <3>1. CASE x = m
      <4>1. session'[m] # 0 => dialing'[m] = 0
        BY <1>5, <1>7 DEF Finish, EndInv, Answered
      <4> QED
        BY <2>1, <2>2, <3>1, <4>1, LastsIf DEF CodeCanEnd
    <3>2. CASE x # m
      <4>1. dialing[x] # 0 => Settled(dialing[x])
        BY <2>1 DEF EndInv, Inv, Types
      <4> QED
        BY <1>4, <1>5, <2>1, <2>2, <3>2, <4>1, BystanderLasts DEF OthersStillHear
    <3> QED
      BY <3>1, <3>2
  <2> QED
    BY <1>3, <2>1, <2>4, NewsKept DEF EndInv
<1> QED
  BY <1>1, <1>6, <1>7

LEMMA OnPairResultEnds ==
  ASSUME EndInv, NEW m \in Machine, NEW n \in Dial, OnPairResult(m, n)
  PROVE  NewsOnConnections' /\ \A x \in Machine : Lasts(x)
<1>1. news[m][n] # <<>> /\ news' = After(m, n) /\ Abandon(m) /\ dialing' = dialing
  BY DEF OnPairResult, Heard, Listening
<1>2. OthersStillHear(m)
  BY <1>1, AfterNews DEF OthersStillHear, Heard, EndInv, Inv
<1>3. ConnectionsKept /\ \A x \in Machine : Lasts(x)
  BY <1>1, <1>2, AbandonEnds
<1>4. NewsOnConnections'
  BY <1>1, <1>3, AfterNews, NewsKept DEF EndInv, Inv
<1> QED
  BY <1>3, <1>4

LEMMA GivenUpEnds ==
  ASSUME EndInv, NEW m \in Machine, Abandon(m), UNCHANGED <<news, held>>, Listening
  PROVE  NewsOnConnections' /\ \A x \in Machine : Lasts(x)
<1>1. OthersStillHear(m)
  BY DEF OthersStillHear, Heard
<1>2. ConnectionsKept /\ \A x \in Machine : Lasts(x)
  BY <1>1, AbandonEnds DEF Listening
<1>3. NewsOnConnections'
  BY <1>2, NewsKept DEF EndInv
<1> QED
  BY <1>2, <1>3

(* on_peer_gone leaves a code only to a dial that is still to come.        *)
LEMMA PeerGoneEnds ==
  ASSUME EndInv, NEW m \in Machine, PeerGone(m), dialing' = dialing, OthersStillHear(m),
         \A x \in Machine : trust'[x] = trust[x] \/ (x = m /\ trust'[x] # "paired"),
         DialUnderWay(m) /\ Heard(m, dialing[m], SessionNews)
           => Heard(m, dialing[m], SessionNews)'
  PROVE  ConnectionsKept /\ \A x \in Machine : Lasts(x)
<1>1. ConnectionsKept /\ \A k \in Dial : Settled(k)
  <2>1. session[m] \in Dial \union {0}
    BY DEF EndInv, Inv, Types
  <2> QED
    BY <2>1, ClosedSettles DEF PeerGone, EndInv, Inv
<1>2. /\ offered' = [offered EXCEPT ![m] = IF InPairing(m) THEN NoCode ELSE @]
      /\ pending' = [pending EXCEPT ![m] = NoPairing]
      /\ session' = [session EXCEPT ![m] = 0]
  BY DEF PeerGone, AfterTeardown
<1>3. \A x \in Machine :
        /\ offered'[x] \in {NoCode, offered[x]}
        /\ x # m => /\ offered'[x] = offered[x] /\ pending'[x] = pending[x]
                    /\ session'[x] = session[x]
  BY <1>2 DEF EndInv, Inv, Types
<1>5. ASSUME NEW x \in Machine PROVE Lasts(x)
  <2>0. dialing[x] # 0 => dialing[x] \in Dial /\ Settled(dialing[x])
    BY <1>1 DEF EndInv, Inv, Types
  <2>1. CASE x = m
    <3>1. session'[m] = 0
      BY <1>2 DEF EndInv, Inv, Types
    <3>2. offered'[m] # NoCode => ~InPairing(m)
      BY <1>2 DEF EndInv, Inv, Types
    <3>3. DialUnderWay(m) => DialUnderWay(m)'
      <4> SUFFICES ASSUME DialUnderWay(m) PROVE DialUnderWay(m)'
        OBVIOUS
      <4>1. dialing[m] # 0
        BY DEF DialUnderWay
      <4> QED
        BY <2>0, <2>1, <4>1, UnderWayKept DEF EndInv
    <3> QED
      <4>1. CodeCanEnd(m) => CodeCanEnd(m)'
        BY <1>3, <3>2, <3>3 DEF CodeCanEnd
      <4> QED
        BY <1>1, <2>1, <3>1, <4>1, LastsIf
  <2>2. CASE x # m
    BY <1>1, <1>3, <2>0, <2>2, BystanderLasts DEF OthersStillHear
  <2> QED
    BY <2>1, <2>2
<1> QED
  BY <1>1, <1>5

LEMMA OnPumpGoneEnds ==
  ASSUME EndInv, NEW m \in Machine, NEW n \in Dial, OnPumpGone(m, n)
  PROVE  NewsOnConnections' /\ \A x \in Machine : Lasts(x)
<1>1. /\ ~Heard(m, n, SessionNews)
      /\ news' = [news EXCEPT ![m][n] = <<>>]
      /\ UNCHANGED <<trust, dialing>>
  BY DEF OnPumpGone, SessionNews
<1>2. \A x \in Machine, k \in Dial : news'[x][k] = IF x = m /\ k = n THEN <<>> ELSE news[x][k]
  BY <1>1 DEF EndInv, Inv, Honest
<1>3. \A x \in Machine, k \in Dial : Heard(x, k, SessionNews) => Heard(x, k, SessionNews)'
  BY <1>1, <1>2 DEF Heard
<1>4. \A x \in Machine, k \in Dial : news'[x][k] # <<>> => news[x][k] # <<>> \/ Connected(k)
  BY <1>2
<1>5. CASE session[m] \in {0, n}
  <2>1. PeerGone(m)
    BY <1>5 DEF OnPumpGone
  <2>2. DialUnderWay(m) => dialing[m] \in Dial
    BY DEF DialUnderWay, EndInv, Inv, Types
  <2>3. OthersStillHear(m)
    BY <1>3 DEF OthersStillHear
  <2>4. ConnectionsKept /\ \A x \in Machine : Lasts(x)
    BY <1>1, <1>3, <2>1, <2>2, <2>3, PeerGoneEnds
  <2> QED
    BY <1>4, <2>4, NewsKept DEF EndInv
<1>6. CASE session[m] \notin {0, n}
  <2>1. UNCHANGED <<session, dial, pending, offered>>
    BY <1>6 DEF OnPumpGone
  <2>2. ConnectionsKept /\ \A k \in Dial : Settled(k)
    BY <2>1, SameSettles
  <2>3. ASSUME NEW x \in Machine PROVE Lasts(x)
    <3>1. dialing[x] # 0 => Settled(dialing[x])
      BY <2>2 DEF EndInv, Inv, Types
    <3> QED
      BY <1>1, <1>3, <2>1, <2>2, <3>1, BystanderLasts
  <2> QED
    BY <1>4, <2>2, <2>3, NewsKept DEF EndInv
<1> QED
  BY <1>5, <1>6

(* A new dial takes the number of none that is waited for.                 *)
LEMMA StartDialSettles ==
  ASSUME Inv, NEW m \in Machine, NEW n \in Dial, NEW mode \in BOOLEAN,
         NEW c \in Dial \union {0}, StartDial(m, n, mode, Closed(c))
  PROVE  /\ ConnectionsKept
         /\ dialing'[m] = n /\ dial'[n].stage = "trying" /\ dial'[n].pairing = mode
         /\ \A x \in Machine : x # m => /\ dialing'[x] = dialing[x]
                                        /\ dialing[x] # 0 => Settled(dialing[x])
<1> DEFINE trying == [stage |-> "trying", by |-> m, pairing |-> mode, known |-> trust[m]]
<1>1. Closed(c)[n] = Unused /\ dial' = [Closed(c) EXCEPT ![n] = trying] /\ dialing' = [dialing EXCEPT ![m] = n]
  BY DEF StartDial
<1>2. Closed(c) \in [Dial -> Dials] /\ dial[n] = Unused
  BY <1>1, ClosedType DEF Inv
<1>3. \A k \in Dial : /\ Connected(k) => Closed(c)[k].stage \in {"up", "down"} /\ Closed(c)[k].paired = dial[k].paired
                      /\ Closed(c)[k].pairing = dial[k].pairing
                      /\ dial[k].stage = "trying" => Closed(c)[k].stage = "trying"
  <2>1. CASE ~IsUp(c)
    BY <2>1 DEF Closed, Connected
  <2>2. CASE IsUp(c)
    <3>1. c \in Dial /\ dial[c].stage = "up" /\ dial \in [Dial -> Dials]
      BY <2>2 DEF IsUp, Inv, Types
    <3> DEFINE down == [dial[c] EXCEPT !.stage = "down"]
    <3>2. dial[c] \in [stage : {"up", "down"}, by : Machine, pairing : BOOLEAN, paired : [Machine -> BOOLEAN]]
      BY <3>1 DEF Dials, Unused
    <3>3. down.stage = "down" /\ down.pairing = dial[c].pairing /\ down.paired = dial[c].paired
      BY <3>2
    <3>4. Closed(c) = [dial EXCEPT ![c] = down]
      BY <2>2 DEF Closed
    <3> HIDE DEF down
    <3> QED
      BY <3>1, <3>3, <3>4 DEF Connected
  <2> QED
    BY <2>1, <2>2
<1>4. dial'[n] = trying /\ \A k \in Dial : k # n => dial'[k] = Closed(c)[k]
  <2> HIDE DEF trying
  <2> QED
    BY <1>1, <1>2
<1>5. ConnectionsKept
  BY <1>2, <1>3, <1>4 DEF ConnectionsKept, Connected, Unused
<1>6. ASSUME NEW x \in Machine, x # m, dialing[x] # 0
      PROVE  Settled(dialing[x])
  <2>1. dialing[x] \in Dial /\ dialing[x] # n
    BY <1>2, <1>6 DEF Inv, DialingIsOwn, Made
  <2> QED
    BY <1>3, <1>4, <2>1 DEF Settled
<1>7. dialing'[m] = n /\ \A x \in Machine : x # m => dialing'[x] = dialing[x]
  BY <1>1 DEF Inv, Types
<1> QED
  BY <1>4, <1>5, <1>6, <1>7

LEMMA RedialEnds ==
  ASSUME EndInv, NEW m \in Machine, Redial(m)
  PROVE  NewsOnConnections' /\ \A x \in Machine : Lasts(x)
<1>1. PICK n \in Dial : StartDial(m, n, FALSE, dial)
  BY DEF Redial
<1>2. Closed(0) = dial
  BY DEF Closed, IsUp
<1>3. /\ ConnectionsKept
      /\ \A x \in Machine : x # m => /\ dialing'[x] = dialing[x]
                                     /\ dialing[x] # 0 => Settled(dialing[x])
  BY <1>1, <1>2, StartDialSettles DEF EndInv
<1>4. trust[m] = "paired" /\ UNCHANGED <<trust, session, pending, offered, news>>
  BY DEF Redial
<1>5. NewsOnConnections'
  BY <1>3, <1>4, NewsKept DEF EndInv
<1>7. ASSUME NEW x \in Machine PROVE Lasts(x)
  <2>1. CASE x = m
    <3>1. session[m] = 0 /\ dialing[m] = 0 /\ session'[m] = 0
      BY DEF Redial
    <3>2. ~InPairing(m) /\ ~DialUnderWay(m)
      BY <3>1 DEF DialUnderWay, EndInv, Inv, ExchangeOf, Dial
    <3>3. CodeCanEnd(m) => CodeCanEnd(m)'
      BY <1>4, <3>2 DEF CodeCanEnd
    <3> QED
      BY <1>3, <2>1, <3>1, <3>3, LastsIf
  <2>2. CASE x # m
    BY <1>3, <1>4, <2>2, BystanderLasts DEF Heard
  <2> QED
    BY <2>1, <2>2
<1> QED
  BY <1>5, <1>7

LEMMA BeginPairingEnds ==
  ASSUME EndInv, NEW m \in Machine, BeginPairing(m)
  PROVE  NewsOnConnections' /\ \A x \in Machine : Lasts(x)
<1>1. PICK n \in Dial : StartDial(m, n, TRUE, Closed(session[m]))
  BY DEF BeginPairing
<1>2. session[m] \in Dial \union {0}
  BY DEF EndInv, Inv, Types
<1>3. /\ ConnectionsKept
      /\ dialing'[m] = n /\ dial'[n].stage = "trying" /\ dial'[n].pairing = TRUE
      /\ \A x \in Machine : x # m => /\ dialing'[x] = dialing[x]
                                     /\ dialing[x] # 0 => Settled(dialing[x])
  BY <1>1, <1>2, StartDialSettles DEF EndInv
<1>4. PICK code \in Code : offered' = [offered EXCEPT ![m] = code]
  BY DEF BeginPairing
<1>5. /\ UNCHANGED <<trust, news>>
      /\ session' = [session EXCEPT ![m] = 0]
      /\ pending' = [pending EXCEPT ![m] = NoPairing]
  BY DEF BeginPairing
<1>6. NewsOnConnections'
  BY <1>3, <1>5, NewsKept DEF EndInv
<1>8. ASSUME NEW x \in Machine PROVE Lasts(x)
  <2>1. CASE x = m
    <3>1. session'[m] = 0
      BY <1>5 DEF EndInv, Inv, Types
    <3>2. DialUnderWay(m)'
      BY <1>3 DEF DialUnderWay, Dial
    <3> QED
      BY <1>3, <2>1, <3>1, <3>2, LastsIf DEF CodeCanEnd
  <2>2. CASE x # m
    <3>1. offered'[x] = offered[x] /\ pending'[x] = pending[x] /\ session'[x] = session[x]
      BY <1>4, <1>5, <2>2 DEF EndInv, Inv, Types
    <3> QED
      BY <1>3, <1>5, <2>2, <3>1, BystanderLasts DEF Heard
  <2> QED
    BY <2>1, <2>2
<1> QED
  BY <1>6, <1>8

LEMMA ConfirmPairingEnds ==
  ASSUME EndInv, NEW m \in Machine, ConfirmPairing(m)
  PROVE  NewsOnConnections' /\ \A x \in Machine : Lasts(x)
<1>1. PICK code \in Code :
        /\ pending' = [pending EXCEPT ![m].code = code]
        /\ news' = Sent(news, m, <<Proof(pending[m].conn, code)>>)
  BY DEF ConfirmPairing
<1>2. UNCHANGED <<trust, session, offered, dialing, dial>>
  BY DEF ConfirmPairing
<1>3. /\ pending[m] \in [conn : Dial, mine : BOOLEAN, code : Code \union {NoCode}]
      /\ pending[m].conn \in Dial
  BY DEF ConfirmPairing, EndInv, Inv, Types, Pendings, InPairing
<1>4. ConnectionsKept /\ \A k \in Dial : Settled(k)
  BY <1>2, SameSettles
<1>5. \A x \in Machine, k \in Dial :
        /\ news'[x][k] # <<>> => news[x][k] # <<>> \/ Connected(k)
        /\ news[x][k] # <<>> => news'[x][k] # <<>> /\ Head(news'[x][k]) = Head(news[x][k])
  <2> DEFINE messages == <<Proof(pending[m].conn, code)>>
  <2>1. messages \in Seq(Message)
    BY <1>3, MessageParts
  <2>2. news' = Sent(news, m, messages) /\ Types /\ Honest(news, held)
    BY <1>1 DEF EndInv, Inv
  <2> HIDE DEF messages
  <2> QED
    BY <2>1, <2>2, SentNews
<1>6. NewsOnConnections'
  BY <1>4, <1>5, NewsKept DEF EndInv
<1>8. ASSUME NEW x \in Machine PROVE Lasts(x)
  <2>1. CASE x = m
    <3>1. pending'[m].conn = pending[m].conn
      BY <1>1, <1>3 DEF EndInv, Inv, Types
    <3>2. pending'[m] # NoPairing
      BY <1>3, <3>1 DEF NoPairing, Dial
    <3> QED
      <4>1. InPairing(m)'
        BY <3>2 DEF InPairing
      <4>2. session'[m] # 0 => dialing'[m] = 0
        BY <1>2 DEF EndInv, Answered
      <4> QED
        BY <1>4, <2>1, <4>1, <4>2, LastsIf DEF CodeCanEnd
  <2>2. CASE x # m
    <3>1. pending'[x] = pending[x] /\ (dialing[x] # 0 => Settled(dialing[x]))
      BY <1>1, <1>4, <2>2 DEF EndInv, Inv, Types
    <3> QED
      BY <1>2, <1>4, <1>5, <3>1, BystanderLasts DEF Heard
  <2> QED
    BY <2>1, <2>2
<1> QED
  BY <1>6, <1>8

LEMMA ForgetPeerEnds ==
  ASSUME EndInv, NEW m \in Machine, ForgetPeer(m)
  PROVE  NewsOnConnections' /\ \A x \in Machine : Lasts(x)
<1>1. PeerGone(m) /\ UNCHANGED <<dialing, news>>
  BY DEF ForgetPeer
<1>2. \A x \in Machine : trust'[x] = trust[x] \/ (x = m /\ trust'[x] # "paired")
  BY DEF ForgetPeer, EndInv, Inv, Types
<1>3. /\ OthersStillHear(m)
      /\ Heard(m, dialing[m], SessionNews) => Heard(m, dialing[m], SessionNews)'
  BY <1>1 DEF OthersStillHear, Heard
<1>4. ConnectionsKept /\ \A x \in Machine : Lasts(x)
  BY <1>1, <1>2, <1>3, PeerGoneEnds
<1>5. NewsOnConnections'
  BY <1>1, <1>4, NewsKept DEF EndInv
<1> QED
  BY <1>4, <1>5

LEMMA BreakEnds ==
  ASSUME EndInv, NEW n \in Dial, Break(n)
  PROVE  NewsOnConnections' /\ \A x \in Machine : Lasts(x)
<1>1. ConnectionsKept /\ \A k \in Dial : Settled(k)
  BY ClosedSettles DEF Break, EndInv, Inv
<1>2. UNCHANGED <<trust, session, pending, offered, dialing, news>>
  BY DEF Break
<1>3. NewsOnConnections'
  BY <1>1, <1>2, NewsKept DEF EndInv
<1>5. ASSUME NEW x \in Machine PROVE Lasts(x)
  <2>1. dialing[x] # 0 => Settled(dialing[x])
    BY <1>1 DEF EndInv, Inv, Types
  <2> QED
    BY <1>1, <1>2, <2>1, BystanderLasts DEF Heard
<1> QED
  BY <1>3, <1>5

LEMMA RestartEnds ==
  ASSUME EndInv, NEW m \in Machine, Restart(m)
  PROVE  NewsOnConnections' /\ \A x \in Machine : Lasts(x)
<1> DEFINE after(n) == IF dial[n].stage = "up" THEN [dial[n] EXCEPT !.stage = "down"]
                       ELSE IF dial[n].stage = "trying" /\ dial[n].by = m THEN [stage |-> "failed", by |-> m]
                       ELSE dial[n]
<1>1. ASSUME NEW n \in Dial, dial[n].stage = "up"
      PROVE  dial'[n].stage = "down" /\ dial'[n].pairing = dial[n].pairing /\ dial'[n].paired = dial[n].paired
  <2>1. dial[n] \in [stage : {"up", "down"}, by : Machine, pairing : BOOLEAN, paired : [Machine -> BOOLEAN]]
    BY <1>1 DEF EndInv, Inv, Types, Dials, Unused
  <2>2. dial'[n] = [dial[n] EXCEPT !.stage = "down"]
    BY <1>1 DEF Restart
  <2> QED
    BY <2>1, <2>2
<1>2. ASSUME NEW n \in Dial, dial[n].stage # "up", dial[n].stage = "trying" => dial[n].by # m
      PROVE  dial'[n] = dial[n]
  BY <1>2 DEF Restart
<1>3. ConnectionsKept
  BY <1>1, <1>2 DEF ConnectionsKept, Connected
<1>4. ASSUME NEW n \in Dial, dial[n].by # m
      PROVE  Settled(n)
  BY <1>1, <1>2, <1>4 DEF Settled
<1>5. \A x \in Machine, k \in Dial : news'[x][k] = IF x = m THEN <<>> ELSE news[x][k]
  BY DEF Restart, EndInv, Inv, Honest
<1>6. NewsOnConnections'
  BY <1>3, <1>5, NewsKept DEF EndInv
<1>7. \A x \in Machine :
        /\ trust'[x] = trust[x]
        /\ IF x = m THEN offered'[x] = NoCode /\ session'[x] = 0
           ELSE /\ offered'[x] = offered[x] /\ session'[x] = session[x]
                /\ pending'[x] = pending[x] /\ dialing'[x] = dialing[x]
  BY DEF Restart, EndInv, Inv, Types
<1>9. ASSUME NEW x \in Machine PROVE Lasts(x)
  <2>1. CASE x = m
    BY <1>3, <1>7, <2>1, LastsIf DEF CodeCanEnd
  <2>2. CASE x # m
    <3>1. dialing[x] # 0 => Settled(dialing[x])
      BY <1>4, <2>2 DEF EndInv, Inv, DialingIsOwn, Made
    <3> QED
      BY <1>3, <1>5, <1>7, <2>2, <3>1, BystanderLasts DEF Heard
  <2> QED
    BY <2>1, <2>2
<1> QED
  BY <1>6, <1>9

-----------------------------------------------------------------------------
LEMMA InitEnds == PairingInit => EndInv
<1> SUFFICES ASSUME PairingInit PROVE EndInv
  OBVIOUS
<1>1. NewsOnConnections
  BY DEF PairingInit, NewsOnConnections
<1>2. \A m \in Machine : Answered(m) /\ Judged(m)
  BY DEF PairingInit, Answered, Judged
<1> QED
  BY <1>1, <1>2, InitInv DEF EndInv

LEMMA NextEnds == EndInv /\ [PairingNext]_pairingVars => EndInv' /\ \A x \in Machine : Lasts(x)
<1> SUFFICES ASSUME EndInv, [PairingNext]_pairingVars
             PROVE  EndInv' /\ \A x \in Machine : Lasts(x)
  OBVIOUS
<1> DEFINE Goal == NewsOnConnections' /\ \A x \in Machine : Lasts(x)
<1>1. ASSUME NEW m \in Machine, NEW n \in Dial, OnNews(m, n) PROVE Goal
  BY <1>1, OnSecondSessionEnds, OnTrustedSessionEnds, OnPairingSessionEnds, OnEarlyConfirmEnds,
     OnPairConfirmEnds, OnPairResultEnds, OnPumpGoneEnds DEF OnNews
<1>2. ASSUME NEW n \in Dial, DialResolves(n) \/ Break(n) PROVE Goal
  BY <1>2, ConnectEnds, DialFailsEnds, BreakEnds DEF DialResolves
<1>3. ASSUME NEW m \in Machine, SweepPairing(m) \/ CancelPairing(m) PROVE Goal
  BY <1>3, GivenUpEnds DEF SweepPairing, CancelPairing
<1>4. ASSUME NEW m \in Machine,
             Redial(m) \/ BeginPairing(m) \/ ConfirmPairing(m) \/ ForgetPeer(m) \/ Restart(m)
      PROVE  Goal
  BY <1>4, RedialEnds, BeginPairingEnds, ConfirmPairingEnds, ForgetPeerEnds, RestartEnds
<1>5. ASSUME UNCHANGED pairingVars PROVE Goal
  <2>1. UNCHANGED <<trust, session, pending, offered, dialing, dial, news>>
    BY <1>5 DEF pairingVars
  <2>2. ConnectionsKept /\ \A k \in Dial : Settled(k)
    BY <2>1, SameSettles
  <2>3. NewsOnConnections'
    BY <2>1, <2>2, NewsKept DEF EndInv
  <2>4. ASSUME NEW x \in Machine PROVE Lasts(x)
    <3>1. dialing[x] # 0 => Settled(dialing[x])
      BY <2>2 DEF EndInv, Inv, Types
    <3> QED
      BY <2>1, <2>2, <3>1, BystanderLasts DEF Heard
  <2> QED
    BY <2>3, <2>4
<1>6. Goal
  BY <1>1, <1>2, <1>3, <1>4, <1>5 DEF PairingNext
<1>7. Inv'
  BY NextKeeps DEF EndInv
<1> QED
  BY <1>6, <1>7, Zenon DEF EndInv, Lasts

(* However exchanges are begun anew, given up, refused, broken or cut by a *)
(* restart, no step but that of taking a connection for a paired machine's *)
(* leaves a code on screen without an exchange under way or the dial it    *)
(* waits for, or a session with a stranger without its exchange:           *)
(* EveryExchangeCanEnd.                                                    *)
THEOREM PairingExchangesEnd == PairingSpec => EveryExchangeCanEnd
<1>1. EndInv /\ [PairingNext]_pairingVars =>
        [\A m \in Machine :
           \/ TakesForPaired(m)
           \/ /\ CodeCanEnd(m) => CodeCanEnd(m)'
              /\ SessionCanEnd(m) => SessionCanEnd(m)']_pairingVars
  BY NextEnds DEF Lasts, EndsKept
<1>2. EndInv /\ [PairingNext]_pairingVars => EndInv'
  BY NextEnds
<1> QED
  BY <1>1, <1>2, InitEnds, PTL DEF PairingSpec, EveryExchangeCanEnd

-----------------------------------------------------------------------------
(* One-sided trust is a proof on its way, or lost with its connection.  All *)
(* of this is said of two machines of which none has been forgotten.       *)

(* A machine that does not trust the other has never been told it does.    *)
NotTaken(x) ==
  trust[x] # "paired" =>
    /\ admits[x] # "paired"
    /\ \A n \in Dial : /\ dial[n].stage = "trying" /\ dial[n].by = x => dial[n].known # "paired"
                       /\ Connected(n) => ~dial[n].paired[x]

(* A connection that is up is in use at both ends, or will be looked at.   *)
Attends(x) ==
  /\ session[x] # 0 => Connected(session[x])
  /\ \A n \in Dial : dial[n].stage = "up" => session[x] = n \/ Heard(x, n, SessionNews)

Ready(x, n) == session[x] = n /\ InPairing(x) /\ pending[x].code # NoCode

(* A code is held on a connection while that is up, until there is trust.  *)
HoldsOn(x) ==
  \A n \in Dial :
    held[n][x] # {} => /\ Connected(n)
                       /\ dial[n].stage = "up" /\ trust[x] # "paired" => Ready(x, n)

InQueue(queue, x, n, message) == \E i \in DOMAIN queue[x][n] : queue[x][n][i] = message

(* A proof for x of code c is in the queue, or was lost.                   *)
Sought(x, n, c) == dial[n].stage = "down" \/ InQueue(news, x, n, Proof(n, c))

(* What was typed here has been proved to the machine that shows the code. *)
Proved(x) ==
  InPairing(x) /\ ~pending[x].mine /\ pending[x].code # NoCode /\ trust[Other(x)] = "stranger" =>
    Sought(Other(x), session[x], pending[x].code)

Lone(x) ==
  trust[x] = "paired" /\ trust[Other(x)] = "stranger" =>
    \E n \in Dial : \E c \in held[n][x] \intersect held[n][Other(x)] : Sought(Other(x), n, c)

Own(x) == NotTaken(x) /\ Attends(x) /\ HoldsOn(x)
LoneInv == ~forgotten => \A x \in Machine : Own(x) /\ Proved(x) /\ Lone(x)

(* What every step but a connection's coming up does to dials.             *)
DialsGo ==
  \A n \in Dial :
    /\ dial[n].stage = "down" => dial'[n].stage = "down"
    /\ dial'[n].stage = "up" => dial[n].stage = "up"
    /\ Connected(n)' <=> Connected(n)
    /\ Connected(n) => dial'[n].paired = dial[n].paired
    /\ dial'[n].stage = "trying" => dial'[n] = dial[n] \/ dial'[n].known = trust[dial'[n].by]

Hears(x) == \A n \in Dial : dial'[n].stage = "up" /\ Heard(x, n, SessionNews) => Heard(x, n, SessionNews)'

Holding(x) == \A n \in Dial : held'[n][x] = held[n][x]

(* What a step may be to a machine.                                        *)
Stays(x) == trust'[x] = trust[x] /\ session'[x] = session[x] /\ pending'[x] = pending[x] /\ Holding(x) /\ Hears(x)
Leaves(x) ==
  /\ trust'[x] = trust[x] /\ session'[x] = 0 /\ Holding(x) /\ Hears(x)
  /\ session[x] # 0 => dial'[session[x]].stage # "up"
ComesToTrust(x) == trust'[x] = "paired" /\ session'[x] = session[x] /\ Holding(x) /\ Hears(x)
Enters(x) ==
  /\ trust'[x] = trust[x] /\ session[x] = 0 /\ session'[x] \in Dial /\ Connected(session'[x])
  /\ \A n \in Dial : n # session'[x] =>
       held'[n][x] = held[n][x] /\ (Heard(x, n, SessionNews) => Heard(x, n, SessionNews)')
  /\ held'[session'[x]][x] = held[session'[x]][x] \/ Ready(x, session[x])'
TypesCode(x) ==
  /\ trust'[x] = trust[x] /\ session'[x] = session[x] /\ session[x] \in Dial /\ Hears(x)
  /\ \A n \in Dial : n # session[x] => held'[n][x] = held[n][x]
  /\ Ready(x, session[x])'

LEMMA OwnKept ==
  ASSUME EndInv, DialsGo, NEW x \in Machine, Own(x), admits'[x] \in {admits[x], trust[x]},
         Stays(x) \/ Leaves(x) \/ ComesToTrust(x) \/ Enters(x) \/ TypesCode(x)
  PROVE  Own(x)'
<1>1. session[x] \in Dial \union {0}
  BY DEF EndInv, Inv, Types
<1>2. trust'[x] # "paired" => trust[x] # "paired"
  BY DEF Stays, Leaves, ComesToTrust, Enters, TypesCode
<1>3. NotTaken(x)'
  <2> SUFFICES ASSUME trust'[x] # "paired" PROVE NotTaken(x)'
    BY DEF NotTaken
  <2>1. /\ trust[x] # "paired" /\ admits'[x] # "paired"
        /\ \A n \in Dial : /\ dial[n].stage = "trying" /\ dial[n].by = x => dial[n].known # "paired"
                           /\ Connected(n) => ~dial[n].paired[x]
    BY <1>2 DEF Own, NotTaken
  <2>2. ASSUME NEW n \in Dial
        PROVE  /\ dial'[n].stage = "trying" /\ dial'[n].by = x => dial'[n].known # "paired"
               /\ Connected(n)' => ~dial'[n].paired[x]
    BY <2>1 DEF DialsGo
  <2> QED
    BY <2>1, <2>2 DEF NotTaken
<1>4. Attends(x)'
  <2>1. session'[x] # 0 => Connected(session[x])'
    <3>1. CASE session'[x] = session[x]
      BY <1>1, <3>1 DEF Own, Attends, DialsGo
    <3>2. CASE session'[x] # session[x]
      BY <3>2 DEF Stays, Leaves, ComesToTrust, Enters, TypesCode, DialsGo
    <3> QED
      BY <3>1, <3>2
  <2>2. ASSUME NEW n \in Dial, dial'[n].stage = "up"
        PROVE  session'[x] = n \/ Heard(x, n, SessionNews)'
    <3>1. dial[n].stage = "up" /\ (session[x] = n \/ Heard(x, n, SessionNews))
      BY <2>2 DEF DialsGo, Own, Attends
    <3>2. CASE Enters(x)
      <4>1. n # session'[x] => Heard(x, n, SessionNews)
        BY <3>1, <3>2 DEF Enters, Dial
      <4> QED
        BY <3>2, <4>1 DEF Enters
    <3>3. CASE ~Enters(x)
      BY <2>2, <3>1, <3>3 DEF Stays, Leaves, ComesToTrust, TypesCode, Hears
    <3> QED
      BY <3>2, <3>3
  <2>3. \A n \in Dial : dial'[n].stage = "up" => session'[x] = n \/ Heard(x, n, SessionNews)'
    BY <2>2
  <2> QED
    BY <2>1, <2>3 DEF Attends
<1>5. HoldsOn(x)'
  <2> SUFFICES ASSUME NEW n \in Dial, held'[n][x] # {}
               PROVE  /\ Connected(n)'
                      /\ dial'[n].stage = "up" /\ trust'[x] # "paired" => Ready(x, n)'
    BY DEF HoldsOn
  <2>1. held[n][x] # {} => /\ Connected(n)'
                           /\ dial'[n].stage = "up" /\ trust'[x] # "paired" => Ready(x, n)
    BY <1>2 DEF Own, HoldsOn, DialsGo
  <2>2. CASE Stays(x)
    BY <2>1, <2>2 DEF Stays, Holding, Ready, InPairing
  <2>3. CASE Leaves(x)
    BY <2>1, <2>3 DEF Leaves, Holding, Ready, Dial
  <2>4. CASE ComesToTrust(x)
    BY <2>1, <2>4 DEF ComesToTrust, Holding
  <2>5. CASE Enters(x)
    <3>1. ~Ready(x, n)
      BY <2>5 DEF Enters, Ready, Dial
    <3>2. CASE n = session'[x]
      BY <2>1, <2>5, <3>1, <3>2 DEF Enters, DialsGo
    <3>3. CASE n # session'[x]
      BY <2>1, <2>5, <3>1, <3>3 DEF Enters
    <3> QED
      BY <3>2, <3>3
  <2>6. CASE TypesCode(x)
    <3>1. CASE n = session[x]
      <4>1. Connected(n)
        BY <3>1 DEF Own, Attends, Dial
      <4> QED
        BY <2>6, <3>1, <4>1 DEF TypesCode, DialsGo
    <3>2. CASE n # session[x]
      BY <2>1, <2>6, <3>2 DEF TypesCode, Ready
    <3> QED
      BY <3>1, <3>2
  <2> QED
    BY <2>2, <2>3, <2>4, <2>5, <2>6
<1> QED
  BY <1>3, <1>4, <1>5 DEF Own

Move(x) == Stays(x) \/ Leaves(x) \/ ComesToTrust(x) \/ Enters(x) \/ TypesCode(x)

LEMMA ClosedEffect ==
  ASSUME Types, NEW c \in Dial \union {0}
  PROVE  \A k \in Dial :
           IF k = c /\ dial[k].stage = "up"
           THEN /\ Closed(c)[k].stage = "down"
                /\ Closed(c)[k].paired = dial[k].paired /\ Closed(c)[k].by = dial[k].by
           ELSE Closed(c)[k] = dial[k]
<1>1. CASE ~IsUp(c)
  BY <1>1 DEF Closed, IsUp, Dial
<1>2. CASE IsUp(c)
  <2>1. c \in Dial /\ dial[c].stage = "up" /\ dial \in [Dial -> Dials]
    BY <1>2 DEF IsUp, Types
  <2> DEFINE down == [dial[c] EXCEPT !.stage = "down"]
  <2>2. dial[c] \in [stage : {"up", "down"}, by : Machine, pairing : BOOLEAN, paired : [Machine -> BOOLEAN]]
    BY <2>1 DEF Dials, Unused
  <2>3. down.stage = "down" /\ down.paired = dial[c].paired /\ down.by = dial[c].by
    BY <2>2
  <2>4. Closed(c) = [dial EXCEPT ![c] = down]
    BY <1>2 DEF Closed
  <2> HIDE DEF down
  <2> QED
    BY <2>1, <2>3, <2>4
<1> QED
  BY <1>1, <1>2

LEMMA ClosedGoes ==
  ASSUME Types, NEW c \in Dial \union {0}, dial' = Closed(c)
  PROVE  DialsGo /\ (c # 0 => dial'[c].stage # "up")
BY ClosedEffect DEF DialsGo, Connected

LEMMA SameGoes ==
  ASSUME dial' = dial
  PROVE  DialsGo
BY DEF DialsGo, Connected

LEMMA StartDialGoes ==
  ASSUME Types, NEW m \in Machine, NEW n \in Dial, NEW mode \in BOOLEAN,
         NEW c \in Dial \union {0}, StartDial(m, n, mode, Closed(c))
  PROVE  DialsGo /\ (c # 0 => dial'[c].stage # "up")
<1> DEFINE trying == [stage |-> "trying", by |-> m, pairing |-> mode, known |-> trust[m]]
<1>1. Closed(c)[n] = Unused /\ dial' = [Closed(c) EXCEPT ![n] = trying]
  BY DEF StartDial
<1>2. Closed(c) \in [Dial -> Dials] /\ dial[n] = Unused /\ Unused.stage = "unused"
  BY <1>1, ClosedType DEF Unused
<1>3. dial'[n] = trying /\ \A k \in Dial : k # n => dial'[k] = Closed(c)[k]
  <2> HIDE DEF trying
  <2> QED
    BY <1>1, <1>2
<1>4. trying.stage = "trying" /\ trying.known = trust[m] /\ trying.by = m
  OBVIOUS
<1> HIDE DEF trying
<1>5. ASSUME NEW k \in Dial
      PROVE  /\ dial[k].stage = "down" => dial'[k].stage = "down"
             /\ dial'[k].stage = "up" => dial[k].stage = "up"
             /\ Connected(k)' <=> Connected(k)
             /\ Connected(k) => dial'[k].paired = dial[k].paired
             /\ dial'[k].stage = "trying" => dial'[k] = dial[k] \/ dial'[k].known = trust[dial'[k].by]
  <2>1. CASE k = n
    BY <1>2, <1>3, <1>4, <2>1 DEF Connected
  <2>2. CASE k # n
    BY <1>3, <2>2, ClosedEffect DEF Connected
  <2> QED
    BY <2>1, <2>2
<1>6. c # 0 => dial'[c].stage # "up"
  BY <1>3, <1>4, ClosedEffect
<1>7. DialsGo
  BY <1>5 DEF DialsGo
<1> QED
  BY <1>6, <1>7

(* A machine a step has nothing to do with.                                *)
LEMMA BystanderStays ==
  ASSUME NEW x \in Machine, trust'[x] = trust[x], session'[x] = session[x], pending'[x] = pending[x],
         \A k \in Dial : held'[k][x] = held[k][x],
         \A k \in Dial : Heard(x, k, SessionNews) => Heard(x, k, SessionNews)'
  PROVE  Move(x)
BY DEF Move, Stays, Holding, Hears

-----------------------------------------------------------------------------
LEMMA OnSecondSessionMoves ==
  ASSUME EndInv, NEW m \in Machine, NEW n \in Dial, OnSecondSession(m, n)
  PROVE  DialsGo /\ \A x \in Machine : Move(x)
<1>1. DialsGo /\ dial'[n].stage # "up"
  BY ClosedGoes DEF OnSecondSession, EndInv, Inv, Dial
<1>2. news[m][n] # <<>> /\ news' = After(m, n) /\ UNCHANGED <<trust, session, pending, held>>
  BY DEF OnSecondSession, Heard
<1>3. \A x \in Machine, k \in Dial : x # m \/ k # n => news'[x][k] = news[x][k]
  BY <1>2, AfterNews DEF EndInv, Inv
<1>4. ASSUME NEW x \in Machine PROVE Stays(x)
  BY <1>1, <1>2, <1>3 DEF Stays, Holding, Hears, Heard
<1> QED
  BY <1>1, <1>4 DEF Move

LEMMA OnTrustedSessionMoves ==
  ASSUME EndInv, NEW m \in Machine, NEW n \in Dial, OnTrustedSession(m, n)
  PROVE  DialsGo /\ \A x \in Machine : Move(x)
<1>1. /\ news[m][n] # <<>> /\ news' = After(m, n) /\ session[m] = 0
      /\ session' = [session EXCEPT ![m] = n] /\ UNCHANGED <<trust, pending, held, dial>>
  BY DEF OnTrustedSession, Heard
<1>2. DialsGo
  BY <1>1, SameGoes
<1>3. \A x \in Machine, k \in Dial : x # m \/ k # n => news'[x][k] = news[x][k]
  BY <1>1, AfterNews DEF EndInv, Inv
<1>4. ASSUME NEW x \in Machine PROVE Move(x)
  <2>1. CASE x = m
    <3>1. session'[m] = n /\ Connected(n)
      BY <1>1 DEF EndInv, Inv, Types, NewsOnConnections
    <3>2. Enters(m)
      BY <1>1, <1>3, <3>1 DEF Enters, Heard, Connected
    <3> QED
      BY <2>1, <3>2 DEF Move
  <2>2. CASE x # m
    <3>1. session'[x] = session[x]
      BY <1>1, <2>2 DEF EndInv, Inv, Types
    <3> QED
      BY <1>1, <1>3, <2>2, <3>1, BystanderStays DEF Heard
  <2> QED
    BY <2>1, <2>2
<1> QED
  BY <1>2, <1>4

LEMMA OnPairingSessionMoves ==
  ASSUME EndInv, NEW m \in Machine, NEW n \in Dial, OnPairingSession(m, n)
  PROVE  DialsGo /\ \A x \in Machine : Move(x)
<1> DEFINE mine == dial[n].by = m
           code == IF mine THEN offered[m] ELSE NoCode
           canGoOn == mine => code # NoCode
           p == [conn |-> n, mine |-> mine, code |-> code]
<1>1. /\ news[m][n] # <<>> /\ news' = After(m, n) /\ session[m] = 0 /\ trust' = trust
      /\ canGoOn => /\ session' = [session EXCEPT ![m] = n] /\ pending' = [pending EXCEPT ![m] = p]
                    /\ held' = (IF mine THEN [held EXCEPT ![n][m] = @ \union {code}] ELSE held)
                    /\ dial' = dial
      /\ ~canGoOn => dial' = Closed(n) /\ UNCHANGED <<session, pending, held>>
  BY DEF OnPairingSession, Heard
<1>2. \A x \in Machine, k \in Dial : x # m \/ k # n => news'[x][k] = news[x][k]
  BY <1>1, AfterNews DEF EndInv, Inv
<1>3. CASE ~canGoOn
  <2>1. DialsGo /\ dial'[n].stage # "up"
    BY <1>1, <1>3, ClosedGoes DEF EndInv, Inv, Dial
  <2>2. ASSUME NEW x \in Machine PROVE Stays(x)
    BY <1>1, <1>2, <1>3, <2>1 DEF Stays, Holding, Hears, Heard
  <2> QED
    BY <2>1, <2>2 DEF Move
<1>4. CASE canGoOn
  <2>1. DialsGo
    BY <1>1, <1>4, SameGoes
  <2>2. \A x \in Machine, k \in Dial : x # m \/ k # n => held'[k][x] = held[k][x]
    BY <1>1, <1>4 DEF EndInv, Inv, Types
  <2>3. ASSUME NEW x \in Machine PROVE Move(x)
    <3>1. CASE x = m
      <4>1. session'[m] = n /\ pending'[m] = p /\ Connected(n)
        BY <1>1, <1>4 DEF EndInv, Inv, Types, NewsOnConnections
      <4>2. held'[n][m] = held[n][m] \/ Ready(m, n)'
        <5>1. CASE mine
          <6>1. p.conn # NoPairing.conn
            BY DEF NoPairing, Dial
          <6>2. p # NoPairing /\ p.code # NoCode
            BY <1>4, <5>1, <6>1
          <6> QED
            BY <4>1, <6>2 DEF Ready, InPairing
        <5>2. CASE ~mine
          BY <1>1, <1>4, <5>2
        <5> QED
          BY <5>1, <5>2
      <4>3. /\ trust'[m] = trust[m] /\ session'[m] \in Dial /\ Connected(session'[m])
            /\ held'[session'[m]][m] = held[session'[m]][m] \/ Ready(m, session[m])'
        <5> HIDE DEF p
        <5> QED
          BY <1>1, <4>1, <4>2 DEF Connected, Ready
      <4>4. \A k \in Dial : k # session'[m] =>
              held'[k][m] = held[k][m] /\ (Heard(m, k, SessionNews) => Heard(m, k, SessionNews)')
        <5> HIDE DEF p
        <5> QED
          BY <1>2, <2>2, <4>1 DEF Heard
      <4> QED
        BY <1>1, <3>1, <4>3, <4>4 DEF Enters, Move
    <3>2. CASE x # m
      <4>1. session'[x] = session[x] /\ pending'[x] = pending[x]
        BY <1>1, <1>4, <3>2 DEF EndInv, Inv, Types
      <4> QED
        BY <1>1, <1>2, <2>2, <3>2, <4>1, BystanderStays DEF Heard
    <3> QED
      BY <3>1, <3>2
  <2> QED
    BY <2>1, <2>3
<1> QED
  BY <1>3, <1>4

LEMMA OnEarlyConfirmMoves ==
  ASSUME EndInv, NEW m \in Machine, NEW n \in Dial, OnEarlyConfirm(m, n)
  PROVE  DialsGo /\ \A x \in Machine : Move(x)
<1>1. /\ news[m][n] # <<>> /\ Head(news[m][n]).kind = "confirm" /\ news' = After(m, n)
      /\ UNCHANGED <<trust, session, pending, dial, held>>
  BY DEF OnEarlyConfirm
<1>2. \A x \in Machine, k \in Dial : Heard(x, k, SessionNews) => Heard(x, k, SessionNews)'
  BY <1>1, AfterNews DEF Heard, SessionNews, EndInv, Inv
<1> QED
  BY <1>1, <1>2, SameGoes, BystanderStays

LEMMA AbandonMoves ==
  ASSUME EndInv, NEW m \in Machine, Abandon(m), held' = held,
         \A x \in Machine, k \in Dial : Heard(x, k, SessionNews) => Heard(x, k, SessionNews)'
  PROVE  DialsGo /\ \A x \in Machine : Move(x)
<1>1. session[m] \in Dial \union {0}
  BY DEF EndInv, Inv, Types
<1>2. trust' = trust /\ pending' = [pending EXCEPT ![m] = NoPairing]
  BY DEF Abandon
<1>3. CASE Reachable(m)
  <2>1. UNCHANGED <<session, dial>> /\ trust[m] = "paired"
    BY <1>3 DEF Abandon, Reachable
  <2>2. ASSUME NEW x \in Machine PROVE Move(x)
    <3>1. CASE x = m
      BY <1>2, <2>1, <3>1 DEF Move, ComesToTrust, Holding, Hears
    <3>2. CASE x # m
      <4>1. pending'[x] = pending[x]
        BY <1>2, <3>2 DEF EndInv, Inv, Types
      <4> QED
        BY <1>2, <2>1, <4>1, BystanderStays
    <3> QED
      BY <3>1, <3>2
  <2> QED
    BY <2>1, <2>2, SameGoes
<1>4. CASE ~Reachable(m)
  <2>1. session' = [session EXCEPT ![m] = 0] /\ dial' = Closed(session[m])
    BY <1>4 DEF Abandon
  <2>2. DialsGo /\ (session[m] # 0 => dial'[session[m]].stage # "up")
    BY <1>1, <2>1, ClosedGoes DEF EndInv, Inv
  <2>3. ASSUME NEW x \in Machine PROVE Move(x)
    <3>1. CASE x = m
      <4>1. session'[m] = 0
        BY <2>1 DEF EndInv, Inv, Types
      <4> QED
        BY <1>2, <2>2, <3>1, <4>1 DEF Move, Leaves, Holding, Hears
    <3>2. CASE x # m
      <4>1. pending'[x] = pending[x] /\ session'[x] = session[x]
        BY <1>2, <2>1, <3>2 DEF EndInv, Inv, Types
      <4> QED
        BY <1>2, <4>1, BystanderStays
    <3> QED
      BY <3>1, <3>2
  <2> QED
    BY <2>2, <2>3
<1> QED
  BY <1>3, <1>4

(* What a machine has heard of connections outlasts the handling of a      *)
(* proof or a rejection.                                                   *)
LEMMA ControlLeavesSessions ==
  ASSUME EndInv, NEW m \in Machine, NEW n \in Dial, news[m][n] # <<>>,
         Head(news[m][n]) # SessionNews, NEW messages \in Seq(Message),
         news' = Sent(After(m, n), m, messages) \/ news' = After(m, n)
  PROVE  \A x \in Machine, k \in Dial : Heard(x, k, SessionNews) => Heard(x, k, SessionNews)'
<1>1. Honest(After(m, n), held) /\ Types
  BY AfterHonest DEF EndInv, Inv
<1>2. ASSUME NEW x \in Machine, NEW k \in Dial, Heard(x, k, SessionNews)
      PROVE  Heard(x, k, SessionNews)'
  <2>1. After(m, n)[x][k] = news[x][k]
    BY <1>2, AfterNews DEF Heard, EndInv, Inv
  <2>2. /\ Sent(After(m, n), m, messages)[x][k] # <<>>
        /\ Head(Sent(After(m, n), m, messages)[x][k]) = SessionNews
    BY <1>1, <1>2, <2>1, SentNews DEF Heard
  <2> QED
    BY <1>2, <2>1, <2>2 DEF Heard
<1> QED
  BY <1>2

LEMMA OnPairConfirmMoves ==
  ASSUME EndInv, NEW m \in Machine, NEW n \in Dial, OnPairConfirm(m, n)
  PROVE  DialsGo /\ \A x \in Machine : Move(x)
<1>1. PICK messages \in Seq(Message) :
        /\ news' = Sent(After(m, n), m, messages)
        /\ Finish(m) \/ Abandon(m)
  <2>1. Answer(pending[m]) \in Seq(Message)
    <3>1. InPairing(m) /\ pending[m].code # NoCode
      BY DEF OnPairConfirm
    <3> QED
      BY <3>1, OwnProof DEF Answer, EndInv
  <2>2. <<Rejection>> \in Seq(Message)
    BY MessageParts
  <2> QED
    BY <2>1, <2>2 DEF OnPairConfirm
<1>2. news[m][n] # <<>> /\ Head(news[m][n]) # SessionNews /\ held' = held
  BY DEF OnPairConfirm, SessionNews
<1>3. \A x \in Machine, k \in Dial : Heard(x, k, SessionNews) => Heard(x, k, SessionNews)'
  BY <1>1, <1>2, ControlLeavesSessions
<1>4. CASE Abandon(m)
  BY <1>2, <1>3, <1>4, AbandonMoves
<1>5. CASE Finish(m)
  <2>1. UNCHANGED <<session, dial>> /\ trust' = [trust EXCEPT ![m] = "paired"]
        /\ pending' = [pending EXCEPT ![m] = NoPairing]
    BY <1>5 DEF Finish
  <2>2. ASSUME NEW x \in Machine PROVE Move(x)
    <3>1. CASE x = m
      <4>1. trust'[m] = "paired"
        BY <2>1 DEF EndInv, Inv, Types
      <4> QED
        BY <1>2, <1>3, <2>1, <3>1, <4>1 DEF Move, ComesToTrust, Holding, Hears
    <3>2. CASE x # m
      <4>1. trust'[x] = trust[x] /\ pending'[x] = pending[x]
        BY <2>1, <3>2 DEF EndInv, Inv, Types
      <4> QED
        BY <1>2, <1>3, <2>1, <4>1, BystanderStays
    <3> QED
      BY <3>1, <3>2
  <2> QED
    BY <2>1, <2>2, SameGoes
<1> QED
  BY <1>1, <1>4, <1>5

LEMMA OnPairResultMoves ==
  ASSUME EndInv, NEW m \in Machine, NEW n \in Dial, OnPairResult(m, n)
  PROVE  DialsGo /\ \A x \in Machine : Move(x)
<1>1. /\ news[m][n] # <<>> /\ news' = After(m, n) /\ Abandon(m) /\ held' = held
      /\ Head(news[m][n]) # SessionNews
  BY DEF OnPairResult, Heard, SessionNews, Rejection
<1>2. <<>> \in Seq(Message)
  OBVIOUS
<1>3. \A x \in Machine, k \in Dial : Heard(x, k, SessionNews) => Heard(x, k, SessionNews)'
  BY <1>1, <1>2, ControlLeavesSessions
<1> QED
  BY <1>1, <1>3, AbandonMoves

LEMMA OnPumpGoneMoves ==
  ASSUME EndInv, NEW m \in Machine, NEW n \in Dial, OnPumpGone(m, n)
  PROVE  DialsGo /\ \A x \in Machine : Move(x)
<1>1. ~Heard(m, n, SessionNews) /\ news' = [news EXCEPT ![m][n] = <<>>] /\ UNCHANGED <<trust, held>>
  BY DEF OnPumpGone, SessionNews
<1>2. \A x \in Machine, k \in Dial : news'[x][k] = IF x = m /\ k = n THEN <<>> ELSE news[x][k]
  BY <1>1 DEF EndInv, Inv, Honest
<1>3. \A x \in Machine, k \in Dial : Heard(x, k, SessionNews) => Heard(x, k, SessionNews)'
  BY <1>1, <1>2 DEF Heard
<1>4. CASE session[m] \in {0, n}
  <2>1. /\ session' = [session EXCEPT ![m] = 0] /\ dial' = Closed(session[m])
        /\ pending' = [pending EXCEPT ![m] = NoPairing]
    BY <1>4 DEF OnPumpGone, PeerGone
  <2>2. DialsGo /\ (session[m] # 0 => dial'[session[m]].stage # "up")
    BY <1>4, <2>1, ClosedGoes DEF EndInv, Inv
  <2>3. ASSUME NEW x \in Machine PROVE Move(x)
    <3>1. CASE x = m
      <4>1. session'[m] = 0
        BY <2>1 DEF EndInv, Inv, Types
      <4> QED
        BY <1>1, <1>3, <2>2, <3>1, <4>1 DEF Move, Leaves, Holding, Hears
    <3>2. CASE x # m
      <4>1. pending'[x] = pending[x] /\ session'[x] = session[x]
        BY <2>1, <3>2 DEF EndInv, Inv, Types
      <4> QED
        BY <1>1, <1>3, <4>1, BystanderStays
    <3> QED
      BY <3>1, <3>2
  <2> QED
    BY <2>2, <2>3
<1>5. CASE session[m] \notin {0, n}
  <2>1. UNCHANGED <<session, dial, pending>>
    BY <1>5 DEF OnPumpGone
  <2> QED
    BY <1>1, <1>3, <2>1, SameGoes, BystanderStays
<1> QED
  BY <1>4, <1>5

LEMMA DialFailsMoves ==
  ASSUME EndInv, NEW n \in Dial, DialFails(n)
  PROVE  DialsGo /\ \A x \in Machine : Move(x)
<1> DEFINE failed == [stage |-> "failed", by |-> dial[n].by]
<1>1. /\ dial[n].stage = "trying" /\ dial' = [dial EXCEPT ![n] = failed]
      /\ UNCHANGED <<trust, session, pending, news, held>>
  BY DEF DialFails
<1>2. failed.stage = "failed"
  OBVIOUS
<1>3. DialsGo
  <2> HIDE DEF failed
  <2>1. dial'[n] = failed /\ \A k \in Dial : k # n => dial'[k] = dial[k]
    BY <1>1 DEF EndInv, Inv, Types
  <2> QED
    BY <1>1, <1>2, <2>1 DEF DialsGo, Connected
<1> QED
  BY <1>1, <1>3, BystanderStays DEF Heard

LEMMA RedialMoves ==
  ASSUME EndInv, NEW m \in Machine, Redial(m)
  PROVE  DialsGo /\ \A x \in Machine : Move(x)
<1>1. PICK n \in Dial : StartDial(m, n, FALSE, dial)
  BY DEF Redial
<1>2. Closed(0) = dial
  BY DEF Closed, IsUp
<1>3. DialsGo
  BY <1>1, <1>2, StartDialGoes DEF EndInv, Inv
<1>4. UNCHANGED <<trust, session, pending, news, held>>
  BY DEF Redial
<1> QED
  BY <1>3, <1>4, BystanderStays DEF Heard

LEMMA BeginPairingMoves ==
  ASSUME EndInv, NEW m \in Machine, BeginPairing(m)
  PROVE  DialsGo /\ \A x \in Machine : Move(x)
<1>1. PICK n \in Dial : StartDial(m, n, TRUE, Closed(session[m]))
  BY DEF BeginPairing
<1>2. session[m] \in Dial \union {0}
  BY DEF EndInv, Inv, Types
<1>3. DialsGo /\ (session[m] # 0 => dial'[session[m]].stage # "up")
  BY <1>1, <1>2, StartDialGoes DEF EndInv, Inv
<1>4. /\ session' = [session EXCEPT ![m] = 0] /\ pending' = [pending EXCEPT ![m] = NoPairing]
      /\ UNCHANGED <<trust, news, held>>
  BY DEF BeginPairing
<1>5. ASSUME NEW x \in Machine PROVE Move(x)
  <2>1. CASE x = m
    <3>1. session'[m] = 0
      BY <1>4 DEF EndInv, Inv, Types
    <3> QED
      BY <1>3, <1>4, <2>1, <3>1 DEF Move, Leaves, Holding, Hears, Heard
  <2>2. CASE x # m
    <3>1. pending'[x] = pending[x] /\ session'[x] = session[x]
      BY <1>4, <2>2 DEF EndInv, Inv, Types
    <3> QED
      BY <1>4, <3>1, BystanderStays DEF Heard
  <2> QED
    BY <2>1, <2>2
<1> QED
  BY <1>3, <1>5

LEMMA ConfirmPairingMoves ==
  ASSUME EndInv, NEW m \in Machine, ConfirmPairing(m)
  PROVE  DialsGo /\ \A x \in Machine : Move(x)
<1>1. PICK code \in Code :
        /\ pending' = [pending EXCEPT ![m].code = code]
        /\ Holds(m, pending[m].conn, code)
        /\ news' = Sent(news, m, <<Proof(pending[m].conn, code)>>)
  BY DEF ConfirmPairing
<1>2. UNCHANGED <<trust, session, dial>>
  BY DEF ConfirmPairing
<1>3. /\ pending[m] \in [conn : Dial, mine : BOOLEAN, code : Code \union {NoCode}]
      /\ pending[m].conn = session[m] /\ session[m] \in Dial
  BY DEF ConfirmPairing, EndInv, Inv, ExchangeOf, Types, Pendings, InPairing
<1>4. \A x \in Machine, k \in Dial : Heard(x, k, SessionNews) => Heard(x, k, SessionNews)'
  <2> DEFINE messages == <<Proof(pending[m].conn, code)>>
  <2>1. messages \in Seq(Message)
    BY <1>3, MessageParts
  <2>2. news' = Sent(news, m, messages) /\ Types /\ Honest(news, held)
    BY <1>1 DEF EndInv, Inv
  <2> HIDE DEF messages
  <2> QED
    BY <2>1, <2>2, SentNews DEF Heard
<1>5. \A x \in Machine, k \in Dial : x # m \/ k # session[m] => held'[k][x] = held[k][x]
  BY <1>1, <1>3 DEF Holds, EndInv, Inv, Types
<1>6. ASSUME NEW x \in Machine PROVE Move(x)
  <2>1. CASE x = m
    <3>1. pending'[m] = [pending[m] EXCEPT !.code = code]
      BY <1>1 DEF EndInv, Inv, Types
    <3>2. pending'[m].code = code /\ pending'[m].conn \in Dial
      BY <1>3, <3>1
    <3>3. code # NoCode
      BY PairingAssumption DEF NoCode
    <3>4. pending'[m] # NoPairing
      BY <3>2 DEF NoPairing, Dial
    <3>5. Ready(m, session[m])'
      BY <3>2, <3>3, <3>4 DEF Ready, InPairing
    <3>6. TypesCode(m)
      BY <1>2, <1>3, <1>4, <1>5, <3>5 DEF TypesCode, Hears
    <3> QED
      BY <2>1, <3>6 DEF Move
  <2>2. CASE x # m
    <3>1. pending'[x] = pending[x]
      BY <1>1, <2>2 DEF EndInv, Inv, Types
    <3> QED
      BY <1>2, <1>4, <1>5, <2>2, <3>1, BystanderStays
  <2> QED
    BY <2>1, <2>2
<1> QED
  BY <1>2, <1>6, SameGoes

LEMMA BreakMoves ==
  ASSUME EndInv, NEW n \in Dial, Break(n)
  PROVE  DialsGo /\ \A x \in Machine : Move(x)
<1>1. DialsGo
  BY ClosedGoes DEF Break, EndInv, Inv
<1>2. UNCHANGED <<trust, session, pending, news, held>>
  BY DEF Break
<1> QED
  BY <1>1, <1>2, BystanderStays DEF Heard

LEMMA RestartMoves ==
  ASSUME EndInv, NEW m \in Machine, Restart(m)
  PROVE  DialsGo /\ \A x \in Machine : Move(x)
<1>1. ASSUME NEW n \in Dial, dial[n].stage = "up"
      PROVE  dial'[n].stage = "down" /\ dial'[n].paired = dial[n].paired
  <2>1. dial[n] \in [stage : {"up", "down"}, by : Machine, pairing : BOOLEAN, paired : [Machine -> BOOLEAN]]
    BY <1>1 DEF EndInv, Inv, Types, Dials, Unused
  <2>2. dial'[n] = [dial[n] EXCEPT !.stage = "down"]
    BY <1>1 DEF Restart
  <2> QED
    BY <2>1, <2>2
<1>2. ASSUME NEW n \in Dial, dial[n].stage # "up"
      PROVE  dial'[n] = dial[n] \/ (dial[n].stage = "trying" /\ dial'[n].stage = "failed")
  BY <1>2 DEF Restart
<1>3. ASSUME NEW n \in Dial PROVE dial'[n].stage # "up"
  BY <1>1, <1>2
<1>4. DialsGo
  BY <1>1, <1>2 DEF DialsGo, Connected
<1>5. /\ session' = [session EXCEPT ![m] = 0] /\ pending' = [pending EXCEPT ![m] = NoPairing]
      /\ UNCHANGED <<trust, held>>
  BY DEF Restart
<1>6. ASSUME NEW x \in Machine PROVE Move(x)
  <2>1. CASE x = m
    <3>1. session'[m] = 0 /\ session[m] \in Dial \union {0}
      BY <1>5 DEF EndInv, Inv, Types
    <3> QED
      BY <1>3, <1>5, <2>1, <3>1 DEF Move, Leaves, Holding, Hears
  <2>2. CASE x # m
    <3>1. pending'[x] = pending[x] /\ session'[x] = session[x]
      BY <1>5, <2>2 DEF EndInv, Inv, Types
    <3> QED
      BY <1>3, <1>5, <3>1 DEF Move, Stays, Holding, Hears
  <2> QED
    BY <2>1, <2>2
<1> QED
  BY <1>4, <1>6

-----------------------------------------------------------------------------
LEMMA ConnectOwn ==
  ASSUME EndInv, NEW n \in Dial, Connect(n), NEW x \in Machine, Own(x)
  PROVE  Own(x)'
<1> DEFINE m == dial[n].by
           o == Other(m)
           judged == [y \in Machine |-> IF y = m THEN dial[n].known = "paired" ELSE admits[o] = "paired"]
           up == [stage |-> "up", by |-> m, pairing |-> dial[n].pairing, paired |-> judged]
<1>1. m \in Machine /\ dial[n].stage = "trying"
  <2>1. dial[n] \in Dials /\ dial[n].stage = "trying"
    BY DEF Connect, EndInv, Inv, Types
  <2> QED
    BY <2>1 DEF Dials, Unused
<1>2. dial'[n] = up /\ \A k \in Dial : k # n => dial'[k] = dial[k]
  <2>1. dial' = [dial EXCEPT ![n] = up]
    BY DEF Connect
  <2> HIDE DEF up
  <2> QED
    BY <2>1 DEF EndInv, Inv, Types
<1>3. up.stage = "up" /\ up.paired[x] = judged[x]
  OBVIOUS
<1>4. judged[x] = IF x = m THEN dial[n].known = "paired" ELSE admits[x] = "paired"
  BY <1>1, OtherMachine
<1>5. UNCHANGED <<trust, session, pending, held>> /\ admits' = [admits EXCEPT ![o] = trust[o]]
  BY DEF Connect
<1>6. \A k \in Dial : news'[x][k] = IF k = n THEN <<SessionNews>> ELSE news[x][k]
  BY DEF Connect, SessionNews, EndInv, Inv, Honest
<1>7. admits'[x] \in {admits[x], trust[x]}
  BY <1>5 DEF EndInv, Inv, Types
<1> HIDE DEF judged, up
<1>8. NotTaken(x)'
  <2> SUFFICES ASSUME trust[x] # "paired" PROVE NotTaken(x)'
    BY <1>5 DEF NotTaken
  <2>1. /\ admits[x] # "paired" /\ admits'[x] # "paired"
        /\ \A k \in Dial : /\ dial[k].stage = "trying" /\ dial[k].by = x => dial[k].known # "paired"
                           /\ Connected(k) => ~dial[k].paired[x]
    BY <1>7 DEF Own, NotTaken
  <2>2. dial'[n].stage # "trying" /\ ~dial'[n].paired[x]
    BY <1>1, <1>2, <1>3, <1>4, <2>1
  <2>3. ASSUME NEW k \in Dial
        PROVE  /\ dial'[k].stage = "trying" /\ dial'[k].by = x => dial'[k].known # "paired"
               /\ Connected(k)' => ~dial'[k].paired[x]
    BY <1>2, <2>1, <2>2 DEF Connected
  <2> QED
    BY <2>1, <2>3 DEF NotTaken
<1>9. Attends(x)'
  <2>1. session'[x] # 0 => Connected(session[x])'
    <3>1. session[x] # 0 => session[x] \in Dial /\ session[x] # n
      BY <1>1 DEF Own, Attends, Connected, EndInv, Inv, Types
    <3> QED
      BY <1>2, <1>5, <3>1 DEF Own, Attends, Connected
  <2>2. ASSUME NEW k \in Dial, dial'[k].stage = "up"
        PROVE  session'[x] = k \/ Heard(x, k, SessionNews)'
    BY <1>2, <1>5, <1>6, <2>2 DEF Own, Attends, Heard
  <2> QED
    BY <2>1, <2>2 DEF Attends
<1>10. HoldsOn(x)'
  <2> SUFFICES ASSUME NEW k \in Dial, held'[k][x] # {}
               PROVE  /\ Connected(k)'
                      /\ dial'[k].stage = "up" /\ trust'[x] # "paired" => Ready(x, k)'
    BY DEF HoldsOn
  <2>1. Connected(k) /\ k # n
    BY <1>1, <1>5 DEF Own, HoldsOn, Connected
  <2> QED
    BY <1>2, <1>5, <2>1 DEF Own, HoldsOn, Connected, Ready, InPairing
<1> QED
  BY <1>8, <1>9, <1>10 DEF Own

(* ForgetPeer is the one step that forgets.                                *)
LEMMA StepsMove ==
  ASSUME EndInv, PairingNext, ~forgotten'
  PROVE  /\ ~forgotten
         /\ \A x \in Machine : trust'[x] \in {trust[x], "paired"} /\ admits'[x] \in {admits[x], trust[x]}
         /\ \/ \E n \in Dial : Connect(n)
            \/ DialsGo /\ \A x \in Machine : Move(x)
<1> DEFINE Goal == /\ ~forgotten
                   /\ \A x \in Machine : trust'[x] \in {trust[x], "paired"} /\ admits'[x] \in {admits[x], trust[x]}
                   /\ \/ \E n \in Dial : Connect(n)
                      \/ DialsGo /\ \A x \in Machine : Move(x)
<1> USE DEF EndInv, Inv, Types
<1>1. ASSUME NEW m \in Machine, NEW n \in Dial, OnNews(m, n) PROVE Goal
  <2>1. UNCHANGED <<admits, forgotten>>
    BY <1>1 DEF OnNews, OnSecondSession, OnTrustedSession, OnPairingSession, OnEarlyConfirm, OnPairConfirm,
       OnPairResult, OnPumpGone, Listening
  <2>2. trust' = trust \/ trust' = [trust EXCEPT ![m] = "paired"]
    BY <1>1 DEF OnNews, OnSecondSession, OnTrustedSession, OnPairingSession, OnEarlyConfirm, OnPairConfirm,
       OnPairResult, OnPumpGone, Abandon, Finish
  <2>3. DialsGo /\ \A x \in Machine : Move(x)
    BY <1>1, OnSecondSessionMoves, OnTrustedSessionMoves, OnPairingSessionMoves, OnEarlyConfirmMoves,
       OnPairConfirmMoves, OnPairResultMoves, OnPumpGoneMoves DEF OnNews
  <2> QED
    BY <2>1, <2>2, <2>3
<1>2. ASSUME NEW n \in Dial, DialResolves(n) \/ Break(n) PROVE Goal
  <2>1. /\ UNCHANGED <<trust, forgotten>>
        /\ \A x \in Machine : admits'[x] \in {admits[x], trust[x]}
    BY <1>2 DEF DialResolves, Connect, DialFails, AcceptsAgain, Break
  <2>2. Connect(n) \/ (DialsGo /\ \A x \in Machine : Move(x))
    BY <1>2, DialFailsMoves, BreakMoves DEF DialResolves
  <2> QED
    BY <2>1, <2>2
<1>3. ASSUME NEW m \in Machine, SweepPairing(m) \/ CancelPairing(m) PROVE Goal
  <2>1. Abandon(m) /\ UNCHANGED <<news, held, admits, forgotten, trust>>
    BY <1>3 DEF SweepPairing, CancelPairing, Listening, Abandon
  <2>2. DialsGo /\ \A x \in Machine : Move(x)
    BY <2>1, AbandonMoves DEF Heard
  <2> QED
    BY <2>1, <2>2
<1>4. ASSUME NEW m \in Machine, Redial(m) \/ BeginPairing(m) \/ ConfirmPairing(m) \/ Restart(m)
      PROVE  Goal
  <2>1. /\ UNCHANGED <<trust, forgotten>>
        /\ \A x \in Machine : admits'[x] \in {admits[x], trust[x]}
    <3>1. CASE Restart(m)
      <4>1. admits' = [admits EXCEPT ![m] = trust[m]] /\ UNCHANGED <<trust, forgotten>>
        BY <3>1 DEF Restart
      <4> QED
        BY <4>1
    <3>2. CASE Redial(m) \/ BeginPairing(m) \/ ConfirmPairing(m)
      <4>1. UNCHANGED <<trust, admits, forgotten>>
        BY <3>2 DEF Redial, BeginPairing, ConfirmPairing
      <4> QED
        BY <4>1
    <3> QED
      BY <1>4, <3>1, <3>2
  <2>2. DialsGo /\ \A x \in Machine : Move(x)
    BY <1>4, RedialMoves, BeginPairingMoves, ConfirmPairingMoves, RestartMoves
  <2> QED
    BY <2>1, <2>2
<1>5. ASSUME NEW m \in Machine, ForgetPeer(m) PROVE FALSE
  BY <1>5 DEF ForgetPeer
<1> QED
  BY <1>1, <1>2, <1>3, <1>4, <1>5 DEF PairingNext

LEMMA OwnAgain ==
  ASSUME EndInv, PairingNext, ~forgotten', NEW x \in Machine, Own(x)
  PROVE  Own(x)'
BY StepsMove, ConnectOwn, OwnKept DEF Move

LEMMA HeldGrows ==
  ASSUME EndInv, PairingNext
  PROVE  \A n \in Dial, x \in Machine : held[n][x] \subseteq held'[n][x]
<1> DEFINE Goal == \A n \in Dial, x \in Machine : held[n][x] \subseteq held'[n][x]
<1>1. ASSUME NEW m \in Machine, NEW n \in Dial, NEW code, held' = [held EXCEPT ![n][m] = @ \union {code}]
      PROVE  Goal
  BY <1>1 DEF EndInv, Inv, Types
<1>2. ASSUME NEW m \in Machine, NEW n \in Dial, OnPairingSession(m, n)
      PROVE  Goal
  <2>1. held' = held \/ held' = [held EXCEPT ![n][m] = @ \union {offered[m]}]
    BY <1>2 DEF OnPairingSession
  <2> QED
    BY <1>1, <2>1
<1>3. ASSUME NEW m \in Machine, ConfirmPairing(m)
      PROVE  Goal
  <2>1. PICK code \in Code : held' = [held EXCEPT ![pending[m].conn][m] = @ \union {code}]
    BY <1>3 DEF ConfirmPairing, Holds
  <2>2. pending[m].conn \in Dial
    BY <1>3 DEF ConfirmPairing, EndInv, Inv, ExchangeOf
  <2> QED
    BY <1>1, <2>1, <2>2
<1>4. ASSUME NEW m \in Machine, NEW n \in Dial, OnNews(m, n), ~OnPairingSession(m, n)
      PROVE  held' = held
  BY <1>4 DEF OnNews, OnSecondSession, OnTrustedSession, OnEarlyConfirm, OnPairConfirm, OnPairResult, OnPumpGone
<1>5. ASSUME NEW n \in Dial, DialResolves(n) \/ Break(n)
      PROVE  held' = held
  BY <1>5 DEF DialResolves, Connect, DialFails, Break
<1>6. ASSUME NEW m \in Machine,
             SweepPairing(m) \/ Redial(m) \/ BeginPairing(m) \/ CancelPairing(m) \/ ForgetPeer(m) \/ Restart(m)
      PROVE  held' = held
  BY <1>6 DEF SweepPairing, Redial, BeginPairing, CancelPairing, ForgetPeer, Restart
<1> QED
  BY <1>2, <1>3, <1>4, <1>5, <1>6 DEF PairingNext

-----------------------------------------------------------------------------
(* What becomes of a message in a queue.                                   *)

LEMMA AfterQueue ==
  ASSUME Honest(news, held), NEW m \in Machine, NEW n \in Dial, news[m][n] # <<>>,
         NEW o \in Machine, NEW k \in Dial, NEW message, InQueue(news, o, k, message),
         ~(o = m /\ k = n /\ Head(news[m][n]) = message)
  PROVE  InQueue(After(m, n), o, k, message)
<1>1. CASE o # m \/ k # n
  BY <1>1, AfterNews DEF InQueue
<1>2. CASE o = m /\ k = n
  <2> DEFINE q == news[m][n]
  <2>1. q \in Seq(Message)
    BY DEF Honest
  <2>2. After(m, n)[m][n] = Tail(q)
    BY DEF After, Honest
  <2>3. PICK i \in DOMAIN q : q[i] = message
    BY <1>2 DEF InQueue
  <2> HIDE DEF q
  <2>4. DOMAIN q = 1 .. Len(q) /\ Head(q) = q[1] /\ Len(q) \in Nat
    BY <2>1, <2>3, LenProperties, HeadTailProperties
  <2>5. i # 1 /\ q # <<>>
    BY <1>2, <2>3, <2>4 DEF q
  <2>6. i - 1 \in DOMAIN Tail(q) /\ Tail(q)[i - 1] = q[i]
    BY <2>1, <2>3, <2>4, <2>5, HeadTailProperties, LenProperties
  <2> QED
    BY <1>2, <2>2, <2>3, <2>6 DEF InQueue
<1> QED
  BY <1>1, <1>2

LEMMA SentQueue ==
  ASSUME Types, NEW queue, NEW known, Honest(queue, known), NEW m \in Machine,
         NEW messages \in Seq(Message)
  PROVE  /\ \A x \in Machine, n \in Dial : \A message :
              InQueue(queue, x, n, message) => InQueue(Sent(queue, m, messages), x, n, message)
         /\ IsUp(session[m]) =>
              \A i \in DOMAIN messages : InQueue(Sent(queue, m, messages), Other(m), session[m], messages[i])
<1>1. CASE ~IsUp(session[m])
  BY <1>1 DEF Sent
<1>2. CASE IsUp(session[m])
  <2> DEFINE o == Other(m)
             k == session[m]
             old == queue[o][k]
             q == old \o messages
  <2>1. o \in Machine /\ k \in Dial
    BY <1>2, OtherMachine DEF IsUp, Types
  <2>2. old \in Seq(Message)
    BY <2>1 DEF Honest
  <2>3. \A i \in DOMAIN old : i \in DOMAIN q /\ q[i] = old[i]
    <3> HIDE DEF old
    <3> QED
      BY <2>2, ConcatProperties, LenProperties
  <2>4. \A i \in DOMAIN messages : Len(old) + i \in DOMAIN q /\ q[Len(old) + i] = messages[i]
    <3> HIDE DEF old
    <3> QED
      BY <2>2, ConcatProperties, LenProperties
  <2>5. Sent(queue, m, messages) = [queue EXCEPT ![o][k] = q]
    BY <1>2 DEF Sent
  <2>6. \A x \in Machine, n \in Dial :
          Sent(queue, m, messages)[x][n] = IF x = o /\ n = k THEN q ELSE queue[x][n]
    <3> HIDE DEF o, k, q
    <3> QED
      BY <2>1, <2>5 DEF Honest
  <2>7. ASSUME NEW x \in Machine, NEW n \in Dial, NEW message, InQueue(queue, x, n, message)
        PROVE  InQueue(Sent(queue, m, messages), x, n, message)
    <3>1. x = o /\ n = k => \E i \in DOMAIN old : old[i] = message
      BY <2>7 DEF InQueue
    <3> HIDE DEF o, k, old, q
    <3> QED
      BY <2>3, <2>6, <2>7, <3>1 DEF InQueue
  <2>8. ASSUME NEW i \in DOMAIN messages
        PROVE  InQueue(Sent(queue, m, messages), o, k, messages[i])
    <3> HIDE DEF o, k, old, q
    <3>1. Sent(queue, m, messages)[o][k] = q
      BY <2>1, <2>6
    <3> QED
      BY <2>4, <3>1 DEF InQueue
  <2> QED
    BY <2>7, <2>8
<1> QED
  BY <1>1, <1>2

(* A proof on a connection that stays up is still there after a step, or   *)
(* is what the step handles.                                               *)
LEMMA ProofsWait ==
  ASSUME EndInv, PairingNext, NEW o \in Machine, NEW k \in Dial, dial[k].stage = "up", dial'[k].stage = "up",
         NEW message, message.kind = "confirm", InQueue(news, o, k, message)
  PROVE  \/ InQueue(news', o, k, message)
         \/ (OnEarlyConfirm(o, k) \/ OnPairConfirm(o, k)) /\ Head(news[o][k]) = message
<1> DEFINE Goal == \/ InQueue(news', o, k, message)
                   \/ (OnEarlyConfirm(o, k) \/ OnPairConfirm(o, k)) /\ Head(news[o][k]) = message
<1>1. news' = news => Goal
  BY DEF InQueue
<1>2. ASSUME NEW m \in Machine, NEW n \in Dial, news[m][n] # <<>>, news' = After(m, n),
             Head(news[m][n]).kind # "confirm" \/ OnEarlyConfirm(m, n)
      PROVE  Goal
  <2>1. CASE o = m /\ k = n /\ Head(news[m][n]) = message
    BY <1>2, <2>1
  <2>2. CASE ~(o = m /\ k = n /\ Head(news[m][n]) = message)
    BY <1>2, <2>2, AfterQueue DEF EndInv, Inv
  <2> QED
    BY <2>1, <2>2
<1>3. ASSUME NEW m \in Machine, NEW n \in Dial, OnPairConfirm(m, n)
      PROVE  Goal
  <2>1. CASE o = m /\ k = n /\ Head(news[m][n]) = message
    BY <1>3, <2>1
  <2>2. CASE ~(o = m /\ k = n /\ Head(news[m][n]) = message)
    <3>1. PICK messages \in Seq(Message) : news' = Sent(After(m, n), m, messages)
      <4>1. InPairing(m) /\ pending[m].code # NoCode
        BY <1>3 DEF OnPairConfirm
      <4>2. Answer(pending[m]) \in Seq(Message)
        BY <4>1, OwnProof DEF Answer, EndInv
      <4>3. <<Rejection>> \in Seq(Message)
        BY MessageParts
      <4> QED
        BY <1>3, <4>2, <4>3 DEF OnPairConfirm
    <3>2. news[m][n] # <<>> /\ Honest(After(m, n), held)
      BY <1>3, AfterHonest DEF OnPairConfirm, EndInv, Inv
    <3>3. InQueue(After(m, n), o, k, message)
      BY <2>2, <3>2, AfterQueue DEF EndInv, Inv
    <3> QED
      BY <3>1, <3>2, <3>3, SentQueue DEF EndInv, Inv
  <2> QED
    BY <2>1, <2>2
<1>4. ASSUME NEW m \in Machine, NEW n \in Dial, OnPumpGone(m, n)
      PROVE  Goal
  <2>1. n # k /\ news' = [news EXCEPT ![m][n] = <<>>]
    BY <1>4 DEF OnPumpGone
  <2>2. news'[o][k] = news[o][k]
    BY <2>1 DEF EndInv, Inv, Honest
  <2> QED
    BY <2>2 DEF InQueue
<1>5. ASSUME NEW m \in Machine, NEW n \in Dial, OnNews(m, n)
      PROVE  Goal
  <2>1. CASE OnSecondSession(m, n) \/ OnTrustedSession(m, n) \/ OnPairingSession(m, n) \/ OnPairResult(m, n)
    <3>1. news[m][n] # <<>> /\ news' = After(m, n) /\ Head(news[m][n]).kind # "confirm"
      BY <2>1 DEF OnSecondSession, OnTrustedSession, OnPairingSession, OnPairResult, Heard, Rejection
    <3> QED
      BY <1>2, <3>1
  <2>2. CASE OnEarlyConfirm(m, n)
    BY <1>2, <2>2 DEF OnEarlyConfirm
  <2> QED
    BY <1>3, <1>4, <1>5, <2>1, <2>2 DEF OnNews
<1>6. ASSUME NEW n \in Dial, Connect(n)
      PROVE  Goal
  <2>1. n # k
    BY <1>6 DEF Connect
  <2>2. news'[o][k] = news[o][k]
    BY <1>6, <2>1 DEF Connect, EndInv, Inv, Honest
  <2> QED
    BY <2>2 DEF InQueue
<1>7. ASSUME NEW m \in Machine, ConfirmPairing(m)
      PROVE  Goal
  <2>1. PICK code \in Code : news' = Sent(news, m, <<Proof(pending[m].conn, code)>>)
    BY <1>7 DEF ConfirmPairing
  <2>2. pending[m].conn \in Dial
    BY <1>7 DEF ConfirmPairing, EndInv, Inv, ExchangeOf
  <2>3. <<Proof(pending[m].conn, code)>> \in Seq(Message)
    BY <2>2, MessageParts
  <2> QED
    BY <2>1, <2>3, SentQueue DEF EndInv, Inv
<1>8. ASSUME NEW m \in Machine, Restart(m)
      PROVE  FALSE
  <2>1. dial[k] \in [stage : {"up", "down"}, by : Machine, pairing : BOOLEAN, paired : [Machine -> BOOLEAN]]
    BY DEF EndInv, Inv, Types, Dials, Unused
  <2>2. dial'[k] = [dial[k] EXCEPT !.stage = "down"]
    BY <1>8 DEF Restart
  <2> QED
    BY <2>1, <2>2
<1>9. ASSUME \/ \E n \in Dial : DialFails(n) \/ Break(n)
             \/ \E m \in Machine : SweepPairing(m) \/ Redial(m) \/ BeginPairing(m) \/ CancelPairing(m) \/ ForgetPeer(m)
      PROVE  news' = news
  BY <1>9 DEF DialFails, Break, SweepPairing, Redial, BeginPairing, CancelPairing, ForgetPeer
<1> QED
  <2> HIDE DEF Goal
  <2>1. Goal
    BY <1>1, <1>5, <1>6, <1>7, <1>8, <1>9 DEF PairingNext, DialResolves
  <2> QED
    BY <2>1 DEF Goal

(* The machine that shows the code waits for the proof, and the other has  *)
(* typed one: a proof that nothing is done with finds neither.             *)
LEMMA SoughtStep ==
  ASSUME EndInv, PairingNext, ~forgotten', NEW o \in Machine, Own(o), NEW n \in Dial, NEW c \in Code,
         Connected(n), Sought(o, n, c), trust[o] = "stranger", trust'[o] = "stranger",
         dial[n].by = o \/ c \in held[n][o]
  PROVE  Sought(o, n, c)'
<1>1. Connected(n)' /\ (dial[n].stage = "down" => dial'[n].stage = "down")
  <2>1. ASSUME NEW k \in Dial, Connect(k)
        PROVE  dial'[n] = dial[n]
    <3>1. n # k
      BY <2>1 DEF Connect, Connected
    <3> QED
      BY <2>1, <3>1 DEF Connect, EndInv, Inv, Types
  <2> QED
    BY <2>1, StepsMove DEF DialsGo, Connected
<1>2. CASE dial[n].stage = "down" \/ dial'[n].stage # "up"
  BY <1>1, <1>2 DEF Sought, Connected
<1>3. CASE dial[n].stage = "up" /\ dial'[n].stage = "up"
  <2> DEFINE message == Proof(n, c)
  <2>1. InQueue(news, o, n, message) /\ message.kind = "confirm"
    BY <1>3 DEF Sought, Proof
  <2>2. CASE InQueue(news', o, n, message)
    BY <2>2 DEF Sought
  <2>3. CASE (OnEarlyConfirm(o, n) \/ OnPairConfirm(o, n)) /\ Head(news[o][n]) = message
    <3>1. session[o] = n /\ n # 0
      <4>1. Head(news[o][n]) # SessionNews
        BY <2>3 DEF Proof, SessionNews
      <4> QED
        BY <1>3, <4>1 DEF Own, Attends, Heard, Dial
    <3>2. InPairing(o)
      <4>1. ~dial[n].paired[o]
        BY DEF Own, NotTaken
      <4> QED
        BY <3>1, <4>1 DEF EndInv, Judged
    <3>3. pending[o].code # NoCode
      <4>1. CASE dial[n].by = o
        BY <3>1, <3>2, <4>1 DEF EndInv, Inv, ExchangeOf
      <4>2. CASE c \in held[n][o]
        BY <1>3, <4>2 DEF Own, HoldsOn, Ready
      <4> QED
        BY <4>1, <4>2
    <3>4. OnPairConfirm(o, n)
      BY <2>3, <3>2, <3>3 DEF OnEarlyConfirm
    <3>5. ~Finish(o)
      BY DEF Finish, EndInv, Inv, Types
    <3>6. Abandon(o)
      BY <3>4, <3>5 DEF OnPairConfirm
    <3>7. dial' = Closed(n)
      BY <3>1, <3>6 DEF Abandon, Reachable
    <3> QED
      BY <1>3, <3>7, ClosedEffect DEF EndInv, Inv
  <2> QED
    BY <1>3, <2>1, <2>2, <2>3, ProofsWait
<1> QED
  BY <1>2, <1>3 DEF Connected

(* A code that has been typed is one that ConfirmPairing has just proved,  *)
(* or belongs to an exchange that goes on.                                 *)
LEMMA WhereCodesComeFrom ==
  ASSUME EndInv, PairingNext, NEW x \in Machine, InPairing(x)',
         ~pending'[x].mine, pending'[x].code # NoCode
  PROVE  pending'[x] = pending[x] \/ ConfirmPairing(x)
<1>1. ASSUME NEW m \in Machine, NEW n \in Dial, OnPairingSession(m, n)
      PROVE  pending'[x] = pending[x]
  <2> DEFINE mine == dial[n].by = m
             p == [conn |-> n, mine |-> mine, code |-> IF mine THEN offered[m] ELSE NoCode]
  <2>1. pending' = pending \/ pending' = [pending EXCEPT ![m] = p]
    BY <1>1 DEF OnPairingSession
  <2>2. ~p.mine => p.code = NoCode
    OBVIOUS
  <2> HIDE DEF p
  <2> QED
    BY <2>1, <2>2 DEF EndInv, Inv, Types
<1>2. ASSUME NEW m \in Machine, NEW n \in Dial, OnNews(m, n), ~OnPairingSession(m, n)
      PROVE  pending'[x] = pending[x]
  <2>1. pending' = pending \/ pending' = [pending EXCEPT ![m] = NoPairing]
    BY <1>2 DEF OnNews, OnSecondSession, OnTrustedSession, OnEarlyConfirm, OnPairConfirm, OnPairResult,
       OnPumpGone, PeerGone, Abandon, Finish
  <2> QED
    BY <2>1 DEF InPairing, EndInv, Inv, Types
<1>3. ASSUME NEW n \in Dial, DialResolves(n) \/ Break(n)
      PROVE  pending'[x] = pending[x]
  BY <1>3 DEF DialResolves, Connect, DialFails, Break
<1>4. ASSUME NEW m \in Machine,
             \/ SweepPairing(m) \/ Redial(m) \/ BeginPairing(m) \/ CancelPairing(m) \/ ForgetPeer(m)
             \/ Restart(m)
      PROVE  pending'[x] = pending[x]
  <2>1. pending' = pending \/ pending' = [pending EXCEPT ![m] = NoPairing]
    BY <1>4 DEF SweepPairing, Redial, BeginPairing, CancelPairing, ForgetPeer, Restart, Abandon, PeerGone
  <2> QED
    BY <2>1 DEF InPairing, EndInv, Inv, Types
<1>5. ASSUME NEW m \in Machine, ConfirmPairing(m), m # x
      PROVE  pending'[x] = pending[x]
  BY <1>5 DEF ConfirmPairing, EndInv, Inv, Types
<1> QED
  BY <1>1, <1>2, <1>3, <1>4, <1>5 DEF PairingNext

LEMMA ProvedAgain ==
  ASSUME EndInv, EndInv', LoneInv, PairingNext, ~forgotten', NEW x \in Machine
  PROVE  Proved(x)'
<1> DEFINE o == Other(x)
<1>1. ~forgotten /\ o \in Machine /\ Own(o) /\ Own(x) /\ Proved(x)
  BY StepsMove, OtherMachine DEF LoneInv
<1> SUFFICES ASSUME InPairing(x)', ~pending'[x].mine, pending'[x].code # NoCode, trust'[o] = "stranger"
             PROVE  Sought(o, session[x], pending[x].code)'
  BY DEF Proved
<1>2. trust[o] = "stranger"
  BY <1>1, StepsMove
<1>3. /\ pending'[x].conn = session'[x] /\ session'[x] \in Dial
      /\ pending'[x].code \in Code
  BY DEF EndInv, Inv, ExchangeOf, Types, Pendings, InPairing
<1>4. CASE pending'[x] = pending[x]
  <2>1. InPairing(x)
    BY <1>4 DEF InPairing
  <2>2. session'[x] = session[x]
    BY <1>3, <1>4, <2>1 DEF EndInv, Inv, ExchangeOf
  <2>3. Sought(o, session[x], pending[x].code)
    BY <1>1, <1>2, <1>4, <2>1 DEF Proved
  <2>4. dial[session[x]].by = o
    <3>1. dial[session[x]].by # x /\ session[x] \in Dial /\ dial[session[x]] # Unused
      <4>1. pending[x].mine \in BOOLEAN /\ ~pending[x].mine
        BY <1>4, <2>1 DEF EndInv, Inv, Types, Pendings, InPairing
      <4>2. session[x] \in Dial /\ Made(session[x]) /\ pending[x].mine = (dial[session[x]].by = x)
        BY <2>1 DEF EndInv, Inv, ExchangeOf, Dial
      <4> QED
        BY <4>1, <4>2 DEF Made
    <3>2. dial[session[x]] \in Dials
      BY <3>1 DEF EndInv, Inv, Types
    <3>3. dial[session[x]].by \in Machine
      BY <3>1, <3>2 DEF Dials
    <3> QED
      BY <3>1, <3>3, OtherMachine
  <2>5. Connected(session[x])
    BY <1>1, <1>3, <2>2 DEF Own, Attends, Dial
  <2>6. \A n \in Dial, c \in Code : n = session[x] /\ c = pending[x].code => Sought(o, n, c)'
    BY <1>1, <1>2, <2>3, <2>4, <2>5, SoughtStep
  <2> QED
    BY <1>3, <1>4, <2>2, <2>6
<1>5. CASE ConfirmPairing(x)
  <2>1. PICK code \in Code :
          /\ pending' = [pending EXCEPT ![x].code = code]
          /\ news' = Sent(news, x, <<Proof(pending[x].conn, code)>>)
    BY <1>5 DEF ConfirmPairing
  <2> DEFINE n == session[x]
  <2>2. UNCHANGED <<session, dial>>
    BY <1>5 DEF ConfirmPairing
  <2>3. /\ pending[x] \in [conn : Dial, mine : BOOLEAN, code : Code \union {NoCode}]
        /\ pending[x].conn = n /\ n \in Dial
    BY <1>5 DEF ConfirmPairing, EndInv, Inv, ExchangeOf, Types, Pendings, InPairing
  <2>4. pending'[x].code = code
    <3>1. pending'[x] = [pending[x] EXCEPT !.code = code]
      BY <2>1 DEF EndInv, Inv, Types
    <3> QED
      BY <2>3, <3>1
  <2> DEFINE messages == <<Proof(n, code)>>
  <2>5. messages \in Seq(Message) /\ 1 \in DOMAIN messages /\ messages[1] = Proof(n, code)
    BY <2>3, MessageParts
  <2>6. news' = Sent(news, x, messages)
    BY <2>1, <2>3
  <2> HIDE DEF messages
  <2>7. IsUp(n) => InQueue(news', o, n, Proof(n, code))
    BY <2>5, <2>6, SentQueue DEF EndInv, Inv
  <2>8. Connected(n)
    BY <1>1, <2>3 DEF Own, Attends, Dial
  <2>9. Sought(o, n, code)'
    BY <2>2, <2>3, <2>7, <2>8 DEF Sought, IsUp, Connected, Dial
  <2> QED
    BY <2>2, <2>4, <2>9
<1> QED
  BY <1>4, <1>5, WhereCodesComeFrom

LEMMA LoneAgain ==
  ASSUME EndInv, LoneInv, PairingNext, ~forgotten', NEW x \in Machine
  PROVE  Lone(x)'
<1> DEFINE o == Other(x)
<1>1. ~forgotten /\ o \in Machine /\ Other(o) = x /\ Own(o) /\ Own(x) /\ Proved(x) /\ Lone(x)
  BY StepsMove, OtherMachine DEF LoneInv
<1> SUFFICES ASSUME trust'[x] = "paired", trust'[o] = "stranger"
             PROVE  \E n \in Dial : \E c \in held'[n][x] \intersect held'[n][o] : Sought(o, n, c)'
  BY DEF Lone
<1>2. trust[o] = "stranger"
  BY <1>1, StepsMove
<1>3. SUFFICES \E n \in Dial : \E c \in held[n][x] \intersect held[n][o] : Sought(o, n, c)'
  BY <1>1, HeldGrows
<1>4. ASSUME NEW n \in Dial, NEW c \in held[n][x] \intersect held[n][o], Sought(o, n, c)
      PROVE  Sought(o, n, c)'
  <2>1. c \in Code
    BY <1>1 DEF EndInv, Inv, Types
  <2>2. Connected(n)
    BY <1>1 DEF Own, HoldsOn
  <2> QED
    BY <1>1, <1>2, <1>4, <2>1, <2>2, SoughtStep
<1>5. CASE trust[x] = "paired"
  BY <1>1, <1>2, <1>4, <1>5 DEF Lone
<1>6. CASE trust[x] # "paired"
  <2>1. PICK k \in Dial : OnPairConfirm(x, k) /\ Accepts(pending[x], Head(news[x][k]))
    BY <1>6, WhereTrustComesFrom DEF EndInv
  <2>2. InPairing(x) /\ pending[x].code # NoCode /\ news[x][k] # <<>>
    BY <2>1 DEF OnPairConfirm
  <2>3. PICK n \in Dial, c \in Code :
          /\ session[x] = n /\ pending[x].conn = n /\ pending[x].code = c
          /\ c \in held[n][x]
    BY <2>2, OwnProof DEF EndInv
  <2>4. c \in held[n][o]
    <3>1. IsHonest(held, x, Head(news[x][k]))
      BY <2>2, AfterHonest DEF EndInv, Inv
    <3> QED
      BY <2>1, <2>3, <3>1 DEF Accepts, Proof, IsHonest
  <2>5. Connected(n)
    BY <1>1, <2>3 DEF Own, Attends, Dial
  <2>6. CASE ~pending[x].mine
    <3>1. Sought(o, n, c)
      BY <1>1, <1>2, <2>2, <2>3, <2>6 DEF Proved
    <3> QED
      BY <1>4, <2>3, <2>4, <3>1
  <2>7. CASE pending[x].mine
    <3> DEFINE messages == <<Proof(n, c)>>
    <3>1. messages \in Seq(Message) /\ 1 \in DOMAIN messages /\ messages[1] = Proof(n, c)
      BY <2>3, MessageParts
    <3>2. news' = Sent(After(x, k), x, messages) /\ dial' = dial
      BY <2>1, <2>3, <2>7 DEF OnPairConfirm, Finish, Answer
    <3>3. Honest(After(x, k), held)
      BY <2>2, AfterHonest DEF EndInv, Inv
    <3> HIDE DEF messages
    <3>4. IsUp(n) => InQueue(news', o, n, Proof(n, c))
      BY <2>3, <3>1, <3>2, <3>3, SentQueue DEF EndInv, Inv
    <3>5. Sought(o, n, c)'
      BY <2>3, <2>5, <3>2, <3>4 DEF Sought, IsUp, Connected, Dial
    <3> QED
      BY <2>3, <2>4, <3>5
  <2> QED
    BY <2>6, <2>7
<1> QED
  BY <1>5, <1>6

LEMMA InitLone == PairingInit => LoneInv
<1> SUFFICES ASSUME PairingInit, NEW x \in Machine
             PROVE  Own(x) /\ Proved(x) /\ Lone(x)
  BY DEF LoneInv
<1>1. NotTaken(x) /\ Attends(x) /\ HoldsOn(x)
  BY DEF PairingInit, NotTaken, Attends, HoldsOn, Connected, Unused
<1>2. Proved(x) /\ Lone(x)
  BY DEF PairingInit, Proved, Lone, InPairing
<1> QED
  BY <1>1, <1>2 DEF Own

LEMMA NextLone == EndInv /\ LoneInv /\ [PairingNext]_pairingVars => LoneInv'
<1> SUFFICES ASSUME EndInv, LoneInv, [PairingNext]_pairingVars PROVE LoneInv'
  OBVIOUS
<1>1. CASE UNCHANGED pairingVars
  <2>1. ASSUME NEW x \in Machine, Own(x) /\ Proved(x) /\ Lone(x)
        PROVE  (Own(x) /\ Proved(x) /\ Lone(x))'
    <3>1. (NotTaken(x) /\ Attends(x) /\ HoldsOn(x))'
      BY <1>1, <2>1 DEF pairingVars, Own, NotTaken, Attends, HoldsOn, Connected, Heard, Ready, InPairing
    <3>2. (Proved(x) /\ Lone(x))'
      BY <1>1, <2>1 DEF pairingVars, Proved, Lone, Sought, InQueue, InPairing
    <3> QED
      BY <3>1, <3>2 DEF Own
  <2> QED
    BY <1>1, <2>1 DEF pairingVars, LoneInv
<1>2. CASE PairingNext
  <2> SUFFICES ASSUME ~forgotten', NEW x \in Machine
               PROVE  Own(x)' /\ Proved(x)' /\ Lone(x)'
    BY DEF LoneInv
  <2>1. Own(x)
    BY StepsMove, <1>2 DEF LoneInv
  <2>2. EndInv'
    BY NextEnds
  <2> QED
    BY <1>2, <2>1, <2>2, OwnAgain, ProvedAgain, LoneAgain
<1> QED
  BY <1>1, <1>2

(* The machine that shows the code trusts first (finish_pairing), and the  *)
(* other when the proof it is sent in return arrives (on_pair_confirm).    *)
(* As long as neither has been forgotten, that only one of them trusts the *)
(* other means that this proof is still in the queue of the other, or went *)
(* with the connection it was sent on: a proof that arrives on a           *)
(* connection in use finds the exchange, and the code it is a proof of.    *)
THEOREM PairingLoneTrust == PairingSpec => []LoneTrustIsUnderWay
<1>1. LoneInv => LoneTrustIsUnderWay
  BY DEF LoneInv, Lone, Sought, InQueue, LoneTrustIsUnderWay
<1> QED
  BY <1>1, InitEnds, NextEnds, InitLone, NextLone, PTL DEF PairingSpec

=============================================================================

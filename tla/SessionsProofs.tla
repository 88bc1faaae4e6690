---------------------------- MODULE SessionsProofs ----------------------------
(***************************************************************************)
(* Theorems about Sessions, for any number of dials, failures and          *)
(* misdials.                                                               *)
(***************************************************************************)
EXTENDS Sessions, SequenceTheorems, TLAPS

Kinds == {"session", "failed", "gone", "goodbye"}

QueueType == [Machines -> Seq(Wake)]

-----------------------------------------------------------------------------
(* The engine's queue.                                                     *)

(* What a report is.                                                       *)
LEMMA ReportType ==
  /\ \A k \in Kinds, c \in Dials : Report(k, c) \in Wake
  /\ \A k, c, k2, c2 : Report(k, c) = Report(k2, c2) => k = k2 /\ c = c2
<1>1. \A k \in Kinds, c \in Dials : Report(k, c) \in Wake
  BY DEF Report, Wake, Kinds
<1>2. ASSUME NEW k, NEW c, NEW k2, NEW c2, Report(k, c) = Report(k2, c2)
      PROVE  k = k2 /\ c = c2
  <2>1. /\ Report(k, c).kind = k /\ Report(k, c).conn = c
        /\ Report(k2, c2).kind = k2 /\ Report(k2, c2).conn = c2
    BY DEF Report
  <2> QED
    BY <2>1, <1>2
<1> QED
  BY <1>1, <1>2

(* A wake taken: the others move up by one.                                *)
LEMMA TakesType ==
  ASSUME TypeOK, NEW m \in Machines, NEW k, NEW c, Takes(m, k, c)
  PROVE  /\ queue' \in QueueType
         /\ \A n \in Machines : n # m => queue'[n] = queue[n]
         /\ Len(queue[m]) > 0
         /\ queue[m][1] = Report(k, c)
         /\ Len(queue'[m]) = Len(queue[m]) - 1
         /\ \A i \in 1 .. Len(queue'[m]) : queue'[m][i] = queue[m][i + 1]
<1>1. queue \in QueueType /\ queue[m] \in Seq(Wake) /\ queue[m] # <<>>
  BY DEF TypeOK, QueueType, Takes
<1>2. /\ Tail(queue[m]) \in Seq(Wake)
      /\ Len(Tail(queue[m])) = Len(queue[m]) - 1
      /\ \A i \in 1 .. Len(Tail(queue[m])) : Tail(queue[m])[i] = queue[m][i + 1]
  BY <1>1, HeadTailProperties
<1>3. queue' = [queue EXCEPT ![m] = Tail(queue[m])]
  BY DEF Takes
<1>4. queue'[m] = Tail(queue[m]) /\ \A n \in Machines : n # m => queue'[n] = queue[n]
  BY <1>1, <1>3 DEF QueueType
<1>5. queue' \in QueueType
  BY <1>1, <1>2, <1>3 DEF QueueType
<1>6. Len(queue[m]) > 0 /\ queue[m][1] = Report(k, c)
  BY <1>1, EmptySeq DEF Takes
<1> QED
  BY <1>2, <1>4, <1>5, <1>6

(* A wake queued.                                                          *)
LEMMA WakesType ==
  ASSUME TypeOK, NEW m \in Machines, NEW k \in Kinds, NEW c \in Dials, Wakes(m, k, c)
  PROVE  /\ queue' \in QueueType
         /\ \A n \in Machines : n # m => queue'[n] = queue[n]
         /\ Len(queue'[m]) = Len(queue[m]) + 1
         /\ \A i \in 1 .. Len(queue[m]) : queue'[m][i] = queue[m][i]
         /\ queue'[m][Len(queue[m]) + 1] = Report(k, c)
<1>1. queue \in QueueType /\ queue[m] \in Seq(Wake) /\ Report(k, c) \in Wake
  BY ReportType DEF TypeOK, QueueType
<1>2. queue' = [queue EXCEPT ![m] = Append(queue[m], Report(k, c))]
  BY DEF Wakes
<1> DEFINE a == Append(queue[m], Report(k, c))
<1>3. /\ a \in Seq(Wake)
      /\ Len(a) = Len(queue[m]) + 1
      /\ \A i \in 1 .. Len(queue[m]) : a[i] = queue[m][i]
      /\ a[Len(queue[m]) + 1] = Report(k, c)
  BY <1>1, AppendProperties
<1>4. queue'[m] = a /\ \A n \in Machines : n # m => queue'[n] = queue[n]
  BY <1>1, <1>2 DEF QueueType
<1>5. queue' \in QueueType
  BY <1>1, <1>2, <1>3 DEF QueueType
<1> HIDE DEF a
<1> QED
  BY <1>3, <1>4, <1>5

(* What is queued stays queued until it is taken.                          *)
LEMMA TakesQueued ==
  ASSUME TypeOK, NEW m \in Machines, NEW k, NEW c, Takes(m, k, c),
         NEW n \in Machines, NEW k2, NEW c2, Queued(n, k2, c2),
         n # m \/ k2 # k \/ c2 # c
  PROVE  Queued(n, k2, c2)'
<1>1. PICK i \in 1 .. Len(queue[n]) : queue[n][i] = Report(k2, c2)
  BY DEF Queued
<1>2. CASE n # m
  BY <1>1, <1>2, TakesType DEF Queued
<1>3. CASE n = m
  <2>1. i # 1
    BY <1>1, <1>3, TakesType, ReportType
  <2>2. queue[m] \in Seq(Wake) /\ Len(queue[m]) \in Nat
    BY DEF TypeOK
  <2>3. i - 1 \in 1 .. Len(queue'[m]) /\ queue'[m][i - 1] = queue[m][(i - 1) + 1]
    BY <1>1, <1>3, <2>1, <2>2, TakesType
  <2>4. queue'[m][i - 1] = Report(k2, c2)
    BY <1>1, <1>3, <2>2, <2>3
  <2> QED
    BY <1>3, <2>3, <2>4 DEF Queued
<1> QED
  BY <1>2, <1>3

(* Nothing is lost by queueing a wake, and it is there.                    *)
LEMMA WakesQueued ==
  ASSUME TypeOK, NEW m \in Machines, NEW k \in Kinds, NEW c \in Dials, Wakes(m, k, c)
  PROVE  /\ \A n \in Machines : \A k2, c2 : Queued(n, k2, c2) => Queued(n, k2, c2)'
         /\ Queued(m, k, c)'
<1>1. Len(queue[m]) \in Nat
  BY DEF TypeOK
<1>2. ASSUME NEW n \in Machines, NEW k2, NEW c2, Queued(n, k2, c2)
      PROVE  Queued(n, k2, c2)'
  <2>1. PICK i \in 1 .. Len(queue[n]) : queue[n][i] = Report(k2, c2)
    BY <1>2 DEF Queued
  <2>2. i \in 1 .. Len(queue'[n]) /\ queue'[n][i] = queue[n][i]
    BY <1>1, <2>1, WakesType
  <2> QED
    BY <2>1, <2>2 DEF Queued
<1>3. Queued(m, k, c)'
  BY <1>1, WakesType DEF Queued
<1> QED
  BY <1>2, <1>3

-----------------------------------------------------------------------------
(* Types.                                                                  *)

LEMMA InitType == Init => TypeOK
<1> SUFFICES ASSUME Init PROVE TypeOK
  OBVIOUS
<1>1. queue \in [Machines -> Seq(Wake)]
  BY EmptySeq DEF Init
<1>2. alive \subseteq Dials /\ bye \subseteq Machines \X Dials \X {1, 2}
  BY DEF Init
<1>3. faults \in 0 .. MaxFaults /\ misdials \in 0 .. MaxMisdials
  BY SessionsAssumption DEF Init
<1>4. /\ session \in [Machines -> Dials \union {None}]
      /\ dialing \in [Machines -> Dials \union {None}]
      /\ status \in [Machines -> {"Down", "Connecting", "Connected"}]
      /\ waiting \in [Machines -> BOOLEAN]
      /\ known \in [Machines -> BOOLEAN]
      /\ enabled \in [Machines -> BOOLEAN]
      /\ grace \in BOOLEAN
      /\ task \in [Dials -> Machines \union {Nobody}]
      /\ end \in [Machines -> [Dials -> {"none", "setup", "pump"}]]
  BY DEF Init
<1> QED
  BY <1>1, <1>2, <1>3, <1>4 DEF TypeOK

(* The parts of the type invariant, by who changes them.                   *)
EngineType ==
  /\ session \in [Machines -> Dials \union {None}]
  /\ dialing \in [Machines -> Dials \union {None}]
  /\ status \in [Machines -> {"Down", "Connecting", "Connected"}]
  /\ waiting \in [Machines -> BOOLEAN]
  /\ known \in [Machines -> BOOLEAN]
  /\ enabled \in [Machines -> BOOLEAN]
  /\ grace \in BOOLEAN

NetworkType ==
  /\ task \in [Dials -> Machines \union {Nobody}]
  /\ alive \subseteq Dials
  /\ end \in [Machines -> [Dials -> {"none", "setup", "pump"}]]
  /\ bye \subseteq Machines \X Dials \X {1, 2}

CountType == faults \in 0 .. MaxFaults /\ misdials \in 0 .. MaxMisdials

LEMMA TypeParts ==
  /\ TypeOK <=> EngineType /\ queue \in QueueType /\ NetworkType /\ CountType
  /\ TypeOK' <=> EngineType' /\ queue' \in QueueType /\ NetworkType' /\ CountType'
BY DEF TypeOK, EngineType, QueueType, NetworkType, CountType

LEMMA FaultType == CountType /\ Fault => faults' \in 0 .. MaxFaults
BY SessionsAssumption DEF Fault, CountType

LEMMA MachineStepType ==
  ASSUME TypeOK, NEW m \in Machines, MachineStep(m)
  PROVE  TypeOK'
<1> USE TypeParts
<1>1. CASE Tick(m)
  <2>1. PICK d \in Dials : StartDial(m, d)
    BY <1>1 DEF Tick
  <2>2. EngineType' /\ NetworkType'
    BY <1>1, <2>1 DEF Tick, StartDial, EngineType, NetworkType
  <2> QED
    BY <1>1, <2>2 DEF Tick, CountType
<1>2. CASE Handle(m)
  <2>1. PICK c \in Dials : \/ HandleSession(m, c) \/ HandleGone(m, c)
                           \/ HandleGoodbye(m, c) \/ HandleFailed(m, c)
    BY <1>2 DEF Handle
  <2>2. \E k : Takes(m, k, c)
    BY <2>1 DEF HandleSession, HandleGone, HandleGoodbye, HandleFailed
  <2>3. queue' \in QueueType
    BY <2>2, TakesType
  <2>4. CountType'
    BY <2>1 DEF HandleSession, HandleGone, HandleGoodbye, HandleFailed, CountType
  <2>5. PeerGone(m) /\ UNCHANGED <<dialing, known, enabled, grace, task, end, bye>>
        => EngineType' /\ NetworkType'
    BY DEF PeerGone, Disconnected, EngineType, NetworkType
  <2>6. EngineType' /\ NetworkType'
    <3>1. CASE HandleSession(m, c)
      BY <3>1 DEF HandleSession, EngineType, NetworkType
    <3>2. CASE HandleGone(m, c)
      BY <2>5, <3>2 DEF HandleGone, EngineType, NetworkType
    <3>3. CASE HandleGoodbye(m, c)
      BY <2>5, <3>3 DEF HandleGoodbye
    <3>4. CASE HandleFailed(m, c)
      BY <3>4 DEF HandleFailed, Disconnected, EngineType, NetworkType, network
    <3> QED
      BY <2>1, <3>1, <3>2, <3>3, <3>4
  <2> QED
    BY <2>3, <2>4, <2>6
<1>3. CASE Found(m)
  BY <1>3 DEF Found, EngineType, NetworkType, CountType, network
<1>4. CASE Lost(m)
  BY <1>4, FaultType DEF Lost, EngineType, NetworkType, CountType, network
<1>5. CASE Disable(m)
  BY <1>5, FaultType DEF Disable, PeerGone, Disconnected, EngineType, NetworkType,
                         CountType
<1>6. CASE Enable(m)
  BY <1>6 DEF Enable, EngineType, NetworkType, CountType, network
<1>7. CASE BeginPairing(m)
  BY <1>7, FaultType DEF BeginPairing, StartDial, EngineType, NetworkType, CountType
<1>8. CASE BackoffOver(m)
  BY <1>8 DEF BackoffOver, EngineType, NetworkType, CountType, network
<1>9. Restart(m) => /\ EngineType'
                    /\ queue' \in QueueType
                    /\ task' \in [Dials -> Machines \union {Nobody}]
                    /\ end' \in [Machines -> [Dials -> {"none", "setup", "pump"}]]
                    /\ misdials' \in 0 .. MaxMisdials
  <2> SUFFICES ASSUME Restart(m)
               PROVE  /\ EngineType'
                      /\ queue' \in QueueType
                      /\ task' \in [Dials -> Machines \union {Nobody}]
                      /\ end' \in [Machines -> [Dials -> {"none", "setup", "pump"}]]
                      /\ misdials' \in 0 .. MaxMisdials
    OBVIOUS
  <2>1. EngineType' /\ misdials' \in 0 .. MaxMisdials
    BY DEF Restart, EngineType, CountType
  <2>2. queue' \in QueueType
    BY EmptySeq DEF Restart, QueueType
  <2>3. task' \in [Dials -> Machines \union {Nobody}]
    BY DEF Restart, NetworkType
  <2>4. end' \in [Machines -> [Dials -> {"none", "setup", "pump"}]]
    BY DEF Restart, NetworkType
  <2> QED
    BY <2>1, <2>2, <2>3, <2>4
<1>10. CASE Crash(m)
  <2>1. alive' \subseteq Dials /\ bye' \subseteq Machines \X Dials \X {1, 2}
    BY <1>10 DEF Crash, NetworkType
  <2> QED
    BY <1>9, <1>10, <2>1, FaultType DEF Crash, NetworkType, CountType
<1>11. CASE Shutdown(m)
  <2>1. alive' \subseteq Dials
    BY <1>11 DEF Shutdown, NetworkType
  <2>2. {Other(m)} \X ({session[m]} \ {None}) \X Goodbyes(m)
           \subseteq Machines \X Dials \X {1, 2}
    <3>1. Other(m) \in Machines
      BY DEF Other, Machines
    <3>2. {session[m]} \ {None} \subseteq Dials /\ Goodbyes(m) \subseteq {1, 2}
      BY DEF EngineType, Goodbyes
    <3> QED
      BY <3>1, <3>2
  <2>3. bye' \subseteq Machines \X Dials \X {1, 2}
    BY <1>11, <2>2 DEF Shutdown, NetworkType
  <2> QED
    BY <1>9, <1>11, <2>1, <2>3, FaultType DEF Shutdown, NetworkType, CountType
<1> QED
  BY <1>1, <1>2, <1>3, <1>4, <1>5, <1>6, <1>7, <1>8, <1>10, <1>11 DEF MachineStep

LEMMA DialStepType ==
  ASSUME TypeOK, NEW d \in Dials, DialStep(d)
  PROVE  TypeOK'
<1> USE TypeParts
<1>1. CASE Answer(d)
  BY <1>1 DEF Answer, EngineType, NetworkType, CountType, engine
<1>2. CASE Unreachable(d)
  <2>1. task[d] \in Machines
    BY <1>2 DEF Unreachable, Unanswered, NetworkType
  <2>2. queue' \in QueueType
    BY <1>2, <2>1, WakesType DEF Unreachable, Kinds
  <2> QED
    BY <1>2, <2>2, FaultType DEF Unreachable, EngineType, NetworkType, CountType, engine
<1>3. CASE Misdial(d)
  BY <1>3, SessionsAssumption
     DEF Misdial, Unanswered, EngineType, NetworkType, CountType, engine
<1>4. CASE Break(d)
  BY <1>4, FaultType DEF Break, EngineType, NetworkType, CountType, engine
<1>5. CASE IdleTimeout(d)
  BY <1>5 DEF IdleTimeout, EngineType, NetworkType, CountType, engine
<1>6. ASSUME NEW m \in Machines,
             Establish(m, d) \/ SetupFails(m, d) \/ PumpGoodbye(m, d) \/ PumpEnds(m, d)
      PROVE  TypeOK'
  <2>1. CASE Establish(m, d)
    <3>1. queue' \in QueueType
      BY <2>1, WakesType DEF Establish, Kinds
    <3> QED
      BY <2>1, <3>1 DEF Establish, EngineType, NetworkType, CountType, engine
  <2>2. CASE SetupFails(m, d)
    <3>1. queue' \in QueueType
      BY <2>2, WakesType DEF SetupFails, Kinds
    <3>2. faults' \in 0 .. MaxFaults
      BY <2>2, FaultType DEF SetupFails, CountType
    <3> QED
      BY <2>2, <3>1, <3>2
         DEF SetupFails, Unheard, EngineType, NetworkType, CountType, engine
  <2>3. CASE PumpGoodbye(m, d)
    <3>1. queue' \in QueueType
      BY <2>3, WakesType DEF PumpGoodbye, Kinds
    <3> QED
      BY <2>3, <3>1 DEF PumpGoodbye, EngineType, NetworkType, CountType, engine
  <2>4. CASE PumpEnds(m, d)
    <3>1. queue' \in QueueType
      BY <2>4, WakesType DEF PumpEnds, Kinds
    <3> QED
      BY <2>4, <3>1 DEF PumpEnds, Unheard, EngineType, NetworkType, CountType, engine
  <2> QED
    BY <1>6, <2>1, <2>2, <2>3, <2>4
<1> QED
  BY <1>1, <1>2, <1>3, <1>4, <1>5, <1>6 DEF DialStep

LEMMA TypeStep == TypeOK /\ [Next]_vars => TypeOK'
<1> SUFFICES ASSUME TypeOK, [Next]_vars PROVE TypeOK'
  OBVIOUS
<1>1. CASE GraceOver
  BY <1>1, TypeParts DEF GraceOver, EngineType, NetworkType, CountType, network
<1>2. CASE UNCHANGED vars
  BY <1>2 DEF vars, engine, network, TypeOK
<1> QED
  BY <1>1, <1>2, MachineStepType, DialStepType DEF Next

(* Every reachable state is well typed.                                    *)
THEOREM TypeCorrect == Spec => []TypeOK
  BY InitType, TypeStep, PTL DEF Spec

-----------------------------------------------------------------------------
(* What the engine knows.                                                  *)

(* A machine with a session waits for no dial: without this, the failure   *)
(* of a dial could mark a connected peer down.                             *)
StatusInv ==
  /\ TypeOK
  /\ StatusTellsTheTruth
  /\ \A m \in Machines : dialing[m] # None => session[m] = None

LEMMA StatusStep == StatusInv /\ [Next]_vars => StatusInv'
<1> SUFFICES ASSUME StatusInv, [Next]_vars PROVE StatusInv'
  OBVIOUS
<1>1. TypeOK /\ TypeOK'
  BY TypeStep DEF StatusInv
<1> DEFINE Good == /\ \A m \in Machines : status[m] = "Connected" <=> session[m] # None
                   /\ \A m \in Machines : dialing[m] # None => session[m] = None
<1>2. Good
  BY DEF StatusInv, StatusTellsTheTruth
<1>3. UNCHANGED <<session, dialing, status>> => Good'
  BY <1>2
<1>4. session \in [Machines -> Dials \union {None}] /\ \A d \in Dials : d # None
      /\ dialing \in [Machines -> Dials \union {None}]
      /\ status \in [Machines -> {"Down", "Connecting", "Connected"}]
  BY <1>1, SessionsAssumption DEF TypeOK, Dials, None
<1>5. ASSUME NEW m \in Machines, PeerGone(m), UNCHANGED dialing PROVE Good'
  BY <1>2, <1>4, <1>5 DEF PeerGone, Disconnected
<1>6. ASSUME NEW m \in Machines, MachineStep(m) PROVE Good'
  <2>1. CASE Tick(m)
    BY <1>2, <1>4, <2>1 DEF Tick, StartDial
  <2>2. CASE Handle(m)
    <3>1. PICK c \in Dials : \/ HandleSession(m, c) \/ HandleGone(m, c)
                             \/ HandleGoodbye(m, c) \/ HandleFailed(m, c)
      BY <2>2 DEF Handle
    <3>2. CASE HandleSession(m, c)
      BY <1>2, <1>4, <3>2 DEF HandleSession
    <3>3. CASE HandleGone(m, c)
      BY <1>3, <1>5, <3>3 DEF HandleGone
    <3>4. CASE HandleGoodbye(m, c)
      BY <1>5, <3>4 DEF HandleGoodbye
    <3>5. CASE HandleFailed(m, c)
      <4>1. CASE DialIsCurrent(m, c)
        BY <1>2, <1>4, <3>5, <4>1 DEF HandleFailed, DialIsCurrent, Disconnected
      <4>2. CASE ~DialIsCurrent(m, c)
        BY <1>3, <3>5, <4>2 DEF HandleFailed
      <4> QED
        BY <4>1, <4>2
    <3> QED
      BY <3>1, <3>2, <3>3, <3>4, <3>5
  <2>3. CASE Found(m) \/ Enable(m) \/ BackoffOver(m)
    BY <1>3, <2>3 DEF Found, Enable, BackoffOver
  <2>4. CASE Lost(m)
    BY <1>2, <1>4, <2>4 DEF Lost
  <2>5. CASE Disable(m)
    BY <1>5, <2>5 DEF Disable
  <2>6. CASE BeginPairing(m)
    BY <1>2, <1>4, <2>6 DEF BeginPairing, StartDial
  <2>7. CASE Crash(m) \/ Shutdown(m)
    <3>1. Restart(m)
      BY <2>7 DEF Crash, Shutdown
    <3> QED
      BY <1>2, <1>4, <3>1 DEF Restart
  <2> QED
    BY <1>6, <2>1, <2>2, <2>3, <2>4, <2>5, <2>6, <2>7 DEF MachineStep
<1>7. ASSUME NEW d \in Dials, DialStep(d) PROVE Good'
  <2>1. UNCHANGED engine
    BY <1>7 DEF DialStep, Answer, Unreachable, Misdial, Break, IdleTimeout, Establish,
                SetupFails, PumpGoodbye, PumpEnds
  <2> QED
    BY <1>3, <2>1 DEF engine
<1>8. GraceOver \/ UNCHANGED vars => UNCHANGED <<session, dialing, status>>
  BY DEF GraceOver, vars, engine
<1> HIDE DEF Good
<1>9. Good'
  BY <1>3, <1>6, <1>7, <1>8 DEF Next
<1> USE DEF Good
<1> QED
  BY <1>1, <1>9 DEF StatusInv, StatusTellsTheTruth

(* A peer is shown as connected exactly while there is a session with it.  *)
THEOREM StatusTruthful == Spec => []StatusTellsTheTruth
<1>1. Init => StatusInv
  BY InitType DEF Init, StatusInv, StatusTellsTheTruth
<1>2. StatusInv => StatusTellsTheTruth
  BY DEF StatusInv
<1> QED
  BY <1>1, <1>2, StatusStep, PTL DEF Spec

-----------------------------------------------------------------------------
(* Every dial reports.                                                     *)

UnderWay(n, d) ==
  \/ task[d] = n
  \/ Queued(n, "session", d)
  \/ Queued(n, "failed", d)

Promise(n) ==
  /\ status[n] = "Connecting" => dialing[n] # None
  /\ dialing[n] # None => UnderWay(n, dialing[n])

UnderWayInv == StatusInv /\ EveryDialIsUnderWay

LEMMA PromiseIsUnderWay ==
  /\ \A n \in Machines : Promise(n) <=> DialIsUnderWay(n)
  /\ \A n \in Machines : Promise(n)' <=> DialIsUnderWay(n)'
BY DEF Promise, DialIsUnderWay, UnderWay

(* A step that leaves a machine's entry in `dialing` and what stands for   *)
(* its report in place keeps the promise for it.                           *)
LEMMA PromiseKept ==
  ASSUME NEW n \in Machines, Promise(n),
         dialing'[n] = dialing[n],
         status'[n] = status[n] \/ status'[n] # "Connecting",
         dialing[n] # None => UnderWay(n, dialing[n])'
  PROVE  Promise(n)'
  BY DEF Promise

LEMMA UnderWayStep == UnderWayInv /\ [Next]_vars => UnderWayInv'
<1> SUFFICES ASSUME UnderWayInv, [Next]_vars, misdials' = 0
             PROVE  \A n \in Machines : Promise(n)'
  BY StatusStep, PromiseIsUnderWay DEF UnderWayInv, EveryDialIsUnderWay
<1>1. TypeOK /\ TypeOK' /\ StatusInv
  BY TypeStep DEF UnderWayInv, StatusInv
<1>2. misdials = 0
  <2>1. misdials \in Nat
    BY <1>1, SessionsAssumption DEF TypeOK
  <2>2. misdials' = misdials \/ misdials' = misdials + 1
    BY DEF Next, MachineStep, DialStep, Tick, Handle, HandleSession, HandleGone,
           HandleGoodbye, HandleFailed, Found, Lost, Disable, Enable, BeginPairing,
           BackoffOver, GraceOver, Crash, Shutdown, Restart, Answer, Unreachable,
           Misdial, Break, IdleTimeout, Establish, SetupFails, PumpGoodbye, PumpEnds, vars
  <2> QED
    BY <2>1, <2>2
<1>3. \A n \in Machines : Promise(n)
  BY <1>2, PromiseIsUnderWay DEF UnderWayInv, EveryDialIsUnderWay
<1>4. \A d \in Dials : d # None /\ None \notin Dials
  BY DEF Dials, None
<1>5. \A n \in Machines : dialing[n] # None => dialing[n] \in Dials
  BY <1>1 DEF TypeOK
<1>6. /\ dialing \in [Machines -> Dials \union {None}]
      /\ status \in [Machines -> {"Down", "Connecting", "Connected"}]
      /\ task \in [Dials -> Machines \union {Nobody}]
      /\ session \in [Machines -> Dials \union {None}]
  BY <1>1 DEF TypeOK
<1>7. ASSUME NEW n \in Machines, NEW d \in Dials, UnderWay(n, d),
             task'[d] = task[d], queue'[n] = queue[n]
      PROVE  UnderWay(n, d)'
  BY <1>7 DEF UnderWay, Queued
<1>8. ASSUME UNCHANGED <<dialing, task, queue>>,
             \A n \in Machines : status'[n] = status[n] \/ status'[n] # "Connecting"
      PROVE  \A n \in Machines : Promise(n)'
  <2> SUFFICES ASSUME NEW n \in Machines PROVE Promise(n)'
    OBVIOUS
  <2>1. dialing[n] # None => UnderWay(n, dialing[n])'
    BY <1>3, <1>5, <1>7, <1>8 DEF Promise
  <2> QED
    BY <1>3, <1>8, <2>1, PromiseKept
<1>9. ASSUME NEW m \in Machines, MachineStep(m) PROVE \A n \in Machines : Promise(n)'
  <2> SUFFICES ASSUME NEW n \in Machines PROVE Promise(n)'
    OBVIOUS
  <2>1. ASSUME NEW d \in Dials, StartDial(m, d), UNCHANGED queue PROVE Promise(n)'
    <3>1. task' = [task EXCEPT ![d] = m] /\ dialing' = [dialing EXCEPT ![m] = d]
          /\ status' = [status EXCEPT ![m] = "Connecting"]
      BY <2>1 DEF StartDial
    <3>2. CASE n = m
      BY <1>4, <1>6, <3>1, <3>2 DEF Promise, UnderWay
    <3>3. CASE n # m
      <4>1. dialing[n] # d
        BY <2>1 DEF StartDial, NextFree, Free
      <4>2. ASSUME dialing[n] # None PROVE UnderWay(n, dialing[n])'
        <5>1. dialing[n] \in Dials /\ UnderWay(n, dialing[n])
          BY <1>3, <1>5, <4>2 DEF Promise
        <5>2. dialing'[n] = dialing[n] /\ task'[dialing[n]] = task[dialing[n]]
          BY <1>6, <3>1, <3>3, <4>1, <5>1
        <5> QED
          BY <2>1, <5>1, <5>2 DEF UnderWay, Queued
      <4> QED
        BY <1>3, <1>6, <3>1, <3>3, <4>2, PromiseKept
    <3> QED
      BY <3>2, <3>3
  <2>2. CASE Tick(m)
    BY <2>1, <2>2 DEF Tick
  <2>3. CASE Handle(m)
    <3>1. PICK c \in Dials : \/ HandleSession(m, c) \/ HandleGone(m, c)
                             \/ HandleGoodbye(m, c) \/ HandleFailed(m, c)
      BY <2>3 DEF Handle
    <3>2. ASSUME NEW k, Takes(m, k, c), UNCHANGED task, dialing'[n] = dialing[n],
                 status'[n] = status[n] \/ status'[n] # "Connecting",
                 n # m \/ (k # "session" /\ k # "failed") \/ dialing[n] # c
          PROVE  Promise(n)'
      <4> SUFFICES ASSUME dialing[n] # None PROVE UnderWay(n, dialing[n])'
        BY <1>3, <3>2, PromiseKept
      <4>1. UnderWay(n, dialing[n])
        BY <1>3 DEF Promise
      <4>2. Queued(n, "session", dialing[n]) => Queued(n, "session", dialing[n])'
        BY <1>1, <3>2, TakesQueued
      <4>3. Queued(n, "failed", dialing[n]) => Queued(n, "failed", dialing[n])'
        BY <1>1, <3>2, TakesQueued
      <4>4. UnderWay(n, dialing[n])' <=>
              \/ task'[dialing'[n]] = n
              \/ Queued(n, "session", dialing[n])'
              \/ Queued(n, "failed", dialing[n])'
        BY <3>2 DEF UnderWay, Queued
      <4> QED
        BY <3>2, <4>1, <4>2, <4>3, <4>4 DEF UnderWay
    <3>3. CASE HandleSession(m, c)
      <4>1. CASE n = m
        <5>1. dialing'[m] = None
          BY <1>6, <3>3 DEF HandleSession
        <5>2. status'[m] # "Connecting"
          BY <1>1, <1>6, <3>3 DEF HandleSession, StatusInv, StatusTellsTheTruth
        <5> QED
          BY <4>1, <5>1, <5>2 DEF Promise
      <4>2. CASE n # m
        <5>1. dialing'[n] = dialing[n] /\ status'[n] = status[n]
          BY <1>6, <3>3, <4>2 DEF HandleSession
        <5> QED
          BY <3>2, <3>3, <4>2, <5>1 DEF HandleSession
      <4> QED
        BY <4>1, <4>2
    <3>4. CASE HandleGone(m, c)
      <4>1. status'[n] = status[n] \/ status'[n] # "Connecting"
        BY <1>6, <3>4 DEF HandleGone, PeerGone, Disconnected
      <4> QED
        BY <3>2, <3>4, <4>1 DEF HandleGone
    <3>5. CASE HandleGoodbye(m, c)
      <4>1. status'[n] = status[n] \/ status'[n] # "Connecting"
        BY <1>6, <3>5 DEF HandleGoodbye, PeerGone, Disconnected
      <4> QED
        BY <3>2, <3>5, <4>1 DEF HandleGoodbye
    <3>6. CASE HandleFailed(m, c)
      <4>1. CASE n = m /\ dialing[m] = c
        BY <1>6, <3>6, <4>1 DEF HandleFailed, DialIsCurrent, Disconnected, Promise
      <4>2. CASE ~(n = m /\ dialing[m] = c)
        <5>1. dialing'[n] = dialing[n]
              /\ (status'[n] = status[n] \/ status'[n] # "Connecting")
          BY <1>6, <3>6, <4>2 DEF HandleFailed, DialIsCurrent, Disconnected
        <5> QED
          BY <3>2, <3>6, <4>2, <5>1 DEF HandleFailed, network
      <4> QED
        BY <4>1, <4>2
    <3> QED
      BY <3>1, <3>3, <3>4, <3>5, <3>6
  <2>4. CASE Found(m) \/ Enable(m) \/ BackoffOver(m)
    BY <1>8, <2>4 DEF Found, Enable, BackoffOver, network
  <2>5. CASE Lost(m)
    <3>1. \A x \in Machines : status'[x] = status[x] \/ status'[x] # "Connecting"
      BY <1>6, <2>5 DEF Lost
    <3> QED
      BY <1>8, <2>5, <3>1 DEF Lost, network
  <2>6. CASE Disable(m)
    <3>1. \A x \in Machines : status'[x] = status[x] \/ status'[x] # "Connecting"
      BY <1>6, <2>6 DEF Disable, PeerGone, Disconnected
    <3> QED
      BY <1>8, <2>6, <3>1 DEF Disable
  <2>7. CASE BeginPairing(m)
    BY <2>1, <2>7 DEF BeginPairing
  <2>8. CASE Crash(m) \/ Shutdown(m)
    <3>1. Restart(m)
      BY <2>8 DEF Crash, Shutdown
    <3>2. CASE n = m
      BY <1>6, <3>1, <3>2 DEF Restart, Promise
    <3>3. CASE n # m
      <4>1. dialing'[n] = dialing[n] /\ status'[n] = status[n] /\ queue'[n] = queue[n]
        BY <1>1, <3>1, <3>3 DEF Restart, TypeOK
      <4>2. \A d \in Dials : task[d] = n => task'[d] = n
        BY <1>6, <3>1, <3>3 DEF Restart
      <4>3. dialing[n] # None => UnderWay(n, dialing[n])'
        BY <1>3, <1>5, <4>1, <4>2 DEF Promise, UnderWay, Queued
      <4> QED
        BY <1>3, <4>1, <4>3, PromiseKept
    <3> QED
      BY <3>2, <3>3
  <2> QED
    BY <1>9, <2>2, <2>3, <2>4, <2>5, <2>6, <2>7, <2>8 DEF MachineStep
<1>10. ASSUME NEW d \in Dials, DialStep(d) PROVE \A n \in Machines : Promise(n)'
  <2> SUFFICES ASSUME NEW n \in Machines, dialing[n] # None
               PROVE  UnderWay(n, dialing[n])'
    <3>1. UNCHANGED engine
      BY <1>10 DEF DialStep, Answer, Unreachable, Misdial, Break, IdleTimeout, Establish,
                   SetupFails, PumpGoodbye, PumpEnds
    <3> QED
      BY <1>3, <3>1, PromiseKept DEF engine
  <2>1. PICK e \in Dials : e = dialing[n] /\ UnderWay(n, e)
    BY <1>3, <1>5 DEF Promise
  <2>2. dialing'[n] = e
    BY <1>10, <2>1 DEF DialStep, Answer, Unreachable, Misdial, Break, IdleTimeout, Establish,
                 SetupFails, PumpGoodbye, PumpEnds, engine
  <2>3. UnderWay(n, dialing[n])' <=> UnderWay(n, e)'
    BY <2>2 DEF UnderWay, Queued
  <2>4. UNCHANGED <<task, queue>> => UnderWay(n, e)'
    BY <2>1 DEF UnderWay, Queued
  <2>5. ASSUME NEW m \in Machines, NEW k \in Kinds, Wakes(m, k, d),
               task'[e] = task[e] \/ (e = d /\ task[d] = m /\ k \in {"session", "failed"})
        PROVE  UnderWay(n, e)'
    <3>1. /\ \A c2 : Queued(n, "session", c2) => Queued(n, "session", c2)'
          /\ \A c2 : Queued(n, "failed", c2) => Queued(n, "failed", c2)'
          /\ Queued(m, k, d)'
      BY <1>1, <2>5, WakesQueued
    <3>2. UnderWay(n, e)' <=> \/ task'[e] = n
                              \/ Queued(n, "session", e)'
                              \/ Queued(n, "failed", e)'
      BY DEF UnderWay, Queued
    <3>3. CASE task[e] # n \/ task'[e] = task[e]
      BY <2>1, <3>1, <3>2, <3>3 DEF UnderWay
    <3>4. CASE task[e] = n /\ task'[e] # task[e]
      <4>1. e = d /\ n = m /\ (k = "session" \/ k = "failed")
        BY <2>5, <3>4
      <4> QED
        BY <3>1, <3>2, <4>1
    <3> QED
      BY <3>3, <3>4
  <2>6. CASE Answer(d) \/ Break(d) \/ IdleTimeout(d)
    BY <2>3, <2>4, <2>6 DEF Answer, Break, IdleTimeout
  <2>7. CASE Misdial(d)
    BY <1>1, <1>2, <2>7 DEF Misdial, TypeOK
  <2>8. CASE Unreachable(d)
    <3>1. task[d] \in Machines /\ Wakes(task[d], "failed", d)
      BY <1>6, <2>8 DEF Unreachable, Unanswered
    <3>2. task'[e] = task[e] \/ e = d
      BY <1>6, <2>1, <2>8 DEF Unreachable
    <3> QED
      BY <2>3, <2>5, <3>1, <3>2 DEF Kinds
  <2>9. ASSUME NEW m \in Machines, Establish(m, d) PROVE UnderWay(n, dialing[n])'
    <3>1. task'[e] = task[e] \/ (e = d /\ task[d] = m)
      BY <1>6, <2>1, <2>9 DEF Establish
    <3> QED
      BY <2>3, <2>5, <2>9, <3>1 DEF Kinds, Establish
  <2>10. ASSUME NEW m \in Machines, SetupFails(m, d) PROVE UnderWay(n, dialing[n])'
    <3>1. CASE task[d] = m /\ task' = [task EXCEPT ![d] = Nobody] /\ Wakes(m, "failed", d)
      <4>1. task'[e] = task[e] \/ (e = d /\ task[d] = m)
        BY <1>6, <2>1, <3>1
      <4> QED
        BY <2>3, <2>5, <3>1, <4>1 DEF Kinds
    <3>2. CASE UNCHANGED <<task, queue>>
      BY <2>3, <2>4, <3>2
    <3> QED
      BY <2>10, <3>1, <3>2 DEF SetupFails
  <2>11. ASSUME NEW m \in Machines, PumpGoodbye(m, d) \/ PumpEnds(m, d)
         PROVE  UnderWay(n, dialing[n])'
    BY <2>3, <2>5, <2>11 DEF Kinds, PumpGoodbye, PumpEnds
  <2> QED
    BY <1>10, <2>6, <2>7, <2>8, <2>9, <2>10, <2>11 DEF DialStep
<1>11. CASE GraceOver \/ UNCHANGED vars
  BY <1>8, <1>11 DEF GraceOver, vars, engine, network
<1> QED
  BY <1>9, <1>10, <1>11 DEF Next

(* Unless somebody else answered, a dial waited for will report, and a     *)
(* peer that dial_targets skips as Connecting is being dialled.            *)
THEOREM DialsReport == Spec => []EveryDialIsUnderWay
<1>1. Init => UnderWayInv
  BY InitType
     DEF Init, UnderWayInv, StatusInv, StatusTellsTheTruth, EveryDialIsUnderWay,
         DialIsUnderWay
<1>2. UnderWayInv => EveryDialIsUnderWay
  BY DEF UnderWayInv
<1> QED
  BY <1>1, <1>2, UnderWayStep, PTL DEF Spec

-----------------------------------------------------------------------------
(* What is not in the queue does not get there by a wake being taken, and  *)
(* by one being queued only if it is that one.                             *)
Mentions(m, d) == \E i \in 1 .. Len(queue[m]) : queue[m][i].conn = d

LEMMA TakesOnly ==
  ASSUME TypeOK, NEW m \in Machines, NEW k, NEW c, Takes(m, k, c), NEW n \in Machines
  PROVE  /\ \A k2, c2 : Queued(n, k2, c2)' => Queued(n, k2, c2)
         /\ \A c2 : Mentions(n, c2)' => Mentions(n, c2)
         /\ Queued(m, k, c) /\ Mentions(m, c)
<1>1. queue[m] \in Seq(Wake) /\ Len(queue[m]) \in Nat /\ queue' \in QueueType
  BY TakesType DEF TypeOK
<1>2. \A i \in 1 .. Len(queue'[n]) :
        \E j \in 1 .. Len(queue[n]) : queue'[n][i] = queue[n][j]
  <2>1. CASE n # m
    BY <2>1, TakesType
  <2>2. CASE n = m
    <3> SUFFICES ASSUME NEW i \in 1 .. Len(queue'[m])
                 PROVE  \E j \in 1 .. Len(queue[m]) : queue'[m][i] = queue[m][j]
      BY <2>2
    <3>1. i + 1 \in 1 .. Len(queue[m]) /\ queue'[m][i] = queue[m][i + 1]
      BY <1>1, TakesType
    <3> QED
      BY <3>1
  <2> QED
    BY <2>1, <2>2
<1>3. 1 \in 1 .. Len(queue[m]) /\ queue[m][1] = Report(k, c)
  BY <1>1, TakesType
<1>4. queue[m][1].conn = c
  BY <1>3 DEF Report
<1> QED
  BY <1>2, <1>3, <1>4 DEF Queued, Mentions

LEMMA WakesOnly ==
  ASSUME TypeOK, NEW m \in Machines, NEW k \in Kinds, NEW c \in Dials, Wakes(m, k, c),
         NEW n \in Machines
  PROVE  /\ \A k2, c2 : Queued(n, k2, c2)' =>
                Queued(n, k2, c2) \/ (n = m /\ k2 = k /\ c2 = c)
         /\ \A c2 : Mentions(n, c2)' => Mentions(n, c2) \/ c2 = c
<1>1. Len(queue[m]) \in Nat
  BY DEF TypeOK
<1>2. \A i \in 1 .. Len(queue'[n]) :
        \/ i \in 1 .. Len(queue[n]) /\ queue'[n][i] = queue[n][i]
        \/ n = m /\ queue'[n][i] = Report(k, c)
  BY <1>1, WakesType
<1>3. Report(k, c).conn = c
  BY DEF Report
<1>4. \A k2, c2 : Queued(n, k2, c2)' =>
          Queued(n, k2, c2) \/ (n = m /\ k2 = k /\ c2 = c)
  BY <1>2, ReportType DEF Queued
<1>5. \A c2 : Mentions(n, c2)' => Mentions(n, c2) \/ c2 = c
  BY <1>2, <1>3 DEF Mentions
<1> QED
  BY <1>4, <1>5

-----------------------------------------------------------------------------
(* Connections and the news of them.                                       *)

(* Until a dial is answered there is nothing of its connection anywhere.   *)
UnansweredIsNew ==
  \A d \in Dials : Unanswered(d) =>
    /\ d \notin alive
    /\ \A m \in Machines :
         end[m][d] = "none" /\ session[m] # d /\ ~Mentions(m, d)

(* The dial's task is over when the pump starts.                           *)
DialerSetsUp == \A d \in Dials : \A m \in Machines : task[d] = m => end[m][d] # "pump"

(* The news that a session is there is followed by the news of its end,    *)
(* once its pump has ended.                                                *)
NewsInOrder ==
  \A m \in Machines : \A c \in Dials : \A i \in 1 .. Len(queue[m]) :
    queue[m][i] = Report("session", c) =>
      \/ end[m][c] = "pump"
      \/ \E j \in i + 1 .. Len(queue[m]) : queue[m][j] = Report("gone", c)

(* Only the end of a connection that is over is reported.                  *)
GoneIsOver ==
  \A m \in Machines : \A c \in Dials : Queued(m, "gone", c) => c \notin alive

ConnInv ==
  /\ TypeOK
  /\ UnansweredIsNew
  /\ DialerSetsUp
  /\ NewsInOrder
  /\ GoneIsOver
  /\ DeadSessionIsNoticed

(* An invariant about sessions, read for the next state.                   *)
LEMMA NoticedNext ==
  ASSUME TypeOK',
         \A n \in Machines, x \in Dials :
           x = session'[n] => end'[n][x] = "pump" \/ Queued(n, "gone", x)'
  PROVE  DeadSessionIsNoticed'
<1> SUFFICES ASSUME NEW n \in Machines, session'[n] # None
             PROVE  end'[n][session'[n]] = "pump" \/
                    \E i \in 1 .. Len(queue'[n]) :
                      queue'[n][i] = Report("gone", session'[n])
  BY DEF DeadSessionIsNoticed, Queued
<1>1. session'[n] \in Dials
  BY DEF TypeOK
<1>2. PICK x \in Dials : x = session'[n]
  BY <1>1
<1>3. end'[n][x] = "pump" \/ Queued(n, "gone", x)'
  BY <1>2
<1>4. Queued(n, "gone", x)' <=>
        \E i \in 1 .. Len(queue'[n]) : queue'[n][i] = Report("gone", x)
  BY DEF Queued
<1> QED
  BY <1>2, <1>3, <1>4

(* What a step does to the invariant, by what it does to the queues.       *)
LEMMA QuietConn ==
  ASSUME ConnInv, TypeOK', UNCHANGED <<queue, task, end>>, alive' \subseteq alive,
         \A n \in Machines : session'[n] \in {session[n], None}
  PROVE  ConnInv'
<1>1. \A d \in Dials : Unanswered(d)' <=> Unanswered(d)
  BY DEF Unanswered
<1>2. \A n \in Machines : \A c :
        /\ Mentions(n, c)' <=> Mentions(n, c)
        /\ \A k : Queued(n, k, c)' <=> Queued(n, k, c)
  BY DEF Mentions, Queued
<1>3. \A d \in Dials : d # None
  BY DEF Dials, None
<1>4. UnansweredIsNew'
  BY <1>1, <1>2, <1>3 DEF ConnInv, UnansweredIsNew
<1>5. DialerSetsUp' /\ NewsInOrder'
  BY DEF ConnInv, DialerSetsUp, NewsInOrder
<1>6. GoneIsOver' /\ DeadSessionIsNoticed'
  BY <1>2 DEF ConnInv, GoneIsOver, DeadSessionIsNoticed
<1> QED
  BY <1>4, <1>5, <1>6 DEF ConnInv

LEMMA StartConn ==
  ASSUME ConnInv, TypeOK', UNCHANGED <<queue, end>>, alive' \subseteq alive,
         \A n \in Machines : session'[n] \in {session[n], None},
         NEW m \in Machines, NEW d \in Dials, NextFree(d), task' = [task EXCEPT ![d] = m]
  PROVE  ConnInv'
<1>1. \A e \in Dials : e # d => task'[e] = task[e]
  BY DEF ConnInv, TypeOK
<1>2. \A n \in Machines : \A c :
        /\ Mentions(n, c)' <=> Mentions(n, c)
        /\ \A k : Queued(n, k, c)' <=> Queued(n, k, c)
  BY DEF Mentions, Queued
<1>3. \A e \in Dials : e # None
  BY DEF Dials, None
<1>4. d \notin alive /\ \A n \in Machines :
                          end[n][d] = "none" /\ session[n] # d /\ ~Mentions(n, d)
  BY DEF NextFree, Free, Mentions
<1>5. UnansweredIsNew'
  <2> SUFFICES ASSUME NEW e \in Dials, Unanswered(e)'
               PROVE  /\ e \notin alive
                      /\ \A n \in Machines :
                           end[n][e] = "none" /\ session[n] # e /\ ~Mentions(n, e)
    BY <1>2, <1>3 DEF UnansweredIsNew
  <2>1. e # d => Unanswered(e)
    BY <1>1 DEF Unanswered
  <2> QED
    BY <1>4, <2>1 DEF ConnInv, UnansweredIsNew
<1>6. DialerSetsUp'
  BY <1>1, <1>4 DEF ConnInv, DialerSetsUp
<1>7. NewsInOrder'
  BY DEF ConnInv, NewsInOrder
<1>8. GoneIsOver' /\ DeadSessionIsNoticed'
  BY <1>2 DEF ConnInv, GoneIsOver, DeadSessionIsNoticed
<1> QED
  BY <1>5, <1>6, <1>7, <1>8 DEF ConnInv

LEMMA TakesConn ==
  ASSUME ConnInv, TypeOK', UNCHANGED <<task, end>>, alive' \subseteq alive,
         NEW m \in Machines, NEW k \in Kinds, NEW c \in Dials, Takes(m, k, c),
         \A n \in Machines : \/ session'[n] \in {session[n], None}
                             \/ n = m /\ k = "session" /\ session'[n] = c,
         k = "gone" => session'[m] # c
  PROVE  ConnInv'
<1>1. \A d \in Dials : Unanswered(d)' <=> Unanswered(d)
  BY DEF Unanswered
<1>2. TypeOK /\ Len(queue[m]) \in Nat
  BY DEF ConnInv, TypeOK
<1>3. /\ \A n \in Machines : \A c2 : Mentions(n, c2)' => Mentions(n, c2)
      /\ \A n \in Machines : \A k2, c2 : Queued(n, k2, c2)' => Queued(n, k2, c2)
      /\ Queued(m, k, c) /\ Mentions(m, c)
  BY <1>2, TakesOnly
<1>4. \A d \in Dials : d # None
  BY DEF Dials, None
<1>5. UnansweredIsNew'
  BY <1>1, <1>3, <1>4 DEF ConnInv, UnansweredIsNew
<1>6. DialerSetsUp' /\ GoneIsOver'
  BY <1>3 DEF ConnInv, DialerSetsUp, GoneIsOver
<1>7. NewsInOrder'
  <2> SUFFICES ASSUME NEW n \in Machines, NEW d \in Dials, NEW i \in 1 .. Len(queue'[n]),
                      queue'[n][i] = Report("session", d), end'[n][d] # "pump"
               PROVE  \E j \in i + 1 .. Len(queue'[n]) : queue'[n][j] = Report("gone", d)
    BY DEF NewsInOrder, Report
  <2>1. CASE n # m
    <3>1. queue'[n] = queue[n]
      BY <1>2, <2>1, TakesType
    <3> QED
      BY <3>1 DEF ConnInv, NewsInOrder
  <2>2. CASE n = m
    <3>1. i + 1 \in 1 .. Len(queue[m]) /\ queue[m][i + 1] = Report("session", d)
      BY <1>2, <2>2, TakesType
    <3>2. PICK j \in i + 1 + 1 .. Len(queue[m]) : queue[m][j] = Report("gone", d)
      BY <2>2, <3>1 DEF ConnInv, NewsInOrder
    <3>3. j - 1 \in i + 1 .. Len(queue'[m]) /\ j - 1 \in 1 .. Len(queue'[m])
          /\ (j - 1) + 1 = j
      BY <1>2, <2>2, <3>1, <3>2, TakesType
    <3>4. queue'[m][j - 1] = queue[m][(j - 1) + 1]
      BY <1>2, <3>3, TakesType
    <3>5. queue'[m][j - 1] = Report("gone", d)
      BY <3>2, <3>3, <3>4
    <3> QED
      BY <2>2, <3>3, <3>5
  <2> QED
    BY <2>1, <2>2
<1>8. DeadSessionIsNoticed'
  <2> SUFFICES ASSUME NEW n \in Machines, NEW x \in Dials, x = session'[n],
                      end'[n][x] # "pump"
               PROVE  Queued(n, "gone", x)'
    BY NoticedNext
  <2>1. CASE x = session[n] /\ ~(n = m /\ k = "gone" /\ x = c)
    <3>1. Queued(n, "gone", x)
      BY <1>4, <2>1 DEF ConnInv, DeadSessionIsNoticed
    <3> QED
      BY <1>2, <2>1, <3>1, TakesQueued
  <2>2. CASE n = m /\ k = "session" /\ x = c
    <3>1. 1 \in 1 .. Len(queue[m]) /\ queue[m][1] = Report("session", c)
      BY <1>2, <2>2, TakesType
    <3>2. PICK j \in 1 + 1 .. Len(queue[m]) : queue[m][j] = Report("gone", c)
      BY <2>2, <3>1 DEF ConnInv, NewsInOrder
    <3>3. j \in 1 .. Len(queue[m])
      BY <1>2, <3>2
    <3>4. Queued(m, "gone", c)
      BY <3>2, <3>3 DEF Queued
    <3> QED
      BY <1>2, <2>2, <3>4, TakesQueued
  <2> QED
    BY <1>4, <2>1, <2>2
<1> QED
  BY <1>5, <1>6, <1>7, <1>8 DEF ConnInv

LEMMA WakesConn ==
  ASSUME ConnInv, TypeOK', UNCHANGED session, alive' \subseteq alive,
         NEW m \in Machines, NEW k \in Kinds, NEW d \in Dials, Wakes(m, k, d),
         \A e \in Dials : task'[e] = task[e] \/ task'[e] = Nobody,
         \A n \in Machines, e \in Dials : end'[n][e] = end[n][e] \/ (n = m /\ e = d),
         ~Unanswered(d)',
         end'[m][d] = "pump" => task'[d] # m,
         k = "session" => end'[m][d] = "pump",
         end[m][d] = "pump" => end'[m][d] = "pump" \/ k = "gone",
         k = "gone" => d \notin alive
  PROVE  ConnInv'
<1>1. TypeOK /\ Len(queue[m]) \in Nat
  BY DEF ConnInv, TypeOK
<1>2. /\ \A n \in Machines : \A c2 : Mentions(n, c2)' => Mentions(n, c2) \/ c2 = d
      /\ \A n \in Machines : \A k2, c2 :
           Queued(n, k2, c2)' => Queued(n, k2, c2) \/ (n = m /\ k2 = k /\ c2 = d)
  BY <1>1, WakesOnly
<1>3. /\ \A n \in Machines : \A k2, c2 : Queued(n, k2, c2) => Queued(n, k2, c2)'
      /\ Queued(m, k, d)'
  BY <1>1, WakesQueued
<1>4. Nobody \notin Machines
  BY DEF Nobody, Machines
<1>5. UnansweredIsNew'
  <2> SUFFICES ASSUME NEW e \in Dials, Unanswered(e)', e # d
               PROVE  /\ e \notin alive
                      /\ \A n \in Machines :
                           end'[n][e] = "none" /\ session[n] # e /\ ~Mentions(n, e)
    BY <1>2 DEF UnansweredIsNew
  <2>1. task'[e] = task[e] /\ task[e] # Nobody /\ task[e] \in Machines
    BY <1>1 DEF Unanswered, TypeOK
  <2>2. Unanswered(e)
    BY <2>1 DEF Unanswered
  <2> QED
    BY <2>2 DEF ConnInv, UnansweredIsNew
<1>6. DialerSetsUp'
  BY <1>4 DEF ConnInv, DialerSetsUp
<1>7. GoneIsOver'
  BY <1>2 DEF ConnInv, GoneIsOver
<1>8. NewsInOrder'
  <2> SUFFICES ASSUME NEW n \in Machines, NEW e \in Dials, NEW i \in 1 .. Len(queue'[n]),
                      queue'[n][i] = Report("session", e), end'[n][e] # "pump"
               PROVE  \E j \in i + 1 .. Len(queue'[n]) : queue'[n][j] = Report("gone", e)
    BY DEF NewsInOrder
  <2>1. CASE n # m
    <3>1. queue'[n] = queue[n] /\ end'[n][e] = end[n][e]
      BY <1>1, <2>1, WakesType
    <3> QED
      BY <3>1 DEF ConnInv, NewsInOrder
  <2>2. CASE n = m
    <3>1. Len(queue'[m]) = Len(queue[m]) + 1
          /\ queue'[m][Len(queue[m]) + 1] = Report(k, d)
      BY <1>1, WakesType
    <3>2. CASE i = Len(queue[m]) + 1
      <4>1. k = "session" /\ e = d
        BY <2>2, <3>1, <3>2, ReportType
      <4> QED
        BY <2>2, <4>1
    <3>3. CASE i # Len(queue[m]) + 1
      <4>1. i \in 1 .. Len(queue[m])
        BY <1>1, <2>2, <3>1, <3>3
      <4>2. queue[m][i] = Report("session", e)
        BY <1>1, <2>2, <4>1, WakesType
      <4>3. CASE end[m][e] = "pump"
        <5>1. e = d /\ k = "gone"
          BY <2>2, <4>3
        <5>2. Len(queue[m]) + 1 \in i + 1 .. Len(queue'[m])
          BY <1>1, <3>1, <4>1
        <5> QED
          BY <2>2, <3>1, <5>1, <5>2
      <4>4. CASE end[m][e] # "pump"
        <5>1. PICK j \in i + 1 .. Len(queue[m]) : queue[m][j] = Report("gone", e)
          BY <4>1, <4>2, <4>4 DEF ConnInv, NewsInOrder
        <5>2. j \in 1 .. Len(queue[m]) /\ j \in i + 1 .. Len(queue'[m])
          BY <1>1, <3>1, <4>1, <5>1
        <5>3. queue'[m][j] = Report("gone", e)
          BY <1>1, <5>1, <5>2, WakesType
        <5> QED
          BY <2>2, <5>2, <5>3
      <4> QED
        BY <4>3, <4>4
    <3> QED
      BY <3>2, <3>3
  <2> QED
    BY <2>1, <2>2
<1>9. DeadSessionIsNoticed'
  <2> SUFFICES ASSUME NEW n \in Machines, NEW x \in Dials, x = session[n],
                      end'[n][x] # "pump"
               PROVE  Queued(n, "gone", x)'
    BY NoticedNext
  <2>1. x # None
    BY DEF Dials, None
  <2>2. end[n][x] = "pump" \/ Queued(n, "gone", x)
    BY <2>1 DEF ConnInv, DeadSessionIsNoticed
  <2> QED
    BY <1>3, <2>2
<1> QED
  BY <1>5, <1>6, <1>7, <1>8, <1>9 DEF ConnInv

LEMMA RestartConn ==
  ASSUME ConnInv, TypeOK', NEW m \in Machines, Restart(m), alive' \subseteq alive
  PROVE  ConnInv'
<1>1. TypeOK /\ Nobody \notin Machines
  BY DEF ConnInv, Nobody, Machines
<1>2. /\ session'[m] = None /\ queue'[m] = <<>>
      /\ \A e \in Dials : end'[m][e] = "none" /\ task'[e] # m
  BY <1>1 DEF Restart, TypeOK
<1>3. \A n \in Machines : n # m =>
        session'[n] = session[n] /\ queue'[n] = queue[n] /\ end'[n] = end[n]
  BY <1>1 DEF Restart, TypeOK
<1>4. \A e \in Dials : task'[e] = task[e] \/ task'[e] = Nobody
  BY DEF Restart
<1>5. Len(queue'[m]) = 0
  BY <1>2, EmptySeq
<1>6. \A n \in Machines : \A c :
        /\ Mentions(n, c)' => Mentions(n, c)
        /\ \A k : Queued(n, k, c)' => Queued(n, k, c)
        /\ \A k : n # m /\ Queued(n, k, c) => Queued(n, k, c)'
  BY <1>3, <1>5 DEF Mentions, Queued
<1>7. \A e \in Dials : e # None
  BY DEF Dials, None
<1>8. UnansweredIsNew'
  <2> SUFFICES ASSUME NEW e \in Dials, Unanswered(e)'
               PROVE  /\ e \notin alive
                      /\ \A n \in Machines :
                           end'[n][e] = "none" /\ session'[n] # e /\ ~Mentions(n, e)
    BY <1>6 DEF UnansweredIsNew
  <2>1. task'[e] = task[e] /\ task[e] # Nobody /\ task[e] \in Machines /\ task[e] # m
    BY <1>1, <1>2, <1>4 DEF Unanswered, TypeOK
  <2>2. Unanswered(e)
    BY <1>3, <2>1 DEF Unanswered
  <2> QED
    BY <1>2, <1>3, <1>7, <2>2 DEF ConnInv, UnansweredIsNew
<1>9. DialerSetsUp'
  <2> SUFFICES ASSUME NEW e \in Dials, NEW n \in Machines, task'[e] = n
               PROVE  end'[n][e] # "pump"
    BY DEF DialerSetsUp
  <2>1. n # m /\ task[e] = n
    BY <1>1, <1>2, <1>4
  <2> QED
    BY <1>3, <2>1 DEF ConnInv, DialerSetsUp
<1>10. GoneIsOver'
  BY <1>6 DEF ConnInv, GoneIsOver
<1>11. NewsInOrder'
  <2> SUFFICES ASSUME NEW n \in Machines, NEW e \in Dials, NEW i \in 1 .. Len(queue'[n]),
                      queue'[n][i] = Report("session", e), end'[n][e] # "pump"
               PROVE  \E j \in i + 1 .. Len(queue'[n]) : queue'[n][j] = Report("gone", e)
    BY DEF NewsInOrder
  <2>1. n # m
    BY <1>5
  <2> QED
    BY <1>3, <2>1 DEF ConnInv, NewsInOrder
<1>12. DeadSessionIsNoticed'
  <2> SUFFICES ASSUME NEW n \in Machines, NEW x \in Dials, x = session'[n],
                      end'[n][x] # "pump"
               PROVE  Queued(n, "gone", x)'
    BY NoticedNext
  <2>1. n # m /\ x = session[n] /\ end[n][x] # "pump"
    BY <1>2, <1>3, <1>7
  <2>2. Queued(n, "gone", x)
    BY <1>7, <2>1 DEF ConnInv, DeadSessionIsNoticed
  <2> QED
    BY <1>6, <2>1, <2>2
<1> QED
  BY <1>8, <1>9, <1>10, <1>11, <1>12 DEF ConnInv

LEMMA PeerGoneConn ==
  ASSUME TypeOK, NEW m \in Machines, PeerGone(m)
  PROVE  /\ alive' \subseteq alive
         /\ \A n \in Machines : session'[n] \in {session[n], None}
         /\ session'[m] = None
  BY DEF PeerGone, TypeOK

LEMMA HandleConn ==
  ASSUME ConnInv, TypeOK', NEW m \in Machines, Handle(m)
  PROVE  ConnInv'
<1>1. PICK c \in Dials : \/ HandleSession(m, c) \/ HandleGone(m, c)
                         \/ HandleGoodbye(m, c) \/ HandleFailed(m, c)
  BY DEF Handle
<1>2. TypeOK /\ None \notin Dials
  BY DEF ConnInv, Dials, None
<1>3. CASE HandleSession(m, c)
  <2>1. Takes(m, "session", c) /\ UNCHANGED <<task, end>> /\ alive' \subseteq alive
    BY <1>3 DEF HandleSession
  <2>2. \A n \in Machines : \/ session'[n] \in {session[n], None}
                            \/ n = m /\ session'[n] = c
    BY <1>2, <1>3 DEF HandleSession, TypeOK
  <2> QED
    BY <2>1, <2>2, TakesConn DEF Kinds
<1>4. CASE HandleGone(m, c)
  <2>1. Takes(m, "gone", c) /\ UNCHANGED <<task, end>>
    BY <1>4 DEF HandleGone
  <2>2. /\ alive' \subseteq alive
        /\ \A n \in Machines : session'[n] \in {session[n], None}
        /\ session'[m] # c
    BY <1>2, <1>4, PeerGoneConn DEF HandleGone, TeardownIsCurrent
  <2> QED
    BY <2>1, <2>2, TakesConn DEF Kinds
<1>5. CASE HandleGoodbye(m, c)
  <2>1. Takes(m, "goodbye", c) /\ UNCHANGED <<task, end>>
    BY <1>5 DEF HandleGoodbye
  <2>2. /\ alive' \subseteq alive
        /\ \A n \in Machines : session'[n] \in {session[n], None}
    BY <1>2, <1>5, PeerGoneConn DEF HandleGoodbye
  <2> QED
    BY <2>1, <2>2, TakesConn DEF Kinds
<1>6. CASE HandleFailed(m, c)
  <2>1. Takes(m, "failed", c) /\ UNCHANGED <<task, end, session, alive>>
    BY <1>6 DEF HandleFailed, network
  <2> QED
    BY <2>1, TakesConn DEF Kinds
<1> QED
  BY <1>1, <1>3, <1>4, <1>5, <1>6

LEMMA MachineStepConn ==
  ASSUME ConnInv, TypeOK', NEW m \in Machines, MachineStep(m)
  PROVE  ConnInv'
<1>1. TypeOK
  BY DEF ConnInv
<1>2. CASE Tick(m)
  BY <1>2, StartConn DEF Tick, StartDial
<1>3. CASE Found(m) \/ Enable(m) \/ BackoffOver(m) \/ Lost(m)
  <2>1. UNCHANGED <<queue, task, end, alive, session>>
    BY <1>3 DEF Found, Enable, BackoffOver, Lost, network
  <2> QED
    BY <2>1, QuietConn
<1>4. CASE Disable(m)
  BY <1>1, <1>4, PeerGoneConn, QuietConn DEF Disable
<1>5. CASE BeginPairing(m)
  <2>1. PICK d \in Dials : StartDial(m, d)
    BY <1>5 DEF BeginPairing
  <2>2. \A n \in Machines : session'[n] \in {session[n], None}
    BY <1>1, <1>5 DEF BeginPairing, TypeOK
  <2>3. UNCHANGED <<queue, end>> /\ alive' \subseteq alive
    BY <1>5 DEF BeginPairing
  <2>4. NextFree(d) /\ task' = [task EXCEPT ![d] = m]
    BY <2>1 DEF StartDial
  <2> QED
    BY <2>2, <2>3, <2>4, StartConn
<1>6. CASE Crash(m) \/ Shutdown(m)
  BY <1>6, RestartConn DEF Crash, Shutdown
<1> QED
  BY <1>2, <1>3, <1>4, <1>5, <1>6, HandleConn DEF MachineStep

LEMMA DialStepConn ==
  ASSUME ConnInv, TypeOK', NEW d \in Dials, DialStep(d)
  PROVE  ConnInv'
<1>1. TypeOK /\ Nobody \notin Machines /\ None \notin Dials
  BY DEF ConnInv, Nobody, Machines, Dials, None
<1>2. Unanswered(d) =>
        /\ task[d] \in Machines /\ d \notin alive
        /\ \A m \in Machines :
             end[m][d] = "none" /\ session[m] # d /\ ~Mentions(m, d)
  BY <1>1 DEF ConnInv, UnansweredIsNew, Unanswered, TypeOK
<1>3. \A m \in Machines : \A k, c : Queued(m, k, c) => Mentions(m, c)
  <2> SUFFICES ASSUME NEW m \in Machines, NEW k, NEW c, Queued(m, k, c)
               PROVE  Mentions(m, c)
    OBVIOUS
  <2>1. Report(k, c).conn = c
    BY DEF Report
  <2> QED
    BY <2>1 DEF Queued, Mentions
<1>4. \A m \in Machines : \A k, c : UNCHANGED queue =>
        (Queued(m, k, c)' <=> Queued(m, k, c)) /\ (Mentions(m, c)' <=> Mentions(m, c))
  BY DEF Queued, Mentions
(* Neither Answer nor Misdial finds anything of its dial.                  *)
<1>5. ASSUME Unanswered(d), UNCHANGED <<session, queue>>, alive' = alive \union {d},
             \A e \in Dials : e # d => task'[e] = task[e],
             \A n \in Machines, e \in Dials : e # d => end'[n][e] = end[n][e],
             ~Unanswered(d)',
             \A n \in Machines : task'[d] = n => end'[n][d] # "pump"
      PROVE  ConnInv'
  <2>1. UnansweredIsNew'
    <3> SUFFICES ASSUME NEW e \in Dials, Unanswered(e)', e # d
                 PROVE  /\ e \notin alive
                        /\ \A n \in Machines :
                             end'[n][e] = "none" /\ session[n] # e /\ ~Mentions(n, e)
      BY <1>4, <1>5 DEF UnansweredIsNew
    <3>1. task'[e] = task[e] /\ task[e] # Nobody /\ task[e] \in Machines
      BY <1>1, <1>5 DEF Unanswered, TypeOK
    <3>2. Unanswered(e)
      BY <1>5, <3>1 DEF Unanswered
    <3> QED
      BY <1>5, <3>2 DEF ConnInv, UnansweredIsNew
  <2>2. DialerSetsUp'
    BY <1>5 DEF ConnInv, DialerSetsUp
  <2>3. GoneIsOver'
    BY <1>2, <1>3, <1>4, <1>5 DEF ConnInv, GoneIsOver
  <2>4. NewsInOrder'
    <3> SUFFICES ASSUME NEW n \in Machines, NEW e \in Dials, NEW i \in 1 .. Len(queue[n]),
                        queue[n][i] = Report("session", e), end'[n][e] # "pump"
                 PROVE  \E j \in i + 1 .. Len(queue[n]) : queue[n][j] = Report("gone", e)
      BY <1>5 DEF NewsInOrder
    <3>1. e # d
      BY <1>2, <1>3, <1>5 DEF Queued
    <3> QED
      BY <1>5, <3>1 DEF ConnInv, NewsInOrder
  <2>5. DeadSessionIsNoticed'
    <3> SUFFICES ASSUME NEW n \in Machines, NEW x \in Dials, x = session[n],
                        end'[n][x] # "pump"
                 PROVE  Queued(n, "gone", x)'
      BY <1>5, NoticedNext
    <3>1. x # d /\ x # None
      BY <1>1, <1>2, <1>5
    <3>2. Queued(n, "gone", x)
      BY <1>5, <3>1 DEF ConnInv, DeadSessionIsNoticed
    <3> QED
      BY <1>4, <1>5, <3>2
  <2> QED
    BY <2>1, <2>2, <2>3, <2>4, <2>5 DEF ConnInv
<1>6. CASE Answer(d)
  <2>1. UNCHANGED <<session, queue, task>> /\ alive' = alive \union {d} /\ Unanswered(d)
    BY <1>6 DEF Answer, engine
  <2>2. \A n \in Machines, e \in Dials :
          end'[n][e] = IF e = d THEN "setup" ELSE end[n][e]
    BY <1>1, <1>6 DEF Answer, TypeOK
  <2>3. ~Unanswered(d)'
    BY <1>2, <2>1, <2>2 DEF Unanswered
  <2> QED
    BY <1>5, <2>1, <2>2, <2>3
<1>7. CASE Misdial(d)
  <2>1. UNCHANGED <<session, queue>> /\ alive' = alive \union {d} /\ Unanswered(d)
        /\ task' = [task EXCEPT ![d] = Nobody]
    BY <1>7 DEF Misdial, engine
  <2>2. \A n \in Machines, e \in Dials : e # d => end'[n][e] = end[n][e]
    BY <1>1, <1>7 DEF Misdial, TypeOK
  <2>3. task'[d] = Nobody /\ \A e \in Dials : e # d => task'[e] = task[e]
    BY <1>1, <2>1 DEF TypeOK
  <2> QED
    BY <1>1, <1>5, <2>1, <2>2, <2>3 DEF Unanswered
<1>8. CASE Break(d) \/ IdleTimeout(d)
  <2>1. UNCHANGED <<queue, task, end, session>> /\ alive' \subseteq alive
    BY <1>8 DEF Break, IdleTimeout, engine
  <2> QED
    BY <2>1, QuietConn
<1>9. CASE Unreachable(d)
  <2>1. /\ UNCHANGED <<session, alive, end>> /\ Wakes(task[d], "failed", d)
        /\ task' = [task EXCEPT ![d] = Nobody] /\ Unanswered(d)
    BY <1>9 DEF Unreachable, engine
  <2>2. task'[d] = Nobody /\ \A e \in Dials : e # d => task'[e] = task[e]
    BY <1>1, <2>1 DEF TypeOK
  <2>3. PICK m \in Machines : m = task[d]
    BY <1>2, <2>1
  <2>4. end[m][d] = "none"
    BY <1>2, <2>1
  <2> QED
    BY <1>1, <2>1, <2>2, <2>3, <2>4, WakesConn DEF Kinds, Unanswered
<1>10. ASSUME NEW m \in Machines, NEW v \in {"none", "setup", "pump"},
              end' = [end EXCEPT ![m][d] = v]
       PROVE  /\ \A n \in Machines, e \in Dials :
                   end'[n][e] = end[n][e] \/ (n = m /\ e = d)
              /\ end'[m][d] = v
  BY <1>1, <1>10 DEF TypeOK
<1>11. ASSUME NEW m \in Machines, end[m][d] # "none",
              task'[d] = Nobody \/ (task'[d] = task[d] /\ task[d] # m),
              \A n \in Machines : n # m => end'[n][d] = end[n][d]
       PROVE  ~Unanswered(d)'
  <2> SUFFICES ASSUME Unanswered(d)' PROVE FALSE
    OBVIOUS
  <2>1. task'[d] = task[d] /\ task[d] # m /\ task[d] \in Machines
    BY <1>1, <1>11 DEF Unanswered, TypeOK
  <2>2. Unanswered(d)
    BY <1>11, <2>1 DEF Unanswered
  <2> QED
    BY <1>2, <1>11, <2>2
<1>12. ASSUME NEW m \in Machines, Establish(m, d) PROVE ConnInv'
  <2>1. /\ UNCHANGED <<session, alive>> /\ Wakes(m, "session", d)
        /\ end[m][d] = "setup" /\ end' = [end EXCEPT ![m][d] = "pump"]
    BY <1>12 DEF Establish, engine
  <2>2. /\ \A e \in Dials : e # d => task'[e] = task[e]
        /\ task'[d] = Nobody \/ (task'[d] = task[d] /\ task[d] # m)
    BY <1>1, <1>12 DEF Establish, TypeOK
  <2>3. /\ \A n \in Machines, e \in Dials : end'[n][e] = end[n][e] \/ (n = m /\ e = d)
        /\ end'[m][d] = "pump"
    BY <1>10, <2>1
  <2>4. ~Unanswered(d)'
    BY <1>11, <2>1, <2>2, <2>3
  <2> QED
    BY <1>1, <2>1, <2>2, <2>3, <2>4, WakesConn DEF Kinds
<1>13. ASSUME NEW m \in Machines, SetupFails(m, d) PROVE ConnInv'
  <2>1. /\ UNCHANGED session /\ alive' \subseteq alive
        /\ end[m][d] = "setup" /\ end' = [end EXCEPT ![m][d] = "none"]
    BY <1>13 DEF SetupFails, engine
  <2>2. /\ \A n \in Machines, e \in Dials : end'[n][e] = end[n][e] \/ (n = m /\ e = d)
        /\ end'[m][d] = "none"
    BY <1>10, <2>1
  <2>3. CASE task[d] = m /\ task' = [task EXCEPT ![d] = Nobody] /\ Wakes(m, "failed", d)
    <3>1. task'[d] = Nobody /\ \A e \in Dials : e # d => task'[e] = task[e]
      BY <1>1, <2>3 DEF TypeOK
    <3>2. ~Unanswered(d)'
      BY <3>1 DEF Unanswered
    <3> QED
      BY <2>1, <2>2, <2>3, <3>1, <3>2, WakesConn DEF Kinds
  <2>4. CASE task[d] # m /\ UNCHANGED <<task, queue>>
    <3>1. ~Unanswered(d)'
      BY <1>11, <2>1, <2>2, <2>4
    <3>2. \A n \in Machines, e \in Dials : end'[n][e] = "pump" <=> end[n][e] = "pump"
      BY <2>1, <2>2
    <3>3. UnansweredIsNew'
      <4> SUFFICES ASSUME NEW e \in Dials, Unanswered(e)', e # d
                   PROVE  /\ e \notin alive
                          /\ \A n \in Machines :
                               end'[n][e] = "none" /\ session[n] # e /\ ~Mentions(n, e)
        BY <1>4, <2>1, <2>4, <3>1 DEF UnansweredIsNew
      <4>1. task[e] \in Machines /\ Unanswered(e)
        BY <1>1, <2>2, <2>4 DEF Unanswered, TypeOK
      <4> QED
        BY <2>2, <4>1 DEF ConnInv, UnansweredIsNew
    <3>4. DialerSetsUp'
      BY <2>4, <3>2 DEF ConnInv, DialerSetsUp
    <3>5. GoneIsOver'
      BY <1>4, <2>1, <2>4 DEF ConnInv, GoneIsOver
    <3>6. NewsInOrder'
      BY <2>4, <3>2 DEF ConnInv, NewsInOrder
    <3>7. DeadSessionIsNoticed'
      <4> SUFFICES ASSUME NEW n \in Machines, NEW x \in Dials, x = session[n],
                          end'[n][x] # "pump"
                   PROVE  Queued(n, "gone", x)'
        BY <2>1, NoticedNext
      <4>1. Queued(n, "gone", x)
        BY <1>1, <3>2 DEF ConnInv, DeadSessionIsNoticed
      <4> QED
        BY <1>4, <2>4, <4>1
    <3> QED
      BY <3>3, <3>4, <3>5, <3>6, <3>7 DEF ConnInv
  <2> QED
    BY <1>13, <2>3, <2>4 DEF SetupFails
<1>14. ASSUME NEW m \in Machines, PumpGoodbye(m, d) \/ PumpEnds(m, d) PROVE ConnInv'
  <2>1. UNCHANGED <<session, alive, task>> /\ end[m][d] = "pump" /\ task[d] # m
    BY <1>14 DEF PumpGoodbye, PumpEnds, engine, ConnInv, DialerSetsUp
  <2>2. CASE PumpGoodbye(m, d)
    <3>1. Wakes(m, "goodbye", d) /\ UNCHANGED end
      BY <2>2 DEF PumpGoodbye
    <3>2. ~Unanswered(d)'
      BY <1>11, <2>1, <3>1
    <3> QED
      BY <2>1, <3>1, <3>2, WakesConn DEF Kinds
  <2>3. CASE PumpEnds(m, d)
    <3>1. Wakes(m, "gone", d) /\ end' = [end EXCEPT ![m][d] = "none"] /\ d \notin alive
      BY <2>3 DEF PumpEnds
    <3>2. /\ \A n \in Machines, e \in Dials : end'[n][e] = end[n][e] \/ (n = m /\ e = d)
          /\ end'[m][d] = "none"
      BY <1>10, <3>1
    <3>3. ~Unanswered(d)'
      BY <1>11, <2>1, <3>2
    <3> QED
      BY <2>1, <3>1, <3>2, <3>3, WakesConn DEF Kinds
  <2> QED
    BY <1>14, <2>2, <2>3
<1> QED
  BY <1>6, <1>7, <1>8, <1>9, <1>12, <1>13, <1>14 DEF DialStep

LEMMA ConnStep == ConnInv /\ [Next]_vars => ConnInv'
<1> SUFFICES ASSUME ConnInv, [Next]_vars PROVE ConnInv'
  OBVIOUS
<1>1. TypeOK'
  BY TypeStep DEF ConnInv
<1>2. GraceOver \/ UNCHANGED vars => UNCHANGED <<queue, task, end, alive, session>>
  BY DEF GraceOver, vars, engine, network
<1>3. UNCHANGED <<queue, task, end, alive, session>> => ConnInv'
  BY <1>1, QuietConn
<1> QED
  BY <1>1, <1>2, <1>3, MachineStepConn, DialStepConn DEF Next

LEMMA ConnInit == Init => ConnInv
<1> SUFFICES ASSUME Init PROVE ConnInv
  OBVIOUS
<1>1. \A m \in Machines : Len(queue[m]) = 0
  BY EmptySeq DEF Init
<1>2. \A d \in Dials : ~Unanswered(d)
  BY DEF Init, Unanswered
<1>3. DialerSetsUp
  BY DEF Init, DialerSetsUp
<1>4. NewsInOrder /\ GoneIsOver
  BY <1>1 DEF NewsInOrder, GoneIsOver, Queued
<1>5. DeadSessionIsNoticed
  BY DEF Init, DeadSessionIsNoticed
<1> QED
  BY <1>2, <1>3, <1>4, <1>5, InitType DEF ConnInv, UnansweredIsNew

(* A session in use has a pump that will report its end, or the report is  *)
(* queued, whatever breaks, restarts or answers for another machine.       *)
THEOREM DeadSessionsNoticed == Spec => []DeadSessionIsNoticed
<1>1. ConnInv => DeadSessionIsNoticed
  BY DEF ConnInv
<1> QED
  BY <1>1, ConnInit, ConnStep, PTL DEF Spec

(* Late reports and second sessions leave a session alone whose connection *)
(* lives: a report of an end finds its own connection in use, which is     *)
(* over then, or another, which teardown_is_current protects.              *)
THEOREM StaleNewsHarmless == Spec => StaleNewsIsHarmless
<1> DEFINE Harmless ==
      \A m \in Machines :
        /\ HandlesOne(m)
        /\ Head(queue[m]).kind # "goodbye"
        /\ session[m] # None
        /\ session[m] \in alive
        => session'[m] = session[m]
<1>1. ConnInv /\ [Next]_vars => Harmless
  <2> SUFFICES ASSUME ConnInv, [Next]_vars,
                      NEW m \in Machines, HandlesOne(m),
                      Head(queue[m]).kind # "goodbye",
                      session[m] # None, session[m] \in alive
               PROVE  session'[m] = session[m]
    OBVIOUS
  <2>1. TypeOK /\ queue[m] \in Seq(Wake) /\ queue[m] # <<>> /\ Len(queue[m]) \in Nat
        /\ queue'[m] = Tail(queue[m]) /\ faults' = faults /\ faults \in Nat
    BY SessionsAssumption DEF ConnInv, TypeOK, HandlesOne
  <2>2. Len(queue'[m]) = Len(queue[m]) - 1
    BY <2>1, HeadTailProperties
  <2>3. ~Fault
    BY <2>1 DEF Fault
  <2>4. UNCHANGED session => session'[m] = session[m]
    OBVIOUS
  <2>5. ASSUME NEW d \in Dials, DialStep(d) PROVE UNCHANGED session
    BY <2>5 DEF DialStep, Answer, Unreachable, Misdial, Break, IdleTimeout, Establish,
                SetupFails, PumpGoodbye, PumpEnds, engine
  <2>6. ASSUME NEW n \in Machines, MachineStep(n), ~Handle(n) PROVE UNCHANGED session
    BY <2>3, <2>6 DEF MachineStep, Tick, Found, Lost, Disable, Enable, BeginPairing,
                      BackoffOver, Crash, Shutdown
  <2>7. ASSUME NEW n \in Machines, Handle(n) PROVE session'[m] = session[m]
    <3>1. PICK c \in Dials : \/ HandleSession(n, c) \/ HandleGone(n, c)
                             \/ HandleGoodbye(n, c) \/ HandleFailed(n, c)
      BY <2>7 DEF Handle
    <3>2. PICK k \in Kinds :
            /\ Takes(n, k, c)
            /\ k = "session" => HandleSession(n, c)
            /\ k = "gone" => HandleGone(n, c)
            /\ k = "goodbye" => HandleGoodbye(n, c)
            /\ k = "failed" => HandleFailed(n, c)
      BY <3>1 DEF HandleSession, HandleGone, HandleGoodbye, HandleFailed, Kinds
    <3>3. n = m
      <4>1. n # m => queue'[m] = queue[m]
        BY <2>1, <3>2, TakesType
      <4>2. Len(queue'[m]) # Len(queue[m])
        BY <2>1, <2>2
      <4>3. queue'[m] # queue[m]
        BY <4>2
      <4> QED
        BY <4>1, <4>3
    <3>4. k # "goodbye" /\ Queued(m, k, c)
      <4>1. Head(queue[m]) = Report(k, c)
        BY <3>2, <3>3 DEF Takes
      <4>2. Head(queue[m]).kind = k
        BY <4>1 DEF Report
      <4> QED
        BY <2>1, <3>2, <3>3, <4>2, TakesOnly
    <3>5. CASE k = "session"
      BY <3>2, <3>3, <3>5 DEF HandleSession
    <3>6. CASE k = "gone"
      <4>1. c # session[m]
        BY <3>4, <3>6 DEF ConnInv, GoneIsOver
      <4> QED
        BY <3>2, <3>3, <3>6, <4>1 DEF HandleGone, TeardownIsCurrent
    <3>7. CASE k = "failed"
      BY <3>2, <3>3, <3>7 DEF HandleFailed
    <3> QED
      BY <3>4, <3>5, <3>6, <3>7 DEF Kinds
  <2>8. GraceOver \/ UNCHANGED vars => UNCHANGED session
    BY DEF GraceOver, vars, engine
  <2> QED
    BY <2>4, <2>5, <2>6, <2>7, <2>8 DEF Next
<1>2. ConnInv /\ [Next]_vars => [Harmless]_vars
  BY <1>1
<1> HIDE DEF Harmless
<1>3. Spec => [][Harmless]_vars
  BY <1>2, ConnInit, ConnStep, PTL DEF Spec
<1> QED
  BY <1>3 DEF StaleNewsIsHarmless, Harmless

-----------------------------------------------------------------------------
(* One session with one peer.                                              *)

OrphanInv == TypeOK /\ NoOrphanSession

LEMMA OrphanStep == OrphanInv /\ [Next]_vars => OrphanInv'
<1> SUFFICES ASSUME OrphanInv, [Next]_vars, misdials' = 0,
                    NEW m \in Machines, NEW c \in Dials,
                    end'[m][c] = "pump", c \in alive'
             PROVE  session'[m] = c \/ Queued(m, "session", c)'
  BY TypeStep DEF OrphanInv, NoOrphanSession, Queued
<1>1. TypeOK /\ None \notin Dials
  BY DEF OrphanInv, Dials, None
<1>2. misdials = 0 /\ \A d \in Dials : ~Misdial(d)
  <2>1. misdials \in Nat
    BY <1>1, SessionsAssumption DEF TypeOK
  <2>2. misdials' = misdials \/ misdials' = misdials + 1
    BY DEF Next, MachineStep, DialStep, Tick, Handle, HandleSession, HandleGone,
           HandleGoodbye, HandleFailed, Found, Lost, Disable, Enable, BeginPairing,
           BackoffOver, GraceOver, Crash, Shutdown, Restart, Answer, Unreachable,
           Misdial, Break, IdleTimeout, Establish, SetupFails, PumpGoodbye, PumpEnds, vars
  <2> QED
    BY <2>1, <2>2 DEF Misdial
<1>3. end[m][c] = "pump" /\ c \in alive => session[m] = c \/ Queued(m, "session", c)
  BY <1>2 DEF OrphanInv, NoOrphanSession
<1>4. ASSUME UNCHANGED <<session, queue, end>>, alive' \subseteq alive
      PROVE  session'[m] = c \/ Queued(m, "session", c)'
  BY <1>3, <1>4 DEF Queued
<1>5. ASSUME NEW n \in Machines, UNCHANGED <<queue, end>>,
             alive' \subseteq alive \ {session[n]},
             \A x \in Machines : x # n => session'[x] = session[x]
      PROVE  session'[m] = c \/ Queued(m, "session", c)'
  BY <1>3, <1>5 DEF Queued
<1>6. ASSUME NEW n \in Machines, MachineStep(n)
      PROVE  session'[m] = c \/ Queued(m, "session", c)'
  <2>1. CASE Tick(n) \/ Found(n) \/ Lost(n) \/ Enable(n) \/ BackoffOver(n)
    <3>1. UNCHANGED <<session, queue, end, alive>>
      BY <2>1 DEF Tick, Found, Lost, Enable, BackoffOver, network
    <3> QED
      BY <1>4, <3>1
  <2>2. CASE Disable(n) \/ BeginPairing(n)
    <3>1. /\ UNCHANGED <<queue, end>> /\ alive' \subseteq alive \ {session[n]}
          /\ session' = [session EXCEPT ![n] = None]
      BY <2>2 DEF Disable, PeerGone, BeginPairing
    <3>2. \A x \in Machines : x # n => session'[x] = session[x]
      BY <1>1, <3>1 DEF TypeOK
    <3> QED
      BY <1>5, <3>1, <3>2
  <2>3. CASE Crash(n) \/ Shutdown(n)
    <3>1. Restart(n) /\ alive' \subseteq alive
      BY <2>3 DEF Crash, Shutdown
    <3>2. n # m
      BY <1>1, <3>1 DEF Restart, TypeOK
    <3>3. session'[m] = session[m] /\ queue'[m] = queue[m] /\ end'[m] = end[m]
      BY <1>1, <3>1, <3>2 DEF Restart, TypeOK
    <3> QED
      BY <1>3, <3>1, <3>3 DEF Queued
  <2>4. CASE Handle(n)
    <3>1. PICK d \in Dials : \/ HandleSession(n, d) \/ HandleGone(n, d)
                             \/ HandleGoodbye(n, d) \/ HandleFailed(n, d)
      BY <2>4 DEF Handle
    <3>2. CASE HandleSession(n, d)
      <4>1. Takes(n, "session", d) /\ UNCHANGED end /\ alive' \subseteq alive
            /\ (session[n] # None => alive' = alive \ {d} /\ session' = session)
            /\ (session[n] = None => session' = [session EXCEPT ![n] = d])
        BY <3>2 DEF HandleSession
      <4>2. CASE session[m] = c
        BY <1>1, <4>1, <4>2 DEF TypeOK
      <4>3. CASE session[m] # c /\ (n # m \/ c # d)
        <5>1. Queued(m, "session", c)
          BY <1>3, <4>1, <4>3
        <5> QED
          BY <1>1, <4>1, <4>3, <5>1, TakesQueued
      <4>4. CASE n = m /\ c = d
        BY <1>1, <4>1, <4>4 DEF TypeOK
      <4> QED
        BY <4>2, <4>3, <4>4
    <3>3. ASSUME NEW k \in {"gone", "goodbye", "failed"}, Takes(n, k, d), UNCHANGED end,
                 \/ PeerGone(n)
                 \/ UNCHANGED <<session, alive>>
          PROVE  session'[m] = c \/ Queued(m, "session", c)'
      <4>1. Queued(m, "session", c) => Queued(m, "session", c)'
        BY <1>1, <3>3, TakesQueued
      <4>2. CASE PeerGone(n)
        <5>1. alive' = alive \ {session[n]} /\ session' = [session EXCEPT ![n] = None]
          BY <4>2 DEF PeerGone
        <5>2. session[m] = c => session'[m] = c
          BY <1>1, <5>1 DEF TypeOK
        <5> QED
          BY <1>3, <3>3, <4>1, <5>1, <5>2
      <4>3. CASE UNCHANGED <<session, alive>>
        BY <1>3, <3>3, <4>1, <4>3
      <4> QED
        BY <3>3, <4>2, <4>3
    <3>4. CASE HandleGone(n, d)
      BY <3>3, <3>4 DEF HandleGone
    <3>5. CASE HandleGoodbye(n, d)
      BY <3>3, <3>5 DEF HandleGoodbye
    <3>6. CASE HandleFailed(n, d)
      BY <3>3, <3>6 DEF HandleFailed, network
    <3> QED
      BY <3>1, <3>2, <3>4, <3>5, <3>6
  <2> QED
    BY <1>6, <2>1, <2>2, <2>3, <2>4 DEF MachineStep
<1>7. ASSUME NEW d \in Dials, DialStep(d)
      PROVE  session'[m] = c \/ Queued(m, "session", c)'
  <2>1. CASE Break(d) \/ IdleTimeout(d)
    <3>1. UNCHANGED <<session, queue, end>> /\ alive' \subseteq alive
      BY <2>1 DEF Break, IdleTimeout, engine
    <3> QED
      BY <1>4, <3>1
  <2>2. CASE Answer(d)
    <3>1. UNCHANGED <<session, queue>> /\ alive' = alive \union {d}
          /\ end' = [x \in Machines |-> [end[x] EXCEPT ![d] = "setup"]]
      BY <2>2 DEF Answer, engine
    <3>2. c # d /\ end[m][c] = "pump"
      BY <1>1, <3>1 DEF TypeOK
    <3> QED
      BY <1>3, <3>1, <3>2 DEF Queued
  <2>3. ASSUME NEW n \in Machines, NEW k \in Kinds, Wakes(n, k, d), UNCHANGED session,
               alive' \subseteq alive,
               end[m][c] = "pump" \/ (n = m /\ c = d /\ k = "session")
        PROVE  session'[m] = c \/ Queued(m, "session", c)'
    <3>1. (Queued(m, "session", c) => Queued(m, "session", c)') /\ Queued(n, k, d)'
      BY <1>1, <2>3, WakesQueued
    <3>2. CASE end[m][c] = "pump"
      BY <1>3, <2>3, <3>1, <3>2
    <3>3. CASE n = m /\ c = d /\ k = "session"
      BY <3>1, <3>3
    <3> QED
      BY <2>3, <3>2, <3>3
  <2>4. CASE Unreachable(d)
    <3>1. Wakes(task[d], "failed", d) /\ UNCHANGED <<session, end, alive>>
      BY <2>4 DEF Unreachable, engine
    <3>2. task[d] \in Machines
      BY <1>1, <2>4 DEF Unreachable, Unanswered, TypeOK
    <3> QED
      BY <2>3, <3>1, <3>2 DEF Kinds
  <2>5. ASSUME NEW n \in Machines, Establish(n, d)
        PROVE  session'[m] = c \/ Queued(m, "session", c)'
    <3>1. Wakes(n, "session", d) /\ UNCHANGED <<session, alive>>
          /\ end' = [end EXCEPT ![n][d] = "pump"]
      BY <2>5 DEF Establish, engine
    <3>2. end[m][c] = "pump" \/ (n = m /\ c = d)
      BY <1>1, <3>1 DEF TypeOK
    <3> QED
      BY <2>3, <3>1, <3>2 DEF Kinds
  <2>6. ASSUME NEW n \in Machines, SetupFails(n, d)
        PROVE  session'[m] = c \/ Queued(m, "session", c)'
    <3>1. UNCHANGED session /\ alive' \subseteq alive
          /\ end' = [end EXCEPT ![n][d] = "none"]
      BY <2>6 DEF SetupFails, engine
    <3>2. end[m][c] = "pump"
      BY <1>1, <3>1 DEF TypeOK
    <3>3. Wakes(n, "failed", d) \/ UNCHANGED queue
      BY <2>6 DEF SetupFails
    <3>4. UNCHANGED queue => session'[m] = c \/ Queued(m, "session", c)'
      BY <1>3, <3>1, <3>2 DEF Queued
    <3> QED
      BY <2>3, <3>1, <3>2, <3>3, <3>4 DEF Kinds
  <2>7. ASSUME NEW n \in Machines, PumpGoodbye(n, d) \/ PumpEnds(n, d)
        PROVE  session'[m] = c \/ Queued(m, "session", c)'
    <3>1. UNCHANGED <<session, alive>>
          /\ (Wakes(n, "goodbye", d) \/ Wakes(n, "gone", d))
          /\ (UNCHANGED end \/ end' = [end EXCEPT ![n][d] = "none"])
      BY <2>7 DEF PumpGoodbye, PumpEnds, engine
    <3>2. end[m][c] = "pump" /\ alive' \subseteq alive
      <4>1. CASE UNCHANGED end
        BY <3>1, <4>1
      <4>2. CASE end' = [end EXCEPT ![n][d] = "none"]
        BY <1>1, <3>1, <4>2 DEF TypeOK
      <4> QED
        BY <3>1, <4>1, <4>2
    <3>3. CASE Wakes(n, "goodbye", d)
      BY <2>3, <3>1, <3>2, <3>3 DEF Kinds
    <3>4. CASE Wakes(n, "gone", d)
      BY <2>3, <3>1, <3>2, <3>4 DEF Kinds
    <3> QED
      BY <3>1, <3>3, <3>4
  <2> QED
    BY <1>2, <1>7, <2>1, <2>2, <2>4, <2>5, <2>6, <2>7 DEF DialStep
<1>8. CASE GraceOver \/ UNCHANGED vars
  <2>1. UNCHANGED <<session, queue, end, alive>>
    BY <1>8 DEF GraceOver, vars, engine, network
  <2> QED
    BY <1>4, <2>1
<1> QED
  BY <1>6, <1>7, <1>8 DEF Next

(* Unless a third machine answers, the engine uses every live connection   *)
(* it has been given, or has yet to look at it: there is one session with  *)
(* one peer.                                                               *)
THEOREM NoOrphans == Spec => []NoOrphanSession
<1>1. Init => OrphanInv
  BY InitType DEF Init, OrphanInv, NoOrphanSession
<1>2. OrphanInv => NoOrphanSession
  BY DEF OrphanInv
<1> QED
  BY <1>1, <1>2, OrphanStep, PTL DEF Spec

=============================================================================

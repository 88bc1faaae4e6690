---------------------------- MODULE HandoffProofs ----------------------------
(***************************************************************************)
(* Theorems about Handoff, for every mesh, keyboard and bound.             *)
(***************************************************************************)
EXTENDS Handoff, SequenceTheorems, TLAPS

DownType == [Node -> SUBSET ((Node \union {Hardware}) \X Key)]

CtlType == [Node -> [Node -> Seq({"TakeControl", "YieldControl"})]]

InpType == [Node -> [Node -> Seq(Frame)]]

-----------------------------------------------------------------------------
(* The helpers keep the types of what they change.                         *)

(* Injecting and releasing leave a set of (who, key) pairs per machine.    *)
LEMMA DownHelpersType ==
  ASSUME TypeOK, NEW m \in Node, NEW d \in DownType, NEW keys, NEW gone
  PROVE  /\ ReleaseAll(m, d) \in DownType
         /\ LetGo(m, keys, d) \in DownType
         /\ \A by \in Node \union {Hardware}, k \in Key : PushDown(m, by, k, d) \in DownType
         /\ \A n : Displaced(m, n) \in DownType
         /\ Lost(m, gone) \in DownType
<1> DEFINE Pushed == (Node \union {Hardware}) \X Key
<1>1. \A e \in DownType : ReleaseAll(m, e) \in DownType
  <2>1. \A P \in SUBSET Pushed : {p \in P : p[1] = Hardware} \in SUBSET Pushed
    OBVIOUS
  <2> QED
    BY <2>1 DEF DownType, ReleaseAll
<1>2. LetGo(m, keys, d) \in DownType
  <2>1. \A P \in SUBSET Pushed : {p \in P : p[2] \notin keys} \in SUBSET Pushed
    OBVIOUS
  <2> QED
    BY <2>1 DEF DownType, LetGo
<1>3. ASSUME NEW by \in Node \union {Hardware}, NEW k \in Key
      PROVE  PushDown(m, by, k, d) \in DownType
  <2>1. \A P \in SUBSET Pushed : P \union {<<by, k>>} \in SUBSET Pushed
    OBVIOUS
  <2> QED
    BY <2>1 DEF DownType, PushDown
<1>4. down \in DownType
  BY DEF TypeOK, DownType
<1> QED
  BY <1>1, <1>2, <1>3, <1>4 DEF Displaced, Lost

(* Posting keeps the queues queues.                                        *)
LEMMA PostType ==
  ASSUME NEW n \in Node, NEW m \in Node, NEW T,
         NEW q \in [Node -> [Node -> Seq(T)]], NEW msgs \in Seq(T)
  PROVE  Post(n, m, q, msgs) \in [Node -> [Node -> Seq(T)]]
  BY DEF Post

(* The releases of a handoff are frames.                                   *)
LEMMA ReleaseFramesType ==
  ASSUME TypeOK, NEW n \in Node
  PROVE  ReleaseFrames(n) \in Seq(Frame)
<1>1. held[n] \in Seq(Key)
  BY DEF TypeOK
<1> DEFINE h == held[n]
           f == [i \in 1 .. Len(h) |-> [key |-> h[Len(h) + 1 - i], down |-> FALSE]]
<1>2. Len(h) \in Nat /\ \A i \in 1 .. Len(h) : h[Len(h) + 1 - i] \in Key
  BY <1>1
<1>3. f \in [1 .. Len(h) -> Frame]
  BY <1>2 DEF Frame
<1>4. f \in Seq(Frame)
  BY <1>2, <1>3, SeqDef
<1> QED
  BY <1>4 DEF ReleaseFrames

(* Recording a press or a release keeps the record a sequence of keys, and *)
(* strikes out no key but the released one.                                *)
LEMMA HeldType ==
  ASSUME TypeOK, NEW n \in Node, NEW k \in Key
  PROVE  /\ Pressed(n, k) \in Seq(Key)
         /\ Unpressed(n, k) \in Seq(Key)
<1> DEFINE h == held[n]
           i == CHOOSE j \in DOMAIN h : h[j] = k
           f == [j \in 1 .. Len(h) - 1 |-> IF j < i THEN h[j] ELSE h[j + 1]]
<1>1. h \in Seq(Key) /\ Len(h) \in Nat /\ DOMAIN h = 1 .. Len(h)
  BY DEF TypeOK
<1>2. Pressed(n, k) \in Seq(Key)
  BY <1>1 DEF Pressed
<1>3. CASE k \in HeldKeys(n)
  <2>1. i \in 1 .. Len(h) /\ Len(h) - 1 \in Nat
    BY <1>1, <1>3 DEF HeldKeys
  <2>2. f \in [1 .. Len(h) - 1 -> Key]
    BY <1>1, <2>1, ElementOfSeq
  <2>3. f \in Seq(Key)
    BY <2>1, <2>2, SeqDef
  <2> QED
    BY <1>2, <1>3, <2>3 DEF Unpressed
<1>4. CASE k \notin HeldKeys(n)
  BY <1>1, <1>2, <1>4 DEF Unpressed
<1> QED
  BY <1>3, <1>4

(* A transfer keeps every type.                                            *)
LEMMA TransferType ==
  ASSUME TypeOK, NEW n \in Node, NEW t \in Node, NEW c \in CtlType, NEW d \in DownType,
         Transfer(n, t, c, d)
  PROVE  /\ owner' \in [Node -> Node]
         /\ held' \in [Node -> Seq(Key)]
         /\ inp' \in InpType
         /\ ctl' \in CtlType
         /\ down' \in DownType
<1>1. owner[n] \in Node
  BY DEF TypeOK
<1>2. owner' \in [Node -> Node] /\ held' \in [Node -> Seq(Key)]
  <2>1. <<>> \in Seq(Key)
    OBVIOUS
  <2> QED
    BY <2>1 DEF TypeOK, Transfer
<1>3. inp' \in InpType
  BY <1>1, ReleaseFramesType, PostType DEF TypeOK, Transfer, TransferInput, InpType
<1>4. ctl' \in CtlType
  <2>1. <<"YieldControl">> \in Seq({"TakeControl", "YieldControl"})
        /\ <<"TakeControl">> \in Seq({"TakeControl", "YieldControl"})
    OBVIOUS
  <2>2. Post(n, owner[n], c, <<"YieldControl">>) \in CtlType
    BY <1>1, <2>1, PostType DEF CtlType
  <2>3. \A y \in CtlType : Post(n, t, y, <<"TakeControl">>) \in CtlType
    BY <2>1, PostType DEF CtlType
  <2> QED
    BY <2>2, <2>3 DEF Transfer, TransferControl
<1>5. down' \in DownType
  BY DownHelpersType DEF Transfer, TransferDown
<1> QED
  BY <1>2, <1>3, <1>4, <1>5

(* So does a warp home.                                                    *)
LEMMA GoHomeType ==
  ASSUME TypeOK, NEW n \in Node, NEW c \in CtlType, NEW d \in DownType,
         GoHome(n, c, d)
  PROVE  /\ owner' \in [Node -> Node]
         /\ held' \in [Node -> Seq(Key)]
         /\ inp' \in InpType
         /\ ctl' \in CtlType
         /\ down' \in DownType
<1>1. CASE owner[n] = n
  BY <1>1 DEF GoHome, TypeOK, InpType
<1>2. CASE owner[n] # n
  BY <1>2, TransferType DEF GoHome
<1> QED
  BY <1>1, <1>2

(* The flag stays a flag and the fault count within its bound.             *)
LEMMA SyncSuppressionType ==
  ASSUME TypeOK, NEW n \in Node, NEW spent \in Nat, faults + spent <= MaxFaults,
         SyncSuppression(n, spent)
  PROVE  suppressed' \in [Node -> BOOLEAN] /\ faults' \in 0 .. MaxFaults
<1>1. (owner'[n] # n) \in BOOLEAN
  OBVIOUS
<1>2. suppressed' \in [Node -> BOOLEAN]
  BY <1>1 DEF TypeOK, SyncSuppression
<1>3. faults' \in 0 .. MaxFaults
  BY HandoffAssumption DEF TypeOK, SyncSuppression, HandoffAssumption
<1> QED
  BY <1>2, <1>3

(* Taking the head of a queue, and emptying one.                           *)
LEMMA QueueHelpersType ==
  ASSUME NEW T, NEW q \in [Node -> [Node -> Seq(T)]], NEW n \in Node, NEW m \in Node
  PROVE  /\ q[n][m] # <<>> => Take(n, m, q) \in [Node -> [Node -> Seq(T)]]
         /\ Drain(n, m, q) \in [Node -> [Node -> Seq(T)]]
<1>1. q[n][m] \in Seq(T) /\ <<>> \in Seq(T)
  OBVIOUS
<1>2. q[n][m] # <<>> => Tail(q[n][m]) \in Seq(T)
  BY <1>1
<1> QED
  BY <1>1, <1>2 DEF Take, Drain

-----------------------------------------------------------------------------
(* Type correctness.                                                       *)

(* No step leaves the types: every action is one case.                     *)
LEMMA TypeStep == TypeOK /\ [Next]_vars => TypeOK'
<1> SUFFICES ASSUME TypeOK, [Next]_vars PROVE TypeOK'
  OBVIOUS
<1> USE HandoffAssumption DEF HandoffAssumption
<1>d. down \in DownType /\ ctl \in CtlType /\ inp \in InpType
  BY DEF TypeOK, DownType, CtlType, InpType
<1>s. 0 \in Nat /\ 1 \in Nat /\ faults + 0 = faults /\ faults + 0 <= MaxFaults
  BY DEF TypeOK
<1>g. \A n, gone : /\ LetDriverGo(n, gone) \in [Node -> Node \union {None}]
                   /\ n \in Node => Reclaimed(n, gone) \in [Node -> Node]
                   /\ Forgotten(n, gone) \in [Node -> Seq(Key)]
  <2>1. <<>> \in Seq(Key)
    OBVIOUS
  <2> QED
    BY <2>1 DEF TypeOK, LetDriverGo, Reclaimed, Forgotten
<1>1. ASSUME NEW n \in Node, NEW k \in Key, KeyDown(n, k) PROVE TypeOK'
  <2>1. captured' \in [Node -> Seq(Frame)]
    <3>1. [key |-> k, down |-> TRUE] \in Frame
      BY DEF Frame
    <3> QED
      BY <1>1, <3>1 DEF KeyDown, TypeOK
  <2>2. down' \in DownType
    BY <1>1, <1>d, DownHelpersType DEF KeyDown
  <2> QED
    BY <1>1, <2>1, <2>2 DEF KeyDown, TypeOK, sessions, DownType
<1>2. ASSUME NEW n \in Node, NEW k \in Key, KeyUp(n, k) PROVE TypeOK'
  <2>1. captured' \in [Node -> Seq(Frame)]
    <3>1. [key |-> k, down |-> FALSE] \in Frame
      BY DEF Frame
    <3> QED
      BY <1>2, <3>1 DEF KeyUp, TypeOK
  <2>2. down' \in DownType
    BY <1>2, <1>d DEF KeyUp, DownType
  <2> QED
    BY <1>2, <2>1, <2>2 DEF KeyUp, TypeOK, sessions, DownType
<1>h. ASSUME NEW n \in Node, NEW frame \in Frame, Hears(n, frame)
      PROVE  captured' \in [Node -> Seq(Frame)] /\ Forwarded(n, frame) \in InpType
  <2>1. captured' \in [Node -> Seq(Frame)]
    <3>1. captured[n] \in Seq(Frame) /\ captured[n] # <<>>
      BY <1>h DEF Hears, TypeOK
    <3>2. Tail(captured[n]) \in Seq(Frame)
      BY <3>1
    <3> QED
      BY <1>h, <3>2 DEF Hears, TypeOK
  <2>2. owner[n] \in Node /\ <<frame>> \in Seq(Frame)
    BY DEF TypeOK
  <2> QED
    BY <1>d, <2>1, <2>2, PostType DEF Forwarded, InpType
<1>20. ASSUME NEW n \in Node, NEW k \in Key, RoutePress(n, k) PROVE TypeOK'
  <2> DEFINE frame == [key |-> k, down |-> TRUE]
  <2>1. frame \in Frame /\ Hears(n, frame) /\ inp' = Forwarded(n, frame)
    BY <1>20 DEF RoutePress, Frame
  <2>2. held' \in [Node -> Seq(Key)] /\ down' \in DownType
    BY <1>20, <1>d, HeldType, DownHelpersType DEF RoutePress, TypeOK
  <2>3. suppressed' \in [Node -> BOOLEAN] /\ faults' \in 0 .. MaxFaults
    BY <1>20, <1>s, SyncSuppressionType DEF RoutePress
  <2>4. captured' \in [Node -> Seq(Frame)] /\ inp' \in InpType
    <3> HIDE DEF frame
    <3> QED
      BY <1>h, <2>1
  <2> QED
    BY <1>20, <2>2, <2>3, <2>4 DEF RoutePress, TypeOK, sessions, DownType, InpType
<1>21. ASSUME NEW n \in Node, NEW k \in Key, RouteRelease(n, k) PROVE TypeOK'
  <2> DEFINE frame == [key |-> k, down |-> FALSE]
  <2>1. frame \in Frame /\ Hears(n, frame) /\ inp' = Forwarded(n, frame)
    BY <1>21 DEF RouteRelease, Frame
  <2>2. held' \in [Node -> Seq(Key)] /\ down' \in DownType
    BY <1>21, <1>d, HeldType, DownHelpersType DEF RouteRelease, TypeOK
  <2>3. suppressed' \in [Node -> BOOLEAN] /\ faults' \in 0 .. MaxFaults
    BY <1>21, <1>s, SyncSuppressionType DEF RouteRelease
  <2>4. captured' \in [Node -> Seq(Frame)] /\ inp' \in InpType
    <3> HIDE DEF frame
    <3> QED
      BY <1>h, <2>1
  <2> QED
    BY <1>21, <2>2, <2>3, <2>4 DEF RouteRelease, TypeOK, sessions, DownType, InpType
<1>3. ASSUME NEW n \in Node, NEW t \in Node, MoveControl(n, t) PROVE TypeOK'
  <2>1. suppressed' \in [Node -> BOOLEAN] /\ faults' \in 0 .. MaxFaults
    BY <1>3, <1>s, SyncSuppressionType DEF MoveControl
  <2> QED
    BY <1>3, <1>d, <2>1, TransferType
    DEF MoveControl, TypeOK, sessions, DownType, CtlType, InpType
<1>4. ASSUME NEW n \in Node, NEW m \in Node, HandleTakeControl(n, m) PROVE TypeOK'
  <2>1. suppressed' \in [Node -> BOOLEAN] /\ faults' \in 0 .. MaxFaults
    BY <1>4, <1>s, SyncSuppressionType DEF HandleTakeControl
  <2>2. Take(n, m, ctl) \in CtlType
    BY <1>4, <1>d, QueueHelpersType DEF HandleTakeControl, Arrived, CtlType
  <2>3. Displaced(m, n) \in DownType
    BY <1>d, DownHelpersType
  <2>4. GoHome(m, Take(n, m, ctl), Displaced(m, n))
    BY <1>4 DEF HandleTakeControl
  <2> QED
    BY <1>4, <2>1, <2>2, <2>3, <2>4, GoHomeType
    DEF HandleTakeControl, TypeOK, sessions, DownType, CtlType, InpType
<1>5. ASSUME NEW n \in Node, NEW m \in Node, HandleStaleTakeControl(n, m) PROVE TypeOK'
  <2>1. suppressed' \in [Node -> BOOLEAN] /\ faults' \in 0 .. MaxFaults
    <3>1. faults + 1 <= MaxFaults
      BY <1>5 DEF HandleStaleTakeControl, TypeOK
    <3> QED
      BY <1>5, <1>s, <3>1, SyncSuppressionType DEF HandleStaleTakeControl
  <2>2. Take(n, m, ctl) \in CtlType
    BY <1>5, <1>d, QueueHelpersType DEF HandleStaleTakeControl, Arrived, CtlType
  <2>3. GoHome(m, Take(n, m, ctl), down)
    BY <1>5 DEF HandleStaleTakeControl
  <2> QED
    BY <1>5, <1>d, <2>1, <2>2, <2>3, GoHomeType
    DEF HandleStaleTakeControl, TypeOK, sessions, DownType, CtlType, InpType
<1>6. ASSUME NEW n \in Node, NEW m \in Node, HandleYieldControl(n, m) PROVE TypeOK'
  <2>1. Take(n, m, ctl) \in CtlType
    BY <1>6, <1>d, QueueHelpersType DEF HandleYieldControl, Arrived, CtlType
  <2>2. ReleaseAll(m, down) \in DownType
    BY <1>d, DownHelpersType
  <2> QED
    BY <1>6, <1>g, <2>1, <2>2
    DEF HandleYieldControl, TypeOK, sessions, DownType, CtlType
<1>7. ASSUME NEW n \in Node, NEW m \in Node, HandleInput(n, m) PROVE TypeOK'
  <2>1. Take(n, m, inp) \in InpType
    BY <1>7, <1>d, QueueHelpersType DEF HandleInput, Arrived, InpType
  <2>2. down' \in DownType
    <3>1. Head(inp[n][m]) \in Frame
      BY <1>7, <1>d DEF HandleInput, Arrived, InpType
    <3>2. Head(inp[n][m]).key \in Key
      BY <3>1 DEF Frame
    <3> QED
      BY <1>7, <1>d, <3>2, DownHelpersType DEF HandleInput
  <2> QED
    BY <1>7, <2>1, <2>2 DEF HandleInput, TypeOK, sessions, DownType, InpType
<1>8. ASSUME NEW n \in Node, NEW m \in Node, IgnoreUntrusted(n, m) PROVE TypeOK'
  <2>1. inp[n][m] # <<>> => Take(n, m, inp) \in InpType
    BY <1>d, QueueHelpersType DEF InpType
  <2>2. ctl[n][m] # <<>> => Take(n, m, ctl) \in CtlType
    BY <1>d, QueueHelpersType DEF CtlType
  <2>3. ctl' \in CtlType /\ inp' \in InpType
    BY <1>8, <1>d, <2>1, <2>2 DEF IgnoreUntrusted
  <2> QED
    BY <1>8, <2>3 DEF IgnoreUntrusted, TypeOK, sessions, CtlType, InpType
<1>pg. ASSUME NEW n \in Node, NEW m \in Node, NEW spent \in Nat,
              faults + spent <= MaxFaults, PeerGone(m, n, spent)
       PROVE  /\ owner' \in [Node -> Node] /\ held' \in [Node -> Seq(Key)]
              /\ suppressed' \in [Node -> BOOLEAN] /\ faults' \in 0 .. MaxFaults
              /\ drivenBy' \in [Node -> Node \union {None}]
              /\ physical' \in [Node -> SUBSET Key]
              /\ captured' \in [Node -> Seq(Frame)]
              /\ down' \in DownType /\ ctl' \in CtlType /\ inp' \in InpType
              /\ link' \in [Node -> SUBSET Node] /\ reachable' \in [Node -> SUBSET Node]
  <2>1. suppressed' \in [Node -> BOOLEAN] /\ faults' \in 0 .. MaxFaults
    <3>1. CASE owner[m] = n
      BY <1>pg, <3>1, SyncSuppressionType DEF PeerGone
    <3>2. CASE owner[m] # n
      BY <1>pg, <3>2 DEF PeerGone, TypeOK
    <3> QED
      BY <3>1, <3>2
  <2>2. ctl' \in CtlType /\ inp' \in InpType
    BY <1>pg, <1>d, QueueHelpersType DEF PeerGone, CtlType, InpType
  <2>3. down' \in DownType
    BY <1>pg, <1>d, DownHelpersType DEF PeerGone
  <2>4. owner' \in [Node -> Node] /\ held' \in [Node -> Seq(Key)]
        /\ drivenBy' \in [Node -> Node \union {None}]
    BY <1>pg, <1>g DEF PeerGone
  <2> QED
    BY <1>pg, <2>1, <2>2, <2>3, <2>4 DEF PeerGone, TypeOK
<1>9. ASSUME NEW n \in Node, NEW m \in Node, PumpGone(n, m) PROVE TypeOK'
  <2>1. PeerGone(m, n, 0)
    BY <1>9 DEF PumpGone
  <2> QED
    BY <1>9, <1>s, <1>pg, <2>1 DEF PumpGone, TypeOK, DownType, CtlType, InpType
<1>10. ASSUME NEW n \in Node, NEW m \in Node, LatePumpGone(n, m) PROVE TypeOK'
  <2>1. ended' \in [Node -> SUBSET Node] /\ wire' = wire
    BY <1>10 DEF LatePumpGone, TypeOK
  <2>2. CASE n \in link[m]
    <3>1. UNCHANGED <<owner, held, suppressed, drivenBy, physical, captured, down,
                      link, reachable, ctl, inp, faults>>
      BY <1>10, <2>2 DEF LatePumpGone
    <3> QED
      BY <2>1, <3>1 DEF TypeOK
  <2>3. CASE n \notin link[m]
    <3>1. PeerGone(m, n, 0)
      BY <1>10, <2>3 DEF LatePumpGone
    <3> QED
      BY <1>s, <1>pg, <2>1, <3>1 DEF TypeOK, DownType, CtlType, InpType
  <2> QED
    BY <2>2, <2>3
<1>11. ASSUME NEW n \in Node, NEW m \in Node, Break(n, m) PROVE TypeOK'
  <2>1. wire' \subseteq Pairs /\ faults' \in 0 .. MaxFaults
    BY <1>11 DEF Break, TypeOK
  <2>2. UNCHANGED <<owner, held, suppressed, drivenBy, physical, captured, down,
                    link, reachable, ended, ctl, inp>>
    BY <1>11 DEF Break
  <2> QED
    BY <2>1, <2>2 DEF TypeOK
<1>12. ASSUME NEW n \in Node, NEW m \in Node, CloseSession(n, m) PROVE TypeOK'
  <2>1. PeerGone(m, n, 1) /\ faults + 1 <= MaxFaults
    BY <1>12 DEF CloseSession, TypeOK
  <2>2. ended' \in [Node -> SUBSET Node] /\ wire' \subseteq Pairs
    BY <1>12 DEF CloseSession, TypeOK
  <2> QED
    BY <1>s, <1>pg, <2>1, <2>2 DEF TypeOK, DownType, CtlType, InpType
<1>13. ASSUME NEW n \in Node, NEW m \in Node, BeginPairing(n, m) PROVE TypeOK'
  <2>1. ctl' \in CtlType /\ inp' \in InpType
    BY <1>13, <1>d, QueueHelpersType DEF BeginPairing, CtlType, InpType
  <2> QED
    <3>1. /\ link' \in [Node -> SUBSET Node] /\ reachable' \in [Node -> SUBSET Node]
          /\ ended' \in [Node -> SUBSET Node] /\ wire' \subseteq Pairs
          /\ faults' \in 0 .. MaxFaults
      BY <1>13 DEF BeginPairing, TypeOK
    <3> QED
      BY <1>13, <2>1, <3>1 DEF BeginPairing, TypeOK, CtlType, InpType
<1>14. ASSUME NEW m \in Node, PowerLoss(m) PROVE TypeOK'
  <2>1. <<>> \in Seq(Key) /\ <<>> \in Seq(Frame)
        /\ <<>> \in Seq({"TakeControl", "YieldControl"})
    OBVIOUS
  <2>2. ctl' \in CtlType /\ inp' \in InpType
    BY <1>14, <1>d, <2>1 DEF PowerLoss, CtlType, InpType
  <2> QED
    <3>1. /\ owner' \in [Node -> Node] /\ held' \in [Node -> Seq(Key)]
          /\ suppressed' \in [Node -> BOOLEAN] /\ physical' \in [Node -> SUBSET Key]
          /\ drivenBy' \in [Node -> Node \union {None}] /\ faults' \in 0 .. MaxFaults
          /\ captured' \in [Node -> Seq(Frame)]
      BY <1>14, <2>1 DEF PowerLoss, TypeOK
    <3>2. /\ link' \in [Node -> SUBSET Node] /\ reachable' \in [Node -> SUBSET Node]
          /\ ended' \in [Node -> SUBSET Node] /\ wire' \subseteq Pairs
      BY <1>14 DEF PowerLoss, TypeOK
    <3>3. down' \in DownType
      BY <1>14, <1>d DEF PowerLoss, DownType
    <3> QED
      BY <2>2, <3>1, <3>2, <3>3 DEF TypeOK, CtlType, InpType, DownType
<1>15. ASSUME NEW m \in Node, NEW S \in SUBSET (Node \ {m}), Probe(m, S) PROVE TypeOK'
  <2> DEFINE lost == S \intersect {drivenBy[m], owner[m]}
             slow == IF \A n \in lost : Dead(m, n) THEN 0 ELSE 1
             abandoned == owner[m] \in lost
  <2>1. slow \in Nat /\ faults + slow <= MaxFaults
    BY <1>15 DEF Probe
  <2>2. suppressed' \in [Node -> BOOLEAN] /\ faults' \in 0 .. MaxFaults
    <3>1. CASE abandoned
      <4>1. SyncSuppression(m, slow)
        BY <1>15, <3>1 DEF Probe
      <4> QED
        BY <2>1, <4>1, SyncSuppressionType
    <3>2. CASE ~abandoned
      <4>1. suppressed' = suppressed /\ faults' = faults + slow
        BY <1>15, <3>2 DEF Probe
      <4> QED
        BY <2>1, <4>1 DEF TypeOK
    <3> QED
      BY <3>1, <3>2
  <2>3. /\ owner' \in [Node -> Node] /\ held' \in [Node -> Seq(Key)]
        /\ down' \in DownType /\ ctl' \in CtlType /\ inp' \in InpType
    <3>1. Lost(m, lost) \in DownType
      BY <1>d, DownHelpersType
    <3>2. CASE Transfer(m, m, ctl, Lost(m, lost))
      BY <1>d, <3>1, <3>2, TransferType
    <3>3. CASE /\ owner' = Reclaimed(m, lost) /\ held' = Forgotten(m, lost)
               /\ down' = Lost(m, lost) /\ UNCHANGED <<inp, ctl>>
      BY <1>d, <1>g, <3>1, <3>3
    <3> QED
      BY <1>15, <3>2, <3>3 DEF Probe
  <2>4. drivenBy' \in [Node -> Node \union {None}]
    BY <1>15, <1>g DEF Probe
  <2>5. /\ link' \in [Node -> SUBSET Node] /\ reachable' \in [Node -> SUBSET Node]
        /\ ended' \in [Node -> SUBSET Node] /\ wire' \subseteq Pairs
        /\ physical' = physical /\ captured' = captured
    BY <1>15 DEF Probe, TypeOK
  <2> QED
    BY <2>2, <2>3, <2>4, <2>5 DEF TypeOK, DownType, CtlType, InpType
<1>16. ASSUME NEW m \in Node, Tick(m) PROVE TypeOK'
  <2> DEFINE stray == Node \ reachable[m]
  <2>1. Lost(m, stray) \in DownType
    BY <1>d, DownHelpersType
  <2>2. CASE owner[m] \in reachable[m] \union {m}
    BY <1>16, <1>g, <2>1, <2>2 DEF Tick, TypeOK, sessions, DownType
  <2>3. CASE owner[m] \notin reachable[m] \union {m}
    <3>1. Transfer(m, m, ctl, Lost(m, stray)) /\ SyncSuppression(m, 0)
      BY <1>16, <2>3 DEF Tick
    <3>2. suppressed' \in [Node -> BOOLEAN] /\ faults' \in 0 .. MaxFaults
      BY <1>s, <3>1, SyncSuppressionType
    <3> QED
      BY <1>16, <1>d, <1>g, <2>1, <3>1, <3>2, TransferType
      DEF Tick, TypeOK, sessions, DownType, CtlType, InpType
  <2> QED
    BY <2>2, <2>3
<1>17. ASSUME NEW n \in Node, NEW m \in Node, NEW E \in SUBSET {n, m}, Reconnect(n, m, E)
       PROVE  TypeOK'
  <2>1. ctl' \in CtlType /\ inp' \in InpType
    BY <1>17, <1>d, QueueHelpersType DEF Reconnect, CtlType, InpType
  <2>2. wire' \subseteq Pairs
    <3>1. {n, m} \in Pairs
      BY DEF Pairs
    <3> QED
      BY <1>17, <3>1 DEF Reconnect, TypeOK
  <2>3. link' \in [Node -> SUBSET Node] /\ reachable' \in [Node -> SUBSET Node]
    <3>1. \A f \in [Node -> SUBSET Node] :
            /\ [f EXCEPT ![n] = @ \union {m}, ![m] = @ \union {n}] \in [Node -> SUBSET Node]
            /\ [f EXCEPT ![n] = IF n \in E THEN @ \union {m} ELSE @ \ {m},
                         ![m] = IF m \in E THEN @ \union {n} ELSE @ \ {n}]
                 \in [Node -> SUBSET Node]
      OBVIOUS
    <3> QED
      BY <1>17, <3>1 DEF Reconnect, TypeOK
  <2>4. faults' \in 0 .. MaxFaults
    BY <1>17 DEF Reconnect, TypeOK
  <2> QED
    BY <1>17, <2>1, <2>2, <2>3, <2>4 DEF Reconnect, TypeOK, CtlType, InpType
<1>18. ASSUME NEW n \in Node, NEW m \in Node, EnablePeer(n, m) PROVE TypeOK'
  BY <1>18 DEF EnablePeer, TypeOK
<1>19. CASE UNCHANGED vars
  BY <1>19 DEF vars, TypeOK
<1> QED
  BY <1>1, <1>2, <1>3, <1>4, <1>5, <1>6, <1>7, <1>8, <1>9, <1>10, <1>11, <1>12,
     <1>13, <1>14, <1>15, <1>16, <1>17, <1>18, <1>19, <1>20, <1>21
  DEF Next, User, RouteKey, Handle, HandleControl, Fault

(* Every reachable state of every mesh is well typed.                      *)
THEOREM TypeCorrect == Spec => []TypeOK
<1>1. Init => TypeOK
  <2>1. <<>> \in Seq(Key) /\ <<>> \in Seq(Frame)
        /\ <<>> \in Seq({"TakeControl", "YieldControl"})
    OBVIOUS
  <2> QED
    BY <2>1, HandoffAssumption DEF Init, TypeOK, HandoffAssumption
<1> QED
  BY <1>1, TypeStep, PTL DEF Spec

-----------------------------------------------------------------------------
(* Losing a driver releases what it held.                                  *)

Loses(m) == drivenBy[m] # None /\ drivenBy'[m] # drivenBy[m]

OnlyHardware(m, d) == \A p \in d[m] : p[1] = Hardware

(* After release_all nothing injected is down, and a later injected        *)
(* release brings nothing down.                                            *)
LEMMA ReleaseAllReleases ==
  ASSUME NEW m \in Node, NEW d \in DownType
  PROVE  /\ OnlyHardware(m, ReleaseAll(m, d))
         /\ \A keys : OnlyHardware(m, d) => OnlyHardware(m, LetGo(m, keys, d))
  BY DEF DownType, OnlyHardware, ReleaseAll, LetGo

(* A driver let go is a driver released.                                   *)
LEMMA LostReleases ==
  ASSUME TypeOK, NEW m \in Node, NEW gone, drivenBy' = LetDriverGo(m, gone)
  PROVE  \A i \in Node : Loses(i) => i = m /\ OnlyHardware(i, Lost(m, gone))
<1>1. down \in DownType
  BY DEF TypeOK, DownType
<1>2. ASSUME NEW i \in Node, Loses(i) PROVE i = m /\ drivenBy[m] \in gone
  BY <1>2 DEF TypeOK, Loses, LetDriverGo
<1> QED
  BY <1>1, <1>2, ReleaseAllReleases DEF Lost

LEMMA PeerGoneReleases ==
  ASSUME TypeOK, NEW m \in Node, NEW n \in Node, NEW spent, PeerGone(m, n, spent)
  PROVE  \A i \in Node : Loses(i) => OnlyHardware(i, down')
  BY LostReleases DEF PeerGone

(* A transfer injects nothing.                                             *)
LEMMA TransferInjectsNothing ==
  ASSUME NEW n \in Node, NEW t, NEW c, NEW d \in DownType, Transfer(n, t, c, d)
  PROVE  \A i \in Node : OnlyHardware(i, d) => OnlyHardware(i, down')
  BY DEF Transfer, TransferDown, DownType, ReleaseAll, LetGo, OnlyHardware

LEMMA LossStep ==
  TypeOK /\ [Next]_vars => \A i \in Node : Loses(i) => OnlyHardware(i, down')
<1> SUFFICES ASSUME TypeOK, [Next]_vars, NEW i \in Node, Loses(i)
             PROVE  OnlyHardware(i, down')
  OBVIOUS
<1>d. down \in DownType
  BY DEF TypeOK, DownType
<1>1. ASSUME UNCHANGED drivenBy PROVE FALSE
  BY <1>1 DEF Loses
<1>2. ASSUME NEW n \in Node, NEW m \in Node, HandleTakeControl(n, m)
      PROVE  OnlyHardware(i, down')
  <2>1. i = m /\ drivenBy[m] \notin {None, n}
    BY <1>2 DEF HandleTakeControl, Loses, TypeOK
  <2>2. Displaced(m, n) \in DownType /\ OnlyHardware(m, Displaced(m, n))
    BY <1>d, <2>1, ReleaseAllReleases, DownHelpersType DEF Displaced
  <2>3. GoHome(m, Take(n, m, ctl), Displaced(m, n))
    BY <1>2 DEF HandleTakeControl
  <2> QED
    BY <2>1, <2>2, <2>3, TransferInjectsNothing DEF GoHome
<1>3. ASSUME NEW n \in Node, NEW m \in Node, HandleYieldControl(n, m)
      PROVE  OnlyHardware(i, down')
  <2>1. drivenBy' = LetDriverGo(m, {n})
    BY <1>3 DEF HandleYieldControl
  <2>2. i = m
    BY <2>1, LostReleases
  <2> QED
    BY <1>3, <1>d, <2>2, ReleaseAllReleases DEF HandleYieldControl
<1>4. ASSUME NEW n \in Node, NEW m \in Node,
             PumpGone(n, m) \/ LatePumpGone(n, m) \/ CloseSession(n, m)
      PROVE  OnlyHardware(i, down')
  <2>1. ASSUME NEW spent, PeerGone(m, n, spent) PROVE OnlyHardware(i, down')
    BY <2>1, PeerGoneReleases
  <2> QED
    BY <1>1, <1>4, <2>1 DEF PumpGone, LatePumpGone, CloseSession
<1>5. ASSUME NEW m \in Node, PowerLoss(m) PROVE OnlyHardware(i, down')
  BY <1>5 DEF PowerLoss, Loses, OnlyHardware, TypeOK
<1>6. ASSUME NEW m \in Node, NEW S \in SUBSET (Node \ {m}), Probe(m, S)
      PROVE  OnlyHardware(i, down')
  <2> DEFINE lost == S \intersect {drivenBy[m], owner[m]}
  <2>1. drivenBy' = LetDriverGo(m, lost)
    BY <1>6 DEF Probe
  <2>2. Lost(m, lost) \in DownType
    BY DownHelpersType, <1>d
  <2>3. OnlyHardware(i, Lost(m, lost))
    BY <2>1, LostReleases
  <2>4. Transfer(m, m, ctl, Lost(m, lost)) \/ down' = Lost(m, lost)
    BY <1>6 DEF Probe
  <2> QED
    BY <2>2, <2>3, <2>4, TransferInjectsNothing
<1>7. ASSUME NEW m \in Node, Tick(m) PROVE OnlyHardware(i, down')
  <2> DEFINE stray == Node \ reachable[m]
  <2>1. drivenBy' = LetDriverGo(m, stray)
    BY <1>7 DEF Tick
  <2>2. Lost(m, stray) \in DownType
    BY DownHelpersType, <1>d
  <2>3. OnlyHardware(i, Lost(m, stray))
    BY <2>1, LostReleases
  <2>4. Transfer(m, m, ctl, Lost(m, stray)) \/ down' = Lost(m, stray)
    BY <1>7 DEF Tick
  <2> QED
    BY <2>2, <2>3, <2>4, TransferInjectsNothing
<1>8. ASSUME NEW n \in Node, User(n) \/ RouteKey(n) PROVE UNCHANGED drivenBy
  BY <1>8 DEF User, KeyDown, KeyUp, MoveControl, RouteKey, RoutePress, RouteRelease
<1>9. ASSUME NEW n \in Node, NEW m \in Node,
             \/ HandleStaleTakeControl(n, m) \/ HandleInput(n, m) \/ IgnoreUntrusted(n, m)
             \/ Break(n, m) \/ BeginPairing(n, m) \/ EnablePeer(n, m)
      PROVE  UNCHANGED drivenBy
  BY <1>9 DEF HandleStaleTakeControl, HandleInput, IgnoreUntrusted, Break,
              BeginPairing, EnablePeer
<1>10. ASSUME NEW n \in Node, NEW m \in Node, NEW E \in SUBSET {n, m}, Reconnect(n, m, E)
       PROVE  UNCHANGED drivenBy
  BY <1>10 DEF Reconnect
<1>11. CASE UNCHANGED vars
  BY <1>1, <1>11 DEF vars
<1> QED
  BY <1>1, <1>2, <1>3, <1>4, <1>5, <1>6, <1>7, <1>8, <1>9, <1>10, <1>11
  DEF Next, Handle, HandleControl, Fault

(* However a machine stops being driven by the peer on record, whatever    *)
(* was injected comes up in that step.                                     *)
THEOREM LossReleases == Spec => DriverLossReleases
<1>1. TypeOK /\ [Next]_vars =>
        [\A m \in Node : drivenBy[m] # None /\ drivenBy'[m] # drivenBy[m]
           => \A p \in down'[m] : p[1] = Hardware]_vars
  BY LossStep DEF Loses, OnlyHardware
<1> QED
  BY <1>1, TypeCorrect, PTL DEF Spec, DriverLossReleases

-----------------------------------------------------------------------------
(***************************************************************************)
(* The safety invariants.  Two of their parts hold whatever fails: who is  *)
(* on record as the driver is watched.  The others speak of a mesh in      *)
(* which nothing has failed yet; for them it is first shown that only      *)
(* eight actions can be taken there.                                       *)
(***************************************************************************)

(* The recorded driver is watched.                                         *)

(* No machine has a session with itself, and a driver it has a session     *)
(* with is trusted: disabling a peer lets it go, and a session that comes  *)
(* back untrusted is not the driver's.                                     *)
SessionInv ==
  \A m \in Node :
    /\ m \notin link[m] /\ m \notin ended[m]
    /\ drivenBy[m] # m
    /\ drivenBy[m] \in link[m] => drivenBy[m] \in reachable[m]

WatchInv == SessionInv /\ DriverIsWatched

LEMMA WatchStep == TypeOK /\ WatchInv /\ [Next]_vars => WatchInv'
<1> SUFFICES ASSUME TypeOK, WatchInv, [Next]_vars PROVE WatchInv'
  OBVIOUS
<1> USE HandoffAssumption DEF HandoffAssumption, WatchInv, SessionInv, DriverIsWatched
<1>1. ASSUME UNCHANGED <<drivenBy, link, reachable, ended>> PROVE WatchInv'
  BY <1>1
<1>2. ASSUME NEW n \in Node, User(n) \/ RouteKey(n) PROVE WatchInv'
  BY <1>1, <1>2 DEF User, KeyDown, KeyUp, MoveControl, RouteKey, RoutePress,
    RouteRelease, sessions
<1>3. ASSUME NEW n \in Node, NEW m \in Node, HandleTakeControl(n, m) PROVE WatchInv'
  BY <1>3 DEF HandleTakeControl, Arrived, sessions, TypeOK
<1>4. ASSUME NEW n \in Node, NEW m \in Node, HandleYieldControl(n, m) PROVE WatchInv'
  BY <1>4 DEF HandleYieldControl, LetDriverGo, sessions, TypeOK
<1>5. ASSUME NEW n \in Node, NEW m \in Node,
             \/ HandleStaleTakeControl(n, m) \/ HandleInput(n, m)
             \/ IgnoreUntrusted(n, m) \/ Break(n, m)
      PROVE  WatchInv'
  BY <1>1, <1>5 DEF HandleStaleTakeControl, HandleInput, IgnoreUntrusted, Break, sessions
<1>6. ASSUME NEW n \in Node, NEW m \in Node, PumpGone(n, m) PROVE WatchInv'
  BY <1>6 DEF PumpGone, PeerGone, LetDriverGo, TypeOK
<1>7. ASSUME NEW n \in Node, NEW m \in Node, LatePumpGone(n, m) PROVE WatchInv'
  <2>e. ended' = [ended EXCEPT ![m] = @ \ {n}]
    BY <1>7 DEF LatePumpGone
  <2>1. CASE n \in link[m]
    <3>1. UNCHANGED <<drivenBy, link, reachable>>
      BY <1>7, <2>1 DEF LatePumpGone
    <3> QED
      BY <2>1, <2>e, <3>1 DEF TypeOK
  <2>2. CASE n \notin link[m]
    <3>1. /\ drivenBy' = LetDriverGo(m, {n})
          /\ link' = [link EXCEPT ![m] = @ \ {n}]
          /\ reachable' = [reachable EXCEPT ![m] = @ \ {n}]
      BY <1>7, <2>2 DEF LatePumpGone, PeerGone
    <3> QED
      BY <2>2, <2>e, <3>1 DEF LetDriverGo, TypeOK
  <2> QED
    BY <2>1, <2>2
<1>8. ASSUME NEW n \in Node, NEW m \in Node, CloseSession(n, m) PROVE WatchInv'
  BY <1>8 DEF CloseSession, PeerGone, LetDriverGo, TypeOK
<1>9. ASSUME NEW n \in Node, NEW m \in Node, BeginPairing(n, m) PROVE WatchInv'
  BY <1>9 DEF BeginPairing, TypeOK
<1>10. ASSUME NEW m \in Node, PowerLoss(m) PROVE WatchInv'
  BY <1>10 DEF PowerLoss, TypeOK
<1>11. ASSUME NEW m \in Node, NEW S \in SUBSET (Node \ {m}), Probe(m, S) PROVE WatchInv'
  <2> DEFINE lost == S \intersect {drivenBy[m], owner[m]}
  <2>1. /\ drivenBy' = LetDriverGo(m, lost)
        /\ ended' = [ended EXCEPT ![m] = @ \union (lost \intersect link[m])]
        /\ link' = [link EXCEPT ![m] = @ \ lost]
        /\ reachable' = [reachable EXCEPT ![m] = @ \ lost]
    BY <1>11 DEF Probe
  <2> QED
    BY <2>1 DEF LetDriverGo, TypeOK
<1>12. ASSUME NEW m \in Node, Tick(m) PROVE WatchInv'
  BY <1>12 DEF Tick, LetDriverGo, sessions, TypeOK
<1>13. ASSUME NEW n \in Node, NEW m \in Node, NEW E \in SUBSET {n, m}, Reconnect(n, m, E)
       PROVE  WatchInv'
  <2>1. /\ n # m /\ (n \notin E => drivenBy[n] # m) /\ (m \notin E => drivenBy[m] # n)
        /\ UNCHANGED <<drivenBy, ended>>
    BY <1>13 DEF Reconnect
  <2>2. link' = [link EXCEPT ![n] = @ \union {m}, ![m] = @ \union {n}]
    BY <1>13 DEF Reconnect
  <2>3. reachable' = [reachable EXCEPT
          ![n] = IF n \in E THEN @ \union {m} ELSE @ \ {m},
          ![m] = IF m \in E THEN @ \union {n} ELSE @ \ {n}]
    BY <1>13 DEF Reconnect
  <2>4. link \in [Node -> SUBSET Node] /\ reachable \in [Node -> SUBSET Node]
    BY DEF TypeOK
  <2>5. ASSUME NEW i \in Node \ {n, m}
        PROVE  link'[i] = link[i] /\ reachable'[i] = reachable[i]
    BY <2>2, <2>3, <2>4
  <2>6. /\ link'[n] = link[n] \union {m} /\ link'[m] = link[m] \union {n}
        /\ reachable'[n] = IF n \in E THEN reachable[n] \union {m} ELSE reachable[n] \ {m}
        /\ reachable'[m] = IF m \in E THEN reachable[m] \union {n} ELSE reachable[m] \ {n}
    BY <2>1, <2>2, <2>3, <2>4
  <2>7. ASSUME NEW i \in Node
        PROVE  /\ i \notin link'[i] /\ i \notin ended'[i] /\ drivenBy'[i] # i
               /\ drivenBy'[i] \in link'[i] => drivenBy'[i] \in reachable'[i]
               /\ drivenBy'[i] # None =>
                    drivenBy'[i] \in (link'[i] \intersect reachable'[i]) \union ended'[i]
    <3>1. CASE i = n
      BY <2>1, <2>6, <3>1
    <3>2. CASE i = m
      BY <2>1, <2>6, <3>2
    <3>3. CASE i \notin {n, m}
      BY <2>1, <2>5, <3>3
    <3> QED
      BY <3>1, <3>2, <3>3
  <2> QED
    BY <2>7
<1>14. ASSUME NEW n \in Node, NEW m \in Node, EnablePeer(n, m) PROVE WatchInv'
  BY <1>14 DEF EnablePeer, TypeOK
<1>15. CASE UNCHANGED vars
  BY <1>1, <1>15 DEF vars
<1> QED
  BY <1>2, <1>3, <1>4, <1>5, <1>6, <1>7, <1>8, <1>9, <1>10, <1>11, <1>12, <1>13,
     <1>14, <1>15
  DEF Next, Handle, HandleControl, Fault

(* The peer on record as the driver is always one whose loss will be       *)
(* noticed, through any failures and restarts.                             *)
THEOREM DriverWatched == Spec => []DriverIsWatched
<1>1. Init => WatchInv
  BY HandoffAssumption
  DEF Init, WatchInv, SessionInv, DriverIsWatched, HandoffAssumption
<1> QED
  BY <1>1, WatchStep, TypeCorrect, PTL DEF Spec, WatchInv

-----------------------------------------------------------------------------
(* A mesh in which nothing has failed.                                     *)

(* Every machine has a live, trusted session with every other.             *)
Intact ==
  faults = 0 =>
    \A n \in Node :
      /\ link[n] = Node \ {n}
      /\ reachable[n] = Node \ {n}
      /\ ended[n] = {}
      /\ \A m \in Node \ {n} : {n, m} \in wire

(* What can happen there: users act and the engine handles what arrives.   *)
Calm ==
  \/ \E n \in Node : User(n) \/ RouteKey(n)
  \/ \E n, m \in Node :
       HandleTakeControl(n, m) \/ HandleYieldControl(n, m) \/ HandleInput(n, m)

LEMMA CalmStep ==
  ASSUME TypeOK, WatchInv, Intact, Next, faults' = 0
  PROVE  faults = 0 /\ UNCHANGED sessions /\ Calm
<1> USE HandoffAssumption DEF HandoffAssumption
<1>f. faults \in Nat
  BY DEF TypeOK
<1>i. faults = 0 => \A n \in Node : link[n] = Node \ {n} /\ reachable[n] = Node \ {n}
        /\ ended[n] = {} /\ \A m \in Node \ {n} : {n, m} \in wire
  BY DEF Intact
<1>1. ASSUME NEW n \in Node, NEW m \in Node, CloseSession(n, m) PROVE FALSE
  BY <1>1, <1>f DEF CloseSession, PeerGone, SyncSuppression
<1>2. ASSUME NEW n \in Node, NEW m \in Node, HandleStaleTakeControl(n, m) PROVE FALSE
  BY <1>2, <1>f DEF HandleStaleTakeControl, SyncSuppression
<1>3. ASSUME NEW n \in Node, NEW m \in Node, Break(n, m) \/ BeginPairing(n, m) PROVE FALSE
  BY <1>3, <1>f DEF Break, BeginPairing
<1>4. ASSUME NEW m \in Node, PowerLoss(m) PROVE FALSE
  BY <1>4, <1>f DEF PowerLoss
<1>5. ASSUME NEW n \in Node, NEW m \in Node, IgnoreUntrusted(n, m) PROVE FALSE
  BY <1>5, <1>i DEF IgnoreUntrusted
<1>6. ASSUME NEW n \in Node, NEW m \in Node, PumpGone(n, m) PROVE FALSE
  <2>1. faults = 0
    BY <1>6, <1>f DEF PumpGone, PeerGone, SyncSuppression
  <2>2. n \in link[m] /\ {n, m} \notin wire
    BY <1>6 DEF PumpGone
  <2>3. {n, m} = {m, n}
    OBVIOUS
  <2> QED
    BY <1>i, <2>1, <2>2, <2>3
<1>7. ASSUME NEW n \in Node, NEW m \in Node, LatePumpGone(n, m) PROVE FALSE
  <2>1. faults = 0
    BY <1>7, <1>f DEF LatePumpGone, PeerGone, SyncSuppression
  <2> QED
    BY <1>7, <1>i, <2>1 DEF LatePumpGone
<1>8. ASSUME NEW m \in Node, NEW S \in SUBSET (Node \ {m}), Probe(m, S) PROVE FALSE
  <2> DEFINE lost == S \intersect {drivenBy[m], owner[m]}
             slow == IF \A n \in lost : Dead(m, n) THEN 0 ELSE 1
  <2>1. lost # {} /\ slow \in {0, 1}
    BY <1>8 DEF Probe
  <2>2. SyncSuppression(m, slow) \/ faults' = faults + slow
    BY <1>8 DEF Probe
  <2>3. faults = 0 /\ slow = 0
    BY <1>f, <2>1, <2>2 DEF SyncSuppression
  <2>4. PICK n \in lost : Dead(m, n)
    BY <2>1, <2>3
  <2>5. n \in Node \ {m}
    BY <2>4
  <2>6. {n, m} = {m, n}
    OBVIOUS
  <2> QED
    BY <1>i, <2>3, <2>4, <2>5, <2>6 DEF Dead
<1>9. ASSUME NEW m \in Node, Tick(m) PROVE FALSE
  <2>1. faults = 0
    BY <1>9, <1>f DEF Tick, SyncSuppression
  <2>2. owner[m] \in reachable[m] \union {m}
    BY <1>i, <2>1 DEF TypeOK
  <2>3. drivenBy[m] \in reachable[m] \union {None}
    BY <1>i, <2>1 DEF WatchInv, DriverIsWatched
  <2> QED
    BY <1>9, <2>2, <2>3 DEF Tick
<1>10. ASSUME NEW n \in Node, NEW m \in Node, NEW E \in SUBSET {n, m}, Reconnect(n, m, E)
       PROVE FALSE
  BY <1>10, <1>f, <1>i DEF Reconnect
<1>11. ASSUME NEW n \in Node, NEW m \in Node, EnablePeer(n, m) PROVE FALSE
  <2>1. faults = 0 /\ n \in link[m] /\ n \notin reachable[m]
    BY <1>11 DEF EnablePeer
  <2>2. link[m] = reachable[m]
    BY <1>i, <2>1
  <2> QED
    BY <2>1, <2>2
<1>12. Calm
  BY <1>1, <1>2, <1>3, <1>4, <1>5, <1>6, <1>7, <1>8, <1>9, <1>10, <1>11
  DEF Next, Calm, Handle, HandleControl, Fault
<1>13. faults = 0
  <2>1. ASSUME NEW n \in Node, SyncSuppression(n, 0) PROVE faults = 0
    BY <1>f, <2>1 DEF SyncSuppression
  <2>2. (\E n \in Node : SyncSuppression(n, 0)) \/ faults' = faults
    BY <1>12 DEF Calm, User, KeyDown, KeyUp, MoveControl, RouteKey, RoutePress,
      RouteRelease, HandleTakeControl, HandleYieldControl, HandleInput
  <2> QED
    BY <2>1, <2>2
<1>14. UNCHANGED sessions
  BY <1>12 DEF Calm, User, KeyDown, KeyUp, MoveControl, RouteKey, RoutePress,
    RouteRelease, HandleTakeControl, HandleYieldControl, HandleInput
<1> QED
  BY <1>12, <1>13, <1>14

LEMMA IntactStep == TypeOK /\ WatchInv /\ Intact /\ [Next]_vars => Intact'
<1> SUFFICES ASSUME TypeOK, WatchInv, Intact, [Next]_vars, faults' = 0 PROVE Intact'
  BY DEF Intact
<1>1. UNCHANGED sessions /\ faults = 0
  BY CalmStep DEF vars, sessions
<1> QED
  BY <1>1 DEF Intact, sessions

-----------------------------------------------------------------------------
(* Suppression and the keyboard under the user's hands.                    *)

(* Striking one place out of a sequence keeps what is at the others.       *)
LEMMA StrikeOut ==
  ASSUME NEW h \in Seq(Key), NEW i \in 1 .. Len(h), NEW j \in 1 .. Len(h), i # j
  PROVE  \E l \in 1 .. Len(h) - 1 :
           [x \in 1 .. Len(h) - 1 |-> IF x < i THEN h[x] ELSE h[x + 1]][l] = h[j]
<1> DEFINE f == [x \in 1 .. Len(h) - 1 |-> IF x < i THEN h[x] ELSE h[x + 1]]
<1>1. Len(h) \in Nat
  OBVIOUS
<1>2. CASE j < i
  <2>1. j \in 1 .. Len(h) - 1
    BY <1>1, <1>2
  <2>2. f[j] = h[j]
    BY <1>2, <2>1
  <2> QED
    BY <2>1, <2>2
<1>3. CASE j > i
  <2>1. j - 1 \in 1 .. Len(h) - 1 /\ ~(j - 1 < i) /\ (j - 1) + 1 = j
    BY <1>1, <1>3
  <2>2. f[j - 1] = h[(j - 1) + 1]
    BY <2>1
  <2> QED
    BY <2>1, <2>2
<1> QED
  BY <1>1, <1>2, <1>3

(* The router's record after a press and after a release.                  *)
LEMMA HeldKeysStep ==
  ASSUME TypeOK, NEW n \in Node, NEW k \in Key
  PROVE  /\ held' = [held EXCEPT ![n] = Pressed(n, k)]
              => HeldKeys(n)' = HeldKeys(n) \union {k}
         /\ held' = [held EXCEPT ![n] = Unpressed(n, k)]
              => HeldKeys(n) \ {k} \subseteq HeldKeys(n)'
<1> DEFINE h == held[n]
           i == CHOOSE j \in DOMAIN h : h[j] = k
           f == [j \in 1 .. Len(h) - 1 |-> IF j < i THEN h[j] ELSE h[j + 1]]
<1>1. h \in Seq(Key) /\ Len(h) \in Nat /\ DOMAIN h = 1 .. Len(h) /\ DOMAIN held = Node
  BY DEF TypeOK
<1>2. ASSUME held' = [held EXCEPT ![n] = Pressed(n, k)]
      PROVE  HeldKeys(n)' = HeldKeys(n) \union {k}
  <2>1. held'[n] = Pressed(n, k)
    BY <1>1, <1>2
  <2>2. CASE k \in HeldKeys(n)
    BY <2>1, <2>2 DEF HeldKeys, Pressed
  <2>3. CASE k \notin HeldKeys(n)
    <3>1. held'[n] = Append(h, k)
      BY <2>1, <2>3 DEF Pressed
    <3>2. DOMAIN held'[n] = 1 .. Len(h) + 1 /\ held'[n][Len(h) + 1] = k
          /\ \A j \in 1 .. Len(h) : held'[n][j] = h[j]
      BY <1>1, <3>1
    <3>3. ASSUME NEW x PROVE x \in HeldKeys(n)' <=> x \in HeldKeys(n) \union {k}
      BY <1>1, <3>2 DEF HeldKeys
    <3> QED
      BY <3>3
  <2> QED
    BY <2>2, <2>3
<1>3. ASSUME held' = [held EXCEPT ![n] = Unpressed(n, k)]
      PROVE  HeldKeys(n) \ {k} \subseteq HeldKeys(n)'
  <2>1. held'[n] = Unpressed(n, k)
    BY <1>1, <1>3
  <2>2. CASE k \notin HeldKeys(n)
    BY <2>1, <2>2 DEF HeldKeys, Unpressed
  <2>3. CASE k \in HeldKeys(n)
    <3>1. i \in 1 .. Len(h) /\ h[i] = k
      BY <1>1, <2>3 DEF HeldKeys
    <3>2. held'[n] = f
      BY <2>1, <2>3 DEF Unpressed
    <3>3. PICK p \in 1 .. Len(h) : /\ h[p] = k
            /\ held'[n] = [x \in 1 .. Len(h) - 1 |-> IF x < p THEN h[x] ELSE h[x + 1]]
      BY <3>1, <3>2
    <3>4. ASSUME NEW j \in 1 .. Len(h), h[j] # k
          PROVE  \E l \in 1 .. Len(h) - 1 : held'[n][l] = h[j]
      <4> HIDE DEF h
      <4>1. h \in Seq(Key) /\ p # j
        BY <1>1, <3>3, <3>4
      <4>2. \E l \in 1 .. Len(h) - 1 :
              [x \in 1 .. Len(h) - 1 |-> IF x < p THEN h[x] ELSE h[x + 1]][l] = h[j]
        BY <4>1, StrikeOut
      <4> QED
        BY <3>3, <4>2
    <3>5. DOMAIN held'[n] = 1 .. Len(h) - 1
      BY <3>3
    <3> QED
      BY <1>1, <3>4, <3>5 DEF HeldKeys
  <2> QED
    BY <2>2, <2>3
<1> QED
  BY <1>2, <1>3


(* A batch that ends with no fault so far has told the backend where the   *)
(* cursor is.                                                              *)
LEMMA SyncFollows ==
  ASSUME TypeOK, SuppressionFollowsOwner, NEW n \in Node, SyncSuppression(n, 0),
         \A i \in Node \ {n} : owner'[i] = owner[i]
  PROVE  SuppressionFollowsOwner'
<1>1. ASSUME faults' = 0, NEW i \in Node PROVE suppressed'[i] = (owner'[i] # i)
  <2>1. faults = 0 /\ suppressed' = [suppressed EXCEPT ![n] = owner'[n] # n]
    BY <1>1 DEF SyncSuppression, TypeOK
  <2> QED
    BY <2>1 DEF SuppressionFollowsOwner, TypeOK
<1> QED
  BY <1>1 DEF SuppressionFollowsOwner

LEMMA SuppressionStep ==
  TypeOK /\ WatchInv /\ Intact /\ SuppressionFollowsOwner /\ [Next]_vars
    => SuppressionFollowsOwner'
<1> SUFFICES ASSUME TypeOK, WatchInv, Intact, SuppressionFollowsOwner, [Next]_vars, faults' = 0
             PROVE  SuppressionFollowsOwner'
  BY DEF SuppressionFollowsOwner
<1>0. CASE UNCHANGED vars
  BY <1>0 DEF vars, SuppressionFollowsOwner
<1>c. CASE Next
  <2>c. faults = 0 /\ Calm
    BY <1>c, CalmStep
  <2>1. ASSUME UNCHANGED <<owner, suppressed, faults>> PROVE SuppressionFollowsOwner'
    BY <2>1 DEF SuppressionFollowsOwner
  <2>2. ASSUME NEW n \in Node, NEW k \in Key, KeyDown(n, k) \/ KeyUp(n, k)
        PROVE  SuppressionFollowsOwner'
    BY <2>1, <2>2 DEF KeyDown, KeyUp
  <2>3. ASSUME NEW n \in Node, NEW k \in Key, RoutePress(n, k) \/ RouteRelease(n, k)
        PROVE  SuppressionFollowsOwner'
    BY <2>3, SyncFollows DEF RoutePress, RouteRelease
  <2>4. ASSUME NEW n \in Node, NEW t \in Node, MoveControl(n, t)
        PROVE  SuppressionFollowsOwner'
    <3>1. \A i \in Node \ {n} : owner'[i] = owner[i]
      BY <2>4 DEF MoveControl, Transfer, TypeOK
    <3> QED
      BY <2>4, <3>1, SyncFollows DEF MoveControl
  <2>5. ASSUME NEW n \in Node, NEW m \in Node, HandleTakeControl(n, m)
        PROVE  SuppressionFollowsOwner'
    <3>1. GoHome(m, Take(n, m, ctl), Displaced(m, n)) /\ SyncSuppression(m, 0)
      BY <2>5 DEF HandleTakeControl
    <3>2. \A i \in Node \ {m} : owner'[i] = owner[i]
      BY <3>1 DEF GoHome, Transfer, TypeOK
    <3> QED
      BY <3>1, <3>2, SyncFollows
  <2>6. ASSUME NEW n \in Node, NEW m \in Node, HandleYieldControl(n, m) \/ HandleInput(n, m)
        PROVE  SuppressionFollowsOwner'
    BY <2>1, <2>6 DEF HandleYieldControl, HandleInput
  <2> QED
    BY <2>2, <2>3, <2>4, <2>5, <2>6, <2>c DEF Calm, User, RouteKey
<1> QED
  BY <1>0, <1>c

(* The state in which nothing has failed yet, with all that holds there.   *)
CalmInv == TypeOK /\ WatchInv /\ Intact

LEMMA CalmCorrect == Spec => []CalmInv
<1>1. Init => WatchInv
  BY HandoffAssumption
  DEF Init, WatchInv, SessionInv, DriverIsWatched, HandoffAssumption
<1>2. Init => Intact
  <2>1. \A n \in Node : \A m \in Node \ {n} : {n, m} \in {p \in Pairs : \E i, j \in p : i # j}
    BY DEF Pairs
  <2> QED
    BY <2>1 DEF Init, Intact
<1> QED
  BY <1>1, <1>2, WatchStep, IntactStep, TypeCorrect, PTL DEF Spec, CalmInv

LEMMA SuppressionInit == Init => SuppressionFollowsOwner
<1> SUFFICES ASSUME Init PROVE SuppressionFollowsOwner
  OBVIOUS
<1>1. \A n \in Node : ~suppressed[n] /\ ~(owner[n] # n)
  BY DEF Init
<1>2. \A n \in Node : suppressed[n] \in BOOLEAN
  BY DEF Init
<1> QED
  BY <1>1, <1>2 DEF SuppressionFollowsOwner

(* As long as nothing has failed, local input is swallowed exactly while   *)
(* the cursor is elsewhere.                                                *)
THEOREM SuppressionFollows == Spec => []SuppressionFollowsOwner
<1>1. CalmInv /\ SuppressionFollowsOwner /\ [Next]_vars => SuppressionFollowsOwner'
  BY SuppressionStep DEF CalmInv
<1> QED
  BY <1>1, SuppressionInit, CalmCorrect, PTL DEF Spec

-----------------------------------------------------------------------------
(* The keyboard under the user's hands.                                    *)

(* What the agents do presses no key of the keyboard itself.               *)
LEMMA NothingStruck ==
  ASSUME TypeOK, NEW m \in Node, NEW n \in Node, NEW gone, NEW keys, NEW k \in Key,
         NEW d \in DownType, NEW i \in Node
  PROVE  /\ <<Hardware, k>> \in ReleaseAll(m, d)[i] => <<Hardware, k>> \in d[i]
         /\ <<Hardware, k>> \in LetGo(m, keys, d)[i] => <<Hardware, k>> \in d[i]
         /\ \A y \in Key : <<Hardware, k>> \in PushDown(m, n, y, d)[i] => <<Hardware, k>> \in d[i]
         /\ <<Hardware, k>> \in Displaced(m, n)[i] => <<Hardware, k>> \in down[i]
         /\ <<Hardware, k>> \in Lost(m, gone)[i] => <<Hardware, k>> \in down[i]
<1>1. n # Hardware /\ down \in DownType
  BY HandoffAssumption DEF HandoffAssumption, TypeOK, DownType
<1>2. \A e \in DownType :
        <<Hardware, k>> \in ReleaseAll(m, e)[i] => <<Hardware, k>> \in e[i]
  BY DEF ReleaseAll, DownType
<1> QED
  BY <1>1, <1>2 DEF LetGo, PushDown, Displaced, Lost, DownType

(* A key goes stray only when its press is routed after a crossing: every  *)
(* other step leaves it on the record or in the queue, or lets it go.      *)
LEMMA StrayStep ==
  TypeOK /\ SessionInv /\ [Next]_vars =>
    \A i \in Node : \A k \in Key : Stray(i, k)' => Stray(i, k) \/ RoutedAway(i, k)
<1> SUFFICES ASSUME TypeOK, SessionInv, [Next]_vars, NEW i \in Node, NEW k \in Key,
                    <<Hardware, k>> \in down'[i],
                    ~(owner'[i] = i /\ k \in HeldKeys(i)'),
                    ~PressQueued(i, k)',
                    ~Stray(i, k)
             PROVE  RoutedAway(i, k)
  BY DEF Stray
<1>d. /\ down \in DownType /\ captured \in [Node -> Seq(Frame)]
      /\ owner \in [Node -> Node] /\ held \in [Node -> Seq(Key)]
  BY DEF TypeOK, DownType
(* Nothing struck, nothing taken off the queue or the record.              *)
<1>g. ASSUME <<Hardware, k>> \in down[i],
             PressQueued(i, k) => PressQueued(i, k)',
             owner[i] = i => owner'[i] = i /\ (k \in HeldKeys(i) => k \in HeldKeys(i)')
      PROVE  FALSE
  BY <1>g DEF Stray
<1>u. ASSUME <<Hardware, k>> \in down[i], captured'[i] = captured[i],
             owner[i] = i => owner'[i] = i /\ held'[i] = held[i]
      PROVE  FALSE
  BY <1>g, <1>u DEF PressQueued, HeldKeys
(* A transfer by n, after something may have been let go of.               *)
<1>t. ASSUME NEW n \in Node, NEW t, NEW c, NEW e \in DownType, Transfer(n, t, c, e),
             \A x \in Node : <<Hardware, k>> \in e[x] => <<Hardware, k>> \in down[x],
             captured' = captured
      PROVE  FALSE
  <2>1. /\ owner' = [owner EXCEPT ![n] = t] /\ held' = [held EXCEPT ![n] = <<>>]
        /\ down' = TransferDown(n, e)
    BY <1>t DEF Transfer
  <2>2. CASE i = n /\ owner[n] = n
    <3>1. down'[n] = {p \in e[n] : p[2] \notin HeldKeys(n) /\ p[1] = Hardware}
      BY <2>1, <2>2 DEF TransferDown, ReleaseAll, LetGo, DownType
    <3>2. <<Hardware, k>> \in down[i] /\ k \notin HeldKeys(i)
      BY <1>t, <2>2, <3>1
    <3> QED
      BY <1>t, <3>2 DEF Stray, PressQueued
  <2>3. CASE i # n \/ owner[n] # n
    <3>1. <<Hardware, k>> \in e[i]
      BY <2>1 DEF TransferDown, ReleaseAll, LetGo, DownType
    <3>2. owner[i] = i => owner'[i] = i /\ held'[i] = held[i]
      BY <1>d, <2>1, <2>3
    <3> QED
      BY <1>t, <1>u, <3>1, <3>2
  <2> QED
    BY <2>2, <2>3
<1>h. ASSUME NEW n \in Node, NEW c, NEW e \in DownType, GoHome(n, c, e),
             \A x \in Node : <<Hardware, k>> \in e[x] => <<Hardware, k>> \in down[x],
             captured' = captured
      PROVE  FALSE
  <2>1. CASE owner[n] = n
    <3>1. down' = e /\ UNCHANGED <<owner, held>>
      BY <1>h, <2>1 DEF GoHome
    <3> QED
      BY <1>h, <1>u, <3>1
  <2>2. CASE owner[n] # n
    BY <1>h, <1>t, <2>2 DEF GoHome
  <2> QED
    BY <2>1, <2>2
(* A key struck by n's user is queued.                                     *)
<1>q. ASSUME NEW n \in Node, NEW y \in Key, NEW b \in BOOLEAN,
             captured' = [captured EXCEPT ![n] = Append(@, [key |-> y, down |-> b])],
             UNCHANGED <<owner, held>>,
             <<Hardware, k>> \in down[i] \/ (i = n /\ k = y /\ b)
      PROVE  FALSE
  <2> DEFINE frame == [key |-> y, down |-> b]
             s == captured[n]
  <2>0. s \in Seq(Frame)
    BY <1>d
  <2>1. s \in Seq(Frame) /\ frame \in Frame /\ Len(s) \in Nat
    BY <2>0 DEF Frame
  <2>2. captured'[n] = Append(s, frame) /\ \A x \in Node \ {n} : captured'[x] = captured[x]
    BY <1>d, <1>q
  <2>3. /\ DOMAIN s = 1 .. Len(s) /\ DOMAIN captured'[n] = 1 .. Len(s) + 1
        /\ captured'[n][Len(s) + 1] = frame
        /\ \A j \in 1 .. Len(s) : captured'[n][j] = s[j]
    <3> HIDE DEF frame, s
    <3> QED
      BY <2>1, <2>2
  <2>4. i = n /\ k = y /\ b => PressQueued(i, k)'
    <3>1. Len(s) + 1 \in DOMAIN captured'[n]
      BY <2>1, <2>3
    <3> QED
      BY <2>3, <3>1 DEF PressQueued
  <2>5. PressQueued(i, k) => PressQueued(i, k)'
    <3>1. CASE i = n
      <4>1. \A j \in DOMAIN s : j \in DOMAIN captured'[n] /\ captured'[n][j] = s[j]
        BY <2>1, <2>3
      <4> QED
        BY <3>1, <4>1 DEF PressQueued
    <3>2. CASE i # n
      BY <2>2, <3>2 DEF PressQueued
    <3> QED
      BY <3>1, <3>2
  <2> QED
    BY <1>g, <1>q, <2>4, <2>5 DEF HeldKeys
<1>1. ASSUME NEW n \in Node, NEW y \in Key, KeyDown(n, y) PROVE FALSE
  <2>1. <<Hardware, k>> \in down[i] \/ (i = n /\ k = y)
    BY <1>1, <1>d DEF KeyDown, PushDown, DownType
  <2> QED
    BY <1>1, <1>q, <2>1 DEF KeyDown
<1>2. ASSUME NEW n \in Node, NEW y \in Key, KeyUp(n, y) PROVE FALSE
  <2>1. <<Hardware, k>> \in down[i]
    BY <1>2, <1>d DEF KeyUp, DownType
  <2> QED
    BY <1>2, <1>q, <2>1 DEF KeyUp
(* An event taken off the queue of n loses no press but its own.           *)
<1>r. ASSUME NEW n \in Node, NEW frame, Hears(n, frame),
             i # n \/ frame # [key |-> k, down |-> TRUE]
      PROVE  PressQueued(i, k) => PressQueued(i, k)'
  <2> DEFINE s == captured[n]
  <2>1. s \in Seq(Frame) /\ s # <<>> /\ Head(s) = frame
    BY <1>d, <1>r DEF Hears
  <2>2. captured'[n] = Tail(s) /\ \A x \in Node \ {n} : captured'[x] = captured[x]
    BY <1>d, <1>r DEF Hears
  <2>3. /\ Len(s) \in Nat \ {0} /\ DOMAIN s = 1 .. Len(s) /\ Head(s) = s[1]
        /\ DOMAIN Tail(s) = 1 .. Len(s) - 1
        /\ \A j \in 1 .. Len(s) - 1 : Tail(s)[j] = s[j + 1]
    <3> HIDE DEF s
    <3> QED
      BY <2>1, EmptySeq, HeadTailProperties
  <2>4. CASE i = n
    <3> SUFFICES ASSUME NEW j \in 1 .. Len(s), s[j] = [key |-> k, down |-> TRUE]
                 PROVE  PressQueued(i, k)'
      BY <2>3, <2>4 DEF PressQueued
    <3>1. j # 1
      BY <1>r, <2>1, <2>3, <2>4
    <3>2. j - 1 \in 1 .. Len(s) - 1 /\ (j - 1) + 1 = j
      BY <2>3, <3>1
    <3>3. Tail(s)[j - 1] = s[j]
      BY <2>3, <3>2
    <3> QED
      BY <2>2, <2>3, <2>4, <3>2, <3>3 DEF PressQueued
  <2>5. CASE i # n
    BY <2>2, <2>5 DEF PressQueued
  <2> QED
    BY <2>4, <2>5
<1>3. ASSUME NEW n \in Node, NEW y \in Key, RoutePress(n, y) PROVE RoutedAway(i, k)
  <2> DEFINE frame == [key |-> y, down |-> TRUE]
  <2>1. Hears(n, frame) /\ owner' = owner
    BY <1>3 DEF RoutePress
  <2>2. <<Hardware, k>> \in down[i]
    BY <1>3, <1>d, NothingStruck DEF RoutePress
  <2>3. HeldKeys(n)' = HeldKeys(n) \union {y}
        /\ \A x \in Node \ {n} : HeldKeys(x)' = HeldKeys(x)
    <3>1. HeldKeys(n)' = HeldKeys(n) \union {y}
      BY <1>3, HeldKeysStep DEF RoutePress
    <3>2. \A x \in Node \ {n} : held'[x] = held[x]
      BY <1>3, <1>d DEF RoutePress
    <3> QED
      BY <3>1, <3>2 DEF HeldKeys
  <2>4. CASE i # n \/ k # y
    <3>1. i # n \/ frame # [key |-> k, down |-> TRUE]
      BY <2>4
    <3>2. PressQueued(i, k) => PressQueued(i, k)'
      <4> HIDE DEF frame
      <4> QED
        BY <1>r, <2>1, <3>1
    <3> QED
      BY <1>g, <2>1, <2>2, <2>3, <3>2
  <2>5. CASE i = n /\ k = y
    <3>1. owner[n] # n
      BY <2>1, <2>3, <2>5
    <3>2. captured[n] # <<>> /\ Head(captured[n]) = frame /\ captured'[n] = Tail(captured[n])
      BY <1>d, <2>1 DEF Hears
    <3> QED
      BY <2>5, <3>1, <3>2 DEF RoutedAway
  <2> QED
    BY <2>4, <2>5
<1>4. ASSUME NEW n \in Node, NEW y \in Key, RouteRelease(n, y) PROVE FALSE
  <2> DEFINE frame == [key |-> y, down |-> FALSE]
  <2>1. Hears(n, frame) /\ owner' = owner
    BY <1>4 DEF RouteRelease
  <2>2. <<Hardware, k>> \in down[i] /\ (i = n /\ owner[n] = n => k # y)
    BY <1>4, <1>d DEF RouteRelease, LetGo, DownType
  <2>3. HeldKeys(n) \ {y} \subseteq HeldKeys(n)'
        /\ \A x \in Node \ {n} : HeldKeys(x)' = HeldKeys(x)
    <3>1. HeldKeys(n) \ {y} \subseteq HeldKeys(n)'
      BY <1>4, HeldKeysStep DEF RouteRelease
    <3>2. \A x \in Node \ {n} : held'[x] = held[x]
      BY <1>4, <1>d DEF RouteRelease
    <3> QED
      BY <3>1, <3>2 DEF HeldKeys
  <2>4. PressQueued(i, k) => PressQueued(i, k)'
    <3>1. frame # [key |-> k, down |-> TRUE]
      OBVIOUS
    <3> HIDE DEF frame
    <3> QED
      BY <1>r, <2>1, <3>1
  <2> QED
    BY <1>g, <2>1, <2>2, <2>3, <2>4
<1>5. ASSUME NEW n \in Node, NEW t \in Node, MoveControl(n, t) PROVE FALSE
  BY <1>5, <1>d, <1>t DEF MoveControl
<1>6. ASSUME NEW n \in Node, NEW m \in Node, HandleTakeControl(n, m) PROVE FALSE
  <2>1. Displaced(m, n) \in DownType
        /\ \A x \in Node : <<Hardware, k>> \in Displaced(m, n)[x] => <<Hardware, k>> \in down[x]
    BY <1>d, DownHelpersType, NothingStruck
  <2> QED
    BY <1>6, <1>h, <2>1 DEF HandleTakeControl
<1>7. ASSUME NEW n \in Node, NEW m \in Node, HandleStaleTakeControl(n, m) PROVE FALSE
  BY <1>7, <1>d, <1>h DEF HandleStaleTakeControl
<1>8. ASSUME NEW n \in Node, NEW m \in Node, HandleYieldControl(n, m) PROVE FALSE
  <2>1. <<Hardware, k>> \in down[i]
    BY <1>8, <1>d, NothingStruck DEF HandleYieldControl
  <2> QED
    BY <1>8, <1>u, <2>1 DEF HandleYieldControl
<1>9. ASSUME NEW n \in Node, NEW m \in Node, HandleInput(n, m) PROVE FALSE
  <2>1. Head(inp[n][m]) \in Frame
    <3>1. inp[n][m] \in Seq(Frame) /\ inp[n][m] # <<>>
      BY <1>9 DEF HandleInput, Arrived, TypeOK
    <3> QED
      BY <3>1
  <2>2. Head(inp[n][m]).key \in Key
    BY <2>1 DEF Frame
  <2>3. <<Hardware, k>> \in down[i]
    <3> DEFINE y == Head(inp[n][m]).key
    <3>1. down' = PushDown(m, n, y, down) \/ down' = LetGo(m, {y}, down)
      BY <1>9 DEF HandleInput
    <3> HIDE DEF y
    <3>2. CASE down' = PushDown(m, n, y, down)
      BY <1>d, <2>2, <3>2, NothingStruck DEF y
    <3>3. CASE down' = LetGo(m, {y}, down)
      BY <1>d, <3>3 DEF LetGo, DownType
    <3> QED
      BY <3>1, <3>2, <3>3
  <2> QED
    BY <1>9, <1>u, <2>3 DEF HandleInput
<1>10. ASSUME UNCHANGED <<owner, held, down, captured>> PROVE FALSE
  BY <1>10, <1>u
<1>11. ASSUME NEW n \in Node, NEW m \in Node,
              \/ IgnoreUntrusted(n, m) \/ Break(n, m) \/ BeginPairing(n, m)
              \/ EnablePeer(n, m) \/ \E E \in SUBSET {n, m} : Reconnect(n, m, E)
       PROVE  FALSE
  BY <1>10, <1>11 DEF IgnoreUntrusted, Break, BeginPairing, EnablePeer, Reconnect
(* The session of m with n ends, and n is not m.                           *)
<1>p. ASSUME NEW n \in Node, NEW m \in Node, NEW spent, n # m, PeerGone(m, n, spent)
      PROVE  FALSE
  <2>1. /\ down' = Lost(m, {n}) /\ owner' = Reclaimed(m, {n}) /\ held' = Forgotten(m, {n})
        /\ captured' = captured
    BY <1>p DEF PeerGone
  <2>2. <<Hardware, k>> \in down[i]
    BY <1>d, <2>1, NothingStruck
  <2>3. owner[i] = i => owner'[i] = i /\ held'[i] = held[i]
    BY <1>d, <1>p, <2>1 DEF Reclaimed, Forgotten
  <2> QED
    BY <1>u, <2>1, <2>2, <2>3
<1>12. ASSUME NEW n \in Node, NEW m \in Node,
              PumpGone(n, m) \/ LatePumpGone(n, m) \/ CloseSession(n, m)
       PROVE  FALSE
  <2>1. n # m
    BY <1>12 DEF PumpGone, LatePumpGone, CloseSession, SessionInv
  <2> QED
    BY <1>10, <1>12, <1>p, <2>1 DEF PumpGone, LatePumpGone, CloseSession
<1>13. ASSUME NEW m \in Node, PowerLoss(m) PROVE FALSE
  <2>1. CASE i = m
    BY <1>13, <1>d, <2>1 DEF PowerLoss, DownType
  <2>2. CASE i # m
    BY <1>13, <1>d, <1>u, <2>2 DEF PowerLoss, DownType
  <2> QED
    BY <2>1, <2>2
<1>14. ASSUME NEW m \in Node, NEW S \in SUBSET (Node \ {m}), Probe(m, S) PROVE FALSE
  <2> DEFINE lost == S \intersect {drivenBy[m], owner[m]}
  <2>1. /\ captured' = captured /\ m \notin lost
        /\ \/ Transfer(m, m, ctl, Lost(m, lost))
           \/ /\ owner' = Reclaimed(m, lost) /\ held' = Forgotten(m, lost)
              /\ down' = Lost(m, lost)
    BY <1>14 DEF Probe
  <2> HIDE DEF lost
  <2>2. Lost(m, lost) \in DownType
        /\ \A x \in Node : <<Hardware, k>> \in Lost(m, lost)[x] => <<Hardware, k>> \in down[x]
    BY <1>d, DownHelpersType, NothingStruck
  <2>3. CASE Transfer(m, m, ctl, Lost(m, lost))
    BY <1>t, <2>1, <2>2, <2>3
  <2>4. CASE /\ owner' = Reclaimed(m, lost) /\ held' = Forgotten(m, lost)
             /\ down' = Lost(m, lost)
    <3>1. owner[i] = i => owner'[i] = i /\ held'[i] = held[i]
      BY <1>d, <2>1, <2>4 DEF Reclaimed, Forgotten
    <3> QED
      BY <1>u, <2>1, <2>2, <2>4, <3>1
  <2> QED
    BY <2>1, <2>3, <2>4
<1>15. ASSUME NEW m \in Node, Tick(m) PROVE FALSE
  <2> DEFINE stray == Node \ reachable[m]
  <2>1. /\ captured' = captured
        /\ \/ Transfer(m, m, ctl, Lost(m, stray))
           \/ down' = Lost(m, stray) /\ UNCHANGED <<owner, held>>
    BY <1>15 DEF Tick
  <2> HIDE DEF stray
  <2>2. Lost(m, stray) \in DownType
        /\ \A x \in Node : <<Hardware, k>> \in Lost(m, stray)[x] => <<Hardware, k>> \in down[x]
    BY <1>d, DownHelpersType, NothingStruck
  <2> QED
    BY <1>t, <1>u, <2>1, <2>2
<1>16. CASE UNCHANGED vars
  BY <1>10, <1>16 DEF vars
<1> QED
  BY <1>1, <1>2, <1>3, <1>4, <1>5, <1>6, <1>7, <1>8, <1>9, <1>11, <1>12, <1>13,
     <1>14, <1>15, <1>16
  DEF Next, User, RouteKey, Handle, HandleControl, Fault

(* Whatever fails, a key the local OS saw go down is on record at home or  *)
(* its press is still to be routed; what escapes is a key whose press was  *)
(* routed, after a crossing, to another machine.                           *)
THEOREM StrayKeys == Spec => StrayOnlyBehindACrossing
<1>1. Spec => [](TypeOK /\ SessionInv)
  BY CalmCorrect, PTL DEF CalmInv, WatchInv
<1>2. (TypeOK /\ SessionInv) /\ [Next]_vars =>
        [\A n \in Node : \A k \in Key :
           Stray(n, k)' => Stray(n, k) \/ RoutedAway(n, k)]_vars
  BY StrayStep
<1> QED
  BY <1>1, <1>2, PTL DEF Spec, StrayOnlyBehindACrossing

-----------------------------------------------------------------------------
(* The two records of who drives whom.                                     *)

(* Drives, of any control queues and any records.                          *)
Drove(c, d, n, m) ==
  IF c[n][m] = <<>> THEN d[m] = n ELSE c[n][m][Len(c[n][m])] = "TakeControl"

(* The last element survives the head's removal, and an append is last.    *)
LEMMA LastElement ==
  ASSUME NEW T, NEW s \in Seq(T), NEW x \in T
  PROVE  /\ s # <<>> /\ Tail(s) # <<>> => Tail(s)[Len(Tail(s))] = s[Len(s)]
         /\ s # <<>> /\ Tail(s) = <<>> => s[Len(s)] = Head(s)
         /\ s \o <<x>> # <<>> /\ (s \o <<x>>)[Len(s \o <<x>>)] = x
<1>1. Len(s) \in Nat
  OBVIOUS
<1>2. ASSUME s # <<>>
      PROVE  /\ Len(Tail(s)) = Len(s) - 1 /\ Len(s) >= 1 /\ Tail(s) \in Seq(T)
             /\ \A i \in 1 .. Len(Tail(s)) : Tail(s)[i] = s[i + 1]
  BY <1>1, <1>2, HeadTailProperties, EmptySeq
<1>3. ASSUME s # <<>>, Tail(s) # <<>> PROVE Tail(s)[Len(Tail(s))] = s[Len(s)]
  <2>1. Len(Tail(s)) \in Nat \ {0}
    BY <1>2, <1>3, EmptySeq
  <2>2. Tail(s)[Len(Tail(s))] = s[Len(Tail(s)) + 1]
    BY <1>2, <1>3, <2>1
  <2>3. Len(Tail(s)) + 1 = Len(s)
    BY <1>1, <1>2, <1>3
  <2> QED
    BY <2>2, <2>3
<1>4. ASSUME s # <<>>, Tail(s) = <<>> PROVE s[Len(s)] = Head(s)
  <2>1. Len(s) = 1
    <3>1. Len(Tail(s)) = 0
      BY <1>4, EmptySeq
    <3> QED
      BY <1>1, <1>2, <1>4, <3>1
  <2> QED
    BY <1>4, <2>1
<1>5. Len(s \o <<x>>) = Len(s) + 1 /\ (s \o <<x>>)[Len(s) + 1] = x
  BY <1>1
<1>6. s \o <<x>> # <<>>
  BY <1>1, <1>5
<1> QED
  BY <1>3, <1>4, <1>5, <1>6

(* Taking a message off the queue changes nobody's last word, if the       *)
(* record follows the message taken.                                       *)
LEMMA TakeKeepsLastWord ==
  ASSUME NEW c \in CtlType, NEW d, NEW e, NEW n \in Node, NEW m \in Node, c[n][m] # <<>>,
         e[m] = n => Head(c[n][m]) = "TakeControl",
         \A i \in Node, x \in Node : <<i, x>> # <<n, m>> /\ e[x] = i => d[x] = i
  PROVE  \A i, x \in Node : Drove(Take(n, m, c), e, i, x) => Drove(c, d, i, x)
<1>1. c[n][m] \in Seq({"TakeControl", "YieldControl"})
  BY DEF CtlType
<1>2. Take(n, m, c)[n][m] = Tail(c[n][m])
  BY DEF Take, CtlType
<1>3. Head(c[n][m]) \in {"TakeControl", "YieldControl"}
  BY <1>1
<1>4. ASSUME Drove(Take(n, m, c), e, n, m) PROVE Drove(c, d, n, m)
  BY <1>1, <1>2, <1>3, <1>4, LastElement DEF Drove
<1>5. ASSUME NEW i \in Node, NEW x \in Node, <<i, x>> # <<n, m>>,
             Drove(Take(n, m, c), e, i, x)
      PROVE  Drove(c, d, i, x)
  <2>1. Take(n, m, c)[i][x] = c[i][x]
    BY <1>5 DEF Take, CtlType
  <2> QED
    BY <1>5, <2>1 DEF Drove
<1> QED
  BY <1>4, <1>5

(* While nothing has failed, what is posted is appended.                   *)
LEMMA PostAppends ==
  ASSUME CalmInv, faults = 0, NEW n \in Node, NEW m \in Node, n # m
  PROVE  \A q, msgs : Post(n, m, q, msgs) = [q EXCEPT ![n][m] = @ \o msgs]
<1>1. m \in link[n] /\ {n, m} \in wire
  BY DEF CalmInv, Intact
<1> QED
  BY <1>1 DEF Post

(* After a transfer, n's last word tells nobody but t that it drives them. *)
LEMMA TransferLastWord ==
  ASSUME CalmInv, faults = 0, NEW n \in Node, NEW t \in Node, NEW c \in CtlType, NEW e,
         owner[n] # t, ctl' = TransferControl(n, t, c),
         \A x \in Node \ {n} : Drove(c, e, n, x) => owner[n] = x
  PROVE  /\ \A x \in Node \ {n} : Drove(ctl', e, n, x) => t = x
         /\ \A i \in Node \ {n}, x \in Node : ctl'[i][x] = c[i][x]
<1> DEFINE o == owner[n]
           y == IF o = n THEN c ELSE Post(n, o, c, <<"YieldControl">>)
           M == {"TakeControl", "YieldControl"}
<1>o. o \in Node
  BY DEF CalmInv, TypeOK
<1>1. y \in CtlType
  <2>1. <<"YieldControl">> \in Seq(M)
    OBVIOUS
  <2> QED
    BY <1>o, <2>1, PostType DEF CtlType
<1>2. /\ \A i \in Node \ {n}, x \in Node : y[i][x] = c[i][x]
      /\ \A x \in Node \ {n} : Drove(y, e, n, x) => FALSE
  <2>1. CASE o = n
    BY <2>1
  <2>2. CASE o # n
    <3>0. y = [c EXCEPT ![n][o] = @ \o <<"YieldControl">>]
      <4>1. \A q, msgs : Post(n, o, q, msgs) = [q EXCEPT ![n][o] = @ \o msgs]
        BY <1>o, <2>2, PostAppends
      <4> QED
        BY <2>2, <4>1
    <3>1. y[n][o] = c[n][o] \o <<"YieldControl">>
          /\ \A i, x \in Node : <<i, x>> # <<n, o>> => y[i][x] = c[i][x]
      <4> HIDE DEF o, y
      <4> QED
        BY <1>o, <3>0 DEF CtlType
    <3>2. c[n][o] \in Seq(M)
      BY <1>o DEF CtlType
    <3>3. ~Drove(y, e, n, o)
      BY <3>1, <3>2, LastElement DEF Drove
    <3>4. \A x \in Node \ {n, o} : ~Drove(y, e, n, x)
      <4>1. \A x \in Node \ {n, o} : y[n][x] = c[n][x]
        BY <3>1
      <4> QED
        BY <4>1 DEF Drove
    <3> QED
      BY <3>1, <3>3, <3>4
  <2> QED
    BY <2>1, <2>2
<1>3. CASE t = n
  <2>1. ctl' = y
    BY <1>3 DEF TransferControl
  <2> QED
    BY <1>2, <2>1
<1>4. CASE t # n
  <2>1. ctl' = Post(n, t, y, <<"TakeControl">>)
    BY <1>4 DEF TransferControl
  <2>2. \A i, x \in Node : <<i, x>> # <<n, t>> => ctl'[i][x] = y[i][x]
    <3>1. ctl' = [y EXCEPT ![n][t] = @ \o <<"TakeControl">>]
      <4>1. \A q, msgs : Post(n, t, q, msgs) = [q EXCEPT ![n][t] = @ \o msgs]
        BY <1>4, PostAppends
      <4> QED
        BY <2>1, <4>1
    <3> HIDE DEF y
    <3> QED
      BY <1>1, <3>1 DEF CtlType
  <2>3. \A x \in Node \ {n} : Drove(ctl', e, n, x) => t = x
    BY <1>2, <2>2 DEF Drove
  <2> QED
    BY <1>2, <2>2, <2>3
<1> QED
  BY <1>3, <1>4

LEMMA DrivesStep == CalmInv /\ DriverOwnsCursor /\ [Next]_vars => DriverOwnsCursor'
<1> SUFFICES ASSUME CalmInv, DriverOwnsCursor, [Next]_vars, faults' = 0
             PROVE  \A n, m \in Node : n # m /\ Drove(ctl', drivenBy', n, m) => owner'[n] = m
  BY DEF DriverOwnsCursor, Drives, Drove
<1> USE HandoffAssumption DEF HandoffAssumption
<1>f. faults = 0 /\ (Next => Calm)
  BY CalmStep DEF CalmInv, vars
<1>h. \A n, m \in Node : n # m /\ Drove(ctl, drivenBy, n, m) => owner[n] = m
  BY <1>f DEF DriverOwnsCursor, Drives, Drove
<1>t. ctl \in CtlType /\ owner \in [Node -> Node] /\ drivenBy \in [Node -> Node \union {None}]
  BY DEF CalmInv, TypeOK, CtlType
<1>g. ASSUME UNCHANGED <<ctl, drivenBy, owner>>
      PROVE  \A n, m \in Node : n # m /\ Drove(ctl', drivenBy', n, m) => owner'[n] = m
  BY <1>g, <1>h DEF Drove
(* A transfer by n, after a message may have been taken.                   *)
<1>x. ASSUME NEW n \in Node, NEW t \in Node, NEW c \in CtlType, NEW d, Transfer(n, t, c, d),
             owner[n] # t,
             \A i, x \in Node : i # x /\ Drove(c, drivenBy', i, x) => owner[i] = x
      PROVE  \A i, x \in Node : i # x /\ Drove(ctl', drivenBy', i, x) => owner'[i] = x
  <2>1. ctl' = TransferControl(n, t, c) /\ owner' = [owner EXCEPT ![n] = t]
    BY <1>x DEF Transfer
  <2>2. /\ \A x \in Node \ {n} : Drove(ctl', drivenBy', n, x) => t = x
        /\ \A i \in Node \ {n}, x \in Node : ctl'[i][x] = c[i][x]
    BY <1>f, <1>x, <2>1, TransferLastWord
  <2>3. owner'[n] = t /\ \A i \in Node \ {n} : owner'[i] = owner[i]
    BY <1>t, <2>1
  <2>4. \A i \in Node \ {n}, x \in Node :
          Drove(ctl', drivenBy', i, x) => Drove(c, drivenBy', i, x)
    BY <2>2 DEF Drove
  <2> QED
    BY <1>x, <2>2, <2>3, <2>4
<1>1. ASSUME NEW n \in Node, NEW k \in Key,
             KeyDown(n, k) \/ KeyUp(n, k) \/ RoutePress(n, k) \/ RouteRelease(n, k)
      PROVE  \A i, x \in Node : i # x /\ Drove(ctl', drivenBy', i, x) => owner'[i] = x
  BY <1>1, <1>g DEF KeyDown, KeyUp, RoutePress, RouteRelease
<1>2. ASSUME NEW n \in Node, NEW t \in Node, MoveControl(n, t)
      PROVE  \A i, x \in Node : i # x /\ Drove(ctl', drivenBy', i, x) => owner'[i] = x
  <2>1. Transfer(n, t, ctl, down) /\ owner[n] # t /\ drivenBy' = drivenBy
    BY <1>2 DEF MoveControl
  <2> QED
    BY <1>h, <1>t, <1>x, <2>1
<1>3. ASSUME NEW n \in Node, NEW m \in Node, HandleTakeControl(n, m)
      PROVE  \A i, x \in Node : i # x /\ Drove(ctl', drivenBy', i, x) => owner'[i] = x
  <2>1. /\ drivenBy' = [drivenBy EXCEPT ![m] = n]
        /\ GoHome(m, Take(n, m, ctl), Displaced(m, n))
        /\ ctl[n][m] # <<>> /\ Head(ctl[n][m]) = "TakeControl"
    BY <1>3 DEF HandleTakeControl, Arrived
  <2>2. /\ drivenBy'[m] = n
        /\ \A i, x \in Node : <<i, x>> # <<n, m>> /\ drivenBy'[x] = i => drivenBy[x] = i
    BY <1>t, <2>1
  <2>3. \A i, x \in Node : Drove(Take(n, m, ctl), drivenBy', i, x)
                             => Drove(ctl, drivenBy, i, x)
    BY <1>t, <2>1, <2>2, TakeKeepsLastWord
  <2>4. Take(n, m, ctl) \in CtlType
    BY <1>t, <2>1, QueueHelpersType DEF CtlType
  <2>5. CASE owner[m] = m
    <3>1. ctl' = Take(n, m, ctl) /\ owner' = owner
      BY <2>1, <2>5 DEF GoHome
    <3> QED
      BY <1>h, <2>3, <3>1
  <2>6. CASE owner[m] # m
    <3>1. Transfer(m, m, Take(n, m, ctl), Displaced(m, n))
      BY <2>1, <2>6 DEF GoHome
    <3> QED
      BY <1>h, <1>x, <2>3, <2>4, <2>6, <3>1
  <2> QED
    BY <2>5, <2>6
<1>4. ASSUME NEW n \in Node, NEW m \in Node, HandleYieldControl(n, m)
      PROVE  \A i, x \in Node : i # x /\ Drove(ctl', drivenBy', i, x) => owner'[i] = x
  <2>1. /\ drivenBy' = LetDriverGo(m, {n}) /\ ctl' = Take(n, m, ctl) /\ owner' = owner
        /\ ctl[n][m] # <<>> /\ Head(ctl[n][m]) = "YieldControl"
    BY <1>4 DEF HandleYieldControl, Arrived
  <2>2. /\ drivenBy'[m] # n
        /\ \A i, x \in Node : drivenBy'[x] = i => drivenBy[x] = i
    BY <1>t, <2>1 DEF LetDriverGo
  <2>3. \A i, x \in Node : Drove(Take(n, m, ctl), drivenBy', i, x)
                             => Drove(ctl, drivenBy, i, x)
    BY <1>t, <2>1, <2>2, TakeKeepsLastWord
  <2> QED
    BY <1>h, <2>1, <2>3
<1>5. ASSUME NEW n \in Node, NEW m \in Node, HandleInput(n, m)
      PROVE  \A i, x \in Node : i # x /\ Drove(ctl', drivenBy', i, x) => owner'[i] = x
  BY <1>5, <1>g DEF HandleInput
<1>6. CASE UNCHANGED vars
  BY <1>6, <1>g DEF vars
<1> QED
  BY <1>1, <1>2, <1>3, <1>4, <1>5, <1>6, <1>f DEF Calm, User, RouteKey

(* As long as nothing has failed, whoever is on record as a machine's      *)
(* driver, or is about to be, has its cursor there.                        *)
THEOREM RecordsAgree == Spec => []DriverOwnsCursor
<1>1. Init => DriverOwnsCursor
  BY HandoffAssumption DEF Init, DriverOwnsCursor, Drives, HandoffAssumption
<1> QED
  BY <1>1, DrivesStep, CalmCorrect, PTL DEF Spec


-----------------------------------------------------------------------------
(* Keys held down on other machines.                                       *)

(* EndsDown, of any queue of frames: what key k will be once the queue has *)
(* been handled, if it is d now.                                           *)
Ends(q, k, d) ==
  \/ d /\ \A i \in DOMAIN q : q[i].key # k
  \/ \E i \in DOMAIN q :
       q[i].key = k /\ q[i].down /\ \A j \in DOMAIN q : q[j].key = k => j <= i

LEMMA EndsDownIsEnds ==
  ASSUME NEW n \in Node, NEW m \in Node, NEW k \in Key
  PROVE  EndsDown(n, m, k) <=> Ends(inp[n][m], k, <<n, k>> \in down[m])
<1> DEFINE q == inp[n][m]
           touching == {i \in DOMAIN q : q[i].key = k}
<1>1. CASE touching = {}
  BY <1>1 DEF EndsDown, Ends
<1>2. CASE touching # {}
  BY <1>2 DEF EndsDown, Ends
<1> QED
  BY <1>1, <1>2

(* The same of the next state.                                             *)
LEMMA EndsDownIsEndsNext ==
  ASSUME NEW n \in Node, NEW m \in Node, NEW k \in Key
  PROVE  EndsDown(n, m, k)' <=> Ends(inp'[n][m], k, <<n, k>> \in down'[m])
<1> DEFINE q == inp'[n][m]
           touching == {i \in DOMAIN q : q[i].key = k}
<1>1. CASE touching = {}
  BY <1>1 DEF EndsDown, Ends
<1>2. CASE touching # {}
  BY <1>2 DEF EndsDown, Ends
<1> QED
  BY <1>1, <1>2

(* Frames appended decide the keys they touch and leave the others.        *)
LEMMA EndsAppend ==
  ASSUME NEW q \in Seq(Frame), NEW s \in Seq(Frame), NEW k, NEW d, Ends(q \o s, k, d)
  PROVE  \/ \E i \in DOMAIN s : s[i].key = k /\ s[i].down
         \/ Ends(q, k, d) /\ \A i \in DOMAIN s : s[i].key # k
<1> DEFINE r == q \o s
<1>1. /\ Len(q) \in Nat /\ Len(s) \in Nat
      /\ DOMAIN q = 1 .. Len(q) /\ DOMAIN s = 1 .. Len(s)
      /\ DOMAIN r = 1 .. Len(q) + Len(s)
      /\ \A i \in 1 .. Len(q) : r[i] = q[i]
      /\ \A i \in 1 .. Len(s) : r[Len(q) + i] = s[i]
  OBVIOUS
<1> HIDE DEF r
<1>e. Ends(r, k, d)
  BY DEF r
<1>2. CASE \E i \in DOMAIN s : s[i].key = k
  <2>1. PICK i \in 1 .. Len(s) : s[i].key = k
    BY <1>1, <1>2
  <2>2. Len(q) + i \in DOMAIN r /\ r[Len(q) + i].key = k
    BY <1>1, <2>1
  <2>3. PICK l \in DOMAIN r : r[l].key = k /\ r[l].down /\ \A j \in DOMAIN r : r[j].key = k => j <= l
    BY <1>e, <2>2 DEF Ends
  <2>4. Len(q) + i <= l
    BY <2>2, <2>3
  <2>5. l - Len(q) \in 1 .. Len(s) /\ Len(q) + (l - Len(q)) = l
    BY <1>1, <2>3, <2>4
  <2>6. s[l - Len(q)] = r[l]
    BY <1>1, <2>5
  <2> QED
    BY <1>1, <2>3, <2>5, <2>6
<1>3. CASE \A i \in DOMAIN s : s[i].key # k
  <2>1. ASSUME NEW l \in DOMAIN r, r[l].key = k PROVE l \in 1 .. Len(q) /\ q[l] = r[l]
    <3>1. CASE l <= Len(q)
      BY <1>1, <2>1, <3>1
    <3>2. CASE l > Len(q)
      <4>1. l - Len(q) \in 1 .. Len(s) /\ Len(q) + (l - Len(q)) = l
        BY <1>1, <2>1, <3>2
      <4>2. s[l - Len(q)] = r[l]
        BY <1>1, <4>1
      <4> QED
        BY <1>1, <1>3, <2>1, <4>1, <4>2
    <3> QED
      BY <1>1, <2>1, <3>1, <3>2
  <2>2. \A l \in 1 .. Len(q) : l \in DOMAIN r /\ r[l] = q[l]
    BY <1>1
  <2>3. Ends(q, k, d)
    BY <1>1, <1>e, <2>1, <2>2 DEF Ends
  <2> QED
    BY <1>3, <2>3
<1> QED
  BY <1>2, <1>3

(* Handling the first frame changes nothing of what the queue decides.     *)
LEMMA EndsTail ==
  ASSUME NEW q \in Seq(Frame), q # <<>>, NEW k, NEW d, NEW e, Ends(Tail(q), k, e),
         IF Head(q).key = k THEN e => Head(q).down ELSE e => d
  PROVE  Ends(q, k, d)
<1> DEFINE u == Tail(q)
<1>1. /\ Len(q) \in Nat \ {0} /\ DOMAIN q = 1 .. Len(q)
      /\ u \in Seq(Frame) /\ Len(u) = Len(q) - 1 /\ DOMAIN u = 1 .. Len(q) - 1
      /\ \A i \in 1 .. Len(q) - 1 : u[i] = q[i + 1]
      /\ Head(q) = q[1]
  BY EmptySeq, HeadTailProperties
<1> HIDE DEF u
<1>e. Ends(u, k, e)
  BY DEF u
<1>2. \A j \in DOMAIN q : j = 1 \/ (j - 1 \in DOMAIN u /\ q[j] = u[j - 1])
  <2>1. ASSUME NEW j \in 1 .. Len(q), j # 1 PROVE j - 1 \in DOMAIN u /\ q[j] = u[j - 1]
    <3>1. j - 1 \in 1 .. Len(q) - 1 /\ (j - 1) + 1 = j
      BY <1>1, <2>1
    <3>2. u[j - 1] = q[(j - 1) + 1]
      BY <1>1, <3>1
    <3> QED
      BY <1>1, <3>1, <3>2
  <2> QED
    BY <1>1, <2>1
<1>3. CASE \E i \in DOMAIN u :
             u[i].key = k /\ u[i].down /\ \A j \in DOMAIN u : u[j].key = k => j <= i
  <2>1. PICK i \in DOMAIN u :
          u[i].key = k /\ u[i].down /\ \A j \in DOMAIN u : u[j].key = k => j <= i
    BY <1>3
  <2>2. i + 1 \in DOMAIN q /\ q[i + 1] = u[i] /\ i \in Nat
    BY <1>1, <2>1
  <2>3. ASSUME NEW j \in DOMAIN q, q[j].key = k PROVE j <= i + 1
    <3>1. CASE j = 1
      BY <2>2, <3>1
    <3>2. CASE j # 1
      <4>1. j - 1 <= i
        BY <1>2, <2>1, <2>3, <3>2
      <4> QED
        BY <1>1, <2>2, <4>1
    <3> QED
      BY <3>1, <3>2
  <2> QED
    BY <2>1, <2>2, <2>3 DEF Ends
<1>4. CASE e /\ \A i \in DOMAIN u : u[i].key # k
  <2>1. \A j \in DOMAIN q : q[j].key = k => j = 1
    BY <1>2, <1>4
  <2>2. 1 \in DOMAIN q
    BY <1>1
  <2>3. CASE Head(q).key = k
    <3>1. q[1].key = k /\ q[1].down
      BY <1>1, <1>4, <2>3
    <3>2. \A j \in DOMAIN q : q[j].key = k => j <= 1
      BY <1>1, <2>1
    <3> QED
      BY <2>2, <3>1, <3>2 DEF Ends
  <2>4. CASE Head(q).key # k
    <3>1. d /\ q[1].key # k
      BY <1>1, <1>4, <2>4
    <3>2. \A j \in DOMAIN q : q[j].key # k
      BY <2>1, <3>1
    <3> QED
      BY <3>1, <3>2 DEF Ends
  <2> QED
    BY <2>3, <2>4
<1> QED
  BY <1>e, <1>3, <1>4 DEF Ends

(* A key known to be down sooner is down at the end.                       *)
LEMMA EndsMonotone ==
  ASSUME NEW q, NEW k, NEW d, NEW e, Ends(q, k, e), e => d
  PROVE  Ends(q, k, d)
  BY DEF Ends

(* The releases of a handoff release every key on record.                  *)
LEMMA ReleaseFramesRelease ==
  ASSUME TypeOK, NEW n \in Node
  PROVE  /\ \A i \in DOMAIN ReleaseFrames(n) : ~ReleaseFrames(n)[i].down
         /\ \A k \in HeldKeys(n) : \E i \in DOMAIN ReleaseFrames(n) : ReleaseFrames(n)[i].key = k
<1>1. Len(held[n]) \in Nat /\ DOMAIN held[n] = 1 .. Len(held[n])
  BY DEF TypeOK
<1>2. DOMAIN ReleaseFrames(n) = 1 .. Len(held[n])
  BY DEF ReleaseFrames
<1>k. \A i \in 1 .. Len(held[n]) :
        /\ ReleaseFrames(n)[i].key = held[n][Len(held[n]) + 1 - i]
        /\ ReleaseFrames(n)[i].down = FALSE
  BY DEF ReleaseFrames
<1>3. ASSUME NEW k \in HeldKeys(n)
      PROVE  \E i \in DOMAIN ReleaseFrames(n) : ReleaseFrames(n)[i].key = k
  <2>1. PICK j \in 1 .. Len(held[n]) : held[n][j] = k
    BY <1>1 DEF HeldKeys
  <2>2. Len(held[n]) + 1 - j \in 1 .. Len(held[n])
        /\ Len(held[n]) + 1 - (Len(held[n]) + 1 - j) = j
    BY <1>1
  <2>3. ReleaseFrames(n)[Len(held[n]) + 1 - j].key = held[n][j]
    BY <1>k, <2>2
  <2> QED
    BY <1>2, <2>1, <2>2, <2>3
<1> QED
  BY <1>2, <1>k, <1>3


RemoteHeld(q, d, n, m, k) == Ends(q[n][m], k, <<n, k>> \in d[m])

(* A transfer by n leaves nothing of n's down, nor about to be, anywhere,  *)
(* and disturbs nobody else's.                                             *)
LEMMA TransferLetsGo ==
  ASSUME CalmInv, faults = 0, NEW n \in Node, NEW t \in Node, NEW c, NEW d \in DownType,
         Transfer(n, t, c, d), \A i \in Node : d[i] \subseteq down[i],
         \A m \in Node \ {n} : \A k \in Key :
           RemoteHeld(inp, down, n, m, k) => owner[n] = m /\ k \in HeldKeys(n)
  PROVE  /\ \A m \in Node \ {n} : \A k \in Key : ~RemoteHeld(inp', down', n, m, k)
         /\ \A i \in Node \ {n} : \A m \in Node : \A k \in Key :
              RemoteHeld(inp', down', i, m, k) => RemoteHeld(inp, down, i, m, k)
<1> DEFINE o == owner[n]
           s == ReleaseFrames(n)
<1>t. /\ o \in Node /\ inp \in InpType /\ s \in Seq(Frame)
      /\ \A k \in HeldKeys(n) : \E i \in DOMAIN s : s[i].key = k
      /\ \A i \in DOMAIN s : ~s[i].down
  BY ReleaseFramesType, ReleaseFramesRelease DEF CalmInv, TypeOK, InpType
<1>1. \A i \in Node : down'[i] \subseteq down[i]
  BY DEF Transfer, TransferDown, ReleaseAll, LetGo, DownType
<1>2. inp' = TransferInput(n)
  BY DEF Transfer
<1>3. CASE o = n
  <2>1. inp' = inp
    BY <1>2, <1>3 DEF TransferInput
  <2>2. \A i, m \in Node : \A k \in Key :
          RemoteHeld(inp', down', i, m, k) => RemoteHeld(inp, down, i, m, k)
    BY <1>1, <2>1, EndsMonotone DEF RemoteHeld
  <2> QED
    BY <1>3, <2>2
<1>4. CASE o # n
  <2> HIDE DEF o, s
  <2>1. inp' = [inp EXCEPT ![n][o] = @ \o s]
    <3>1. \A q, msgs : Post(n, o, q, msgs) = [q EXCEPT ![n][o] = @ \o msgs]
      BY <1>t, <1>4, PostAppends
    <3> QED
      BY <1>2, <1>4, <3>1 DEF TransferInput, o, s
  <2>2. /\ inp'[n][o] = inp[n][o] \o s
        /\ \A i, m \in Node : <<i, m>> # <<n, o>> => inp'[i][m] = inp[i][m]
    BY <1>t, <2>1 DEF InpType
  <2>3. ASSUME NEW i \in Node, NEW m \in Node, <<i, m>> # <<n, o>>, NEW k \in Key,
               RemoteHeld(inp', down', i, m, k)
        PROVE  RemoteHeld(inp, down, i, m, k)
    BY <1>1, <2>2, <2>3, EndsMonotone DEF RemoteHeld
  <2>4. ASSUME NEW k \in Key, RemoteHeld(inp', down', n, o, k) PROVE FALSE
    <3>1. Ends(inp[n][o] \o s, k, <<n, k>> \in down'[o])
      BY <2>2, <2>4 DEF RemoteHeld
    <3>2. inp[n][o] \in Seq(Frame)
      BY <1>t DEF InpType
    <3>3. Ends(inp[n][o], k, <<n, k>> \in down'[o]) /\ \A i \in DOMAIN s : s[i].key # k
      BY <1>t, <3>1, <3>2, EndsAppend
    <3>4. RemoteHeld(inp, down, n, o, k)
      BY <1>1, <1>t, <3>3, EndsMonotone DEF RemoteHeld
    <3>5. k \in HeldKeys(n)
      BY <1>4, <1>t, <3>4
    <3> QED
      BY <1>t, <3>3, <3>5
  <2>5. ASSUME NEW m \in Node \ {n}, NEW k \in Key, RemoteHeld(inp', down', n, m, k) PROVE FALSE
    <3>1. CASE m = o
      BY <2>4, <2>5, <3>1
    <3>2. CASE m # o
      BY <2>3, <2>5, <3>2 DEF o
    <3> QED
      BY <3>1, <3>2
  <2> QED
    BY <2>3, <2>5
<1> QED
  BY <1>3, <1>4

LEMMA RemoteStep == CalmInv /\ NoKeyLeftBehind /\ [Next]_vars => NoKeyLeftBehind'
<1> SUFFICES ASSUME CalmInv, NoKeyLeftBehind, [Next]_vars, faults' = 0,
                    NEW i \in Node, NEW x \in Node, NEW k \in Key,
                    (i # x /\ EndsDown(i, x, k))'
             PROVE  (owner[i] = x /\ k \in HeldKeys(i))'
  BY DEF NoKeyLeftBehind
<1> SUFFICES ASSUME i # x, RemoteHeld(inp', down', i, x, k)
             PROVE  owner'[i] = x /\ k \in HeldKeys(i)'
  BY EndsDownIsEndsNext DEF RemoteHeld
<1> USE HandoffAssumption DEF HandoffAssumption
<1>f. faults = 0 /\ (Next => Calm)
  BY CalmStep DEF CalmInv, vars
<1>h. \A n \in Node, m \in Node, y \in Key :
        n # m /\ RemoteHeld(inp, down, n, m, y) => owner[n] = m /\ y \in HeldKeys(n)
  BY <1>f, EndsDownIsEnds DEF NoKeyLeftBehind, RemoteHeld
<1>t. TypeOK /\ down \in DownType /\ inp \in InpType /\ owner \in [Node -> Node]
      /\ \A n, m \in Node : inp[n][m] \in Seq(Frame)
  <2>1. TypeOK
    BY DEF CalmInv
  <2>2. down \in DownType /\ inp \in InpType /\ owner \in [Node -> Node]
    BY <2>1 DEF TypeOK, DownType, InpType
  <2> QED
    BY <2>1, <2>2 DEF InpType
(* Nothing that could end down is new, and i's cursor and record stand.    *)
<1>g. ASSUME RemoteHeld(inp, down, i, x, k), owner'[i] = owner[i], held'[i] = held[i]
      PROVE  owner'[i] = x /\ k \in HeldKeys(i)'
  BY <1>g, <1>h DEF HeldKeys
(* A transfer by n.                                                        *)
<1>x. ASSUME NEW n \in Node, NEW t \in Node, NEW c, NEW d \in DownType,
             Transfer(n, t, c, d), \A j \in Node : d[j] \subseteq down[j]
      PROVE  owner'[i] = x /\ k \in HeldKeys(i)'
  <2>1. i # n /\ RemoteHeld(inp, down, i, x, k)
    BY <1>f, <1>h, <1>x, TransferLetsGo
  <2>2. owner'[i] = owner[i] /\ held'[i] = held[i]
    BY <1>x, <2>1 DEF Transfer, CalmInv, TypeOK
  <2> QED
    BY <1>g, <2>1, <2>2
<1>1. ASSUME NEW n \in Node, NEW y \in Key, RoutePress(n, y)
      PROVE  owner'[i] = x /\ k \in HeldKeys(i)'
  <2>1. /\ owner' = owner /\ held' = [held EXCEPT ![n] = Pressed(n, y)]
        /\ \A j \in Node \ {n} : held'[j] = held[j]
    BY <1>1, <1>t DEF RoutePress, TypeOK
  <2>2. HeldKeys(n)' = HeldKeys(n) \union {y}
    BY <1>t, <2>1, HeldKeysStep
  <2>3. <<i, k>> \in down'[x] => <<i, k>> \in down[x]
    BY <1>1, <1>t DEF RoutePress, PushDown, DownType
  <2>4. CASE owner[n] = n
    <3>1. inp' = inp
      BY <1>1, <2>4 DEF RoutePress, Forwarded
    <3>2. RemoteHeld(inp, down, i, x, k)
      BY <2>3, <3>1, EndsMonotone DEF RemoteHeld
    <3> QED
      BY <1>h, <2>1, <2>2, <3>2 DEF HeldKeys
  <2>5. CASE owner[n] # n
    <3> DEFINE f == [key |-> y, down |-> TRUE]
    <3>1. inp' = [inp EXCEPT ![n][owner[n]] = @ \o <<f>>]
      <4>1. \A q, msgs : Post(n, owner[n], q, msgs) = [q EXCEPT ![n][owner[n]] = @ \o msgs]
        BY <1>f, <1>t, <2>5, PostAppends
      <4> QED
        BY <1>1, <2>5, <4>1 DEF RoutePress, Forwarded
    <3>2. CASE i = n /\ x = owner[n]
      <4>1. inp'[i][x] = inp[i][x] \o <<f>>
        BY <1>t, <3>1, <3>2 DEF InpType
      <4>2. <<f>> \in Seq(Frame) /\ DOMAIN <<f>> = {1} /\ <<f>>[1].key = y
        BY DEF Frame
      <4>3. k = y \/ Ends(inp[i][x], k, <<i, k>> \in down'[x])
        BY <1>t, <4>1, <4>2, EndsAppend DEF RemoteHeld
      <4>4. k = y \/ RemoteHeld(inp, down, i, x, k)
        BY <2>3, <4>3, EndsMonotone DEF RemoteHeld
      <4> QED
        BY <1>h, <2>1, <2>2, <3>2, <4>4
    <3>3. CASE ~(i = n /\ x = owner[n])
      <4>1. inp'[i][x] = inp[i][x]
        BY <1>t, <3>1, <3>3 DEF InpType
      <4>2. RemoteHeld(inp, down, i, x, k)
        BY <2>3, <4>1, EndsMonotone DEF RemoteHeld
      <4> QED
        BY <1>h, <2>1, <2>2, <4>2 DEF HeldKeys
    <3> QED
      BY <3>2, <3>3
  <2> QED
    BY <2>4, <2>5
<1>2. ASSUME NEW n \in Node, NEW y \in Key, RouteRelease(n, y)
      PROVE  owner'[i] = x /\ k \in HeldKeys(i)'
  <2>1. /\ owner' = owner /\ held' = [held EXCEPT ![n] = Unpressed(n, y)]
        /\ \A j \in Node \ {n} : held'[j] = held[j]
    BY <1>2, <1>t DEF RouteRelease, TypeOK
  <2>2. HeldKeys(n) \ {y} \subseteq HeldKeys(n)'
    BY <1>t, <2>1, HeldKeysStep
  <2>3. <<i, k>> \in down'[x] => <<i, k>> \in down[x]
    BY <1>2, <1>t DEF RouteRelease, LetGo, DownType
  <2>4. CASE owner[n] = n
    <3>1. inp' = inp
      BY <1>2, <2>4 DEF RouteRelease, Forwarded
    <3>2. RemoteHeld(inp, down, i, x, k)
      BY <2>3, <3>1, EndsMonotone DEF RemoteHeld
    <3>3. i # n
      BY <1>h, <2>4, <3>2
    <3> QED
      BY <1>g, <2>1, <3>2, <3>3
  <2>5. CASE owner[n] # n
    <3> DEFINE f == [key |-> y, down |-> FALSE]
    <3>1. inp' = [inp EXCEPT ![n][owner[n]] = @ \o <<f>>]
      <4>1. \A q, msgs : Post(n, owner[n], q, msgs) = [q EXCEPT ![n][owner[n]] = @ \o msgs]
        BY <1>f, <1>t, <2>5, PostAppends
      <4> QED
        BY <1>2, <2>5, <4>1 DEF RouteRelease, Forwarded
    <3>2. CASE i = n /\ x = owner[n]
      <4>1. inp'[i][x] = inp[i][x] \o <<f>>
        BY <1>t, <3>1, <3>2 DEF InpType
      <4>2. <<f>> \in Seq(Frame) /\ DOMAIN <<f>> = {1} /\ <<f>>[1].key = y /\ ~<<f>>[1].down
        BY DEF Frame
      <4>3. k # y /\ Ends(inp[i][x], k, <<i, k>> \in down'[x])
        <5> DEFINE s == <<f>>
                   b == <<i, k>> \in down'[x]
        <5>1. Ends(inp[i][x] \o s, k, b) /\ inp[i][x] \in Seq(Frame)
          BY <1>t, <4>1 DEF RemoteHeld
        <5>2. s \in Seq(Frame) /\ DOMAIN s = {1} /\ s[1].key = y /\ ~s[1].down
          BY <4>2
        <5> HIDE DEF s, b
        <5>3. \/ \E j \in DOMAIN s : s[j].key = k /\ s[j].down
              \/ Ends(inp[i][x], k, b) /\ \A j \in DOMAIN s : s[j].key # k
          BY <5>1, <5>2, EndsAppend
        <5>4. Ends(inp[i][x], k, b) /\ k # y
          BY <5>2, <5>3
        <5> QED
          BY <5>4 DEF b
      <4>4. k # y /\ RemoteHeld(inp, down, i, x, k)
        BY <2>3, <4>3, EndsMonotone DEF RemoteHeld
      <4> QED
        BY <1>h, <2>1, <2>2, <3>2, <4>4
    <3>3. CASE ~(i = n /\ x = owner[n])
      <4>1. inp'[i][x] = inp[i][x]
        BY <1>t, <3>1, <3>3 DEF InpType
      <4>2. RemoteHeld(inp, down, i, x, k)
        BY <2>3, <4>1, EndsMonotone DEF RemoteHeld
      <4>3. i # n
        BY <1>h, <3>3, <4>2
      <4> QED
        BY <1>g, <2>1, <4>2, <4>3
    <3> QED
      BY <3>2, <3>3
  <2> QED
    BY <2>4, <2>5
<1>3. ASSUME NEW n \in Node, NEW t \in Node, MoveControl(n, t)
      PROVE  owner'[i] = x /\ k \in HeldKeys(i)'
  BY <1>3, <1>t, <1>x DEF MoveControl
<1>4. ASSUME NEW n \in Node, NEW m \in Node, HandleTakeControl(n, m)
      PROVE  owner'[i] = x /\ k \in HeldKeys(i)'
  <2>1. Displaced(m, n) \in DownType /\ \A j \in Node : Displaced(m, n)[j] \subseteq down[j]
    BY <1>t DEF Displaced, ReleaseAll, DownType
  <2>2. GoHome(m, Take(n, m, ctl), Displaced(m, n))
    BY <1>4 DEF HandleTakeControl
  <2>3. CASE owner[m] # m
    BY <1>x, <2>1, <2>2, <2>3 DEF GoHome
  <2>4. CASE owner[m] = m
    <3>1. UNCHANGED <<owner, held, inp>> /\ down' = Displaced(m, n)
      BY <2>2, <2>4 DEF GoHome
    <3>2. <<i, k>> \in down'[x] => <<i, k>> \in down[x]
      BY <2>1, <3>1
    <3>3. RemoteHeld(inp, down, i, x, k)
      BY <3>1, <3>2, EndsMonotone DEF RemoteHeld
    <3> QED
      BY <1>g, <3>1, <3>3
  <2> QED
    BY <2>3, <2>4
<1>5. ASSUME NEW n \in Node, NEW m \in Node, HandleYieldControl(n, m)
      PROVE  owner'[i] = x /\ k \in HeldKeys(i)'
  <2>1. UNCHANGED <<owner, held, inp>> /\ down' = ReleaseAll(m, down)
    BY <1>5 DEF HandleYieldControl
  <2>2. <<i, k>> \in down'[x] => <<i, k>> \in down[x]
    BY <1>t, <2>1 DEF ReleaseAll, DownType
  <2>3. RemoteHeld(inp, down, i, x, k)
    BY <2>1, <2>2, EndsMonotone DEF RemoteHeld
  <2> QED
    BY <1>g, <2>1, <2>3
<1>6. ASSUME NEW n \in Node, NEW m \in Node, HandleInput(n, m)
      PROVE  owner'[i] = x /\ k \in HeldKeys(i)'
  <2> DEFINE f == Head(inp[n][m])
  <2>1. /\ UNCHANGED <<owner, held>> /\ inp[n][m] # <<>> /\ inp' = Take(n, m, inp)
        /\ down' = IF f.down THEN PushDown(m, n, f.key, down) ELSE LetGo(m, {f.key}, down)
    BY <1>6 DEF HandleInput, Arrived
  <2>2. /\ inp'[n][m] = Tail(inp[n][m])
        /\ \A j, y \in Node : <<j, y>> # <<n, m>> => inp'[j][y] = inp[j][y]
    BY <1>t, <2>1 DEF Take, InpType
  <2> HIDE DEF f
  <2>3. /\ (<<i, x>> # <<n, m>> \/ f.key # k) => (<<i, k>> \in down'[x] => <<i, k>> \in down[x])
        /\ <<i, x>> = <<n, m>> /\ f.key = k => (<<i, k>> \in down'[x] => f.down)
    BY <1>t, <2>1 DEF PushDown, LetGo, DownType
  <2>4. RemoteHeld(inp, down, i, x, k)
    <3>1. CASE <<i, x>> = <<n, m>>
      <4>1. IF Head(inp[i][x]).key = k
              THEN <<i, k>> \in down'[x] => Head(inp[i][x]).down
              ELSE <<i, k>> \in down'[x] => <<i, k>> \in down[x]
        BY <2>3, <3>1 DEF f
      <4>2. Ends(Tail(inp[i][x]), k, <<i, k>> \in down'[x])
        BY <2>2, <3>1 DEF RemoteHeld
      <4>3. inp[i][x] \in Seq(Frame) /\ inp[i][x] # <<>>
        BY <1>t, <2>1, <3>1
      <4> QED
        BY <4>1, <4>2, <4>3, EndsTail DEF RemoteHeld
    <3>2. CASE <<i, x>> # <<n, m>>
      BY <2>2, <2>3, <3>2, EndsMonotone DEF RemoteHeld
    <3> QED
      BY <3>1, <3>2
  <2> QED
    BY <1>g, <2>1, <2>4
<1>7. CASE UNCHANGED vars
  BY <1>7, <1>g DEF vars
<1>8. ASSUME NEW n \in Node, NEW y \in Key, KeyDown(n, y) \/ KeyUp(n, y)
      PROVE  owner'[i] = x /\ k \in HeldKeys(i)'
  <2>1. UNCHANGED <<owner, held, inp>>
    BY <1>8 DEF KeyDown, KeyUp
  <2>2. <<i, k>> \in down'[x] => <<i, k>> \in down[x]
    <3>1. <<i, k>> # <<Hardware, y>>
      OBVIOUS
    <3>2. CASE KeyDown(n, y)
      BY <1>t, <3>1, <3>2 DEF KeyDown, PushDown, DownType
    <3>3. CASE KeyUp(n, y)
      BY <1>t, <3>3 DEF KeyUp, DownType
    <3> QED
      BY <1>8, <3>2, <3>3
  <2>3. RemoteHeld(inp, down, i, x, k)
    BY <2>1, <2>2, EndsMonotone DEF RemoteHeld
  <2> QED
    BY <1>g, <2>1, <2>3
<1> QED
  BY <1>1, <1>2, <1>3, <1>4, <1>5, <1>6, <1>7, <1>8, <1>f DEF Calm, User, RouteKey

(* As long as nothing has failed, whatever a user's agent holds down on    *)
(* another machine, or is about to, is where that user's cursor is, and on *)
(* record there for the next handoff to release.                           *)
THEOREM KeysFollowTheCursor == Spec => []NoKeyLeftBehind
<1>1. Init => NoKeyLeftBehind
  BY DEF Init, NoKeyLeftBehind, EndsDown
<1> QED
  BY <1>1, RemoteStep, CalmCorrect, PTL DEF Spec

=============================================================================

------------------------------- MODULE Handoff -------------------------------
(***************************************************************************)
(* The mesh: every machine runs an agent whose router owns a virtual       *)
(* cursor, and the agents hand the keyboard to one another.                *)
(*                                                                         *)
(* A machine's router says where *its* user's input goes; a machine's      *)
(* DrivenBy says which peer is injecting *into* it.  The two are kept in   *)
(* step by TakeControl and YieldControl on the control stream, while the   *)
(* key frames travel on the input stream: neither is ordered against the   *)
(* other (InputPlane).  Sessions break, are closed by either end, are      *)
(* declared silent by a probe that may be wrong, and come back.            *)
(*                                                                         *)
(* One handler of the engine is one action: the engine loop is serial.     *)
(* The capture thread runs beside it: a key is captured, and seen by the   *)
(* OS or swallowed, when it is struck, and routed when its wake comes up.  *)
(* Only keys are modelled; buttons go through the same bookkeeping.        *)
(***************************************************************************)
EXTENDS Naturals, Sequences

CONSTANTS
  Node,        \* the machines of the mesh
  Key,         \* keys of a keyboard
  None,        \* DrivenBy(None)
  Hardware,    \* stands for a machine's own keyboard in `down`
  MaxQueue,    \* bound of the model: messages in flight when a user acts
  Typing,      \* bound of the model: machines whose users strike keys
  MaxCaptured, \* bound of the model: keys captured by one and not yet routed
  MaxFaults    \* bound of the model: failures of any kind

ASSUME HandoffAssumption ==
  /\ None \notin Node
  /\ Hardware \notin Node
  /\ Typing \subseteq Node
  /\ MaxQueue \in Nat
  /\ MaxCaptured \in Nat
  /\ MaxFaults \in Nat

VARIABLES
  owner,       \* router.owner(): the machine this machine's cursor is on
  held,        \* router.held.keys: pressed since the cursor got there
  suppressed,  \* Engine.suppressed: local input is swallowed
  drivenBy,    \* Engine.driven_by
  physical,    \* keys the user has a finger on
  captured,    \* Wake::Captured queued for the engine
  down,        \* keys the OS sees down, with who pressed them
  link,        \* Engine.sessions
  reachable,   \* peers ClusterState::is_reachable holds of
  ended,       \* closed here, the pump's Wake::PeerGone not yet handled
  wire,        \* connections alive between two machines
  ctl,         \* control messages in flight, per sender and receiver
  inp,         \* input frames in flight, per sender and receiver
  faults       \* failures so far

vars == <<owner, held, suppressed, drivenBy, physical, captured, down, link,
          reachable, ended, wire, ctl, inp, faults>>

sessions == <<link, reachable, ended, wire>>

Frame == [key : Key, down : BOOLEAN]

Pairs == {{n, m} : n, m \in Node}

TypeOK ==
  /\ owner \in [Node -> Node]
  /\ held \in [Node -> Seq(Key)]
  /\ suppressed \in [Node -> BOOLEAN]
  /\ drivenBy \in [Node -> Node \union {None}]
  /\ physical \in [Node -> SUBSET Key]
  /\ captured \in [Node -> Seq(Frame)]
  /\ down \in [Node -> SUBSET ((Node \union {Hardware}) \X Key)]
  /\ link \in [Node -> SUBSET Node]
  /\ reachable \in [Node -> SUBSET Node]
  /\ ended \in [Node -> SUBSET Node]
  /\ wire \subseteq Pairs
  /\ ctl \in [Node -> [Node -> Seq({"TakeControl", "YieldControl"})]]
  /\ inp \in [Node -> [Node -> Seq(Frame)]]
  /\ faults \in 0 .. MaxFaults

(* A mesh whose machines are all paired and connected.                     *)
Init ==
  /\ owner = [n \in Node |-> n]
  /\ held = [n \in Node |-> <<>>]
  /\ suppressed = [n \in Node |-> FALSE]
  /\ drivenBy = [n \in Node |-> None]
  /\ physical = [n \in Node |-> {}]
  /\ captured = [n \in Node |-> <<>>]
  /\ down = [n \in Node |-> {}]
  /\ link = [n \in Node |-> Node \ {n}]
  /\ reachable = [n \in Node |-> Node \ {n}]
  /\ ended = [n \in Node |-> {}]
  /\ wire = {p \in Pairs : \E n, m \in p : n # m}
  /\ ctl = [n \in Node |-> [m \in Node |-> <<>>]]
  /\ inp = [n \in Node |-> [m \in Node |-> <<>>]]
  /\ faults = 0

-----------------------------------------------------------------------------
(* The injector and the sender of one machine.                             *)

(* InputInjector::release_all: everything the injector pushed down.        *)
ReleaseAll(m, d) == [d EXCEPT ![m] = {p \in @ : p[1] = Hardware}]

(* An injected release lets go of the key whoever holds it.                *)
LetGo(m, keys, d) == [d EXCEPT ![m] = {p \in @ : p[2] \notin keys}]

(* Mutant: a driver whose loss nobody lets go of.                          *)
LostKeeps(m, gone) == down

(* DrivenBy::took_control at m for n: what a different peer still recorded *)
(* as the driver left down comes up.                                       *)
Displaced(m, n) == IF drivenBy[m] \notin {None, n} THEN ReleaseAll(m, down) ELSE down

(* DrivenBy::let_go at m, with the release that follows it when the driver *)
(* is one of the peers `gone`.                                             *)
Lost(m, gone) == IF drivenBy[m] \in gone THEN ReleaseAll(m, down) ELSE down

LetDriverGo(m, gone) ==
  [drivenBy EXCEPT ![m] = IF @ \in gone THEN None ELSE @]

PushDown(m, by, k, d) == [d EXCEPT ![m] = @ \union {<<by, k>>}]

(* send_to: a message for a machine without a session is dropped, one      *)
(* written to a dead connection goes nowhere.                              *)
Post(n, m, q, msgs) ==
  IF m \in link[n] /\ {n, m} \in wire
    THEN [q EXCEPT ![n][m] = @ \o msgs]
    ELSE q

-----------------------------------------------------------------------------
(* The router of one machine.                                              *)

HeldKeys(n) == {held[n][i] : i \in DOMAIN held[n]}

(* HeldInput::observe_key: a press is recorded once and a release strikes  *)
(* it out, wherever in the order of presses it is.                         *)
Pressed(n, k) == IF k \in HeldKeys(n) THEN held[n] ELSE Append(held[n], k)

Unpressed(n, k) ==
  LET h == held[n]
      i == CHOOSE j \in DOMAIN h : h[j] = k
  IN IF k \in HeldKeys(n)
       THEN [j \in 1 .. Len(h) - 1 |-> IF j < i THEN h[j] ELSE h[j + 1]]
       ELSE h

(* HeldInput::release_events: last in, first out.                          *)
ReleaseFrames(n) ==
  LET h == held[n] IN
  [i \in 1 .. Len(h) |-> [key |-> h[Len(h) + 1 - i], down |-> FALSE]]

(* Mutants of the parts of a transfer: no releases at this machine, none at *)
(* the machine left, no farewell to it.                                    *)
TransferDownKeeps(n, d) == d

TransferInputSilent(n) == inp

TransferControlUnyielding(n, t, c) ==
  IF t = n THEN c ELSE Post(n, t, c, <<"TakeControl">>)

(* InputRouter::transfer moving n's control to t, executed in order:       *)
(* release at the machine being left, clear the record, yield (or, leaving *)
(* this machine, ReleaseControl, which is release_all here), hand over,    *)
(* and let the suppression follow.                                         *)
TransferDown(n, d) ==
  IF owner[n] = n THEN ReleaseAll(n, LetGo(n, HeldKeys(n), d)) ELSE d

TransferInput(n) ==
  IF owner[n] = n THEN inp ELSE Post(n, owner[n], inp, ReleaseFrames(n))

TransferControl(n, t, c) ==
  LET yielded == IF owner[n] = n THEN c
                 ELSE Post(n, owner[n], c, <<"YieldControl">>)
  IN IF t = n THEN yielded ELSE Post(n, t, yielded, <<"TakeControl">>)

(* c and d are the control queues and the keys down when it starts.        *)
Transfer(n, t, c, d) ==
  /\ owner' = [owner EXCEPT ![n] = t]
  /\ held' = [held EXCEPT ![n] = <<>>]
  /\ inp' = TransferInput(n)
  /\ ctl' = TransferControl(n, t, c)
  /\ down' = TransferDown(n, d)

(* A warp to this machine's own screen, which moves nothing when the       *)
(* cursor is already on one.                                               *)
GoHome(n, c, d) ==
  IF owner[n] = n
    THEN ctl' = c /\ down' = d /\ UNCHANGED <<owner, held, inp>>
    ELSE Transfer(n, n, c, d)

(* sync_suppression, at the end of every batch: the capture backend is     *)
(* told when the flag must change, and may refuse, which leaves the old    *)
(* flag for the next batch to correct.  `spent` counts the faults of the   *)
(* action itself.                                                          *)
SyncSuppression(n, spent) ==
  LET want == owner'[n] # n IN
  \/ /\ suppressed' = [suppressed EXCEPT ![n] = want]
     /\ faults' = faults + spent
  \/ /\ suppressed[n] # want
     /\ faults + spent < MaxFaults
     /\ suppressed' = suppressed
     /\ faults' = faults + spent + 1

-----------------------------------------------------------------------------
(* The user of machine n.                                                  *)

Room(n) ==
  \A m \in Node : Len(inp[n][m]) <= MaxQueue /\ Len(ctl[n][m]) <= MaxQueue

(* The capture thread: a key goes down, or repeats.  The OS sees it unless *)
(* input is swallowed at that moment; the engine will hear of it in turn.  *)
KeyDown(n, k) ==
  /\ n \in Typing /\ Len(captured[n]) < MaxCaptured
  /\ physical' = [physical EXCEPT ![n] = @ \union {k}]
  /\ captured' = [captured EXCEPT ![n] = Append(@, [key |-> k, down |-> TRUE])]
  /\ down' = IF suppressed[n] THEN down ELSE PushDown(n, Hardware, k, down)
  /\ UNCHANGED <<owner, held, suppressed, drivenBy, ctl, inp, faults>>
  /\ UNCHANGED sessions

(* The same for a key that comes up.                                       *)
KeyUp(n, k) ==
  /\ n \in Typing /\ Len(captured[n]) < MaxCaptured
  /\ k \in physical[n]
  /\ physical' = [physical EXCEPT ![n] = @ \ {k}]
  /\ captured' = [captured EXCEPT ![n] = Append(@, [key |-> k, down |-> FALSE])]
  /\ down' = IF suppressed[n] THEN down
             ELSE [down EXCEPT ![n] = @ \ {<<Hardware, k>>}]
  /\ UNCHANGED <<owner, held, suppressed, drivenBy, ctl, inp, faults>>
  /\ UNCHANGED sessions

(* The next event the engine of n hears from its capture thread.           *)
Hears(n, frame) ==
  /\ Room(n)
  /\ captured[n] # <<>> /\ Head(captured[n]) = frame
  /\ captured' = [captured EXCEPT ![n] = Tail(@)]

(* Sent to the owner, when that is another machine.                        *)
Forwarded(n, frame) ==
  IF owner[n] = n THEN inp ELSE Post(n, owner[n], inp, <<frame>>)

(* on_captured, a press: the router records it and sends it to the owner.  *)
(* Addressed here it is injected only when input is swallowed and the OS   *)
(* did not see it (should_inject_locally).                                 *)
RoutePress(n, k) ==
  /\ Hears(n, [key |-> k, down |-> TRUE])
  /\ held' = [held EXCEPT ![n] = Pressed(n, k)]
  /\ down' = IF owner[n] = n /\ suppressed[n] THEN PushDown(n, n, k, down)
             ELSE down
  /\ inp' = Forwarded(n, [key |-> k, down |-> TRUE])
  /\ UNCHANGED <<owner, ctl, drivenBy, physical>>
  /\ SyncSuppression(n, 0)
  /\ UNCHANGED sessions

(* on_captured, a release.  One addressed here is injected even when the   *)
(* OS saw it, to unwind what an injected press may have left.              *)
RouteRelease(n, k) ==
  /\ Hears(n, [key |-> k, down |-> FALSE])
  /\ held' = [held EXCEPT ![n] = Unpressed(n, k)]
  /\ down' = IF owner[n] = n THEN LetGo(n, {k}, down) ELSE down
  /\ inp' = Forwarded(n, [key |-> k, down |-> FALSE])
  /\ UNCHANGED <<owner, ctl, drivenBy, physical>>
  /\ SyncSuppression(n, 0)
  /\ UNCHANGED sessions

(* The cursor crosses to t: by motion over a seam, by a warp from the UI,  *)
(* by the reclaim hotkey, or because its screen left the layout.  The      *)
(* router does not ask whether t is reachable.  Keys captured since, which *)
(* the OS has seen, are still to be routed.                                *)
MoveControl(n, t) ==
  /\ Room(n)
  /\ owner[n] # t
  /\ Transfer(n, t, ctl, down)
  /\ SyncSuppression(n, 0)
  /\ UNCHANGED <<drivenBy, physical, captured>>
  /\ UNCHANGED sessions

-----------------------------------------------------------------------------
(* Machine m handles what arrived from n.                                  *)

Take(n, m, q) == [q EXCEPT ![n][m] = Tail(@)]

(* A message at the head of q[n][m], on a session m still has with a peer  *)
(* it trusts.                                                              *)
Arrived(n, m, q) == n \in link[m] /\ n \in reachable[m] /\ q[n][m] # <<>>

(* Mutant: the batch of a takeover does not end with sync_suppression.     *)
HandleTakeControlUnsynced(n, m) ==
  /\ Arrived(n, m, ctl) /\ Head(ctl[n][m]) = "TakeControl"
  /\ drivenBy' = [drivenBy EXCEPT ![m] = n]
  /\ GoHome(m, Take(n, m, ctl), Displaced(m, n))
  /\ UNCHANGED <<suppressed, physical, captured, faults>>
  /\ UNCHANGED sessions

(* on_control, TakeControl: n is the driver, what a displaced driver holds *)
(* comes up, and the cursor is warped home.                                *)
HandleTakeControl(n, m) ==
  /\ Arrived(n, m, ctl) /\ Head(ctl[n][m]) = "TakeControl"
  /\ drivenBy' = [drivenBy EXCEPT ![m] = n]
  /\ GoHome(m, Take(n, m, ctl), Displaced(m, n))
  /\ SyncSuppression(m, 0)
  /\ UNCHANGED <<physical, captured>>
  /\ UNCHANGED sessions

(* The same naming a screen this machine no longer has: the cursor is      *)
(* brought home, but nobody is recorded as driving.                        *)
HandleStaleTakeControl(n, m) ==
  /\ Arrived(n, m, ctl) /\ Head(ctl[n][m]) = "TakeControl"
  /\ faults < MaxFaults
  /\ GoHome(m, Take(n, m, ctl), down)
  /\ SyncSuppression(m, 1)
  /\ UNCHANGED <<drivenBy, physical, captured>>
  /\ UNCHANGED sessions

(* on_control, YieldControl: everything injected comes up, whoever it was  *)
(* that yielded.                                                           *)
HandleYieldControl(n, m) ==
  /\ Arrived(n, m, ctl) /\ Head(ctl[n][m]) = "YieldControl"
  /\ drivenBy' = LetDriverGo(m, {n})
  /\ down' = ReleaseAll(m, down)
  /\ ctl' = Take(n, m, ctl)
  /\ UNCHANGED <<owner, held, suppressed, physical, captured, inp, faults>>
  /\ UNCHANGED sessions

(* on_input_frame: the only question asked is whether n is trusted, not    *)
(* whether n is the driver.                                                *)
HandleInput(n, m) ==
  /\ Arrived(n, m, inp)
  /\ LET frame == Head(inp[n][m]) IN
       down' = IF frame.down THEN PushDown(m, n, frame.key, down)
               ELSE LetGo(m, {frame.key}, down)
  /\ inp' = Take(n, m, inp)
  /\ UNCHANGED <<owner, held, suppressed, drivenBy, physical, captured,
                 ctl, faults>>
  /\ UNCHANGED sessions

(* Whatever a disabled or unpaired peer sends is dropped.                  *)
IgnoreUntrusted(n, m) ==
  /\ n \in link[m] /\ n \notin reachable[m]
  /\ \/ inp[n][m] # <<>> /\ inp' = Take(n, m, inp) /\ ctl' = ctl
     \/ ctl[n][m] # <<>> /\ ctl' = Take(n, m, ctl) /\ inp' = inp
  /\ UNCHANGED <<owner, held, suppressed, drivenBy, physical, captured,
                 down, faults>>
  /\ UNCHANGED sessions

-----------------------------------------------------------------------------
(* Sessions end.                                                           *)

Drain(n, m, q) == [q EXCEPT ![n][m] = <<>>]

(* Mutant: a reclaim that takes the cursor off a lost machine and puts it  *)
(* nowhere.                                                                *)
ReclaimedNowhere(m, gone) ==
  [owner EXCEPT ![m] = IF @ \in gone THEN None ELSE @]

(* reclaim, for a cursor on one of the machines `gone`.                    *)
Reclaimed(m, gone) == [owner EXCEPT ![m] = IF @ \in gone THEN m ELSE @]

Forgotten(m, gone) ==
  [held EXCEPT ![m] = IF owner[m] \in gone THEN <<>> ELSE @]

(* on_peer_gone of n at m: the session goes, what n pushed down comes up   *)
(* if n is on record as the driver, and the cursor comes home if it was on *)
(* n.  The router's farewell to n finds no session and is dropped; what n  *)
(* sent and m has not handled will not be handled.                         *)
PeerGone(m, n, spent) ==
  /\ link' = [link EXCEPT ![m] = @ \ {n}]
  /\ reachable' = [reachable EXCEPT ![m] = @ \ {n}]
  /\ drivenBy' = LetDriverGo(m, {n})
  /\ down' = Lost(m, {n})
  /\ owner' = Reclaimed(m, {n})
  /\ held' = Forgotten(m, {n})
  /\ inp' = Drain(n, m, inp)
  /\ ctl' = Drain(n, m, ctl)
  /\ IF owner[m] = n THEN SyncSuppression(m, spent)
     ELSE suppressed' = suppressed /\ faults' = faults + spent
  /\ UNCHANGED <<physical, captured>>

(* The connection dies under both machines: power, cable, idle timeout.    *)
Break(n, m) ==
  /\ {n, m} \in wire /\ n # m
  /\ faults < MaxFaults /\ faults' = faults + 1
  /\ wire' = wire \ {{n, m}}
  /\ UNCHANGED <<owner, held, suppressed, drivenBy, physical, captured,
                 down, link, reachable, ended, ctl, inp>>

(* Wake::PeerGone from the pump of the session m has with n.               *)
PumpGone(n, m) ==
  /\ n \in link[m] /\ {n, m} \notin wire
  /\ PeerGone(m, n, 0)
  /\ UNCHANGED <<ended, wire>>

(* Mutant: the end of a session already removed is always ignored.         *)
LatePumpGoneIgnored(n, m) ==
  /\ n \in ended[m]
  /\ ended' = [ended EXCEPT ![m] = @ \ {n}]
  /\ UNCHANGED <<owner, held, suppressed, drivenBy, physical, captured,
                 down, link, reachable, wire, ctl, inp, faults>>

(* Wake::PeerGone from the pump of a session m has closed itself: obeyed   *)
(* while n has no session, ignored once a newer one is installed.          *)
LatePumpGone(n, m) ==
  /\ n \in ended[m]
  /\ ended' = [ended EXCEPT ![m] = @ \ {n}]
  /\ IF n \in link[m]
       THEN UNCHANGED <<owner, held, suppressed, drivenBy, physical,
                        captured, down, link, reachable, ctl, inp, faults>>
       ELSE PeerGone(m, n, 0)
  /\ UNCHANGED wire

(* m gives up on a live session: the peer said goodbye, was disabled or    *)
(* unpaired, or stopped draining its queue.                                *)
CloseSession(n, m) ==
  /\ n \in link[m] /\ faults < MaxFaults
  /\ PeerGone(m, n, 1)
  /\ wire' = wire \ {{n, m}}
  /\ ended' = [ended EXCEPT ![m] = @ \union {n}]

(* begin_pairing at m with a peer it already has a session with: the       *)
(* session goes, and dial() marks the peer as connecting; the driver and   *)
(* the cursor wait for the old pump, the probe or the tick.                *)
BeginPairing(n, m) ==
  /\ n \in link[m]
  /\ faults < MaxFaults /\ faults' = faults + 1
  /\ link' = [link EXCEPT ![m] = @ \ {n}]
  /\ wire' = wire \ {{n, m}}
  /\ ended' = [ended EXCEPT ![m] = @ \union {n}]
  /\ inp' = Drain(n, m, inp)
  /\ ctl' = Drain(n, m, ctl)
  /\ reachable' = [reachable EXCEPT ![m] = @ \ {n}]
  /\ UNCHANGED <<owner, held, suppressed, drivenBy, physical, captured,
                 down>>

(* Machine m loses power: all of its state goes, and the others are left   *)
(* with a connection nobody answers on.                                    *)
PowerLoss(m) ==
  /\ faults < MaxFaults /\ faults' = faults + 1
  /\ owner' = [owner EXCEPT ![m] = m]
  /\ held' = [held EXCEPT ![m] = <<>>]
  /\ suppressed' = [suppressed EXCEPT ![m] = FALSE]
  /\ drivenBy' = [drivenBy EXCEPT ![m] = None]
  /\ physical' = [physical EXCEPT ![m] = {}]
  /\ captured' = [captured EXCEPT ![m] = <<>>]
  /\ down' = [down EXCEPT ![m] = {}]
  /\ link' = [link EXCEPT ![m] = {}]
  /\ reachable' = [reachable EXCEPT ![m] = {}]
  /\ ended' = [ended EXCEPT ![m] = {}]
  /\ wire' = {p \in wire : m \notin p}
  /\ inp' = [n \in Node |-> [inp[n] EXCEPT ![m] = <<>>]]
  /\ ctl' = [n \in Node |-> [ctl[n] EXCEPT ![m] = <<>>]]

-----------------------------------------------------------------------------
(* Timers.                                                                 *)

(* The probe found silent the peers S: those whose connection is dead or   *)
(* gone, and, at the price of a fault, one that is merely slow.  The       *)
(* driver is let go and then the owner abandoned; the farewell of the      *)
(* reclaim goes out before the owner's session is closed, unless it was    *)
(* the driver's session too.                                               *)
Dead(m, n) == n \notin link[m] \/ {n, m} \notin wire

Probe(m, S) ==
  LET driver == {drivenBy[m]} \intersect S
      lost == S \intersect {drivenBy[m], owner[m]}
      slow == IF \A n \in lost : Dead(m, n) THEN 0 ELSE 1
      ownerLost == owner[m] \in lost
  IN
  /\ lost # {} /\ m \notin S
  /\ faults + slow <= MaxFaults
  /\ drivenBy' = LetDriverGo(m, lost)
  /\ IF ownerLost /\ owner[m] \notin driver
       THEN Transfer(m, m, ctl, Lost(m, lost))
       ELSE /\ owner' = Reclaimed(m, lost)
            /\ held' = Forgotten(m, lost)
            /\ down' = Lost(m, lost)
            /\ UNCHANGED <<inp, ctl>>
  /\ IF ownerLost THEN SyncSuppression(m, slow)
     ELSE suppressed' = suppressed /\ faults' = faults + slow
  /\ ended' = [ended EXCEPT ![m] = @ \union (lost \intersect link[m])]
  /\ link' = [link EXCEPT ![m] = @ \ lost]
  /\ reachable' = [reachable EXCEPT ![m] = @ \ lost]
  /\ wire' = wire \ {{n, m} : n \in lost}
  /\ UNCHANGED <<physical, captured>>

(* on_tick's two backstops.                                                *)
Tick(m) ==
  /\ owner[m] \notin reachable[m] \union {m} \/ drivenBy[m] \notin reachable[m] \union {None}
  /\ LET stray == Node \ reachable[m] IN
       /\ drivenBy' = LetDriverGo(m, stray)
       /\ IF owner[m] \in reachable[m] \union {m}
            THEN /\ down' = Lost(m, stray)
                 /\ UNCHANGED <<owner, held, inp, ctl, suppressed, faults>>
            ELSE Transfer(m, m, ctl, Lost(m, stray)) /\ SyncSuppression(m, 0)
  /\ UNCHANGED <<physical, captured>>
  /\ UNCHANGED sessions

-----------------------------------------------------------------------------
(* Sessions begin.                                                         *)

(* A session between n and m, neither of which has one for the other.  E   *)
(* are the machines on which the other is enabled; disabling a peer runs   *)
(* on_peer_gone, so a disabled peer is not on record as the driver.        *)
Reconnect(n, m, E) ==
  /\ n # m /\ {n, m} \notin wire
  /\ m \notin link[n] /\ n \notin link[m]
  /\ n \notin E => drivenBy[n] # m
  /\ m \notin E => drivenBy[m] # n
  /\ IF E = {n, m} THEN faults' = faults
     ELSE faults < MaxFaults /\ faults' = faults + 1
  /\ wire' = wire \union {{n, m}}
  /\ link' = [link EXCEPT ![n] = @ \union {m}, ![m] = @ \union {n}]
  /\ reachable' = [reachable EXCEPT
       ![n] = IF n \in E THEN @ \union {m} ELSE @ \ {m},
       ![m] = IF m \in E THEN @ \union {n} ELSE @ \ {n}]
  /\ inp' = Drain(n, m, Drain(m, n, inp))
  /\ ctl' = Drain(n, m, Drain(m, n, ctl))
  /\ UNCHANGED <<owner, held, suppressed, drivenBy, physical, captured,
                 down, ended>>

(* SetPeerEnabled(true) on a machine connected to the peer it had disabled.*)
EnablePeer(n, m) ==
  /\ n \in link[m] /\ n \notin reachable[m]
  /\ reachable' = [reachable EXCEPT ![m] = @ \union {n}]
  /\ UNCHANGED <<owner, held, suppressed, drivenBy, physical, captured,
                 down, link, ended, wire, ctl, inp, faults>>

-----------------------------------------------------------------------------

User(n) ==
  \/ \E k \in Key : KeyDown(n, k) \/ KeyUp(n, k)
  \/ \E t \in Node : MoveControl(n, t)

RouteKey(n) == \E k \in Key : RoutePress(n, k) \/ RouteRelease(n, k)

HandleControl(n, m) ==
  \/ HandleTakeControl(n, m)
  \/ HandleStaleTakeControl(n, m)
  \/ HandleYieldControl(n, m)

Handle(n, m) ==
  \/ HandleControl(n, m)
  \/ HandleInput(n, m)
  \/ IgnoreUntrusted(n, m)
  \/ PumpGone(n, m)
  \/ LatePumpGone(n, m)

Fault(n, m) ==
  \/ Break(n, m)
  \/ CloseSession(n, m)
  \/ BeginPairing(n, m)

Next ==
  \/ \E n \in Node : User(n) \/ RouteKey(n) \/ PowerLoss(n) \/ Tick(n)
  \/ \E n \in Node : \E S \in SUBSET (Node \ {n}) : Probe(n, S)
  \/ \E n, m \in Node : Handle(n, m) \/ Fault(n, m) \/ EnablePeer(n, m)
  \/ \E n, m \in Node : \E E \in SUBSET {n, m} : Reconnect(n, m, E)

(* The engine loop takes every wake in turn and its timers keep firing.    *)
(* Users, faults and reconnections owe nothing.                            *)
Fairness ==
  /\ \A n, m \in Node :
       /\ WF_vars(HandleControl(n, m))
       /\ WF_vars(HandleInput(n, m))
       /\ WF_vars(IgnoreUntrusted(n, m))
       /\ WF_vars(PumpGone(n, m))
       /\ WF_vars(LatePumpGone(n, m))
  /\ \A n \in Node : WF_vars(RouteKey(n)) /\ WF_vars(Tick(n))
  /\ \A n \in Node :
       WF_vars(\E S \in SUBSET (Node \ {n}) : (\A m \in S : Dead(n, m)) /\ Probe(n, S))

Spec == Init /\ [][Next]_vars

FairSpec == Spec /\ Fairness

-----------------------------------------------------------------------------
(* Safety.                                                                 *)

(* The key k as m's OS will see it once all n has sent has been handled.   *)
EndsDown(n, m, k) ==
  LET q == inp[n][m]
      touching == {i \in DOMAIN q : q[i].key = k}
  IN IF touching = {} THEN <<n, k>> \in down[m]
     ELSE \E i \in touching : q[i].down /\ \A j \in touching : j <= i

(* No key is left behind.  While nothing has failed, a key a user's agent  *)
(* holds down anywhere in the mesh -- or would once its frames arrive --   *)
(* is on the one machine that user's cursor is on, and on record there so  *)
(* that the next handoff releases it.  Crossings, displaced drivers and    *)
(* yields may come in any order (InputRouter::transfer, HeldInput).        *)
NoKeyLeftBehind ==
  faults = 0 =>
    \A n, m \in Node : \A k \in Key :
      n # m /\ EndsDown(n, m, k) => owner[n] = m /\ k \in HeldKeys(n)

(* A key the local OS saw go down is one the engine is about to hear of or *)
(* has on record for the crossing to release; if not, it is stray.         *)
PressQueued(n, k) ==
  \E i \in DOMAIN captured[n] : captured[n][i] = [key |-> k, down |-> TRUE]

Stray(n, k) ==
  /\ <<Hardware, k>> \in down[n]
  /\ ~(owner[n] = n /\ k \in HeldKeys(n))
  /\ ~PressQueued(n, k)

(* The cursor leaves between a key's capture and its routing.              *)
RoutedAway(n, k) ==
  /\ owner[n] # n
  /\ captured[n] # <<>> /\ captured'[n] = Tail(captured[n])
  /\ Head(captured[n]) = [key |-> k, down |-> TRUE]

(* A key goes stray in one way only: the local OS saw it go down before    *)
(* the suppression took hold, if it ever did, and the engine routes its    *)
(* press after the crossing, to another machine (on_captured,              *)
(* InputRouter::transfer).  Crossings, takeovers, breaks, restarts and     *)
(* timers lose track of no other, whatever is queued behind them.          *)
StrayOnlyBehindACrossing ==
  [][\A n \in Node : \A k \in Key :
       Stray(n, k)' => Stray(n, k) \/ RoutedAway(n, k)]_vars

(* Local input is swallowed exactly while the cursor is elsewhere, unless  *)
(* a backend has refused to change the flag (sync_suppression).            *)
SuppressionFollowsOwner ==
  faults = 0 => \A n \in Node : suppressed[n] = (owner[n] # n)

(* Whoever is on record as the driver is a peer whose loss will be         *)
(* noticed: it is trusted, and it has a session, or the end of the one it  *)
(* had is still to be handled (DrivenBy, on_peer_gone, begin_pairing).     *)
DriverIsWatched ==
  \A m \in Node :
    drivenBy[m] # None =>
      drivenBy[m] \in (link[m] \intersect reachable[m]) \union ended[m]

(* The last word n has sent m about control, or what m has on record if    *)
(* all of it has been handled.                                             *)
Drives(n, m) ==
  IF ctl[n][m] = <<>> THEN drivenBy[m] = n
  ELSE ctl[n][m][Len(ctl[n][m])] = "TakeControl"

(* The two records of one fact converge: while nothing has failed, a peer  *)
(* recorded as driving m, or about to be, is one whose cursor is on m, so  *)
(* no machine stays "driven" by a peer that has left it.                   *)
DriverOwnsCursor ==
  faults = 0 => \A n, m \in Node : n # m /\ Drives(n, m) => owner[n] = m

(* Whenever a machine stops being driven by a peer -- it yielded, another  *)
(* took over, its session ended, a timer gave up on it -- everything that  *)
(* was injected comes up in that same step.                                *)
DriverLossReleases ==
  [][\A m \in Node :
       drivenBy[m] # None /\ drivenBy'[m] # drivenBy[m]
         => \A p \in down'[m] : p[1] = Hardware]_vars

-----------------------------------------------------------------------------
(* Liveness, under FairSpec.                                               *)

(* A key the cursor has walked away from comes up on the machine it was    *)
(* pressed on, however its release, the yield and the next takeover race   *)
(* each other, as long as nothing fails (InputRouter::transfer, on_control)*)
WalkingAwayReleases ==
  \A n, m \in Node : \A k \in Key :
    (n # m /\ owner[n] # m /\ <<n, k>> \in down[m])
      ~> (owner[n] = m \/ <<n, k>> \notin down[m] \/ faults > 0)

=============================================================================

------------------------------ MODULE LayoutSync ------------------------------
(***************************************************************************)
(* One arrangement of screens for the whole mesh, kept by every engine for *)
(* itself.                                                                 *)
(*                                                                         *)
(* There is no leader.  Every engine edits its own copy - because a user   *)
(* saved the layout editor, because screens were plugged in, because a     *)
(* peer turned up whose screens have no place - and sends it to its peers, *)
(* and takes over a copy it is sent when accept_layout says so.  What they *)
(* promise is in AgreedLayout.                                             *)
(*                                                                         *)
(* A screen is one unit wide and all are of one height, so that a place in *)
(* the arrangement is the x of its left edge and autolayout's centring has *)
(* nothing to do.                                                          *)
(***************************************************************************)
EXTENDS Integers, Sequences, FiniteSets

CONSTANTS
  Node,          \* engines, numbered in the order of their ids
  Slot,          \* monitor ids of a machine, in the order of its desktop
  Column,     \* places a user drags a screen to
  Speed,      \* cursor speeds a user sets on a screen; 1 is unscaled
  Drafts,     \* sets of screens a user saves a layout of
  MaxEdits,   \* bound of the model: what users ask for
  MaxPlugs,   \* bound of the model: changes of the attached screens
  MaxBreaks,  \* bound of the model: connections lost and restarts
  MaxEvents   \* bound of the model: all of these together

ASSUME LayoutAssumption ==
  /\ Node \subseteq Nat /\ IsFiniteSet(Node)
  /\ Slot \subseteq Nat /\ IsFiniteSet(Slot) /\ Slot # {}
  /\ Column \subseteq Int
  /\ Speed \subseteq Nat \ {0}
  /\ Drafts \subseteq SUBSET (Node \X Slot)
  /\ {MaxEdits, MaxPlugs, MaxBreaks, MaxEvents} \subseteq Nat

Screen == Node \X Slot

(* A layout has a revision and the places of some screens.                 *)
Place == [x : Int, speed : Nat \ {0}]
LayoutOver(S) == [revision : Nat, places : [S -> Place]]
IsLayout(l) == \E S \in SUBSET Screen : l \in LayoutOver(S)

VARIABLES
  layout,     \* InputRouter.layout
  saved,      \* config.layout
  monitors,   \* AgentState.local_monitors
  known,      \* PeerState.monitors of the peers that are paired
  apart,      \* the pairs of which one has forgotten the other
  snapshot,   \* the local_info the accept loop has cloned
  joined,     \* Engine.sessions
  arriving,   \* Wake::Session with the monitors in its NodeInfo, or None
  open,       \* the pairs whose connection is up
  wire,       \* control messages on their way
  edits, plugs, breaks

layoutVars ==
  <<layout, saved, monitors, known, apart, snapshot, joined, arriving, open, wire,
    edits, plugs, breaks>>

None == {-1}   \* no set of monitors

-----------------------------------------------------------------------------
(* Which of two layouts wins.                                              *)

Placed(l) == DOMAIN l.places

(* layout_key: the node, the monitor and the bounds of every placement.    *)
LayoutKey(l) == {<<s[1], s[2], l.places[s].x>> : s \in Placed(l)}

EntryBefore(a, b) ==
  \/ a[1] < b[1]
  \/ a[1] = b[1] /\ a[2] < b[2]
  \/ a[1] = b[1] /\ a[2] = b[2] /\ a[3] < b[3]

(* Sorted lists of one length compare as the first entry that only one of  *)
(* them has.                                                               *)
KeyBefore(a, b) ==
  \E e \in a \ b : \A f \in (a \ b) \union (b \ a) : e = f \/ EntryBefore(e, f)

(* Mutant: every machine keeps its own layout in a tie.                    *)
AcceptsNewer(current, incoming) ==
  \/ incoming.revision > current.revision
  \/ /\ incoming.revision = current.revision
     /\ Cardinality(Placed(incoming)) > Cardinality(Placed(current))

(* accept_layout(current, incoming)                                        *)
Accepts(current, incoming) ==
  \/ incoming.revision > current.revision
  \/ /\ incoming.revision = current.revision
     /\ Cardinality(Placed(incoming)) > Cardinality(Placed(current))
  \/ /\ incoming.revision = current.revision
     /\ Cardinality(Placed(incoming)) = Cardinality(Placed(current))
     /\ KeyBefore(LayoutKey(incoming), LayoutKey(current))

-----------------------------------------------------------------------------
(* Automatic placement.                                                    *)

NeedsPlacement(l, n, slots) == \E k \in slots : <<n, k>> \notin Placed(l)

Greatest(S) == CHOOSE x \in S : \A y \in S : y <= x
Least(S) == CHOOSE x \in S : \A y \in S : x <= y

OthersOf(l, n) == {s \in Placed(l) : s[1] # n}

(* The right edge of everything that is not n's, or the origin.            *)
Anchor(l, n) ==
  IF OthersOf(l, n) = {} THEN 0 ELSE Greatest({l.places[s].x : s \in OthersOf(l, n)}) + 1

(* Mutant: the speed of the cursor is left at its zero value.              *)
PlaceNodeStill(l, n, slots) ==
  [s \in {n} \X slots |-> [x |-> Anchor(l, n) + s[2] - Least(slots), speed |-> 0]]

(* place_node: n's screens as its desktop has them, right of the others.   *)
PlaceNode(l, n, slots) ==
  [s \in {n} \X slots |-> [x |-> Anchor(l, n) + s[2] - Least(slots), speed |-> 1]]

OwnPlaces(l, n) == [s \in Placed(l) \ OthersOf(l, n) |-> l.places[s]]

(* Mutant: the revision stays.                                             *)
AppliedUnnumbered(l, n, slots) ==
  IF OwnPlaces(l, n) = PlaceNode(l, n, slots) THEN l
  ELSE [revision |-> l.revision,
        places |-> [s \in OthersOf(l, n) \union ({n} \X slots) |->
                      IF s[1] = n THEN PlaceNode(l, n, slots)[s] ELSE l.places[s]]]

(* apply: nothing changes, the revision neither, if n's screens are where  *)
(* they are wanted.                                                        *)
Applied(l, n, slots) ==
  IF OwnPlaces(l, n) = PlaceNode(l, n, slots) THEN l
  ELSE [revision |-> l.revision + 1,
        places |-> [s \in OthersOf(l, n) \union ({n} \X slots) |->
                      IF s[1] = n THEN PlaceNode(l, n, slots)[s] ELSE l.places[s]]]

WithPlaceFor(l, n, slots) ==
  IF NeedsPlacement(l, n, slots) THEN Applied(l, n, slots) ELSE l

-----------------------------------------------------------------------------
(* Control messages.                                                       *)

LayoutUpdate(l) == [kind |-> "update", layout |-> l]
LayoutRequest == [kind |-> "request"]
MonitorsChanged(slots) == [kind |-> "monitors", monitors |-> slots]

IsMessage(msg) ==
  \/ msg.kind = "update" /\ msg = LayoutUpdate(msg.layout) /\ IsLayout(msg.layout)
  \/ msg = LayoutRequest
  \/ msg.kind = "monitors" /\ msg \in [kind : {"monitors"}, monitors : SUBSET Slot]

Pair(n, m) == {n, m}

Others(n) == Node \ {n}

Longest(n) == Greatest({Len(wire[n][m]) : m \in Node})

(* What n sends over sessions whose connection is gone goes nowhere.       *)
Sent(w, n, peers, msgs) ==
  [w EXCEPT ![n] = [m \in Node |->
     IF m \in peers /\ Pair(n, m) \in open THEN @[m] \o msgs ELSE @[m]]]

PeersOf(n) == {m \in Others(n) : joined[n][m]}

Room == edits + plugs + breaks < MaxEvents
MayEdit == edits < MaxEdits /\ Room
MayPlug == plugs < MaxPlugs /\ Room
MayBreak == breaks < MaxBreaks /\ Room

LayoutTypeOK ==
  /\ DOMAIN layout = Node
  /\ \A n \in Node : IsLayout(layout[n])
  /\ DOMAIN saved = Node
  /\ \A n \in Node : IsLayout(saved[n])
  /\ monitors \in [Node -> SUBSET Slot]
  /\ known \in [Node -> [Node -> SUBSET Slot]]
  /\ snapshot \in [Node -> SUBSET Slot]
  /\ joined \in [Node -> [Node -> BOOLEAN]]
  /\ arriving \in [Node -> [Node -> (SUBSET Slot) \union {None}]]
  /\ {open, apart} \subseteq SUBSET SUBSET Node
  /\ \A n, m \in Node : \A i \in DOMAIN wire[n][m] : IsMessage(wire[n][m][i])
  /\ edits \in 0 .. MaxEdits
  /\ plugs \in 0 .. MaxPlugs
  /\ breaks \in 0 .. MaxBreaks

(* What a machine that was never configured has saved; bootstrap, like the *)
(* filling of gaps, arranges its own screens in it.                        *)
EmptyLayout == [revision |-> 0, places |-> <<>>]

(* adopt_layout saves what it installs.                                    *)
Saves(n) == saved' = [saved EXCEPT ![n] = IF layout'[n] = layout[n] THEN @ ELSE layout'[n]]

LayoutInit ==
  /\ monitors = [n \in Node |-> {Least(Slot)}]
  /\ layout = [n \in Node |-> WithPlaceFor(EmptyLayout, n, {Least(Slot)})]
  /\ saved = [n \in Node |-> EmptyLayout]
  /\ known = [n \in Node |-> [m \in Node |-> {}]]
  /\ snapshot = monitors
  /\ joined = [n \in Node |-> [m \in Node |-> FALSE]]
  /\ arriving = [n \in Node |-> [m \in Node |-> None]]
  /\ open = {} /\ apart = {}
  /\ wire = [n \in Node |-> [m \in Node |-> <<>>]]
  /\ edits = 0
  /\ plugs = 0
  /\ breaks = 0

-----------------------------------------------------------------------------
(* Sessions come and go.                                                   *)

(* n's dial is answered by m's accept loop, which hands out the local_info *)
(* it cloned when it began to wait and clones it anew.  What the session   *)
(* before had left in the wake queues is handled ahead of this one.        *)
(* dial_targets has paired peers only.                                     *)
Connect(n, m) ==
  /\ Pair(n, m) \notin open \union apart
  /\ ~joined[n][m] /\ ~joined[m][n]
  /\ arriving[n][m] = None /\ arriving[m][n] = None
  /\ wire[n][m] = <<>> /\ wire[m][n] = <<>>
  /\ open' = open \union {Pair(n, m)}
  /\ arriving' = [arriving EXCEPT ![n][m] = snapshot[m], ![m][n] = monitors[n]]
  /\ snapshot' = [snapshot EXCEPT ![m] = monitors[m]]
  /\ UNCHANGED <<layout, saved, monitors, known, apart, joined, wire, edits, plugs, breaks>>

(* on_session and on_peer_ready: m gets a place in n's layout if it has    *)
(* none, is told n's layout and asked for its own.                         *)
PeerReady(n, m) ==
  /\ arriving[n][m] # None
  /\ arriving' = [arriving EXCEPT ![n][m] = None]
  /\ joined' = [joined EXCEPT ![n][m] = TRUE]
  /\ known' = [known EXCEPT ![n][m] = arriving[n][m]]
  /\ layout' = [layout EXCEPT ![n] = WithPlaceFor(@, m, arriving[n][m])]
  /\ Saves(n)
  /\ wire' = Sent(wire, n, {m}, <<LayoutUpdate(layout'[n]), LayoutRequest>>)
  /\ UNCHANGED <<monitors, apart, snapshot, open, edits, plugs, breaks>>

(* A connection is lost.  Each way only what the reader has already queued *)
(* still arrives.                                                          *)
Break(n, m) ==
  /\ Pair(n, m) \in open
  /\ MayBreak
  /\ breaks' = breaks + 1
  /\ open' = open \ {Pair(n, m)}
  /\ \E i \in 0 .. Len(wire[n][m]), j \in 0 .. Len(wire[m][n]) :
       wire' = [wire EXCEPT ![n][m] = SubSeq(@, 1, i), ![m][n] = SubSeq(@, 1, j)]
  /\ UNCHANGED <<layout, saved, monitors, known, apart, snapshot, joined, arriving, edits, plugs>>

(* on_peer_gone                                                            *)
PeerGone(n, m) ==
  /\ Pair(n, m) \notin open
  /\ joined[n][m]
  /\ joined' = [joined EXCEPT ![n][m] = FALSE]
  /\ UNCHANGED <<layout, saved, monitors, known, apart, snapshot, arriving, open, wire,
                 edits, plugs, breaks>>

(* The agent of n is restarted, perhaps with other screens: it reads the   *)
(* layout it saved and fills the gaps for its own screens, which it does   *)
(* not save.                                                               *)
Restart(n) ==
  /\ MayBreak
  /\ breaks' = breaks + 1
  /\ \E slots \in SUBSET Slot :
       /\ slots # monitors[n] => MayPlug
       /\ plugs' = IF slots = monitors[n] THEN plugs ELSE plugs + 1
       /\ monitors' = [monitors EXCEPT ![n] = slots]
       /\ snapshot' = [snapshot EXCEPT ![n] = slots]
       /\ layout' = [layout EXCEPT ![n] = WithPlaceFor(saved[n], n, slots)]
  /\ known' = [known EXCEPT ![n] = [m \in Node |-> {}]]
  /\ joined' = [joined EXCEPT ![n] = [m \in Node |-> FALSE]]
  /\ arriving' = [arriving EXCEPT ![n] = [m \in Node |-> None]]
  /\ open' = {p \in open : n \notin p}
  /\ \E arrives \in [Others(n) -> 0 .. Longest(n)] :
       /\ \A m \in Others(n) : arrives[m] <= Len(wire[n][m])
       /\ wire' = [a \in Node |-> [b \in Node |->
                     CASE b = n -> <<>>
                       [] a = n /\ b # n -> SubSeq(wire[n][b], 1, arrives[b])
                       [] OTHER -> wire[a][b]]]
  /\ UNCHANGED <<saved, apart, edits>>

-----------------------------------------------------------------------------
(* What changes a layout.                                                  *)

(* Request::SetLayout: whatever a window or another client holds, at the   *)
(* agent's own next revision.  The user has moved screens, set the speed of*)
(* the cursor on them or taken some out, this machine's own not excepted;  *)
(* and an editor opened before a screen was placed takes that out too.     *)
SetLayout(n) ==
  /\ MayEdit
  /\ edits' = edits + 1
  /\ \E S \in Drafts : \E places \in [S -> [x : Column, speed : Speed]] :
       layout' = [layout EXCEPT ![n] = [revision |-> @.revision + 1, places |-> places]]
  /\ Saves(n)
  /\ wire' = Sent(wire, n, PeersOf(n), <<LayoutUpdate(layout'[n])>>)
  /\ UNCHANGED <<monitors, known, apart, snapshot, joined, arriving, open, plugs, breaks>>

(* The machines Request::AutoLayout arranges, and their screens.           *)
SlotsOf(n, m) == IF m = n THEN monitors[n] ELSE known[n][m]
Targets(n) == {m \in Node : SlotsOf(n, m) # {}}

Units(n, m) == {m} \X (Least(SlotsOf(n, m)) .. Greatest(SlotsOf(n, m)))

(* place_node for one machine after the other, from an empty layout: each  *)
(* goes to the right of what the earlier ones take up, and raises the      *)
(* revision by one.                                                        *)
Arranged(n, rank) ==
  [revision |-> layout[n].revision + Cardinality(Targets(n)),
   places |-> [s \in UNION {{m} \X SlotsOf(n, m) : m \in Targets(n)} |->
     [x |-> Cardinality(UNION {Units(n, m) : m \in {o \in Targets(n) : rank[o] < rank[s[1]]}})
              + s[2] - Least(SlotsOf(n, s[1])),
      speed |-> 1]]]

(* Request::AutoLayout for everything: this machine first, its peers in    *)
(* whatever order the map has them.                                        *)
AutoLayout(n) ==
  /\ MayEdit
  /\ edits' = edits + 1
  /\ Targets(n) # {}
  /\ \E rank \in [Targets(n) \union {n} -> 0 .. Cardinality(Node)] :
       /\ \A m \in Targets(n) \ {n} : rank[n] < rank[m]
       /\ \A m, o \in Targets(n) : rank[m] = rank[o] => m = o
       /\ layout' = [layout EXCEPT ![n] = Arranged(n, rank)]
  /\ Saves(n)
  /\ wire' = Sent(wire, n, PeersOf(n), <<LayoutUpdate(layout'[n])>>)
  /\ UNCHANGED <<monitors, known, apart, snapshot, joined, arriving, open, plugs, breaks>>

(* Request::AutoLayout for one machine.                                    *)
AutoLayoutOf(n, m) ==
  /\ MayEdit
  /\ edits' = edits + 1
  /\ SlotsOf(n, m) # {}
  /\ layout' = [layout EXCEPT ![n] = Applied(@, m, SlotsOf(n, m))]
  /\ layout'[n] # layout[n]
  /\ Saves(n)
  /\ wire' = Sent(wire, n, PeersOf(n), <<LayoutUpdate(layout'[n])>>)
  /\ UNCHANGED <<monitors, known, apart, snapshot, joined, arriving, open, plugs, breaks>>

(* forget_peer: m's screens are taken out before its session is ended, if  *)
(* there is one.                                                           *)
ForgetPeer(n, m) ==
  /\ MayEdit
  /\ edits' = edits + 1
  /\ arriving[n][m] = None
  /\ apart' = apart \union {Pair(n, m)}
  /\ known' = [known EXCEPT ![n][m] = {}]
  /\ layout' = [layout EXCEPT ![n] =
       IF OthersOf(@, m) = Placed(@) THEN @
       ELSE [revision |-> @.revision + 1, places |-> [s \in OthersOf(@, m) |-> @.places[s]]]]
  /\ Saves(n)
  /\ wire' = Sent(wire, n, IF layout' = layout THEN {} ELSE PeersOf(n) \ {m},
                  <<LayoutUpdate(layout'[n])>>)
  /\ joined' = [joined EXCEPT ![n][m] = FALSE]
  /\ open' = open \ {Pair(n, m)}
  /\ UNCHANGED <<monitors, snapshot, arriving, plugs, breaks>>

(* The two are paired again, which is the business of Pairing; what        *)
(* finish_pairing does with the session is PeerReady.                      *)
PairAgain(n, m) ==
  /\ Pair(n, m) \in apart
  /\ apart' = apart \ {Pair(n, m)}
  /\ UNCHANGED <<layout, saved, monitors, known, snapshot, joined, arriving, open, wire,
                 edits, plugs, breaks>>

(* on_tick sees other screens than before: new ones get a place, and the   *)
(* peers are told the screens and not the layout.                          *)
DisplaysChange(n) ==
  /\ MayPlug
  /\ plugs' = plugs + 1
  /\ \E slots \in (SUBSET Slot) \ {monitors[n]} :
       /\ monitors' = [monitors EXCEPT ![n] = slots]
       /\ layout' = [layout EXCEPT ![n] = WithPlaceFor(@, n, slots)]
       /\ wire' = Sent(wire, n, PeersOf(n), <<MonitorsChanged(slots)>>)
  /\ Saves(n)
  /\ UNCHANGED <<known, apart, snapshot, joined, arriving, open, edits, breaks>>

-----------------------------------------------------------------------------
(* What a peer sends.                                                      *)

(* The next message from m.  It was queued behind its session's beginning. *)
Takes(n, m, kind) ==
  /\ wire[m][n] # <<>>
  /\ arriving[n][m] = None
  /\ Head(wire[m][n]).kind = kind

Rest(n, m) == [wire EXCEPT ![m][n] = Tail(@)]

(* A peer that is not connected is not reachable, and is ignored.          *)
IgnoreLate(n, m) ==
  /\ wire[m][n] # <<>>
  /\ arriving[n][m] = None
  /\ ~joined[n][m]
  /\ wire' = Rest(n, m)
  /\ UNCHANGED <<layout, saved, monitors, known, apart, snapshot, joined, arriving, open,
                 edits, plugs, breaks>>

(* Mutant: the layout is adopted as it was sent.                           *)
HandleUpdateAsSent(n, m) ==
  /\ Takes(n, m, "update")
  /\ joined[n][m]
  /\ LET incoming == Head(wire[m][n]).layout
         adopted == incoming
     IN IF Accepts(layout[n], incoming)
        THEN /\ layout' = [layout EXCEPT ![n] = adopted]
             /\ wire' = Sent(Rest(n, m), n,
                             IF adopted.revision > incoming.revision THEN PeersOf(n) ELSE {},
                             <<LayoutUpdate(adopted)>>)
        ELSE /\ wire' = Rest(n, m)
             /\ UNCHANGED layout
  /\ Saves(n)
  /\ UNCHANGED <<monitors, known, apart, snapshot, joined, arriving, open, edits, plugs, breaks>>

(* ControlMsg::LayoutUpdate: a better layout is adopted, with n's own      *)
(* screens put back if it lacks them; then n's is the better one, and is   *)
(* sent to everybody.                                                      *)
HandleUpdate(n, m) ==
  /\ Takes(n, m, "update")
  /\ joined[n][m]
  /\ LET incoming == Head(wire[m][n]).layout
         adopted == WithPlaceFor(incoming, n, monitors[n])
     IN IF Accepts(layout[n], incoming)
        THEN /\ layout' = [layout EXCEPT ![n] = adopted]
             /\ wire' = Sent(Rest(n, m), n,
                             IF adopted.revision > incoming.revision THEN PeersOf(n) ELSE {},
                             <<LayoutUpdate(adopted)>>)
        ELSE /\ wire' = Rest(n, m)
             /\ UNCHANGED layout
  /\ Saves(n)
  /\ UNCHANGED <<monitors, known, apart, snapshot, joined, arriving, open, edits, plugs, breaks>>

(* ControlMsg::LayoutRequest                                               *)
HandleRequest(n, m) ==
  /\ Takes(n, m, "request")
  /\ joined[n][m]
  /\ wire' = Sent(Rest(n, m), n, {m}, <<LayoutUpdate(layout[n])>>)
  /\ UNCHANGED <<layout, saved, monitors, known, apart, snapshot, joined, arriving, open,
                 edits, plugs, breaks>>

(* ControlMsg::MonitorsChanged: screens that appear nowhere get a place,   *)
(* and then everybody is sent the layout.                                  *)
HandleMonitors(n, m) ==
  /\ Takes(n, m, "monitors")
  /\ joined[n][m]
  /\ LET slots == Head(wire[m][n]).monitors
     IN /\ known' = [known EXCEPT ![n][m] = slots]
        /\ layout' = [layout EXCEPT ![n] = WithPlaceFor(@, m, slots)]
        /\ wire' = Sent(Rest(n, m), n,
                        IF NeedsPlacement(layout[n], m, slots) THEN PeersOf(n) ELSE {},
                        <<LayoutUpdate(layout'[n])>>)
  /\ Saves(n)
  /\ UNCHANGED <<monitors, apart, snapshot, joined, arriving, open, edits, plugs, breaks>>

-----------------------------------------------------------------------------
LayoutNext ==
  \E n \in Node :
    \/ SetLayout(n)
    \/ AutoLayout(n)
    \/ DisplaysChange(n)
    \/ Restart(n)
    \/ \E m \in Node : AutoLayoutOf(n, m)
    \/ \E m \in Others(n) :
         \/ Connect(n, m)
         \/ PeerReady(n, m)
         \/ Break(n, m)
         \/ PeerGone(n, m)
         \/ ForgetPeer(n, m)
         \/ PairAgain(n, m)
         \/ IgnoreLate(n, m)
         \/ HandleUpdate(n, m)
         \/ HandleRequest(n, m)
         \/ HandleMonitors(n, m)

LayoutSpec == LayoutInit /\ [][LayoutNext]_layoutVars

(* The engine loop handles what is queued for it, dead connections are     *)
(* noticed, and on_tick dials a paired peer until a session stands.        *)
LayoutFairness ==
  \A n \in Node : \A m \in Others(n) :
    /\ WF_layoutVars(Connect(n, m))
    /\ WF_layoutVars(PeerReady(n, m))
    /\ WF_layoutVars(PeerGone(n, m))
    /\ WF_layoutVars(IgnoreLate(n, m) \/ HandleUpdate(n, m) \/ HandleRequest(n, m) \/ HandleMonitors(n, m))

LayoutFairSpec == LayoutSpec /\ LayoutFairness

-----------------------------------------------------------------------------
(* Properties.                                                             *)

AtRest(n, m) ==
  /\ joined[n][m] /\ joined[m][n]
  /\ Pair(n, m) \in open
  /\ wire[n][m] = <<>> /\ wire[m][n] = <<>>

(* Two machines with a session and nothing left to say to each other have  *)
(* the same layout: "agree on a layout" is what on_peer_ready sets out to  *)
(* do, and accept_layout's order has the two ends pick the same winner.    *)
(* With a third machine they may not: an adopted layout is not passed on,  *)
(* nor is one in which on_peer_ready has placed the third.                 *)
AgreementAtRest ==
  \A n \in Node : \A m \in Others(n) : AtRest(n, m) => layout[n] = layout[m]

(* The same as long as nobody has plugged a screen in or out: on_tick sends*)
(* the screens and not the layout it has placed them in.                   *)
AgreementWhileScreensStay == plugs = 0 => AgreementAtRest

AtHome(n) == ~NeedsPlacement(layout[n], n, monitors[n])

(* A machine's own screens keep their places in its own layout, or the     *)
(* cursor never comes home, whatever peers send, drop or reorder, whatever *)
(* is arranged or forgotten and whichever screens are plugged in.  Only a  *)
(* layout its own user saves without them loses them.                      *)
HomeIsOnTheMap ==
  [][\A n \in Node : AtHome(n) => AtHome(n)' \/ SetLayout(n)]_layoutVars

(* What the engines do implements what they promise: the layout a machine  *)
(* has saved is only ever replaced by a better one, whatever peers send and*)
(* however often it is restarted.  So is the one in use but for a restart, *)
(* which may go back, to what was saved with other gaps filled.            *)
OnDisk == INSTANCE AgreedLayout WITH Machine <- Node, Better <- Accepts, copy <- saved
InUse == INSTANCE AgreedLayout WITH Machine <- Node, Better <- Accepts, copy <- layout

KeepsPromise ==
  /\ OnDisk!AgreedSpec
  /\ [][breaks' # breaks \/ \E m \in Node : InUse!Improve(m)]_layout

(* Adopting, placing one's own screens, raising the revision and sending   *)
(* it back comes to rest, with one layout on both of two machines, unless  *)
(* screens are plugged in or out meanwhile, or the two stay apart.         *)
Converges == [](plugs = 0) /\ <>[](apart = {}) => <>[]InUse!Agreement

=============================================================================

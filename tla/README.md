# WinXtend: a TLA+ model

WinXtend shares one keyboard and mouse among several machines.  Every machine
runs an agent that captures its user's input, routes it to whichever machine
the virtual cursor is on, and injects what other machines send it.  The agents
form a mesh without a leader: each has a router and a virtual cursor of its
own, and any of them may drive any other.

This directory holds TLA+ modules translated from that code, configurations
that check them with TLC, and theorems checked with TLAPS.  `PROJECT.json`
maps every definition to the lines it models and lists runs, findings, hazards
and theorems.

## The system

| Component | State | Operations | What makes it correct |
|---|---|---|---|
| Router (`wx-core/router.rs`) | cursor, held keys, buttons and modifiers, per-peer sequence numbers, lock | `motion`, `route`, `warp_via`, `set_layout`, `release_all` | the list of actions of a crossing releases, yields and hands over in that order; nothing stays held on a machine left |
| Cursor and layout (`wx-core/cursor.rs`, `layout.rs`) | position on a screen; rectangles in one plane, a revision | `move_by`, `warp_to`, `resolve_move`, `validate` | a walk ends, on a screen, inside its bounds |
| Engine (`wx-agent/engine.rs`) | sessions, gates, `last_heard`, `driven_by`, `suppressed`, dials, pairings, clipboard | one `Wake` at a time from one queue: captured input, sessions, peer events, dials, discovery, IPC, three timers | below |
| Input plane (`wx-net/transport.rs`, `wx-proto/input.rs`, `engine::enqueue`) | bounded queue per peer, two streams, datagrams, event queue, sequence gate | send, read, drop, give up | what latches state arrives or the session dies; motion never goes back |
| Session lifecycle (`engine.rs`, `state.rs`) | status, failures, next dial per peer; generation per session | dial, accept, duplicate, end, back off | one session per pair; old ends do not hurt new sessions; peers that can talk do |
| Pairing (`engine.rs`, `wx-net/handshake.rs`, `pairing.rs`) | offered codes, pending exchanges, handshake state | offer, claim, discard, confirm, time out | only a matching code pairs; no card outlives its exchange |
| Layout synchronisation (`engine.rs`, `autolayout.rs`) | layout and revision per machine | adopt, place, bump, broadcast | all machines end with one layout |
| Clipboard (`wx-agent/clipboard.rs`, `engine.rs`) | last serial seen, own write-back, request outstanding, worker's jobs | poll, offer, request, data, settle | a copy reaches the others once and never echoes |
| Platform backends (`wx-platform`) | held keys, borrowed modifiers, portal sessions, grabs | inject, release_all, suppress, exits | what was pressed can be released |
| IPC and desktop UI (`ipc.rs`, `ui/`) | requests, event stream, link | request, subscribe, reconnect | the UI converges on the engine's state |

The engine is one serial loop: every handler runs to its end before the next
`Wake` is taken.  What makes it hard is everything around the loop.  Handlers
on *different* machines interleave; a session is two reliable streams and a
flow of datagrams that nothing orders against each other; reader tasks queue
events that are handled after the session they came over is gone; a peer may
be dead, or only slow, or replaced by a newer session of itself; and each of
two machines may believe it is the one that drives.

## Modules

### InputPlane

One direction of one session, from the router's actions to the receiving
engine.  `outq` is `PeerLink.out` (`enqueue`, `send_to`), `control` and `input`
are what the sender task (`spawn_sender`) has written to the two streams and
the reader tasks have not read, `datagrams` the network, `evq` the bounded event
queue the three reader tasks share, `highest` the sequence gate.  `routed` and
`applied` are histories.  A message is its kind (`motion`, the only sheddable
one; `latch`, any other input event; `control`) and its number.  The sender
task takes one message at a time and blocks while the stream it needs is full,
which `StreamWindow` stands for.  Motion goes by datagram or, when it does not
fit, by the input stream: the model allows either.

### Handoff

The mesh.  For each machine: `owner` (where its cursor is), `held` (the
router's record of what is pressed there), `suppressed`, `drivenBy`, `link`
(`Engine.sessions`), `reachable` (`AgentState::is_reachable`), `ended` (sessions
this machine has removed itself whose pump has not yet reported); the user's
fingers are `physical`, what the capture thread has queued is `captured`, and what
the OS sees is `down`, with who pressed it.
`wire` holds the connections alive between machines, `ctl` and `inp` what is in
flight on the two streams of each direction: sent and not yet handled, the
input plane without its queues.  One engine handler is one action:

| Action | Code |
|---|---|
| `KeyDown`, `KeyUp` | the capture's sink: a key is struck, seen by the OS or swallowed, and queued |
| `RoutePress`, `RouteRelease` | `on_captured`, `InputRouter::route`, `execute`, `should_inject_locally` |
| `MoveControl` | motion over a seam, warp, reclaim hotkey, rescue from a layout: `InputRouter::transfer` and `execute` |
| `HandleTakeControl`, `HandleStaleTakeControl`, `HandleYieldControl` | `on_control` |
| `HandleInput`, `IgnoreUntrusted` | `on_input_frame`, the trust check of both planes |
| `PumpGone`, `LatePumpGone` | `on_pump_gone`, `teardown_is_current`, `on_peer_gone` |
| `CloseSession` | `on_peer_gone` from Goodbye, SetPeerEnabled, forget_peer, a full queue |
| `BeginPairing` | `begin_pairing` over a live session |
| `Probe`, `Tick` | `probe_cursor_owner`, `probe_driving_peer`, `on_tick` |
| `Reconnect`, `EnablePeer` | `on_session` at both ends, SetPeerEnabled(true), `finish_pairing` |
| `Break`, `PowerLoss` | the network, a machine |

Every batch ends with `sync_suppression`, which is part of each action that
runs one.  A handler is one action, so the capture thread sees the suppression of
before it or of after it, and never the middle of its batch.  The failure of a dial (`Wake::DialFailed`) changes nothing of this
state: `dial` has marked the peer as connecting already.  The router emits
`ReleaseControl` only to its own machine, so the frame's arrival from a peer
is not modelled.  A clean shutdown is a `CloseSession` at each peer and a
`PowerLoss`.  Every machine is assumed to have a screen of its own, so the
cursor can come home.

### Sessions

How two paired machines come to hold one session, and lose it.  `Handoff` takes
a session for granted and lets it break; here it is made.  The two machines are
named by the order of their node ids, because the lower one dials first
(`DIAL_GRACE`).  For each: `session` (`Engine.sessions`), `dialing`
(`Engine.dialing`), `status`, `waiting` (the backoff is running), `known`
(discovery has given addresses), `enabled`, and `queue`, the wakes its engine
has not handled.  Of each dial: `task` (whose task is at it), `alive` (the
connection is open), `end` (what runs at each end: the handshake, or the pump),
`bye` (Goodbyes on their way).

| Action | Code |
|---|---|
| `Tick`, `StartDial`, `DialTarget` | `on_tick`, `dial`, `AgentState::dial_targets` |
| `HandleSession` | `on_session`, with the duplicate closed |
| `HandleGone`, `HandleGoodbye`, `PeerGone` | `on_pump_gone`, `on_control`'s Goodbye, `on_peer_gone` with `on_disconnected` |
| `HandleFailed` | `Wake::DialFailed` with `dial_is_current` |
| `Found`, `Lost` | `on_discovery`, `observe_discovered`, `observe_lost` |
| `Disable`, `Enable`, `BeginPairing` | `SetPeerEnabled`, `begin_pairing` |
| `Answer`, `Establish`, `SetupFails`, `Unreachable`, `Misdial` | the task of `dial`, `spawn_accept_loop`, `establish` |
| `PumpGoodbye`, `PumpEnds` | `spawn_pump` |
| `Break`, `IdleTimeout`, `Crash`, `Shutdown` | the network and QUIC's idle timeout, a machine, `shutdown` |

A dial tries the peer's addresses in turn and makes one connection at most, so
a dial and its connection share a number, and the addresses are one.  Numbers
nothing refers to are used again, the least first; a dial for which there is
none waits.  `Misdial` is an address that by now belongs to a third machine
that is paired too: the session is that machine's, and so is the entry of
`dialing` it clears.  A probe that finds the peer gone does to this state what
`HandleGone` does.  Time is a backoff or a grace period that runs or is over.
Both machines trust each other throughout; sessions that exist only to pair
are the business of `Pairing`.

### Injector

The X11 injector (`wx-platform/linux_x11/inject.rs`), the end of the input
path on the machine driven.  A modifier key of that desktop may be wanted by
the sender's own finger (`held`), by the chord a keystroke comes with
(`chord`), and by the level of the layout a character is on (`level`); `pressed`
says which of them the injector put down itself, `down` what the server has
down.  An operation is a chain of requests of which any may fail: each action
picks how many the server answers (`calls`), and carries on with a record of the
state, as the code does with `self`, until the operation is over or cut short.

| Action | Code |
|---|---|
| `ForwardPress`, `ForwardRelease` | `inject_key` of a bare modifier: `forward_modifier` |
| `Special` | `inject_key` of a key without text, or of a raw keycode |
| `TextPress`, `TextRelease` | `inject_text` of a character with a key of its own |
| `TextComposed`, `TextComposedRelease`, `TextFlushed` | a dead key and a base, its release, a payload of several characters |
| `Button` | `inject_button` |
| `ReleaseAll` | `release_all`, `modifier_release_order` |

`SyncChord` and `SyncLevel` plan from the state they found (`p`) and carry out in
the state they are changing (`s`), one modifier at a time.  A modifier is named
by the key pressed for it; Alt and Super go the way of Ctrl.  Caps Lock only
changes which level a character is on.  Motion and wheel clicks hold nothing.

### LayoutSync and AgreedLayout

One arrangement of screens, kept by every engine for itself: `layout` is
`InputRouter.layout`, `saved` is `config.layout`, which is all that survives a
`Restart` and lacks what `start` then fills in for the machine's own screens;
`monitors` and `known` the screens attached here and those peers have
told of, `snapshot` the `local_info` the accept loop has cloned, which it hands
to the next connection however old it is.  Sessions are only as much as the
layout needs: `arriving` is a session the engine has not looked at, `wire` the
control messages of each direction, and `apart` the pairs of which one has
forgotten the other, which nobody dials until they are paired again.

| Action | Code |
|---|---|
| `PeerReady` | `on_session`, `on_peer_ready` with `ensure_layout_covers` |
| `HandleUpdate`, `HandleRequest`, `HandleMonitors`, `IgnoreLate` | `on_control` |
| `SetLayout`, `AutoLayout`, `AutoLayoutOf`, `ForgetPeer` | the requests of the user interface |
| `DisplaysChange` | `on_tick` when the screens are others |
| `Connect`, `PairAgain`, `Break`, `PeerGone`, `Restart` | sessions, pairing (`finish_pairing`), the agent's start |
| `Saves`, in every action that installs a layout | `adopt_layout` with `persist` |

`SetLayout` takes any layout, as the request does: a window, or another client,
whose draft is older than a screen's place sends one without it, this machine's
own screens included.

`Accepts` is `accept_layout`, with the order of `layout_key` for equals; `Applied`
is `autolayout::apply`, which raises the revision only if something moves.  A
screen is one unit wide, all are in one row: what a layout is compared by is
then which screens are where.

`AgreedLayout` is what that is for: every machine has a copy and changes it
alone, always for a better one.  `LayoutSync` implements it with `copy` as `saved`
and `Better` as `Accepts` (`KeepsPromise`): whatever a handler does to the layout -
adopt, place, arrange, drop a peer's screens - the outcome beats what was saved
before, also across restarts.  Of the layout in use, and told to peers, the same is
true but for a restart, which returns to the saved one and fills other gaps.

### Clipboard

Two machines, each with three actors: the desktop's clipboard (`selection`, and
for a portal `signals` on their way), the worker thread (`jobs`, `work`), and the
engine with what it has seen (`ClipboardSync`: `seen`, `writeBack`, `asked`) and
what it believes is with the worker (`ClipboardTraffic`: `polling`, `writes`,
`lost`).  `reports` is `ClipboardDone` on its way to the loop.  The jobs that take
time are more than one action, and anything may happen in between: a poll reads
the serial and then the formats, a write announces its guard, writes, and then
asks for the serial it has made.

| Action | Code |
|---|---|
| `SampleSerial`, `SampleFormats` | `sample_clipboard` |
| `ReadForPeer` | `serve_clipboard` |
| `Unpack`, `Write`, `WriteRefused`, `ReadSerial` | `accept_clipboard`; `Unpack` also discards what cannot be unpacked |
| `WorkerDies` | a panic of the backend, `WorkerObituary` |
| `PollClipboard`, `OnClipboardDone` | `poll_clipboard`, `on_clipboard_done` with `settle_clipboard_report`, `observe`, `offer_clipboard`, `on_clipboard_served` |
| `OnOffer`, `OnRequest`, `OnData`, `OnStale` | the handlers of the same names in `engine.rs` |
| `UserCopies` | another program of the desktop takes the clipboard |
| `SelectionChanged` | the Wayland backend's `selection_changed` |
| `PeerGone`, `Connect`, `Disconnect`, `Restart` | sessions, the agent's start |

The content of a clipboard is the number of the copy it came from; a digest is
the format and that number.  One machine counts changes at once, as Windows
does, the other learns of them by a signal, as a portal does.

### Pairing

Two strangers.  Of each machine: `trust`, and `admits`, the copy of it that the
accept loop waits with; `status`, `session`, `pending`, `offered` (`OfferedPins`),
`dialing`.  Of each dial: how far it is, who made it, the trust store it was
started with, and - once it is a connection - for what either end was judged.
`news` is what each connection's pump has for the engine.  `held` remembers which
codes a machine has had on which connection, for the properties.

| Action | Code |
|---|---|
| `BeginPairing`, `ConfirmPairing`, `CancelPairing`, `ForgetPeer` | the requests of the user interface |
| `Connect`, `DialFails` | the dial's task, the accept loop, `Handshake::admit`, `Wake::DialFailed` with `end_undialled_pairing` |
| `OnSecondSession`, `OnTrustedSession`, `OnPairingSession` | `on_session` |
| `OnPairConfirm`, `OnEarlyConfirm`, `OnPairResult` | `on_pair_confirm`, `finish_pairing`, `abandon_pairing` |
| `OnPumpGone` | `on_pump_gone`, `on_peer_gone` with `end_pending_pairing` |
| `SweepPairing`, `Redial` | `on_tick` |
| `Break`, `Restart` | the network, a machine; the trust store is on disk |

A proof is the code and the number of the connection, which stands for the two
nonces of its handshake.

### Cursor

The position of the virtual cursor (`cursor`: screen, point, motion not yet
spent) on the `layout` of its router.  Every operation of `cursor.rs` and the
geometry of `layout.rs` is translated: `MoveBy`, `WarpTo`, `ResolveMove`,
`ResolveCrossing`, `ExitEdge`, `EntryPoint`, `ExitEdges`.  The actions are what
calls them: `Captured` (`InputRouter::motion`), `CapturedElsewhere` (with
`resync_local_cursor` before it), `Warp`, `SetLayout` (`adopt_layout` and
`InputRouter::set_layout`), `ReclaimCursor` (with `reclaim_target`), `SetLocked`.
Coordinates are integers counted in grains; see the module's head.  When
`resync_cursor` corrects the cursor is left open: any report may.

## Runs

| Run | Instance | Shows |
|---|---|---|
| `input_plane` | 4 messages, queue 2, event queue 2, window 1 | `MotionNeverRewinds`, `LatchesSurviveOverflow`, `EveryLatchSettles`. Four messages overflow each queue and let a datagram be overtaken by two later ones |
| `handoff_faults` | 2 machines, 1 key, which the user of one of them strikes up to 2 times ahead of the engine, 2 faults, at most 1 message in each queue | `DriverIsWatched`, `DriverLossReleases` and `StrayOnlyBehindACrossing` through every pair of failures: a break during a restart, a wrong probe before a late end of session. `SuppressionFollowsOwner` while nothing has failed |
| `handoff_mesh` | 3 machines, 1 key of one of them, no faults | three machines displace each other: `NoKeyLeftBehind`, `DriverOwnsCursor` |
| `handoff_releases` | 2 machines, 1 key of one of them, at most 2 messages in each queue, no faults, liveness | `WalkingAwayReleases` |
| `sessions_faults` | 2 dials, 2 faults, both machines find each other | `StatusTellsTheTruth`, `EveryDialIsUnderWay`, `DeadSessionIsNoticed`, `NoOrphanSession`, `StaleNewsIsHarmless`: crossing dials, each through every pair of failures |
| `sessions_alone` | 3 dials, 1 fault, 1 misdial, discovery on one side only, liveness | `LoneDialerConnects` |
| `injector` | 3 modifiers, 1 other key with 2 characters, 22 requests | `KeysAreAccountedFor`, `EveryPressIsClaimed`, `ChordIsExact`, `SenderKeepsHisModifiers`. Any operation may be cut short at any request; `ChordIsExact` speaks of those that are not, the others of all, and what takes a modifier from under the sender is his own release of it or `release_all`, never a keystroke |
| `layout` | 2 machines of up to 2 screens; 3 events in all, of at most 2 edits, 1 plug, 1 break or restart; users save layouts of the first screen of both machines or of either, at one place | `AgreementWhileScreensStay`, `HomeIsOnTheMap`, `KeepsPromise` (the refinement), `Converges` (liveness) |
| `clipboard` | 2 machines, one with a portal, 2 formats, a queue of 1 to the peer and of 2 to the worker, 2 copies, 1 mishap | `NoEcho`, `TrafficIsTrue`, `LoneCopyArrives` (liveness) |
| `pairing` | 2 machines, 2 codes, 2 dials; 3 events in all, of at most 2 codes typed, 2 mishaps | `TrustIsEarned`, `LoneTrustIsUnderWay`, `EveryExchangeCanEnd` |
| `cursor` | 3 screens in 45 arrangements, 9 deltas | `CursorStaysOnTheMap`, `WaysLeadOut` |
| `pairing_admission` | as small as the trace needs | what a comment promises and the code does not do; see below |

Bounds.  `MaxQueue` bounds only what a user starts: a machine whose queues are
longer waits before it routes its user's next act, while handlers post what they
must.  With a bound of one a crossing can already be routed while a press and a
takeover are in flight.  `MaxCaptured` bounds how far a user is ahead of the
engine: with two, a press and its release are both captured before the crossing is
handled.  `Typing` has the machines whose users strike keys, and is one of them: all
users move their cursors, and the theorems are about everybody's keys.  One key suffices because keys do not influence each other in the
code modelled.  `MaxFaults` counts breaks, closes, power losses, wrong probes,
refusals of the capture backend and sessions that come back untrusted.  The two
runs of safety use symmetry of the machines; the run of liveness does not.
`MaxDials` counts dials and connections that exist at one time.  Two are what
it takes for dials to cross, three for a connection to be superseded while
another dial is under way.  `MaxFaults` of `Sessions` counts breaks, failed
setups, withdrawals of discovery, crashes, and users who disable or pair again.
`MaxCalls` of `Injector` is what the longest operation needs, two characters
flushed together, so every operation may also go through.
Two machines are what an exchange of layouts, copies or codes takes.  Three
events of `LayoutSync` let two users save at one revision and the connection
break between the two updates; a draft without a machine's own screen, a peer
forgotten and paired again, or a restart with another screen than before are each
followed by two more events.  One place to drag screens to is enough for two drafts
to differ from each other and from what is placed automatically, because a
layout's key starts with whose screens it has.  Two copies of `Clipboard` let one overtake the
other, and a queue of one to the peer lets an answer find it full (its theorems
are for any depth).  The two codes of `Pairing` may be different or the same, and
its second dial replaces the first while what the first delivered is still to be
handled.
`MaxMishaps` counts connections broken, machines restarted, forgotten or blocked;
three events let a code be typed again, for another connection, after a mishap.
The
arrangements of `Cursor` have screens that abut, overlap, leave gaps, stand
askew, have no extent or are no more; a delta of one does not move a slow
cursor by a unit, one of five leaves any screen and jumps over the smallest.

Fairness.  The tasks of the input plane run whenever they can make progress
(tokio schedules every ready task); datagrams have no fairness.  In the mesh
the engine loop takes every queued wake in turn, so each handler is weakly
fair, and so are tick and probe, which are timers.  Users, faults and
reconnections owe nothing.  In `Sessions` the engine takes its wakes and ticks,
a backoff and the grace period end, mDNS announces a machine again and again,
and a task that can proceed does: a dial is answered, a handshake completes, a
pump reports, an idle connection times out.  `LoneDialerConnects` says that
then, once faults (of which there are finitely many) are over, and both peers
stay enabled, the two hold the same session for good.  It is claimed for one
dialling machine and no misdials only: with two, each may close what the other
keeps, for as long as their dials keep crossing.  In `LayoutSync` the engine
loop handles what is queued, dead connections are noticed and `on_tick` dials
whoever is paired and has no session; `Converges` says that the copies then become
and stay one, unless the two stay unpaired.  In `Clipboard` the worker, the loop, the portal and the poll ticker go on;
`LoneCopyArrives` is claimed for a copy that nothing interferes with, made after
the engine's first look at the clipboard, which it never offers.

## What the code does not do

One run expects a violation, `pairing_admission`.  The accept loop clones the
trust store and then waits for a connection, so the copy is as old as the last
connection: the first one after a pairing is taken for a stranger's
(`PairedPeersAreAdmitted`), and in the same way the first one after a peer was
forgotten or blocked is taken for a friend's.

The others below were met while modelling, each with a trace of one of the
modules or a walk through the code, and have no run.

Input and sessions:

* *A key struck at a crossing.*  The OS sees a key until the suppression takes hold,
  which is when the engine has handled the motion that crosses; a key captured
  before is routed after it, to the other machine, and so is its release, which the
  OS does not see.  Both machines have typed it, and at home it stays down until it
  is struck again there.  The crossing cannot release it, for it is not on record
  yet.  `Handoff` has this behaviour, and `StrayOnlyBehindACrossing` says that
  no other way leads to it, a refused suppression apart, which is as if the
  crossing had not been handled.
* *Two streams.*  The comment in `spawn_sender` says the action list must arrive
  in order.  It is written in order, but to two streams that nothing orders
  against each other; `EachStreamKeepsItsOrder` is what holds.
* *A session's end.*  A peer's press can be handled while that peer is not the
  recorded driver, since control and input race; when the session then ends,
  `on_peer_gone` (`engine.rs:2416`) does not release it, although "this is the
  only place left to let go".
* *A displaced driver's yield* (`engine.rs:2195`) calls `release_all` whoever
  yielded, and so lets go of what the present driver holds.  A displaced driver
  also goes on injecting, on nobody's record: nothing tells it, and
  `on_input_frame` does not ask.
* *Duplicates* are visible: `on_session` (`engine.rs:1942`) keeps the connection
  its own engine took first, which is not the same one at both ends, and both
  are then closed.
* *A second Goodbye* (`engine.rs:2321`) ends the session that followed the one it
  was sent over: `shutdown` says goodbye twice to a reachable peer, and the wake
  that passes it on carries no generation.
* *A misdial* leaves `dialing` with an entry nothing clears (`engine.rs:1934`), and
  the peer is not dialled again until it dials itself or a user pairs anew.
* *Grace.*  `dial_targets` counts `DIAL_GRACE` from `first_seen`, which for a peer
  of the trust store is the start of the agent, not the moment discovery found
  it.
* *The right Ctrl.*  A chord is always pressed with the left-hand key: who types
  a letter while holding the right Ctrl has the X11 injector press the left one
  too, `forward_modifier` then lifts the right one only, and the left stays down
  until the next key (in `Injector`: `ForwardPress`, `TextPress`, `TextRelease`,
  `ForwardRelease`), so a click in between is a Ctrl+click.

Layout:

* `layout_key` leaves out `cursor_scale`, although "the ordering has to be total":
  two layouts that differ in speeds only, saved on two machines at one revision,
  are each kept.  With two speeds the run finds `AgreementWhileScreensStay` violated;
  the configuration has one.
* `on_tick` places new screens in the layout and broadcasts the screens, not the
  layout.  A peer that has a place for them already, or places them elsewhere,
  keeps a layout of its own at the same revision until the next edit or session.
  `AgreementWhileScreensStay` and `Converges` are therefore claimed while no
  screen is plugged in or out.
* `start` fills the gaps of the saved layout and does not save the result
  (`engine.rs:1325`).  Until something else is saved a machine goes back, by a
  restart, behind the layout it has told its peers, and with other screens attached
  fills the same revision differently.
* `SetLayout` (`engine.rs:3215`) takes a layout without this machine's own screens,
  as a window with an old draft sends (`ui/src/layout.js`), at the next revision.
  Nothing puts them back before a peer's layout is adopted, the screens change or
  the agent starts again; `HomeIsOnTheMap` excepts this step.
* Agreement is not claimed of three machines.  `on_peer_ready` tells a layout in which it
  has placed a peer to that peer only, and an adopted layout is not passed on.  Say
  machines 1 and 2 meet, place each other, and place machine 3 before either has
  handled the other's update.  That update is then refused as the older one, 3 keeps
  the better of the two layouts it is told, and 1 and 2 differ at one revision with
  nothing on the way, until the next edit or session.  TLC finds this with
  three nodes of one screen and no edits at all.

Clipboard:

* `ClipboardStale` settles whatever is outstanding with its sender, also a later
  request than the one it answers, so data that then arrives is thrown away.
* `on_clipboard_served` rechecks the serial the loop has seen, not the one the
  clipboard has: content that changed during the read goes out under the old
  serial until the next poll.
* A user's copy between `write` and the `change_serial` behind it is taken for
  the write's own serial, and is never offered.
* `write_failed` clears the guard of the write before it as well, and a portal
  that tells late of a change drops what was staged after it; `NoEcho` exempts
  these (`disturbed`).
* Requests with the worker when it dies are never answered.  Neither is one whose
  answer finds the peer's clipboard queue full: `send_clipboard_to` drops what
  it has no room for, and the requester goes on waiting until it is offered
  something else (`unanswered`; `RequestsAreUnderWay` exempts it).

Pairing:

* `on_session`, when it takes a connection for a paired machine's, leaves the code
  that is on screen where it is, and no exchange, dial, sweep or end of a session
  will take it back: only the user can, by cancelling or beginning again.  This
  happens whenever one pairs with a machine that is paired already, which
  `begin_pairing` does not refuse (`engine.rs:3389` refuses blocked ones only; the
  window does not offer it unless it is out of date, `wx-agent --pair` does), and it is what
  the comment in `on_peer_gone` calls a pairing "nothing can ever take back out of
  the list".  If the copy by which the connection was judged is an old one and the
  machine is not trusted any more, its session too is left without an exchange.
  `EveryExchangeCanEnd` says that no other step does either (`TakesForPaired`).
* A `PairResult` of refusal that arrives from a connection since replaced ends the
  exchange that replaced it.
* When only one side got as far as to trust (`LoneTrustIsUnderWay` says when), the
  other pressing Pair again does not help: the trusting side takes the session
  for a paired one.  It has to forget first.

Cursor:

* The doc of `VirtualCursor` says its position is "always inside `monitor`'s
  rectangle".  A new layout that moves the rectangle leaves the position where it
  was until the next motion or warp, which is what `LandsInside` says.
* The comment on `resolve_crossing` has it fall back to the nearest screen "so a
  diagonal arrangement still connects".  Of four screens in a square around the
  corners of a fifth, each has another of the four straight ahead wherever the
  fifth could be the nearest, and the fifth is never entered.  `validate` does not
  report it: it asks for the way back at a height the neighbour does not have.
  What does hold, and is proved, is that a screen which *faces* another of a set
  can be reached from that set (`FacingScreensAreReached`).

## Theorems

All are proved for every mesh, keyboard, queue depth and number of dials or
requests.  The assumptions are `HandoffAssumption` and `SessionsAssumption` (the
bounds are naturals), `DepthsArePositive`, `InjectorAssumption`, `LayoutAssumption`
(machines and screens are finitely many and have numbers), `PairingAssumption`
(there are two machines, and no code is the absence of one), `ClipboardAssumption`
(two machines, no queue without room) and `CursorAssumption` (a layout places a
screen once and extents have no sign, as `GlobalLayout::insert` and `u32` see to).

`HandoffProofs`, about the mesh:

* `TypeCorrect`: `TypeOK` is inductive, by one case per action.
* `LossReleases`: an action property.  Every step that ends the session of a
  recorded driver is one of the teardowns, and each of them calls `Reclaim`.
* `DriverWatched`: `DriverIsWatched` alone is not inductive, since a session
  removed at one end lives on at the other.  `SessionInv` adds what ties
  `link`, `wire` and `ended` together.
* `StrayKeys`: an action property, whatever fails.  One case per action: what the
  engine does presses nothing on the keyboard itself (`NothingStruck`), a transfer
  away from home lets go of all that is on record, and the queue of what was
  captured loses only its head.
* `SuppressionFollows`, `RecordsAgree`, `KeysFollowTheCursor`:
  three properties claimed only while nothing has failed.  `CalmInv` says what such
  a mesh looks like (every session intact), and `CalmStep` that only eight actions
  can then occur; each theorem is a case per one of these.  The lemmas are
  about the last word in a queue: who is named by the latest hand-over
  (`DriverOwnsCursor`), and what the latest message about a key says
  (`NoKeyLeftBehind`).

`InputPlaneProofs`, about one direction of one session:

* `TypeCorrect`.
* `MotionMonotone`: the gate is at or above every event applied (`GateInv`).
* `LatchesSurvive`: each of the stages between router and engine holds the
  latches the stage before it passed on, in full until the link gives up.
* `StreamsOrdered`: the stages, read from the engine back to the router, give
  each stream's events in the order they were routed (`OrderInv`).

`SessionsProofs`, about the making of a session:

* `TypeCorrect`.
* `StatusTruthful`: a machine with a session waits for no dial (`StatusInv`), or
  the failure of the dial would mark a connected peer down.
* `DialsReport`: `EveryDialIsUnderWay`, from `StatusInv` and lemmas about the
  queue: what is queued stays until it is taken.
* `DeadSessionsNoticed`, `StaleNewsHarmless`: `ConnInv`.  Neither property is
  inductive.  The news of a session may wait in the queue until its pump has
  ended, so the invariant says the news of the end is behind it
  (`NewsInOrder`); a report concerns a connection that is over (`GoneIsOver`),
  which holds because a dial that is answered finds no trace of its number
  (`UnansweredIsNew`, `DialerSetsUp`).
* `NoOrphans`: `NoOrphanSession` with the types is inductive.

`InjectorProofs`, about the X11 injector, for every keyboard, layout and set of
snapshots (`InjectorAssumption`: right-hand modifiers are not the keys chords are
pressed with, plain keys are no modifiers):

* `TypeCorrect`, `KeysAccountedFor`, `PressesClaimed`: together inductive (`Good`,
  said of a state in the midst of an operation).  The lemmas go along the chain
  of an operation: each function keeps `Good`, the sender's own modifiers and a
  failure once met (`Carries`).
* `ChordsExact`: `sync_chord` makes `Chorded` true and `sync_level` makes `Levelled`
  true without undoing it, since `LevelStep` lets go of no key a chord claims.
* `ClearIsClear`; `SenderKeeps`, an action property, from what `Carries` says of every
  function of an operation: it leaves the keys the sender holds as they were.

`LayoutProofs`, about any number of machines that exchange layouts:

* `AcceptsIsAnOrder`: a fact about `accept_layout` alone.  It compares revisions,
  then the sorted entries; that these are ordered as text is comes from the first
  place at which two differ.  It decides whenever revision or `layout_key` differ.
* `LayoutTypeCorrect`: `TypeInv`, which says of layouts and messages what the
  handlers keep: every entry is a screen somewhere, every queue holds messages.
* `LayoutHome`, `LayoutKeepsPromise`: one lemma per action says that the step is
  `Adopted` by its machine - the layout stays, or becomes one that `Accepts` prefers
  and is saved - and, but for `SetLayout`, that the machine's own screens keep their
  places (`HomeKept`); a restart is `Resumed`.  The first theorem follows from that.
  For the second, what is in use is what is saved or better (`SavedBehind`), so that
  by the transitivity of `Accepts` what is saved next is better than what was.
* `LayoutAgreement`: of two machines without scaled screens (`TwoUnscaled`), the
  cases in which `layout_key` tells all layouts apart and nobody else is to be told.
  The invariant `AllTold` is about each machine and its messages under way: none
  carries a layout better than the machine's own (`SendsNoBetter`), whose connection
  is up it has a session or is about to (`HasSession`), and with a session either
  the other's layout is no worse than its own or its own is on the way (`Informed`).
  `Announced` covers the edits, `Severed` all that ends a connection, `Heard` what
  is received; a restart fills the gaps that were filled before (`FilledAlike`), as
  no screen was plugged in.  With nothing on the way neither layout is the better one, and
  `NeitherAccepted` makes them one.

`PairingProofs`, about two machines, any codes and any number of dials:

* `PairingTypeCorrect`: `Inv`.  A dial waited for is the machine's own
  (`DialingIsOwn`), an exchange is on the session in use and of a code the machine
  has held there (`ExchangeOf`), and every proof in a queue was made by a machine
  that has held its code on the connection it names (`Honest`).
* `PairingTrustEarned`: trust is given by `OnPairConfirm` only
  (`WhereTrustComesFrom`); the code accepted is one's own by `ExchangeOf` and the
  other's by `Honest`, on the same connection since `Accepts` compares it.
* `PairingExchangesEnd`: `EndInv`, which adds that news come from connections, that
  nobody dials who has a session (`Answered`: so a redial never takes the place of
  the dial a code waits for, nor does a second session) and that a session without
  an exchange is with a machine that is trusted or was taken for one (`Judged`).
  Each step is shown to leave every machine what it needs to end (`Lasts`).
* `PairingLoneTrust`: `LoneInv`, of machines none of which has been forgotten.
  Such a machine has not been told by an old copy of the trust store that it
  trusts the other before it does (`NotTaken`), attends to every connection that
  is up (`Attends`), and as long as one is up keeps the exchange in which it held
  a code on it (`HoldsOn`).  So a proof that is handled on a connection in use
  finds its exchange, and earns trust or ends the connection (`SoughtStep`).
  Whoever trusts first has a proof on its way: the machine that shows the code
  answers with one, and the other has sent its own before (`Proved`).  What a step
  may be to a machine is one of five moves (`Move`): one lemma per action says
  which.

`ClipboardProofs`, about two machines, any formats and copies, whichever
clipboards are a portal's, queues of any depth and any number of mishaps:

* `ClipboardTypeCorrect`: `Types`.
* `ClipboardTrafficTrue`: `WorkerInv` and `UnderWay`.  A report is believed of a
  moment that has passed, so the invariant is about order: a worker has one poll
  at most, and no write is ahead of it at any of its three stations (`Passes`);
  hence the guard a poll was sent with is the one there is when its report is
  handled (`Current`), and jobs counted, in the queue, at work and reported add up
  (`Accounted`).  What a machine has asked for is named by the request, the job,
  the report or the answer, wherever it has got to (`Pursued`): one case per
  action that moves it on.
* `ClipboardNeverEchoes`: `EchoInv` and `OffersInv`.  `NoEcho` speaks of offers on
  their way, and is true of them because it was of the report they were made of,
  and so back to the worker: a serial under which a peer's content is, or will
  be, on the clipboard is one the guard of the last write announced will know
  (`GuardInv`, `SampleInv`, `PolledInv`), unless the user has copied since, or
  something has interfered (`disturbed`).  A restart begins a new count of
  serials while old mail is still on its way; until that is gone, nothing of a
  peer's is on the clipboard (`Aloof`).

`CursorProofs`, about any screens and arrangements of them, speeds and deltas:

* `CursorTypeCorrect`: `Fractions` bounds what `accumulate` leaves banked,
  `ExitsAtPoint` says that the exit point is one, since only an edge across which
  the step moves is run across (`CrossedParts`, `OneExit`).
* `CursorOnTheMap`: `CursorTypeOK` and `OnAScreen` are inductive.  `MovesTo`,
  `WarpsTo` and `RehomesTo` say that each operation leaves the cursor as it was or
  inside a usable screen, since `clamp` and `entry_point` do (`ClampsInside`,
  `EntersInside`), and every crossing leads to such a screen (`CrossingIff`).
* `CursorWaysLeadOut`: a property of the geometry, whatever the cursor has been
  through.  A straight push runs across one edge (`StraightPush`), and there is a
  crossing exactly if something lies beyond (`CrossingIff`), wherever on the edge
  it is, which is why the midpoint will do in `has_neighbour` (`Armed`).  For
  `FacingScreensAreReached` take, of the pairs that face each other from inside
  the set to outside it, one with the least gap, and leave where their common
  stretch begins: `CrossingLeads` has the crossing enter a screen that covers that
  point and is no further; were it in the set, it would face the other across a
  smaller gap (`Between`).

Only model-checked is liveness (`EveryLatchSettles`, `WalkingAwayReleases`,
`LoneDialerConnects`, `Converges`, `LoneCopyArrives`): it rests on fairness, which
the prover does not reason about.  Every invariant and action property of the
passing runs is a theorem.

## Not modelled

* Buttons, the modifiers of held keys and the order of releases in the router.
* The layout beyond a row of equal screens in `LayoutSync`; what `Cursor` does
  with it is about any arrangement.
* In `Injector`, a change of the keymap while a modifier is down: `modifier_keys`
  reads the keymap at every `sync_chord` and `sync_level`, so a modifier the layout has
  moved meanwhile is pressed on one key and let go of on another.  The key it was
  pressed on then stays down, without a claim, until `release_all`, which goes
  through the rest of its list for that reason.
* In `LayoutSync`, a configuration that cannot be saved, and sessions between two
  machines of which one has forgotten the other (`apart`).
* Coordinates near the ends of `i32`, where `Rect` saturates, and fractions finer
  than a grain.
* Clipboard content over the size limit, serials or formats that cannot be
  read, the per-peer switch.
* A trust store that cannot be saved: `finish_pairing` tells the user that the
  pairing will not survive a restart, `forget_peer` (`engine.rs:3487`) only logs
  that the peer will be trusted again after one.  Pairing closed by configuration.
* The capture and injection backends other than X11's injector and the Wayland
  clipboard, the handshake's messages and the codec, configuration, IPC, the
  desktop UI, autostart and video: system calls, serialisation and file I/O, or
  state machines of an external system that the source only drives.  Together
  they are most of the lines of the repository.

## Plan

1. `Router`: chords, buttons, press order and sequence numbers; shown to implement
   an abstract focus in which input exists only at the owner.
2. The Wayland portal session (grants, revocation, activation) and the X11
   capture thread behind the traits `Handoff` relies on.
3. The user interface's link: reconnecting and converging on the engine's state.

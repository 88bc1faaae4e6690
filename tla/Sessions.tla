------------------------------- MODULE Sessions -------------------------------
(***************************************************************************)
(* How two paired machines come to hold one session, and lose it.          *)
(*                                                                         *)
(* Either machine may dial the other.  A dial is a task of its own; when   *)
(* it has connected and shaken hands it queues Wake::Session for its       *)
(* engine, the accept loop of the other machine does the same there, and   *)
(* each end starts a pump that reports the connection's end.  All reports  *)
(* queue behind each other and are handled after the engine may have moved *)
(* on: sessions and dials carry numbers so that a late report is known for *)
(* what it is.                                                             *)
(*                                                                         *)
(* A dial and the one connection it makes share a number here.  Time is    *)
(* not modelled: a backoff or a grace period is running, or it is over.    *)
(***************************************************************************)
EXTENDS Naturals, Sequences

CONSTANTS
  Dialers,      \* machines that discovery tells of the other one
  MaxDials,     \* bound of the model: dials and connections at a time
  MaxFaults,    \* bound of the model: failures and interventions of users
  MaxMisdials   \* bound of the model: dials that another machine answers

Machines == {"lower", "higher"}   \* by the order of their node ids

ASSUME SessionsAssumption ==
  /\ Dialers \subseteq Machines
  /\ MaxDials \in Nat
  /\ MaxFaults \in Nat
  /\ MaxMisdials \in Nat

Dials == 1 .. MaxDials

None == 0

Nobody == "nobody"

VARIABLES
  session,   \* Engine.sessions: the connection in use
  dialing,   \* Engine.dialing: the dial waited for
  status,    \* PeerState.status; Offline, Discovered and Failed are "Down"
  waiting,   \* next_dial is in the future
  known,     \* addresses of the peer are known
  enabled,   \* the user has not disabled the peer
  grace,     \* the higher machine's DIAL_GRACE is not over
  queue,     \* wakes the engine has not handled
  task,      \* the machine whose dial task is running
  alive,     \* the dials whose connection is open
  end,       \* what runs at each end of it: its setup, or its pump
  bye,       \* Goodbyes on their way, with the machine they are for
  faults, misdials

engine == <<session, dialing, status, waiting, known, enabled, grace>>
network == <<task, alive, end, bye>>
vars == <<engine, queue, network, faults, misdials>>

Other(m) == IF m = "lower" THEN "higher" ELSE "lower"

Wake == [kind : {"session", "failed", "gone", "goodbye"}, conn : Dials]

TypeOK ==
  /\ session \in [Machines -> Dials \union {None}]
  /\ dialing \in [Machines -> Dials \union {None}]
  /\ status \in [Machines -> {"Down", "Connecting", "Connected"}]
  /\ waiting \in [Machines -> BOOLEAN]
  /\ known \in [Machines -> BOOLEAN]
  /\ enabled \in [Machines -> BOOLEAN]
  /\ grace \in BOOLEAN
  /\ queue \in [Machines -> Seq(Wake)]
  /\ task \in [Dials -> Machines \union {Nobody}]
  /\ alive \subseteq Dials
  /\ end \in [Machines -> [Dials -> {"none", "setup", "pump"}]]
  /\ bye \subseteq Machines \X Dials \X {1, 2}
  /\ faults \in 0 .. MaxFaults
  /\ misdials \in 0 .. MaxMisdials

(* Two agents that have just started and are in each other's trust store.  *)
Init ==
  /\ session = [m \in Machines |-> None]
  /\ dialing = [m \in Machines |-> None]
  /\ status = [m \in Machines |-> "Down"]
  /\ waiting = [m \in Machines |-> FALSE]
  /\ known = [m \in Machines |-> FALSE]
  /\ enabled = [m \in Machines |-> TRUE]
  /\ grace = TRUE
  /\ queue = [m \in Machines |-> <<>>]
  /\ task = [d \in Dials |-> Nobody]
  /\ alive = {}
  /\ end = [m \in Machines |-> [d \in Dials |-> "none"]]
  /\ bye = {}
  /\ faults = 0
  /\ misdials = 0

-----------------------------------------------------------------------------
(* What the engine and the tasks are made of.                              *)

Report(kind, c) == [kind |-> kind, conn |-> c]

Queued(m, kind, c) ==
  \E i \in 1 .. Len(queue[m]) : queue[m][i] = Report(kind, c)

(* The engine loop of m takes this wake.                                   *)
Takes(m, kind, c) ==
  /\ queue[m] # <<>>
  /\ Head(queue[m]) = Report(kind, c)
  /\ queue' = [queue EXCEPT ![m] = Tail(@)]

Wakes(m, kind, c) == queue' = [queue EXCEPT ![m] = Append(@, Report(kind, c))]

(* A dial no address has answered yet.                                     *)
Unanswered(d) == task[d] # Nobody /\ end[task[d]][d] = "none"

(* A number nothing refers to any more can stand for the next dial.        *)
Free(d) ==
  /\ task[d] = Nobody
  /\ d \notin alive
  /\ \A m \in Machines :
       /\ end[m][d] = "none"
       /\ session[m] # d
       /\ dialing[m] # d
       /\ \A k \in {1, 2} : <<m, d, k>> \notin bye
       /\ \A i \in 1 .. Len(queue[m]) : queue[m][i].conn # d

NextFree(d) == Free(d) /\ \A e \in 1 .. d - 1 : ~Free(e)

Fault == faults < MaxFaults /\ faults' = faults + 1

-----------------------------------------------------------------------------
(* The engine's handlers.                                                  *)

(* dial, for a peer without session or dial: the status set here is what   *)
(* keeps dial_targets from naming the peer again.                          *)
StartDial(m, d) ==
  /\ NextFree(d)
  /\ dialing' = [dialing EXCEPT ![m] = d]
  /\ status' = [status EXCEPT ![m] = "Connecting"]
  /\ task' = [task EXCEPT ![d] = m]

(* dial_targets.                                                           *)
DialTarget(m) ==
  /\ enabled[m]
  /\ status[m] = "Down"
  /\ known[m]
  /\ ~waiting[m]
  /\ ~(m = "higher" /\ grace)

(* on_tick: whoever is a target is dialled, unless a dial or a session is  *)
(* there already.                                                          *)
Tick(m) ==
  /\ DialTarget(m)
  /\ session[m] = None
  /\ dialing[m] = None
  /\ \E d \in Dials : StartDial(m, d)
  /\ UNCHANGED <<session, waiting, known, enabled, grace, queue, alive, end,
                 bye, faults, misdials>>

(* Mutants: the dial waited for is not forgotten; the second session takes *)
(* the place of the first, which nobody closes.                            *)
HandleSessionKeepsDial(m, c) ==
  /\ Takes(m, "session", c)
  /\ session[m] = None
  /\ session' = [session EXCEPT ![m] = c]
  /\ status' = [status EXCEPT ![m] = "Connected"]
  /\ waiting' = [waiting EXCEPT ![m] = FALSE]
  /\ UNCHANGED <<dialing, known, enabled, grace, network, faults, misdials>>

HandleSessionReplaces(m, c) ==
  /\ Takes(m, "session", c)
  /\ dialing' = [dialing EXCEPT ![m] = None]
  /\ session' = [session EXCEPT ![m] = c]
  /\ status' = [status EXCEPT ![m] = "Connected"]
  /\ waiting' = [waiting EXCEPT ![m] = FALSE]
  /\ UNCHANGED <<known, enabled, grace, network, faults, misdials>>

(* on_session.  A second session is closed at once and the first one kept. *)
HandleSession(m, c) ==
  /\ Takes(m, "session", c)
  /\ dialing' = [dialing EXCEPT ![m] = None]
  /\ \/ /\ session[m] # None
        /\ alive' = alive \ {c}
        /\ UNCHANGED <<session, status, waiting>>
     \/ /\ session[m] = None
        /\ session' = [session EXCEPT ![m] = c]
        /\ status' = [status EXCEPT ![m] = "Connected"]
        /\ waiting' = [waiting EXCEPT ![m] = FALSE]
        /\ UNCHANGED alive
  /\ UNCHANGED <<known, enabled, grace, task, end, bye, faults, misdials>>

(* on_disconnected.                                                        *)
Disconnected(m) ==
  /\ status' = [status EXCEPT ![m] = "Down"]
  /\ waiting' = [waiting EXCEPT ![m] = TRUE]

(* on_peer_gone: whatever session there is goes.                           *)
PeerGone(m) ==
  /\ session' = [session EXCEPT ![m] = None]
  /\ alive' = alive \ {session[m]}
  /\ Disconnected(m)

(* Mutants: reports go by the peer's name alone; the comparison is turned  *)
(* round; the failure of any dial counts.                                  *)
TeardownOfAny(m, c) == TRUE

TeardownOfOthers(m, c) == session[m] # c

DialOfAny(m, d) == TRUE

(* teardown_is_current.                                                    *)
TeardownIsCurrent(m, c) == session[m] \in {None, c}

(* dial_is_current.                                                        *)
DialIsCurrent(m, d) == dialing[m] = d

(* on_pump_gone.                                                           *)
HandleGone(m, c) ==
  /\ Takes(m, "gone", c)
  /\ IF TeardownIsCurrent(m, c)
       THEN PeerGone(m)
       ELSE UNCHANGED <<session, alive, status, waiting>>
  /\ UNCHANGED <<dialing, known, enabled, grace, task, end, bye, faults,
                 misdials>>

(* on_control, Goodbye: the session it came over is not asked for.         *)
HandleGoodbye(m, c) ==
  /\ Takes(m, "goodbye", c)
  /\ PeerGone(m)
  /\ UNCHANGED <<dialing, known, enabled, grace, task, end, bye, faults,
                 misdials>>

(* Mutant: the failed dial stays the one that is waited for.               *)
HandleFailedStays(m, d) ==
  /\ Takes(m, "failed", d)
  /\ IF DialIsCurrent(m, d)
       THEN Disconnected(m)
       ELSE UNCHANGED <<status, waiting>>
  /\ UNCHANGED <<dialing, session, known, enabled, grace, network, faults,
                 misdials>>

(* handle, Wake::DialFailed.                                               *)
HandleFailed(m, d) ==
  /\ Takes(m, "failed", d)
  /\ IF DialIsCurrent(m, d)
       THEN dialing' = [dialing EXCEPT ![m] = None] /\ Disconnected(m)
       ELSE UNCHANGED <<dialing, status, waiting>>
  /\ UNCHANGED <<session, known, enabled, grace, network, faults, misdials>>

Handle(m) ==
  \E c \in Dials :
    \/ HandleSession(m, c)
    \/ HandleGone(m, c)
    \/ HandleGoodbye(m, c)
    \/ HandleFailed(m, c)

(* on_discovery.  An announcement ends the backoff of a peer that is down; *)
(* a withdrawal marks it down even while it is being dialled.              *)
Found(m) ==
  /\ m \in Dialers
  /\ known' = [known EXCEPT ![m] = TRUE]
  /\ waiting' = [waiting EXCEPT ![m] = @ /\ status[m] # "Down"]
  /\ UNCHANGED <<session, dialing, status, enabled, grace, queue, network,
                 faults, misdials>>

Lost(m) ==
  /\ known[m]
  /\ Fault
  /\ known' = [known EXCEPT ![m] = FALSE]
  /\ status' = [status EXCEPT ![m] = IF @ = "Connected" THEN @ ELSE "Down"]
  /\ UNCHANGED <<session, dialing, waiting, enabled, grace, queue, network,
                 misdials>>

(* Request::SetPeerEnabled.  Disabling does not stop a dial under way.     *)
Disable(m) ==
  /\ enabled[m]
  /\ Fault
  /\ enabled' = [enabled EXCEPT ![m] = FALSE]
  /\ PeerGone(m)
  /\ UNCHANGED <<dialing, known, grace, queue, task, end, bye, misdials>>

Enable(m) ==
  /\ ~enabled[m]
  /\ enabled' = [enabled EXCEPT ![m] = TRUE]
  /\ UNCHANGED <<session, dialing, status, waiting, known, grace, queue,
                 network, faults, misdials>>

(* begin_pairing: the session is closed, the dial under way forgotten, and *)
(* the peer dialled afresh.                                                *)
BeginPairing(m) ==
  /\ known[m]
  /\ Fault
  /\ session' = [session EXCEPT ![m] = None]
  /\ alive' = alive \ {session[m]}
  /\ \E d \in Dials : StartDial(m, d)
  /\ UNCHANGED <<waiting, known, enabled, grace, queue, end, bye, misdials>>

BackoffOver(m) ==
  /\ waiting[m]
  /\ waiting' = [waiting EXCEPT ![m] = FALSE]
  /\ UNCHANGED <<session, dialing, status, known, enabled, grace, queue,
                 network, faults, misdials>>

GraceOver ==
  /\ grace
  /\ grace' = FALSE
  /\ UNCHANGED <<session, dialing, status, waiting, known, enabled, queue,
                 network, faults, misdials>>

-----------------------------------------------------------------------------
(* The tasks: dials, the accept loop, the pumps.                           *)

(* A dial reaches the other machine, whose accept loop takes one           *)
(* connection at a time.                                                   *)
Answer(d) ==
  /\ Unanswered(d)
  /\ \A e \in Dials : end[Other(task[d])][e] = "setup" => task[e] = Other(task[d])
  /\ alive' = alive \union {d}
  /\ end' = [m \in Machines |-> [end[m] EXCEPT ![d] = "setup"]]
  /\ UNCHANGED <<engine, queue, task, bye, faults, misdials>>

(* dial's task or the accept loop is through with the handshake.           *)
Establish(m, d) ==
  /\ end[m][d] = "setup"
  /\ d \in alive
  /\ Wakes(m, "session", d)
  /\ end' = [end EXCEPT ![m][d] = "pump"]
  /\ task' = [task EXCEPT ![d] = IF @ = m THEN Nobody ELSE @]
  /\ UNCHANGED <<engine, alive, bye, faults, misdials>>

(* Goodbyes m will not read once its end of the connection is gone.        *)
Unheard(m, d) == {b \in bye : ~(b[1] = m /\ b[2] = d)}

(* The handshake fails: the connection has gone, or (a fault) the other    *)
(* end is too slow.  Only a dial reports it.                               *)
SetupFails(m, d) ==
  /\ end[m][d] = "setup"
  /\ \/ d \notin alive /\ UNCHANGED faults
     \/ d \in alive /\ Fault
  /\ alive' = alive \ {d}
  /\ end' = [end EXCEPT ![m][d] = "none"]
  /\ \/ task[d] = m /\ task' = [task EXCEPT ![d] = Nobody] /\ Wakes(m, "failed", d)
     \/ task[d] # m /\ UNCHANGED <<task, queue>>
  /\ bye' = Unheard(m, d)
  /\ UNCHANGED <<engine, misdials>>

(* No address answers.                                                     *)
Unreachable(d) ==
  /\ Unanswered(d)
  /\ Fault
  /\ task' = [task EXCEPT ![d] = Nobody]
  /\ Wakes(task[d], "failed", d)
  /\ UNCHANGED <<engine, alive, end, bye, misdials>>

(* The address belongs to a third machine by now, and a paired one: the    *)
(* session that comes up is that machine's, and clears that machine's      *)
(* entry in `dialing`.  Its pump still reports under the name dialled.     *)
Misdial(d) ==
  /\ Unanswered(d)
  /\ misdials < MaxMisdials
  /\ misdials' = misdials + 1
  /\ task' = [task EXCEPT ![d] = Nobody]
  /\ alive' = alive \union {d}
  /\ end' = [end EXCEPT ![task[d]][d] = "pump"]
  /\ UNCHANGED <<engine, queue, bye, faults>>

(* Mutant: the end is reported without saying of which connection.         *)
PumpEndsUnnumbered(m, d) ==
  /\ end[m][d] = "pump"
  /\ d \notin alive
  /\ end' = [end EXCEPT ![m][d] = "none"]
  /\ bye' = Unheard(m, d)
  /\ Wakes(m, "gone", None)
  /\ UNCHANGED <<engine, task, alive, faults, misdials>>

(* spawn_pump: a Goodbye is passed on, and in the end the end.             *)
PumpGoodbye(m, d) ==
  /\ end[m][d] = "pump"
  /\ \E k \in {1, 2} : <<m, d, k>> \in bye /\ bye' = bye \ {<<m, d, k>>}
  /\ Wakes(m, "goodbye", d)
  /\ UNCHANGED <<engine, task, alive, end, faults, misdials>>

PumpEnds(m, d) ==
  /\ end[m][d] = "pump"
  /\ d \notin alive
  /\ end' = [end EXCEPT ![m][d] = "none"]
  /\ bye' = Unheard(m, d)
  /\ Wakes(m, "gone", d)
  /\ UNCHANGED <<engine, task, alive, faults, misdials>>

-----------------------------------------------------------------------------
(* What may happen to connections and machines.                            *)

Break(d) ==
  /\ d \in alive
  /\ Fault
  /\ alive' = alive \ {d}
  /\ UNCHANGED <<engine, queue, task, end, bye, misdials>>

(* IDLE_TIMEOUT, for a connection whose other end has gone silently.       *)
IdleTimeout(d) ==
  /\ d \in alive
  /\ \E m \in Machines : end[m][d] = "none"
  /\ alive' = alive \ {d}
  /\ UNCHANGED <<engine, queue, task, end, bye, faults, misdials>>

(* The agent at m starts again with nothing.                               *)
Restart(m) ==
  /\ session' = [session EXCEPT ![m] = None]
  /\ dialing' = [dialing EXCEPT ![m] = None]
  /\ status' = [status EXCEPT ![m] = "Down"]
  /\ waiting' = [waiting EXCEPT ![m] = FALSE]
  /\ known' = [known EXCEPT ![m] = FALSE]
  /\ grace' = (grace \/ m = "higher")
  /\ queue' = [queue EXCEPT ![m] = <<>>]
  /\ task' = [d \in Dials |-> IF task[d] = m THEN Nobody ELSE task[d]]
  /\ end' = [end EXCEPT ![m] = [d \in Dials |-> "none"]]
  /\ UNCHANGED <<enabled, misdials>>

Crash(m) ==
  /\ Fault
  /\ Restart(m)
  /\ bye' = {b \in bye : b[1] # m}
  /\ UNCHANGED alive

(* shutdown: every session is told goodbye, those of reachable peers twice *)
(* over, and the endpoint closes.                                          *)
Goodbyes(m) == IF enabled[m] THEN {1, 2} ELSE {1}

Shutdown(m) ==
  /\ Fault
  /\ Restart(m)
  /\ bye' = {b \in bye : b[1] # m} \union
            {b \in {Other(m)} \X ({session[m]} \ {None}) \X Goodbyes(m) :
               end[b[1]][b[2]] # "none"}
  /\ alive' = {d \in alive : end[m][d] = "none"}

-----------------------------------------------------------------------------

MachineStep(m) ==
  \/ Tick(m) \/ Handle(m)
  \/ Found(m) \/ Lost(m) \/ Disable(m) \/ Enable(m) \/ BeginPairing(m)
  \/ BackoffOver(m) \/ Crash(m) \/ Shutdown(m)

DialStep(d) ==
  \/ Answer(d) \/ Unreachable(d) \/ Misdial(d) \/ Break(d) \/ IdleTimeout(d)
  \/ \E m \in Machines :
       Establish(m, d) \/ SetupFails(m, d) \/ PumpGoodbye(m, d) \/ PumpEnds(m, d)

Next ==
  \/ \E m \in Machines : MachineStep(m)
  \/ \E d \in Dials : DialStep(d)
  \/ GraceOver

Spec == Init /\ [][Next]_vars

(* The engine takes every wake in turn and ticks, tasks make progress when *)
(* they can, timers run out.  mDNS announces a machine again and again.    *)
FairSpec ==
  /\ Spec
  /\ WF_vars(GraceOver)
  /\ \A m \in Machines :
       /\ WF_vars(Handle(m)) /\ WF_vars(Tick(m))
       /\ WF_vars(Found(m)) /\ WF_vars(BackoffOver(m))
  /\ \A d \in Dials :
       /\ WF_vars(Answer(d)) /\ WF_vars(IdleTimeout(d))
       /\ \A m \in Machines :
            /\ WF_vars(Establish(m, d))
            /\ WF_vars(SetupFails(m, d) /\ d \notin alive)
            /\ WF_vars(PumpEnds(m, d))

-----------------------------------------------------------------------------
(* Properties.                                                             *)

(* A peer is shown as connected, and counted as reachable by everything    *)
(* that routes input, exactly while there is a session with it.            *)
StatusTellsTheTruth ==
  \A m \in Machines : status[m] = "Connected" <=> session[m] # None

(* A dial that is waited for will report: `dialing` keeps every further    *)
(* dial from starting, so an entry nothing will clear is for ever.  Nor is *)
(* a peer left as Connecting, which dial_targets skips, without a dial.    *)
DialIsUnderWay(m) ==
  /\ status[m] = "Connecting" => dialing[m] # None
  /\ dialing[m] # None =>
       \/ task[dialing[m]] = m
       \/ Queued(m, "session", dialing[m])
       \/ Queued(m, "failed", dialing[m])

EveryDialIsUnderWay == misdials = 0 => \A m \in Machines : DialIsUnderWay(m)

(* A session in use always has a pump that will report its end, or the     *)
(* report is queued: no machine keeps a dead session for ever.             *)
DeadSessionIsNoticed ==
  \A m \in Machines : session[m] # None =>
    end[m][session[m]] = "pump" \/ Queued(m, "gone", session[m])

(* A connection this machine's engine has been given and does not use is   *)
(* closed: of two sessions with one peer, one only carries input.          *)
NoOrphanSession ==
  misdials = 0 =>
    \A m \in Machines : \A c \in Dials :
      end[m][c] = "pump" /\ c \in alive =>
        session[m] = c \/ Queued(m, "session", c)

(* The engine of m takes a wake (and is not restarted).                    *)
HandlesOne(m) ==
  /\ queue[m] # <<>>
  /\ queue' = [queue EXCEPT ![m] = Tail(@)]
  /\ faults' = faults

(* Late reports, of dials given up and connections replaced, and second    *)
(* sessions do not end the session in use while its connection lives.      *)
StaleNewsIsHarmless ==
  [][\A m \in Machines :
       /\ HandlesOne(m)
       /\ Head(queue[m]).kind # "goodbye"
       /\ session[m] # None
       /\ session[m] \in alive
       => session'[m] = session[m]]_vars

(* Where discovery tells only one machine of the other, and nobody else    *)
(* answers its dials, the two hold the same session in the end, whatever   *)
(* failed before.                                                          *)
LoneDialerConnects ==
  [](misdials = 0) /\ (\A m \in Machines : <>[]enabled[m]) =>
    <>[](session["lower"] # None /\ session["lower"] = session["higher"])

=============================================================================

----------------------------- MODULE InputPlane -----------------------------
(***************************************************************************)
(* One direction of one session: how the messages the router emits for a   *)
(* peer reach that peer's engine.                                          *)
(*                                                                         *)
(*   engine --enqueue--> outq --sender task--> control stream   --reader-->*)
(*                                             input stream     --reader-->*)
(*                                             datagrams        --reader-->*)
(*                                     evq --engine--> SequenceGate        *)
(*                                                                         *)
(* The sender's queue is bounded and never blocks the engine: absolute     *)
(* motion is shed when it is full, anything else condemns the session.     *)
(* The two streams are each FIFO, but three reader tasks share one event   *)
(* queue, so nothing orders one stream against the other.  Datagrams are   *)
(* lost, reordered, and dropped when the event queue is full.              *)
(***************************************************************************)
EXTENDS Naturals, Sequences

CONSTANTS
  QueueDepth,    \* OUTBOUND_QUEUE_DEPTH: the bounded queue of one peer
  EventDepth,    \* EVENT_QUEUE_DEPTH: the shared queue of the reader tasks
  StreamWindow,  \* flow-control window of one stream, in messages
  MaxSent        \* bound of the model: messages the router emits

ASSUME DepthsArePositive ==
  /\ QueueDepth \in Nat \ {0}
  /\ EventDepth \in Nat \ {0}
  /\ StreamWindow \in Nat \ {0}
  /\ MaxSent \in Nat

VARIABLES
  routed,      \* history: the kind of every message routed to this peer, in order
  outq,        \* PeerLink.out
  control,     \* bytes written to the control stream and not yet read
  input,       \* bytes written to the reliable input stream and not yet read
  datagrams,   \* datagrams in the network
  evq,         \* the reader tasks' shared event queue
  highest,     \* SequenceGate.highest_seen, 0 standing for None
  applied,     \* history: what the receiving engine acted on, in order
  condemned,   \* a Wake::PeerGone is queued: the peer stopped draining
  open         \* the session has not been torn down

vars == <<routed, outq, control, input, datagrams, evq, highest, applied,
          condemned, open>>

(* "motion" is MoveTo, the only best-effort event; "latch" is every other  *)
(* input event; "control" is a control-plane message.  One counter numbers *)
(* them all: the gate only compares the numbers of input frames, and those *)
(* are in the order of the router's per-peer counter.                      *)
Kinds == {"motion", "latch", "control"}

Message == [kind : Kinds, seq : Nat]

(* InputEvent::reliability, and Outbound::is_sheddable which asks it.      *)
Reliable(m) == m.kind # "motion"

IsInput(m) == m.kind # "control"

TypeOK ==
  /\ routed \in Seq(Kinds) /\ Len(routed) <= MaxSent
  /\ outq \in Seq(Message) /\ Len(outq) <= QueueDepth
  /\ control \in Seq(Message)
  /\ input \in Seq(Message)
  /\ datagrams \subseteq Message
  /\ evq \in Seq(Message) /\ Len(evq) <= EventDepth
  /\ highest \in Nat
  /\ applied \in Seq(Message)
  /\ condemned \in BOOLEAN
  /\ open \in BOOLEAN

Init ==
  /\ routed = <<>>
  /\ outq = <<>> /\ control = <<>> /\ input = <<>> /\ evq = <<>>
  /\ datagrams = {}
  /\ highest = 0
  /\ applied = <<>>
  /\ condemned = FALSE
  /\ open = TRUE

-----------------------------------------------------------------------------
(* The sending engine.                                                     *)

(* Mutants of Enqueue: a queue one message too deep; a full queue that     *)
(* sheds whatever comes.                                                   *)
EnqueueTooDeep(m) ==
  IF Len(outq) <= QueueDepth
    THEN outq' = Append(outq, m) /\ UNCHANGED condemned
    ELSE outq' = outq /\ condemned' = (condemned \/ Reliable(m))

EnqueueShedsAnything(m) ==
  /\ outq' = IF Len(outq) < QueueDepth THEN Append(outq, m) ELSE outq
  /\ UNCHANGED condemned

(* send_to and enqueue: try_send on the bounded queue.                     *)
Enqueue(m) ==
  IF Len(outq) < QueueDepth
    THEN outq' = Append(outq, m) /\ UNCHANGED condemned
    ELSE outq' = outq /\ condemned' = (condemned \/ Reliable(m))

Route(kind) ==
  /\ open
  /\ Len(routed) < MaxSent
  /\ routed' = Append(routed, kind)
  /\ Enqueue([kind |-> kind, seq |-> Len(routed) + 1])
  /\ UNCHANGED <<control, input, datagrams, evq, highest, applied, open>>

(* The Wake::PeerGone an overflow queued: the session is closed.           *)
GiveUp ==
  /\ open /\ condemned
  /\ open' = FALSE
  /\ UNCHANGED <<routed, outq, control, input, datagrams, evq, highest,
                 applied, condemned>>

-----------------------------------------------------------------------------
(* The sender task: one message at a time, blocked while the stream it     *)
(* needs has no window.  Motion that does not fit a datagram falls back to *)
(* the input stream.                                                       *)

TransmitControl ==
  /\ open /\ outq # <<>> /\ Head(outq).kind = "control"
  /\ Len(control) < StreamWindow
  /\ control' = Append(control, Head(outq))
  /\ outq' = Tail(outq)
  /\ UNCHANGED <<routed, input, datagrams, evq, highest, applied, condemned, open>>

TransmitReliably ==
  /\ open /\ outq # <<>> /\ IsInput(Head(outq))
  /\ Len(input) < StreamWindow
  /\ input' = Append(input, Head(outq))
  /\ outq' = Tail(outq)
  /\ UNCHANGED <<routed, control, datagrams, evq, highest, applied, condemned, open>>

TransmitDatagram ==
  /\ open /\ outq # <<>> /\ ~Reliable(Head(outq))
  /\ datagrams' = datagrams \union {Head(outq)}
  /\ outq' = Tail(outq)
  /\ UNCHANGED <<routed, control, input, evq, highest, applied, condemned, open>>

-----------------------------------------------------------------------------
(* The network and the reader tasks.                                       *)

LoseDatagram(d) ==
  /\ open
  /\ datagrams' = datagrams \ {d}
  /\ UNCHANGED <<routed, outq, control, input, evq, highest, applied, condemned, open>>

ReadControl ==
  /\ open /\ control # <<>> /\ Len(evq) < EventDepth
  /\ evq' = Append(evq, Head(control))
  /\ control' = Tail(control)
  /\ UNCHANGED <<routed, outq, input, datagrams, highest, applied, condemned, open>>

ReadReliableInput ==
  /\ open /\ input # <<>> /\ Len(evq) < EventDepth
  /\ evq' = Append(evq, Head(input))
  /\ input' = Tail(input)
  /\ UNCHANGED <<routed, outq, control, datagrams, highest, applied, condemned, open>>

(* read_datagrams never waits: a full queue discards the frame.            *)
ReadDatagram(d) ==
  /\ open
  /\ datagrams' = datagrams \ {d}
  /\ evq' = IF Len(evq) < EventDepth THEN Append(evq, d) ELSE evq
  /\ UNCHANGED <<routed, outq, control, input, highest, applied, condemned, open>>

-----------------------------------------------------------------------------
(* The receiving engine.                                                   *)

(* SequenceGate::accept: the high-water mark and the verdict.              *)
Superseded(m) == m.seq <= highest

(* Mutants: a gate a late frame rewinds; a gate that judges by age alone.  *)
GateMarkLatest(m) == m.seq

GateAcceptsFresh(m) == ~Superseded(m)

GateMark(m) == IF Superseded(m) THEN highest ELSE m.seq

GateAccepts(m) == ~Superseded(m) \/ Reliable(m)

Handle ==
  /\ open /\ evq # <<>>
  /\ evq' = Tail(evq)
  /\ LET m == Head(evq) IN
       IF IsInput(m)
         THEN /\ highest' = GateMark(m)
              /\ applied' = IF GateAccepts(m) THEN Append(applied, m) ELSE applied
         ELSE /\ highest' = highest
              /\ applied' = Append(applied, m)
  /\ UNCHANGED <<routed, outq, control, input, datagrams, condemned, open>>

-----------------------------------------------------------------------------

Transmit == TransmitControl \/ TransmitReliably \/ TransmitDatagram

Next ==
  \/ \E kind \in Kinds : Route(kind)
  \/ GiveUp
  \/ Transmit
  \/ \E d \in datagrams : LoseDatagram(d) \/ ReadDatagram(d)
  \/ ReadControl
  \/ ReadReliableInput
  \/ Handle

(* The tasks run whenever they can make progress.  Datagrams get no        *)
(* fairness: the network may lose every one of them.                       *)
Fairness ==
  /\ WF_vars(GiveUp)
  /\ WF_vars(Transmit)
  /\ WF_vars(ReadControl)
  /\ WF_vars(ReadReliableInput)
  /\ WF_vars(Handle)

Spec == Init /\ [][Next]_vars /\ Fairness

-----------------------------------------------------------------------------
(* Properties.                                                             *)

Numbers(s) == {s[i].seq : i \in DOMAIN s}

(* A stale absolute position never moves the pointer back, neither behind  *)
(* a newer position nor behind a click or key that was made after it,      *)
(* however datagrams and the stream interleave (SequenceGate::accept).     *)
MotionNeverRewinds ==
  \A i, j \in DOMAIN applied :
    i < j /\ IsInput(applied[i]) /\ applied[j].kind = "motion"
      => applied[i].seq < applied[j].seq

(* Within each stream nothing overtakes and nothing is applied twice: a    *)
(* release follows its press, a yield follows the takeover it ends, even   *)
(* though the gate lets late frames of both streams through.               *)
EachStreamKeepsItsOrder ==
  \A i, j \in DOMAIN applied :
    i < j /\ Reliable(applied[i]) /\ applied[i].kind = applied[j].kind
      => applied[i].seq < applied[j].seq

(* A message that latches state is never lost on a session that is not     *)
(* condemned: it is applied or still on its way, past the full queue, the  *)
(* shed motion and the gate that discards late frames (enqueue, accept).   *)
LatchesSurviveOverflow ==
  ~condemned =>
    \A n \in DOMAIN routed :
      routed[n] # "motion" =>
        n \in Numbers(outq) \union Numbers(control) \union Numbers(input)
             \union Numbers(evq) \union Numbers(applied)

(* Every latching message is eventually applied, or the session is torn    *)
(* down so that both ends release what they hold: a peer that stops        *)
(* draining cannot leave a message waiting for ever.                       *)
EveryLatchSettles ==
  \A n \in 1 .. MaxSent :
    (n \in DOMAIN routed /\ routed[n] # "motion")
      ~> (n \in Numbers(applied) \/ ~open)

=============================================================================

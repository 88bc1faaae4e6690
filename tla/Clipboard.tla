------------------------------ MODULE Clipboard ------------------------------
(***************************************************************************)
(* What is copied on one machine can be pasted on the other.               *)
(*                                                                         *)
(* Three actors on every machine: the OS clipboard, which users and the    *)
(* agent change; the worker thread, the only one to touch it, one job at a *)
(* time; and the engine loop, which decides, from what it has last seen of *)
(* the clipboard (ClipboardSync) and from what it knows to be with the     *)
(* worker (ClipboardTraffic).  Between two engines: offer, request, data   *)
(* or "stale".                                                             *)
(*                                                                         *)
(* The content of a clipboard is the number of the copy it came from.  The *)
(* bytes of one format of it are what a fingerprint tells apart.           *)
(***************************************************************************)
EXTENDS Naturals, Sequences, FiniteSets

CONSTANTS
  Machine,
  Format,        \* synchronised formats, the richest first: 1 is richer than 2
  Takes,         \* the formats each machine advertises
  Portal,        \* the machines whose clipboard is a Wayland portal's
  Shapes,        \* the sets of formats users copy things in
  QueueDepth,    \* CLIPBOARD_QUEUE_DEPTH
  JobDepth,      \* CLIPBOARD_JOB_DEPTH
  MaxCopies,     \* bound of the model: copies made by users
  MaxMishaps     \* bound of the model: writes refused, payloads
                 \* spoilt, workers and sessions lost

ASSUME ClipboardAssumption ==
  /\ IsFiniteSet(Machine) /\ Cardinality(Machine) = 2
  /\ Format \subseteq Nat \ {0}
  /\ Takes \in [Machine -> SUBSET Format]
  /\ Portal \subseteq Machine
  /\ Shapes \subseteq SUBSET Format
  /\ {QueueDepth, JobDepth} \subseteq Nat \ {0}
  /\ {MaxCopies, MaxMishaps} \subseteq Nat

VARIABLES
  selection,   \* what is on the clipboard: the copy, its formats, who put it there
  signals,     \* SelectionOwnerChanged on its way from the portal
  serial,      \* the backend's change serial
  offered,     \* ClipboardState.inner.offered
  ours,        \* ClipboardState.inner.ours
  staged,      \* ClipboardState.inner.staged
  jobs,        \* what waits for the worker
  work,        \* what the worker is in the middle of
  reports,     \* ClipboardDone on its way to the engine
  seen,        \* ClipboardSync.seen
  writeBack,   \* ClipboardSync.write_back
  asked,       \* ClipboardSync.asked
  polling, writes, lost,   \* ClipboardTraffic
  mail,        \* clipboard messages on their way
  joined,      \* Engine.sessions has the other machine
  linked,      \* the connection is up
  copies, mishaps,
  unanswered,  \* history: an answer found the queue full, in this session
  borrowed,    \* history: serials under which a peer's content was on the clipboard
  copiedAt,    \* history: the serial of the user's latest copy
  disturbed    \* history: a write was refused, or made before the portal had told all

boardVars == <<selection, signals, serial, offered, ours, staged, borrowed, copiedAt, disturbed>>
workerVars == <<jobs, work>>
syncVars == <<seen, writeBack, asked, polling, writes, lost>>
linkVars == <<mail, joined, linked, unanswered>>
clipboardVars == <<boardVars, workerVars, reports, syncVars, linkVars, copies, mishaps>>

Nothing == [kind |-> "nothing"]

Richest(formats) == CHOOSE f \in formats : \A g \in formats : f <= g

Peer(n) == CHOOSE m \in Machine : m # n

MayFail == mishaps < MaxMishaps /\ mishaps' = mishaps + 1

ClipboardInit ==
  /\ selection = [n \in Machine |-> [copy |-> 0, formats |-> Format, agent |-> FALSE]]
  /\ signals = [n \in Machine |-> <<>>]
  /\ serial = [n \in Machine |-> 0]
  /\ offered = [n \in Machine |-> Format]
  /\ ours = [n \in Machine |-> FALSE]
  /\ staged = [n \in Machine |-> Nothing]
  /\ jobs = [n \in Machine |-> <<>>]
  /\ work = [n \in Machine |-> Nothing]
  /\ reports = [n \in Machine |-> <<>>]
  /\ seen = [n \in Machine |-> Nothing]
  /\ writeBack = [n \in Machine |-> Nothing]
  /\ asked = [n \in Machine |-> Nothing]
  /\ polling = [n \in Machine |-> FALSE]
  /\ writes = [n \in Machine |-> 0]
  /\ lost = [n \in Machine |-> FALSE]
  /\ mail = [n \in Machine |-> <<>>]
  /\ joined = [n \in Machine |-> TRUE]
  /\ linked = TRUE
  /\ copies = 0
  /\ mishaps = 0
  /\ unanswered = [n \in Machine |-> FALSE]
  /\ borrowed = [n \in Machine |-> {}]
  /\ copiedAt = [n \in Machine |-> 0]
  /\ disturbed = [n \in Machine |-> FALSE]

-----------------------------------------------------------------------------
(* The OS clipboard and its backend.                                       *)

(* The serial moves to a number of which it is known whose content it is.  *)
Bump(n, borrows) ==
  /\ serial' = [serial EXCEPT ![n] = @ + 1]
  /\ borrowed' = IF borrows THEN [borrowed EXCEPT ![n] = @ \union {serial[n] + 1}] ELSE borrowed

(* A user copies something, perhaps in formats that are not synchronised.  *)
(* Windows counts it at once, a portal signals it.                         *)
UserCopies(n) ==
  /\ copies < MaxCopies
  /\ copies' = copies + 1
  /\ \E formats \in Shapes :
       /\ selection' = [selection EXCEPT ![n] = [copy |-> copies', formats |-> formats, agent |-> FALSE]]
       /\ IF n \in Portal
          THEN /\ signals' = [signals EXCEPT ![n] = Append(@, [formats |-> formats, ours |-> FALSE])]
               /\ UNCHANGED <<serial, offered, borrowed, copiedAt>>
          ELSE /\ offered' = [offered EXCEPT ![n] = formats]
               /\ Bump(n, FALSE)
               /\ copiedAt' = [copiedAt EXCEPT ![n] = serial'[n]]
               /\ UNCHANGED signals
  /\ UNCHANGED <<ours, staged, disturbed, workerVars, reports, syncVars, linkVars, mishaps>>

(* ClipboardState::selection_changed                                       *)
SelectionChanged(n) ==
  /\ signals[n] # <<>>
  /\ LET signal == Head(signals[n])
     IN /\ signals' = [signals EXCEPT ![n] = Tail(@)]
        /\ ours' = [ours EXCEPT ![n] = signal.ours]
        /\ staged' = IF signal.ours THEN staged ELSE [staged EXCEPT ![n] = Nothing]
        /\ offered' = [offered EXCEPT ![n] = signal.formats]
        /\ Bump(n, signal.ours)
        /\ copiedAt' = IF signal.ours THEN copiedAt ELSE [copiedAt EXCEPT ![n] = serial'[n]]
  /\ UNCHANGED <<selection, disturbed, workerVars, reports, syncVars, linkVars, copies, mishaps>>

Bytes(copy, format) == [kind |-> "bytes", copy |-> copy, format |-> format]

(* ClipboardState::read: what this session has put on the clipboard it can *)
(* only answer for itself.                                                 *)
ReadBytes(n, format) ==
  IF n \in Portal /\ format \in offered[n] /\ ours[n] /\ staged[n] # Nothing /\ staged[n].format = format
  THEN staged[n]
  ELSE IF format \in selection[n].formats /\ (n \in Portal => format \in offered[n] /\ ~selection[n].agent)
  THEN Bytes(selection[n].copy, format)
  ELSE Nothing

(* ClipboardState::write, once the portal has taken the offer.             *)
PutOnClipboard(n, bytes) ==
  /\ selection' = [selection EXCEPT ![n] =
       [copy |-> bytes.copy, formats |-> {bytes.format}, agent |-> TRUE]]
  /\ offered' = [offered EXCEPT ![n] = {bytes.format}]
  /\ Bump(n, TRUE)
  /\ IF n \in Portal
     THEN /\ signals' = [signals EXCEPT ![n] = Append(@, [formats |-> {bytes.format}, ours |-> TRUE])]
          /\ ours' = [ours EXCEPT ![n] = TRUE]
          /\ staged' = [staged EXCEPT ![n] = bytes]
     ELSE UNCHANGED <<signals, ours, staged>>
  /\ UNCHANGED copiedAt

-----------------------------------------------------------------------------
(* The worker thread.                                                      *)

Report(n, done) == reports' = [reports EXCEPT ![n] = Append(@, done)]

(* The next job, once the one before is done.                              *)
Starts(n, kind) ==
  /\ work[n] = Nothing
  /\ jobs[n] # <<>>
  /\ Head(jobs[n]).kind = kind
  /\ jobs' = [jobs EXCEPT ![n] = Tail(@)]

(* sample_clipboard: first the serial ...                                  *)
SampleSerial(n) ==
  /\ Starts(n, "poll")
  /\ LET job == Head(jobs[n])
     IN IF serial[n] \in job.seen
        THEN /\ Report(n, [kind |-> "nothing_new", armed |-> job.armed])
             /\ UNCHANGED work
        ELSE /\ work' = [work EXCEPT ![n] = [kind |-> "sampled", serial |-> serial[n], armed |-> job.armed]]
             /\ UNCHANGED reports
  /\ UNCHANGED <<boardVars, syncVars, linkVars, copies, mishaps>>

(* ... then the formats, and the bytes if the guard asks for them.         *)
SampleFormats(n) ==
  /\ work[n].kind = "sampled"
  /\ LET armed == work[n].armed
         asks == armed # Nothing /\ armed.serial # work[n].serial /\ armed.format \in offered[n]
     IN Report(n, [kind |-> "polled", serial |-> work[n].serial, formats |-> offered[n], armed |-> armed,
                   digest |-> IF asks THEN ReadBytes(n, armed.format) ELSE Nothing])
  /\ work' = [work EXCEPT ![n] = Nothing]
  /\ UNCHANGED <<boardVars, jobs, syncVars, linkVars, copies, mishaps>>

(* serve_clipboard                                                         *)
ReadForPeer(n) ==
  /\ Starts(n, "serve")
  /\ LET job == Head(jobs[n])
     IN Report(n, [kind |-> "served", format |-> job.format, serial |-> job.serial,
                   bytes |-> ReadBytes(n, job.format)])
  /\ UNCHANGED <<boardVars, work, syncVars, linkVars, copies, mishaps>>

(* accept_clipboard: a payload that cannot be unpacked is discarded;       *)
(* otherwise the guard is announced, ...                                   *)
Unpack(n) ==
  /\ Starts(n, "accept")
  /\ \/ /\ Report(n, [kind |-> "writing", bytes |-> Head(jobs[n]).bytes])
        /\ work' = [work EXCEPT ![n] = [kind |-> "writing", bytes |-> Head(jobs[n]).bytes]]
        /\ UNCHANGED mishaps
     \/ /\ MayFail
        /\ Report(n, [kind |-> "discarded"])
        /\ UNCHANGED work
  /\ UNCHANGED <<boardVars, syncVars, linkVars, copies>>

(* ... the bytes are written, ...                                          *)
Write(n) ==
  /\ work[n].kind = "writing"
  /\ PutOnClipboard(n, work[n].bytes)
  /\ disturbed' = [disturbed EXCEPT ![n] = @ \/ signals[n] # <<>>]
  /\ work' = [work EXCEPT ![n] = [kind |-> "written"]]
  /\ UNCHANGED <<jobs, reports, syncVars, linkVars, copies, mishaps>>

WriteRefused(n) ==
  /\ work[n].kind = "writing"
  /\ MayFail
  /\ Report(n, [kind |-> "not_written"])
  /\ work' = [work EXCEPT ![n] = Nothing]
  /\ disturbed' = [disturbed EXCEPT ![n] = TRUE]
  /\ UNCHANGED <<selection, signals, serial, offered, ours, staged, borrowed, copiedAt,
                 jobs, syncVars, linkVars, copies>>

(* ... and the serial is looked up that this has made.                     *)
ReadSerial(n) ==
  /\ work[n].kind = "written"
  /\ Report(n, [kind |-> "wrote", serial |-> serial[n]])
  /\ work' = [work EXCEPT ![n] = Nothing]
  /\ UNCHANGED <<boardVars, jobs, syncVars, linkVars, copies, mishaps>>

(* A backend panics: what is queued is gone, and only WorkerObituary says  *)
(* so.                                                                     *)
WorkerDies(n) ==
  /\ work[n].kind # "dead"
  /\ MayFail
  /\ work' = [work EXCEPT ![n] = [kind |-> "dead"]]
  /\ jobs' = [jobs EXCEPT ![n] = <<>>]
  /\ Report(n, [kind |-> "worker_gone"])
  /\ UNCHANGED <<boardVars, syncVars, linkVars, copies>>

-----------------------------------------------------------------------------
(* The engine loop.                                                        *)

SeenSerials(n) == IF seen[n] = Nothing THEN {} ELSE {seen[n].serial}

Armed(n) ==
  IF writeBack[n] = Nothing THEN Nothing
  ELSE [kind |-> "armed", serial |-> writeBack[n].serial, format |-> writeBack[n].bytes.format]

(* dispatch_clipboard: a job is with the worker, or it never left.         *)
Dispatches(n, job) == work[n].kind # "dead" /\ Len(jobs[n]) < JobDepth /\ jobs' = [jobs EXCEPT ![n] = Append(@, job)]

CannotDispatch(n) ==
  /\ work[n].kind = "dead" \/ Len(jobs[n]) >= JobDepth
  /\ UNCHANGED jobs

(* What dispatch_clipboard does to ClipboardTraffic when it fails.         *)
GivesUpWorker(n) ==
  IF work[n].kind = "dead"
  THEN /\ polling' = [polling EXCEPT ![n] = FALSE]
       /\ writes' = [writes EXCEPT ![n] = 0]
       /\ lost' = [lost EXCEPT ![n] = TRUE]
  ELSE UNCHANGED <<polling, writes, lost>>

(* Mutant: a poll does not wait for writes.                                *)
MayPollAnyway(n) == ~lost[n] /\ ~polling[n]

MayPoll(n) == ~lost[n] /\ ~polling[n] /\ writes[n] = 0

(* poll_clipboard                                                          *)
PollClipboard(n) ==
  /\ joined[n]
  /\ MayPoll(n)
  /\ \/ /\ Dispatches(n, [kind |-> "poll", seen |-> SeenSerials(n), armed |-> Armed(n)])
        /\ polling' = [polling EXCEPT ![n] = TRUE]
        /\ UNCHANGED <<writes, lost>>
     \/ CannotDispatch(n) /\ GivesUpWorker(n)
  /\ UNCHANGED <<boardVars, work, reports, seen, writeBack, asked, linkVars, copies, mishaps>>

Shared(n) == joined[n]

(* send_clipboard_to: a full queue drops the message, not the session.     *)
Room(q) == Len(q) < QueueDepth
Posted(n, q, msg) == IF joined[n] /\ linked /\ Room(q) THEN Append(q, msg) ELSE q

(* The mail once n has sent a message.                                     *)
AfterSending(n, box, msg) == [box EXCEPT ![n] = Posted(n, @, msg)]

(* What is dropped when it is an answer is missed: see RequestsAreUnderWay. *)
Answers(n, box, msg) ==
  /\ mail' = AfterSending(n, box, msg)
  /\ unanswered' = [unanswered EXCEPT ![n] = @ \/ ~Room(box[n])]

Takeable(n, formats) == formats \intersect Takes[n] \intersect Takes[Peer(n)]

(* Mutant: the serial alone tells this machine's write.                    *)
IsEchoBySerial(n, done) ==
  /\ writeBack[n] # Nothing
  /\ done.serial = writeBack[n].serial

(* ClipboardSync::observe, for a change of the serial, and offer_clipboard *)
IsEcho(n, done) ==
  /\ writeBack[n] # Nothing
  /\ \/ done.serial = writeBack[n].serial
     \/ writeBack[n].bytes.format \in done.formats /\ done.digest = writeBack[n].bytes

OnPolled(n, done) ==
  LET first == seen[n] = Nothing
      offer == [kind |-> "offer", formats |-> Takeable(n, done.formats), serial |-> done.serial]
  IN /\ polling' = [polling EXCEPT ![n] = FALSE]
     /\ UNCHANGED <<writes, lost, asked, unanswered>>
     /\ IF done.serial \in SeenSerials(n)
        THEN UNCHANGED <<seen, writeBack, mail>>
        ELSE /\ seen' = [seen EXCEPT ![n] = [kind |-> "seen", serial |-> done.serial, formats |-> done.formats]]
             /\ IF first \/ IsEcho(n, done)
                THEN UNCHANGED <<writeBack, mail>>
                ELSE /\ writeBack' = [writeBack EXCEPT ![n] = Nothing]
                     /\ mail' = IF Shared(n) /\ offer.formats # {} THEN AfterSending(n, mail, offer) ELSE mail

(* on_clipboard_served                                                     *)
OnServed(n, done) ==
  /\ Answers(n, mail,
       IF done.serial \in SeenSerials(n) /\ Shared(n) /\ done.bytes # Nothing
       THEN [kind |-> "data", format |-> done.format, serial |-> done.serial, bytes |-> done.bytes]
       ELSE [kind |-> "stale", serial |-> done.serial])
  /\ UNCHANGED <<seen, writeBack, asked, polling, writes, lost>>

(* Mutant: the count of writes is taken down below zero.                   *)
SettlesWriteUnchecked(n) ==
  /\ writes' = [writes EXCEPT ![n] = @ - 1]
  /\ UNCHANGED <<seen, asked, polling, lost, mail, unanswered>>

SettlesWrite(n) ==
  /\ writes' = [writes EXCEPT ![n] = IF @ > 0 THEN @ - 1 ELSE 0]
  /\ UNCHANGED <<seen, asked, polling, lost, mail, unanswered>>

(* ClipboardSync::writing                                                  *)
OnWriting(n, done) ==
  /\ writeBack' = [writeBack EXCEPT ![n] =
       [kind |-> "guard", serial |-> IF seen[n] = Nothing THEN 0 ELSE seen[n].serial, bytes |-> done.bytes]]
  /\ UNCHANGED <<seen, asked, polling, writes, lost, mail, unanswered>>

(* ClipboardSync::wrote                                                    *)
OnWrote(n, done) ==
  /\ writeBack' = IF writeBack[n] = Nothing THEN writeBack
                  ELSE [writeBack EXCEPT ![n].serial = done.serial]
  /\ SettlesWrite(n)

(* A payload was discarded: no guard is standing for it.                   *)
OnDiscarded(n) == UNCHANGED writeBack /\ SettlesWrite(n)

(* ClipboardSync::write_failed                                             *)
OnNotWritten(n) ==
  /\ writeBack' = [writeBack EXCEPT ![n] = Nothing]
  /\ SettlesWrite(n)

(* Mutant: what was outstanding stays so.                                  *)
OnWorkerGoneLatched(n) ==
  /\ lost' = [lost EXCEPT ![n] = TRUE]
  /\ UNCHANGED <<seen, writeBack, asked, polling, writes, mail, unanswered>>

OnWorkerGone(n) ==
  /\ polling' = [polling EXCEPT ![n] = FALSE]
  /\ writes' = [writes EXCEPT ![n] = 0]
  /\ lost' = [lost EXCEPT ![n] = TRUE]
  /\ UNCHANGED <<seen, writeBack, asked, mail, unanswered>>

(* Mutant: a poll that found nothing is not settled.                       *)
OnNothingNewKept(n) == UNCHANGED <<seen, writeBack, asked, polling, writes, lost, mail, unanswered>>

OnNothingNew(n) ==
  /\ polling' = [polling EXCEPT ![n] = FALSE]
  /\ UNCHANGED <<seen, writeBack, asked, writes, lost, mail, unanswered>>

(* on_clipboard_done and settle_clipboard_report                           *)
OnClipboardDone(n) ==
  /\ reports[n] # <<>>
  /\ reports' = [reports EXCEPT ![n] = Tail(@)]
  /\ LET done == Head(reports[n])
     IN \/ done.kind = "nothing_new" /\ OnNothingNew(n)
        \/ done.kind = "polled" /\ OnPolled(n, done)
        \/ done.kind = "served" /\ OnServed(n, done)
        \/ done.kind = "writing" /\ OnWriting(n, done)
        \/ done.kind = "wrote" /\ OnWrote(n, done)
        \/ done.kind = "not_written" /\ OnNotWritten(n)
        \/ done.kind = "discarded" /\ OnDiscarded(n)
        \/ done.kind = "worker_gone" /\ OnWorkerGone(n)
  /\ UNCHANGED <<boardVars, workerVars, joined, linked, copies, mishaps>>

-----------------------------------------------------------------------------
(* Messages of the other machine.                                          *)

Receives(n, kind) == mail[Peer(n)] # <<>> /\ Head(mail[Peer(n)]).kind = kind
Message(n) == Head(mail[Peer(n)])
Received(n) == [mail EXCEPT ![Peer(n)] = Tail(@)]

(* on_clipboard_offer: what can be used is asked for at once, once.        *)
OnOffer(n) ==
  /\ Receives(n, "offer")
  /\ LET formats == Takeable(n, Message(n).formats)
         wish == [kind |-> "asked", serial |-> Message(n).serial, format |-> Richest(formats)]
         request == [kind |-> "request", serial |-> wish.serial, format |-> wish.format]
     IN IF Shared(n) /\ formats # {} /\ asked[n] # wish
        THEN /\ mail' = AfterSending(n, Received(n), request)
             /\ asked' = [asked EXCEPT ![n] = IF joined[n] /\ Room(mail[n]) THEN wish ELSE Nothing]
        ELSE /\ mail' = Received(n)
             /\ UNCHANGED asked
  /\ UNCHANGED <<boardVars, workerVars, reports, seen, writeBack, polling, writes, lost,
                 joined, linked, unanswered, copies, mishaps>>

(* on_clipboard_request: what is not served is refused.                    *)
OnRequest(n) ==
  /\ Receives(n, "request")
  /\ LET msg == Message(n)
         serves == Shared(n) /\ msg.format \in Takes[Peer(n)] /\ seen[n] # Nothing
                     /\ msg.serial = seen[n].serial /\ msg.format \in seen[n].formats
         refuses == Answers(n, Received(n), [kind |-> "stale", serial |-> msg.serial])
     IN \/ /\ serves
           /\ Dispatches(n, [kind |-> "serve", serial |-> msg.serial, format |-> msg.format])
           /\ mail' = Received(n)
           /\ UNCHANGED <<polling, writes, lost, unanswered>>
        \/ /\ serves
           /\ CannotDispatch(n) /\ GivesUpWorker(n)
           /\ refuses
        \/ /\ ~serves
           /\ refuses
           /\ UNCHANGED <<jobs, polling, writes, lost>>
  /\ UNCHANGED <<boardVars, work, reports, seen, writeBack, asked, joined, linked, copies, mishaps>>

(* on_clipboard_data: only what was asked for.                             *)
OnData(n) ==
  /\ Receives(n, "data")
  /\ mail' = Received(n)
  /\ LET msg == Message(n)
         answers == asked[n] = [kind |-> "asked", serial |-> msg.serial, format |-> msg.format]
     IN /\ asked' = IF answers THEN [asked EXCEPT ![n] = Nothing] ELSE asked
        /\ \/ /\ answers /\ Shared(n) /\ msg.format \in Takes[n]
              /\ \/ /\ Dispatches(n, [kind |-> "accept", bytes |-> msg.bytes])
                    /\ writes' = [writes EXCEPT ![n] = @ + 1]
                    /\ UNCHANGED <<polling, lost>>
                 \/ CannotDispatch(n) /\ GivesUpWorker(n)
           \/ /\ ~(answers /\ Shared(n) /\ msg.format \in Takes[n])
              /\ UNCHANGED <<jobs, polling, writes, lost>>
  /\ UNCHANGED <<boardVars, work, reports, seen, writeBack, joined, linked, unanswered, copies, mishaps>>

(* ControlMsg::ClipboardStale: whatever was asked for is not waited for    *)
(* any more.                                                               *)
OnStale(n) ==
  /\ Receives(n, "stale")
  /\ mail' = Received(n)
  /\ asked' = [asked EXCEPT ![n] = Nothing]
  /\ UNCHANGED <<boardVars, workerVars, reports, seen, writeBack, polling, writes, lost,
                 joined, linked, unanswered, copies, mishaps>>

-----------------------------------------------------------------------------
(* Sessions.                                                               *)

(* The connection is lost.  What the readers have queued still arrives.    *)
Disconnect ==
  /\ linked
  /\ MayFail
  /\ linked' = FALSE
  /\ \E n \in Machine : \E i \in 0 .. Len(mail[n]), j \in 0 .. Len(mail[Peer(n)]) :
       mail' = [mail EXCEPT ![n] = SubSeq(@, 1, i), ![Peer(n)] = SubSeq(@, 1, j)]
  /\ UNCHANGED <<boardVars, workerVars, reports, syncVars, joined, unanswered, copies>>

(* Mutant: the request outstanding outlives the session.                   *)
PeerGoneUnsettled(n) ==
  /\ ~linked
  /\ joined[n]
  /\ joined' = [joined EXCEPT ![n] = FALSE]
  /\ UNCHANGED <<boardVars, workerVars, reports, syncVars, mail, linked, unanswered, copies, mishaps>>

(* on_peer_gone                                                            *)
PeerGone(n) ==
  /\ ~linked
  /\ joined[n]
  /\ joined' = [joined EXCEPT ![n] = FALSE]
  /\ asked' = [asked EXCEPT ![n] = Nothing]
  /\ UNCHANGED <<boardVars, workerVars, reports, seen, writeBack, polling, writes, lost,
                 mail, linked, unanswered, copies, mishaps>>

(* on_session at both ends, once the end of the session before and what it *)
(* has brought are dealt with.                                             *)
Connect ==
  /\ ~linked
  /\ \A n \in Machine : ~joined[n] /\ mail[n] = <<>>
  /\ linked' = TRUE
  /\ joined' = [n \in Machine |-> TRUE]
  /\ unanswered' = [n \in Machine |-> FALSE]
  /\ UNCHANGED <<boardVars, workerVars, reports, syncVars, mail, copies, mishaps>>

(* The agent is restarted: its serials begin at zero again, and what it    *)
(* had put on the clipboard is nobody's any more.                          *)
Restart(n) ==
  /\ MayFail
  /\ serial' = [serial EXCEPT ![n] = 0]
  /\ signals' = [signals EXCEPT ![n] = <<>>]
  /\ selection' = [selection EXCEPT ![n].agent = FALSE]
  /\ offered' = [offered EXCEPT ![n] = selection[n].formats]
  /\ ours' = [ours EXCEPT ![n] = FALSE]
  /\ staged' = [staged EXCEPT ![n] = Nothing]
  /\ borrowed' = [borrowed EXCEPT ![n] = {}]
  /\ copiedAt' = [copiedAt EXCEPT ![n] = 0]
  /\ disturbed' = [disturbed EXCEPT ![n] = FALSE]
  /\ jobs' = [jobs EXCEPT ![n] = <<>>]
  /\ work' = [work EXCEPT ![n] = Nothing]
  /\ reports' = [reports EXCEPT ![n] = <<>>]
  /\ seen' = [seen EXCEPT ![n] = Nothing]
  /\ writeBack' = [writeBack EXCEPT ![n] = Nothing]
  /\ asked' = [asked EXCEPT ![n] = Nothing]
  /\ polling' = [polling EXCEPT ![n] = FALSE]
  /\ writes' = [writes EXCEPT ![n] = 0]
  /\ lost' = [lost EXCEPT ![n] = FALSE]
  /\ linked' = FALSE
  /\ joined' = [joined EXCEPT ![n] = FALSE]
  /\ \E i \in 0 .. Len(mail[n]) : mail' = [mail EXCEPT ![n] = SubSeq(@, 1, i), ![Peer(n)] = <<>>]
  /\ UNCHANGED <<copies, unanswered>>

ClipboardNext ==
  \/ Disconnect
  \/ Connect
  \/ \E n \in Machine :
       \/ UserCopies(n)
       \/ SelectionChanged(n)
       \/ SampleSerial(n)
       \/ SampleFormats(n)
       \/ ReadForPeer(n)
       \/ Unpack(n)
       \/ Write(n)
       \/ WriteRefused(n)
       \/ ReadSerial(n)
       \/ WorkerDies(n)
       \/ PollClipboard(n)
       \/ OnClipboardDone(n)
       \/ OnOffer(n)
       \/ OnRequest(n)
       \/ OnData(n)
       \/ OnStale(n)
       \/ PeerGone(n)
       \/ Restart(n)

ClipboardSpec == ClipboardInit /\ [][ClipboardNext]_clipboardVars

(* The worker thread and the engine loop do what is queued for them, the   *)
(* portal tells what it has to tell, and the poll ticker goes on.          *)
ClipboardFairness ==
  \A n \in Machine :
    /\ WF_clipboardVars(SelectionChanged(n))
    /\ WF_clipboardVars(SampleSerial(n) \/ SampleFormats(n) \/ ReadForPeer(n) \/ Unpack(n) \/ Write(n) \/ ReadSerial(n))
    /\ WF_clipboardVars(OnClipboardDone(n))
    /\ WF_clipboardVars(OnOffer(n) \/ OnRequest(n) \/ OnData(n) \/ OnStale(n))
    /\ WF_clipboardVars(PollClipboard(n))

ClipboardFairSpec == ClipboardSpec /\ ClipboardFairness
-----------------------------------------------------------------------------
(* Properties.                                                             *)

BytesOf == [kind : {"bytes"}, copy : 0 .. MaxCopies, format : Format] \union {Nothing}

ClipboardTypeOK ==
  /\ selection \in [Machine -> [copy : 0 .. MaxCopies, formats : SUBSET Format, agent : BOOLEAN]]
  /\ \A n \in Machine : \A i \in DOMAIN signals[n] :
       signals[n][i] \in [formats : SUBSET Format, ours : BOOLEAN]
  /\ serial \in [Machine -> Nat]
  /\ offered \in [Machine -> SUBSET Format]
  /\ ours \in [Machine -> BOOLEAN]
  /\ staged \in [Machine -> BytesOf]
  /\ \A n \in Machine : Len(jobs[n]) <= JobDepth /\ Len(mail[n]) <= QueueDepth
  /\ \A n \in Machine : writeBack[n] # Nothing => writeBack[n].bytes \in BytesOf
  /\ polling \in [Machine -> BOOLEAN]
  /\ writes \in [Machine -> Nat]
  /\ lost \in [Machine -> BOOLEAN]
  /\ joined \in [Machine -> BOOLEAN]
  /\ linked \in BOOLEAN
  /\ borrowed \in [Machine -> SUBSET Nat]
  /\ copiedAt \in [Machine -> Nat]
  /\ disturbed \in [Machine -> BOOLEAN]

Kinds(q, kinds) == {i \in DOMAIN q : q[i].kind \in kinds}

(* What a peer sent is never offered back to it, however often and late    *)
(* the backend moves the serial for it: if an offer names a serial under   *)
(* which a peer's content was on the clipboard, the user has copied        *)
(* something since (a copy that fell between the two halves of a sample).  *)
(* This is what ClipboardSync's guard is for.  It does not hold once a     *)
(* write has been refused, or made before the portal had told of the       *)
(* change before it.                                                       *)
NoEcho ==
  \A n \in Machine : \A i \in Kinds(mail[n], {"offer"}) :
    mail[n][i].serial \in borrowed[n] /\ ~disturbed[n] => copiedAt[n] > mail[n][i].serial

(* The rule of ClipboardTraffic: the guard a poll carries to the worker is *)
(* still the engine's own when its report is handled, whatever writes were *)
(* dispatched, announced and finished meanwhile.                           *)
PollsAreCurrent ==
  \A n \in Machine :
    /\ \A i \in Kinds(jobs[n], {"poll"}) : jobs[n][i].armed = Armed(n)
    /\ work[n].kind = "sampled" => work[n].armed = Armed(n)
    /\ \A i \in Kinds(reports[n], {"nothing_new", "polled"}) : reports[n][i].armed = Armed(n)

PollsWithWorker(n) ==
  Cardinality(Kinds(jobs[n], {"poll"})) + Cardinality(Kinds(reports[n], {"nothing_new", "polled"}))
    + IF work[n].kind = "sampled" THEN 1 ELSE 0

WritesWithWorker(n) ==
  Cardinality(Kinds(jobs[n], {"accept"})) + Cardinality(Kinds(reports[n], {"wrote", "not_written", "discarded"}))
    + IF work[n].kind \in {"writing", "written"} THEN 1 ELSE 0

(* ClipboardTraffic counts what is really outstanding, or the obituary of  *)
(* the worker is on its way, or it has been taken for lost and nothing is  *)
(* waited for: local copies never stop being offered for a job that will   *)
(* not be reported.                                                        *)
JobsAreAccountedFor ==
  \A n \in Machine :
    \/ /\ work[n].kind # "dead"
       /\ PollsWithWorker(n) = IF polling[n] THEN 1 ELSE 0
       /\ WritesWithWorker(n) = writes[n]
    \/ Kinds(reports[n], {"worker_gone"}) # {}
    \/ lost[n] /\ ~polling[n] /\ writes[n] = 0

(* A request that is remembered is one that will be answered: it, or its   *)
(* answer, is on its way or with the other machine's worker.  Otherwise the*)
(* next offer of the same serial, which starts at zero after a restart, is *)
(* taken for a repetition and never asked about (on_peer_gone).  A worker  *)
(* that dies takes the requests it had with it, and an answer that finds   *)
(* the queue full is dropped like anything else.                           *)
RequestsAreUnderWay ==
  \A n \in Machine :
    LET m == Peer(n)
        Names(e) == e.serial = asked[n].serial /\ e.format = asked[n].format
    IN asked[n] # Nothing /\ linked /\ joined[n] /\ joined[m] /\ work[m].kind # "dead" /\ ~unanswered[m] =>
         \/ \E i \in Kinds(mail[n], {"request"}) : Names(mail[n][i])
         \/ \E i \in Kinds(jobs[m], {"serve"}) : Names(jobs[m][i])
         \/ \E i \in Kinds(reports[m], {"served"}) : Names(reports[m][i])
         \/ \E i \in Kinds(mail[m], {"data"}) : Names(mail[m][i])
         \/ \E i \in Kinds(mail[m], {"stale"}) : mail[m][i].serial = asked[n].serial

(* What the engine remembers of its worker, its peer and its own writes is *)
(* what they are really doing.                                             *)
TrafficIsTrue == PollsAreCurrent /\ JobsAreAccountedFor /\ RequestsAreUnderWay

(* What a user copies once the engine has had its first look at the        *)
(* clipboard is on the other machine's clipboard in the end, if nothing    *)
(* fails and nobody copies anything else.                                  *)
LoneCopyArrives ==
  \A n \in Machine :
    [](mishaps = 0 /\ copies <= 1) =>
      ((/\ selection[n].copy = 1 /\ ~selection[n].agent
        /\ Takeable(n, selection[n].formats) # {}
        /\ seen[n] # Nothing /\ seen[n].serial = 0)
        ~> selection[Peer(n)].copy = 1)

==============================================================================

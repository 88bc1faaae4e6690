------------------------------- MODULE Pairing -------------------------------
(***************************************************************************)
(* How two machines that are strangers come to trust each other.           *)
(*                                                                         *)
(* The machine whose user presses Pair shows a code and dials; the code    *)
(* waits for that dial's session (OfferedPins), which then opens the       *)
(* exchange (PendingPairing).  The user of the other machine types the     *)
(* code there, each machine proves to the other that it holds it, and each *)
(* records the other in its trust store.  Either user may start over, give *)
(* up, forget or block the other at any time, connections break, and what  *)
(* an old connection delivered is handled after a new one has replaced it. *)
(*                                                                         *)
(* A connection has the number of the dial that made it.  A proof is the   *)
(* code hashed with the nonces of the connection it was made for.          *)
(* PairRequest and PairResult{accepted} only tell users something and are  *)
(* left out.                                                               *)
(***************************************************************************)
EXTENDS Naturals, Sequences, FiniteSets

CONSTANTS
  Machine,
  Code,         \* PINs; two exchanges may draw the same one
  MaxDials,     \* bound of the model: dials
  MaxEntries,   \* bound of the model: codes typed
  MaxMishaps,   \* bound of the model: connections broken, machines restarted or forgotten
  MaxEvents     \* bound of the model: codes typed and mishaps together

ASSUME PairingAssumption ==
  /\ IsFiniteSet(Machine) /\ Cardinality(Machine) = 2
  /\ 0 \notin Code
  /\ {MaxDials, MaxEntries, MaxMishaps, MaxEvents} \subseteq Nat

VARIABLES
  trust,       \* the trust store: what each machine holds the other for
  admits,      \* the copy of it the accept loop waits with
  status,      \* PeerState.status
  session,     \* Engine.sessions: the connection in use, 0 for none
  pending,     \* Engine.pending
  offered,     \* OfferedPins: pins and awaiting_dial, always filled and emptied together
  dialing,     \* Engine.dialing
  dial,        \* dials and the connections they became
  news,        \* what each connection's pump has for the engine
  ended,       \* the pumps that have reported the end
  held,        \* history: the codes each machine has held on each connection
  forgotten,   \* history: a machine has been forgotten or blocked
  entries, mishaps

pairingVars == <<trust, admits, status, session, pending, offered, dialing, dial,
                 news, ended, held, entries, forgotten, mishaps>>

Dial == 1 .. MaxDials
NoCode == 0
NoPairing == [conn |-> 0]
Unused == [stage |-> "unused"]
Other(m) == CHOOSE o \in Machine : o # m

Room == entries + mishaps < MaxEvents
MayEnter == entries < MaxEntries /\ Room
MayFail == mishaps < MaxMishaps /\ Room

PairingInit ==
  /\ trust = [m \in Machine |-> "stranger"]
  /\ admits = trust
  /\ status = [m \in Machine |-> "offline"]
  /\ session = [m \in Machine |-> 0]
  /\ pending = [m \in Machine |-> NoPairing]
  /\ offered = [m \in Machine |-> NoCode]
  /\ dialing = [m \in Machine |-> 0]
  /\ dial = [n \in Dial |-> Unused]
  /\ news = [m \in Machine |-> [n \in Dial |-> <<>>]]
  /\ ended = [n \in Dial |-> {}]
  /\ held = [n \in Dial |-> [m \in Machine |-> {}]]
  /\ forgotten = FALSE /\ entries = 0 /\ mishaps = 0

-----------------------------------------------------------------------------
(* Connections.                                                            *)

IsUp(n) == n # 0 /\ dial[n].stage = "up"
InPairing(m) == pending[m] # NoPairing
Reachable(m) == status[m] = "connected" /\ trust[m] = "paired"

(* Session::close: the other end finds the connection gone. *)
Closed(n) == IF IsUp(n) THEN [dial EXCEPT ![n].stage = "down"] ELSE dial

(* What machine m has to say on the session it is in. *)
Sent(queue, m, messages) ==
  IF IsUp(session[m])
  THEN [queue EXCEPT ![Other(m)][session[m]] = @ \o messages]
  ELSE queue

(* Handshake::admit, on the trust store it was given. *)
Admitted(known, mode) == known = "paired" \/ (known = "stranger" /\ mode)

(* The dial task: the trust store is copied when it starts. *)
StartDial(m, n, mode, base) ==
  /\ base[n] = Unused
  /\ \A k \in 1 .. n - 1 : base[k] # Unused
  /\ dial' = [base EXCEPT ![n] = [stage |-> "trying", by |-> m, pairing |-> mode, known |-> trust[m]]]
  /\ dialing' = [dialing EXCEPT ![m] = n]

(* Both ends are through the handshake.  The accept loop judges by the     *)
(* copy it waited with, and copies the store again for the next one.       *)
Connect(n) ==
  LET m == dial[n].by
      o == Other(m)
      judged == [x \in Machine |-> IF x = m THEN dial[n].known = "paired" ELSE admits[o] = "paired"]
  IN /\ dial[n].stage = "trying"
     /\ Admitted(dial[n].known, dial[n].pairing)
     /\ Admitted(admits[o], TRUE)
     /\ dial' = [dial EXCEPT ![n] = [stage |-> "up", by |-> m, pairing |-> dial[n].pairing, paired |-> judged]]
     /\ news' = [x \in Machine |-> [news[x] EXCEPT ![n] = <<[kind |-> "session"]>>]]
     /\ admits' = [admits EXCEPT ![o] = trust[o]]
     /\ UNCHANGED <<trust, status, session, pending, offered, dialing, ended, held,
                    entries, forgotten, mishaps>>

(* A refusal by the other end's accept loop is one way for a dial to fail. *)
AcceptsAgain(n) ==
  \/ admits' = admits
  \/ admits' = [admits EXCEPT ![Other(dial[n].by)] = trust[Other(dial[n].by)]]

(* The failure of a pairing's own dial ends the pairing (end_undialled_pairing); *)
(* that of a dial which has been superseded says nothing.                  *)
DialFails(n) ==
  LET m == dial[n].by
      current == dialing[m] = n
  IN /\ dial[n].stage = "trying"
     /\ dial' = [dial EXCEPT ![n] = [stage |-> "failed", by |-> m]]
     /\ dialing' = IF current THEN [dialing EXCEPT ![m] = 0] ELSE dialing
     /\ offered' = IF current /\ dial[n].pairing THEN [offered EXCEPT ![m] = NoCode] ELSE offered
     /\ status' = IF current THEN [status EXCEPT ![m] = "offline"] ELSE status
     /\ AcceptsAgain(n)
     /\ UNCHANGED <<trust, session, pending, news, ended, held, entries, forgotten, mishaps>>

-----------------------------------------------------------------------------
(* How an exchange ends.                                                   *)

(* Mutant: a code survives the end of every session. *)
KeptAfterTeardown(code, endedPairing) == code

(* A code whose dial is still to come survives the end of a session,       *)
(* unless the exchange it belongs to is what ended.                        *)
AfterTeardown(code, endedPairing) == IF endedPairing THEN NoCode ELSE code

(* on_peer_gone. *)
PeerGone(m) ==
  /\ session' = [session EXCEPT ![m] = 0]
  /\ dial' = Closed(session[m])
  /\ pending' = [pending EXCEPT ![m] = NoPairing]
  /\ offered' = [offered EXCEPT ![m] = AfterTeardown(@, InPairing(m))]
  /\ status' = [status EXCEPT ![m] = "offline"]

(* abandon_pairing: a session admitted for pairing only has no further use. *)
Abandon(m) ==
  /\ pending' = [pending EXCEPT ![m] = NoPairing]
  /\ offered' = [offered EXCEPT ![m] = NoCode]
  /\ IF Reachable(m)
     THEN UNCHANGED <<session, dial>>
     ELSE session' = [session EXCEPT ![m] = 0] /\ dial' = Closed(session[m])
  /\ UNCHANGED <<trust, status>>

(* finish_pairing. *)
Finish(m) ==
  /\ pending' = [pending EXCEPT ![m] = NoPairing]
  /\ offered' = [offered EXCEPT ![m] = NoCode]
  /\ trust' = [trust EXCEPT ![m] = "paired"]
  /\ status' = [status EXCEPT ![m] = "connected"]
  /\ UNCHANGED <<session, dial>>

-----------------------------------------------------------------------------
(* Wakes of the engine loop.                                               *)

Heard(m, n, message) == news[m][n] # <<>> /\ Head(news[m][n]) = message

After(m, n) == [news EXCEPT ![m][n] = Tail(@)]

Holds(m, n, code) == held' = [held EXCEPT ![n][m] = @ \union {code}]

Listening == UNCHANGED <<admits, dialing, ended, entries, forgotten, mishaps>>

(* on_session: the second session with a peer is closed. *)
OnSecondSession(m, n) ==
  /\ Heard(m, n, [kind |-> "session"])
  /\ session[m] # 0
  /\ news' = After(m, n)
  /\ dialing' = [dialing EXCEPT ![m] = 0]
  /\ dial' = Closed(n)
  /\ UNCHANGED <<trust, admits, status, session, pending, offered, ended, held,
                 entries, forgotten, mishaps>>

OnTrustedSession(m, n) ==
  /\ Heard(m, n, [kind |-> "session"])
  /\ session[m] = 0
  /\ dial[n].paired[m]
  /\ news' = After(m, n)
  /\ dialing' = [dialing EXCEPT ![m] = 0]
  /\ session' = [session EXCEPT ![m] = n]
  /\ status' = [status EXCEPT ![m] = "connected"]
  /\ UNCHANGED <<trust, admits, pending, offered, dial, ended, held, entries, forgotten, mishaps>>

(* A session to pair on.  The side that dialled claims its code and opens  *)
(* the exchange, or gives up: "no pairing code was generated".             *)
OnPairingSession(m, n) ==
  LET mine == dial[n].by = m
      code == IF mine THEN offered[m] ELSE NoCode
      canGoOn == mine => code # NoCode
  IN /\ Heard(m, n, [kind |-> "session"])
     /\ session[m] = 0
     /\ ~dial[n].paired[m]
     /\ news' = After(m, n)
     /\ dialing' = [dialing EXCEPT ![m] = 0]
     /\ status' = [status EXCEPT ![m] = "pairing"]
     /\ offered' = IF mine THEN [offered EXCEPT ![m] = NoCode] ELSE offered
     /\ IF canGoOn
        THEN /\ session' = [session EXCEPT ![m] = n]
             /\ pending' = [pending EXCEPT ![m] = [conn |-> n, mine |-> mine, code |-> code]]
             /\ held' = IF mine THEN [held EXCEPT ![n][m] = @ \union {code}] ELSE held
             /\ dial' = dial
        ELSE /\ dial' = Closed(n)
             /\ UNCHANGED <<session, pending, held>>
     /\ UNCHANGED <<trust, admits, ended, entries, forgotten, mishaps>>

Proof(n, code) == [kind |-> "confirm", conn |-> n, code |-> code]
Rejection == [kind |-> "result"]

(* Mutant: the nonces are left out of the proof. *)
AcceptsTheCode(p, message) == message.code = p.code

(* PairingSession::accepts: the nonces are those of the handshake. *)
Accepts(p, message) == message = Proof(p.conn, p.code)

(* A proof nothing waits for, or that comes before a code was typed. *)
OnEarlyConfirm(m, n) ==
  /\ news[m][n] # <<>> /\ Head(news[m][n]).kind = "confirm"
  /\ InPairing(m) => pending[m].code = NoCode
  /\ news' = After(m, n)
  /\ UNCHANGED <<trust, status, session, pending, offered, dial, held>>
  /\ Listening

(* Mutant: the machine that chose the code proves nothing in return. *)
AnswerNothing(p) == <<>>

(* What the machine that chose the code answers a right proof with. *)
Answer(p) == IF p.mine THEN <<Proof(p.conn, p.code)>> ELSE <<>>

OnPairConfirm(m, n) ==
  LET message == Head(news[m][n])
      p == pending[m]
  IN /\ news[m][n] # <<>> /\ message.kind = "confirm"
     /\ InPairing(m) /\ p.code # NoCode
     /\ \/ /\ Accepts(p, message)
           /\ news' = Sent(After(m, n), m, Answer(p))
           /\ Finish(m)
        \/ /\ ~Accepts(p, message)
           /\ news' = Sent(After(m, n), m, <<Rejection>>)
           /\ Abandon(m)
     /\ held' = held
     /\ Listening

(* The PairResult arm of on_control. *)
OnPairResult(m, n) ==
  /\ Heard(m, n, Rejection)
  /\ news' = After(m, n)
  /\ Abandon(m)
  /\ held' = held
  /\ Listening

(* The pump of a connection that is gone reports its end, after what it    *)
(* could still read (on_pump_gone).                                        *)
OnPumpGone(m, n) ==
  /\ dial[n].stage = "down"
  /\ m \notin ended[n]
  /\ ~Heard(m, n, [kind |-> "session"])
  /\ ended' = [ended EXCEPT ![n] = @ \union {m}]
  /\ news' = [news EXCEPT ![m][n] = <<>>]
  /\ IF session[m] \in {0, n}
     THEN PeerGone(m)
     ELSE UNCHANGED <<session, dial, pending, offered, status>>
  /\ UNCHANGED <<trust, admits, dialing, held, entries, forgotten, mishaps>>

(* The sweep of on_tick: nobody typed the code in time. *)
SweepPairing(m) ==
  /\ InPairing(m)
  /\ Abandon(m)
  /\ UNCHANGED <<news, held>>
  /\ Listening

(* dial_targets and dial, of on_tick. *)
Redial(m) ==
  /\ trust[m] = "paired" /\ status[m] = "offline"
  /\ session[m] = 0 /\ dialing[m] = 0
  /\ \E n \in Dial : StartDial(m, n, FALSE, dial)
  /\ status' = [status EXCEPT ![m] = "connecting"]
  /\ UNCHANGED <<trust, admits, session, pending, offered, news, ended, held,
                 entries, forgotten, mishaps>>

-----------------------------------------------------------------------------
(* What users ask for.                                                     *)

(* Mutant: the exchange that is replaced stays on record. *)
BeginPairingBeside(m) ==
  /\ trust[m] # "blocked"
  /\ \E code \in Code : offered' = [offered EXCEPT ![m] = code]
  /\ session' = [session EXCEPT ![m] = 0]
  /\ \E n \in Dial : StartDial(m, n, TRUE, Closed(session[m]))
  /\ status' = [status EXCEPT ![m] = "connecting"]
  /\ UNCHANGED <<trust, admits, pending, news, ended, held, entries, forgotten, mishaps>>

(* begin_pairing: whatever session and exchange there is, is replaced.  A  *)
(* machine that is paired already is not refused.                          *)
BeginPairing(m) ==
  /\ trust[m] # "blocked"
  /\ \E code \in Code : offered' = [offered EXCEPT ![m] = code]
  /\ session' = [session EXCEPT ![m] = 0]
  /\ pending' = [pending EXCEPT ![m] = NoPairing]
  /\ \E n \in Dial : StartDial(m, n, TRUE, Closed(session[m]))
  /\ status' = [status EXCEPT ![m] = "connecting"]
  /\ UNCHANGED <<trust, admits, news, ended, held, entries, forgotten, mishaps>>

(* confirm_pairing: any code may be typed, and typed again. *)
ConfirmPairing(m) ==
  /\ InPairing(m)
  /\ MayEnter
  /\ \E code \in Code :
       /\ pending' = [pending EXCEPT ![m].code = code]
       /\ Holds(m, pending[m].conn, code)
       /\ news' = Sent(news, m, <<Proof(pending[m].conn, code)>>)
  /\ entries' = entries + 1
  /\ UNCHANGED <<trust, admits, status, session, offered, dialing, dial, ended, forgotten, mishaps>>

CancelPairing(m) ==
  /\ InPairing(m) \/ offered[m] # NoCode
  /\ Abandon(m)
  /\ UNCHANGED <<news, held>>
  /\ Listening

(* forget_peer, which also blocks. *)
ForgetPeer(m) ==
  /\ MayFail
  /\ \E known \in {"stranger", "blocked"} : trust' = [trust EXCEPT ![m] = known]
  /\ PeerGone(m)
  /\ forgotten' = TRUE
  /\ mishaps' = mishaps + 1
  /\ UNCHANGED <<admits, dialing, news, ended, held, entries>>

-----------------------------------------------------------------------------
(* Mishaps.                                                                *)

Break(n) ==
  /\ MayFail
  /\ dial[n].stage = "up"
  /\ dial' = Closed(n)
  /\ mishaps' = mishaps + 1
  /\ UNCHANGED <<trust, admits, status, session, pending, offered, dialing, news,
                 ended, held, entries, forgotten>>

(* An agent is killed and started again: the trust store is on disk. *)
Restart(m) ==
  /\ MayFail
  /\ admits' = [admits EXCEPT ![m] = trust[m]]
  /\ status' = [status EXCEPT ![m] = "offline"]
  /\ session' = [session EXCEPT ![m] = 0]
  /\ pending' = [pending EXCEPT ![m] = NoPairing]
  /\ offered' = [offered EXCEPT ![m] = NoCode]
  /\ dialing' = [dialing EXCEPT ![m] = 0]
  /\ dial' = [n \in Dial |->
                IF dial[n].stage = "up" THEN [dial[n] EXCEPT !.stage = "down"]
                ELSE IF dial[n].stage = "trying" /\ dial[n].by = m THEN [stage |-> "failed", by |-> m]
                ELSE dial[n]]
  /\ news' = [news EXCEPT ![m] = [n \in Dial |-> <<>>]]
  /\ ended' = [n \in Dial |-> IF dial[n].stage \in {"up", "down"} THEN ended[n] \union {m} ELSE ended[n]]
  /\ mishaps' = mishaps + 1
  /\ UNCHANGED <<trust, held, entries, forgotten>>

-----------------------------------------------------------------------------
OnNews(m, n) ==
  \/ OnSecondSession(m, n) \/ OnTrustedSession(m, n) \/ OnPairingSession(m, n)
  \/ OnEarlyConfirm(m, n) \/ OnPairConfirm(m, n) \/ OnPairResult(m, n)
  \/ OnPumpGone(m, n)

DialResolves(n) == Connect(n) \/ DialFails(n)

PairingNext ==
  \/ \E m \in Machine, n \in Dial : OnNews(m, n)
  \/ \E n \in Dial : DialResolves(n) \/ Break(n)
  \/ \E m \in Machine :
       \/ SweepPairing(m) \/ Redial(m)
       \/ BeginPairing(m) \/ ConfirmPairing(m) \/ CancelPairing(m) \/ ForgetPeer(m)
       \/ Restart(m)

PairingSpec == PairingInit /\ [][PairingNext]_pairingVars

-----------------------------------------------------------------------------
(* Properties.                                                             *)

Message == {[kind |-> "session"], Rejection}
             \union {Proof(n, c) : n \in Dial, c \in Code}

(* An exchange is on the session in use, and a dial that is waited for is  *)
(* the machine's own: what a restart of the pairing replaces, it replaces  *)
(* altogether.                                                             *)
PairingTypeOK ==
  /\ trust \in [Machine -> {"stranger", "paired", "blocked"}]
  /\ admits \in [Machine -> {"stranger", "paired", "blocked"}]
  /\ status \in [Machine -> {"offline", "connecting", "pairing", "connected"}]
  /\ session \in [Machine -> Dial \union {0}]
  /\ offered \in [Machine -> Code \union {NoCode}]
  /\ \A m \in Machine :
       /\ dialing[m] # 0 => dial[dialing[m]].by = m
       /\ InPairing(m) =>
            /\ pending[m].conn = session[m] /\ session[m] \in Dial
            /\ pending[m].mine = (dial[session[m]].by = m)
            /\ pending[m].code \in Code \union {NoCode}
            /\ pending[m].mine => pending[m].code # NoCode
       /\ \A n \in Dial : news[m][n] \in Seq(Message)
  /\ entries \in 0 .. MaxEntries /\ mishaps \in 0 .. MaxMishaps

(* A machine is trusted only once both machines have held one and the same *)
(* code on one connection, the one in use: neither a proof made for an     *)
(* earlier connection nor a repeated code will do (on_pair_confirm).       *)
TrustIsEarned ==
  [][\A m \in Machine :
       trust[m] # "paired" /\ trust'[m] = "paired" =>
         \E n \in Dial :
           /\ n = session[m]
           /\ held[n][m] \intersect held[n][Other(m)] # {}]_pairingVars

(* The machine that shows the code trusts first.  That the other does not  *)
(* trust it yet means the proof it waits for is on its way, or has been    *)
(* lost with the connection.                                               *)
LoneTrustIsUnderWay ==
  ~forgotten =>
    \A m \in Machine :
      trust[m] = "paired" /\ trust[Other(m)] = "stranger" =>
        \E n \in Dial : \E c \in held[n][m] \intersect held[n][Other(m)] :
          \/ dial[n].stage = "down"
          \/ \E i \in DOMAIN news[Other(m)][n] : news[Other(m)][n][i] = Proof(n, c)

(* A code on screen has something that will end it: an exchange under way, *)
(* which the sweep ends at the latest, or the dial it waits for.           *)
DialUnderWay(m) ==
  /\ dialing[m] # 0
  /\ dial[dialing[m]].pairing
  /\ \/ dial[dialing[m]].stage = "trying"
     \/ Heard(m, dialing[m], [kind |-> "session"])

CodeCanEnd(m) == offered[m] # NoCode => InPairing(m) \/ DialUnderWay(m)

(* So has the session of a machine that is not trusted: its exchange.      *)
SessionCanEnd(m) == session[m] # 0 /\ trust[m] # "paired" => InPairing(m)

(* The machine takes a connection for that of a paired one.                *)
TakesForPaired(m) == session[m] = 0 /\ session'[m] # 0 /\ dial[session'[m]].paired[m]

(* No step leaves a code, or the session of a machine that is not trusted, *)
(* with nothing to end it, but for one: on_session, of a connection judged *)
(* to be a paired machine's, ends neither the code that is on screen nor,  *)
(* if the judgement is out of date, the session (see README).              *)
EveryExchangeCanEnd ==
  [][\A m \in Machine :
       \/ TakesForPaired(m)
       \/ /\ CodeCanEnd(m) => CodeCanEnd(m)'
          /\ SessionCanEnd(m) => SessionCanEnd(m)']_pairingVars

-----------------------------------------------------------------------------
(* What a comment promises and the code does not do.                       *)

(* "a peer paired thirty seconds ago must be admitted now, and a stale     *)
(* trust store would refuse it": what the accept loop judges by is the     *)
(* trust store.                                                            *)
PairedPeersAreAdmitted ==
  [][\A n \in Dial :
       dial[n].stage = "trying" /\ dial'[n].stage = "up" =>
         LET o == Other(dial[n].by)
         IN trust[o] = "paired" => dial'[n].paired[o]]_pairingVars

=============================================================================

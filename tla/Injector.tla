------------------------------- MODULE Injector -------------------------------
(***************************************************************************)
(* The X11 injector: what other machines' keys do to this one's keyboard.  *)
(*                                                                         *)
(* One modifier key of the desktop serves three masters: the sender, who   *)
(* may hold it himself, the chord of modifiers a keystroke comes with, and *)
(* the level of the layout its character is on.  Each keeps its own        *)
(* record, none may let go of a key another wants, and any request to the  *)
(* server may fail and leave the rest of a keystroke undone.               *)
(*                                                                         *)
(* A modifier is named by the key that is pressed for it, as long as the   *)
(* layout stays the same: what becomes of a key that is down when the      *)
(* keymap moves its modifier elsewhere is not modelled.  Alt and Super are *)
(* treated as Ctrl is, and scroll and motion hold nothing.                 *)
(***************************************************************************)
EXTENDS Naturals

CONSTANTS
  PlainKeys,    \* keys and buttons that are not modifiers
  RightHand,    \* modifier keys no chord and no level is pressed with
  Characters,   \* keys of the layout, with the level of one character each
  Snapshots,    \* the modifiers a keystroke may come with
  MaxCalls      \* bound of the model: requests before one fails

ChordKeys == {"ctrl", "shift", "level3"}

LevelKeys == {"shift", "level3"}

Modifiers == ChordKeys \union RightHand

Keys == Modifiers \union PlainKeys

ASSUME InjectorAssumption ==
  /\ RightHand \intersect ChordKeys = {}
  /\ PlainKeys \intersect Modifiers = {}
  /\ Characters \subseteq [key : PlainKeys, level : SUBSET LevelKeys]
  /\ Snapshots \subseteq SUBSET ChordKeys
  /\ MaxCalls \in Nat

VARIABLES
  down,      \* keys the server has down because of this injector
  held,      \* Injector.held: keys the sender holds
  chord,     \* Injector.chord
  level,     \* Injector.level
  pressed,   \* Injector.pressed: modifiers this injector has pressed
  last       \* history: what was last done, and with which keys

vars == <<down, held, chord, level, pressed, last>>

Deeds == {"keystroke", "modifier up", "clear", "other", "cut short",
          "clear cut short"}

TypeOK ==
  /\ down \subseteq Keys
  /\ held \subseteq Keys
  /\ chord \subseteq ChordKeys
  /\ level \subseteq LevelKeys
  /\ pressed \subseteq ChordKeys
  /\ last \in [what : Deeds, keys : SUBSET Keys]

Init ==
  /\ down = {} /\ held = {} /\ chord = {} /\ level = {} /\ pressed = {}
  /\ last = [what |-> "other", keys |-> {}]

-----------------------------------------------------------------------------
(* An injection in progress: the records, the calls the server will still  *)
(* answer, and whether all have been answered so far.  After a failure     *)
(* nothing more is done.                                                   *)

Now(calls) ==
  [down |-> down, held |-> held, chord |-> chord, level |-> level,
   pressed |-> pressed, calls |-> calls, ok |-> TRUE]

Call(s) == IF s.ok /\ s.calls > 0 THEN [s EXCEPT !.calls = @ - 1]
           ELSE [s EXCEPT !.ok = FALSE]

(* Sink::send of a key or button.                                          *)
Send(s, k, press) ==
  LET t == Call(s) IN
  IF ~t.ok THEN t
  ELSE [t EXCEPT !.down = IF press THEN @ \union {k} ELSE @ \ {k}]

(* Mutant: the list is updated whether or not the server got the request.  *)
SendKeyTrackedAnyway(s, k, press) ==
  LET t == Send(s, k, press) IN
  [t EXCEPT !.held = IF press THEN @ \union {k} ELSE @ \ {k}]

(* send_key: the list is updated only for what the server has got.         *)
SendKey(s, k, press) ==
  LET t == Send(s, k, press) IN
  IF ~t.ok THEN t
  ELSE [t EXCEPT !.held = IF press THEN @ \union {k} ELSE @ \ {k}]

KeyDown(s, k) == k \in s.pressed \union s.held

(* apply: a step the key has to feel.                                      *)
Apply(s, k, press) ==
  LET t == Send(s, k, press) IN
  IF ~t.ok THEN t
  ELSE [t EXCEPT !.pressed = IF press THEN @ \union {k} ELSE @ \ {k}]

(* Mutants: a claim that is on record is taken to be a key that is down;   *)
(* a record's own claim keeps it from letting go; the sender's key is let  *)
(* go of.                                                                  *)
PressUnclaimed(p, claimed, k) == k \notin claimed /\ ~KeyDown(p, k)

ReleaseUnclaimed(p, others, k) ==
  k \in p.pressed /\ k \notin p.held \union p.chord \union p.level

ReleaseHeld(p, others, k) == k \in p.pressed \union p.held /\ k \notin others

(* step: whether the key has to be pressed, or let go of.                  *)
MustPress(p, claimed, k) == ~KeyDown(p, k)

MustRelease(p, others, k) == k \in p.pressed /\ k \notin p.held \union others

(* One modifier of chord_plan, planned in p and carried out in s.          *)
ChordStep(p, s, k, wanted) ==
  CASE ~s.ok -> s
    [] s.ok /\ k \in wanted ->
         LET t == IF MustPress(p, p.chord, k) THEN Apply(s, k, TRUE) ELSE s
         IN IF t.ok THEN [t EXCEPT !.chord = @ \union {k}] ELSE t
    [] s.ok /\ k \notin wanted /\ k \in p.chord ->
         LET t == IF MustRelease(p, p.level, k) THEN Apply(s, k, FALSE) ELSE s
         IN IF t.ok THEN [t EXCEPT !.chord = @ \ {k}] ELSE t
    [] s.ok /\ k \notin wanted /\ k \notin p.chord -> s

(* One modifier of level_plan.                                             *)
LevelStep(p, s, k, wanted) ==
  CASE ~s.ok -> s
    [] s.ok /\ k \in wanted ->
         LET t == IF MustPress(p, p.level, k) THEN Apply(s, k, TRUE) ELSE s
         IN IF t.ok THEN [t EXCEPT !.level = @ \union {k}] ELSE t
    [] s.ok /\ k \notin wanted /\ k \in p.level ->
         LET t == IF MustRelease(p, p.chord, k) THEN Apply(s, k, FALSE) ELSE s
         IN IF t.ok THEN [t EXCEPT !.level = @ \ {k}] ELSE t
    [] s.ok /\ k \notin wanted /\ k \notin p.level -> s

(* sync_chord: the keymap is read unless there is nothing to do.           *)
SyncChord(s, wanted) ==
  IF ~s.ok \/ (wanted = {} /\ s.chord = {}) THEN s
  ELSE LET p == Call(s)
       IN ChordStep(p, ChordStep(p, ChordStep(p, p, "ctrl", wanted),
                                 "shift", wanted), "level3", wanted)

(* sync_level.                                                             *)
SyncLevel(s, wanted) ==
  IF ~s.ok \/ (wanted = {} /\ s.level = {}) THEN s
  ELSE LET p == Call(s)
       IN LevelStep(p, LevelStep(p, p, "shift", wanted), "level3", wanted)

(* tap, for one character.                                                 *)
Tap(s, c) == SendKey(SendKey(SyncLevel(s, c.level), c.key, TRUE), c.key, FALSE)

-----------------------------------------------------------------------------
(* The records after s.                                                    *)
Becomes(s, what, keys) ==
  /\ down' = s.down /\ held' = s.held /\ pressed' = s.pressed
  /\ chord' = s.chord /\ level' = s.level
  /\ last' = IF s.ok THEN [what |-> what, keys |-> keys]
             ELSE [what |-> IF what = "clear" THEN "clear cut short" ELSE "cut short",
                   keys |-> {}]

(* forward_modifier: a key that is down already becomes the sender's.      *)
TakeOver(s, k) ==
  [s EXCEPT !.held = @ \union {k}, !.pressed = @ \ {k}]

ForwardPress(k, calls) ==
  LET s == Now(calls) IN
  IF KeyDown(s, k) THEN Becomes(TakeOver(s, k), "other", {})
  ELSE LET t == SendKey(s, k, TRUE)
       IN Becomes(IF t.ok THEN [t EXCEPT !.pressed = @ \ {k}] ELSE t, "other", {})

(* The sender's key-up takes the key up whoever pressed it.                *)
ForwardRelease(k, calls) ==
  LET t == SendKey(Now(calls), k, FALSE)
  IN Becomes(IF t.ok THEN [t EXCEPT !.pressed = @ \ {k}] ELSE t, "modifier up", {k})

(* inject_key, for a key without text.                                     *)
Special(k, press, mods, calls) ==
  LET s == SyncLevel(SyncChord(Now(calls), mods), {}) IN
  Becomes(SendKey(s, k, press), "keystroke", mods)

(* injection_modifiers: Shift and AltGr have done their part in the text.  *)
TextModifiers(mods) == mods \ LevelKeys

(* inject_text, of a character with a key of its own: resolve reads the    *)
(* keymap before anything is sent.                                         *)
TextPress(c, mods, calls) ==
  LET s == SyncLevel(SyncChord(Call(Now(calls)), TextModifiers(mods)), c.level) IN
  Becomes(SendKey(s, c.key, TRUE), "keystroke", TextModifiers(mods) \union c.level)

TextRelease(c, mods, calls) ==
  LET s == SyncLevel(SyncChord(Call(Now(calls)), TextModifiers(mods)), c.level)
      t == SendKey(s, c.key, FALSE)
  IN Becomes(SyncLevel(t, {}), "keystroke", TextModifiers(mods))

(* The same for a character composed of a dead key and a base: both are     *)
(* typed on the press.                                                     *)
TextComposed(c, d, mods, calls) ==
  LET s == SyncChord(Call(Now(calls)), TextModifiers(mods))
  IN Becomes(SyncLevel(Tap(Tap(s, c), d), {}), "keystroke", TextModifiers(mods))

(* The release of such a character, on which nothing is typed.             *)
TextComposedRelease(mods, calls) ==
  Becomes(SyncChord(Call(Now(calls)), TextModifiers(mods)), "other", {})

(* The same for a payload of two characters: each is resolved when the one *)
(* before it has been typed.                                               *)
TextFlushed(c, d, mods, calls) ==
  LET s == SyncChord(Now(calls), TextModifiers(mods))
      t == SyncLevel(Tap(Call(s), c), {})
  IN Becomes(SyncLevel(Tap(Call(t), d), {}), "keystroke", TextModifiers(mods))

(* Mutant: a button is put on the list of the modifiers.                   *)
ButtonApplied(k, press, calls) == Becomes(Apply(Now(calls), k, press), "other", {})

(* inject_button.                                                          *)
Button(k, press, calls) == Becomes(SendKey(Now(calls), k, press), "other", {})

(* modifier_release_order, one key of it.                                  *)
Unwind(s, k) == IF s.ok /\ k \in s.pressed THEN Apply(s, k, FALSE) ELSE s

(* release_all: the keys held come up, in whatever order, as far as the    *)
(* server answers, then the modifiers, and only then the claims are void.  *)
ReleaseAll(gone, calls) ==
  LET unwound == [Now(calls) EXCEPT !.held = @ \ gone, !.down = @ \ gone,
                                    !.ok = (gone = held)]
      s == Unwind(Unwind(Unwind(unwound, "level3"), "shift"), "ctrl")
  IN Becomes(IF s.ok THEN [s EXCEPT !.chord = {}, !.level = {}] ELSE s,
             "clear", {})

Next ==
  \E calls \in 0 .. MaxCalls :
    \/ \E k \in Modifiers : ForwardPress(k, calls) \/ ForwardRelease(k, calls)
    \/ \E k \in PlainKeys, press \in BOOLEAN : Button(k, press, calls)
    \/ \E k \in PlainKeys, press \in BOOLEAN, mods \in Snapshots :
         Special(k, press, mods, calls)
    \/ \E c \in Characters, mods \in Snapshots :
         TextPress(c, mods, calls) \/ TextRelease(c, mods, calls)
    \/ \E c, d \in Characters, mods \in Snapshots :
         TextComposed(c, d, mods, calls) \/ TextFlushed(c, d, mods, calls)
    \/ \E mods \in Snapshots : TextComposedRelease(mods, calls)
    \/ \E gone \in SUBSET held : ReleaseAll(gone, calls)

Spec == Init /\ [][Next]_vars

-----------------------------------------------------------------------------
(* Properties.                                                             *)

(* Whatever the server has down is on exactly one of the two lists that    *)
(* say who will let go of it, wherever a keystroke was cut short: nothing  *)
(* is down that release_all would leave, and nothing is released twice.    *)
KeysAreAccountedFor ==
  /\ down = held \union pressed
  /\ held \intersect pressed = {}

(* A modifier the injector pressed is claimed by the chord or the level:   *)
(* the next keystroke that does not want it lets it come up.               *)
EveryPressIsClaimed == pressed \subseteq chord \union level

(* After a keystroke has gone through, the modifiers that are down are     *)
(* those it asked for and those the sender holds: a chord borrowed from a  *)
(* key since released is asserted again, and none is left over.            *)
ChordIsExact ==
  last.what = "keystroke" =>
    down \intersect ChordKeys = (held \intersect ChordKeys) \union last.keys

(* release_all, when it gets through, leaves nothing down or on record.    *)
ClearMeansClear ==
  last.what = "clear" => down = {} /\ chord = {} /\ level = {}

(* A modifier the sender holds stays down until he lets go of it himself,  *)
(* or release_all, done or cut short, lets go of everything: no keystroke  *)
(* lifts it, wherever it fails.                                            *)
SenderKeepsHisModifiers ==
  [][\A k \in ChordKeys :
       k \in held /\ k \notin down' =>
         \/ last' = [what |-> "modifier up", keys |-> {k}]
         \/ last'.what \in {"clear", "clear cut short"}]_vars

=============================================================================

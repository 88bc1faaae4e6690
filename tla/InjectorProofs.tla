---------------------------- MODULE InjectorProofs ----------------------------
(***************************************************************************)
(* The properties of Injector for every keyboard, every layout and every   *)
(* place where a request may fail.                                         *)
(*                                                                         *)
(* An operation is a chain of functions on the record of a state.  The     *)
(* lemmas say of each function what it keeps (Carries), and what it makes  *)
(* true if no request fails (Chorded, Levelled); the theorem reads them    *)
(* off along the chain of every action.                                    *)
(***************************************************************************)
EXTENDS Injector, TLAPS

States ==
  [down : SUBSET Keys, held : SUBSET Keys, chord : SUBSET ChordKeys,
   level : SUBSET LevelKeys, pressed : SUBSET ChordKeys, calls : Nat,
   ok : BOOLEAN]

(* The inductive invariant, of a state in the midst of an operation.       *)
Good(s) ==
  /\ s \in States
  /\ s.down = s.held \union s.pressed
  /\ s.held \intersect s.pressed = {}
  /\ s.pressed \subseteq s.chord \union s.level

(* From s to t an operation keeps the invariant and the sender's own       *)
(* modifiers, and does not recover from a failure.                         *)
Carries(s, t) ==
  /\ Good(t)
  /\ t.held \intersect ChordKeys = s.held \intersect ChordKeys
  /\ t.ok => s.ok

Chorded(s, w) == s.ok => s.chord = w /\ w \subseteq s.down

Levelled(s, l) == s.ok => s.level = l /\ l \subseteq s.down

(* Nothing but the failure or the number of calls is different.            *)
Same(s, t) ==
  /\ t.down = s.down /\ t.held = s.held /\ t.chord = s.chord
  /\ t.level = s.level /\ t.pressed = s.pressed

-----------------------------------------------------------------------------
(* Single requests.                                                        *)

LEMMA CallSame ==
  ASSUME NEW s \in States
  PROVE  Call(s) \in States /\ Same(s, Call(s)) /\ (Call(s).ok => s.ok)
<1>1. CASE s.ok /\ s.calls > 0
  <2>1. Call(s) = [s EXCEPT !.calls = @ - 1]
    BY <1>1 DEF Call
  <2>2. s.calls - 1 \in Nat
    BY <1>1 DEF States
  <2> QED
    BY <1>1, <2>1, <2>2 DEF States, Same
<1>2. CASE ~(s.ok /\ s.calls > 0)
  <2>1. Call(s) = [s EXCEPT !.ok = FALSE]
    BY <1>2 DEF Call
  <2> QED
    BY <2>1 DEF States, Same
<1> QED
  BY <1>1, <1>2

LEMMA SendResult ==
  ASSUME NEW s \in States, NEW k \in Keys, NEW press \in BOOLEAN
  PROVE  LET t == Send(s, k, press) IN
         /\ t \in States
         /\ t.held = s.held /\ t.chord = s.chord /\ t.level = s.level
         /\ t.pressed = s.pressed
         /\ t.ok => s.ok
         /\ ~t.ok => t.down = s.down
         /\ t.ok /\ press => t.down = s.down \union {k}
         /\ t.ok /\ ~press => t.down = s.down \ {k}
<1> DEFINE c == Call(s)
<1>1. c \in States /\ Same(s, c) /\ (c.ok => s.ok)
  BY CallSame
<1> HIDE DEF c
<1>2. CASE ~c.ok
  <2>1. Send(s, k, press) = c
    BY <1>2 DEF Send, c
  <2> QED
    BY <1>1, <1>2, <2>1 DEF Same
<1>3. CASE c.ok
  <2>1. Send(s, k, press)
          = [c EXCEPT !.down = IF press THEN @ \union {k} ELSE @ \ {k}]
    BY <1>3 DEF Send, c
  <2> QED
    BY <1>1, <1>3, <2>1 DEF Same, States
<1> QED
  BY <1>2, <1>3

LEMMA SendKeyResult ==
  ASSUME NEW s \in States, NEW k \in Keys, NEW press \in BOOLEAN
  PROVE  LET t == SendKey(s, k, press) IN
         /\ t \in States
         /\ t.chord = s.chord /\ t.level = s.level /\ t.pressed = s.pressed
         /\ t.ok => s.ok
         /\ ~t.ok => Same(s, t)
         /\ t.ok /\ press => /\ t.down = s.down \union {k}
                             /\ t.held = s.held \union {k}
         /\ t.ok /\ ~press => /\ t.down = s.down \ {k}
                              /\ t.held = s.held \ {k}
<1> DEFINE c == Send(s, k, press)
<1>1. /\ c \in States
      /\ c.held = s.held /\ c.chord = s.chord /\ c.level = s.level
      /\ c.pressed = s.pressed
      /\ c.ok => s.ok
      /\ ~c.ok => c.down = s.down
      /\ c.ok /\ press => c.down = s.down \union {k}
      /\ c.ok /\ ~press => c.down = s.down \ {k}
  BY SendResult
<1> HIDE DEF c
<1>2. CASE ~c.ok
  <2>1. SendKey(s, k, press) = c
    BY <1>2 DEF SendKey, c
  <2> QED
    BY <1>1, <1>2, <2>1 DEF Same
<1>3. CASE c.ok
  <2>1. SendKey(s, k, press)
          = [c EXCEPT !.held = IF press THEN @ \union {k} ELSE @ \ {k}]
    BY <1>3 DEF SendKey, c
  <2> QED
    BY <1>1, <1>3, <2>1 DEF States
<1> QED
  BY <1>2, <1>3

LEMMA ApplyResult ==
  ASSUME NEW s \in States, NEW k \in ChordKeys, NEW press \in BOOLEAN
  PROVE  LET t == Apply(s, k, press) IN
         /\ t \in States
         /\ t.chord = s.chord /\ t.level = s.level /\ t.held = s.held
         /\ t.ok => s.ok
         /\ ~t.ok => Same(s, t)
         /\ t.ok /\ press => /\ t.down = s.down \union {k}
                             /\ t.pressed = s.pressed \union {k}
         /\ t.ok /\ ~press => /\ t.down = s.down \ {k}
                              /\ t.pressed = s.pressed \ {k}
<1> DEFINE c == Send(s, k, press)
<1>0. k \in Keys
  BY DEF Keys, Modifiers
<1>1. /\ c \in States
      /\ c.held = s.held /\ c.chord = s.chord /\ c.level = s.level
      /\ c.pressed = s.pressed
      /\ c.ok => s.ok
      /\ ~c.ok => c.down = s.down
      /\ c.ok /\ press => c.down = s.down \union {k}
      /\ c.ok /\ ~press => c.down = s.down \ {k}
  BY <1>0, SendResult
<1> HIDE DEF c
<1>2. CASE ~c.ok
  <2>1. Apply(s, k, press) = c
    BY <1>2 DEF Apply, c
  <2> QED
    BY <1>1, <1>2, <2>1 DEF Same
<1>3. CASE c.ok
  <2>1. Apply(s, k, press)
          = [c EXCEPT !.pressed = IF press THEN @ \union {k} ELSE @ \ {k}]
    BY <1>3 DEF Apply, c
  <2> QED
    BY <1>1, <1>3, <2>1 DEF States
<1> QED
  BY <1>2, <1>3

LEMMA ApplyPress ==
  ASSUME NEW s \in States, NEW k \in ChordKeys
  PROVE  LET t == Apply(s, k, TRUE) IN
         /\ t \in States
         /\ t.chord = s.chord /\ t.level = s.level /\ t.held = s.held
         /\ t.ok => s.ok
         /\ ~t.ok => Same(s, t)
         /\ t.ok => t.down = s.down \union {k} /\ t.pressed = s.pressed \union {k}
<1>1. \E press \in BOOLEAN : press = TRUE
  OBVIOUS
<1>2. PICK press \in BOOLEAN : press = TRUE
  BY <1>1
<1> DEFINE t == Apply(s, k, press)
<1>3. /\ t \in States
      /\ t.chord = s.chord /\ t.level = s.level /\ t.held = s.held
      /\ t.ok => s.ok
      /\ ~t.ok => Same(s, t)
      /\ t.ok /\ press => t.down = s.down \union {k} /\ t.pressed = s.pressed \union {k}
      /\ t.ok /\ ~press => t.down = s.down \ {k} /\ t.pressed = s.pressed \ {k}
  BY ApplyResult
<1>4. t = Apply(s, k, TRUE)
  BY <1>2
<1> HIDE DEF t
<1> QED
  BY <1>2, <1>3, <1>4

LEMMA ApplyRelease ==
  ASSUME NEW s \in States, NEW k \in ChordKeys
  PROVE  LET t == Apply(s, k, FALSE) IN
         /\ t \in States
         /\ t.chord = s.chord /\ t.level = s.level /\ t.held = s.held
         /\ t.ok => s.ok
         /\ ~t.ok => Same(s, t)
         /\ t.ok => t.down = s.down \ {k} /\ t.pressed = s.pressed \ {k}
<1>1. \E press \in BOOLEAN : press = FALSE
  OBVIOUS
<1>2. PICK press \in BOOLEAN : press = FALSE
  BY <1>1
<1> DEFINE t == Apply(s, k, press)
<1>3. /\ t \in States
      /\ t.chord = s.chord /\ t.level = s.level /\ t.held = s.held
      /\ t.ok => s.ok
      /\ ~t.ok => Same(s, t)
      /\ t.ok /\ press => t.down = s.down \union {k} /\ t.pressed = s.pressed \union {k}
      /\ t.ok /\ ~press => t.down = s.down \ {k} /\ t.pressed = s.pressed \ {k}
  BY ApplyResult
<1>4. t = Apply(s, k, FALSE)
  BY <1>2
<1> HIDE DEF t
<1> QED
  BY <1>2, <1>3, <1>4

-----------------------------------------------------------------------------
(* One modifier.                                                           *)

(* The plan made in p still fits s, as far as the key k goes.              *)
Agree(p, s, k) ==
  /\ k \in p.pressed <=> k \in s.pressed
  /\ k \in p.held <=> k \in s.held
  /\ k \in p.chord <=> k \in s.chord
  /\ k \in p.level <=> k \in s.level

(* Other keys than k are as they were.                                     *)
Elsewhere(s, t, k) ==
  \A j \in Keys \ {k} :
    /\ j \in t.down <=> j \in s.down
    /\ j \in t.pressed <=> j \in s.pressed
    /\ j \in t.chord <=> j \in s.chord
    /\ j \in t.level <=> j \in s.level

LEMMA ChordStepResult ==
  ASSUME NEW p \in States, NEW s, Good(s), NEW k \in ChordKeys, NEW w,
         s.ok => Agree(p, s, k)
  PROVE  LET r == ChordStep(p, s, k, w) IN
         /\ Good(r)
         /\ r.held = s.held /\ r.level = s.level
         /\ r.ok => s.ok
         /\ r.ok => (k \in r.chord <=> k \in w) /\ (k \in w => k \in r.down)
         /\ Elsewhere(s, r, k)
<1> DEFINE r == ChordStep(p, s, k, w)
<1> SUFFICES /\ Good(r)
             /\ r.held = s.held /\ r.level = s.level
             /\ r.ok => s.ok
             /\ r.ok => (k \in r.chord <=> k \in w) /\ (k \in w => k \in r.down)
             /\ Elsewhere(s, r, k)
  OBVIOUS
<1>0. s \in States /\ k \in ChordKeys /\ k \in ChordKeys
  BY DEF Good, ChordKeys, LevelKeys
<1>1. CASE ~s.ok
  <2>1. r = s
    BY <1>1 DEF ChordStep
  <2> QED
    BY <1>1, <2>1 DEF Elsewhere
<1>2. CASE s.ok /\ k \in w
  <2> DEFINE t == IF MustPress(p, p.chord, k) THEN Apply(s, k, TRUE) ELSE s
  <2>1. r = IF t.ok THEN [t EXCEPT !.chord = @ \union {k}] ELSE t
    BY <1>2 DEF ChordStep
  <2>2. MustPress(p, p.chord, k) <=> k \notin s.pressed \union s.held
    BY <1>2 DEF MustPress, KeyDown, Agree
  <2>3. CASE k \in s.pressed \union s.held
    <3>1. t = s
      BY <2>2, <2>3
    <3>2. r = [s EXCEPT !.chord = @ \union {k}]
      BY <1>2, <2>1, <3>1
    <3>3. /\ r \in States /\ r.chord = s.chord \union {k} /\ r.ok = s.ok
          /\ r.down = s.down /\ r.held = s.held /\ r.level = s.level
          /\ r.pressed = s.pressed
      BY <1>0, <3>2 DEF States
    <3> HIDE DEF r
    <3> QED
      BY <1>2, <2>3, <3>3 DEF Good, Elsewhere
  <2>4. CASE k \notin s.pressed \union s.held
    <3> DEFINE a == Apply(s, k, TRUE)
    <3>1. t = a
      BY <2>2, <2>4
    <3>2. /\ a \in States
          /\ a.chord = s.chord /\ a.level = s.level /\ a.held = s.held
          /\ ~a.ok => Same(s, a)
          /\ a.ok => a.down = s.down \union {k} /\ a.pressed = s.pressed \union {k}
      BY <1>0, ApplyPress
    <3> HIDE DEF a
    <3> HIDE DEF t
    <3>3. CASE ~t.ok
      <4>1. r = t
        BY <2>1, <3>3
      <4> QED
        BY <1>2, <3>1, <3>2, <3>3, <4>1 DEF Good, Elsewhere, Same
    <3>4. CASE t.ok
      <4>1. r = [t EXCEPT !.chord = @ \union {k}]
        BY <2>1, <3>4
      <4>2. /\ r \in States /\ r.chord = s.chord \union {k} /\ r.ok
            /\ r.down = s.down \union {k} /\ r.held = s.held
            /\ r.level = s.level /\ r.pressed = s.pressed \union {k}
        BY <1>0, <3>1, <3>2, <3>4, <4>1 DEF States
      <4> HIDE DEF r
      <4> QED
        BY <1>2, <2>4, <4>2 DEF Good, Elsewhere
    <3> QED
      BY <3>3, <3>4
  <2> QED
    BY <2>3, <2>4
<1>3. CASE s.ok /\ k \notin w /\ k \in p.chord
  <2> DEFINE t == IF MustRelease(p, p.level, k) THEN Apply(s, k, FALSE) ELSE s
  <2>1. r = IF t.ok THEN [t EXCEPT !.chord = @ \ {k}] ELSE t
    BY <1>3 DEF ChordStep
  <2>2. MustRelease(p, p.level, k)
          <=> k \in s.pressed /\ k \notin s.held /\ k \notin s.level
    BY <1>3 DEF MustRelease, Agree
  <2>3. CASE k \notin s.pressed \/ k \in s.level
    <3>1. t = s
      BY <2>2, <2>3
    <3>2. r = [s EXCEPT !.chord = @ \ {k}]
      BY <1>3, <2>1, <3>1
    <3>3. /\ r \in States /\ r.chord = s.chord \ {k} /\ r.ok = s.ok
          /\ r.down = s.down /\ r.held = s.held /\ r.level = s.level
          /\ r.pressed = s.pressed
      BY <1>0, <3>2 DEF States
    <3> HIDE DEF r
    <3> QED
      BY <1>3, <2>3, <3>3 DEF Good, Elsewhere
  <2>4. CASE k \in s.pressed /\ k \notin s.level
    <3>0. k \notin s.held
      BY <2>4 DEF Good
    <3> DEFINE a == Apply(s, k, FALSE)
    <3>1. t = a
      BY <2>2, <2>4, <3>0
    <3>2. /\ a \in States
          /\ a.chord = s.chord /\ a.level = s.level /\ a.held = s.held
          /\ ~a.ok => Same(s, a)
          /\ a.ok => a.down = s.down \ {k} /\ a.pressed = s.pressed \ {k}
      BY <1>0, ApplyRelease
    <3> HIDE DEF a
    <3> HIDE DEF t
    <3>3. CASE ~t.ok
      <4>1. r = t
        BY <2>1, <3>3
      <4> QED
        BY <1>3, <3>1, <3>2, <3>3, <4>1 DEF Good, Elsewhere, Same
    <3>4. CASE t.ok
      <4>1. r = [t EXCEPT !.chord = @ \ {k}]
        BY <2>1, <3>4
      <4>2. /\ r \in States /\ r.chord = s.chord \ {k} /\ r.ok
            /\ r.down = s.down \ {k} /\ r.held = s.held
            /\ r.level = s.level /\ r.pressed = s.pressed \ {k}
        BY <1>0, <3>1, <3>2, <3>4, <4>1 DEF States
      <4> HIDE DEF r
      <4> QED
        BY <1>3, <3>0, <4>2 DEF Good, Elsewhere
    <3> QED
      BY <3>3, <3>4
  <2> QED
    BY <2>3, <2>4
<1>4. CASE s.ok /\ k \notin w /\ k \notin p.chord
  <2>1. r = s
    BY <1>4 DEF ChordStep
  <2>2. k \notin s.chord
    BY <1>4 DEF Agree
  <2> QED
    BY <1>4, <2>1, <2>2 DEF Elsewhere
<1> QED
  BY <1>1, <1>2, <1>3, <1>4

LEMMA LevelStepResult ==
  ASSUME NEW p \in States, NEW s, Good(s), NEW k \in LevelKeys, NEW w,
         s.ok => Agree(p, s, k)
  PROVE  LET r == LevelStep(p, s, k, w) IN
         /\ Good(r)
         /\ r.held = s.held /\ r.chord = s.chord
         /\ r.ok => s.ok
         /\ r.ok => (k \in r.level <=> k \in w) /\ (k \in w => k \in r.down)
         /\ k \in s.chord /\ k \in s.down => k \in r.down
         /\ Elsewhere(s, r, k)
<1> DEFINE r == LevelStep(p, s, k, w)
<1> SUFFICES /\ Good(r)
             /\ r.held = s.held /\ r.chord = s.chord
             /\ r.ok => s.ok
             /\ r.ok => (k \in r.level <=> k \in w) /\ (k \in w => k \in r.down)
             /\ k \in s.chord /\ k \in s.down => k \in r.down
             /\ Elsewhere(s, r, k)
  OBVIOUS
<1>0. s \in States /\ k \in ChordKeys /\ k \in LevelKeys
  BY DEF Good, ChordKeys, LevelKeys
<1>1. CASE ~s.ok
  <2>1. r = s
    BY <1>1 DEF LevelStep
  <2> QED
    BY <1>1, <2>1 DEF Elsewhere
<1>2. CASE s.ok /\ k \in w
  <2> DEFINE t == IF MustPress(p, p.level, k) THEN Apply(s, k, TRUE) ELSE s
  <2>1. r = IF t.ok THEN [t EXCEPT !.level = @ \union {k}] ELSE t
    BY <1>2 DEF LevelStep
  <2>2. MustPress(p, p.level, k) <=> k \notin s.pressed \union s.held
    BY <1>2 DEF MustPress, KeyDown, Agree
  <2>3. CASE k \in s.pressed \union s.held
    <3>1. t = s
      BY <2>2, <2>3
    <3>2. r = [s EXCEPT !.level = @ \union {k}]
      BY <1>2, <2>1, <3>1
    <3>3. /\ r \in States /\ r.level = s.level \union {k} /\ r.ok = s.ok
          /\ r.down = s.down /\ r.held = s.held /\ r.chord = s.chord
          /\ r.pressed = s.pressed
      BY <1>0, <3>2 DEF States
    <3> HIDE DEF r
    <3> QED
      BY <1>2, <2>3, <3>3 DEF Good, Elsewhere
  <2>4. CASE k \notin s.pressed \union s.held
    <3> DEFINE a == Apply(s, k, TRUE)
    <3>1. t = a
      BY <2>2, <2>4
    <3>2. /\ a \in States
          /\ a.chord = s.chord /\ a.level = s.level /\ a.held = s.held
          /\ ~a.ok => Same(s, a)
          /\ a.ok => a.down = s.down \union {k} /\ a.pressed = s.pressed \union {k}
      BY <1>0, ApplyPress
    <3> HIDE DEF a
    <3> HIDE DEF t
    <3>3. CASE ~t.ok
      <4>1. r = t
        BY <2>1, <3>3
      <4> QED
        BY <1>2, <3>1, <3>2, <3>3, <4>1 DEF Good, Elsewhere, Same
    <3>4. CASE t.ok
      <4>1. r = [t EXCEPT !.level = @ \union {k}]
        BY <2>1, <3>4
      <4>2. /\ r \in States /\ r.level = s.level \union {k} /\ r.ok
            /\ r.down = s.down \union {k} /\ r.held = s.held
            /\ r.chord = s.chord /\ r.pressed = s.pressed \union {k}
        BY <1>0, <3>1, <3>2, <3>4, <4>1 DEF States
      <4> HIDE DEF r
      <4> QED
        BY <1>2, <2>4, <4>2 DEF Good, Elsewhere
    <3> QED
      BY <3>3, <3>4
  <2> QED
    BY <2>3, <2>4
<1>3. CASE s.ok /\ k \notin w /\ k \in p.level
  <2> DEFINE t == IF MustRelease(p, p.chord, k) THEN Apply(s, k, FALSE) ELSE s
  <2>1. r = IF t.ok THEN [t EXCEPT !.level = @ \ {k}] ELSE t
    BY <1>3 DEF LevelStep
  <2>2. MustRelease(p, p.chord, k)
          <=> k \in s.pressed /\ k \notin s.held /\ k \notin s.chord
    BY <1>3 DEF MustRelease, Agree
  <2>3. CASE k \notin s.pressed \/ k \in s.chord
    <3>1. t = s
      BY <2>2, <2>3
    <3>2. r = [s EXCEPT !.level = @ \ {k}]
      BY <1>3, <2>1, <3>1
    <3>3. /\ r \in States /\ r.level = s.level \ {k} /\ r.ok = s.ok
          /\ r.down = s.down /\ r.held = s.held /\ r.chord = s.chord
          /\ r.pressed = s.pressed
      BY <1>0, <3>2 DEF States
    <3> HIDE DEF r
    <3> QED
      BY <1>3, <2>3, <3>3 DEF Good, Elsewhere
  <2>4. CASE k \in s.pressed /\ k \notin s.chord
    <3>0. k \notin s.held
      BY <2>4 DEF Good
    <3> DEFINE a == Apply(s, k, FALSE)
    <3>1. t = a
      BY <2>2, <2>4, <3>0
    <3>2. /\ a \in States
          /\ a.chord = s.chord /\ a.level = s.level /\ a.held = s.held
          /\ ~a.ok => Same(s, a)
          /\ a.ok => a.down = s.down \ {k} /\ a.pressed = s.pressed \ {k}
      BY <1>0, ApplyRelease
    <3> HIDE DEF a
    <3> HIDE DEF t
    <3>3. CASE ~t.ok
      <4>1. r = t
        BY <2>1, <3>3
      <4> QED
        BY <1>3, <3>1, <3>2, <3>3, <4>1 DEF Good, Elsewhere, Same
    <3>4. CASE t.ok
      <4>1. r = [t EXCEPT !.level = @ \ {k}]
        BY <2>1, <3>4
      <4>2. /\ r \in States /\ r.level = s.level \ {k} /\ r.ok
            /\ r.down = s.down \ {k} /\ r.held = s.held
            /\ r.chord = s.chord /\ r.pressed = s.pressed \ {k}
        BY <1>0, <3>1, <3>2, <3>4, <4>1 DEF States
      <4> HIDE DEF r
      <4> QED
        BY <1>3, <2>4, <3>0, <4>2 DEF Good, Elsewhere
    <3> QED
      BY <3>3, <3>4
  <2> QED
    BY <2>3, <2>4
<1>4. CASE s.ok /\ k \notin w /\ k \notin p.level
  <2>1. r = s
    BY <1>4 DEF LevelStep
  <2>2. k \notin s.level
    BY <1>4 DEF Agree
  <2> QED
    BY <1>4, <2>1, <2>2 DEF Elsewhere
<1> QED
  BY <1>1, <1>2, <1>3, <1>4

-----------------------------------------------------------------------------
(* Chords, levels, keys and characters.                                    *)

LEMMA Named ==
  /\ "ctrl" \in ChordKeys /\ "shift" \in ChordKeys /\ "level3" \in ChordKeys
  /\ "shift" \in LevelKeys /\ "level3" \in LevelKeys
  /\ "ctrl" \in Keys /\ "shift" \in Keys /\ "level3" \in Keys
  /\ "ctrl" # "shift" /\ "ctrl" # "level3" /\ "shift" # "level3"
BY DEF ChordKeys, LevelKeys, Keys, Modifiers

LEMMA CallCarries ==
  ASSUME NEW s, Good(s)
  PROVE  Carries(s, Call(s)) /\ Same(s, Call(s))
<1> DEFINE c == Call(s)
<1>1. c \in States /\ Same(s, c) /\ (c.ok => s.ok)
  BY CallSame DEF Good
<1> HIDE DEF c
<1>2. Carries(s, c) /\ Same(s, c)
  BY <1>1 DEF Carries, Good, Same
<1> QED
  BY <1>2 DEF c

LEMMA SyncChordResult ==
  ASSUME NEW s, Good(s), NEW w \in SUBSET ChordKeys
  PROVE  LET t == SyncChord(s, w) IN
         /\ Carries(s, t)
         /\ t.held = s.held /\ t.level = s.level
         /\ Chorded(t, w)
<1>1. CASE ~s.ok \/ (w = {} /\ s.chord = {})
  <2>1. SyncChord(s, w) = s
    BY <1>1 DEF SyncChord
  <2> QED
    BY <1>1, <2>1 DEF Carries, Chorded
<1>2. CASE ~(~s.ok \/ (w = {} /\ s.chord = {}))
  <2> DEFINE p == Call(s)
             q == ChordStep(p, p, "ctrl", w)
             r == ChordStep(p, q, "shift", w)
             t == ChordStep(p, r, "level3", w)
  <2>1. SyncChord(s, w) = t
    BY <1>2 DEF SyncChord
  <2>2. Carries(s, p) /\ Same(s, p)
    BY CallCarries
  <2> HIDE DEF p
  <2>3. Good(p) /\ p \in States
    BY <2>2 DEF Carries, Good
  <2>4. Agree(p, p, "ctrl")
    BY DEF Agree
  <2>5. /\ Good(q) /\ q.held = p.held /\ q.level = p.level /\ (q.ok => p.ok)
        /\ q.ok => ("ctrl" \in q.chord <=> "ctrl" \in w)
                   /\ ("ctrl" \in w => "ctrl" \in q.down)
        /\ Elsewhere(p, q, "ctrl")
    BY <2>3, <2>4, Named, ChordStepResult
  <2> HIDE DEF q
  <2>6. Agree(p, q, "shift")
    BY <2>5, Named DEF Agree, Elsewhere
  <2>7. /\ Good(r) /\ r.held = q.held /\ r.level = q.level /\ (r.ok => q.ok)
        /\ r.ok => ("shift" \in r.chord <=> "shift" \in w)
                   /\ ("shift" \in w => "shift" \in r.down)
        /\ Elsewhere(q, r, "shift")
    BY <2>3, <2>5, <2>6, Named, ChordStepResult
  <2> HIDE DEF r
  <2>8. Agree(p, r, "level3")
    BY <2>5, <2>7, Named DEF Agree, Elsewhere
  <2>9. /\ Good(t) /\ t.held = r.held /\ t.level = r.level /\ (t.ok => r.ok)
        /\ t.ok => ("level3" \in t.chord <=> "level3" \in w)
                   /\ ("level3" \in w => "level3" \in t.down)
        /\ Elsewhere(r, t, "level3")
    BY <2>3, <2>7, <2>8, Named, ChordStepResult
  <2> HIDE DEF t
  <2>10. Carries(s, t) /\ t.held = s.held /\ t.level = s.level
    BY <2>2, <2>5, <2>7, <2>9 DEF Carries, Same
  <2>11. ASSUME t.ok
         PROVE  \A k \in ChordKeys : (k \in t.chord <=> k \in w)
                                      /\ (k \in w => k \in t.down)
    <3>1. /\ "ctrl" \in t.chord <=> "ctrl" \in q.chord
          /\ "shift" \in t.chord <=> "shift" \in r.chord
          /\ "ctrl" \in t.down <=> "ctrl" \in q.down
          /\ "shift" \in t.down <=> "shift" \in r.down
      BY <2>7, <2>9, Named DEF Elsewhere
    <3> QED
      BY <2>5, <2>7, <2>9, <2>11, <3>1 DEF ChordKeys
  <2>12. Chorded(t, w)
    BY <2>9, <2>11 DEF Chorded, Good, States
  <2> QED
    BY <2>1, <2>10, <2>12
<1> QED
  BY <1>1, <1>2

LEMMA SyncLevelResult ==
  ASSUME NEW s, Good(s), NEW l \in SUBSET LevelKeys, NEW w, Chorded(s, w),
         w \subseteq ChordKeys
  PROVE  LET t == SyncLevel(s, l) IN
         /\ Carries(s, t)
         /\ t.held = s.held
         /\ Chorded(t, w)
         /\ Levelled(t, l)
<1>1. CASE ~s.ok \/ (l = {} /\ s.level = {})
  <2>1. SyncLevel(s, l) = s
    BY <1>1 DEF SyncLevel
  <2> QED
    BY <1>1, <2>1 DEF Carries, Levelled
<1>2. CASE ~(~s.ok \/ (l = {} /\ s.level = {}))
  <2> DEFINE p == Call(s)
             r == LevelStep(p, p, "shift", l)
             t == LevelStep(p, r, "level3", l)
  <2>1. SyncLevel(s, l) = t
    BY <1>2 DEF SyncLevel
  <2>2. Carries(s, p) /\ Same(s, p)
    BY CallCarries
  <2> HIDE DEF p
  <2>3. Good(p) /\ p \in States
    BY <2>2 DEF Carries, Good
  <2>4. Agree(p, p, "shift")
    BY DEF Agree
  <2>5. /\ Good(r) /\ r.held = p.held /\ r.chord = p.chord /\ (r.ok => p.ok)
        /\ r.ok => ("shift" \in r.level <=> "shift" \in l)
                   /\ ("shift" \in l => "shift" \in r.down)
        /\ "shift" \in p.chord /\ "shift" \in p.down => "shift" \in r.down
        /\ Elsewhere(p, r, "shift")
    BY <2>3, <2>4, Named, LevelStepResult
  <2> HIDE DEF r
  <2>6. Agree(p, r, "level3")
    BY <2>5, Named DEF Agree, Elsewhere
  <2>7. /\ Good(t) /\ t.held = r.held /\ t.chord = r.chord /\ (t.ok => r.ok)
        /\ t.ok => ("level3" \in t.level <=> "level3" \in l)
                   /\ ("level3" \in l => "level3" \in t.down)
        /\ "level3" \in r.chord /\ "level3" \in r.down => "level3" \in t.down
        /\ Elsewhere(r, t, "level3")
    BY <2>3, <2>5, <2>6, Named, LevelStepResult
  <2> HIDE DEF t
  <2>8. Carries(s, t) /\ t.held = s.held /\ t.chord = s.chord
    BY <2>2, <2>5, <2>7 DEF Carries, Same
  <2>9. Chorded(t, w)
    <3>1. \A k \in ChordKeys : k \in s.chord /\ k \in s.down => k \in t.down
      <4>1. ASSUME NEW k \in ChordKeys, k \in p.chord, k \in p.down
            PROVE  k \in r.down
        <5>1. k \in Keys
          BY DEF Keys, Modifiers
        <5> QED
          BY <2>5, <4>1, <5>1 DEF Elsewhere
      <4>2. ASSUME NEW k \in ChordKeys, k \in r.chord, k \in r.down
            PROVE  k \in t.down
        <5>1. k \in Keys
          BY DEF Keys, Modifiers
        <5> QED
          BY <2>7, <4>2, <5>1 DEF Elsewhere
      <4> QED
        BY <2>2, <2>5, <4>1, <4>2 DEF Same
    <3> QED
      BY <2>8, <3>1 DEF Chorded, Carries
  <2>10. Levelled(t, l)
    <3>1. /\ "shift" \in t.level <=> "shift" \in r.level
          /\ "shift" \in t.down <=> "shift" \in r.down
      BY <2>7, Named DEF Elsewhere
    <3>2. ASSUME t.ok
          PROVE  \A k \in LevelKeys : (k \in t.level <=> k \in l)
                                       /\ (k \in l => k \in t.down)
      BY <2>5, <2>7, <3>1, <3>2 DEF LevelKeys
    <3> QED
      BY <2>7, <3>2 DEF Levelled, Good, States
  <2> QED
    BY <2>1, <2>8, <2>9, <2>10
<1> QED
  BY <1>1, <1>2

LEMMA PlainKeyResult ==
  ASSUME NEW s, Good(s), NEW k \in PlainKeys, NEW press \in BOOLEAN
  PROVE  LET t == SendKey(s, k, press) IN
         /\ Carries(s, t)
         /\ \A w \in SUBSET ChordKeys : Chorded(s, w) => Chorded(t, w)
         /\ \A l \in SUBSET LevelKeys : Levelled(s, l) => Levelled(t, l)
<1> DEFINE t == SendKey(s, k, press)
<1>1. k \in Keys /\ k \notin ChordKeys /\ k \notin LevelKeys
  BY InjectorAssumption DEF Keys, Modifiers, ChordKeys, LevelKeys
<1>2. /\ t \in States
      /\ t.chord = s.chord /\ t.level = s.level /\ t.pressed = s.pressed
      /\ t.ok => s.ok
      /\ ~t.ok => Same(s, t)
      /\ t.ok /\ press => t.down = s.down \union {k} /\ t.held = s.held \union {k}
      /\ t.ok /\ ~press => t.down = s.down \ {k} /\ t.held = s.held \ {k}
  BY <1>1, SendKeyResult DEF Good
<1> HIDE DEF t
<1>3. Carries(s, t)
  <2>1. k \notin s.pressed
    BY <1>1 DEF Good, States
  <2> QED
    BY <1>1, <1>2, <2>1 DEF Carries, Good, Same
<1>4. ASSUME NEW w \in SUBSET ChordKeys, Chorded(s, w)
      PROVE  Chorded(t, w)
  BY <1>1, <1>2, <1>4 DEF Chorded
<1>5. ASSUME NEW l \in SUBSET LevelKeys, Levelled(s, l)
      PROVE  Levelled(t, l)
  BY <1>1, <1>2, <1>5 DEF Levelled
<1> QED
  BY <1>3, <1>4, <1>5 DEF t

LEMMA TapResult ==
  ASSUME NEW s, Good(s), NEW c \in Characters, NEW w \in SUBSET ChordKeys,
         Chorded(s, w)
  PROVE  Carries(s, Tap(s, c)) /\ Chorded(Tap(s, c), w)
<1> DEFINE p == SyncLevel(s, c.level)
           q == SendKey(p, c.key, TRUE)
           t == SendKey(q, c.key, FALSE)
<1>0. c.key \in PlainKeys /\ c.level \in SUBSET LevelKeys
  BY InjectorAssumption
<1>1. Carries(s, p) /\ Chorded(p, w)
  BY <1>0, SyncLevelResult
<1> HIDE DEF p
<1>2. Carries(p, q) /\ Chorded(q, w)
  BY <1>0, <1>1, PlainKeyResult DEF Carries
<1> HIDE DEF q
<1>3. Carries(q, t) /\ Chorded(t, w)
  BY <1>0, <1>2, PlainKeyResult DEF Carries
<1>4. t = Tap(s, c)
  BY DEF Tap, p, q
<1> HIDE DEF t
<1> QED
  BY <1>1, <1>2, <1>3, <1>4 DEF Carries

LEMMA UnwindResult ==
  ASSUME NEW s, Good(s), NEW k \in ChordKeys
  PROVE  LET t == Unwind(s, k) IN
         /\ Carries(s, t)
         /\ t.held = s.held /\ t.pressed \subseteq s.pressed
         /\ t.ok => k \notin t.pressed
<1> DEFINE t == Apply(s, k, FALSE)
<1>1. CASE s.ok /\ k \in s.pressed
  <2>1. Unwind(s, k) = t
    BY <1>1 DEF Unwind
  <2>2. /\ t \in States
        /\ t.chord = s.chord /\ t.level = s.level /\ t.held = s.held
        /\ t.ok => s.ok
        /\ ~t.ok => Same(s, t)
        /\ t.ok => t.down = s.down \ {k} /\ t.pressed = s.pressed \ {k}
    BY ApplyRelease DEF Good
  <2> HIDE DEF t
  <2> QED
    BY <1>1, <2>1, <2>2 DEF Carries, Good, Same
<1>2. CASE ~(s.ok /\ k \in s.pressed)
  <2>1. Unwind(s, k) = s
    BY <1>2 DEF Unwind
  <2> QED
    BY <1>2, <2>1 DEF Carries
<1> QED
  BY <1>1, <1>2

-----------------------------------------------------------------------------
(* Actions.                                                                *)

Inv ==
  /\ TypeOK
  /\ KeysAreAccountedFor
  /\ EveryPressIsClaimed
  /\ ChordIsExact
  /\ ClearMeansClear

(* What a step does to the modifiers the sender holds.                     *)
Keeps ==
  \A k \in ChordKeys :
    k \in held /\ k \notin down' =>
      \/ last' = [what |-> "modifier up", keys |-> {k}]
      \/ last'.what \in {"clear", "clear cut short"}

LEMMA Begins ==
  ASSUME Inv, NEW calls \in Nat, NEW s, s = Now(calls)
  PROVE  /\ Good(s) /\ s.ok
         /\ s.down = down /\ s.held = held /\ s.pressed = pressed
         /\ s.chord = chord /\ s.level = level
BY DEF Inv, TypeOK, KeysAreAccountedFor, EveryPressIsClaimed, Now, Good, States

LEMMA Lands ==
  ASSUME NEW s, Good(s), NEW what \in Deeds, NEW keys \in SUBSET Keys,
         Becomes(s, what, keys)
  PROVE  TypeOK' /\ KeysAreAccountedFor' /\ EveryPressIsClaimed'
<1>1. last' \in [what : Deeds, keys : SUBSET Keys]
  BY DEF Becomes, Deeds
<1> QED
  BY <1>1 DEF Becomes, Good, States, TypeOK, KeysAreAccountedFor,
      EveryPressIsClaimed

(* A keystroke with the chord w and the level l.                           *)
LEMMA KeystrokeLands ==
  ASSUME NEW s, Good(s), NEW w \in SUBSET ChordKeys, NEW l \in SUBSET LevelKeys,
         Chorded(s, w), Levelled(s, l), NEW keys, keys = w \union l,
         Becomes(s, "keystroke", keys),
         s.held \intersect ChordKeys = held \intersect ChordKeys
  PROVE  Inv' /\ Keeps
<1>1. keys \subseteq ChordKeys
  BY DEF ChordKeys, LevelKeys
<1>2. TypeOK' /\ KeysAreAccountedFor' /\ EveryPressIsClaimed'
  BY <1>1, Lands DEF Deeds, Keys, Modifiers
<1>3. Keeps
  BY DEF Keeps, Becomes, Good
<1>4. CASE ~s.ok
  <2>1. last'.what = "cut short"
    BY <1>4 DEF Becomes
  <2> QED
    BY <1>2, <1>3, <2>1 DEF Inv, ChordIsExact, ClearMeansClear
<1>5. CASE s.ok
  <2>1. last'.what = "keystroke" /\ last'.keys = keys
    BY <1>5 DEF Becomes
  <2>2. down' \intersect ChordKeys = (held' \intersect ChordKeys) \union keys
    BY <1>1, <1>5 DEF Becomes, Chorded, Levelled, Good
  <2> QED
    BY <1>2, <1>3, <2>1, <2>2 DEF Inv, ChordIsExact, ClearMeansClear
<1> QED
  BY <1>4, <1>5

LEMMA SpecialStep ==
  ASSUME Inv, NEW calls \in Nat, NEW k \in PlainKeys, NEW press \in BOOLEAN,
         NEW mods \in Snapshots, Special(k, press, mods, calls)
  PROVE  Inv' /\ Keeps
<1>0. mods \in SUBSET ChordKeys /\ {} \in SUBSET LevelKeys
  BY InjectorAssumption
<1>1. PICK a : a = Now(calls)
  OBVIOUS
<1>2. PICK b : b = SyncChord(a, mods)
  OBVIOUS
<1>3. PICK c : c = SyncLevel(b, {})
  OBVIOUS
<1>4. PICK d : d = SendKey(c, k, press)
  OBVIOUS
<1>5. Becomes(d, "keystroke", mods)
  BY <1>1, <1>2, <1>3, <1>4 DEF Special
<1>6. Good(a) /\ a.held = held
  BY <1>1, Begins
<1>7. Carries(a, b) /\ Chorded(b, mods)
  BY <1>0, <1>2, <1>6, SyncChordResult
<1>8. Carries(b, c) /\ Chorded(c, mods) /\ Levelled(c, {})
  BY <1>0, <1>3, <1>7, SyncLevelResult DEF Carries
<1>9. Carries(c, d) /\ Chorded(d, mods) /\ Levelled(d, {})
  BY <1>0, <1>4, <1>8, PlainKeyResult DEF Carries
<1>10. Good(d) /\ d.held \intersect ChordKeys = held \intersect ChordKeys
  BY <1>6, <1>7, <1>8, <1>9 DEF Carries
<1>11. mods = mods \union {}
  OBVIOUS
<1> QED
  BY <1>0, <1>5, <1>9, <1>10, <1>11, KeystrokeLands

LEMMA TextPressStep ==
  ASSUME Inv, NEW calls \in Nat, NEW c \in Characters, NEW mods \in Snapshots,
         TextPress(c, mods, calls)
  PROVE  Inv' /\ Keeps
<1>0. /\ TextModifiers(mods) \in SUBSET ChordKeys
      /\ c.level \in SUBSET LevelKeys /\ c.key \in PlainKeys
  BY InjectorAssumption DEF TextModifiers
<1>1. PICK w : w = TextModifiers(mods)
  OBVIOUS
<1>2. PICK s : s = Now(calls)
  OBVIOUS
<1>3. PICK a : a = Call(s)
  OBVIOUS
<1>4. PICK b : b = SyncChord(a, w)
  OBVIOUS
<1>5. PICK d : d = SyncLevel(b, c.level)
  OBVIOUS
<1>6. PICK t : t = SendKey(d, c.key, TRUE)
  OBVIOUS
<1>7. Becomes(t, "keystroke", w \union c.level)
  BY <1>1, <1>2, <1>3, <1>4, <1>5, <1>6 DEF TextPress
<1>8. Good(s) /\ s.held = held
  BY <1>2, Begins
<1>9. Carries(s, a)
  BY <1>3, <1>8, CallCarries
<1>10. Carries(a, b) /\ Chorded(b, w)
  BY <1>0, <1>1, <1>4, <1>9, SyncChordResult DEF Carries
<1>11. Carries(b, d) /\ Chorded(d, w) /\ Levelled(d, c.level)
  BY <1>0, <1>1, <1>5, <1>10, SyncLevelResult DEF Carries
<1>12. Carries(d, t) /\ Chorded(t, w) /\ Levelled(t, c.level)
  BY <1>0, <1>1, <1>6, <1>11, PlainKeyResult DEF Carries
<1>13. Good(t) /\ t.held \intersect ChordKeys = held \intersect ChordKeys
  BY <1>8, <1>9, <1>10, <1>11, <1>12 DEF Carries
<1> QED
  BY <1>0, <1>1, <1>7, <1>12, <1>13, KeystrokeLands

LEMMA TextReleaseStep ==
  ASSUME Inv, NEW calls \in Nat, NEW c \in Characters, NEW mods \in Snapshots,
         TextRelease(c, mods, calls)
  PROVE  Inv' /\ Keeps
<1>0. /\ TextModifiers(mods) \in SUBSET ChordKeys /\ {} \in SUBSET LevelKeys
      /\ c.level \in SUBSET LevelKeys /\ c.key \in PlainKeys
  BY InjectorAssumption DEF TextModifiers
<1>1. PICK w : w = TextModifiers(mods)
  OBVIOUS
<1>2. PICK s : s = Now(calls)
  OBVIOUS
<1>3. PICK a : a = Call(s)
  OBVIOUS
<1>4. PICK b : b = SyncChord(a, w)
  OBVIOUS
<1>5. PICK d : d = SyncLevel(b, c.level)
  OBVIOUS
<1>6. PICK e : e = SendKey(d, c.key, FALSE)
  OBVIOUS
<1>7. PICK t : t = SyncLevel(e, {})
  OBVIOUS
<1>8. Becomes(t, "keystroke", w)
  BY <1>1, <1>2, <1>3, <1>4, <1>5, <1>6, <1>7 DEF TextRelease
<1>9. Good(s) /\ s.held = held
  BY <1>2, Begins
<1>10. Carries(s, a)
  BY <1>3, <1>9, CallCarries
<1>11. Carries(a, b) /\ Chorded(b, w)
  BY <1>0, <1>1, <1>4, <1>10, SyncChordResult DEF Carries
<1>12. Carries(b, d) /\ Chorded(d, w)
  BY <1>0, <1>1, <1>5, <1>11, SyncLevelResult DEF Carries
<1>13. Carries(d, e) /\ Chorded(e, w)
  BY <1>0, <1>1, <1>6, <1>12, PlainKeyResult DEF Carries
<1>14. Carries(e, t) /\ Chorded(t, w) /\ Levelled(t, {})
  BY <1>0, <1>1, <1>7, <1>13, SyncLevelResult DEF Carries
<1>15. Good(t) /\ t.held \intersect ChordKeys = held \intersect ChordKeys
  BY <1>9, <1>10, <1>11, <1>12, <1>13, <1>14 DEF Carries
<1>16. w = w \union {}
  OBVIOUS
<1> QED
  BY <1>0, <1>1, <1>8, <1>14, <1>15, <1>16, KeystrokeLands

LEMMA TextComposedStep ==
  ASSUME Inv, NEW calls \in Nat, NEW c \in Characters, NEW d \in Characters,
         NEW mods \in Snapshots, TextComposed(c, d, mods, calls)
  PROVE  Inv' /\ Keeps
<1>0. TextModifiers(mods) \in SUBSET ChordKeys /\ {} \in SUBSET LevelKeys
  BY InjectorAssumption DEF TextModifiers
<1>1. PICK w : w = TextModifiers(mods)
  OBVIOUS
<1>2. PICK s : s = Now(calls)
  OBVIOUS
<1>3. PICK a : a = Call(s)
  OBVIOUS
<1>4. PICK b : b = SyncChord(a, w)
  OBVIOUS
<1>5. PICK e : e = Tap(b, c)
  OBVIOUS
<1>6. PICK g : g = Tap(e, d)
  OBVIOUS
<1>7. PICK t : t = SyncLevel(g, {})
  OBVIOUS
<1>8. Becomes(t, "keystroke", w)
  BY <1>1, <1>2, <1>3, <1>4, <1>5, <1>6, <1>7 DEF TextComposed
<1>9. Good(s) /\ s.held = held
  BY <1>2, Begins
<1>10. Carries(s, a)
  BY <1>3, <1>9, CallCarries
<1>11. Carries(a, b) /\ Chorded(b, w)
  BY <1>0, <1>1, <1>4, <1>10, SyncChordResult DEF Carries
<1>12. Carries(b, e) /\ Chorded(e, w)
  BY <1>0, <1>1, <1>5, <1>11, TapResult DEF Carries
<1>13. Carries(e, g) /\ Chorded(g, w)
  BY <1>0, <1>1, <1>6, <1>12, TapResult DEF Carries
<1>14. Carries(g, t) /\ Chorded(t, w) /\ Levelled(t, {})
  BY <1>0, <1>1, <1>7, <1>13, SyncLevelResult DEF Carries
<1>15. Good(t) /\ t.held \intersect ChordKeys = held \intersect ChordKeys
  BY <1>9, <1>10, <1>11, <1>12, <1>13, <1>14 DEF Carries
<1>16. w = w \union {}
  OBVIOUS
<1> QED
  BY <1>0, <1>1, <1>8, <1>14, <1>15, <1>16, KeystrokeLands

LEMMA TextFlushedStep ==
  ASSUME Inv, NEW calls \in Nat, NEW c \in Characters, NEW d \in Characters,
         NEW mods \in Snapshots, TextFlushed(c, d, mods, calls)
  PROVE  Inv' /\ Keeps
<1>0. TextModifiers(mods) \in SUBSET ChordKeys /\ {} \in SUBSET LevelKeys
  BY InjectorAssumption DEF TextModifiers
<1>1. PICK w : w = TextModifiers(mods)
  OBVIOUS
<1>2. PICK s : s = Now(calls)
  OBVIOUS
<1>3. PICK a : a = SyncChord(s, w)
  OBVIOUS
<1>4. PICK b : b = Call(a)
  OBVIOUS
<1>5. PICK e : e = Tap(b, c)
  OBVIOUS
<1>6. PICK f : f = SyncLevel(e, {})
  OBVIOUS
<1>7. PICK g : g = Call(f)
  OBVIOUS
<1>8. PICK h : h = Tap(g, d)
  OBVIOUS
<1>9. PICK t : t = SyncLevel(h, {})
  OBVIOUS
<1>10. Becomes(t, "keystroke", w)
  BY <1>1, <1>2, <1>3, <1>4, <1>5, <1>6, <1>7, <1>8, <1>9 DEF TextFlushed
<1>11. Good(s) /\ s.held = held
  BY <1>2, Begins
<1>12. Carries(s, a) /\ Chorded(a, w)
  BY <1>0, <1>1, <1>3, <1>11, SyncChordResult
<1>13. Carries(a, b) /\ Chorded(b, w)
  BY <1>4, <1>12, CallCarries DEF Carries, Same, Chorded
<1>14. Carries(b, e) /\ Chorded(e, w)
  BY <1>0, <1>1, <1>5, <1>13, TapResult DEF Carries
<1>15. Carries(e, f) /\ Chorded(f, w)
  BY <1>0, <1>1, <1>6, <1>14, SyncLevelResult DEF Carries
<1>16. Carries(f, g) /\ Chorded(g, w)
  BY <1>7, <1>15, CallCarries DEF Carries, Same, Chorded
<1>17. Carries(g, h) /\ Chorded(h, w)
  BY <1>0, <1>1, <1>8, <1>16, TapResult DEF Carries
<1>18. Carries(h, t) /\ Chorded(t, w) /\ Levelled(t, {})
  BY <1>0, <1>1, <1>9, <1>17, SyncLevelResult DEF Carries
<1>19. Good(t) /\ t.held \intersect ChordKeys = held \intersect ChordKeys
  BY <1>11, <1>12, <1>13, <1>14, <1>15, <1>16, <1>17, <1>18 DEF Carries
<1>20. w = w \union {}
  OBVIOUS
<1> QED
  BY <1>0, <1>1, <1>10, <1>18, <1>19, <1>20, KeystrokeLands

(* Any other step: what it leaves keeps the sender's modifiers down, but   *)
(* for those he or a release of everything has let go of.                  *)
LEMMA OtherLands ==
  ASSUME NEW s, Good(s), NEW what \in Deeds \ {"keystroke", "clear"},
         NEW keys \in SUBSET Keys, Becomes(s, what, keys)
  PROVE  Inv'
<1>1. TypeOK' /\ KeysAreAccountedFor' /\ EveryPressIsClaimed'
  BY Lands
<1>2. last'.what \notin {"keystroke", "clear"}
  BY DEF Becomes
<1> QED
  BY <1>1, <1>2 DEF Inv, ChordIsExact, ClearMeansClear

LEMMA ForwardPressStep ==
  ASSUME Inv, NEW calls \in Nat, NEW k \in Modifiers, ForwardPress(k, calls)
  PROVE  Inv' /\ Keeps
<1>0. k \in Keys /\ {} \in SUBSET Keys /\ "other" \in Deeds \ {"keystroke", "clear"}
  BY DEF Keys, Deeds
<1>1. PICK s : s = Now(calls)
  OBVIOUS
<1>2. Good(s) /\ s.held = held
  BY <1>1, Begins
<1>3. CASE KeyDown(s, k)
  <2>1. PICK t : t = TakeOver(s, k)
    OBVIOUS
  <2>2. Becomes(t, "other", {})
    BY <1>1, <1>3, <2>1 DEF ForwardPress
  <2>3. /\ t \in States /\ t.held = s.held \union {k} /\ t.pressed = s.pressed \ {k}
        /\ t.down = s.down /\ t.chord = s.chord /\ t.level = s.level
    BY <1>0, <1>2, <2>1 DEF TakeOver, Good, States
  <2>4. Good(t) /\ held \subseteq t.down
    BY <1>2, <1>3, <2>3 DEF Good, KeyDown
  <2> QED
    BY <1>0, <2>2, <2>4, OtherLands DEF Keeps, Becomes
<1>4. CASE ~KeyDown(s, k)
  <2>1. PICK t : t = SendKey(s, k, TRUE)
    OBVIOUS
  <2>2. PICK press \in BOOLEAN : press = TRUE
    OBVIOUS
  <2>3. /\ t \in States
        /\ t.chord = s.chord /\ t.level = s.level /\ t.pressed = s.pressed
        /\ ~t.ok => Same(s, t)
        /\ t.ok /\ press => t.down = s.down \union {k} /\ t.held = s.held \union {k}
    BY <1>0, <1>2, <2>1, <2>2, SendKeyResult DEF Good
  <2>4. PICK u : u = IF t.ok THEN [t EXCEPT !.pressed = @ \ {k}] ELSE t
    OBVIOUS
  <2>5. Becomes(u, "other", {})
    BY <1>1, <1>4, <2>1, <2>4 DEF ForwardPress
  <2>6. k \notin s.held /\ k \notin s.pressed
    BY <1>4 DEF KeyDown
  <2>7. CASE t.ok
    <3>1. /\ u \in States /\ u.held = s.held \union {k} /\ u.down = s.down \union {k}
          /\ u.pressed = s.pressed \ {k} /\ u.chord = s.chord /\ u.level = s.level
      BY <2>2, <2>3, <2>4, <2>7 DEF States
    <3>2. Good(u) /\ held \subseteq u.down
      BY <1>2, <2>6, <3>1 DEF Good
    <3> QED
      BY <1>0, <2>5, <3>2, OtherLands DEF Keeps, Becomes
  <2>8. CASE ~t.ok
    <3>1. u = t
      BY <2>4, <2>8
    <3>2. Good(u) /\ held \subseteq u.down
      BY <1>2, <2>3, <2>8, <3>1 DEF Good, Same
    <3> QED
      BY <1>0, <2>5, <3>2, OtherLands DEF Keeps, Becomes
  <2> QED
    BY <2>7, <2>8
<1> QED
  BY <1>3, <1>4

LEMMA ForwardReleaseStep ==
  ASSUME Inv, NEW calls \in Nat, NEW k \in Modifiers, ForwardRelease(k, calls)
  PROVE  Inv' /\ Keeps
<1>0. /\ k \in Keys /\ {k} \in SUBSET Keys
      /\ "modifier up" \in Deeds \ {"keystroke", "clear"}
  BY DEF Keys, Deeds
<1>1. PICK s : s = Now(calls)
  OBVIOUS
<1>2. Good(s) /\ s.held = held
  BY <1>1, Begins
<1>3. PICK t : t = SendKey(s, k, FALSE)
  OBVIOUS
<1>4. PICK press \in BOOLEAN : press = FALSE
  OBVIOUS
<1>5. t = SendKey(s, k, press) /\ k \in Keys /\ s \in States
  BY <1>0, <1>2, <1>3, <1>4 DEF Good
<1>6. /\ t \in States
      /\ t.chord = s.chord /\ t.level = s.level /\ t.pressed = s.pressed
      /\ ~t.ok => Same(s, t)
      /\ t.ok /\ ~press => t.down = s.down \ {k} /\ t.held = s.held \ {k}
  BY <1>5, SendKeyResult
<1>7. PICK u : u = IF t.ok THEN [t EXCEPT !.pressed = @ \ {k}] ELSE t
  OBVIOUS
<1>8. Becomes(u, "modifier up", {k})
  BY <1>1, <1>3, <1>7 DEF ForwardRelease
<1>9. CASE t.ok
  <2>1. /\ u \in States /\ u.held = s.held \ {k} /\ u.down = s.down \ {k}
        /\ u.pressed = s.pressed \ {k} /\ u.chord = s.chord /\ u.level = s.level
        /\ u.ok
    BY <1>4, <1>6, <1>7, <1>9 DEF States
  <2>2. Good(u) /\ held \ {k} \subseteq u.down
    BY <1>2, <2>1 DEF Good
  <2>3. last' = [what |-> "modifier up", keys |-> {k}]
    BY <1>8, <2>1 DEF Becomes
  <2>4. Keeps
    BY <1>8, <2>2, <2>3 DEF Keeps, Becomes
  <2> QED
    BY <1>0, <1>8, <2>2, <2>4, OtherLands
<1>10. CASE ~t.ok
  <2>1. u = t
    BY <1>7, <1>10
  <2>2. Good(u) /\ held \subseteq u.down
    BY <1>2, <1>6, <1>10, <2>1 DEF Good, Same
  <2> QED
    BY <1>0, <1>8, <2>2, OtherLands DEF Keeps, Becomes
<1> QED
  BY <1>9, <1>10

LEMMA ButtonStep ==
  ASSUME Inv, NEW calls \in Nat, NEW k \in PlainKeys, NEW press \in BOOLEAN,
         Button(k, press, calls)
  PROVE  Inv' /\ Keeps
<1>0. {} \in SUBSET Keys /\ "other" \in Deeds \ {"keystroke", "clear"}
  BY DEF Deeds
<1>1. PICK s : s = Now(calls)
  OBVIOUS
<1>2. Good(s) /\ s.held = held
  BY <1>1, Begins
<1>3. PICK t : t = SendKey(s, k, press)
  OBVIOUS
<1>4. Becomes(t, "other", {})
  BY <1>1, <1>3 DEF Button
<1>5. Carries(s, t)
  BY <1>2, <1>3, PlainKeyResult
<1>6. Keeps
  BY <1>2, <1>4, <1>5 DEF Keeps, Becomes, Carries, Good
<1> QED
  BY <1>0, <1>4, <1>5, <1>6, OtherLands DEF Carries

LEMMA TextComposedReleaseStep ==
  ASSUME Inv, NEW calls \in Nat, NEW mods \in Snapshots,
         TextComposedRelease(mods, calls)
  PROVE  Inv' /\ Keeps
<1>0. /\ TextModifiers(mods) \in SUBSET ChordKeys
      /\ {} \in SUBSET Keys /\ "other" \in Deeds \ {"keystroke", "clear"}
  BY InjectorAssumption DEF TextModifiers, Deeds
<1>1. PICK w : w = TextModifiers(mods)
  OBVIOUS
<1>2. PICK s : s = Now(calls)
  OBVIOUS
<1>3. PICK a : a = Call(s)
  OBVIOUS
<1>4. PICK t : t = SyncChord(a, w)
  OBVIOUS
<1>5. Becomes(t, "other", {})
  BY <1>1, <1>2, <1>3, <1>4 DEF TextComposedRelease
<1>6. Good(s) /\ s.held = held
  BY <1>2, Begins
<1>7. Carries(s, a)
  BY <1>3, <1>6, CallCarries
<1>8. Carries(a, t)
  BY <1>0, <1>1, <1>4, <1>7, SyncChordResult DEF Carries
<1>9. Good(t) /\ t.held \intersect ChordKeys = held \intersect ChordKeys
  BY <1>6, <1>7, <1>8 DEF Carries
<1>10. Keeps
  BY <1>5, <1>9 DEF Keeps, Becomes, Good
<1> QED
  BY <1>0, <1>5, <1>9, <1>10, OtherLands

LEMMA ReleaseAllStep ==
  ASSUME Inv, NEW calls \in Nat, NEW gone \in SUBSET held, ReleaseAll(gone, calls)
  PROVE  Inv' /\ Keeps
<1>0. {} \in SUBSET Keys /\ "clear" \in Deeds
  BY DEF Deeds
<1>1. PICK s : s = Now(calls)
  OBVIOUS
<1>2. Good(s) /\ s.held = held
  BY <1>1, Begins
<1>3. PICK a : a = [s EXCEPT !.held = @ \ gone, !.down = @ \ gone,
                             !.ok = (gone = held)]
  OBVIOUS
<1>4. /\ a \in States /\ a.held = s.held \ gone /\ a.down = s.down \ gone
      /\ a.pressed = s.pressed /\ a.chord = s.chord /\ a.level = s.level
      /\ a.ok => a.held = {}
  BY <1>2, <1>3 DEF Good, States
<1>5. Good(a)
  BY <1>2, <1>4 DEF Good
<1>6. PICK b : b = Unwind(a, "level3")
  OBVIOUS
<1>7. /\ Carries(a, b) /\ b.held = a.held /\ b.pressed \subseteq a.pressed
      /\ b.ok => "level3" \notin b.pressed
  BY <1>5, <1>6, Named, UnwindResult
<1>8. PICK c : c = Unwind(b, "shift")
  OBVIOUS
<1>9. /\ Carries(b, c) /\ c.held = b.held /\ c.pressed \subseteq b.pressed
      /\ c.ok => "shift" \notin c.pressed
  BY <1>7, <1>8, Named, UnwindResult DEF Carries
<1>10. PICK d : d = Unwind(c, "ctrl")
  OBVIOUS
<1>11. /\ Carries(c, d) /\ d.held = c.held /\ d.pressed \subseteq c.pressed
       /\ d.ok => "ctrl" \notin d.pressed
  BY <1>9, <1>10, Named, UnwindResult DEF Carries
<1>12. PICK t : t = IF d.ok THEN [d EXCEPT !.chord = {}, !.level = {}] ELSE d
  OBVIOUS
<1>13. Becomes(t, "clear", {})
  BY <1>1, <1>3, <1>6, <1>8, <1>10, <1>12 DEF ReleaseAll
<1>14. CASE d.ok
  <2>1. a.ok /\ b.ok /\ c.ok
    BY <1>7, <1>9, <1>11, <1>14 DEF Carries
  <2>2. d.held = {} /\ d.pressed = {} /\ d.down = {}
    <3>1. d.pressed \subseteq {"ctrl", "shift", "level3"}
      BY <1>11 DEF Carries, Good, States, ChordKeys
    <3>2. d.pressed = {}
      BY <1>7, <1>9, <1>11, <1>14, <2>1, <3>1
    <3> QED
      BY <1>4, <1>7, <1>9, <1>11, <2>1, <3>2 DEF Carries, Good
  <2>3. /\ t \in States /\ t.ok /\ t.held = {} /\ t.pressed = {} /\ t.down = {}
        /\ t.chord = {} /\ t.level = {}
    BY <1>11, <1>12, <1>14, <2>2 DEF Carries, Good, States
  <2>4. TypeOK' /\ KeysAreAccountedFor' /\ EveryPressIsClaimed'
    <3>1. Good(t)
      BY <2>3 DEF Good
    <3> QED
      BY <1>0, <1>13, <3>1, Lands
  <2>5. last'.what = "clear" /\ down' = {} /\ chord' = {} /\ level' = {}
    BY <1>13, <2>3 DEF Becomes
  <2> QED
    BY <2>4, <2>5 DEF Inv, ChordIsExact, ClearMeansClear, Keeps
<1>15. CASE ~d.ok
  <2>1. t = d /\ Good(t)
    BY <1>11, <1>12, <1>15 DEF Carries
  <2>2. TypeOK' /\ KeysAreAccountedFor' /\ EveryPressIsClaimed'
    BY <1>0, <1>13, <2>1, Lands
  <2>3. last'.what = "clear cut short"
    BY <1>13, <1>15, <2>1 DEF Becomes
  <2> QED
    BY <2>2, <2>3 DEF Inv, ChordIsExact, ClearMeansClear, Keeps
<1> QED
  BY <1>14, <1>15

LEMMA NextKeepsInv ==
  ASSUME Inv, Next
  PROVE  Inv' /\ Keeps
<1>1. PICK calls \in 0 .. MaxCalls :
        \/ \E k \in Modifiers : ForwardPress(k, calls) \/ ForwardRelease(k, calls)
        \/ \E k \in PlainKeys, press \in BOOLEAN : Button(k, press, calls)
        \/ \E k \in PlainKeys, press \in BOOLEAN, mods \in Snapshots :
             Special(k, press, mods, calls)
        \/ \E c \in Characters, mods \in Snapshots :
             TextPress(c, mods, calls) \/ TextRelease(c, mods, calls)
        \/ \E c, d \in Characters, mods \in Snapshots :
             TextComposed(c, d, mods, calls) \/ TextFlushed(c, d, mods, calls)
        \/ \E mods \in Snapshots : TextComposedRelease(mods, calls)
        \/ \E gone \in SUBSET held : ReleaseAll(gone, calls)
  BY DEF Next
<1>2. calls \in Nat
  BY InjectorAssumption
<1>3. CASE \E k \in Modifiers : ForwardPress(k, calls) \/ ForwardRelease(k, calls)
  BY <1>2, <1>3, ForwardPressStep, ForwardReleaseStep
<1>4. CASE \E k \in PlainKeys, press \in BOOLEAN : Button(k, press, calls)
  BY <1>2, <1>4, ButtonStep
<1>5. CASE \E k \in PlainKeys, press \in BOOLEAN, mods \in Snapshots :
             Special(k, press, mods, calls)
  BY <1>2, <1>5, SpecialStep
<1>6. CASE \E c \in Characters, mods \in Snapshots :
             TextPress(c, mods, calls) \/ TextRelease(c, mods, calls)
  BY <1>2, <1>6, TextPressStep, TextReleaseStep
<1>7. CASE \E c, d \in Characters, mods \in Snapshots :
             TextComposed(c, d, mods, calls) \/ TextFlushed(c, d, mods, calls)
  BY <1>2, <1>7, TextComposedStep, TextFlushedStep
<1>8. CASE \E gone \in SUBSET held : ReleaseAll(gone, calls)
  BY <1>2, <1>8, ReleaseAllStep
<1>9. CASE \E mods \in Snapshots : TextComposedRelease(mods, calls)
  BY <1>2, <1>9, TextComposedReleaseStep
<1> QED
  BY <1>1, <1>3, <1>4, <1>5, <1>6, <1>7, <1>8, <1>9

LEMMA InvHolds == Spec => []Inv
<1>1. Init => Inv
  BY DEF Init, Inv, TypeOK, Deeds, KeysAreAccountedFor, EveryPressIsClaimed,
      ChordIsExact, ClearMeansClear
<1>2. Inv /\ [Next]_vars => Inv'
  <2>1. ASSUME Inv, UNCHANGED vars
        PROVE  Inv'
    BY <2>1 DEF vars, Inv, TypeOK, KeysAreAccountedFor, EveryPressIsClaimed,
        ChordIsExact, ClearMeansClear
  <2> QED
    BY <2>1, NextKeepsInv
<1> QED
  BY <1>1, <1>2, PTL DEF Spec

-----------------------------------------------------------------------------
(* Theorems.                                                               *)

(* The records of inject.rs are well typed: no chord or level ever names a *)
(* key it does not drive.                                                  *)
THEOREM TypeCorrect == Spec => []TypeOK
<1>1. Inv => TypeOK
  BY DEF Inv
<1> QED
  BY <1>1, InvHolds, PTL

(* Wherever a request fails, every key the server has down is on exactly   *)
(* one of the lists release_all works off.                                 *)
THEOREM KeysAccountedFor == Spec => []KeysAreAccountedFor
<1>1. Inv => KeysAreAccountedFor
  BY DEF Inv
<1> QED
  BY <1>1, InvHolds, PTL

(* A modifier the injector pressed has a claim on it, so that the next     *)
(* sync_chord or sync_level lets it come up.                               *)
THEOREM PressesClaimed == Spec => []EveryPressIsClaimed
<1>1. Inv => EveryPressIsClaimed
  BY DEF Inv
<1> QED
  BY <1>1, InvHolds, PTL

(* A keystroke that goes through leaves exactly its own modifiers and the  *)
(* sender's down, whatever chord_plan and level_plan found on record.      *)
THEOREM ChordsExact == Spec => []ChordIsExact
<1>1. Inv => ChordIsExact
  BY DEF Inv
<1> QED
  BY <1>1, InvHolds, PTL

(* release_all, if it returns Ok, has let go of everything.                *)
THEOREM ClearIsClear == Spec => []ClearMeansClear
<1>1. Inv => ClearMeansClear
  BY DEF Inv
<1> QED
  BY <1>1, InvHolds, PTL

(* No keystroke, chord or level lifts a modifier its sender holds, whether *)
(* it goes through or fails at any of its requests.                        *)
THEOREM SenderKeeps == Spec => SenderKeepsHisModifiers
<1>1. Inv /\ [Next]_vars =>
        [\A k \in ChordKeys :
           k \in held /\ k \notin down' =>
             \/ last' = [what |-> "modifier up", keys |-> {k}]
             \/ last'.what \in {"clear", "clear cut short"}]_vars
  BY NextKeepsInv DEF Keeps
<1> QED
  BY <1>1, InvHolds, PTL DEF Spec, SenderKeepsHisModifiers

=============================================================================

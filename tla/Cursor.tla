-------------------------------- MODULE Cursor --------------------------------
(***************************************************************************)
(* The virtual cursor of one machine: a position on the arrangement of all *)
(* screens of the mesh, moved by the deltas of the local mouse.            *)
(*                                                                         *)
(* Whoever moves the mouse here moves this cursor, and the screen it is on *)
(* says which machine gets the input.  A delta that leaves the screen is   *)
(* resolved to a neighbour by the geometry of the layout; a layout can     *)
(* change under the cursor; a screen it is on can disappear.               *)
(*                                                                         *)
(* Coordinates are counted in grains, Unit of them to a unit of the        *)
(* layout: a grain stands for the fractions the code computes with - the   *)
(* NUDGE that keeps a point inside a half-open rectangle, and what a       *)
(* cursor scale leaves of a delta.  The exit point of an oblique step is   *)
(* rounded down to a grain.  Coordinates near the ends of i32, where       *)
(* Rect::right saturates, are not modelled.                                *)
(***************************************************************************)
EXTENDS Integers, Sequences

CONSTANTS
  Screen,        \* screens, as <<machine, monitor id>>
  Local,         \* this machine
  Placeholder,   \* the screen of a start with no screen anywhere
  Unit,          \* grains in a unit
  Layouts,       \* arrangements the machine adopts
  Delta,         \* raw deltas of the mouse, in its own units
  Entry          \* positions on a screen that are named to it, in halves of its extent

Owner(s) == s[1]
Node == {Owner(s) : s \in Screen}
Axis == {"x", "y"}
Point == [Axis -> Int]

(* What GlobalLayout::insert leaves, and extents without a sign.           *)
IsLayout(l) ==
  /\ l \in Seq([on : Screen, scale : Int, bounds : [low : Point, high : Point]])
  /\ \A i, j \in DOMAIN l : l[i].on = l[j].on => i = j
  /\ \A i \in DOMAIN l : \A a \in Axis : l[i].bounds.low[a] <= l[i].bounds.high[a]

ASSUME CursorAssumption ==
  /\ Screen \subseteq Nat \X Nat
  /\ Placeholder \in Screen /\ Owner(Placeholder) = Local
  /\ Unit \in Nat /\ Unit >= 2
  /\ \A l \in Layouts : IsLayout(l)
  /\ Delta \subseteq Point
  /\ Entry \subseteq [Axis -> 0..2]

VARIABLES
  layout,   \* InputRouter.layout: placements, in their order
  cursor,   \* VirtualCursor: the screen it is on, where, and motion not yet spent
  locked    \* VirtualCursor.locked

vars == <<layout, cursor, locked>>

Nudge == 1
Inset == Unit
Zero == [a \in Axis |-> 0]
Across(a) == IF a = "x" THEN "y" ELSE "x"

-----------------------------------------------------------------------------
(* Rectangles: the corners low and high, half-open.                        *)

IsEmpty(r) == \E a \in Axis : r.low[a] = r.high[a]
Inside(r, p) == \A a \in Axis : r.low[a] <= p[a] /\ p[a] < r.high[a]
RectsOverlap(r, q) ==
  /\ ~IsEmpty(r) /\ ~IsEmpty(q)
  /\ \A a \in Axis : r.low[a] < q.high[a] /\ q.low[a] < r.high[a]

Larger(m, n) == IF m < n THEN n ELSE m
Smaller(m, n) == IF m < n THEN m ELSE n
(* Mutant: the far edges count as inside.                                  *)
ClampOnto(r, p) ==
  [a \in Axis |-> Larger(r.low[a], Smaller(p[a], r.high[a]))]
Clamp(r, p) ==
  IF IsEmpty(r) THEN r.low
  ELSE [a \in Axis |-> Larger(r.low[a], Smaller(p[a], r.high[a] - Nudge))]

(* n counts halves of the extent: 1 is the middle.                         *)
Denormalize(r, n) == [a \in Axis |-> r.low[a] + (n[a] * (r.high[a] - r.low[a])) \div 2]
Middle == [a \in Axis |-> 1]

-----------------------------------------------------------------------------
(* The layout as the router reads it.                                      *)

Placed(l) == {l[i].on : i \in DOMAIN l}
Placement(l, s) == l[CHOOSE i \in DOMAIN l : l[i].on = s]
Rect(l, s) == Placement(l, s).bounds
Usable(l, s) == s \in Placed(l) /\ ~IsEmpty(Rect(l, s))

(* Where in the layout there is a screen with an extent; the first of some *)
(* such places, and those with the least score.                            *)
Screens(l) == {i \in DOMAIN l : ~IsEmpty(l[i].bounds)}
First(I) == CHOOSE i \in I : \A j \in I : i <= j
Least(I, score) == {i \in I : \A j \in I : score[i] <= score[j]}

(* Two edges across each axis.                                             *)
Edge == [axis : Axis, end : {"low", "high"}]
Opposite(e) == [e EXCEPT !.end = IF @ = "low" THEN "high" ELSE "low"]
Bound(r, e) == IF e.end = "low" THEN r.low[e.axis] ELSE r.high[e.axis]

(* How far q begins beyond edge e of r; negative when it is not that way.  *)
AxisGap(r, q, e) ==
  IF e.end = "high" THEN q.low[e.axis] - r.high[e.axis]
                    ELSE r.low[e.axis] - q.high[e.axis]

PerpendicularOffset(q, exit, e) ==
  LET a == Across(e.axis)
  IN CASE exit[a] < q.low[a]   -> q.low[a] - exit[a]
       [] exit[a] >= q.high[a] -> exit[a] - (q.high[a] - Unit)
       [] OTHER                -> 0

EntryPoint(q, exit, via) ==
  Clamp(q, [exit EXCEPT ![via.axis] =
              IF via.end = "low" THEN Bound(q, via) + Inset ELSE Bound(q, via) - Inset])

(* Mutant: an abutting screen is not beyond.                               *)
BeyondStrictly(l, s, e) ==
  {i \in Screens(l) : l[i].on # s /\ AxisGap(Rect(l, s), l[i].bounds, e) > 0}
(* The screens that lie beyond an edge.                                    *)
Beyond(l, s, e) ==
  {i \in Screens(l) : l[i].on # s /\ AxisGap(Rect(l, s), l[i].bounds, e) >= 0}

(* Where leaving s through e at exit leads: the nearest of the screens     *)
(* that cover the exit point, failing them the nearest of all.             *)
ResolveCrossing(l, s, exit, e) ==
  LET all      == Beyond(l, s, e)
      gap      == [i \in all |-> AxisGap(Rect(l, s), l[i].bounds, e)]
      off      == [i \in all |-> PerpendicularOffset(l[i].bounds, exit, e)]
      covering == {i \in all : off[i] = 0}
      nearest  == IF covering # {} THEN Least(covering, gap)
                  ELSE Least(all, [i \in all |-> gap[i] + off[i]])
      to       == l[First(nearest)]
  IN IF all = {} THEN {}
     ELSE {[to |-> to.on, at |-> EntryPoint(to.bounds, exit, Opposite(e))]}

EdgeMidpoint(r, e) ==
  [a \in Axis |-> IF a = e.axis THEN Bound(r, e) ELSE (r.low[a] + r.high[a]) \div 2]
HasNeighbour(l, s, e) ==
  s \in Placed(l) /\ ResolveCrossing(l, s, EdgeMidpoint(Rect(l, s), e), e) # {}
ExitEdges(l, s) == {e \in Edge : HasNeighbour(l, s, e)}

(* The edges that a step from p to q runs across, and the one it reaches   *)
(* first; a tie is left and right's.                                       *)
Crossed(r, p, q) ==
  {e \in Edge : /\ IF e.end = "high" THEN q[e.axis] > p[e.axis] ELSE q[e.axis] < p[e.axis]
                /\ IF e.end = "high" THEN p[e.axis] <= Bound(r, e) /\ Bound(r, e) <= q[e.axis]
                                     ELSE q[e.axis] <= Bound(r, e) /\ Bound(r, e) <= p[e.axis]}
Span(p, q, a) == Larger(p[a] - q[a], q[a] - p[a])
Reach(r, p, e) == Larger(Bound(r, e) - p[e.axis], p[e.axis] - Bound(r, e))
ReachedBefore(r, p, q, e, f) ==
  LET this == Reach(r, p, e) * Span(p, q, f.axis)
      that == Reach(r, p, f) * Span(p, q, e.axis)
  IN this < that \/ (this = that /\ (e.axis = "x" \/ f.axis = "y"))
ExitEdge(r, p, q) ==
  CHOOSE e \in Crossed(r, p, q) : \A f \in Crossed(r, p, q) : ReachedBefore(r, p, q, e, f)
ExitPoint(r, p, q, e) ==
  LET a == Across(e.axis)
  IN [p EXCEPT ![e.axis] = Bound(r, e),
               ![a] = @ + ((q[a] - @) * Reach(r, p, e)) \div Span(p, q, e.axis)]

ResolveMove(l, s, p, q) ==
  LET r == Rect(l, s)
      e == ExitEdge(r, p, q)
  IN IF Inside(r, q) \/ Crossed(r, p, q) = {} THEN {}
     ELSE ResolveCrossing(l, s, ExitPoint(r, p, q, e), e)

-----------------------------------------------------------------------------
(* The cursor.                                                             *)

(* Whole units of a number of grains, towards zero.                        *)
Whole(w) == IF w >= 0 THEN w - (w % Unit) ELSE -((-w) - ((-w) % Unit))
UnspentAll(w) == w      \* a mutant: what a step took stays banked
Unspent(w) == w - Whole(w)
EffectiveScale(gain) == IF gain > 0 THEN gain ELSE Unit

(* accumulate: the grains a delta is worth here, with what was left of the *)
(* last one, and where the whole units of them lead.                       *)
Wanted(l, c, d) ==
  [a \in Axis |-> c.rest[a] + d[a] * EffectiveScale(Placement(l, c.on).scale)]
Target(l, c, d) == [a \in Axis |-> c.at[a] + Whole(Wanted(l, c, d)[a])]

MoveBy(l, c, d) ==
  LET r      == Rect(l, c.on)
      rest   == [a \in Axis |-> Unspent(Wanted(l, c, d)[a])]
      target == Target(l, c, d)
      ways   == IF locked THEN {} ELSE ResolveMove(l, c.on, c.at, target)
  IN IF ~Usable(l, c.on) THEN {c}
     ELSE IF Inside(r, target) THEN {[c EXCEPT !.at = target, !.rest = rest]}
     ELSE IF ways = {} THEN {[c EXCEPT !.at = Clamp(r, target), !.rest = rest]}
     ELSE {[on |-> w.to, at |-> w.at, rest |-> Zero] : w \in ways}

(* warp_to: refused for a screen that is not placed, or has no extent.     *)
WarpTo(l, c, s, n) ==
  IF Usable(l, s) THEN [on |-> s, at |-> Clamp(Rect(l, s), Denormalize(Rect(l, s), n)),
                        rest |-> Zero]
  ELSE c

Parked(s) == [on |-> s, at |-> [a \in Axis |-> Unit \div 2], rest |-> Zero]

(* The first usable screen of the layout, or the placeholder.              *)
Anywhere(l) ==
  IF Screens(l) = {} THEN Parked(Placeholder)
  ELSE WarpTo(l, Parked(Placeholder), l[First(Screens(l))].on, Middle)

Mine(l) == {i \in Screens(l) : Owner(l[i].on) = Local}

(* What set_layout leaves of the cursor: a cursor whose screen is gone is  *)
(* put on a screen of this machine, failing that on any.                   *)
Rehomed(l, c) ==
  IF Usable(l, c.on) \/ Screens(l) = {} THEN c
  ELSE WarpTo(l, c, l[First(IF Mine(l) # {} THEN Mine(l) ELSE Screens(l))].on, Middle)

(* Squared distance of the centres of two screens, times four.             *)
Distance(r, q) ==
  LET off(a) == (r.low[a] + r.high[a]) - (q.low[a] + q.high[a])
  IN off("x") * off("x") + off("y") * off("y")

(* The screen a stranded cursor is rescued to, if there is one: the nearest*)
(* of this machine's, failing them the nearest in reach.                   *)
ReclaimTarget(l, c, reachable) ==
  LET elsewhere == {i \in Screens(l) : Owner(l[i].on) # Owner(c.on) /\ Owner(l[i].on) \in reachable}
      from      == IF Mine(l) # {} THEN Mine(l) ELSE elsewhere
      near      == [i \in from |-> Distance(Rect(l, c.on), l[i].bounds)]
      number    == [i \in from |-> l[i].on[2]]
  IN IF from = {} THEN {}
     ELSE {l[First(IF c.on \in Placed(l) THEN Least(Least(from, near), number) ELSE from)].on}

-----------------------------------------------------------------------------
(* What happens to it.                                                     *)

CursorInit ==
  /\ layout \in Layouts
  /\ cursor = Anywhere(layout)
  /\ locked = FALSE

(* A captured motion.  The backend says with it where the real pointer is: *)
(* when that is far from where the cursor was believed to be, on a screen  *)
(* of this machine, the cursor is first put there.                         *)
Resynced(s, n) ==
  IF Owner(cursor.on) = Local /\ Owner(s) = Local THEN WarpTo(layout, cursor, s, n) ELSE cursor

Captured(d) ==
  /\ cursor' \in MoveBy(layout, cursor, d)
  /\ UNCHANGED <<layout, locked>>

CapturedElsewhere(s, n, d) ==
  /\ Resynced(s, n) # cursor
  /\ cursor' \in MoveBy(layout, Resynced(s, n), d)
  /\ UNCHANGED <<layout, locked>>

(* A takeover by a peer, or a jump from the user interface.                *)
Warp(s, n) ==
  /\ cursor' = WarpTo(layout, cursor, s, n)
  /\ UNCHANGED <<layout, locked>>

(* Screens are arranged anew, plugged or unplugged, or a peer's arrive.    *)
SetLayout(l) ==
  /\ layout' = l
  /\ cursor' = Rehomed(l, cursor)
  /\ UNCHANGED locked

(* The machine the cursor is on is out of reach, or the user's hotkey says *)
(* so.                                                                     *)
ReclaimCursor(reachable) ==
  /\ Owner(cursor.on) # Local /\ Owner(cursor.on) \notin reachable
  /\ \E s \in ReclaimTarget(layout, cursor, reachable) : cursor' = WarpTo(layout, cursor, s, Middle)
  /\ UNCHANGED <<layout, locked>>

SetLocked ==
  /\ locked' \in BOOLEAN
  /\ UNCHANGED <<layout, cursor>>

CursorNext ==
  \/ \E d \in Delta : Captured(d)
  \/ \E s \in Screen, n \in Entry, d \in Delta : CapturedElsewhere(s, n, d)
  \/ \E s \in Screen, n \in Entry : Warp(s, n)
  \/ \E l \in Layouts : SetLayout(l)
  \/ \E reachable \in SUBSET (Node \ {Local}) : ReclaimCursor(reachable)
  \/ SetLocked

CursorSpec == CursorInit /\ [][CursorNext]_vars

-----------------------------------------------------------------------------
(* What must hold.                                                         *)

CursorTypeOK ==
  /\ layout \in Layouts
  /\ cursor \in [on : Screen, at : Point, rest : [Axis -> (1 - Unit)..(Unit - 1)]]
  /\ locked \in BOOLEAN

(* While any machine has a screen, the cursor is on one that is placed and *)
(* has an extent: plugging, unplugging and rearranging never leave it      *)
(* where no motion can move it.                                            *)
OnAScreen == (\E s \in Screen : Usable(layout, s)) => Usable(layout, cursor.on)

(* Whatever moves the cursor - a delta of any size and direction, a        *)
(* takeover, a rescue - leaves it strictly within the bounds of a usable   *)
(* screen, wherever a change of the layout had left it before.             *)
LandsInside ==
  UNCHANGED layout /\ cursor' # cursor =>
    Usable(layout, cursor'.on) /\ Inside(Rect(layout, cursor'.on), cursor'.at)

(* The rescue of set_layout and the clamping of cursor.rs together: the    *)
(* cursor never leaves the map.                                            *)
CursorStaysOnTheMap == [][OnAScreen' /\ LandsInside]_vars

(* The edges that exit_edges arms are the edges the cursor leaves by:      *)
(* pushed straight over an edge from wherever on the screen, it changes    *)
(* screens if something lies beyond the edge and stays if nothing does.    *)
PushedOver(d, e) ==
  LET r == Rect(layout, cursor.on)
      to == Target(layout, cursor, d)[e.axis]
  IN /\ ~locked /\ d[Across(e.axis)] = 0 /\ d[e.axis] # 0
     /\ Usable(layout, cursor.on) /\ Inside(r, cursor.at)
     /\ IF e.end = "high" THEN to >= Bound(r, e) ELSE to < Bound(r, e)
ArmedEdgesLeadOut ==
  \A d \in Delta, e \in Edge :
    PushedOver(d, e) => \A c \in MoveBy(layout, cursor, d) :
                          c.on # cursor.on <=> e \in ExitEdges(layout, cursor.on)

(* In a layout that validate finds no overlap in, no set of screens keeps  *)
(* the cursor from a screen that faces one of them, whatever gaps and steps*)
(* the seams have: a screen in the way is never in the way of all.  (One   *)
(* that faces none may be cut off: four around it in a square keep it out.)*)
SeamPoints(r, e) ==
  LET a == Across(e.axis)
  IN {[r.low EXCEPT ![e.axis] = Bound(r, e), ![a] = v] : v \in r.low[a] .. (r.high[a] - 1)}
OutOf(s) ==
  {t \in Screen : \E e \in Edge : \E p \in SeamPoints(Rect(layout, s), e) :
                    \E w \in ResolveCrossing(layout, s, p, e) : w.to = t}
Faces(s, t) ==
  \E e \in Edge :
    LET a == Across(e.axis)
        r == Rect(layout, s)
        q == Rect(layout, t)
    IN AxisGap(r, q, e) >= 0 /\ r.low[a] < q.high[a] /\ q.low[a] < r.high[a]
FacingScreensAreReached ==
  LET usable == {s \in Screen : Usable(layout, s)}
  IN (\A s, t \in usable : s # t => ~RectsOverlap(Rect(layout, s), Rect(layout, t))) =>
       \A S \in SUBSET usable :
         (\E s \in S, t \in usable \ S : Faces(s, t)) => \E s \in S : ~(OutOf(s) \subseteq S)

(* The geometry of the layout leads where it says, and past everything in  *)
(* the way.                                                                *)
WaysLeadOut == ArmedEdgesLeadOut /\ FacingScreensAreReached
=============================================================================

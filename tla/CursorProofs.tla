----------------------------- MODULE CursorProofs -----------------------------
(***************************************************************************)
(* Theorems about Cursor, for any screens and arrangements of them, any    *)
(* cursor speeds, deltas and positions.                                    *)
(***************************************************************************)
EXTENDS Cursor, NaturalsInduction, WellFoundedInduction, SequenceTheorems, TLAPS

Rectangle == [low : Point, high : Point]

Ordered(r) == \A a \in Axis : r.low[a] <= r.high[a]

-----------------------------------------------------------------------------
(* The first of some places, and those with the least score.               *)

LEMMA LeastNumber ==
  ASSUME NEW T \in SUBSET Nat, T # {}
  PROVE  \E t \in T : \A u \in T : t <= u
<1>1. PICK t \in T : \A u \in T : ~(<<u, t>> \in OpToRel(<, Nat))
  BY NatLessThanWellFounded, WFMin
<1>2. \A u \in T : t <= u
  <2> SUFFICES ASSUME NEW u \in T, ~(t <= u) PROVE FALSE
    OBVIOUS
  <2>1. <<u, t>> \in {p \in Nat \X Nat : p[1] < p[2]}
    OBVIOUS
  <2> QED
    BY <1>1, <2>1, Zenon DEF OpToRel
<1> QED
  BY <1>2

LEMMA FirstOfThem ==
  ASSUME NEW I \in SUBSET Nat, I # {}
  PROVE  First(I) \in I
<1>1. \E i \in I : \A j \in I : i <= j
  BY LeastNumber
<1> QED
  BY <1>1, Zenon DEF First

LEMMA LeastOfThem ==
  ASSUME NEW I, I # {}, NEW score \in [I -> Nat]
  PROVE  /\ Least(I, score) # {} /\ Least(I, score) \subseteq I
         /\ \A i \in Least(I, score) : \A j \in I : score[i] <= score[j]
<1> DEFINE T == {score[i] : i \in I}
<1>1. T \in SUBSET Nat /\ T # {}
  OBVIOUS
<1>2. PICK t \in T : \A u \in T : t <= u
  BY <1>1, LeastNumber
<1>3. PICK i \in I : score[i] = t
  BY <1>2
<1>4. \A j \in I : score[i] <= score[j]
  BY <1>2, <1>3
<1> QED
  BY <1>4 DEF Least

-----------------------------------------------------------------------------
(* Layouts.                                                                *)

LEMMA LayoutParts ==
  ASSUME NEW l, IsLayout(l)
  PROVE  /\ DOMAIN l \subseteq Nat
         /\ \A i \in DOMAIN l : /\ l[i].on \in Screen /\ l[i].scale \in Int
                                /\ l[i].bounds \in Rectangle /\ Ordered(l[i].bounds)
                                /\ Placement(l, l[i].on) = l[i] /\ Rect(l, l[i].on) = l[i].bounds
         /\ Screens(l) \subseteq DOMAIN l /\ Screens(l) \in SUBSET Nat
<1> DEFINE Placements == [on : Screen, scale : Int, bounds : [low : Point, high : Point]]
<1>1. l \in Seq(Placements)
  BY DEF IsLayout
<1>2. DOMAIN l \subseteq Nat /\ \A i \in DOMAIN l : l[i].on \in Screen /\ l[i].scale \in Int /\ l[i].bounds \in Rectangle
  <2> HIDE DEF Placements
  <2>1. DOMAIN l = 1 .. Len(l) /\ Len(l) \in Nat /\ \A i \in DOMAIN l : l[i] \in Placements
    BY <1>1, LenProperties, ElementOfSeq
  <2>2. \A q \in Placements : q.on \in Screen /\ q.scale \in Int /\ q.bounds \in Rectangle
    BY DEF Placements, Rectangle
  <2> QED
    BY <2>1, <2>2
<1>3. ASSUME NEW i \in DOMAIN l
      PROVE  Placement(l, l[i].on) = l[i]
  <2>1. (CHOOSE j \in DOMAIN l : l[j].on = l[i].on) = i
    BY DEF IsLayout
  <2> QED
    BY <2>1 DEF Placement
<1>4. \A i \in DOMAIN l : Ordered(l[i].bounds)
  BY DEF IsLayout, Ordered
<1> QED
  BY <1>2, <1>3, <1>4 DEF Rect, Screens

(* A screen is usable exactly where the layout has it with an extent.      *)
LEMMA UsableParts ==
  ASSUME NEW l, IsLayout(l), NEW s
  PROVE  /\ Usable(l, s) <=> \E i \in Screens(l) : l[i].on = s
         /\ Usable(l, s) => /\ s \in Screen /\ Rect(l, s) \in Rectangle
                            /\ \A a \in Axis : Rect(l, s).low[a] < Rect(l, s).high[a]
                            /\ Placement(l, s).scale \in Int
<1>1. \A i \in DOMAIN l : /\ l[i].on \in Screen /\ l[i].scale \in Int
                          /\ l[i].bounds \in Rectangle /\ Ordered(l[i].bounds)
                          /\ Placement(l, l[i].on) = l[i] /\ Rect(l, l[i].on) = l[i].bounds
  BY LayoutParts
<1>2. Usable(l, s) <=> \E i \in DOMAIN l : l[i].on = s /\ ~IsEmpty(Rect(l, s))
  BY DEF Usable, Placed
<1>3. Usable(l, s) <=> \E i \in Screens(l) : l[i].on = s
  BY <1>1, <1>2 DEF Screens
<1>4. ASSUME NEW i \in DOMAIN l, l[i].on = s, ~IsEmpty(Rect(l, s))
      PROVE  \A a \in Axis : Rect(l, s).low[a] < Rect(l, s).high[a]
  <2>1. Rect(l, s) = l[i].bounds /\ Rect(l, s) \in Rectangle /\ Ordered(Rect(l, s))
    BY <1>1, <1>4
  <2> DEFINE r == Rect(l, s)
  <2> HIDE DEF r
  <2>2. \A a \in Axis : r.low[a] \in Int /\ r.high[a] \in Int /\ r.low[a] <= r.high[a] /\ r.low[a] # r.high[a]
    BY <1>4, <2>1 DEF r, Rectangle, Point, Ordered, IsEmpty
  <2>3. \A a \in Axis : r.low[a] < r.high[a]
    BY <2>2
  <2> QED
    BY <2>3 DEF r
<1> QED
  BY <1>1, <1>2, <1>3, <1>4

LEMMA Anyone ==
  ASSUME NEW l, IsLayout(l)
  PROVE  Screens(l) # {} <=> \E s \in Screen : Usable(l, s)
BY UsableParts

-----------------------------------------------------------------------------
(* Rectangles.                                                             *)

LEMMA ClampsInside ==
  ASSUME NEW r \in Rectangle, \A a \in Axis : r.low[a] < r.high[a], NEW p \in Point
  PROVE  Clamp(r, p) \in Point /\ Inside(r, Clamp(r, p))
<1>1. \A a \in Axis : r.low[a] \in Int /\ r.high[a] \in Int /\ p[a] \in Int
  BY DEF Rectangle, Point
<1>2. ~IsEmpty(r)
  BY <1>1 DEF IsEmpty
<1>3. Clamp(r, p) = [a \in Axis |-> Larger(r.low[a], Smaller(p[a], r.high[a] - Nudge))]
  BY <1>2 DEF Clamp
<1>4. ASSUME NEW a \in Axis
      PROVE  LET x == Larger(r.low[a], Smaller(p[a], r.high[a] - Nudge))
             IN x \in Int /\ r.low[a] <= x /\ x < r.high[a]
  <2>1. r.low[a] \in Int /\ r.high[a] \in Int /\ p[a] \in Int /\ r.low[a] < r.high[a]
    BY <1>1
  <2> QED
    BY <2>1 DEF Larger, Smaller, Nudge
<1> QED
  BY <1>3, <1>4 DEF Point, Inside

LEMMA DenormalizeType ==
  ASSUME NEW r \in Rectangle, NEW n \in [Axis -> Int]
  PROVE  Denormalize(r, n) \in Point
<1>1. \A a \in Axis : r.low[a] \in Int /\ r.high[a] \in Int /\ n[a] \in Int
  BY DEF Rectangle, Point
<1>2. ASSUME NEW x \in Int, NEW y \in Int, NEW k \in Int PROVE x + (k * (y - x)) \div 2 \in Int
  <2>1. k * (y - x) \in Int
    OBVIOUS
  <2> QED
    BY <2>1
<1> QED
  BY <1>1, <1>2 DEF Denormalize, Point

-----------------------------------------------------------------------------
(* Crossings.                                                              *)

Covers(q, exit, e) == q.low[Across(e.axis)] <= exit[Across(e.axis)] /\ exit[Across(e.axis)] < q.high[Across(e.axis)]

LEMMA EdgeParts ==
  ASSUME NEW e \in Edge
  PROVE  /\ e.axis \in Axis /\ Across(e.axis) \in Axis /\ Across(e.axis) # e.axis
         /\ \A a \in Axis : a = e.axis \/ a = Across(e.axis)
         /\ e.end \in {"low", "high"} /\ Opposite(e) \in Edge /\ Opposite(e).axis = e.axis
         /\ e.end = "low" => Opposite(e).end = "high"
         /\ e.end = "high" => Opposite(e).end = "low"
<1>1. e.axis \in Axis /\ e.end \in {"low", "high"}
  BY DEF Edge
<1>2. Across(e.axis) \in Axis /\ Across(e.axis) # e.axis /\ \A a \in Axis : a = e.axis \/ a = Across(e.axis)
  BY <1>1 DEF Axis, Across
<1>3. /\ Opposite(e) \in Edge /\ Opposite(e).axis = e.axis
      /\ Opposite(e).end = IF e.end = "low" THEN "high" ELSE "low"
  BY DEF Edge, Opposite
<1> QED
  BY <1>1, <1>2, <1>3

LEMMA Measures ==
  ASSUME NEW r \in Rectangle, NEW q \in Rectangle, \A a \in Axis : q.low[a] < q.high[a],
         NEW e \in Edge, NEW exit \in Point
  PROVE  /\ AxisGap(r, q, e) \in Int
         /\ PerpendicularOffset(q, exit, e) \in Nat
         /\ PerpendicularOffset(q, exit, e) = 0 <=> Covers(q, exit, e)
         /\ \A via \in Edge : Bound(q, via) \in Int
<1>1. \A a \in Axis : /\ r.low[a] \in Int /\ r.high[a] \in Int /\ q.low[a] \in Int /\ q.high[a] \in Int
                      /\ exit[a] \in Int
  BY DEF Rectangle, Point
<1>2. AxisGap(r, q, e) \in Int /\ \A via \in Edge : Bound(q, via) \in Int
  BY <1>1, EdgeParts DEF AxisGap, Bound
<1>3. ASSUME NEW low \in Int, NEW high \in Int, NEW x \in Int, low < high
      PROVE  LET d == CASE x < low -> low - x [] x >= high -> x - (high - Unit) [] OTHER -> 0
             IN d \in Nat /\ (d = 0 <=> low <= x /\ x < high)
  <2>1. Unit \in Nat /\ Unit >= 2
    BY CursorAssumption
  <2> DEFINE d == CASE x < low -> low - x [] x >= high -> x - (high - Unit) [] OTHER -> 0
  <2>2. CASE x < low
    <3>1. d = low - x
      BY <1>3, <2>2
    <3> HIDE DEF d
    <3>2. d \in Nat /\ (d = 0 <=> low <= x /\ x < high)
      BY <1>3, <2>2, <3>1
    <3> QED
      BY <3>2 DEF d
  <2>3. CASE x >= high
    <3>1. d = x - (high - Unit)
      BY <1>3, <2>3
    <3> HIDE DEF d
    <3>2. d \in Nat /\ (d = 0 <=> low <= x /\ x < high)
      BY <1>3, <2>1, <2>3, <3>1
    <3> QED
      BY <3>2 DEF d
  <2>4. CASE low <= x /\ x < high
    <3>1. d = 0
      BY <1>3, <2>4
    <3> QED
      BY <2>4, <3>1
  <2> QED
    BY <2>2, <2>3, <2>4
<1>4. Across(e.axis) \in Axis
  BY EdgeParts
<1>5. PerpendicularOffset(q, exit, e) \in Nat /\ (PerpendicularOffset(q, exit, e) = 0 <=> Covers(q, exit, e))
  BY <1>1, <1>3, <1>4 DEF PerpendicularOffset, Covers
<1> QED
  BY <1>2, <1>5

LEMMA EntersInside ==
  ASSUME NEW q \in Rectangle, \A a \in Axis : q.low[a] < q.high[a], NEW exit \in Point, NEW via \in Edge
  PROVE  EntryPoint(q, exit, via) \in Point /\ Inside(q, EntryPoint(q, exit, via))
<1> DEFINE x == IF via.end = "low" THEN Bound(q, via) + Inset ELSE Bound(q, via) - Inset
           p == [exit EXCEPT ![via.axis] = x]
<1>1. Bound(q, via) \in Int /\ Inset \in Int
  BY CursorAssumption, Measures DEF Inset
<1>2. x \in Int
  BY <1>1
<1> HIDE DEF x
<1>3. p \in Point
  BY <1>2 DEF Point
<1>4. EntryPoint(q, exit, via) = Clamp(q, p)
  BY DEF EntryPoint, x
<1> QED
  BY <1>3, <1>4, ClampsInside

LEMMA BeyondParts ==
  ASSUME NEW l, IsLayout(l), NEW s, Usable(l, s), NEW e \in Edge
  PROVE  /\ Beyond(l, s, e) \in SUBSET Nat
         /\ \A i \in Beyond(l, s, e) :
              /\ i \in Screens(l) /\ l[i].on # s /\ Usable(l, l[i].on)
              /\ Rect(l, l[i].on) = l[i].bounds /\ l[i].bounds \in Rectangle
              /\ \A a \in Axis : l[i].bounds.low[a] < l[i].bounds.high[a]
              /\ AxisGap(Rect(l, s), l[i].bounds, e) \in Nat
<1>1. Beyond(l, s, e) \subseteq Screens(l) /\ Screens(l) \in SUBSET Nat /\ Screens(l) \subseteq DOMAIN l
  BY LayoutParts DEF Beyond
<1>2. ASSUME NEW i \in Beyond(l, s, e)
      PROVE  /\ l[i].on # s /\ Usable(l, l[i].on)
             /\ Rect(l, l[i].on) = l[i].bounds /\ l[i].bounds \in Rectangle
             /\ \A a \in Axis : l[i].bounds.low[a] < l[i].bounds.high[a]
             /\ AxisGap(Rect(l, s), l[i].bounds, e) \in Nat
  <2>1. i \in Screens(l) /\ i \in DOMAIN l
    BY <1>1
  <2>2. Usable(l, l[i].on)
    BY <2>1, UsableParts
  <2>3. Rect(l, l[i].on) = l[i].bounds /\ l[i].bounds \in Rectangle
    BY <2>1, LayoutParts
  <2>4. \A a \in Axis : l[i].bounds.low[a] < l[i].bounds.high[a]
    BY <2>2, <2>3, UsableParts
  <2>5. AxisGap(Rect(l, s), l[i].bounds, e) \in Int
    <3>1. Rect(l, s) \in Rectangle
      BY UsableParts
    <3>2. [a \in Axis |-> 0] \in Point
      BY DEF Point
    <3> QED
      BY <2>3, <2>4, <3>1, <3>2, Measures
  <2>6. l[i].on # s /\ AxisGap(Rect(l, s), l[i].bounds, e) >= 0
    BY DEF Beyond
  <2> QED
    BY <2>2, <2>3, <2>4, <2>5, <2>6
<1> QED
  BY <1>1, <1>2

(* A crossing leads to a screen beyond the edge, and to the nearest that   *)
(* covers the exit point if any does.                                      *)
LEMMA CrossingLeads ==
  ASSUME NEW l, IsLayout(l), NEW s, Usable(l, s), NEW e \in Edge, NEW exit \in Point, Beyond(l, s, e) # {}
  PROVE  \E i \in Beyond(l, s, e) :
           /\ ResolveCrossing(l, s, exit, e) =
                {[to |-> l[i].on, at |-> EntryPoint(l[i].bounds, exit, Opposite(e))]}
           /\ \A j \in Beyond(l, s, e) :
                Covers(l[j].bounds, exit, e) =>
                  /\ Covers(l[i].bounds, exit, e)
                  /\ AxisGap(Rect(l, s), l[i].bounds, e) <= AxisGap(Rect(l, s), l[j].bounds, e)
<1> DEFINE all == Beyond(l, s, e)
           gap == [i \in all |-> AxisGap(Rect(l, s), l[i].bounds, e)]
           off == [i \in all |-> PerpendicularOffset(l[i].bounds, exit, e)]
           sum == [i \in all |-> gap[i] + off[i]]
           covering == {i \in all : off[i] = 0}
           nearest == IF covering # {} THEN Least(covering, gap) ELSE Least(all, sum)
           i0 == First(nearest)
<1>1. all \in SUBSET Nat
  BY BeyondParts
<1>2. gap \in [all -> Nat]
  BY BeyondParts
<1>3. off \in [all -> Nat] /\ \A i \in all : off[i] = 0 <=> Covers(l[i].bounds, exit, e)
  <2>1. Rect(l, s) \in Rectangle
    BY UsableParts
  <2>2. ASSUME NEW i \in all
        PROVE  /\ PerpendicularOffset(l[i].bounds, exit, e) \in Nat
               /\ PerpendicularOffset(l[i].bounds, exit, e) = 0 <=> Covers(l[i].bounds, exit, e)
    <3>1. l[i].bounds \in Rectangle /\ \A a \in Axis : l[i].bounds.low[a] < l[i].bounds.high[a]
      BY BeyondParts
    <3> QED
      BY <2>1, <3>1, Measures
  <2> QED
    BY <2>2
<1>4. ResolveCrossing(l, s, exit, e) = {[to |-> l[i0].on, at |-> EntryPoint(l[i0].bounds, exit, Opposite(e))]}
  BY Zenon DEF ResolveCrossing
<1>5. \A i \in all : gap[i] = AxisGap(Rect(l, s), l[i].bounds, e)
  OBVIOUS
<1> HIDE DEF gap, off
<1>6. sum \in [all -> Nat]
  BY <1>2, <1>3
<1> HIDE DEF sum
<1>7. covering \subseteq all /\ all # {}
  OBVIOUS
<1> HIDE DEF all
<1>8. CASE covering # {}
  <2> DEFINE near == [i \in covering |-> gap[i]]
  <2>1. near \in [covering -> Nat] /\ \A i \in covering : near[i] = gap[i]
    BY <1>2, <1>7
  <2>2. nearest = Least(covering, near)
    BY <1>8 DEF Least
  <2> HIDE DEF near
  <2>3. nearest # {} /\ nearest \subseteq covering /\ \A i \in nearest : \A j \in covering : near[i] <= near[j]
    BY <1>8, <2>1, <2>2, LeastOfThem
  <2>4. i0 \in nearest
    BY <1>1, <1>7, <2>3, FirstOfThem
  <2> HIDE DEF nearest, i0
  <2>5. i0 \in covering /\ \A j \in covering : gap[i0] <= gap[j]
    BY <2>1, <2>3, <2>4
  <2>6. /\ i0 \in all /\ Covers(l[i0].bounds, exit, e)
        /\ \A j \in all : Covers(l[j].bounds, exit, e) =>
             AxisGap(Rect(l, s), l[i0].bounds, e) <= AxisGap(Rect(l, s), l[j].bounds, e)
    BY <1>3, <1>5, <2>5
  <2> QED
    BY <1>4, <2>6 DEF all
<1>9. CASE covering = {}
  <2>1. nearest = Least(all, sum)
    BY <1>9
  <2>2. nearest # {} /\ nearest \subseteq all
    BY <1>6, <1>7, <2>1, LeastOfThem
  <2>3. i0 \in nearest
    BY <1>1, <2>2, FirstOfThem
  <2>4. \A j \in all : ~Covers(l[j].bounds, exit, e)
    BY <1>3, <1>9
  <2> HIDE DEF nearest, i0
  <2>5. i0 \in all
    BY <2>2, <2>3
  <2> QED
    BY <1>4, <2>4, <2>5 DEF all
<1> QED
  BY <1>8, <1>9

LEMMA CrossingIff ==
  ASSUME NEW l, IsLayout(l), NEW s, Usable(l, s), NEW e \in Edge, NEW exit \in Point
  PROVE  /\ ResolveCrossing(l, s, exit, e) = {} <=> Beyond(l, s, e) = {}
         /\ \A w \in ResolveCrossing(l, s, exit, e) :
              /\ w.to # s /\ Usable(l, w.to) /\ w.at \in Point /\ Inside(Rect(l, w.to), w.at)
<1>1. CASE Beyond(l, s, e) = {}
  <2>1. ResolveCrossing(l, s, exit, e) = {}
    BY <1>1 DEF ResolveCrossing
  <2> QED
    BY <1>1, <2>1
<1>2. CASE Beyond(l, s, e) # {}
  <2>1. PICK i \in Beyond(l, s, e) :
          ResolveCrossing(l, s, exit, e) = {[to |-> l[i].on, at |-> EntryPoint(l[i].bounds, exit, Opposite(e))]}
    BY <1>2, CrossingLeads
  <2>2. /\ l[i].on # s /\ Usable(l, l[i].on) /\ Rect(l, l[i].on) = l[i].bounds /\ l[i].bounds \in Rectangle
        /\ \A a \in Axis : l[i].bounds.low[a] < l[i].bounds.high[a]
    BY BeyondParts
  <2>3. Opposite(e) \in Edge
    BY EdgeParts
  <2>4. /\ EntryPoint(l[i].bounds, exit, Opposite(e)) \in Point
        /\ Inside(l[i].bounds, EntryPoint(l[i].bounds, exit, Opposite(e)))
    BY <2>2, <2>3, EntersInside
  <2> DEFINE at == EntryPoint(l[i].bounds, exit, Opposite(e))
             w0 == [to |-> l[i].on, at |-> at]
  <2>5. w0.to = l[i].on /\ w0.at = at
    OBVIOUS
  <2>6. ResolveCrossing(l, s, exit, e) = {w0}
    BY <2>1
  <2> HIDE DEF w0
  <2>7. w0.to # s /\ Usable(l, w0.to) /\ w0.at \in Point /\ Inside(Rect(l, w0.to), w0.at)
    BY <2>2, <2>4, <2>5
  <2> QED
    BY <1>2, <2>6, <2>7
<1> QED
  BY <1>1, <1>2

-----------------------------------------------------------------------------
(* Leaving a screen.                                                       *)

LEMMA Spans ==
  ASSUME NEW p \in Point, NEW q \in Point, NEW a \in Axis
  PROVE  /\ Span(p, q, a) \in Nat
         /\ p[a] # q[a] => Span(p, q, a) > 0
<1>1. p[a] \in Int /\ q[a] \in Int
  BY DEF Point
<1> QED
  BY <1>1 DEF Span, Larger

LEMMA Reaches ==
  ASSUME NEW r \in Rectangle, NEW p \in Point, NEW e \in Edge
  PROVE  Bound(r, e) \in Int /\ Reach(r, p, e) \in Nat
<1>1. e.axis \in Axis /\ \A a \in Axis : r.low[a] \in Int /\ r.high[a] \in Int /\ p[a] \in Int
  BY EdgeParts DEF Rectangle, Point
<1>2. Bound(r, e) \in Int
  BY <1>1 DEF Bound
<1>3. p[e.axis] \in Int
  BY <1>1
<1> QED
  BY <1>2, <1>3 DEF Reach, Larger

LEMMA CrossedParts ==
  ASSUME NEW r \in Rectangle, NEW p \in Point, NEW q \in Point, NEW e \in Crossed(r, p, q)
  PROVE  /\ e \in Edge /\ p[e.axis] # q[e.axis]
         /\ \A f \in Crossed(r, p, q) : f.axis = e.axis => f = e
<1>1. /\ e \in Edge
      /\ IF e.end = "high" THEN q[e.axis] > p[e.axis] ELSE q[e.axis] < p[e.axis]
  BY DEF Crossed
<1>2. p[e.axis] \in Int /\ q[e.axis] \in Int
  BY <1>1, EdgeParts DEF Point
<1>3. ASSUME NEW f \in Crossed(r, p, q), f.axis = e.axis PROVE f = e
  <2>1. /\ f \in Edge
        /\ IF f.end = "high" THEN q[e.axis] > p[e.axis] ELSE q[e.axis] < p[e.axis]
    BY <1>3 DEF Crossed
  <2>2. f.end = "high" <=> e.end = "high"
    BY <1>1, <1>2, <2>1
  <2> QED
    BY <1>1, <1>3, <2>1, <2>2 DEF Edge
<1> QED
  BY <1>1, <1>2, <1>3

(* Two edges at most are run across, one of each axis, and one of them is  *)
(* reached first.                                                          *)
LEMMA OneExit ==
  ASSUME NEW r \in Rectangle, NEW p \in Point, NEW q \in Point, Crossed(r, p, q) # {}
  PROVE  ExitEdge(r, p, q) \in Crossed(r, p, q)
<1> DEFINE B(e, f) == ReachedBefore(r, p, q, e, f)
<1>1. ASSUME NEW e \in Crossed(r, p, q) PROVE B(e, e)
  <2>1. e.axis = "x" \/ e.axis = "y"
    BY EdgeParts, CrossedParts DEF Axis
  <2> QED
    BY <2>1 DEF ReachedBefore
<1>2. ASSUME NEW e \in Crossed(r, p, q), NEW f \in Crossed(r, p, q), e.axis = "x", f.axis = "y"
      PROVE  B(e, f) \/ B(f, e)
  <2> DEFINE this == Reach(r, p, e) * Span(p, q, f.axis)
             that == Reach(r, p, f) * Span(p, q, e.axis)
  <2>1. this \in Int /\ that \in Int
    <3>1. e \in Edge /\ f \in Edge /\ e.axis \in Axis /\ f.axis \in Axis
      BY EdgeParts, CrossedParts
    <3>2. Reach(r, p, e) \in Nat /\ Reach(r, p, f) \in Nat /\ Span(p, q, f.axis) \in Nat /\ Span(p, q, e.axis) \in Nat
      BY <3>1, Reaches, Spans
    <3>3. \A m, n \in Nat : m * n \in Int
      OBVIOUS
    <3> QED
      BY <3>2, <3>3
  <2>2. B(e, f) <=> this < that \/ this = that
    BY <1>2 DEF ReachedBefore
  <2>3. B(f, e) <=> that < this
    BY <1>2 DEF ReachedBefore
  <2> HIDE DEF this, that
  <2>4. this < that \/ this = that \/ that < this
    BY <2>1
  <2> QED
    BY <2>2, <2>3, <2>4
<1>3. \E e \in Crossed(r, p, q) : \A f \in Crossed(r, p, q) : B(e, f)
  <2>1. \A e \in Crossed(r, p, q) : e.axis \in {"x", "y"} /\ \A f \in Crossed(r, p, q) : f.axis = e.axis => f = e
    BY EdgeParts, CrossedParts DEF Axis
  <2> HIDE DEF B
  <2>2. PICK e0 \in Crossed(r, p, q) : TRUE
    OBVIOUS
  <2>3. CASE \A f \in Crossed(r, p, q) : f = e0
    BY <1>1, <2>2, <2>3
  <2>4. CASE \E f \in Crossed(r, p, q) : f # e0
    <3>1. PICK f0 \in Crossed(r, p, q) : f0 # e0
      BY <2>4
    <3>2. \E e \in Crossed(r, p, q), f \in Crossed(r, p, q) : e.axis = "x" /\ f.axis = "y"
      BY <2>1, <2>2, <3>1
    <3>3. PICK e \in Crossed(r, p, q), f \in Crossed(r, p, q) : e.axis = "x" /\ f.axis = "y"
      BY <3>2
    <3>4. \A g \in Crossed(r, p, q) : g = e \/ g = f
      BY <2>1, <3>3
    <3> QED
      BY <1>1, <1>2, <3>3, <3>4
  <2> QED
    BY <2>3, <2>4
<1> QED
  BY <1>3, Zenon DEF ExitEdge

LEMMA ExitsAtPoint ==
  ASSUME NEW r \in Rectangle, NEW p \in Point, NEW q \in Point, NEW e \in Crossed(r, p, q)
  PROVE  ExitPoint(r, p, q, e) \in Point
<1> DEFINE a == Across(e.axis)
           x == p[a] + ((q[a] - p[a]) * Reach(r, p, e)) \div Span(p, q, e.axis)
<1>1. e \in Edge /\ e.axis \in Axis /\ a \in Axis /\ a # e.axis /\ p[e.axis] # q[e.axis]
  BY CrossedParts, EdgeParts
<1>2. Bound(r, e) \in Int /\ Reach(r, p, e) \in Nat /\ Span(p, q, e.axis) \in Nat /\ Span(p, q, e.axis) > 0
  BY <1>1, Reaches, Spans
<1>3. p[a] \in Int /\ q[a] \in Int
  BY <1>1 DEF Point
<1>4. \A u, v \in Int, m, n \in Nat : n > 0 => u + ((v - u) * m) \div n \in Int
  <2> SUFFICES ASSUME NEW u \in Int, NEW v \in Int, NEW m \in Nat, NEW n \in Nat, n > 0
               PROVE  u + ((v - u) * m) \div n \in Int
    OBVIOUS
  <2>1. (v - u) * m \in Int
    OBVIOUS
  <2> DEFINE w == (v - u) * m
  <2> HIDE DEF w
  <2>2. w \div n \in Int
    BY <2>1 DEF w
  <2> QED
    BY <2>2 DEF w
<1>5. x \in Int
  BY <1>2, <1>3, <1>4
<1>6. ExitPoint(r, p, q, e) = [p EXCEPT ![e.axis] = Bound(r, e), ![a] = x]
  BY <1>1 DEF ExitPoint, Point
<1> HIDE DEF x
<1> QED
  BY <1>1, <1>2, <1>5, <1>6 DEF Point

-----------------------------------------------------------------------------
(* What moves the cursor puts it inside a usable screen.                   *)

Cursors == [on : Screen, at : Point, rest : [Axis -> (1 - Unit)..(Unit - 1)]]

Lands(l, c) == Usable(l, c.on) /\ Inside(Rect(l, c.on), c.at)

LEMMA Fractions ==
  ASSUME NEW w \in Int
  PROVE  /\ Whole(w) \in Int /\ Unspent(w) \in (1 - Unit)..(Unit - 1)
         /\ w \in (1 - Unit)..(Unit - 1) => Whole(w) = 0
<1>1. Unit \in Nat /\ Unit >= 2
  BY CursorAssumption
<1>2. ASSUME NEW v \in Nat PROVE v % Unit \in 0 .. (Unit - 1) /\ (v < Unit => v % Unit = v)
  BY <1>1
<1>3. CASE w >= 0
  <2>1. Whole(w) = w - (w % Unit)
    BY <1>3 DEF Whole
  <2>2. w % Unit \in 0 .. (Unit - 1) /\ (w < Unit => w % Unit = w)
    BY <1>2, <1>3
  <2> DEFINE m == w % Unit
  <2> HIDE DEF m
  <2>3. Whole(w) = w - m /\ m \in 0 .. (Unit - 1) /\ (w < Unit => m = w)
    BY <2>1, <2>2 DEF m
  <2> QED
    BY <1>1, <2>3 DEF Unspent
<1>4. CASE w < 0
  <2>1. Whole(w) = -((-w) - ((-w) % Unit))
    BY <1>4 DEF Whole
  <2>2. (-w) % Unit \in 0 .. (Unit - 1) /\ (-w < Unit => (-w) % Unit = -w)
    BY <1>2, <1>4
  <2> DEFINE m == (-w) % Unit
  <2> HIDE DEF m
  <2>3. Whole(w) = -((-w) - m) /\ m \in 0 .. (Unit - 1) /\ (-w < Unit => m = -w)
    BY <2>1, <2>2 DEF m
  <2> QED
    BY <1>1, <1>4, <2>3 DEF Unspent
<1> QED
  BY <1>3, <1>4

LEMMA Accumulates ==
  ASSUME NEW l, IsLayout(l), NEW c \in Cursors, Usable(l, c.on), NEW d \in Point
  PROVE  /\ \A a \in Axis : Wanted(l, c, d)[a] \in Int
         /\ [a \in Axis |-> Unspent(Wanted(l, c, d)[a])] \in [Axis -> (1 - Unit)..(Unit - 1)]
         /\ Target(l, c, d) \in Point
         /\ \A a \in Axis : d[a] = 0 => Target(l, c, d)[a] = c.at[a]
<1> DEFINE gain == EffectiveScale(Placement(l, c.on).scale)
<1>1. gain \in Int /\ Unit \in Nat
  BY CursorAssumption, UsableParts DEF EffectiveScale
<1>2. \A a \in Axis : c.rest[a] \in (1 - Unit)..(Unit - 1) /\ c.at[a] \in Int /\ d[a] \in Int
  BY DEF Cursors, Point
<1>3. Wanted(l, c, d) = [a \in Axis |-> c.rest[a] + d[a] * gain]
  BY DEF Wanted
<1> HIDE DEF gain
<1>4. ASSUME NEW a \in Axis
      PROVE  /\ Wanted(l, c, d)[a] \in Int
             /\ d[a] = 0 => Wanted(l, c, d)[a] \in (1 - Unit)..(Unit - 1)
  <2>1. c.rest[a] \in Int /\ d[a] * gain \in Int
    BY <1>1, <1>2
  <2>2. d[a] = 0 => d[a] * gain = 0
    BY <1>1
  <2> QED
    BY <1>1, <1>2, <1>3, <2>1, <2>2
<1>5. [a \in Axis |-> Unspent(Wanted(l, c, d)[a])] \in [Axis -> (1 - Unit)..(Unit - 1)]
  BY <1>4, Fractions
<1>6. ASSUME NEW a \in Axis
      PROVE  /\ c.at[a] + Whole(Wanted(l, c, d)[a]) \in Int
             /\ d[a] = 0 => c.at[a] + Whole(Wanted(l, c, d)[a]) = c.at[a]
  BY <1>2, <1>4, Fractions
<1>7. Target(l, c, d) = [a \in Axis |-> c.at[a] + Whole(Wanted(l, c, d)[a])]
  BY DEF Target
<1> QED
  BY <1>4, <1>5, <1>6, <1>7 DEF Point

LEMMA MovesTo ==
  ASSUME NEW l, IsLayout(l), NEW c \in Cursors, NEW d \in Point, NEW moved \in MoveBy(l, c, d)
  PROVE  moved \in Cursors /\ (moved = c \/ Lands(l, moved))
<1> DEFINE r      == Rect(l, c.on)
           rest   == [a \in Axis |-> Unspent(Wanted(l, c, d)[a])]
           target == Target(l, c, d)
           ways   == IF locked THEN {} ELSE ResolveMove(l, c.on, c.at, target)
<1>1. CASE ~Usable(l, c.on)
  BY <1>1 DEF MoveBy
<1>2. CASE Usable(l, c.on)
  <2>1. rest \in [Axis -> (1 - Unit)..(Unit - 1)] /\ target \in Point
    BY <1>2, Accumulates
  <2>2. r \in Rectangle /\ \A a \in Axis : r.low[a] < r.high[a]
    BY <1>2, UsableParts
  <2>3. \/ Inside(r, target) /\ moved = [c EXCEPT !.at = target, !.rest = rest]
        \/ moved = [c EXCEPT !.at = Clamp(r, target), !.rest = rest]
        \/ \E w \in ways : moved = [on |-> w.to, at |-> w.at, rest |-> Zero]
    BY <1>2 DEF MoveBy
  <2>4. Clamp(r, target) \in Point /\ Inside(r, Clamp(r, target))
    BY <2>1, <2>2, ClampsInside
  <2>5. ASSUME NEW x \in Point, Inside(r, x), moved = [c EXCEPT !.at = x, !.rest = rest]
        PROVE  moved \in Cursors /\ Lands(l, moved)
    <3> HIDE DEF rest
    <3>1. moved \in Cursors
      BY <2>1, <2>5 DEF Cursors
    <3>2. moved.on = c.on /\ moved.at = x
      BY <2>5 DEF Cursors
    <3> QED
      BY <1>2, <2>5, <3>1, <3>2 DEF Lands
  <2>6. ASSUME NEW w \in ways, moved = [on |-> w.to, at |-> w.at, rest |-> Zero]
        PROVE  moved \in Cursors /\ Lands(l, moved)
    <3>1. w \in ResolveMove(l, c.on, c.at, target) /\ Crossed(r, c.at, target) # {}
      BY <2>6 DEF ResolveMove
    <3> DEFINE e == ExitEdge(r, c.at, target)
               exit == ExitPoint(r, c.at, target, e)
    <3>2. c.at \in Point
      BY DEF Cursors
    <3>3. e \in Crossed(r, c.at, target)
      BY <2>1, <2>2, <3>1, <3>2, OneExit
    <3>4. e \in Edge /\ exit \in Point
      BY <2>1, <2>2, <3>2, <3>3, CrossedParts, ExitsAtPoint
    <3>5. w \in ResolveCrossing(l, c.on, exit, e)
      BY <3>1 DEF ResolveMove
    <3> HIDE DEF e, exit
    <3>6. Usable(l, w.to) /\ w.at \in Point /\ Inside(Rect(l, w.to), w.at)
      BY <1>2, <3>4, <3>5, CrossingIff
    <3>7. w.to \in Screen
      BY <3>6, UsableParts
    <3>8. Zero \in [Axis -> (1 - Unit)..(Unit - 1)]
      BY CursorAssumption DEF Zero
    <3>9. moved \in Cursors /\ moved.on = w.to /\ moved.at = w.at
      BY <2>6, <3>6, <3>7, <3>8 DEF Cursors
    <3> QED
      BY <3>6, <3>9 DEF Lands
  <2> HIDE DEF rest, ways, target, r
  <2> QED
    BY <2>1, <2>3, <2>4, <2>5, <2>6
<1> QED
  BY <1>1, <1>2

LEMMA WarpsTo ==
  ASSUME NEW l, IsLayout(l), NEW c \in Cursors, NEW s, NEW n \in [Axis -> Int]
  PROVE  /\ WarpTo(l, c, s, n) \in Cursors
         /\ WarpTo(l, c, s, n) = c \/ Lands(l, WarpTo(l, c, s, n))
         /\ Usable(l, s) => Lands(l, WarpTo(l, c, s, n))
<1> DEFINE r == Rect(l, s)
           p == Clamp(r, Denormalize(r, n))
           warped == [on |-> s, at |-> p, rest |-> Zero]
<1>1. CASE ~Usable(l, s)
  BY <1>1 DEF WarpTo
<1>2. CASE Usable(l, s)
  <2>1. r \in Rectangle /\ s \in Screen /\ \A a \in Axis : r.low[a] < r.high[a]
    BY <1>2, UsableParts
  <2>2. p \in Point /\ Inside(r, p)
    BY <2>1, DenormalizeType, ClampsInside
  <2>3. WarpTo(l, c, s, n) = warped
    BY <1>2 DEF WarpTo
  <2>4. Zero \in [Axis -> (1 - Unit)..(Unit - 1)]
    BY CursorAssumption DEF Zero
  <2> HIDE DEF p
  <2>5. warped \in Cursors /\ warped.on = s /\ warped.at = p
    BY <2>1, <2>2, <2>4 DEF Cursors
  <2> HIDE DEF warped
  <2> QED
    BY <1>2, <2>2, <2>3, <2>5 DEF Lands
<1> QED
  BY <1>1, <1>2

LEMMA MiddleType == Middle \in [Axis -> Int]
BY DEF Middle

LEMMA ParkedType ==
  ASSUME NEW s \in Screen
  PROVE  Parked(s) \in Cursors
<1>1. Unit \div 2 \in Int /\ Zero \in [Axis -> (1 - Unit)..(Unit - 1)]
  BY CursorAssumption DEF Zero
<1> QED
  BY <1>1 DEF Parked, Cursors, Point

(* A place among the screens of a layout is that of a usable one.          *)
LEMMA FirstIsUsable ==
  ASSUME NEW l, IsLayout(l), NEW I \in SUBSET Screens(l), I # {}
  PROVE  Usable(l, l[First(I)].on)
<1>1. I \in SUBSET Nat
  BY LayoutParts
<1>2. First(I) \in I
  BY <1>1, FirstOfThem
<1> QED
  BY <1>2, UsableParts

LEMMA StartsAt ==
  ASSUME NEW l, IsLayout(l)
  PROVE  Anywhere(l) \in Cursors /\ (Screens(l) # {} => Lands(l, Anywhere(l)))
<1>1. Parked(Placeholder) \in Cursors
  BY ParkedType, CursorAssumption
<1>2. CASE Screens(l) = {}
  BY <1>1, <1>2 DEF Anywhere
<1>3. CASE Screens(l) # {}
  <2>1. Usable(l, l[First(Screens(l))].on)
    BY <1>3, FirstIsUsable
  <2> QED
    BY <1>1, <1>3, <2>1, WarpsTo, MiddleType DEF Anywhere
<1> QED
  BY <1>2, <1>3

LEMMA RehomesTo ==
  ASSUME NEW l, IsLayout(l), NEW c \in Cursors
  PROVE  /\ Rehomed(l, c) \in Cursors
         /\ Rehomed(l, c) = c \/ Lands(l, Rehomed(l, c))
         /\ Screens(l) # {} => Usable(l, Rehomed(l, c).on)
<1>1. CASE Usable(l, c.on) \/ Screens(l) = {}
  BY <1>1 DEF Rehomed
<1>2. CASE ~(Usable(l, c.on) \/ Screens(l) = {})
  <2> DEFINE I == IF Mine(l) # {} THEN Mine(l) ELSE Screens(l)
  <2>1. I \in SUBSET Screens(l) /\ I # {}
    BY <1>2 DEF Mine
  <2>2. Rehomed(l, c) = WarpTo(l, c, l[First(I)].on, Middle)
    BY <1>2 DEF Rehomed
  <2> HIDE DEF I
  <2>3. Usable(l, l[First(I)].on)
    BY <2>1, FirstIsUsable
  <2> QED
    BY <2>2, <2>3, WarpsTo, MiddleType DEF Lands
<1> QED
  BY <1>1, <1>2

-----------------------------------------------------------------------------
(* Every step leaves the cursor where it was or inside a usable screen.    *)

LEMMA Entries ==
  /\ Delta \subseteq Point /\ Entry \subseteq [Axis -> Int]
  /\ \A l \in Layouts : IsLayout(l)
<1>1. \A n \in [Axis -> 0 .. 2] : n \in [Axis -> Int]
  OBVIOUS
<1> QED
  BY <1>1, CursorAssumption

LEMMA Settles ==
  ASSUME CursorTypeOK, OnAScreen, layout' = layout, cursor' \in Cursors,
         cursor' = cursor \/ Lands(layout, cursor'), locked' \in BOOLEAN
  PROVE  CursorTypeOK' /\ OnAScreen' /\ LandsInside
<1>1. CursorTypeOK'
  BY DEF CursorTypeOK, Cursors
<1>2. OnAScreen'
  BY DEF OnAScreen, Lands
<1>3. LandsInside
  BY DEF LandsInside, Lands
<1> QED
  BY <1>1, <1>2, <1>3

LEMMA EveryStepSettles ==
  ASSUME CursorTypeOK, OnAScreen, [CursorNext]_vars
  PROVE  CursorTypeOK' /\ OnAScreen' /\ LandsInside
<1>1. IsLayout(layout) /\ cursor \in Cursors /\ locked \in BOOLEAN
  BY Entries DEF CursorTypeOK, Cursors
<1>2. ASSUME NEW d \in Delta, Captured(d) PROVE CursorTypeOK' /\ OnAScreen' /\ LandsInside
  <2>1. cursor' \in Cursors /\ (cursor' = cursor \/ Lands(layout, cursor'))
    BY <1>1, <1>2, MovesTo, Entries DEF Captured
  <2> QED
    BY <1>1, <1>2, <2>1, Settles DEF Captured
<1>3. ASSUME NEW s \in Screen, NEW n \in Entry, NEW d \in Delta, CapturedElsewhere(s, n, d)
      PROVE  CursorTypeOK' /\ OnAScreen' /\ LandsInside
  <2>1. Resynced(s, n) \in Cursors /\ (Resynced(s, n) = cursor \/ Lands(layout, Resynced(s, n)))
    BY <1>1, WarpsTo, Entries DEF Resynced
  <2>2. /\ cursor' \in MoveBy(layout, Resynced(s, n), d)
        /\ layout' = layout /\ locked' = locked
    BY <1>3 DEF CapturedElsewhere
  <2>3. d \in Point
    BY Entries
  <2>4. cursor' \in Cursors /\ (cursor' = Resynced(s, n) \/ Lands(layout, cursor'))
    BY <1>1, <2>1, <2>2, <2>3, MovesTo
  <2> QED
    BY <1>1, <2>1, <2>2, <2>4, Settles
<1>4. ASSUME NEW s \in Screen, NEW n \in Entry, Warp(s, n)
      PROVE  CursorTypeOK' /\ OnAScreen' /\ LandsInside
  <2>1. cursor' \in Cursors /\ (cursor' = cursor \/ Lands(layout, cursor'))
    BY <1>1, <1>4, WarpsTo, Entries DEF Warp
  <2> QED
    BY <1>1, <1>4, <2>1, Settles DEF Warp
<1>5. ASSUME NEW l \in Layouts, SetLayout(l) PROVE CursorTypeOK' /\ OnAScreen' /\ LandsInside
  <2>1. IsLayout(l) /\ layout' = l /\ cursor' = Rehomed(l, cursor) /\ locked' = locked
    BY <1>5, Entries DEF SetLayout
  <2>2. /\ cursor' \in Cursors /\ (cursor' = cursor \/ Lands(l, cursor'))
        /\ Screens(l) # {} => Usable(l, cursor'.on)
    BY <1>1, <2>1, RehomesTo
  <2>3. CursorTypeOK'
    BY <1>1, <2>1, <2>2 DEF CursorTypeOK, Cursors
  <2>4. OnAScreen'
    BY <2>1, <2>2, Anyone DEF OnAScreen
  <2>5. LandsInside
    BY <2>1, <2>2 DEF LandsInside, Lands
  <2> QED
    BY <2>3, <2>4, <2>5
<1>6. ASSUME NEW reachable \in SUBSET (Node \ {Local}), ReclaimCursor(reachable)
      PROVE  CursorTypeOK' /\ OnAScreen' /\ LandsInside
  <2>1. PICK s \in ReclaimTarget(layout, cursor, reachable) : cursor' = WarpTo(layout, cursor, s, Middle)
    BY <1>6 DEF ReclaimCursor
  <2>2. cursor' \in Cursors /\ (cursor' = cursor \/ Lands(layout, cursor'))
    BY <1>1, <2>1, WarpsTo, MiddleType
  <2> QED
    BY <1>1, <1>6, <2>2, Settles DEF ReclaimCursor
<1>7. CASE SetLocked
  BY <1>1, <1>7, Settles DEF SetLocked
<1>8. CASE UNCHANGED vars
  BY <1>1, <1>8, Settles DEF vars
<1> QED
  BY <1>2, <1>3, <1>4, <1>5, <1>6, <1>7, <1>8 DEF CursorNext

LEMMA StartsSettled ==
  ASSUME CursorInit
  PROVE  CursorTypeOK /\ OnAScreen
<1>1. IsLayout(layout) /\ layout \in Layouts /\ cursor = Anywhere(layout) /\ locked = FALSE
  BY Entries DEF CursorInit
<1>2. cursor \in Cursors /\ (Screens(layout) # {} => Lands(layout, cursor))
  BY <1>1, StartsAt
<1>3. CursorTypeOK
  BY <1>1, <1>2 DEF CursorTypeOK, Cursors
<1>4. OnAScreen
  BY <1>1, <1>2, Anyone DEF OnAScreen, Lands
<1> QED
  BY <1>3, <1>4

(* The cursor is a screen with a position and less than a unit of motion   *)
(* left over, whatever accumulate banks and whatever moves it.             *)
THEOREM CursorTypeCorrect == CursorSpec => []CursorTypeOK
<1>1. CursorInit => CursorTypeOK /\ OnAScreen
  BY StartsSettled
<1>2. CursorTypeOK /\ OnAScreen /\ [CursorNext]_vars => CursorTypeOK' /\ OnAScreen'
  BY EveryStepSettles
<1> QED
  BY <1>1, <1>2, PTL DEF CursorSpec

(* Whatever happens - a delta of any size, a takeover, a rescue, a screen  *)
(* unplugged under it - the cursor is on a screen with an extent while     *)
(* there is one, and whatever moves it leaves it strictly within one.      *)
THEOREM CursorOnTheMap == CursorSpec => CursorStaysOnTheMap
<1>1. CursorInit => CursorTypeOK /\ OnAScreen
  BY StartsSettled
<1>2. CursorTypeOK /\ OnAScreen /\ [CursorNext]_vars => CursorTypeOK' /\ OnAScreen' /\ LandsInside
  BY EveryStepSettles
<1>3. CursorTypeOK /\ OnAScreen /\ [CursorNext]_vars => [OnAScreen' /\ LandsInside]_vars
  BY <1>2
<1> QED
  BY <1>1, <1>2, <1>3, PTL DEF CursorSpec, CursorStaysOnTheMap

-----------------------------------------------------------------------------
(* The edges the router arms are the edges the cursor leaves by.           *)

LEMMA Armed ==
  ASSUME NEW l, IsLayout(l), NEW s, Usable(l, s), NEW e \in Edge
  PROVE  e \in ExitEdges(l, s) <=> Beyond(l, s, e) # {}
<1> DEFINE r == Rect(l, s)
<1>1. r \in Rectangle /\ s \in Placed(l)
  BY UsableParts DEF Usable
<1>2. \A a \in Axis : r.low[a] \in Int /\ r.high[a] \in Int
  BY <1>1 DEF Rectangle, Point
<1>3. Bound(r, e) \in Int /\ \A a \in Axis : (r.low[a] + r.high[a]) \div 2 \in Int
  BY <1>2, EdgeParts DEF Bound
<1> HIDE DEF r
<1>4. EdgeMidpoint(r, e) \in Point
  BY <1>3 DEF EdgeMidpoint, Point
<1>5. HasNeighbour(l, s, e) <=> ResolveCrossing(l, s, EdgeMidpoint(r, e), e) # {}
  BY <1>1 DEF HasNeighbour, r
<1> QED
  BY <1>4, <1>5, CrossingIff DEF ExitEdges

(* A straight push runs across one edge only.                              *)
LEMMA StraightPush ==
  ASSUME NEW r \in Rectangle, NEW p \in Point, NEW q \in Point, NEW e \in Edge, Inside(r, p),
         q[Across(e.axis)] = p[Across(e.axis)],
         IF e.end = "high" THEN q[e.axis] >= Bound(r, e) ELSE q[e.axis] < Bound(r, e)
  PROVE  ~Inside(r, q) /\ Crossed(r, p, q) # {} /\ ExitEdge(r, p, q) = e
<1> DEFINE x == e.axis
<1>1. /\ x \in Axis /\ e.end \in {"low", "high"}
      /\ p[x] \in Int /\ q[x] \in Int /\ r.low[x] \in Int /\ r.high[x] \in Int
      /\ r.low[x] <= p[x] /\ p[x] < r.high[x]
  BY EdgeParts DEF Rectangle, Point, Inside
<1>2. Bound(r, e) = IF e.end = "low" THEN r.low[x] ELSE r.high[x]
  BY DEF Bound
<1>3. ~Inside(r, q)
  BY <1>1, <1>2 DEF Inside
<1>4. e \in Crossed(r, p, q)
  BY <1>1, <1>2 DEF Crossed
<1>5. ExitEdge(r, p, q) \in Crossed(r, p, q)
  BY <1>4, OneExit
<1> DEFINE f == ExitEdge(r, p, q)
<1> HIDE DEF f
<1>6. f \in Crossed(r, p, q)
  BY <1>5 DEF f
<1>7. f.axis \in Axis /\ p[f.axis] # q[f.axis]
  BY <1>6, CrossedParts, EdgeParts
<1>8. f.axis = e.axis
  BY <1>7, EdgeParts
<1>9. f = e
  BY <1>4, <1>6, <1>8, CrossedParts
<1> QED
  BY <1>3, <1>4, <1>9 DEF f

LEMMA ArmedEdgesAreWays ==
  ASSUME CursorTypeOK
  PROVE  ArmedEdgesLeadOut
<1>1. IsLayout(layout) /\ cursor \in Cursors
  BY Entries DEF CursorTypeOK, Cursors
<1> SUFFICES ASSUME NEW d \in Delta, NEW e \in Edge, PushedOver(d, e), NEW c \in MoveBy(layout, cursor, d)
             PROVE  c.on # cursor.on <=> e \in ExitEdges(layout, cursor.on)
  BY DEF ArmedEdgesLeadOut
<1> DEFINE s      == cursor.on
           r      == Rect(layout, s)
           rest   == [a \in Axis |-> Unspent(Wanted(layout, cursor, d)[a])]
           target == Target(layout, cursor, d)
           exit   == ExitPoint(r, cursor.at, target, e)
           ways   == ResolveMove(layout, s, cursor.at, target)
<1>2. /\ ~locked /\ d[Across(e.axis)] = 0 /\ Usable(layout, s) /\ Inside(r, cursor.at)
      /\ IF e.end = "high" THEN target[e.axis] >= Bound(r, e) ELSE target[e.axis] < Bound(r, e)
  BY DEF PushedOver
<1>3. r \in Rectangle /\ cursor.at \in Point /\ d \in Point
  BY <1>1, <1>2, UsableParts, Entries DEF Cursors
<1>4. target \in Point /\ target[Across(e.axis)] = cursor.at[Across(e.axis)]
  BY <1>1, <1>2, <1>3, Accumulates, EdgeParts
<1>5. ~Inside(r, target) /\ Crossed(r, cursor.at, target) # {} /\ ExitEdge(r, cursor.at, target) = e
  <2> HIDE DEF r, target
  <2> QED
    BY <1>2, <1>3, <1>4, StraightPush
<1>6. exit \in Point
  BY <1>3, <1>4, <1>5, OneExit, ExitsAtPoint
<1>7. ways = ResolveCrossing(layout, s, exit, e)
  BY <1>5 DEF ResolveMove
<1>8. \/ ways = {} /\ c = [cursor EXCEPT !.at = Clamp(r, target), !.rest = rest]
      \/ \E w \in ways : c = [on |-> w.to, at |-> w.at, rest |-> Zero]
  BY <1>2, <1>5 DEF MoveBy
<1> HIDE DEF exit, ways, target, rest, r
<1>9. /\ ways = {} <=> Beyond(layout, s, e) = {}
      /\ \A w \in ways : w.to # s
  BY <1>1, <1>2, <1>6, <1>7, CrossingIff
<1>10. c.on # s <=> ways # {}
  <2>1. CASE ways = {} /\ c = [cursor EXCEPT !.at = Clamp(r, target), !.rest = rest]
    BY <1>1, <2>1 DEF Cursors
  <2>2. CASE \E w \in ways : c = [on |-> w.to, at |-> w.at, rest |-> Zero]
    BY <1>9, <2>2
  <2> QED
    BY <1>8, <2>1, <2>2
<1> QED
  BY <1>1, <1>2, <1>9, <1>10, Armed

-----------------------------------------------------------------------------
(* A screen that faces one of some screens is not cut off from them.       *)

FacesOver(l, s, t, e) ==
  LET a == Across(e.axis)
  IN /\ AxisGap(Rect(l, s), Rect(l, t), e) >= 0
     /\ Rect(l, s).low[a] < Rect(l, t).high[a] /\ Rect(l, t).low[a] < Rect(l, s).high[a]

Apart(r, q) == \E a \in Axis : q.high[a] <= r.low[a] \/ r.high[a] <= q.low[a]

(* A screen k between r and q, not overlapping q, is nearer to q than r is.*)
LEMMA Between ==
  ASSUME NEW r \in Rectangle, NEW k \in Rectangle, NEW q \in Rectangle, NEW e \in Edge,
         \A a \in Axis : k.low[a] < k.high[a] /\ q.low[a] < q.high[a],
         Apart(k, q),
         k.low[Across(e.axis)] < q.high[Across(e.axis)], q.low[Across(e.axis)] < k.high[Across(e.axis)],
         AxisGap(r, k, e) >= 0, AxisGap(r, k, e) <= AxisGap(r, q, e)
  PROVE  AxisGap(k, q, e) >= 0 /\ AxisGap(k, q, e) < AxisGap(r, q, e)
<1> DEFINE x == e.axis
<1>1. \A a \in Axis : /\ r.low[a] \in Int /\ r.high[a] \in Int /\ k.low[a] \in Int /\ k.high[a] \in Int
                      /\ q.low[a] \in Int /\ q.high[a] \in Int
  BY DEF Rectangle, Point
<1>2. x \in Axis /\ Across(x) \in Axis /\ \A a \in Axis : a = x \/ a = Across(x)
  BY EdgeParts
<1>3. q.high[x] <= k.low[x] \/ k.high[x] <= q.low[x]
  <2>1. PICK a \in Axis : q.high[a] <= k.low[a] \/ k.high[a] <= q.low[a]
    BY DEF Apart
  <2>2. a # Across(x)
    BY <1>1, <1>2, <2>1
  <2> QED
    BY <1>2, <2>1, <2>2
<1>4. k.low[x] < k.high[x] /\ q.low[x] < q.high[x]
  BY <1>2
<1>5. CASE e.end = "high"
  BY <1>1, <1>2, <1>3, <1>4, <1>5 DEF AxisGap
<1>6. CASE e.end # "high"
  BY <1>1, <1>2, <1>3, <1>4, <1>6 DEF AxisGap
<1> QED
  BY <1>5, <1>6

(* Where the seam of two facing screens begins.                            *)
LEMMA SeamBegins ==
  ASSUME NEW r \in Rectangle, NEW q \in Rectangle, NEW e \in Edge,
         \A a \in Axis : r.low[a] < r.high[a] /\ q.low[a] < q.high[a],
         r.low[Across(e.axis)] < q.high[Across(e.axis)], q.low[Across(e.axis)] < r.high[Across(e.axis)]
  PROVE  \E p \in SeamPoints(r, e) : p \in Point /\ Covers(q, p, e)
<1> DEFINE a == Across(e.axis)
           v == Larger(r.low[a], q.low[a])
           p == [r.low EXCEPT ![e.axis] = Bound(r, e), ![a] = v]
<1>1. /\ a \in Axis /\ e.axis \in Axis /\ a # e.axis
      /\ r.low[a] \in Int /\ r.high[a] \in Int /\ q.low[a] \in Int /\ q.high[a] \in Int
      /\ r.low \in Point
  BY EdgeParts DEF Rectangle, Point
<1>2. Bound(r, e) \in Int
  BY Reaches, <1>1
<1>3. v \in r.low[a] .. (r.high[a] - 1) /\ v \in Int /\ q.low[a] <= v /\ v < q.high[a]
  BY <1>1 DEF Larger
<1>4. p \in SeamPoints(r, e)
  BY <1>3 DEF SeamPoints
<1> HIDE DEF v
<1>5. p \in Point /\ p[a] = v
  BY <1>1, <1>2, <1>3 DEF Point
<1> QED
  BY <1>3, <1>4, <1>5 DEF Covers

LEMMA NoneIsCutOff ==
  ASSUME NEW l, IsLayout(l),
         NEW S, \A s \in S : Usable(l, s),
         NEW T, \A t \in T : Usable(l, t) /\ t \notin S,
         \A s \in S, t \in T : Apart(Rect(l, s), Rect(l, t)),
         NEW e \in Edge, \E s \in S, t \in T : FacesOver(l, s, t, e)
  PROVE  \E s \in S : \E p \in SeamPoints(Rect(l, s), e) : \E w \in ResolveCrossing(l, s, p, e) : w.to \notin S
<1> DEFINE G(s, t) == AxisGap(Rect(l, s), Rect(l, t), e)
           F(s, t) == FacesOver(l, s, t, e)
           gaps    == {n \in Nat : \E s \in S, t \in T : F(s, t) /\ G(s, t) = n}
<1>1. \A s \in S \cup T : /\ Rect(l, s) \in Rectangle
                          /\ \A a \in Axis : Rect(l, s).low[a] < Rect(l, s).high[a]
  BY UsableParts
<1>2. ASSUME NEW s \in S, NEW t \in T, F(s, t)
      PROVE  G(s, t) \in gaps
  <2>1. G(s, t) \in Int
    <3>1. Zero \in Point
      BY DEF Zero, Point
    <3> QED
      BY <1>1, <3>1, Measures
  <2>2. G(s, t) >= 0
    BY <1>2 DEF FacesOver
  <2> QED
    BY <1>2, <2>1, <2>2
<1>3. PICK n \in gaps : \A m \in gaps : n <= m
  <2>1. gaps \in SUBSET Nat /\ gaps # {}
    BY <1>2
  <2> HIDE DEF gaps
  <2> QED
    BY <2>1, LeastNumber
<1>4. PICK s \in S, t \in T : F(s, t) /\ G(s, t) = n
  OBVIOUS
<1> DEFINE r == Rect(l, s)
           q == Rect(l, t)
<1>5. /\ r \in Rectangle /\ q \in Rectangle
      /\ \A a \in Axis : r.low[a] < r.high[a] /\ q.low[a] < q.high[a]
  BY <1>1
<1>6. /\ G(s, t) >= 0
      /\ r.low[Across(e.axis)] < q.high[Across(e.axis)] /\ q.low[Across(e.axis)] < r.high[Across(e.axis)]
  BY <1>4 DEF FacesOver
<1>7. PICK p \in SeamPoints(r, e) : p \in Point /\ Covers(q, p, e)
  <2> HIDE DEF r, q
  <2> QED
    BY <1>5, <1>6, SeamBegins
<1>8. PICK j \in Screens(l) : l[j].on = t
  BY UsableParts
<1>9. j \in DOMAIN l /\ l[j].bounds = q
  BY <1>8, LayoutParts
<1>10. j \in Beyond(l, s, e)
  BY <1>6, <1>8, <1>9 DEF Beyond
<1>11. PICK i \in Beyond(l, s, e) :
         /\ ResolveCrossing(l, s, p, e) = {[to |-> l[i].on, at |-> EntryPoint(l[i].bounds, p, Opposite(e))]}
         /\ Covers(l[i].bounds, p, e) /\ AxisGap(r, l[i].bounds, e) <= AxisGap(r, q, e)
  <2>1. Usable(l, s)
    OBVIOUS
  <2>2. PICK i \in Beyond(l, s, e) :
          /\ ResolveCrossing(l, s, p, e) = {[to |-> l[i].on, at |-> EntryPoint(l[i].bounds, p, Opposite(e))]}
          /\ \A k \in Beyond(l, s, e) :
                Covers(l[k].bounds, p, e) =>
                  /\ Covers(l[i].bounds, p, e)
                  /\ AxisGap(Rect(l, s), l[i].bounds, e) <= AxisGap(Rect(l, s), l[k].bounds, e)
    BY <1>7, <1>10, <2>1, CrossingLeads
  <2> QED
    BY <1>7, <1>9, <1>10, <2>2
<1> DEFINE u == l[i].on
           k == Rect(l, u)
<1>12. /\ Usable(l, u) /\ k = l[i].bounds /\ k \in Rectangle
       /\ \A a \in Axis : k.low[a] < k.high[a]
       /\ AxisGap(r, k, e) >= 0
  BY BeyondParts
<1>13. \E w \in ResolveCrossing(l, s, p, e) : w.to = u
  BY <1>11
<1>14. u \notin S
  <2> SUFFICES ASSUME u \in S PROVE FALSE
    OBVIOUS
  <2>1. /\ k.low[Across(e.axis)] < q.high[Across(e.axis)]
        /\ q.low[Across(e.axis)] < k.high[Across(e.axis)]
    <3>1. Across(e.axis) \in Axis
      BY EdgeParts
    <3>2. \A a \in Axis : p[a] \in Int /\ k.low[a] \in Int /\ k.high[a] \in Int /\ q.low[a] \in Int /\ q.high[a] \in Int
      BY <1>5, <1>7, <1>12 DEF Rectangle, Point
    <3>3. Covers(k, p, e) /\ Covers(q, p, e)
      BY <1>7, <1>11, <1>12
    <3> HIDE DEF k, q, u
    <3> QED
      BY <3>1, <3>2, <3>3 DEF Covers
  <2>2. Apart(k, q)
    OBVIOUS
  <2>3. AxisGap(k, q, e) >= 0 /\ AxisGap(k, q, e) < AxisGap(r, q, e)
    <3>1. AxisGap(r, k, e) <= AxisGap(r, q, e)
      BY <1>11, <1>12
    <3> HIDE DEF k, q, r, u
    <3> QED
      BY <1>5, <1>12, <2>1, <2>2, <3>1, Between
  <2>4. F(u, t)
    BY <2>1, <2>3 DEF FacesOver
  <2>5. G(u, t) \in gaps /\ G(u, t) < n
    BY <1>2, <1>4, <2>3, <2>4
  <2> QED
    BY <1>3, <2>5
<1> QED
  BY <1>7, <1>13, <1>14

LEMMA FacingIsReached ==
  ASSUME CursorTypeOK
  PROVE  FacingScreensAreReached
<1> DEFINE usable == {s \in Screen : Usable(layout, s)}
<1>1. IsLayout(layout)
  BY Entries DEF CursorTypeOK
<1> SUFFICES ASSUME \A s, t \in usable : s # t => ~RectsOverlap(Rect(layout, s), Rect(layout, t)),
                    NEW S \in SUBSET usable,
                    NEW s0 \in S, NEW t0 \in usable \ S, Faces(s0, t0)
             PROVE  \E s \in S : ~(OutOf(s) \subseteq S)
  BY DEF FacingScreensAreReached
<1> DEFINE T == usable \ S
<1>2. PICK e \in Edge : FacesOver(layout, s0, t0, e)
  BY DEF Faces, FacesOver
<1>3. ASSUME NEW s \in S, NEW t \in T
      PROVE  Apart(Rect(layout, s), Rect(layout, t))
  <2>1. ~RectsOverlap(Rect(layout, s), Rect(layout, t))
    OBVIOUS
  <2>2. Usable(layout, s) /\ Usable(layout, t)
    OBVIOUS
  <2>3. /\ Rect(layout, s) \in Rectangle /\ Rect(layout, t) \in Rectangle
        /\ ~IsEmpty(Rect(layout, s)) /\ ~IsEmpty(Rect(layout, t))
    BY <1>1, <2>2, UsableParts DEF Usable
  <2>4. PICK a \in Axis : ~(/\ Rect(layout, s).low[a] < Rect(layout, t).high[a]
                            /\ Rect(layout, t).low[a] < Rect(layout, s).high[a])
    BY <2>1, <2>3 DEF RectsOverlap
  <2>5. /\ Rect(layout, s).low[a] \in Int /\ Rect(layout, s).high[a] \in Int
        /\ Rect(layout, t).low[a] \in Int /\ Rect(layout, t).high[a] \in Int
    BY <2>3 DEF Rectangle, Point
  <2> QED
    BY <2>4, <2>5 DEF Apart
<1>4. /\ \A s \in S : Usable(layout, s)
      /\ \A t \in T : Usable(layout, t) /\ t \notin S
      /\ \E s \in S, t \in T : FacesOver(layout, s, t, e)
  BY <1>2
<1> HIDE DEF T
<1>5. PICK s \in S : \E p \in SeamPoints(Rect(layout, s), e) :
                       \E w \in ResolveCrossing(layout, s, p, e) : w.to \notin S
  BY <1>1, <1>3, <1>4, NoneIsCutOff
<1>6. PICK p \in SeamPoints(Rect(layout, s), e) : \E w \in ResolveCrossing(layout, s, p, e) : w.to \notin S
  BY <1>5
<1>7. PICK w \in ResolveCrossing(layout, s, p, e) : w.to \notin S
  BY <1>6
<1>8. w.to \in Screen
  <2>1. Usable(layout, s) /\ Rect(layout, s) \in Rectangle
    BY <1>1, <1>4, UsableParts
  <2>2. p \in Point
    <3>1. Bound(Rect(layout, s), e) \in Int /\ Rect(layout, s).low \in Point
      <4>1. Zero \in Point
        BY DEF Zero, Point
      <4> QED
        BY <2>1, <4>1, Reaches DEF Rectangle
    <3>2. \A m, n \in Int : \A v \in m .. n : v \in Int
      OBVIOUS
    <3>3. Rect(layout, s).low[Across(e.axis)] \in Int /\ Rect(layout, s).high[Across(e.axis)] \in Int
      BY <2>1, EdgeParts DEF Rectangle, Point
    <3>4. PICK v \in Rect(layout, s).low[Across(e.axis)] .. (Rect(layout, s).high[Across(e.axis)] - 1) :
            p = [Rect(layout, s).low EXCEPT ![e.axis] = Bound(Rect(layout, s), e), ![Across(e.axis)] = v]
      BY DEF SeamPoints
    <3>5. v \in Int
      BY <3>3, <3>4
    <3> QED
      BY <3>1, <3>4, <3>5 DEF Point
  <2> QED
    BY <1>1, <2>1, <2>2, CrossingIff, UsableParts
<1> QED
  BY <1>6, <1>7, <1>8 DEF OutOf

(* The geometry of the layout leads where it says: the edges exit_edges    *)
(* arms are the edges a push leaves by, and resolve_crossing gets past     *)
(* whatever stands between two screens that face each other.               *)
THEOREM CursorWaysLeadOut == CursorSpec => []WaysLeadOut
<1>1. CursorTypeOK => WaysLeadOut
  BY ArmedEdgesAreWays, FacingIsReached DEF WaysLeadOut
<1> QED
  BY <1>1, CursorTypeCorrect, PTL

=============================================================================

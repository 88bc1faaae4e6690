----------------------------- MODULE LayoutProofs -----------------------------
(***************************************************************************)
(* Theorems about LayoutSync, for any number of machines and screens, and  *)
(* any number of edits, failures and changes of the attached screens.      *)
(***************************************************************************)
EXTENDS LayoutSync, FiniteSetTheorems, SequenceTheorems, WellFoundedInduction, TLAPS

Layouts == UNION {LayoutOver(S) : S \in SUBSET Screen}

-----------------------------------------------------------------------------
(* Least and greatest elements.                                            *)

LEMMA LeastOfNaturals ==
  ASSUME NEW S \in SUBSET Nat, S # {}
  PROVE  Least(S) \in S /\ \A y \in S : Least(S) <= y
<1>1. PICK x \in S : \A y \in S : ~(<<y, x>> \in OpToRel(<, Nat))
  BY NatLessThanWellFounded, WFMin
<1>2. \A y \in S : x <= y
  <2> SUFFICES ASSUME NEW y \in S, ~(x <= y) PROVE FALSE
    OBVIOUS
  <2>1. <<y, x>> \in {p \in Nat \X Nat : p[1] < p[2]}
    OBVIOUS
  <2> QED
    BY <1>1, <2>1, Zenon DEF OpToRel
<1>3. \E z \in S : \A y \in S : z <= y
  BY <1>2
<1> QED
  BY <1>3, Zenon DEF Least

(* Of finitely many indices one has the greatest value: the one that has   *)
(* the fewest above it.                                                    *)
LEMMA GreatestValue ==
  ASSUME NEW D, IsFiniteSet(D), D # {}, NEW f \in [D -> Int]
  PROVE  /\ Greatest({f[d] : d \in D}) \in {f[d] : d \in D}
         /\ \A d \in D : f[d] <= Greatest({f[e] : e \in D})
<1> DEFINE Above(d) == {e \in D : f[e] > f[d]}
           Counts == {Cardinality(Above(d)) : d \in D}
<1>1. \A d \in D : IsFiniteSet(Above(d)) /\ Cardinality(Above(d)) \in Nat
  BY FS_Subset, FS_CardinalityType
<1>2. Counts \subseteq Nat /\ Counts # {}
  BY <1>1
<1>3. PICK d \in D : \A e \in D : Cardinality(Above(d)) <= Cardinality(Above(e))
  <2> HIDE DEF Above
  <2>1. Least(Counts) \in Counts /\ \A y \in Counts : Least(Counts) <= y
    BY <1>2, LeastOfNaturals
  <2> QED
    BY <2>1
<1>4. \A e \in D : f[e] <= f[d]
  <2> SUFFICES ASSUME NEW e \in D, ~(f[e] <= f[d]) PROVE FALSE
    OBVIOUS
  <2>1. f[e] > f[d]
    OBVIOUS
  <2>2. Above(e) \subseteq Above(d) /\ e \in Above(d) /\ e \notin Above(e)
    BY <2>1
  <2>3. Cardinality(Above(e)) <= Cardinality(Above(d)) /\ Cardinality(Above(e)) # Cardinality(Above(d))
    BY <1>1, <2>2, FS_Subset
  <2> QED
    BY <1>1, <1>3, <2>3
<1>5. PICK x \in {f[c] : c \in D} : x = f[d]
  OBVIOUS
<1>6. \A y \in {f[c] : c \in D} : y <= x
  BY <1>4, <1>5
<1> QED
  BY <1>6 DEF Greatest

-----------------------------------------------------------------------------
(* Layouts.                                                                *)

LEMMA LayoutParts ==
  ASSUME NEW l \in Layouts
  PROVE  /\ l.revision \in Nat
         /\ Placed(l) \subseteq Screen
         /\ IsFiniteSet(Placed(l))
         /\ l.places \in [Placed(l) -> Place]
         /\ l = [revision |-> l.revision, places |-> l.places]
         /\ IsLayout(l)
<1>1. PICK S \in SUBSET Screen : l \in LayoutOver(S)
  BY DEF Layouts
<1>2. l \in [revision : Nat, places : [S -> Place]]
  BY <1>1 DEF LayoutOver
<1>3. Placed(l) = S
  BY <1>2 DEF Placed
<1>4. IsFiniteSet(Screen)
  BY LayoutAssumption, FS_Product DEF Screen
<1> QED
  BY <1>1, <1>2, <1>3, <1>4, FS_Subset DEF IsLayout

LEMMA LayoutMade ==
  ASSUME NEW r \in Nat, NEW S \in SUBSET Screen, NEW p \in [S -> Place]
  PROVE  [revision |-> r, places |-> p] \in Layouts
<1>1. [revision |-> r, places |-> p] \in LayoutOver(S)
  BY DEF LayoutOver
<1> QED
  BY <1>1 DEF Layouts

(* Everything is placed to the right of an integer.                        *)
LEMMA AnchorType ==
  ASSUME NEW l \in Layouts, NEW n \in Node
  PROVE  Anchor(l, n) \in Int
<1>1. CASE OthersOf(l, n) = {}
  BY <1>1 DEF Anchor
<1>2. CASE OthersOf(l, n) # {}
  <2> DEFINE D == OthersOf(l, n)
             f == [s \in D |-> l.places[s].x]
  <2>1. D \subseteq Placed(l)
    BY DEF OthersOf
  <2>2. IsFiniteSet(D) /\ f \in [D -> Int]
    BY <2>1, LayoutParts, FS_Subset DEF Place
  <2>3. {f[d] : d \in D} = {l.places[s].x : s \in OthersOf(l, n)}
    OBVIOUS
  <2>4. {f[d] : d \in D} \subseteq Int
    BY <2>2
  <2>5. Greatest({f[d] : d \in D}) \in {f[d] : d \in D}
    <3> HIDE DEF D, f
    <3> QED
      BY <1>2, <2>2, GreatestValue DEF D
  <2> QED
    BY <1>2, <2>3, <2>4, <2>5 DEF Anchor
<1> QED
  BY <1>1, <1>2

LEMMA PlaceNodeType ==
  ASSUME NEW l \in Layouts, NEW n \in Node, NEW slots \in SUBSET Slot
  PROVE  PlaceNode(l, n, slots) \in [{n} \X slots -> Place]
<1>1. \A s \in {n} \X slots : s[2] \in slots /\ s[2] \in Nat /\ slots # {}
  BY LayoutAssumption
<1>2. slots # {} => Least(slots) \in Nat
  <2>1. slots \in SUBSET Nat
    BY LayoutAssumption
  <2> QED
    BY <2>1, LeastOfNaturals
<1>3. Anchor(l, n) \in Int
  BY AnchorType
<1>4. \A s \in {n} \X slots : Anchor(l, n) + s[2] - Least(slots) \in Int
  BY <1>1, <1>2, <1>3
<1> QED
  BY <1>4 DEF PlaceNode, Place

(* What apply leaves: n's screens placed, nobody else's moved, and a       *)
(* revision that tells.                                                    *)
LEMMA AppliedType ==
  ASSUME NEW l \in Layouts, NEW n \in Node, NEW slots \in SUBSET Slot
  PROVE  /\ Applied(l, n, slots) \in Layouts
         /\ Applied(l, n, slots) = l \/ Applied(l, n, slots).revision = l.revision + 1
         /\ ~NeedsPlacement(Applied(l, n, slots), n, slots)
         /\ OthersOf(l, n) \subseteq Placed(Applied(l, n, slots))
<1> DEFINE T == OthersOf(l, n) \union ({n} \X slots)
           p == [s \in T |-> IF s[1] = n THEN PlaceNode(l, n, slots)[s] ELSE l.places[s]]
<1>1. /\ OthersOf(l, n) \subseteq Placed(l)
      /\ \A s \in OthersOf(l, n) : s[1] # n
      /\ {n} \X slots \subseteq Screen
      /\ \A s \in {n} \X slots : s[1] = n
  BY DEF OthersOf, Screen
<1>2. T \in SUBSET Screen
  BY <1>1, LayoutParts
<1>3. p \in [T -> Place]
  <2>1. \A s \in {n} \X slots : PlaceNode(l, n, slots)[s] \in Place
    BY PlaceNodeType
  <2>2. \A s \in OthersOf(l, n) : l.places[s] \in Place
    BY <1>1, LayoutParts
  <2>3. \A s \in T : (IF s[1] = n THEN PlaceNode(l, n, slots)[s] ELSE l.places[s]) \in Place
    BY <1>1, <2>1, <2>2
  <2> QED
    BY <2>3
<1>4. CASE OwnPlaces(l, n) = PlaceNode(l, n, slots)
  <2>1. Applied(l, n, slots) = l
    BY <1>4 DEF Applied
  <2>2. DOMAIN OwnPlaces(l, n) = {n} \X slots
    BY <1>4 DEF PlaceNode
  <2>3. {n} \X slots \subseteq Placed(l)
    BY <2>2 DEF OwnPlaces
  <2> QED
    BY <1>1, <2>1, <2>3 DEF NeedsPlacement
<1>5. CASE OwnPlaces(l, n) # PlaceNode(l, n, slots)
  <2>1. Applied(l, n, slots) = [revision |-> l.revision + 1, places |-> p]
    BY <1>5 DEF Applied
  <2>2. Applied(l, n, slots) \in Layouts
    <3> HIDE DEF T, p
    <3> QED
      BY <1>2, <1>3, <2>1, LayoutMade, LayoutParts
  <2>3. Placed(Applied(l, n, slots)) = T
    BY <2>1 DEF Placed
  <2>4. Applied(l, n, slots).revision = l.revision + 1
    BY <2>1
  <2>5. \A k \in slots : <<n, k>> \in {n} \X slots
    OBVIOUS
  <2> QED
    BY <2>2, <2>3, <2>4, <2>5 DEF NeedsPlacement
<1> QED
  BY <1>4, <1>5

LEMMA WithPlaceForType ==
  ASSUME NEW l \in Layouts, NEW n \in Node, NEW slots \in SUBSET Slot
  PROVE  /\ WithPlaceFor(l, n, slots) \in Layouts
         /\ WithPlaceFor(l, n, slots) = l \/ WithPlaceFor(l, n, slots).revision = l.revision + 1
         /\ ~NeedsPlacement(WithPlaceFor(l, n, slots), n, slots)
         /\ OthersOf(l, n) \subseteq Placed(WithPlaceFor(l, n, slots))
<1>1. OthersOf(l, n) \subseteq Placed(l)
  BY DEF OthersOf
<1> QED
  BY <1>1, AppliedType DEF WithPlaceFor

(* One machine's screens are placed without unplacing another's.           *)
LEMMA WithPlaceForOther ==
  ASSUME NEW l \in Layouts, NEW n \in Node, NEW m \in Node, n # m,
         NEW slots \in SUBSET Slot, NEW own \in SUBSET Slot
  PROVE  /\ NeedsPlacement(WithPlaceFor(l, m, slots), n, own) => NeedsPlacement(l, n, own)
         /\ NeedsPlacement(Applied(l, m, slots), n, own) => NeedsPlacement(l, n, own)
<1>1. \A k \in own : <<n, k>> \in Placed(l) => <<n, k>> \in OthersOf(l, m)
  BY DEF OthersOf
<1>2. /\ OthersOf(l, m) \subseteq Placed(WithPlaceFor(l, m, slots))
      /\ OthersOf(l, m) \subseteq Placed(Applied(l, m, slots))
  BY AppliedType, WithPlaceForType
<1> QED
  BY <1>1, <1>2 DEF NeedsPlacement

LEMMA HigherAccepted ==
  ASSUME NEW l, NEW new, new.revision > l.revision
  PROVE  Accepts(l, new)
BY DEF Accepts

(* A layout that is accepted stays so when screens are added to it.        *)
LEMMA AdoptedAccepted ==
  ASSUME NEW l \in Layouts, NEW incoming \in Layouts, NEW n \in Node, NEW slots \in SUBSET Slot,
         Accepts(l, incoming)
  PROVE  Accepts(l, WithPlaceFor(incoming, n, slots))
<1>1. l.revision \in Nat /\ incoming.revision \in Nat /\ incoming.revision >= l.revision
  BY LayoutParts DEF Accepts
<1>2. CASE WithPlaceFor(incoming, n, slots) = incoming
  BY <1>2
<1>3. CASE WithPlaceFor(incoming, n, slots).revision = incoming.revision + 1
  BY <1>1, <1>3, HigherAccepted
<1> QED
  BY <1>2, <1>3, WithPlaceForType

-----------------------------------------------------------------------------
(* accept_layout is a strict order, and total on what it compares.         *)

Entries == Nat \X Nat \X Int

LEMMA EntriesOrdered ==
  /\ \A a, b \in Entries : a = b \/ EntryBefore(a, b) \/ EntryBefore(b, a)
  /\ \A a, b \in Entries : ~(EntryBefore(a, b) /\ EntryBefore(b, a))
  /\ \A a \in Entries : ~EntryBefore(a, a)
  /\ \A a, b, c \in Entries : EntryBefore(a, b) /\ EntryBefore(b, c) => EntryBefore(a, c)
BY DEF Entries, EntryBefore

(* The first of finitely many entries: the one with the fewest before it.  *)
LEMMA FirstEntry ==
  ASSUME NEW D \in SUBSET Entries, IsFiniteSet(D), D # {}
  PROVE  \E d \in D : \A e \in D : d = e \/ EntryBefore(d, e)
<1> DEFINE Before(d) == {e \in D : EntryBefore(e, d)}
           Counts == {Cardinality(Before(d)) : d \in D}
<1>1. \A d \in D : IsFiniteSet(Before(d)) /\ Cardinality(Before(d)) \in Nat
  BY FS_Subset, FS_CardinalityType
<1>2. Counts \subseteq Nat /\ Counts # {}
  BY <1>1
<1>3. PICK d \in D : \A e \in D : Cardinality(Before(d)) <= Cardinality(Before(e))
  <2> HIDE DEF Before
  <2>1. Least(Counts) \in Counts /\ \A y \in Counts : Least(Counts) <= y
    BY <1>2, LeastOfNaturals
  <2> QED
    BY <2>1
<1>4. ASSUME NEW e \in D, EntryBefore(e, d)
      PROVE  FALSE
  <2>1. Before(e) \subseteq Before(d) /\ e \in Before(d) /\ e \notin Before(e)
    BY <1>4, EntriesOrdered
  <2>2. Cardinality(Before(e)) <= Cardinality(Before(d)) /\ Cardinality(Before(e)) # Cardinality(Before(d))
    BY <1>1, <2>1, FS_Subset
  <2> QED
    BY <1>1, <1>3, <2>2
<1>5. \A e \in D : d = e \/ EntryBefore(d, e)
  BY <1>4, EntriesOrdered
<1> QED
  BY <1>5

LEMMA KeysOrdered ==
  ASSUME NEW a \in SUBSET Entries, NEW b \in SUBSET Entries, NEW c \in SUBSET Entries
  PROVE  /\ ~(KeyBefore(a, b) /\ KeyBefore(b, a))
         /\ KeyBefore(a, b) /\ KeyBefore(b, c) => KeyBefore(a, c)
         /\ IsFiniteSet(a) /\ IsFiniteSet(b) => a = b \/ KeyBefore(a, b) \/ KeyBefore(b, a)
<1>1. ASSUME KeyBefore(a, b), KeyBefore(b, a)
      PROVE  FALSE
  <2>1. PICK e \in a \ b : \A f \in (a \ b) \union (b \ a) : e = f \/ EntryBefore(e, f)
    BY <1>1 DEF KeyBefore
  <2>2. PICK f \in b \ a : \A g \in (b \ a) \union (a \ b) : f = g \/ EntryBefore(f, g)
    BY <1>1 DEF KeyBefore
  <2> QED
    BY <2>1, <2>2, EntriesOrdered
<1>2. ASSUME KeyBefore(a, b), KeyBefore(b, c)
      PROVE  KeyBefore(a, c)
  <2>1. PICK e \in a \ b : \A g \in (a \ b) \union (b \ a) : e = g \/ EntryBefore(e, g)
    BY <1>2 DEF KeyBefore
  <2>2. PICK f \in b \ c : \A g \in (b \ c) \union (c \ b) : f = g \/ EntryBefore(f, g)
    BY <1>2 DEF KeyBefore
  <2>3. \A g \in (a \ c) \union (c \ a) : g \in Entries
                                            /\ (g \in (a \ b) \union (b \ a) \/ g \in (b \ c) \union (c \ b))
    OBVIOUS
  <2>4. e \in Entries /\ f \in Entries /\ e # f
    OBVIOUS
  <2>5. CASE EntryBefore(e, f)
    <3>1. e \notin c
      BY <2>1, <2>2, <2>4, <2>5, EntriesOrdered
    <3>2. \A g \in (a \ c) \union (c \ a) : e = g \/ EntryBefore(e, g)
      BY <2>1, <2>2, <2>3, <2>4, <2>5, EntriesOrdered
    <3> QED
      BY <3>1, <3>2 DEF KeyBefore
  <2>6. CASE EntryBefore(f, e)
    <3>1. f \in a
      BY <2>1, <2>2, <2>4, <2>6, EntriesOrdered
    <3>2. \A g \in (a \ c) \union (c \ a) : f = g \/ EntryBefore(f, g)
      BY <2>1, <2>2, <2>3, <2>4, <2>6, EntriesOrdered
    <3> QED
      BY <3>1, <3>2 DEF KeyBefore
  <2> QED
    BY <2>4, <2>5, <2>6, EntriesOrdered
<1>3. ASSUME IsFiniteSet(a), IsFiniteSet(b), a # b
      PROVE  KeyBefore(a, b) \/ KeyBefore(b, a)
  <2> DEFINE D == (a \ b) \union (b \ a)
  <2>1. IsFiniteSet(D) /\ D # {} /\ D \in SUBSET Entries
    <3>1. IsFiniteSet(a \ b) /\ IsFiniteSet(b \ a)
      BY <1>3, FS_Subset
    <3> QED
      BY <1>3, <3>1, FS_Union
  <2>2. PICK d \in D : \A e \in D : d = e \/ EntryBefore(d, e)
    <3> HIDE DEF D
    <3> QED
      BY <2>1, FirstEntry
  <2> QED
    BY <2>2 DEF KeyBefore
<1> QED
  BY <1>1, <1>2, <1>3

LEMMA KeyType ==
  ASSUME NEW l \in Layouts
  PROVE  /\ LayoutKey(l) \in SUBSET Entries
         /\ IsFiniteSet(LayoutKey(l))
         /\ Cardinality(Placed(l)) \in Nat
<1>1. /\ Placed(l) \subseteq Screen /\ IsFiniteSet(Placed(l))
      /\ l.places \in [Placed(l) -> Place]
  BY LayoutParts
<1>2. \A s \in Placed(l) : <<s[1], s[2], l.places[s].x>> \in Entries
  BY <1>1, LayoutAssumption DEF Screen, Place, Entries
<1>3. LayoutKey(l) \in SUBSET Entries
  BY <1>2 DEF LayoutKey
<1>4. IsFiniteSet(LayoutKey(l))
  <2> DEFINE key == [s \in Placed(l) |-> <<s[1], s[2], l.places[s].x>>]
  <2>1. key \in Surjection(Placed(l), LayoutKey(l))
    BY DEF Surjection, LayoutKey
  <2> QED
    BY <1>1, <2>1, FS_Surjection
<1> QED
  BY <1>1, <1>3, <1>4, FS_CardinalityType

(* accept_layout never prefers both of two layouts, never goes round in a  *)
(* circle, and decides between any two that differ in revision or in where *)
(* a screen is: two machines that exchange layouts pick the same winner,   *)
(* and a copy that only changes for a better one never returns to what it  *)
(* was.                                                                    *)
THEOREM AcceptsIsAnOrder ==
  ASSUME NEW k \in Layouts, NEW l \in Layouts, NEW m \in Layouts
  PROVE  /\ ~(Accepts(k, l) /\ Accepts(l, k))
         /\ Accepts(k, l) /\ Accepts(l, m) => Accepts(k, m)
         /\ \/ Accepts(k, l) \/ Accepts(l, k)
            \/ k.revision = l.revision /\ LayoutKey(k) = LayoutKey(l)
<1>1. k.revision \in Nat /\ l.revision \in Nat /\ m.revision \in Nat
  BY LayoutParts
<1>2. /\ Cardinality(Placed(k)) \in Nat /\ Cardinality(Placed(l)) \in Nat
      /\ Cardinality(Placed(m)) \in Nat
  BY KeyType
<1>3. /\ ~(KeyBefore(LayoutKey(k), LayoutKey(l)) /\ KeyBefore(LayoutKey(l), LayoutKey(k)))
      /\ KeyBefore(LayoutKey(m), LayoutKey(l)) /\ KeyBefore(LayoutKey(l), LayoutKey(k))
           => KeyBefore(LayoutKey(m), LayoutKey(k))
      /\ \/ LayoutKey(k) = LayoutKey(l)
         \/ KeyBefore(LayoutKey(k), LayoutKey(l)) \/ KeyBefore(LayoutKey(l), LayoutKey(k))
  BY KeyType, KeysOrdered
<1> QED
  BY <1>1, <1>2, <1>3 DEF Accepts

-----------------------------------------------------------------------------
(* Messages.                                                               *)

Messages ==
  [kind : {"update"}, layout : Layouts] \union {LayoutRequest}
    \union [kind : {"monitors"}, monitors : SUBSET Slot]

Wires == [Node -> [Node -> Seq(Messages)]]

LEMMA MessageParts ==
  /\ \A l \in Layouts : LayoutUpdate(l) \in Messages
  /\ LayoutRequest \in Messages
  /\ \A slots \in SUBSET Slot : MonitorsChanged(slots) \in Messages
  /\ \A msg \in Messages :
       /\ msg.kind = "update" => msg.layout \in Layouts
       /\ msg.kind = "monitors" => msg.monitors \in SUBSET Slot
       /\ IsMessage(msg)
<1>1. \A l \in Layouts : LayoutUpdate(l) \in Messages
  BY DEF Messages, LayoutUpdate
<1>2. LayoutRequest \in Messages
  BY DEF Messages
<1>3. \A slots \in SUBSET Slot : MonitorsChanged(slots) \in Messages
  BY DEF Messages, MonitorsChanged
<1>4. ASSUME NEW msg \in Messages
      PROVE  /\ msg.kind = "update" => msg.layout \in Layouts
             /\ msg.kind = "monitors" => msg.monitors \in SUBSET Slot
             /\ IsMessage(msg)
  <2>1. CASE msg \in [kind : {"update"}, layout : Layouts]
    <3>1. msg.kind = "update" /\ msg.layout \in Layouts /\ msg = LayoutUpdate(msg.layout)
      BY <2>1 DEF LayoutUpdate
    <3>2. IsLayout(msg.layout)
      BY <3>1, LayoutParts
    <3> QED
      BY <3>1, <3>2 DEF IsMessage
  <2>2. CASE msg = LayoutRequest
    BY <2>2 DEF LayoutRequest, IsMessage
  <2>3. CASE msg \in [kind : {"monitors"}, monitors : SUBSET Slot]
    BY <2>3 DEF IsMessage
  <2> QED
    BY <2>1, <2>2, <2>3 DEF Messages
<1> QED
  BY <1>1, <1>2, <1>3, <1>4

LEMMA SentType ==
  ASSUME NEW w \in Wires, NEW n \in Node, NEW peers, NEW msgs \in Seq(Messages)
  PROVE  Sent(w, n, peers, msgs) \in Wires
<1> DEFINE row == [m \in Node |->
                     IF m \in peers /\ Pair(n, m) \in open THEN w[n][m] \o msgs ELSE w[n][m]]
<1>1. \A m \in Node : w[n][m] \in Seq(Messages)
  BY DEF Wires
<1>2. \A m \in Node : w[n][m] \o msgs \in Seq(Messages)
  BY <1>1, ConcatProperties
<1>3. row \in [Node -> Seq(Messages)]
  BY <1>1, <1>2
<1>4. Sent(w, n, peers, msgs) = [w EXCEPT ![n] = row]
  BY DEF Sent
<1> QED
  BY <1>3, <1>4 DEF Wires

(* What still arrives of what was on its way.                              *)
LEMMA PrefixType ==
  ASSUME NEW T, NEW s \in Seq(T), NEW i \in 0 .. Len(s)
  PROVE  SubSeq(s, 1, i) \in Seq(T)
BY SubSeqProperties

LEMMA TakenType ==
  ASSUME NEW w \in Wires, NEW n \in Node, NEW m \in Node, w[m][n] # <<>>
  PROVE  /\ Head(w[m][n]) \in Messages
         /\ [w EXCEPT ![m][n] = Tail(@)] \in Wires
<1>1. w[m][n] \in Seq(Messages)
  BY DEF Wires
<1>2. Head(w[m][n]) \in Messages /\ Tail(w[m][n]) \in Seq(Messages)
  BY <1>1, HeadTailProperties
<1> QED
  BY <1>2 DEF Wires

-----------------------------------------------------------------------------
(* Types, in the form the steps preserve.                                  *)

TypeInv ==
  /\ layout \in [Node -> Layouts] /\ saved \in [Node -> Layouts]
  /\ wire \in Wires
  /\ monitors \in [Node -> SUBSET Slot]
  /\ known \in [Node -> [Node -> SUBSET Slot]]
  /\ snapshot \in [Node -> SUBSET Slot]
  /\ joined \in [Node -> [Node -> BOOLEAN]]
  /\ arriving \in [Node -> [Node -> (SUBSET Slot) \union {None}]]
  /\ open \subseteq SUBSET Node /\ apart \subseteq SUBSET Node
  /\ edits \in 0 .. MaxEdits
  /\ plugs \in 0 .. MaxPlugs
  /\ breaks \in 0 .. MaxBreaks

LEMMA TypesFollow == TypeInv => LayoutTypeOK
<1> SUFFICES ASSUME TypeInv PROVE LayoutTypeOK
  OBVIOUS
<1>1. /\ DOMAIN layout = Node /\ \A n \in Node : IsLayout(layout[n])
      /\ DOMAIN saved = Node /\ \A n \in Node : IsLayout(saved[n])
  BY LayoutParts DEF TypeInv
<1>2. ASSUME NEW n \in Node, NEW m \in Node, NEW i \in DOMAIN wire[n][m]
      PROVE  IsMessage(wire[n][m][i])
  <2>1. wire[n][m] \in Seq(Messages)
    BY DEF TypeInv, Wires
  <2>2. wire[n][m][i] \in Messages
    BY <2>1, ElementOfSeq, LenProperties
  <2> QED
    BY <2>2, MessageParts
<1> QED
  BY <1>1, <1>2 DEF TypeInv, LayoutTypeOK

(* What machine n may do to layouts: change its own, for one that wins.    *)
Kept(n) ==
  /\ layout' = [layout EXCEPT ![n] = layout'[n]]
  /\ layout'[n] = layout[n] \/ Accepts(layout[n], layout'[n])
  /\ monitors' = [monitors EXCEPT ![n] = monitors'[n]]

(* What its screens keep: a place if they had one.                         *)
HomeKept(n) ==
  NeedsPlacement(layout'[n], n, monitors'[n]) => NeedsPlacement(layout[n], n, monitors[n])

(* A step that saves what it does, and what only a restart does.           *)
Adopted(n) == Kept(n) /\ Saves(n)

Resumed(n) ==
  /\ layout' = [layout EXCEPT ![n] = WithPlaceFor(saved[n], n, monitors'[n])]
  /\ monitors' = [monitors EXCEPT ![n] = monitors'[n]]
  /\ monitors'[n] = monitors[n] \/ plugs' = plugs + 1
  /\ UNCHANGED saved
  /\ breaks' = breaks + 1

LEMMA SavesType ==
  ASSUME TypeInv, NEW n \in Node, Saves(n), layout' \in [Node -> Layouts]
  PROVE  saved' \in [Node -> Layouts]
BY DEF Saves, TypeInv

LEMMA NothingKept ==
  ASSUME TypeInv, NEW n \in Node, UNCHANGED <<layout, monitors, saved>>
  PROVE  Adopted(n) /\ HomeKept(n)
<1>1. [layout EXCEPT ![n] = layout[n]] = layout /\ [saved EXCEPT ![n] = saved[n]] = saved
  BY DEF TypeInv
<1>2. [monitors EXCEPT ![n] = monitors[n]] = monitors
  BY DEF TypeInv
<1> QED
  BY <1>1, <1>2 DEF Adopted, Kept, HomeKept, Saves

LEMMA MovedKept ==
  ASSUME TypeInv, NEW n \in Node, NEW new \in Layouts, NEW slots \in SUBSET Slot,
         layout' = [layout EXCEPT ![n] = new], monitors' = [monitors EXCEPT ![n] = slots],
         new = layout[n] \/ Accepts(layout[n], new), Saves(n)
  PROVE  /\ Adopted(n) /\ layout' \in [Node -> Layouts] /\ saved' \in [Node -> Layouts]
         /\ monitors' \in [Node -> SUBSET Slot]
         /\ (NeedsPlacement(new, n, slots) => NeedsPlacement(layout[n], n, monitors[n])) => HomeKept(n)
<1>1. layout'[n] = new /\ monitors'[n] = slots
  BY DEF TypeInv
<1>2. layout' \in [Node -> Layouts] /\ monitors' \in [Node -> SUBSET Slot]
  BY DEF TypeInv
<1> QED
  BY <1>1, <1>2, SavesType DEF Adopted, Kept, HomeKept

LEMMA OwnLayoutMoved ==
  ASSUME TypeInv, NEW n \in Node, NEW new \in Layouts, UNCHANGED monitors,
         layout' = [layout EXCEPT ![n] = new],
         new = layout[n] \/ Accepts(layout[n], new), Saves(n)
  PROVE  /\ Adopted(n) /\ layout' \in [Node -> Layouts] /\ saved' \in [Node -> Layouts]
         /\ layout'[n] = new
         /\ (NeedsPlacement(new, n, monitors[n]) => NeedsPlacement(layout[n], n, monitors[n])) => HomeKept(n)
<1>1. PICK slots \in SUBSET Slot : slots = monitors[n]
  BY DEF TypeInv
<1>2. monitors' = [monitors EXCEPT ![n] = slots]
  BY <1>1 DEF TypeInv
<1>3. layout'[n] = new
  BY DEF TypeInv
<1> QED
  BY <1>1, <1>2, <1>3, MovedKept

LEMMA EmptyIsLayout == EmptyLayout \in Layouts
<1>1. <<>> \in [{} -> Place]
  OBVIOUS
<1> QED
  BY <1>1, LayoutMade DEF EmptyLayout

LEMMA InitTypes == LayoutInit => TypeInv
<1> SUFFICES ASSUME LayoutInit PROVE TypeInv
  OBVIOUS
<1>1. {Least(Slot)} \in SUBSET Slot
  BY LayoutAssumption, LeastOfNaturals
<1>2. \A n \in Node : WithPlaceFor(EmptyLayout, n, {Least(Slot)}) \in Layouts
  BY <1>1, EmptyIsLayout, WithPlaceForType
<1>3. layout \in [Node -> Layouts] /\ saved \in [Node -> Layouts]
  BY <1>2, EmptyIsLayout DEF LayoutInit
<1>4. wire \in Wires
  <2>1. <<>> \in Seq(Messages)
    OBVIOUS
  <2> QED
    BY <2>1 DEF LayoutInit, Wires
<1>5. 0 \in 0 .. MaxEdits /\ 0 \in 0 .. MaxPlugs /\ 0 \in 0 .. MaxBreaks
  BY LayoutAssumption
<1>6. /\ monitors \in [Node -> SUBSET Slot]
      /\ snapshot \in [Node -> SUBSET Slot]
      /\ known \in [Node -> [Node -> SUBSET Slot]]
      /\ joined \in [Node -> [Node -> BOOLEAN]]
      /\ arriving \in [Node -> [Node -> (SUBSET Slot) \union {None}]]
      /\ open \subseteq SUBSET Node /\ apart \subseteq SUBSET Node
  BY <1>1 DEF LayoutInit
<1>7. edits \in 0 .. MaxEdits /\ plugs \in 0 .. MaxPlugs /\ breaks \in 0 .. MaxBreaks
  BY <1>5 DEF LayoutInit
<1> QED
  BY <1>3, <1>4, <1>6, <1>7 DEF TypeInv

-----------------------------------------------------------------------------
(* One lemma per step.                                                     *)

LEMMA ConnectStep ==
  ASSUME TypeInv, NEW n \in Node, NEW m \in Others(n), Connect(n, m)
  PROVE  TypeInv' /\ Adopted(n) /\ HomeKept(n)
<1>1. m \in Node /\ Pair(n, m) \in SUBSET Node
  BY DEF Others, Pair
<1>2. open' \subseteq SUBSET Node
  BY <1>1 DEF Connect, TypeInv
<1>3. arriving' \in [Node -> [Node -> (SUBSET Slot) \union {None}]]
  BY <1>1 DEF Connect, TypeInv
<1>4. snapshot' \in [Node -> SUBSET Slot]
  BY <1>1 DEF Connect, TypeInv
<1>5. Adopted(n) /\ HomeKept(n)
  BY NothingKept DEF Connect
<1> QED
  BY <1>2, <1>3, <1>4, <1>5 DEF Connect, TypeInv

LEMMA PeerReadyStep ==
  ASSUME TypeInv, NEW n \in Node, NEW m \in Others(n), PeerReady(n, m)
  PROVE  TypeInv' /\ Adopted(n) /\ HomeKept(n)
<1> DEFINE slots == arriving[n][m]
           new == WithPlaceFor(layout[n], m, slots)
<1>1. m \in Node /\ m # n
  BY DEF Others
<1>2. slots \in SUBSET Slot /\ layout[n] \in Layouts /\ monitors[n] \in SUBSET Slot
  BY <1>1 DEF PeerReady, TypeInv
<1>3. /\ new \in Layouts
      /\ new = layout[n] \/ Accepts(layout[n], new)
      /\ NeedsPlacement(new, n, monitors[n]) => NeedsPlacement(layout[n], n, monitors[n])
  <2> HIDE DEF slots
  <2>1. new = layout[n] \/ new.revision = layout[n].revision + 1
    BY <1>1, <1>2, WithPlaceForType
  <2>2. layout[n].revision \in Nat
    BY <1>2, LayoutParts
  <2> QED
    BY <1>1, <1>2, <2>1, <2>2, WithPlaceForType, WithPlaceForOther, HigherAccepted
<1>4. layout' = [layout EXCEPT ![n] = new] /\ UNCHANGED monitors /\ Saves(n)
  BY DEF PeerReady
<1>5. /\ Adopted(n) /\ HomeKept(n) /\ layout'[n] = new
      /\ layout' \in [Node -> Layouts] /\ saved' \in [Node -> Layouts]
  <2> HIDE DEF new
  <2> QED
    BY <1>3, <1>4, OwnLayoutMoved
<1>6. wire' \in Wires
  <2>1. <<LayoutUpdate(layout'[n]), LayoutRequest>> \in Seq(Messages)
    BY <1>3, <1>5, MessageParts
  <2> QED
    BY <2>1, SentType DEF PeerReady, TypeInv
<1>7. arriving' \in [Node -> [Node -> (SUBSET Slot) \union {None}]]
  BY <1>1 DEF PeerReady, TypeInv
<1>8. joined' \in [Node -> [Node -> BOOLEAN]]
  BY <1>1 DEF PeerReady, TypeInv
<1>9. known' \in [Node -> [Node -> SUBSET Slot]]
  BY <1>1, <1>2 DEF PeerReady, TypeInv
<1> QED
  BY <1>5, <1>6, <1>7, <1>8, <1>9 DEF PeerReady, TypeInv

LEMMA BreakStep ==
  ASSUME TypeInv, NEW n \in Node, NEW m \in Others(n), Break(n, m)
  PROVE  TypeInv' /\ Adopted(n) /\ HomeKept(n)
<1>1. m \in Node /\ m # n
  BY DEF Others
<1>2. wire' \in Wires
  <2>1. PICK i \in 0 .. Len(wire[n][m]), j \in 0 .. Len(wire[m][n]) :
          wire' = [wire EXCEPT ![n][m] = SubSeq(@, 1, i), ![m][n] = SubSeq(@, 1, j)]
    BY DEF Break
  <2>2. wire[n][m] \in Seq(Messages) /\ wire[m][n] \in Seq(Messages)
    BY <1>1 DEF TypeInv, Wires
  <2>3. SubSeq(wire[n][m], 1, i) \in Seq(Messages) /\ SubSeq(wire[m][n], 1, j) \in Seq(Messages)
    BY <2>2, PrefixType
  <2> QED
    BY <1>1, <2>1, <2>3 DEF TypeInv, Wires
<1>3. breaks' \in 0 .. MaxBreaks
  BY LayoutAssumption DEF Break, MayBreak, TypeInv
<1>4. Adopted(n) /\ HomeKept(n)
  BY NothingKept DEF Break
<1> QED
  BY <1>2, <1>3, <1>4 DEF Break, TypeInv

LEMMA PeerGoneStep ==
  ASSUME TypeInv, NEW n \in Node, NEW m \in Others(n), PeerGone(n, m)
  PROVE  TypeInv' /\ Adopted(n) /\ HomeKept(n)
<1>1. joined' \in [Node -> [Node -> BOOLEAN]]
  BY DEF Others, PeerGone, TypeInv
<1>2. Adopted(n) /\ HomeKept(n)
  BY NothingKept DEF PeerGone
<1> QED
  BY <1>1, <1>2 DEF PeerGone, TypeInv

LEMMA PairAgainStep ==
  ASSUME TypeInv, NEW n \in Node, NEW m \in Others(n), PairAgain(n, m)
  PROVE  TypeInv' /\ Adopted(n) /\ HomeKept(n)
<1>1. Adopted(n) /\ HomeKept(n)
  BY NothingKept DEF PairAgain
<1> QED
  BY <1>1 DEF PairAgain, TypeInv

(* The longest of the queues, with one for every machine.                  *)
LEMMA LongestType ==
  ASSUME TypeInv, NEW n \in Node
  PROVE  Longest(n) \in Int
<1> DEFINE f == [m \in Node |-> Len(wire[n][m])]
<1>1. \A m \in Node : wire[n][m] \in Seq(Messages) /\ Len(wire[n][m]) \in Nat
  BY LenProperties DEF TypeInv, Wires
<1>2. f \in [Node -> Int] /\ IsFiniteSet(Node) /\ Node # {}
  BY <1>1, LayoutAssumption
<1>3. Greatest({f[m] : m \in Node}) \in {f[m] : m \in Node}
  <2> HIDE DEF f
  <2> QED
    BY <1>2, GreatestValue
<1>4. {f[m] : m \in Node} = {Len(wire[n][m]) : m \in Node}
  OBVIOUS
<1>5. {f[m] : m \in Node} \subseteq Int
  BY <1>2
<1> QED
  BY <1>3, <1>4, <1>5 DEF Longest

LEMMA RestartStep ==
  ASSUME TypeInv, NEW n \in Node, Restart(n)
  PROVE  TypeInv' /\ Resumed(n)
<1>1. PICK slots \in SUBSET Slot :
        /\ slots # monitors[n] => MayPlug
        /\ plugs' = IF slots = monitors[n] THEN plugs ELSE plugs + 1
        /\ monitors' = [monitors EXCEPT ![n] = slots]
        /\ snapshot' = [snapshot EXCEPT ![n] = slots]
        /\ layout' = [layout EXCEPT ![n] = WithPlaceFor(saved[n], n, slots)]
  BY DEF Restart
<1>2. WithPlaceFor(saved[n], n, slots) \in Layouts
  BY WithPlaceForType DEF TypeInv
<1>3. layout' \in [Node -> Layouts] /\ monitors' \in [Node -> SUBSET Slot] /\ monitors'[n] = slots
  BY <1>1, <1>2 DEF TypeInv
<1>4. UNCHANGED <<saved, apart>> /\ breaks' = breaks + 1
  BY DEF Restart
<1>5. Resumed(n)
  BY <1>1, <1>3, <1>4 DEF Resumed
<1>6. wire' \in Wires
  <2>1. PICK arrives \in [Others(n) -> 0 .. Longest(n)] :
          /\ \A m \in Others(n) : arrives[m] <= Len(wire[n][m])
          /\ wire' = [a \in Node |-> [b \in Node |->
                        CASE b = n -> <<>>
                          [] a = n /\ b # n -> SubSeq(wire[n][b], 1, arrives[b])
                          [] OTHER -> wire[a][b]]]
    BY DEF Restart
  <2>2. \A a, b \in Node : wire[a][b] \in Seq(Messages) /\ Len(wire[a][b]) \in Nat
    BY LenProperties DEF TypeInv, Wires
  <2>3. Longest(n) \in Int
    BY LongestType
  <2>4. ASSUME NEW b \in Node, b # n
        PROVE  SubSeq(wire[n][b], 1, arrives[b]) \in Seq(Messages)
    <3>1. b \in Others(n)
      BY <2>4 DEF Others
    <3>2. arrives[b] \in 0 .. Len(wire[n][b])
      BY <2>1, <2>2, <2>3, <3>1
    <3> QED
      BY <2>2, <3>2, PrefixType
  <2>5. ASSUME NEW a \in Node, NEW b \in Node
        PROVE  (CASE b = n -> <<>>
                  [] a = n /\ b # n -> SubSeq(wire[n][b], 1, arrives[b])
                  [] OTHER -> wire[a][b]) \in Seq(Messages)
    BY <2>2, <2>4
  <2> QED
    BY <2>1, <2>5 DEF Wires
<1>7. plugs' \in 0 .. MaxPlugs /\ breaks' \in 0 .. MaxBreaks
  BY <1>1, LayoutAssumption DEF Restart, MayBreak, MayPlug, TypeInv
<1>8. open' \subseteq SUBSET Node
  BY DEF Restart, TypeInv
<1>9. /\ known' \in [Node -> [Node -> SUBSET Slot]]
      /\ snapshot' \in [Node -> SUBSET Slot]
  BY <1>1 DEF Restart, TypeInv
<1>10. joined' \in [Node -> [Node -> BOOLEAN]]
  BY DEF Restart, TypeInv
<1>11. arriving' \in [Node -> [Node -> (SUBSET Slot) \union {None}]]
  BY DEF Restart, TypeInv
<1>12. edits' = edits
  BY DEF Restart
<1> QED
  BY <1>3, <1>4, <1>5, <1>6, <1>7, <1>8, <1>9, <1>10, <1>11, <1>12 DEF TypeInv

(* A step of n that gives it the layout new, tells the peers it chooses    *)
(* and otherwise only counts an edit.                                      *)
LEMMA EditStep ==
  ASSUME TypeInv, NEW n \in Node, NEW new \in Layouts,
         new = layout[n] \/ Accepts(layout[n], new),
         layout' = [layout EXCEPT ![n] = new], Saves(n),
         NEW peers, wire' = Sent(wire, n, peers, <<LayoutUpdate(layout'[n])>>),
         MayEdit, edits' = edits + 1, UNCHANGED <<monitors, plugs, breaks>>
  PROVE  /\ Adopted(n)
         /\ layout' \in [Node -> Layouts] /\ saved' \in [Node -> Layouts] /\ wire' \in Wires
         /\ edits' \in 0 .. MaxEdits
         /\ (NeedsPlacement(new, n, monitors[n]) => NeedsPlacement(layout[n], n, monitors[n])) => HomeKept(n)
<1>1. /\ Adopted(n) /\ layout'[n] = new
      /\ layout' \in [Node -> Layouts] /\ saved' \in [Node -> Layouts]
      /\ (NeedsPlacement(new, n, monitors[n]) => NeedsPlacement(layout[n], n, monitors[n])) => HomeKept(n)
  BY OwnLayoutMoved
<1>2. <<LayoutUpdate(layout'[n])>> \in Seq(Messages)
  BY <1>1, MessageParts
<1>3. wire' \in Wires
  BY <1>2, SentType DEF TypeInv
<1>4. edits' \in 0 .. MaxEdits
  BY LayoutAssumption DEF MayEdit, TypeInv
<1> QED
  BY <1>1, <1>3, <1>4

LEMMA SetLayoutStep ==
  ASSUME TypeInv, NEW n \in Node, SetLayout(n)
  PROVE  TypeInv' /\ Adopted(n)
<1>1. PICK S \in Drafts : \E places \in [S -> [x : Column, speed : Speed]] :
        layout' = [layout EXCEPT ![n] = [revision |-> @.revision + 1, places |-> places]]
  BY DEF SetLayout
<1>2. PICK places \in [S -> [x : Column, speed : Speed]] :
        layout' = [layout EXCEPT ![n] = [revision |-> @.revision + 1, places |-> places]]
  BY <1>1
<1> DEFINE new == [revision |-> layout[n].revision + 1, places |-> places]
<1>3. layout[n] \in Layouts /\ layout[n].revision \in Nat
  BY LayoutParts DEF TypeInv
<1>4. S \in SUBSET Screen /\ places \in [S -> Place]
  BY LayoutAssumption DEF Place, Screen
<1>5. new \in Layouts /\ Accepts(layout[n], new)
  <2>1. layout[n].revision + 1 \in Nat
    BY <1>3
  <2>2. new \in Layouts
    BY <1>4, <2>1, LayoutMade
  <2>3. new.revision > layout[n].revision
    BY <1>3
  <2> QED
    BY <2>2, <2>3, HigherAccepted
<1>6. layout' = [layout EXCEPT ![n] = new]
  BY <1>2
<1>7. /\ wire' = Sent(wire, n, PeersOf(n), <<LayoutUpdate(layout'[n])>>)
      /\ MayEdit /\ edits' = edits + 1 /\ UNCHANGED <<monitors, plugs, breaks>> /\ Saves(n)
  BY DEF SetLayout
<1>8. /\ Adopted(n) /\ layout' \in [Node -> Layouts] /\ saved' \in [Node -> Layouts]
      /\ wire' \in Wires /\ edits' \in 0 .. MaxEdits
  <2> HIDE DEF new
  <2> QED
    BY <1>5, <1>6, <1>7, EditStep
<1> QED
  BY <1>8 DEF SetLayout, TypeInv

LEMMA SlotsOfType ==
  ASSUME TypeInv, NEW n \in Node, NEW m \in Node
  PROVE  SlotsOf(n, m) \in SUBSET Slot /\ SlotsOf(n, n) = monitors[n]
BY DEF SlotsOf, TypeInv

LEMMA AutoLayoutOfStep ==
  ASSUME TypeInv, NEW n \in Node, NEW m \in Node, AutoLayoutOf(n, m)
  PROVE  TypeInv' /\ Adopted(n) /\ HomeKept(n)
<1> DEFINE new == Applied(layout[n], m, SlotsOf(n, m))
<1>1. layout[n] \in Layouts /\ monitors[n] \in SUBSET Slot /\ layout[n].revision \in Nat
  BY LayoutParts DEF TypeInv
<1>2. new \in Layouts /\ (new = layout[n] \/ Accepts(layout[n], new))
  BY <1>1, SlotsOfType, AppliedType, HigherAccepted
<1>3. NeedsPlacement(new, n, monitors[n]) => NeedsPlacement(layout[n], n, monitors[n])
  BY <1>1, SlotsOfType, AppliedType, WithPlaceForOther
<1>4. /\ layout' = [layout EXCEPT ![n] = new]
      /\ wire' = Sent(wire, n, PeersOf(n), <<LayoutUpdate(layout'[n])>>)
      /\ MayEdit /\ edits' = edits + 1 /\ UNCHANGED <<monitors, plugs, breaks>> /\ Saves(n)
  BY DEF AutoLayoutOf
<1>5. /\ Adopted(n) /\ HomeKept(n) /\ wire' \in Wires
      /\ layout' \in [Node -> Layouts] /\ saved' \in [Node -> Layouts]
      /\ edits' \in 0 .. MaxEdits
  <2> HIDE DEF new
  <2> QED
    BY <1>2, <1>3, <1>4, EditStep
<1> QED
  BY <1>5 DEF AutoLayoutOf, TypeInv

LEMMA ForgetPeerStep ==
  ASSUME TypeInv, NEW n \in Node, NEW m \in Others(n), ForgetPeer(n, m)
  PROVE  TypeInv' /\ Adopted(n) /\ HomeKept(n)
<1> DEFINE rest == OthersOf(layout[n], m)
           without == [revision |-> layout[n].revision + 1,
                       places |-> [s \in rest |-> layout[n].places[s]]]
           new == IF rest = Placed(layout[n]) THEN layout[n] ELSE without
           peers == IF layout' = layout THEN {} ELSE PeersOf(n) \ {m}
<1>1. m \in Node /\ m # n
  BY DEF Others
<1>2. /\ layout[n] \in Layouts /\ layout[n].revision \in Nat
      /\ Placed(layout[n]) \subseteq Screen
      /\ layout[n].places \in [Placed(layout[n]) -> Place]
  BY LayoutParts DEF TypeInv
<1>3. rest \in SUBSET Screen /\ [s \in rest |-> layout[n].places[s]] \in [rest -> Place]
  BY <1>2 DEF OthersOf
<1>4. without \in Layouts /\ without.revision > layout[n].revision
  <2> HIDE DEF rest
  <2>1. layout[n].revision + 1 \in Nat
    BY <1>2
  <2>2. without \in Layouts
    BY <1>3, <2>1, LayoutMade
  <2> QED
    BY <1>2, <2>2
<1>5. NeedsPlacement(without, n, monitors[n]) => NeedsPlacement(layout[n], n, monitors[n])
  BY <1>1 DEF NeedsPlacement, Placed, OthersOf
<1>6. /\ new \in Layouts
      /\ new = layout[n] \/ Accepts(layout[n], new)
      /\ NeedsPlacement(new, n, monitors[n]) => NeedsPlacement(layout[n], n, monitors[n])
  <2> HIDE DEF rest, without
  <2> QED
    BY <1>2, <1>4, <1>5, HigherAccepted
<1>7. /\ layout' = [layout EXCEPT ![n] = new]
      /\ wire' = Sent(wire, n, peers, <<LayoutUpdate(layout'[n])>>)
      /\ MayEdit /\ edits' = edits + 1 /\ UNCHANGED <<monitors, plugs, breaks>> /\ Saves(n)
  BY DEF ForgetPeer
<1>8. /\ Adopted(n) /\ HomeKept(n) /\ wire' \in Wires
      /\ layout' \in [Node -> Layouts] /\ saved' \in [Node -> Layouts]
      /\ edits' \in 0 .. MaxEdits
  <2> HIDE DEF new, peers
  <2> QED
    BY <1>6, <1>7, EditStep
<1>9. known' \in [Node -> [Node -> SUBSET Slot]] /\ open' \subseteq SUBSET Node
      /\ apart' \subseteq SUBSET Node
  BY <1>1 DEF ForgetPeer, Pair, TypeInv
<1>10. joined' \in [Node -> [Node -> BOOLEAN]]
  BY <1>1 DEF ForgetPeer, TypeInv
<1> QED
  BY <1>8, <1>9, <1>10 DEF ForgetPeer, TypeInv

LEMMA DisplaysChangeStep ==
  ASSUME TypeInv, NEW n \in Node, DisplaysChange(n)
  PROVE  TypeInv' /\ Adopted(n) /\ HomeKept(n)
<1>1. PICK slots \in SUBSET Slot :
        /\ monitors' = [monitors EXCEPT ![n] = slots]
        /\ layout' = [layout EXCEPT ![n] = WithPlaceFor(@, n, slots)]
        /\ wire' = Sent(wire, n, PeersOf(n), <<MonitorsChanged(slots)>>)
  BY DEF DisplaysChange
<1> DEFINE new == WithPlaceFor(layout[n], n, slots)
<1>2. layout[n] \in Layouts /\ layout[n].revision \in Nat
  BY LayoutParts DEF TypeInv
<1>3. /\ new \in Layouts
      /\ new = layout[n] \/ Accepts(layout[n], new)
      /\ ~NeedsPlacement(new, n, slots)
  <2>1. new = layout[n] \/ new.revision = layout[n].revision + 1
    BY <1>2, WithPlaceForType
  <2> QED
    BY <1>2, <2>1, WithPlaceForType, HigherAccepted
<1>4. layout' = [layout EXCEPT ![n] = new]
  BY <1>1
<1>0. Saves(n)
  BY DEF DisplaysChange
<1>5. /\ Adopted(n) /\ HomeKept(n) /\ monitors' \in [Node -> SUBSET Slot]
      /\ layout' \in [Node -> Layouts] /\ saved' \in [Node -> Layouts]
  <2> HIDE DEF new
  <2> QED
    BY <1>0, <1>1, <1>3, <1>4, MovedKept
<1>6. wire' \in Wires
  <2>1. <<MonitorsChanged(slots)>> \in Seq(Messages)
    BY MessageParts
  <2> QED
    BY <1>1, <2>1, SentType DEF TypeInv
<1>7. plugs' \in 0 .. MaxPlugs
  BY LayoutAssumption DEF DisplaysChange, MayPlug, TypeInv
<1> QED
  BY <1>5, <1>6, <1>7 DEF DisplaysChange, TypeInv

(* What the machines before one take up is a number of units.              *)
LEMMA UnitsFinite ==
  ASSUME TypeInv, NEW n \in Node, NEW Before \in SUBSET Targets(n)
  PROVE  Cardinality(UNION {Units(n, m) : m \in Before}) \in Nat
<1> DEFINE Bound == Greatest(Slot)
           U == UNION {Units(n, m) : m \in Before}
<1>1. Bound \in Nat /\ \A k \in Slot : k <= Bound
  <2> DEFINE f == [k \in Slot |-> k]
  <2>1. f \in [Slot -> Int] /\ IsFiniteSet(Slot) /\ Slot # {} /\ Slot \subseteq Nat
    BY LayoutAssumption
  <2>2. /\ Greatest({f[k] : k \in Slot}) \in {f[k] : k \in Slot}
        /\ \A k \in Slot : f[k] <= Greatest({f[e] : e \in Slot})
    <3> HIDE DEF f
    <3> QED
      BY <2>1, GreatestValue
  <2>3. {f[k] : k \in Slot} = Slot
    OBVIOUS
  <2> QED
    BY <2>1, <2>2, <2>3
<1>2. ASSUME NEW m \in Before PROVE Units(n, m) \subseteq Node \X (0 .. Bound)
  <2>1. m \in Node /\ SlotsOf(n, m) \in SUBSET Slot /\ SlotsOf(n, m) # {}
    BY SlotsOfType DEF Targets
  <2>2. SlotsOf(n, m) \in SUBSET Nat
    BY <2>1, LayoutAssumption
  <2>3. Least(SlotsOf(n, m)) \in Nat
    BY <2>1, <2>2, LeastOfNaturals
  <2>4. Greatest(SlotsOf(n, m)) \in SlotsOf(n, m)
    <3> DEFINE D == SlotsOf(n, m)
               f == [k \in D |-> k]
    <3>1. f \in [D -> Int] /\ IsFiniteSet(D) /\ D # {}
      BY <2>1, <2>2, LayoutAssumption, FS_Subset
    <3>2. Greatest({f[k] : k \in D}) \in {f[k] : k \in D}
      <4> HIDE DEF f, D
      <4> QED
        BY <3>1, GreatestValue
    <3>3. {f[k] : k \in D} = D
      OBVIOUS
    <3> QED
      BY <3>2, <3>3
  <2>5. Greatest(SlotsOf(n, m)) \in Nat /\ Greatest(SlotsOf(n, m)) <= Bound
    BY <1>1, <2>1, <2>2, <2>4
  <2>6. Least(SlotsOf(n, m)) .. Greatest(SlotsOf(n, m)) \subseteq 0 .. Bound
    <3> HIDE DEF Bound
    <3> QED
      BY <1>1, <2>3, <2>5
  <2> QED
    BY <2>1, <2>6 DEF Units
<1>3. U \subseteq Node \X (0 .. Bound)
  BY <1>2
<1>4. IsFiniteSet(Node \X (0 .. Bound))
  <2>1. IsFiniteSet(0 .. Bound)
    BY <1>1, FS_Interval
  <2> QED
    BY <2>1, LayoutAssumption, FS_Product
<1> QED
  BY <1>3, <1>4, FS_Subset, FS_CardinalityType

LEMMA AutoLayoutStep ==
  ASSUME TypeInv, NEW n \in Node, AutoLayout(n)
  PROVE  TypeInv' /\ Adopted(n) /\ HomeKept(n)
<1>1. PICK rank \in [Targets(n) \union {n} -> 0 .. Cardinality(Node)] :
        layout' = [layout EXCEPT ![n] = Arranged(n, rank)]
  BY DEF AutoLayout
<1> DEFINE S == UNION {{m} \X SlotsOf(n, m) : m \in Targets(n)}
           width(m) == Cardinality(UNION {Units(n, o) : o \in {o \in Targets(n) : rank[o] < rank[m]}})
           places == [s \in S |-> [x |-> width(s[1]) + s[2] - Least(SlotsOf(n, s[1])), speed |-> 1]]
           new == Arranged(n, rank)
<1>2. layout[n] \in Layouts /\ layout[n].revision \in Nat
  BY LayoutParts DEF TypeInv
<1>3. Targets(n) \subseteq Node /\ IsFiniteSet(Targets(n))
  BY LayoutAssumption, FS_Subset DEF Targets
<1>4. Cardinality(Targets(n)) \in Nat /\ Cardinality(Targets(n)) # 0
  BY <1>3, FS_CardinalityType, FS_EmptySet DEF AutoLayout
<1>5. S \in SUBSET Screen
  BY SlotsOfType DEF Targets, Screen
<1>6. places \in [S -> Place]
  <2>1. ASSUME NEW s \in S
        PROVE  width(s[1]) + s[2] - Least(SlotsOf(n, s[1])) \in Int
    <3>1. PICK m \in Targets(n) : s \in {m} \X SlotsOf(n, m)
      OBVIOUS
    <3>2. s[1] = m /\ s[2] \in SlotsOf(n, m) /\ SlotsOf(n, m) \in SUBSET Slot
      BY <3>1, SlotsOfType DEF Targets
    <3>3. s[2] \in Nat /\ Least(SlotsOf(n, m)) \in Nat
      <4>1. SlotsOf(n, m) \in SUBSET Nat /\ SlotsOf(n, m) # {}
        BY <3>2, LayoutAssumption
      <4> QED
        BY <3>2, <4>1, LeastOfNaturals
    <3>4. width(m) \in Nat
      BY UnitsFinite
    <3> HIDE DEF width
    <3> QED
      BY <3>2, <3>3, <3>4
  <2> HIDE DEF S, width
  <2> QED
    BY <2>1 DEF Place
<1>7. new = [revision |-> layout[n].revision + Cardinality(Targets(n)), places |-> places]
  BY DEF Arranged
<1>8. new \in Layouts /\ Accepts(layout[n], new)
  <2>1. /\ layout[n].revision + Cardinality(Targets(n)) \in Nat
        /\ layout[n].revision + Cardinality(Targets(n)) > layout[n].revision
    BY <1>2, <1>4
  <2> HIDE DEF S, places, new
  <2>2. new \in Layouts
    BY <1>5, <1>6, <1>7, <2>1, LayoutMade
  <2>3. new.revision > layout[n].revision
    BY <1>7, <2>1
  <2> QED
    BY <2>2, <2>3, HigherAccepted
<1>9. ~NeedsPlacement(new, n, monitors[n])
  <2>1. Placed(new) = S
    BY <1>7 DEF Placed
  <2>2. \A k \in monitors[n] : <<n, k>> \in S
    BY SlotsOfType DEF Targets
  <2> QED
    BY <2>1, <2>2 DEF NeedsPlacement
<1>10. /\ layout' = [layout EXCEPT ![n] = new]
       /\ wire' = Sent(wire, n, PeersOf(n), <<LayoutUpdate(layout'[n])>>)
       /\ MayEdit /\ edits' = edits + 1 /\ UNCHANGED <<monitors, plugs, breaks>> /\ Saves(n)
  BY <1>1 DEF AutoLayout
<1>11. /\ Adopted(n) /\ HomeKept(n) /\ wire' \in Wires
       /\ layout' \in [Node -> Layouts] /\ saved' \in [Node -> Layouts]
       /\ edits' \in 0 .. MaxEdits
  <2> HIDE DEF new
  <2> QED
    BY <1>8, <1>9, <1>10, EditStep
<1> QED
  BY <1>11 DEF AutoLayout, TypeInv

LEMMA IgnoreLateStep ==
  ASSUME TypeInv, NEW n \in Node, NEW m \in Others(n), IgnoreLate(n, m)
  PROVE  TypeInv' /\ Adopted(n) /\ HomeKept(n)
<1>1. wire' \in Wires
  BY TakenType DEF IgnoreLate, Rest, Others, TypeInv
<1>2. Adopted(n) /\ HomeKept(n)
  BY NothingKept DEF IgnoreLate
<1> QED
  BY <1>1, <1>2 DEF IgnoreLate, TypeInv

LEMMA HandleUpdateStep ==
  ASSUME TypeInv, NEW n \in Node, NEW m \in Others(n), HandleUpdate(n, m)
  PROVE  TypeInv' /\ Adopted(n) /\ HomeKept(n)
<1> DEFINE incoming == Head(wire[m][n]).layout
           adopted == WithPlaceFor(incoming, n, monitors[n])
<1>1. Rest(n, m) \in Wires /\ incoming \in Layouts
  BY TakenType, MessageParts DEF HandleUpdate, Takes, Rest, Others, TypeInv
<1>2. layout[n] \in Layouts /\ monitors[n] \in SUBSET Slot
  BY DEF TypeInv
<1>3. CASE Accepts(layout[n], incoming)
  <2> DEFINE peers == IF adopted.revision > incoming.revision THEN PeersOf(n) ELSE {}
  <2>1. /\ layout' = [layout EXCEPT ![n] = adopted]
        /\ wire' = Sent(Rest(n, m), n, peers, <<LayoutUpdate(adopted)>>)
    BY <1>3 DEF HandleUpdate
  <2>2. adopted \in Layouts /\ ~NeedsPlacement(adopted, n, monitors[n])
    BY <1>1, <1>2, WithPlaceForType
  <2>3. Accepts(layout[n], adopted)
    <3> HIDE DEF incoming
    <3> QED
      BY <1>1, <1>2, <1>3, AdoptedAccepted
  <2>4. /\ Adopted(n) /\ HomeKept(n)
        /\ layout' \in [Node -> Layouts] /\ saved' \in [Node -> Layouts]
    <3>1. UNCHANGED monitors /\ Saves(n)
      BY DEF HandleUpdate
    <3> HIDE DEF adopted
    <3> QED
      BY <2>1, <2>2, <2>3, <3>1, OwnLayoutMoved
  <2>5. wire' \in Wires
    <3>1. <<LayoutUpdate(adopted)>> \in Seq(Messages)
      BY <2>2, MessageParts
    <3> QED
      BY <1>1, <2>1, <3>1, SentType
  <2> QED
    BY <2>4, <2>5 DEF HandleUpdate, TypeInv
<1>4. CASE ~Accepts(layout[n], incoming)
  <2>1. wire' = Rest(n, m) /\ UNCHANGED layout
    BY <1>4 DEF HandleUpdate
  <2>2. UNCHANGED <<layout, monitors, saved>>
    BY <2>1 DEF HandleUpdate, Saves, TypeInv
  <2>3. Adopted(n) /\ HomeKept(n)
    BY <2>2, NothingKept
  <2> QED
    BY <1>1, <2>1, <2>2, <2>3 DEF HandleUpdate, TypeInv
<1> QED
  BY <1>3, <1>4

LEMMA HandleRequestStep ==
  ASSUME TypeInv, NEW n \in Node, NEW m \in Others(n), HandleRequest(n, m)
  PROVE  TypeInv' /\ Adopted(n) /\ HomeKept(n)
<1>1. Rest(n, m) \in Wires
  BY TakenType DEF HandleRequest, Takes, Rest, Others, TypeInv
<1>2. <<LayoutUpdate(layout[n])>> \in Seq(Messages)
  BY MessageParts DEF TypeInv
<1>3. wire' \in Wires
  BY <1>1, <1>2, SentType DEF HandleRequest
<1>4. Adopted(n) /\ HomeKept(n)
  BY NothingKept DEF HandleRequest
<1> QED
  BY <1>3, <1>4 DEF HandleRequest, TypeInv

LEMMA HandleMonitorsStep ==
  ASSUME TypeInv, NEW n \in Node, NEW m \in Others(n), HandleMonitors(n, m)
  PROVE  TypeInv' /\ Adopted(n) /\ HomeKept(n)
<1> DEFINE slots == Head(wire[m][n]).monitors
           new == WithPlaceFor(layout[n], m, slots)
           peers == IF NeedsPlacement(layout[n], m, slots) THEN PeersOf(n) ELSE {}
<1>1. Rest(n, m) \in Wires /\ slots \in SUBSET Slot
  BY TakenType, MessageParts DEF HandleMonitors, Takes, Rest, Others, TypeInv
<1>2. m \in Node /\ m # n /\ layout[n] \in Layouts /\ monitors[n] \in SUBSET Slot
  BY DEF Others, TypeInv
<1>3. /\ layout' = [layout EXCEPT ![n] = new]
      /\ known' = [known EXCEPT ![n][m] = slots]
      /\ wire' = Sent(Rest(n, m), n, peers, <<LayoutUpdate(layout'[n])>>)
  BY DEF HandleMonitors
<1> HIDE DEF slots
<1>4. /\ new \in Layouts
      /\ new = layout[n] \/ Accepts(layout[n], new)
      /\ NeedsPlacement(new, n, monitors[n]) => NeedsPlacement(layout[n], n, monitors[n])
  <2>1. new = layout[n] \/ new.revision = layout[n].revision + 1
    BY <1>1, <1>2, WithPlaceForType
  <2>2. layout[n].revision \in Nat
    BY <1>2, LayoutParts
  <2> QED
    BY <1>1, <1>2, <2>1, <2>2, WithPlaceForType, WithPlaceForOther, HigherAccepted
<1>5. /\ Adopted(n) /\ HomeKept(n) /\ layout'[n] = new
      /\ layout' \in [Node -> Layouts] /\ saved' \in [Node -> Layouts]
  <2>1. UNCHANGED monitors /\ Saves(n)
    BY DEF HandleMonitors
  <2> HIDE DEF new
  <2> QED
    BY <1>3, <1>4, <2>1, OwnLayoutMoved
<1>6. wire' \in Wires
  <2>1. <<LayoutUpdate(layout'[n])>> \in Seq(Messages)
    BY <1>4, <1>5, MessageParts
  <2> QED
    BY <1>1, <1>3, <2>1, SentType
<1>7. known' \in [Node -> [Node -> SUBSET Slot]]
  BY <1>1, <1>2, <1>3 DEF TypeInv
<1> QED
  BY <1>5, <1>6, <1>7 DEF HandleMonitors, TypeInv

-----------------------------------------------------------------------------
(* What a step may be: one that keeps n's screens where it has them, a     *)
(* layout its user saves, or a restart.                                    *)
LEMMA LayoutStep ==
  ASSUME TypeInv, LayoutNext
  PROVE  /\ TypeInv'
         /\ \E n \in Node :
              \/ Adopted(n) /\ (HomeKept(n) \/ SetLayout(n))
              \/ Resumed(n)
<1>1. PICK n \in Node :
        \/ SetLayout(n)
        \/ AutoLayout(n)
        \/ DisplaysChange(n)
        \/ Restart(n)
        \/ \E m \in Node : AutoLayoutOf(n, m)
        \/ \E m \in Others(n) :
             \/ Connect(n, m)
             \/ PeerReady(n, m)
             \/ Break(n, m)
             \/ PeerGone(n, m)
             \/ ForgetPeer(n, m)
             \/ PairAgain(n, m)
             \/ IgnoreLate(n, m)
             \/ HandleUpdate(n, m)
             \/ HandleRequest(n, m)
             \/ HandleMonitors(n, m)
  BY DEF LayoutNext
<1> SUFFICES TypeInv' /\ ((Adopted(n) /\ (HomeKept(n) \/ SetLayout(n))) \/ Resumed(n))
  OBVIOUS
<1>2. CASE SetLayout(n) \/ AutoLayout(n) \/ DisplaysChange(n) \/ Restart(n)
  BY <1>2, SetLayoutStep, AutoLayoutStep, DisplaysChangeStep, RestartStep
<1>3. CASE \E m \in Node : AutoLayoutOf(n, m)
  BY <1>3, AutoLayoutOfStep
<1>4. ASSUME NEW m \in Others(n),
             \/ Connect(n, m) \/ PeerReady(n, m) \/ Break(n, m) \/ PeerGone(n, m)
             \/ ForgetPeer(n, m) \/ PairAgain(n, m)
      PROVE  TypeInv' /\ Adopted(n) /\ HomeKept(n)
  BY <1>4, ConnectStep, PeerReadyStep, BreakStep, PeerGoneStep, ForgetPeerStep, PairAgainStep
<1>5. ASSUME NEW m \in Others(n),
             \/ IgnoreLate(n, m) \/ HandleUpdate(n, m)
             \/ HandleRequest(n, m) \/ HandleMonitors(n, m)
      PROVE  TypeInv' /\ Adopted(n) /\ HomeKept(n)
  BY <1>5, IgnoreLateStep, HandleUpdateStep, HandleRequestStep, HandleMonitorsStep
<1> QED
  BY <1>1, <1>2, <1>3, <1>4, <1>5

LEMMA StutterTypes == TypeInv /\ UNCHANGED layoutVars => TypeInv'
BY DEF TypeInv, layoutVars

LEMMA TypesAlways == LayoutSpec => []TypeInv
<1>1. LayoutInit => TypeInv
  BY InitTypes
<1>2. TypeInv /\ [LayoutNext]_layoutVars => TypeInv'
  BY LayoutStep, StutterTypes
<1> QED
  BY <1>1, <1>2, PTL DEF LayoutSpec

LEMMA ResumedHome ==
  ASSUME TypeInv, TypeInv', NEW n \in Node, Resumed(n)
  PROVE  ~NeedsPlacement(layout'[n], n, monitors'[n])
<1>1. layout'[n] = WithPlaceFor(saved[n], n, monitors'[n])
  BY DEF Resumed, TypeInv
<1>2. saved[n] \in Layouts /\ monitors'[n] \in SUBSET Slot
  BY DEF TypeInv
<1> QED
  BY <1>1, <1>2, WithPlaceForType

(* Every engine's copy is an arrangement of existing screens with a        *)
(* revision, and every message one of the three kinds, whatever engines    *)
(* send, lose and restart: LayoutTypeOK.                                   *)
THEOREM LayoutTypeCorrect == LayoutSpec => []LayoutTypeOK
BY TypesAlways, TypesFollow, PTL

(* A machine's attached screens keep their places in its own layout, or it *)
(* is its own user who saves one without them: HomeIsOnTheMap.  No handler *)
(* that adopts, places, arranges or forgets is an exception, nor is a      *)
(* restart, which finds its place in whatever was saved.                   *)
THEOREM LayoutHome == LayoutSpec => HomeIsOnTheMap
<1>1. TypeInv /\ [LayoutNext]_layoutVars
        => [\A n \in Node : AtHome(n) => AtHome(n)' \/ SetLayout(n)]_layoutVars
  <2> SUFFICES ASSUME TypeInv, LayoutNext, NEW m \in Node, AtHome(m)
               PROVE  ~NeedsPlacement(layout'[m], m, monitors'[m]) \/ SetLayout(m)
    BY DEF AtHome
  <2>1. PICK n \in Node : (Adopted(n) /\ (HomeKept(n) \/ SetLayout(n))) \/ Resumed(n)
    BY LayoutStep
  <2>2. CASE m # n
    <3>1. layout'[m] = layout[m] /\ monitors'[m] = monitors[m]
      <4>1. PICK l, slots : layout' = [layout EXCEPT ![n] = l] /\ monitors' = [monitors EXCEPT ![n] = slots]
        BY <2>1 DEF Adopted, Kept, Resumed
      <4> QED
        BY <2>2, <4>1 DEF TypeInv
    <3> QED
      BY <3>1 DEF AtHome
  <2>3. CASE m = n /\ Adopted(n)
    <3>1. HomeKept(m) \/ SetLayout(m) \/ Resumed(m)
      BY <2>1, <2>3
    <3> QED
      BY <2>3, <3>1, LayoutStep, ResumedHome DEF AtHome, HomeKept
  <2>4. CASE m = n /\ Resumed(n)
    BY <2>4, LayoutStep, ResumedHome
  <2> QED
    BY <2>1, <2>2, <2>3, <2>4
<1>2. LayoutSpec => [][\A n \in Node : AtHome(n) => AtHome(n)' \/ SetLayout(n)]_layoutVars
  BY <1>1, TypesAlways, PTL DEF LayoutSpec
<1> QED
  BY <1>2 DEF HomeIsOnTheMap

-----------------------------------------------------------------------------
(* What is saved.                                                          *)

(* The layout in use is the one saved, or a better one.                    *)
SavedBehind == \A n \in Node : layout[n] = saved[n] \/ Accepts(saved[n], layout[n])

LEMMA FilledIsBetter ==
  ASSUME NEW l \in Layouts, NEW n \in Node, NEW slots \in SUBSET Slot
  PROVE  WithPlaceFor(l, n, slots) = l \/ Accepts(l, WithPlaceFor(l, n, slots))
<1>1. l.revision \in Nat
  BY LayoutParts
<1> QED
  BY <1>1, WithPlaceForType, HigherAccepted

LEMMA SavedAlways == LayoutSpec => []SavedBehind
<1>1. LayoutInit => SavedBehind
  <2> SUFFICES ASSUME LayoutInit, NEW n \in Node
               PROVE  layout[n] = saved[n] \/ Accepts(saved[n], layout[n])
    BY DEF SavedBehind
  <2>1. PICK slots \in SUBSET Slot : slots = {Least(Slot)}
    BY LayoutAssumption, LeastOfNaturals
  <2>2. saved[n] = EmptyLayout /\ layout[n] = WithPlaceFor(EmptyLayout, n, slots)
    BY <2>1 DEF LayoutInit
  <2> QED
    BY <2>2, EmptyIsLayout, FilledIsBetter
<1>2. TypeInv /\ SavedBehind /\ [LayoutNext]_layoutVars => SavedBehind'
  <2>1. ASSUME TypeInv, SavedBehind, LayoutNext
        PROVE  SavedBehind'
    <3> SUFFICES ASSUME NEW m \in Node
                 PROVE  layout'[m] = saved'[m] \/ Accepts(saved'[m], layout'[m])
      BY DEF SavedBehind
    <3>1. TypeInv'
      BY <2>1, LayoutStep
    <3>2. PICK n \in Node : Adopted(n) \/ Resumed(n)
      BY <2>1, LayoutStep
    <3>3. CASE Adopted(n)
      BY <2>1, <3>3 DEF Adopted, Kept, Saves, SavedBehind, TypeInv
    <3>4. CASE Resumed(n)
      BY <2>1, <3>1, <3>4, FilledIsBetter DEF Resumed, SavedBehind, TypeInv
    <3> QED
      BY <3>2, <3>3, <3>4
  <2>2. ASSUME SavedBehind, UNCHANGED layoutVars
        PROVE  SavedBehind'
    BY <2>2 DEF SavedBehind, layoutVars
  <2> QED
    BY <2>1, <2>2
<1> QED
  BY <1>1, <1>2, TypesAlways, PTL DEF LayoutSpec

(* The engines implement AgreedLayout with what they save: whatever a step *)
(* does, at most one saved layout changes, and for one that accept_layout  *)
(* prefers; the same holds of the layouts in use but for a restart.        *)
THEOREM LayoutKeepsPromise == LayoutSpec => KeepsPromise
<1>1. LayoutSpec => DOMAIN saved = Node
  BY DEF LayoutSpec, LayoutInit
<1>2. TypeInv /\ SavedBehind /\ [LayoutNext]_layoutVars => [\E m \in Node : OnDisk!Improve(m)]_saved
  <2> SUFFICES ASSUME TypeInv, SavedBehind, LayoutNext, saved' # saved
               PROVE  \E m \in Node : OnDisk!Improve(m)
    BY DEF layoutVars
  <2>1. TypeInv'
    BY LayoutStep
  <2>2. PICK n \in Node : Adopted(n)
    BY LayoutStep DEF Resumed
  <2>3. layout'[n] # layout[n] /\ saved' = [saved EXCEPT ![n] = layout'[n]] /\ saved'[n] = layout'[n]
    <3>1. [saved EXCEPT ![n] = saved[n]] = saved
      BY DEF TypeInv
    <3> QED
      BY <2>2, <3>1 DEF Adopted, Saves, TypeInv
  <2>4. Accepts(saved[n], saved'[n])
    <3>1. saved[n] \in Layouts /\ layout[n] \in Layouts /\ layout'[n] \in Layouts
      BY <2>1 DEF TypeInv
    <3>2. Accepts(layout[n], layout'[n])
      BY <2>2, <2>3 DEF Adopted, Kept
    <3>3. layout[n] = saved[n] \/ Accepts(saved[n], layout[n])
      BY DEF SavedBehind
    <3> QED
      BY <2>3, <3>1, <3>2, <3>3, AcceptsIsAnOrder
  <2> QED
    BY <2>3, <2>4 DEF OnDisk!Improve
<1>3. TypeInv /\ [LayoutNext]_layoutVars
        => [breaks' # breaks \/ \E m \in Node : InUse!Improve(m)]_layout
  <2> SUFFICES ASSUME TypeInv, LayoutNext, layout' # layout, breaks' = breaks
               PROVE  \E m \in Node : InUse!Improve(m)
    BY DEF layoutVars
  <2>1. PICK n \in Node : Kept(n)
    <3>1. breaks + 1 # breaks
      BY LayoutAssumption DEF TypeInv
    <3> QED
      BY <3>1, LayoutStep DEF Adopted, Resumed
  <2>2. layout'[n] # layout[n]
    <3>1. [layout EXCEPT ![n] = layout[n]] = layout
      BY DEF TypeInv
    <3> QED
      BY <2>1, <3>1 DEF Kept
  <2> QED
    BY <2>1, <2>2 DEF Kept, InUse!Improve
<1>4. LayoutSpec => [][\E m \in Node : OnDisk!Improve(m)]_saved
  BY <1>2, TypesAlways, SavedAlways, PTL DEF LayoutSpec
<1>5. LayoutSpec => [][breaks' # breaks \/ \E m \in Node : InUse!Improve(m)]_layout
  BY <1>3, TypesAlways, PTL DEF LayoutSpec
<1> QED
  BY <1>1, <1>4, <1>5 DEF KeepsPromise, OnDisk!AgreedSpec

-----------------------------------------------------------------------------
(* What is under way.                                                      *)

Contents(s) == {s[i] : i \in DOMAIN s}

LEMMA Contained ==
  ASSUME NEW T, NEW s \in Seq(T), NEW t \in Seq(T)
  PROVE  /\ Contents(s \o t) = Contents(s) \union Contents(t)
         /\ s # <<>> => Contents(s) = {Head(s)} \union Contents(Tail(s))
         /\ \A i \in 0 .. Len(s) : Contents(SubSeq(s, 1, i)) \subseteq Contents(s)
<1>1. Contents(s \o t) = Contents(s) \union Contents(t)
  <2>1. /\ Len(s) \in Nat /\ DOMAIN s = 1 .. Len(s)
        /\ Len(t) \in Nat /\ DOMAIN t = 1 .. Len(t)
    BY LenProperties
  <2>2. DOMAIN (s \o t) = 1 .. Len(s) + Len(t)
    BY ConcatProperties, LenProperties
  <2>3. \A i \in 1 .. Len(s) + Len(t) :
          (s \o t)[i] = IF i <= Len(s) THEN s[i] ELSE t[i - Len(s)]
    BY ConcatProperties
  <2>4. ASSUME NEW i \in DOMAIN (s \o t)
        PROVE  (s \o t)[i] \in Contents(s) \union Contents(t)
    <3>1. CASE i <= Len(s)
      BY <2>1, <2>2, <2>3, <3>1 DEF Contents
    <3>2. CASE ~(i <= Len(s))
      <4>1. i - Len(s) \in DOMAIN t /\ (s \o t)[i] = t[i - Len(s)]
        BY <2>1, <2>2, <2>3, <3>2
      <4> QED
        BY <4>1 DEF Contents
    <3> QED
      BY <3>1, <3>2
  <2>5. ASSUME NEW i \in DOMAIN s
        PROVE  s[i] \in Contents(s \o t)
    <3>1. i \in DOMAIN (s \o t) /\ (s \o t)[i] = s[i]
      BY <2>1, <2>2, <2>3
    <3> QED
      BY <3>1 DEF Contents
  <2>6. ASSUME NEW i \in DOMAIN t
        PROVE  t[i] \in Contents(s \o t)
    <3>1. Len(s) + i \in DOMAIN (s \o t) /\ (s \o t)[Len(s) + i] = t[i]
      BY <2>1, <2>2, <2>3
    <3> QED
      BY <3>1 DEF Contents
  <2>7. Contents(s \o t) \subseteq Contents(s) \union Contents(t)
    BY <2>4 DEF Contents
  <2>8. Contents(s) \subseteq Contents(s \o t) /\ Contents(t) \subseteq Contents(s \o t)
    BY <2>5, <2>6 DEF Contents
  <2> QED
    BY <2>7, <2>8
<1>2. ASSUME s # <<>>
      PROVE  Contents(s) = {Head(s)} \union Contents(Tail(s))
  <2>1. Len(s) \in Nat \ {0} /\ DOMAIN s = 1 .. Len(s)
    BY <1>2, LenProperties, EmptySeq
  <2>2. DOMAIN Tail(s) = 1 .. Len(s) - 1 /\ \A i \in 1 .. Len(s) - 1 : Tail(s)[i] = s[i + 1]
    BY <1>2, HeadTailProperties, LenProperties
  <2>3. Head(s) = s[1]
    BY <1>2
  <2>4. ASSUME NEW i \in DOMAIN s
        PROVE  s[i] = Head(s) \/ s[i] \in Contents(Tail(s))
    <3>1. CASE i = 1
      BY <2>3, <3>1
    <3>2. CASE i # 1
      <4>1. i - 1 \in DOMAIN Tail(s) /\ Tail(s)[i - 1] = s[i]
        BY <2>1, <2>2, <3>2
      <4> QED
        BY <4>1 DEF Contents
    <3> QED
      BY <3>1, <3>2
  <2>5. ASSUME NEW i \in DOMAIN Tail(s)
        PROVE  Tail(s)[i] \in Contents(s)
    <3>1. i + 1 \in DOMAIN s /\ Tail(s)[i] = s[i + 1]
      BY <2>1, <2>2
    <3> QED
      BY <3>1 DEF Contents
  <2>6. Head(s) \in Contents(s)
    BY <2>1, <2>3 DEF Contents
  <2> QED
    BY <2>4, <2>5, <2>6 DEF Contents
<1>3. ASSUME NEW i \in 0 .. Len(s)
      PROVE  Contents(SubSeq(s, 1, i)) \subseteq Contents(s)
  <2>1. Len(s) \in Nat /\ DOMAIN s = 1 .. Len(s)
    BY LenProperties
  <2>2. \A j \in 1 .. i : s[j] \in T
    BY <2>1, ElementOfSeq
  <2>3. /\ SubSeq(s, 1, i) \in Seq(T)
        /\ Len(SubSeq(s, 1, i)) = IF 1 <= i THEN i - 1 + 1 ELSE 0
        /\ \A j \in 1 .. i - 1 + 1 : SubSeq(s, 1, i)[j] = s[1 + j - 1]
    BY <2>1, <2>2, SubSeqProperties
  <2>4. DOMAIN SubSeq(s, 1, i) = 1 .. i
    BY <2>1, <2>3, LenProperties
  <2>5. \A j \in DOMAIN SubSeq(s, 1, i) : j \in DOMAIN s /\ SubSeq(s, 1, i)[j] = s[j]
    BY <2>1, <2>3, <2>4
  <2> QED
    BY <2>5 DEF Contents
<1> QED
  BY <1>1, <1>2, <1>3

LEMMA OneOrTwo ==
  /\ \A x : Contents(<<x>>) = {x}
  /\ \A x, y : Contents(<<x, y>>) = {x, y}
BY DEF Contents

Reaches(n, m, peers) == m \in peers /\ Pair(n, m) \in open

LEMMA SentTo ==
  \A w \in Wires, n \in Node, m \in Node, msgs \in Seq(Messages) : \A peers :
    m # n =>
      /\ Reaches(n, m, peers) =>
           Contents(Sent(w, n, peers, msgs)[n][m]) = Contents(w[n][m]) \union Contents(msgs)
      /\ ~Reaches(n, m, peers) => Contents(Sent(w, n, peers, msgs)[n][m]) = Contents(w[n][m])
      /\ Contents(Sent(w, n, peers, msgs)[m][n]) = Contents(w[m][n])
<1> SUFFICES ASSUME NEW w \in Wires, NEW n \in Node, NEW m \in Node,
                    NEW msgs \in Seq(Messages), NEW peers, m # n
             PROVE  /\ Reaches(n, m, peers) =>
                         Contents(Sent(w, n, peers, msgs)[n][m])
                           = Contents(w[n][m]) \union Contents(msgs)
                    /\ ~Reaches(n, m, peers) =>
                         Contents(Sent(w, n, peers, msgs)[n][m]) = Contents(w[n][m])
                    /\ Contents(Sent(w, n, peers, msgs)[m][n]) = Contents(w[m][n])
  OBVIOUS
<1>1. w[n][m] \in Seq(Messages)
  BY DEF Wires
<1>2. /\ Sent(w, n, peers, msgs)[n][m] =
           IF Reaches(n, m, peers) THEN w[n][m] \o msgs ELSE w[n][m]
      /\ Sent(w, n, peers, msgs)[m][n] = w[m][n]
  BY DEF Sent, Wires, Reaches
<1>3. Contents(w[n][m] \o msgs) = Contents(w[n][m]) \union Contents(msgs)
  BY <1>1, Contained
<1> QED
  BY <1>2, <1>3

-----------------------------------------------------------------------------
(* Layouts without scaled screens, between which accept_layout decides.    *)

Unscaled(l) == \A s \in Placed(l) : l.places[s].speed = 1

LEMMA PlacingUnscaled ==
  ASSUME NEW l \in Layouts, Unscaled(l), NEW n \in Node, NEW slots \in SUBSET Slot
  PROVE  Unscaled(Applied(l, n, slots)) /\ Unscaled(WithPlaceFor(l, n, slots))
<1> DEFINE T == OthersOf(l, n) \union ({n} \X slots)
           p == [s \in T |-> IF s[1] = n THEN PlaceNode(l, n, slots)[s] ELSE l.places[s]]
<1>1. CASE OwnPlaces(l, n) = PlaceNode(l, n, slots)
  BY <1>1 DEF Applied, WithPlaceFor
<1>2. CASE OwnPlaces(l, n) # PlaceNode(l, n, slots)
  <2>1. Applied(l, n, slots).places = p
    BY <1>2 DEF Applied
  <2>2. ASSUME NEW s \in T
        PROVE  p[s].speed = 1
    <3>1. CASE s[1] = n
      <4>1. s \in {n} \X slots
        BY <3>1 DEF OthersOf
      <4> QED
        BY <3>1, <4>1 DEF PlaceNode
    <3>2. CASE s[1] # n
      <4>1. s \in Placed(l)
        BY <3>2 DEF OthersOf
      <4> QED
        BY <3>2, <4>1 DEF Unscaled
    <3> QED
      BY <3>1, <3>2
  <2> QED
    BY <2>1, <2>2 DEF Unscaled, Placed, WithPlaceFor
<1> QED
  BY <1>1, <1>2

(* Two layouts neither of which is accepted over the other are one.        *)
LEMMA NeitherAccepted ==
  ASSUME NEW k \in Layouts, NEW l \in Layouts, Unscaled(k), Unscaled(l),
         ~Accepts(k, l), ~Accepts(l, k)
  PROVE  k = l
<1>1. k.revision = l.revision /\ LayoutKey(k) = LayoutKey(l)
  BY AcceptsIsAnOrder
<1>2. ASSUME NEW a \in Layouts, NEW b \in Layouts, LayoutKey(a) = LayoutKey(b), NEW s \in Placed(a)
      PROVE  s \in Placed(b) /\ a.places[s].x = b.places[s].x
  <2>1. <<s[1], s[2], a.places[s].x>> \in LayoutKey(b)
    BY <1>2 DEF LayoutKey
  <2>2. PICK t \in Placed(b) : <<s[1], s[2], a.places[s].x>> = <<t[1], t[2], b.places[t].x>>
    BY <2>1 DEF LayoutKey
  <2>3. s \in Node \X Slot /\ t \in Node \X Slot
    BY LayoutParts DEF Screen
  <2>4. s = t
    BY <2>2, <2>3
  <2> QED
    BY <2>2, <2>4
<1>3. Placed(k) = Placed(l) /\ \A s \in Placed(k) : k.places[s].x = l.places[s].x
  <2>1. /\ \A s \in Placed(k) : s \in Placed(l) /\ k.places[s].x = l.places[s].x
        /\ \A s \in Placed(l) : s \in Placed(k)
    BY <1>1, <1>2
  <2> QED
    BY <2>1
<1>4. \A s \in Placed(k) : k.places[s] \in Place /\ l.places[s] \in Place
  BY <1>3, LayoutParts
<1>5. \A s \in Placed(k) : k.places[s] = l.places[s]
  BY <1>3, <1>4 DEF Unscaled, Place
<1>6. k.places = l.places
  BY <1>3, <1>5, LayoutParts
<1> QED
  BY <1>1, <1>6, LayoutParts

(* What is no better than a layout is no better than one that replaced it. *)
LEMMA StillNoBetter ==
  ASSUME NEW k \in Layouts, NEW new \in Layouts, NEW l \in Layouts,
         ~Accepts(k, l), new = k \/ Accepts(k, new)
  PROVE  ~Accepts(new, l)
BY AcceptsIsAnOrder

-----------------------------------------------------------------------------
(* Two machines agree.  What a machine has under way to the other is no    *)
(* better than what it has itself, and as long as the connection stands it *)
(* has told the other of its layout: the other has one that is as good, or *)
(* the update is under way.                                                *)

SendsNoBetter(n, m) ==
  \A msg \in Contents(wire[n][m]) :
    /\ msg.kind # "monitors"
    /\ msg.kind = "update" => Unscaled(msg.layout) /\ ~Accepts(layout[n], msg.layout)

HasSession(n, m) == Pair(n, m) \in open => joined[n][m] \/ arriving[n][m] # None

Informed(n, m) ==
  joined[n][m] /\ Pair(n, m) \in open =>
    \/ ~Accepts(layout[m], layout[n])
    \/ LayoutUpdate(layout[n]) \in Contents(wire[n][m])

Tells(n, m) == SendsNoBetter(n, m) /\ HasSession(n, m) /\ Informed(n, m)

AllTold ==
  /\ \A n \in Node : Unscaled(layout[n])
  /\ \A n \in Node : \A m \in Others(n) : Tells(n, m)

(* Of any three machines two are the same, and no screen is scaled.        *)
TwoUnscaled ==
  /\ \A n, m, o \in Node : n = m \/ n = o \/ m = o
  /\ Speed \subseteq {1}

LEMMA SoleOther ==
  ASSUME TwoUnscaled, NEW n \in Node, NEW m \in Others(n)
  PROVE  m \in Node /\ m # n /\ n \in Others(m) /\ \A o \in Node : o = n \/ o = m
BY DEF TwoUnscaled, Others

(* What n has done leaves the two informed of each other, if it did so     *)
(* with its layout and between it and every other.                         *)
LEMMA ToldOfAll ==
  ASSUME TwoUnscaled, TypeInv, AllTold, NEW n \in Node, Kept(n), Unscaled(layout'[n]),
         \A m \in Others(n) : Tells(n, m)' /\ Tells(m, n)'
  PROVE  AllTold'
<1>1. \A o \in Node : o # n => layout'[o] = layout[o]
  BY DEF Kept, TypeInv
<1>2. \A o \in Node : Unscaled(layout'[o])
  BY <1>1 DEF AllTold
<1>3. ASSUME NEW a \in Node, NEW b \in Others(a)
      PROVE  Tells(a, b)'
  <2>1. a = n \/ (b = n /\ a \in Others(n))
    BY SoleOther DEF Others
  <2> QED
    BY <2>1
<1> QED
  BY <1>2, <1>3 DEF AllTold

(* Messages that were under way already, or tell n's layout.               *)
LEMMA NoBetterSent ==
  ASSUME TypeInv, TypeInv', NEW n \in Node, Kept(n), Unscaled(layout'[n]),
         NEW a \in Node, NEW b \in Node, SendsNoBetter(a, b),
         Contents(wire'[a][b]) \subseteq
           Contents(wire[a][b]) \union (IF a = n THEN {LayoutUpdate(layout'[n]), LayoutRequest} ELSE {})
  PROVE  SendsNoBetter(a, b)'
<1>1. layout[a] \in Layouts /\ layout'[a] \in Layouts
  BY DEF TypeInv
<1>2. layout'[a] = layout[a] \/ Accepts(layout[a], layout'[a])
  BY DEF Kept, TypeInv
<1>3. \A msg \in Contents(wire[a][b]) : msg.kind = "update" => msg.layout \in Layouts
  <2>1. wire[a][b] \in Seq(Messages)
    BY DEF TypeInv, Wires
  <2>2. Contents(wire[a][b]) \subseteq Messages
    BY <2>1, LenProperties DEF Contents
  <2> QED
    BY <2>2, MessageParts
<1>4. ASSUME NEW msg \in Contents(wire[a][b])
      PROVE  /\ msg.kind # "monitors"
             /\ msg.kind = "update" => Unscaled(msg.layout) /\ ~Accepts(layout'[a], msg.layout)
  BY <1>1, <1>2, <1>3, StillNoBetter DEF SendsNoBetter
<1>5. ASSUME a = n, NEW msg \in {LayoutUpdate(layout'[n]), LayoutRequest}
      PROVE  /\ msg.kind # "monitors"
             /\ msg.kind = "update" => Unscaled(msg.layout) /\ ~Accepts(layout'[a], msg.layout)
  <2>1. ~Accepts(layout'[a], layout'[a])
    BY <1>1, AcceptsIsAnOrder
  <2> QED
    BY <1>5, <2>1 DEF LayoutUpdate, LayoutRequest
<1>6. \A msg \in Contents(wire'[a][b]) :
        /\ msg.kind # "monitors"
        /\ msg.kind = "update" => Unscaled(msg.layout) /\ ~Accepts(layout'[a], msg.layout)
  BY <1>4, <1>5
<1> QED
  BY <1>6 DEF SendsNoBetter

(* What n has not touched: the other's session and what it has sent.       *)
LEMMA StillInformed ==
  ASSUME TypeInv, TypeInv', NEW n \in Node, Kept(n), NEW m \in Node, m # n, Informed(m, n),
         joined'[m][n] => joined[m][n], Pair(m, n) \in open' => Pair(m, n) \in open,
         Contents(wire[m][n]) \subseteq Contents(wire'[m][n])
  PROVE  Informed(m, n)'
<1>1. layout'[m] = layout[m]
  BY DEF Kept, TypeInv
<1>2. layout[n] \in Layouts /\ layout'[n] \in Layouts /\ layout[m] \in Layouts
  BY DEF TypeInv
<1>3. layout'[n] = layout[n] \/ Accepts(layout[n], layout'[n])
  BY DEF Kept
<1>4. ~Accepts(layout[n], layout[m]) => ~Accepts(layout'[n], layout'[m])
  BY <1>1, <1>2, <1>3, StillNoBetter
<1> QED
  BY <1>1, <1>4 DEF Informed

(* A step of n that leaves its layout alone.                               *)
LEMMA StillInforms ==
  ASSUME NEW n \in Node, NEW m \in Node, Informed(n, m), UNCHANGED layout,
         joined'[n][m] => joined[n][m], Pair(n, m) \in open' => Pair(n, m) \in open,
         Contents(wire[n][m]) \subseteq Contents(wire'[n][m])
  PROVE  Informed(n, m)'
BY DEF Informed

LEMMA PairEither == \A n, m : Pair(n, m) = Pair(m, n)
BY DEF Pair

(* A new layout that everybody is sent.                                    *)
LEMMA Announced ==
  ASSUME TwoUnscaled, TypeInv, TypeInv', AllTold, NEW n \in Node, Kept(n), Unscaled(layout'[n]),
         wire' = Sent(wire, n, PeersOf(n), <<LayoutUpdate(layout'[n])>>),
         UNCHANGED <<open, joined, arriving>>
  PROVE  AllTold'
<1> SUFFICES ASSUME NEW m \in Others(n)
             PROVE  Tells(n, m)' /\ Tells(m, n)'
  BY ToldOfAll
<1>1. m \in Node /\ m # n /\ Tells(n, m) /\ Tells(m, n)
  BY SoleOther DEF AllTold
<1>2. <<LayoutUpdate(layout'[n])>> \in Seq(Messages)
  BY MessageParts DEF TypeInv
<1>3. /\ Contents(wire'[n][m]) = IF joined[n][m] /\ Pair(n, m) \in open
                                 THEN Contents(wire[n][m]) \union {LayoutUpdate(layout'[n])}
                                 ELSE Contents(wire[n][m])
      /\ Contents(wire'[m][n]) = Contents(wire[m][n])
  <2>1. PICK msgs \in Seq(Messages) : msgs = <<LayoutUpdate(layout'[n])>>
    BY <1>2
  <2>2. /\ wire' = Sent(wire, n, PeersOf(n), msgs) /\ wire \in Wires
        /\ Contents(msgs) = {LayoutUpdate(layout'[n])}
    BY <2>1, OneOrTwo DEF TypeInv
  <2>3. /\ Reaches(n, m, PeersOf(n)) => Contents(wire'[n][m]) = Contents(wire[n][m]) \union Contents(msgs)
        /\ ~Reaches(n, m, PeersOf(n)) => Contents(wire'[n][m]) = Contents(wire[n][m])
        /\ Contents(wire'[m][n]) = Contents(wire[m][n])
    BY <1>1, <2>2, SentTo
  <2>4. Reaches(n, m, PeersOf(n)) <=> joined[n][m] /\ Pair(n, m) \in open
    BY DEF PeersOf, Reaches
  <2> QED
    BY <2>2, <2>3, <2>4
<1>4. SendsNoBetter(n, m)' /\ SendsNoBetter(m, n)'
  BY <1>1, <1>3, NoBetterSent DEF Tells
<1>5. HasSession(n, m)' /\ HasSession(m, n)'
  BY <1>1 DEF Tells, HasSession
<1>6. Informed(n, m)'
  BY <1>3 DEF Informed
<1>7. Informed(m, n)'
  BY <1>1, <1>3, StillInformed DEF Tells
<1> QED
  BY <1>4, <1>5, <1>6, <1>7 DEF Tells

-----------------------------------------------------------------------------
(* One lemma for every action.                                             *)

LEMMA ConnectTold ==
  ASSUME TwoUnscaled, TypeInv, TypeInv', AllTold, NEW n \in Node, NEW m \in Others(n), Kept(n),
         Connect(n, m)
  PROVE  AllTold'
<1>1. m \in Node /\ m # n /\ Tells(n, m) /\ Tells(m, n) /\ \A o \in Others(n) : o = m
  BY SoleOther DEF AllTold, Others
<1>2. Unscaled(layout'[n])
  BY DEF AllTold, Connect
<1>3. snapshot[m] # None /\ monitors[n] # None
  BY <1>1, LayoutAssumption DEF TypeInv, None
<1>4. arriving'[n][m] # None /\ arriving'[m][n] # None
  BY <1>1, <1>3 DEF Connect, TypeInv
<1>5. UNCHANGED <<layout, wire, joined>> /\ ~joined[n][m] /\ ~joined[m][n]
  BY DEF Connect
<1>6. Tells(n, m)' /\ Tells(m, n)'
  BY <1>1, <1>4, <1>5 DEF Tells, SendsNoBetter, HasSession, Informed
<1> QED
  BY <1>1, <1>2, <1>6, ToldOfAll

LEMMA PeerReadyTold ==
  ASSUME TwoUnscaled, TypeInv, TypeInv', AllTold, NEW n \in Node, NEW m \in Others(n), Kept(n),
         PeerReady(n, m)
  PROVE  AllTold'
<1>1. m \in Node /\ m # n /\ Tells(n, m) /\ Tells(m, n) /\ \A o \in Others(n) : o = m
  BY SoleOther DEF AllTold, Others
<1>2. Unscaled(layout'[n])
  <2>1. layout'[n] = WithPlaceFor(layout[n], m, arriving[n][m])
    BY DEF PeerReady, TypeInv
  <2>2. layout[n] \in Layouts /\ arriving[n][m] \in SUBSET Slot
    BY <1>1 DEF PeerReady, TypeInv
  <2> QED
    BY <1>1, <2>1, <2>2, PlacingUnscaled DEF AllTold
<1>3. <<LayoutUpdate(layout'[n]), LayoutRequest>> \in Seq(Messages)
  BY MessageParts DEF TypeInv
<1>4. /\ Contents(wire'[n][m]) = IF Pair(n, m) \in open
                                 THEN Contents(wire[n][m]) \union {LayoutUpdate(layout'[n]), LayoutRequest}
                                 ELSE Contents(wire[n][m])
      /\ Contents(wire'[m][n]) = Contents(wire[m][n])
  <2>1. PICK msgs \in Seq(Messages), peers \in SUBSET Node :
          msgs = <<LayoutUpdate(layout'[n]), LayoutRequest>> /\ peers = {m}
    BY <1>1, <1>3
  <2>2. /\ wire' = Sent(wire, n, peers, msgs) /\ wire \in Wires
        /\ Contents(msgs) = {LayoutUpdate(layout'[n]), LayoutRequest}
    BY <2>1, OneOrTwo DEF PeerReady, TypeInv
  <2>3. /\ Reaches(n, m, peers) => Contents(wire'[n][m]) = Contents(wire[n][m]) \union Contents(msgs)
        /\ ~Reaches(n, m, peers) => Contents(wire'[n][m]) = Contents(wire[n][m])
        /\ Contents(wire'[m][n]) = Contents(wire[m][n])
    BY <1>1, <2>2, SentTo
  <2>4. Reaches(n, m, peers) <=> Pair(n, m) \in open
    BY <2>1 DEF Reaches
  <2> QED
    BY <2>2, <2>3, <2>4
<1>5. SendsNoBetter(n, m)' /\ SendsNoBetter(m, n)'
  BY <1>1, <1>2, <1>4, NoBetterSent DEF Tells
<1>6. /\ open' = open /\ joined'[n][m] /\ joined'[m][n] = joined[m][n]
      /\ arriving'[m][n] = arriving[m][n]
  BY <1>1 DEF PeerReady, TypeInv
<1>7. HasSession(n, m)' /\ HasSession(m, n)'
  BY <1>1, <1>6 DEF Tells, HasSession
<1>8. Informed(n, m)'
  BY <1>4, <1>6 DEF Informed
<1>9. Informed(m, n)'
  BY <1>1, <1>4, <1>6, StillInformed DEF Tells
<1> QED
  BY <1>1, <1>2, <1>5, <1>7, <1>8, <1>9, ToldOfAll DEF Tells

(* A connection that ends leaves nothing to be informed of.                *)
LEMMA Severed ==
  ASSUME TwoUnscaled, TypeInv, TypeInv', AllTold, NEW n \in Node, Kept(n), Unscaled(layout'[n]),
         NEW m \in Others(n), Pair(n, m) \notin open',
         Contents(wire'[n][m]) \subseteq Contents(wire[n][m]) \union {LayoutUpdate(layout'[n])},
         Contents(wire'[m][n]) \subseteq Contents(wire[m][n])
  PROVE  AllTold'
<1>1. m \in Node /\ m # n /\ Tells(n, m) /\ Tells(m, n) /\ \A o \in Others(n) : o = m
  BY SoleOther DEF AllTold, Others
<1>2. SendsNoBetter(n, m)' /\ SendsNoBetter(m, n)'
  BY <1>1, NoBetterSent DEF Tells
<1>3. HasSession(n, m)' /\ HasSession(m, n)' /\ Informed(n, m)' /\ Informed(m, n)'
  BY PairEither DEF HasSession, Informed
<1> QED
  BY <1>1, <1>2, <1>3, ToldOfAll DEF Tells

LEMMA BreakTold ==
  ASSUME TwoUnscaled, TypeInv, TypeInv', AllTold, NEW n \in Node, NEW m \in Others(n), Kept(n),
         Break(n, m)
  PROVE  AllTold'
<1>1. m \in Node /\ m # n
  BY SoleOther
<1>2. PICK i \in 0 .. Len(wire[n][m]), j \in 0 .. Len(wire[m][n]) :
        wire' = [wire EXCEPT ![n][m] = SubSeq(@, 1, i), ![m][n] = SubSeq(@, 1, j)]
  BY DEF Break
<1>3. wire[n][m] \in Seq(Messages) /\ wire[m][n] \in Seq(Messages)
  BY <1>1 DEF TypeInv, Wires
<1>4. wire'[n][m] = SubSeq(wire[n][m], 1, i) /\ wire'[m][n] = SubSeq(wire[m][n], 1, j)
  BY <1>1, <1>2 DEF TypeInv, Wires
<1>5. /\ Contents(wire'[n][m]) \subseteq Contents(wire[n][m])
      /\ Contents(wire'[m][n]) \subseteq Contents(wire[m][n])
  BY <1>3, <1>4, Contained
<1>6. Unscaled(layout'[n]) /\ Pair(n, m) \notin open'
  BY DEF AllTold, Break
<1> QED
  BY <1>5, <1>6, Severed

LEMMA PairAgainTold ==
  ASSUME AllTold, NEW n \in Node, NEW m \in Others(n), PairAgain(n, m)
  PROVE  AllTold'
BY DEF PairAgain, AllTold, Tells, SendsNoBetter, HasSession, Informed

LEMMA PeerGoneTold ==
  ASSUME TwoUnscaled, TypeInv, TypeInv', AllTold, NEW n \in Node, NEW m \in Others(n), Kept(n),
         PeerGone(n, m)
  PROVE  AllTold'
<1>1. Unscaled(layout'[n]) /\ Pair(n, m) \notin open' /\ UNCHANGED wire
  BY DEF AllTold, PeerGone
<1> QED
  BY <1>1, Severed

(* As long as nobody plugs a screen in or out, a restart fills at most the *)
(* gaps that were filled before it.                                        *)
FilledAlike ==
  \A n \in Node : layout[n] = saved[n] \/ layout[n] = WithPlaceFor(saved[n], n, monitors[n])

LEMMA ResumedKept ==
  ASSUME TypeInv, TypeInv', FilledAlike, plugs' = 0, NEW n \in Node, Resumed(n)
  PROVE  Kept(n) /\ (layout'[n] = layout[n] \/ layout'[n] = WithPlaceFor(layout[n], n, monitors[n]))
<1>1. plugs' # plugs + 1
  BY DEF TypeInv
<1>2. layout'[n] = WithPlaceFor(saved[n], n, monitors[n])
  BY <1>1 DEF Resumed, TypeInv
<1>3. layout'[n] = layout[n] \/ layout'[n] = WithPlaceFor(layout[n], n, monitors[n])
  BY <1>2 DEF FilledAlike
<1>4. layout'[n] = layout[n] \/ Accepts(layout[n], layout'[n])
  BY <1>3, FilledIsBetter DEF TypeInv
<1> QED
  BY <1>1, <1>3, <1>4 DEF Kept, Resumed, TypeInv

LEMMA RestartTold ==
  ASSUME TwoUnscaled, TypeInv, TypeInv', AllTold, FilledAlike, plugs' = 0,
         NEW n \in Node, Restart(n)
  PROVE  AllTold'
<1>0. /\ Kept(n)
      /\ layout'[n] = layout[n] \/ layout'[n] = WithPlaceFor(layout[n], n, monitors[n])
  BY RestartStep, ResumedKept
<1>1. Unscaled(layout'[n])
  BY <1>0, PlacingUnscaled DEF AllTold, TypeInv
<1>2. CASE \A m \in Others(n) : FALSE
  BY <1>0, <1>1, <1>2, ToldOfAll
<1>3. ASSUME NEW m \in Others(n)
      PROVE  AllTold'
  <2>1. m \in Node /\ m # n
    BY SoleOther
  <2>2. PICK arrives \in [Others(n) -> 0 .. Longest(n)] :
          /\ \A b \in Others(n) : arrives[b] <= Len(wire[n][b])
          /\ wire' = [a \in Node |-> [b \in Node |->
                        CASE b = n -> <<>>
                          [] a = n /\ b # n -> SubSeq(wire[n][b], 1, arrives[b])
                          [] OTHER -> wire[a][b]]]
    BY DEF Restart
  <2>3. wire[n][m] \in Seq(Messages) /\ Len(wire[n][m]) \in Nat
    BY <2>1, LenProperties DEF TypeInv, Wires
  <2>4. wire'[n][m] = SubSeq(wire[n][m], 1, arrives[m]) /\ wire'[m][n] = <<>>
    BY <2>1, <2>2
  <2>5. arrives[m] \in 0 .. Len(wire[n][m])
    <3>1. Longest(n) \in Int
      BY LongestType
    <3> QED
      BY <2>2, <2>3, <3>1
  <2>6. /\ Contents(wire'[n][m]) \subseteq Contents(wire[n][m])
        /\ Contents(wire'[m][n]) \subseteq Contents(wire[m][n])
    <3>1. Contents(wire'[m][n]) = {}
      BY <2>4 DEF Contents
    <3> QED
      BY <2>3, <2>4, <2>5, <3>1, Contained
  <2>7. Pair(n, m) \notin open'
    BY DEF Restart, Pair
  <2> QED
    BY <1>0, <1>1, <2>6, <2>7, Severed
<1> QED
  BY <1>2, <1>3

LEMMA SetLayoutTold ==
  ASSUME TwoUnscaled, TypeInv, TypeInv', AllTold, NEW n \in Node, Kept(n), SetLayout(n)
  PROVE  AllTold'
<1>1. PICK S \in Drafts : \E places \in [S -> [x : Column, speed : Speed]] :
        layout' = [layout EXCEPT ![n] = [revision |-> @.revision + 1, places |-> places]]
  BY DEF SetLayout
<1>2. PICK places \in [S -> [x : Column, speed : Speed]] :
        layout' = [layout EXCEPT ![n] = [revision |-> @.revision + 1, places |-> places]]
  BY <1>1
<1>3. layout'[n].places = places
  BY <1>2 DEF TypeInv
<1>4. \A s \in S : places[s].speed = 1
  BY DEF TwoUnscaled
<1>5. Unscaled(layout'[n])
  BY <1>3, <1>4 DEF Unscaled, Placed
<1> QED
  BY <1>5, Announced DEF SetLayout

LEMMA AutoLayoutTold ==
  ASSUME TwoUnscaled, TypeInv, TypeInv', AllTold, NEW n \in Node, Kept(n), AutoLayout(n)
  PROVE  AllTold'
<1>1. PICK rank \in [Targets(n) \union {n} -> 0 .. Cardinality(Node)] :
        layout' = [layout EXCEPT ![n] = Arranged(n, rank)]
  BY DEF AutoLayout
<1>2. layout'[n] = Arranged(n, rank)
  BY <1>1 DEF TypeInv
<1>3. Unscaled(layout'[n])
  BY <1>2 DEF Arranged, Unscaled, Placed
<1> QED
  BY <1>3, Announced DEF AutoLayout

LEMMA AutoLayoutOfTold ==
  ASSUME TwoUnscaled, TypeInv, TypeInv', AllTold, NEW n \in Node, NEW m \in Node, Kept(n),
         AutoLayoutOf(n, m)
  PROVE  AllTold'
<1>1. layout[n] \in Layouts /\ layout'[n] = Applied(layout[n], m, SlotsOf(n, m))
  BY DEF AutoLayoutOf, TypeInv
<1>2. Unscaled(layout'[n])
  BY <1>1, SlotsOfType, PlacingUnscaled DEF AllTold
<1> QED
  BY <1>2, Announced DEF AutoLayoutOf

LEMMA ForgetPeerTold ==
  ASSUME TwoUnscaled, TypeInv, TypeInv', AllTold, NEW n \in Node, NEW m \in Others(n), Kept(n),
         ForgetPeer(n, m)
  PROVE  AllTold'
<1>1. m \in Node /\ m # n
  BY SoleOther
<1>2. Unscaled(layout'[n])
  <2>1. layout'[n] = IF OthersOf(layout[n], m) = Placed(layout[n]) THEN layout[n]
                     ELSE [revision |-> layout[n].revision + 1,
                           places |-> [s \in OthersOf(layout[n], m) |-> layout[n].places[s]]]
    BY DEF ForgetPeer, TypeInv
  <2>2. OthersOf(layout[n], m) \subseteq Placed(layout[n])
    BY DEF OthersOf
  <2>3. Unscaled(layout[n])
    BY DEF AllTold
  <2>4. CASE OthersOf(layout[n], m) = Placed(layout[n])
    BY <2>1, <2>3, <2>4
  <2>5. CASE OthersOf(layout[n], m) # Placed(layout[n])
    BY <2>1, <2>2, <2>3, <2>5 DEF Unscaled, Placed
  <2> QED
    BY <2>4, <2>5
<1>3. /\ Contents(wire'[n][m]) \subseteq Contents(wire[n][m]) \union {LayoutUpdate(layout'[n])}
      /\ Contents(wire'[m][n]) \subseteq Contents(wire[m][n])
  <2>1. <<LayoutUpdate(layout'[n])>> \in Seq(Messages)
    BY MessageParts DEF TypeInv
  <2>2. PICK msgs \in Seq(Messages), peers \in SUBSET Node :
          /\ msgs = <<LayoutUpdate(layout'[n])>>
          /\ peers = IF layout' = layout THEN {} ELSE PeersOf(n) \ {m}
    BY <2>1 DEF PeersOf, Others
  <2>3. /\ wire' = Sent(wire, n, peers, msgs) /\ wire \in Wires
        /\ Contents(msgs) = {LayoutUpdate(layout'[n])}
    BY <2>2, OneOrTwo DEF ForgetPeer, TypeInv
  <2>4. /\ Reaches(n, m, peers) => Contents(wire'[n][m]) = Contents(wire[n][m]) \union Contents(msgs)
        /\ ~Reaches(n, m, peers) => Contents(wire'[n][m]) = Contents(wire[n][m])
        /\ Contents(wire'[m][n]) = Contents(wire[m][n])
    BY <1>1, <2>3, SentTo
  <2> QED
    BY <2>3, <2>4
<1>4. Pair(n, m) \notin open'
  BY DEF ForgetPeer
<1> QED
  BY <1>2, <1>3, <1>4, Severed

-----------------------------------------------------------------------------
(* What is received.                                                       *)

LEMMA Received ==
  ASSUME TypeInv, NEW n \in Node, NEW m \in Node, m # n, wire[m][n] # <<>>
  PROVE  /\ Rest(n, m) \in Wires
         /\ Contents(Rest(n, m)[n][m]) = Contents(wire[n][m])
         /\ Contents(wire[m][n]) = {Head(wire[m][n])} \union Contents(Rest(n, m)[m][n])
         /\ Head(wire[m][n]) \in Messages
<1>1. wire \in Wires /\ wire[m][n] \in Seq(Messages)
  BY DEF TypeInv, Wires
<1>2. Rest(n, m) \in Wires /\ Head(wire[m][n]) \in Messages
  BY <1>1, TakenType DEF Rest
<1>3. Rest(n, m)[n][m] = wire[n][m] /\ Rest(n, m)[m][n] = Tail(wire[m][n])
  BY <1>1 DEF Rest, Wires
<1> QED
  BY <1>1, <1>2, <1>3, Contained

LEMMA IgnoreLateTold ==
  ASSUME TwoUnscaled, TypeInv, TypeInv', AllTold, NEW n \in Node, NEW m \in Others(n), Kept(n),
         IgnoreLate(n, m)
  PROVE  AllTold'
<1>1. m \in Node /\ m # n /\ HasSession(n, m)
  BY SoleOther DEF AllTold, Tells
<1>2. Pair(n, m) \notin open'
  BY <1>1 DEF IgnoreLate, HasSession
<1>3. /\ Contents(wire'[n][m]) \subseteq Contents(wire[n][m])
      /\ Contents(wire'[m][n]) \subseteq Contents(wire[m][n])
  BY <1>1, Received DEF IgnoreLate
<1>4. Unscaled(layout'[n])
  BY DEF AllTold, IgnoreLate
<1> QED
  BY <1>2, <1>3, <1>4, Severed

(* A message has been taken from m, and perhaps n's layout sent to it.     *)
LEMMA Heard ==
  ASSUME TwoUnscaled, TypeInv, TypeInv', AllTold, NEW n \in Node, NEW m \in Others(n), Kept(n),
         Unscaled(layout'[n]), wire[m][n] # <<>>, UNCHANGED <<open, joined, arriving>>,
         NEW peers \in SUBSET Node,
         wire' = Rest(n, m) \/ wire' = Sent(Rest(n, m), n, peers, <<LayoutUpdate(layout'[n])>>),
         Head(wire[m][n]) = LayoutUpdate(layout[m]) => ~Accepts(layout'[n], layout[m]),
         \/ layout'[n] = layout[n]
         \/ ~Accepts(layout[m], layout'[n])
         \/ peers = PeersOf(n) /\ wire' = Sent(Rest(n, m), n, peers, <<LayoutUpdate(layout'[n])>>)
  PROVE  AllTold'
<1>1. m \in Node /\ m # n /\ Tells(n, m) /\ Tells(m, n) /\ \A o \in Others(n) : o = m
  BY SoleOther DEF AllTold, Others
<1>2. /\ Rest(n, m) \in Wires
      /\ Contents(Rest(n, m)[n][m]) = Contents(wire[n][m])
      /\ Contents(wire[m][n]) = {Head(wire[m][n])} \union Contents(Rest(n, m)[m][n])
  BY <1>1, Received
<1>3. /\ \/ Contents(wire'[n][m]) = Contents(wire[n][m])
         \/ Contents(wire'[n][m]) = Contents(wire[n][m]) \union {LayoutUpdate(layout'[n])}
      /\ Contents(wire'[m][n]) = Contents(Rest(n, m)[m][n])
      /\ wire' = Sent(Rest(n, m), n, peers, <<LayoutUpdate(layout'[n])>>) /\ Reaches(n, m, peers)
           => LayoutUpdate(layout'[n]) \in Contents(wire'[n][m])
  <2>1. CASE wire' = Rest(n, m) /\ wire' # Sent(Rest(n, m), n, peers, <<LayoutUpdate(layout'[n])>>)
    BY <1>2, <2>1
  <2>2. CASE wire' = Sent(Rest(n, m), n, peers, <<LayoutUpdate(layout'[n])>>)
    <3>1. <<LayoutUpdate(layout'[n])>> \in Seq(Messages)
      BY MessageParts DEF TypeInv
    <3>2. PICK w \in Wires, msgs \in Seq(Messages) :
            w = Rest(n, m) /\ msgs = <<LayoutUpdate(layout'[n])>>
      BY <1>2, <3>1
    <3>3. /\ wire' = Sent(w, n, peers, msgs)
          /\ Contents(msgs) = {LayoutUpdate(layout'[n])}
      BY <2>2, <3>2, OneOrTwo
    <3>4. /\ Reaches(n, m, peers) =>
               Contents(Sent(w, n, peers, msgs)[n][m]) = Contents(w[n][m]) \union Contents(msgs)
          /\ ~Reaches(n, m, peers) => Contents(Sent(w, n, peers, msgs)[n][m]) = Contents(w[n][m])
          /\ Contents(Sent(w, n, peers, msgs)[m][n]) = Contents(w[m][n])
      BY <1>1, SentTo
    <3> QED
      BY <1>2, <3>2, <3>3, <3>4
  <2> QED
    BY <2>1, <2>2
<1>4. SendsNoBetter(n, m)' /\ SendsNoBetter(m, n)'
  BY <1>1, <1>2, <1>3, NoBetterSent DEF Tells
<1>5. HasSession(n, m)' /\ HasSession(m, n)'
  BY <1>1 DEF Tells, HasSession
<1>6. layout'[m] = layout[m]
  BY <1>1 DEF Kept, TypeInv
<1>7. Informed(n, m)'
  <2>1. CASE layout'[n] = layout[n]
    BY <1>1, <1>3, <1>6, <2>1 DEF Tells, Informed
  <2>2. CASE ~Accepts(layout[m], layout'[n])
    BY <1>6, <2>2 DEF Informed
  <2>3. CASE peers = PeersOf(n) /\ wire' = Sent(Rest(n, m), n, peers, <<LayoutUpdate(layout'[n])>>)
    <3>1. joined[n][m] /\ Pair(n, m) \in open => Reaches(n, m, peers)
      BY <2>3 DEF Reaches, PeersOf
    <3> QED
      BY <1>3, <2>3, <3>1 DEF Informed
  <2> QED
    BY <2>1, <2>2, <2>3
<1>8. Informed(m, n)'
  <2>1. CASE Head(wire[m][n]) = LayoutUpdate(layout[m])
    BY <1>6, <2>1 DEF Informed
  <2>2. CASE Head(wire[m][n]) # LayoutUpdate(layout[m])
    <3>1. LayoutUpdate(layout[m]) \in Contents(wire[m][n]) => LayoutUpdate(layout[m]) \in Contents(wire'[m][n])
      BY <1>2, <1>3, <2>2
    <3>2. layout[n] \in Layouts /\ layout'[n] \in Layouts /\ layout[m] \in Layouts
      BY <1>1 DEF TypeInv
    <3>3. ~Accepts(layout[n], layout[m]) => ~Accepts(layout'[n], layout[m])
      BY <3>2, StillNoBetter DEF Kept
    <3> QED
      BY <1>1, <1>6, <3>1, <3>3 DEF Tells, Informed
  <2> QED
    BY <2>1, <2>2
<1> QED
  BY <1>1, <1>4, <1>5, <1>7, <1>8, ToldOfAll DEF Tells

LEMMA HandleUpdateTold ==
  ASSUME TwoUnscaled, TypeInv, TypeInv', AllTold, NEW n \in Node, NEW m \in Others(n), Kept(n),
         HandleUpdate(n, m)
  PROVE  AllTold'
<1> DEFINE msg == Head(wire[m][n])
           incoming == msg.layout
           adopted == WithPlaceFor(incoming, n, monitors[n])
           peers == IF adopted.revision > incoming.revision THEN PeersOf(n) ELSE {}
<1>1. m \in Node /\ m # n /\ Tells(m, n) /\ PeersOf(n) \in SUBSET Node
  BY SoleOther DEF AllTold, PeersOf, Others
<1>2. wire[m][n] # <<>> /\ msg.kind = "update" /\ UNCHANGED <<open, joined, arriving>>
  BY DEF HandleUpdate, Takes
<1>3. msg \in Messages /\ msg \in Contents(wire[m][n])
  BY <1>1, <1>2, Received
<1>4. incoming \in Layouts /\ Unscaled(incoming) /\ ~Accepts(layout[m], incoming)
  BY <1>1, <1>2, <1>3, MessageParts DEF Tells, SendsNoBetter
<1>5. layout[n] \in Layouts /\ layout[m] \in Layouts /\ monitors[n] \in SUBSET Slot
  BY <1>1 DEF TypeInv
<1>6. msg = LayoutUpdate(layout[m]) => incoming = layout[m]
  BY DEF LayoutUpdate
<1>7. CASE Accepts(layout[n], incoming)
  <2>1. /\ layout' = [layout EXCEPT ![n] = adopted]
        /\ wire' = Sent(Rest(n, m), n, peers, <<LayoutUpdate(adopted)>>)
    BY <1>7 DEF HandleUpdate
  <2>2. layout'[n] = adopted
    BY <2>1 DEF TypeInv
  <2>3. /\ Unscaled(adopted) /\ adopted \in Layouts
        /\ adopted = incoming \/ adopted.revision = incoming.revision + 1
    <3> HIDE DEF incoming
    <3> QED
      BY <1>4, <1>5, PlacingUnscaled, WithPlaceForType
  <2>4. incoming.revision \in Nat
    BY <1>4, LayoutParts
  <2>5. ~Accepts(adopted, incoming)
    <3> HIDE DEF incoming, adopted
    <3>1. CASE adopted = incoming
      BY <1>4, <3>1, AcceptsIsAnOrder
    <3>2. CASE adopted.revision = incoming.revision + 1
      BY <2>4, <3>2 DEF Accepts
    <3> QED
      BY <2>3, <3>1, <3>2
  <2>6. ~Accepts(layout[m], layout'[n]) \/ peers = PeersOf(n)
    <3> HIDE DEF incoming, adopted
    <3>1. CASE adopted = incoming
      BY <1>4, <2>2, <3>1
    <3>2. CASE adopted.revision = incoming.revision + 1
      BY <2>4, <3>2
    <3> QED
      BY <2>3, <3>1, <3>2
  <2>7. /\ wire' = Sent(Rest(n, m), n, peers, <<LayoutUpdate(layout'[n])>>)
        /\ msg = LayoutUpdate(layout[m]) => ~Accepts(layout'[n], layout[m])
        /\ peers \in SUBSET Node
    BY <1>1, <1>6, <2>1, <2>2, <2>5
  <2> HIDE DEF peers, adopted, incoming
  <2> QED
    BY <1>2, <2>2, <2>3, <2>6, <2>7, Heard
<1>8. CASE ~Accepts(layout[n], incoming)
  <2>1. wire' = Rest(n, m) /\ UNCHANGED layout
    BY <1>8 DEF HandleUpdate
  <2>2. Unscaled(layout'[n]) /\ (msg = LayoutUpdate(layout[m]) => ~Accepts(layout'[n], layout[m]))
    BY <1>6, <1>8, <2>1 DEF AllTold
  <2> QED
    BY <1>1, <1>2, <2>1, <2>2, Heard
<1> QED
  BY <1>7, <1>8

LEMMA HandleRequestTold ==
  ASSUME TwoUnscaled, TypeInv, TypeInv', AllTold, NEW n \in Node, NEW m \in Others(n), Kept(n),
         HandleRequest(n, m)
  PROVE  AllTold'
<1>1. m \in Node /\ {m} \in SUBSET Node
  BY SoleOther
<1>2. /\ wire[m][n] # <<>> /\ Head(wire[m][n]).kind = "request"
      /\ UNCHANGED <<layout, open, joined, arriving>>
      /\ wire' = Sent(Rest(n, m), n, {m}, <<LayoutUpdate(layout[n])>>)
  BY DEF HandleRequest, Takes
<1>3. Head(wire[m][n]) # LayoutUpdate(layout[m])
  BY <1>2 DEF LayoutUpdate
<1>4. Unscaled(layout'[n]) /\ layout'[n] = layout[n]
  BY <1>2 DEF AllTold
<1> QED
  BY <1>1, <1>2, <1>3, <1>4, Heard

(* Nobody sends news of screens.                                           *)
LEMMA NoMonitors ==
  ASSUME TypeInv, AllTold, NEW n \in Node, NEW m \in Others(n), HandleMonitors(n, m)
  PROVE  FALSE
<1>1. m \in Node /\ m # n /\ n \in Others(m)
  BY DEF Others
<1>2. wire[m][n] # <<>> /\ Head(wire[m][n]).kind = "monitors"
  BY DEF HandleMonitors, Takes
<1>3. Head(wire[m][n]) \in Contents(wire[m][n])
  BY <1>1, <1>2, Received
<1> QED
  BY <1>1, <1>2, <1>3 DEF AllTold, Tells, SendsNoBetter

-----------------------------------------------------------------------------
LEMMA ToldStep ==
  ASSUME TwoUnscaled, TypeInv, AllTold, FilledAlike, LayoutNext, plugs' = 0
  PROVE  AllTold'
<1>1. TypeInv'
  BY LayoutStep
<1>2. PICK n \in Node :
        \/ SetLayout(n)
        \/ AutoLayout(n)
        \/ DisplaysChange(n)
        \/ Restart(n)
        \/ \E m \in Node : AutoLayoutOf(n, m)
        \/ \E m \in Others(n) :
             \/ Connect(n, m)
             \/ PeerReady(n, m)
             \/ Break(n, m)
             \/ PeerGone(n, m)
             \/ ForgetPeer(n, m)
             \/ PairAgain(n, m)
             \/ IgnoreLate(n, m)
             \/ HandleUpdate(n, m)
             \/ HandleRequest(n, m)
             \/ HandleMonitors(n, m)
  BY DEF LayoutNext
<1>3. CASE SetLayout(n)
  BY <1>1, <1>3, SetLayoutStep, SetLayoutTold DEF Adopted
<1>4. CASE AutoLayout(n)
  BY <1>1, <1>4, AutoLayoutStep, AutoLayoutTold DEF Adopted
<1>5. CASE DisplaysChange(n)
  BY <1>5 DEF DisplaysChange, TypeInv
<1>6. CASE Restart(n)
  BY <1>1, <1>6, RestartTold
<1>7. CASE \E m \in Node : AutoLayoutOf(n, m)
  BY <1>1, <1>7, AutoLayoutOfStep, AutoLayoutOfTold DEF Adopted
<1>8. ASSUME NEW m \in Others(n),
             Connect(n, m) \/ PeerReady(n, m) \/ Break(n, m) \/ PeerGone(n, m) \/ ForgetPeer(n, m)
      PROVE  AllTold'
  <2>1. Kept(n)
    BY <1>8, ConnectStep, PeerReadyStep, BreakStep, PeerGoneStep, ForgetPeerStep DEF Adopted
  <2> QED
    BY <1>1, <1>8, <2>1, ConnectTold, PeerReadyTold, BreakTold, PeerGoneTold, ForgetPeerTold
<1>9. ASSUME NEW m \in Others(n),
             \/ IgnoreLate(n, m) \/ HandleUpdate(n, m)
             \/ HandleRequest(n, m) \/ HandleMonitors(n, m)
      PROVE  AllTold'
  <2>1. Kept(n)
    BY <1>9, IgnoreLateStep, HandleUpdateStep, HandleRequestStep, HandleMonitorsStep DEF Adopted
  <2> QED
    BY <1>1, <1>9, <2>1, IgnoreLateTold, HandleUpdateTold, HandleRequestTold, NoMonitors
<1>10. ASSUME NEW m \in Others(n), PairAgain(n, m)
       PROVE  AllTold'
  BY <1>10, PairAgainTold
<1> QED
  BY <1>2, <1>3, <1>4, <1>5, <1>6, <1>7, <1>8, <1>9, <1>10

(* Screens once plugged in or out stay counted.                            *)
LEMMA PlugsCounted ==
  ASSUME TypeInv, LayoutNext, plugs' = 0
  PROVE  plugs = 0
<1>1. PICK n \in Node :
        \/ SetLayout(n)
        \/ AutoLayout(n)
        \/ DisplaysChange(n)
        \/ Restart(n)
        \/ \E m \in Node : AutoLayoutOf(n, m)
        \/ \E m \in Others(n) :
             \/ Connect(n, m)
             \/ PeerReady(n, m)
             \/ Break(n, m)
             \/ PeerGone(n, m)
             \/ ForgetPeer(n, m)
             \/ PairAgain(n, m)
             \/ IgnoreLate(n, m)
             \/ HandleUpdate(n, m)
             \/ HandleRequest(n, m)
             \/ HandleMonitors(n, m)
  BY DEF LayoutNext
<1>2. CASE DisplaysChange(n)
  BY <1>2 DEF DisplaysChange, TypeInv
<1>3. CASE Restart(n)
  BY <1>3 DEF Restart, TypeInv
<1>4. CASE SetLayout(n) \/ AutoLayout(n) \/ \E m \in Node : AutoLayoutOf(n, m)
  BY <1>4 DEF SetLayout, AutoLayout, AutoLayoutOf
<1>5. ASSUME NEW m \in Others(n),
             \/ Connect(n, m) \/ PeerReady(n, m) \/ Break(n, m) \/ PeerGone(n, m) \/ ForgetPeer(n, m)
             \/ PairAgain(n, m) \/ IgnoreLate(n, m) \/ HandleUpdate(n, m)
             \/ HandleRequest(n, m) \/ HandleMonitors(n, m)
      PROVE  plugs = 0
  BY <1>5 DEF Connect, PeerReady, Break, PeerGone, ForgetPeer, PairAgain, IgnoreLate, HandleUpdate,
              HandleRequest, HandleMonitors
<1> QED
  BY <1>1, <1>2, <1>3, <1>4, <1>5

LEMMA FilledStep ==
  ASSUME TypeInv, FilledAlike, LayoutNext, plugs' = 0
  PROVE  FilledAlike'
<1>1. TypeInv'
  BY LayoutStep
<1>2. ASSUME NEW n \in Node, Resumed(n)
      PROVE  FilledAlike'
  BY <1>1, <1>2 DEF FilledAlike, Resumed, TypeInv
<1>3. ASSUME NEW n \in Node, Adopted(n), UNCHANGED monitors
      PROVE  FilledAlike'
  BY <1>1, <1>3 DEF FilledAlike, Adopted, Kept, Saves, TypeInv
<1>4. (\E n \in Node : Restart(n)) \/ UNCHANGED monitors
  <2>1. PICK n \in Node :
          \/ SetLayout(n)
          \/ AutoLayout(n)
          \/ DisplaysChange(n)
          \/ Restart(n)
          \/ \E m \in Node : AutoLayoutOf(n, m)
          \/ \E m \in Others(n) :
               \/ Connect(n, m)
               \/ PeerReady(n, m)
               \/ Break(n, m)
               \/ PeerGone(n, m)
               \/ ForgetPeer(n, m)
               \/ PairAgain(n, m)
               \/ IgnoreLate(n, m)
               \/ HandleUpdate(n, m)
               \/ HandleRequest(n, m)
               \/ HandleMonitors(n, m)
    BY DEF LayoutNext
  <2>2. ~DisplaysChange(n)
    BY DEF DisplaysChange, TypeInv
  <2> QED
    BY <2>1, <2>2
    DEF SetLayout, AutoLayout, AutoLayoutOf, Connect, PeerReady, Break, PeerGone, ForgetPeer,
        PairAgain, IgnoreLate, HandleUpdate, HandleRequest, HandleMonitors
<1>5. ASSUME NEW n \in Node, Restart(n)
      PROVE  FilledAlike'
  BY <1>2, <1>5, RestartStep
<1> QED
  BY <1>2, <1>3, <1>4, <1>5, LayoutStep

(* Two machines with a session and nothing under way to each other have    *)
(* one layout, as long as nobody plugs a screen in or out:                 *)
(* AgreementWhileScreensStay.  Each has informed the other of its layout,  *)
(* so that neither's is the better one, and accept_layout decides between  *)
(* any two that differ in more than the scaling of screens.                *)
THEOREM LayoutAgreement ==
  ASSUME TwoUnscaled
  PROVE  LayoutSpec => []AgreementWhileScreensStay
<1>1. LayoutInit => AllTold /\ FilledAlike
  <2> SUFFICES ASSUME LayoutInit PROVE AllTold /\ FilledAlike
    OBVIOUS
  <2>1. ASSUME NEW n \in Node
        PROVE  Unscaled(layout[n])
    <3>1. Unscaled(EmptyLayout)
      BY DEF Unscaled, Placed, EmptyLayout
    <3>2. PICK slots \in SUBSET Slot : slots = {Least(Slot)}
      BY LayoutAssumption, LeastOfNaturals
    <3>3. layout[n] = WithPlaceFor(EmptyLayout, n, slots)
      BY <3>2 DEF LayoutInit
    <3> QED
      BY <3>1, <3>3, EmptyIsLayout, PlacingUnscaled
  <2>2. ASSUME NEW n \in Node, NEW m \in Others(n)
        PROVE  Tells(n, m)
    <3>1. m \in Node /\ Contents(wire[n][m]) = {} /\ open = {} 
      BY DEF LayoutInit, Contents, Others
    <3> QED
      BY <3>1 DEF Tells, SendsNoBetter, HasSession, Informed
  <2>3. FilledAlike
    BY DEF LayoutInit, FilledAlike
  <2> QED
    BY <2>1, <2>2, <2>3 DEF AllTold
<1>2. TypeInv /\ (plugs = 0 => AllTold /\ FilledAlike) /\ [LayoutNext]_layoutVars
        => (plugs = 0 => AllTold /\ FilledAlike)'
  <2>1. CASE LayoutNext
    BY <2>1, ToldStep, FilledStep, PlugsCounted
  <2>2. CASE UNCHANGED layoutVars
    BY <2>2 DEF layoutVars, FilledAlike, AllTold, Tells, SendsNoBetter, HasSession, Informed
  <2> QED
    BY <2>1, <2>2
<1>3. TypeInv /\ (plugs = 0 => AllTold /\ FilledAlike) => AgreementWhileScreensStay
  <2> SUFFICES ASSUME TypeInv, AllTold, NEW n \in Node, NEW m \in Others(n), AtRest(n, m)
               PROVE  layout[n] = layout[m]
    BY DEF AgreementWhileScreensStay, AgreementAtRest
  <2>1. m \in Node /\ n \in Others(m) /\ Informed(n, m) /\ Informed(m, n)
    BY SoleOther DEF AllTold, Tells
  <2>2. Contents(wire[n][m]) = {} /\ Contents(wire[m][n]) = {}
    BY DEF AtRest, Contents
  <2>3. ~Accepts(layout[n], layout[m]) /\ ~Accepts(layout[m], layout[n])
    BY <2>1, <2>2, PairEither DEF AtRest, Informed
  <2> QED
    BY <2>1, <2>3, NeitherAccepted DEF AllTold, TypeInv
<1> QED
  BY <1>1, <1>2, <1>3, TypesAlways, PTL DEF LayoutSpec

=============================================================================

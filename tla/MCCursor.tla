------------------------------- MODULE MCCursor -------------------------------
EXTENDS Cursor
MCA == <<1, 0>>
MCB == <<1, 1>>
MCC == <<2, 0>>
MCPlaceholder == <<1, 99>>
MCScreen == {MCA, MCB, MCC, MCPlaceholder}

(* A screen of w x h units at x, y.                                        *)
At(s, x, y, w, h, scale) ==
  [on |-> s, scale |-> scale,
   bounds |-> [low  |-> [a \in Axis |-> Unit * (IF a = "x" THEN x ELSE y)],
               high |-> [a \in Axis |-> Unit * (IF a = "x" THEN x + w ELSE y + h)]]]

MCFirst  == {<<>>, <<At(MCA, 0, 0, 2, 2, 2)>>, <<At(MCA, 0, 4, 2, 1, 1)>>}
MCSecond == {<<>>, <<At(MCB, 2, 0, 1, 1, 2)>>, <<At(MCB, -1, 0, 2, 0, 2)>>}
MCThird  == {<<>>, <<At(MCC, 3, 1, 2, 2, 2)>>, <<At(MCC, 2, 2, 1, 1, 1)>>, <<At(MCC, 1, 1, 2, 2, 0)>>,
             <<At(MCC, 0, 2, 3, 1, 2)>>}
MCLayouts == {f \o s \o t : f \in MCFirst, s \in MCSecond, t \in MCThird}

MCDelta == {[x |-> x, y |-> 0] : x \in {-1, 1, -5, 5}} \union {[x |-> 0, y |-> y] : y \in {-1, 1, 5}}
            \union {[x |-> 2, y |-> 2], [x |-> -2, y |-> -3]}
MCEntry == {[x |-> 0, y |-> 1], [x |-> 2, y |-> 2]}
=============================================================================

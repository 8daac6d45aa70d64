--------------------------- MODULE MCTableFlatten ---------------------------
(* Model-checking layouts for TableFlatten: every way to tile a table with  *)
(* rectangles, with any of the tiles at the right border left out.          *)
EXTENDS TableFlatten

\* The tiles whose upper left corner is the given slot, inside the free slots.
TilesAt(slot, free) ==
  {t \in [top : {slot[1]}, left : {slot[2]},
          bottom : slot[1] .. MaxRows, right : slot[2] .. MaxCols] : Slots(t) \subseteq free}

FirstOf(slots) ==
  CHOOSE s \in slots : \A u \in slots : s[1] < u[1] \/ (s[1] = u[1] /\ s[2] <= u[2])

RECURSIVE Tilings(_)
Tilings(free) ==
  IF free = {} THEN {{}}
  ELSE UNION {{rest \cup {t} : rest \in Tilings(free \ Slots(t))} : t \in TilesAt(FirstOf(free), free)}

AtBorder(tiles) == {t \in tiles : t.right = MaxCols}

AllLayouts ==
  UNION {{tiles \ left_out : left_out \in SUBSET AtBorder(tiles)} :
            tiles \in Tilings((1 .. MaxRows) \X (1 .. MaxCols))}
=============================================================================

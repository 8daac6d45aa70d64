------------------------- MODULE TableFlatten_proof -------------------------
(***************************************************************************)
(* For every set of layouts: a flattened table is the table that the       *)
(* layout describes.  The heart is FreeIsLeft: find_next_col, which only   *)
(* sees what is occupied, always stops at the column where the layout has  *)
(* the cell, because everything to the left of it has been placed and      *)
(* nothing that was placed reaches into it.                                *)
(***************************************************************************)
EXTENDS TableFlatten, FiniteSetTheorems, TLAPS

\* The tiles that the pass has put into the grid.
Placed == {t \in layout : t.top <= current_row} \ row_content

GridInv ==
  /\ layout \in Layouts
  /\ current_row \in 0 .. MaxRows
  /\ row_content \subseteq {t \in layout : t.top = current_row}
  /\ current_col \in 1 .. MaxCols + 1
  /\ \A t \in row_content : current_col <= t.left
  /\ DOMAIN grid = UNION {Slots(t) : t \in Placed}
  /\ \A t \in Placed : \A slot \in Slots(t) : grid[slot] = Shows(t, slot)

TableInv == GridInv /\ TableKept

-----------------------------------------------------------------------------
(***************************************************************************)
(* What the assumption on layouts gives.                                   *)
(***************************************************************************)

LEMMA TileType ==
  ASSUME layout \in Layouts, NEW t \in layout
  PROVE  /\ t \in Tiles
         /\ t.top \in 1 .. MaxRows /\ t.bottom \in 1 .. MaxRows
         /\ t.left \in 1 .. MaxCols /\ t.right \in 1 .. MaxCols
         /\ t.top <= t.bottom /\ t.left <= t.right
<1>1. t \in Tiles /\ t.top <= t.bottom /\ t.left <= t.right
  BY TableAssumption DEF IsLayout
<1> QED
  BY <1>1 DEF Tiles

LEMMA SlotIn ==
  ASSUME NEW t, NEW r, NEW c
  PROVE  <<r, c>> \in Slots(t) <=> r \in t.top .. t.bottom /\ c \in t.left .. t.right
BY DEF Slots

LEMMA Disjoint ==
  ASSUME layout \in Layouts, NEW t \in layout, NEW u \in layout, NEW slot,
         slot \in Slots(t), slot \in Slots(u)
  PROVE  t = u
BY TableAssumption DEF IsLayout

LEMMA NoHole ==
  ASSUME layout \in Layouts, NEW t \in layout, NEW r, NEW c, <<r, c>> \in Slots(t),
         NEW d \in 1 .. c - 1
  PROVE  \E u \in layout : <<r, d>> \in Slots(u)
<1>1. \A d2 \in 1 .. <<r, c>>[2] - 1 :
        \E u \in layout : <<<<r, c>>[1], d2>> \in Slots(u)
  BY TableAssumption DEF IsLayout
<1> QED
  BY <1>1

-----------------------------------------------------------------------------
(***************************************************************************)
(* The column at which find_next_col stops.                                *)
(***************************************************************************)

LEMMA FreeIsLeft ==
  ASSUME GridInv, NEW cell \in row_content, NEW col \in GridCols,
         \A other \in row_content : cell.left <= other.left,
         NextFree(col)
  PROVE  col = cell.left /\ cell \in layout /\ cell.top = current_row
<1>1. cell \in layout /\ cell.top = current_row /\ cell \notin Placed
  BY DEF GridInv, Placed
<1>2. /\ cell.left \in 1 .. MaxCols /\ cell.right \in 1 .. MaxCols
      /\ cell.left <= cell.right /\ cell.top <= cell.bottom
      /\ cell.top \in Nat /\ cell.bottom \in Nat
      /\ current_row \in Nat /\ current_col \in Nat /\ col \in Nat
  BY <1>1, TileType, TableAssumption DEF GridInv, GridCols
<1>3. <<current_row, cell.left>> \in Slots(cell)
  BY <1>1, <1>2, SlotIn
<1>4. <<current_row, cell.left>> \notin DOMAIN grid
  <2> SUFFICES ASSUME NEW t \in Placed, <<current_row, cell.left>> \in Slots(t) PROVE FALSE
    BY DEF GridInv
  <2>1. t = cell
    BY <1>1, <1>3, Disjoint DEF GridInv, Placed
  <2> QED
    BY <2>1, <1>1
<1>5. current_col <= cell.left
  BY DEF GridInv
<1>6. ~(cell.left < col)
  BY <1>2, <1>4, <1>5 DEF NextFree
<1>7. ASSUME col < cell.left PROVE FALSE
  <2>1. col \in 1 .. cell.left - 1
    BY <1>2, <1>7 DEF GridCols
  <2>2. PICK u \in layout : <<current_row, col>> \in Slots(u)
    BY <1>1, <1>3, <2>1, NoHole DEF GridInv
  <2>3. /\ u.top <= current_row /\ u.left <= col
        /\ u.left \in 1 .. MaxCols /\ u.right \in 1 .. MaxCols
    BY <2>2, SlotIn, TileType DEF GridInv
  <2>4. CASE u \in row_content
    <3>1. cell.left <= u.left
      BY <2>4
    <3> QED
      BY <3>1, <2>3, <1>2, <1>7
  <2>5. CASE u \notin row_content
    <3>1. u \in Placed
      BY <2>3, <2>5 DEF Placed
    <3>2. <<current_row, col>> \in DOMAIN grid
      BY <3>1, <2>2 DEF GridInv
    <3> QED
      BY <3>2 DEF NextFree
  <2> QED
    BY <2>4, <2>5
<1> QED
  BY <1>1, <1>2, <1>6, <1>7

-----------------------------------------------------------------------------
(***************************************************************************)
(* A placed cell fills the slots of its tile, and no other.                *)
(***************************************************************************)

LEMMA FilledIsTile ==
  ASSUME NEW cell, cell.top \in Int, cell.bottom \in Int, cell.left \in Int,
         cell.right \in Int, cell.top = current_row
  PROVE  /\ Span(cell, cell.left) = Slots(cell)
         /\ \A slot \in Slots(cell) : Content(cell, slot[1]) = Shows(cell, slot)
<1>1. /\ current_row + rowspan(cell) - 1 = cell.bottom
      /\ cell.left + colspan(cell) - 1 = cell.right
  BY DEF rowspan, colspan
<1>2. Span(cell, cell.left) = Slots(cell)
  BY <1>1 DEF Span, Slots
<1> QED
  BY <1>1, <1>2 DEF Content, LastRow, Shows

LEMMA InitGrid == TableInit => TableInv
<1> SUFFICES ASSUME TableInit PROVE TableInv
  OBVIOUS
<1>1. Placed = {}
  BY TileType DEF TableInit, Placed
<1>2. GridInv
  BY <1>1, TableAssumption DEF TableInit, GridInv
<1> QED
  BY <1>2 DEF TableInit, TableInv, TableKept

LEMMA NextRowGrid == GridInv /\ NextRow => GridInv'
<1> SUFFICES ASSUME GridInv, NextRow PROVE GridInv'
  OBVIOUS
<1> USE DEF GridInv, NextRow
<1>1. \A t \in layout : t.top \in Nat /\ t.left \in 1 .. MaxCols
  BY TileType, TableAssumption
<1>2. Placed' = Placed
  BY <1>1, TableAssumption DEF Placed
<1>3. current_row' \in 0 .. MaxRows /\ current_col' \in 1 .. MaxCols + 1
  BY TableAssumption
<1>4. \A t \in row_content' : current_col' <= t.left
  BY <1>1
<1>5. DOMAIN grid' = UNION {Slots(t) : t \in Placed'}
  BY <1>2
<1>6. \A t \in Placed' : \A slot \in Slots(t) : grid'[slot] = Shows(t, slot)
  BY <1>2
<1> QED
  BY <1>3, <1>4, <1>5, <1>6

LEMMA PlaceCellGrid == GridInv /\ PlaceCell => GridInv'
<1> SUFFICES ASSUME GridInv, PlaceCell PROVE GridInv'
  OBVIOUS
<1>1. PICK cell \in row_content, col \in GridCols :
        /\ \A other \in row_content : cell.left <= other.left
        /\ NextFree(col)
        /\ grid' = Filled(cell, col)
        /\ current_col' = col + colspan(cell)
        /\ row_content' = row_content \ {cell}
        /\ UNCHANGED <<layout, current_row, new_table>>
  BY DEF PlaceCell
<1>2. col = cell.left /\ cell \in layout /\ cell.top = current_row
  BY <1>1, FreeIsLeft
<1>3. /\ cell.top \in 1 .. MaxRows /\ cell.bottom \in 1 .. MaxRows
      /\ cell.left \in 1 .. MaxCols /\ cell.right \in 1 .. MaxCols
      /\ cell.top <= cell.bottom /\ cell.left <= cell.right
  BY <1>2, TileType DEF GridInv
<1>4. /\ Span(cell, col) = Slots(cell)
      /\ \A slot \in Slots(cell) : Content(cell, slot[1]) = Shows(cell, slot)
  BY <1>2, <1>3, FilledIsTile
<1>5. Placed' = Placed \cup {cell}
  BY <1>1, <1>2, <1>3, TableAssumption DEF Placed, GridInv
<1>6. current_col' = cell.right + 1
  BY <1>1, <1>2, <1>3 DEF colspan
<1>7. current_col' \in 1 .. MaxCols + 1
  BY <1>3, <1>6, TableAssumption
<1>8. \A t \in row_content' : current_col' <= t.left
  <2> SUFFICES ASSUME NEW t \in row_content', ~(current_col' <= t.left) PROVE FALSE
    OBVIOUS
  <2>1. /\ t \in layout /\ t.top = current_row /\ t # cell /\ cell.left <= t.left
        /\ t.left \in 1 .. MaxCols /\ t.right \in 1 .. MaxCols /\ t.left <= t.right
        /\ t.bottom \in 1 .. MaxRows /\ t.top <= t.bottom
    BY <1>1, TileType DEF GridInv
  <2>2. <<current_row, t.left>> \in Slots(t) /\ <<current_row, t.left>> \in Slots(cell)
    BY <2>1, <1>2, <1>3, <1>6, SlotIn, TableAssumption
  <2> QED
    BY <2>1, <2>2, <1>2, Disjoint DEF GridInv
<1>9. DOMAIN grid' = UNION {Slots(t) : t \in Placed'}
  BY <1>1, <1>4, <1>5 DEF GridInv, Filled
<1>10. \A t \in Placed' : \A slot \in Slots(t) : grid'[slot] = Shows(t, slot)
  <2> SUFFICES ASSUME NEW t \in Placed', NEW slot \in Slots(t)
               PROVE  grid'[slot] = Shows(t, slot)
    OBVIOUS
  <2>1. CASE slot \in Slots(cell)
    <3>1. t = cell
      BY <2>1, <1>2, <1>5, Disjoint DEF GridInv, Placed
    <3> QED
      BY <3>1, <2>1, <1>1, <1>4 DEF Filled
  <2>2. CASE slot \notin Slots(cell)
    <3>1. t \in Placed /\ slot \in DOMAIN grid
      BY <2>2, <1>5 DEF GridInv
    <3> QED
      BY <3>1, <2>2, <1>1, <1>4 DEF GridInv, Filled
  <2> QED
    BY <2>1, <2>2
<1> QED
  BY <1>1, <1>7, <1>8, <1>9, <1>10 DEF GridInv

-----------------------------------------------------------------------------
(***************************************************************************)
(* Writing a row: its occupied columns are 1, 2, ..., without a gap, so    *)
(* leaving out empty slots moves no cell.                                  *)
(***************************************************************************)

LEMMA DownwardClosed ==
  ASSUME NEW n \in Nat, NEW S \in SUBSET (1 .. n),
         \A c \in S : \A d \in 1 .. c - 1 : d \in S
  PROVE  /\ Cardinality(S) \in Nat
         /\ S = 1 .. Cardinality(S)
         /\ \A i \in S : (CHOOSE c \in S : Cardinality({d \in S : d <= c}) = i) = i
<1>1. IsFiniteSet(S) /\ Cardinality(S) \in Nat
  <2>1. IsFiniteSet(1 .. n)
    BY FS_Interval
  <2>2. IsFiniteSet(S)
    BY <2>1, FS_Subset
  <2> QED
    BY <2>2, FS_CardinalityType
<1>2. ASSUME NEW c \in S
      PROVE  c \in Nat \ {0} /\ {d \in S : d <= c} = 1 .. c
  <2>1. c \in 1 .. n
    OBVIOUS
  <2>2. \A d \in 1 .. c : d \in S
    BY <2>1
  <2>3. \A d \in S : d <= c => d \in 1 .. c
    BY <2>1
  <2>4. \A d \in 1 .. c : d <= c
    BY <2>1
  <2>5. {d \in S : d <= c} = 1 .. c
    BY ONLY <2>2, <2>3, <2>4, Zenon
  <2> QED
    BY <2>1, <2>5
<1>3. ASSUME NEW c \in S PROVE Cardinality({d \in S : d <= c}) = c
  <2>1. c \in Nat \ {0} /\ {d \in S : d <= c} = 1 .. c
    BY <1>2
  <2>2. Cardinality(1 .. c) = c
    BY <2>1, FS_Interval
  <2> QED
    BY <2>1, <2>2
<1>4. \A c \in S : c <= Cardinality(S)
  <2> SUFFICES ASSUME NEW c \in S PROVE c <= Cardinality(S)
    OBVIOUS
  <2>1. {d \in S : d <= c} \in SUBSET S
    OBVIOUS
  <2>2. Cardinality({d \in S : d <= c}) <= Cardinality(S)
    BY <1>1, <2>1, FS_Subset
  <2> QED
    BY <1>3, <2>2
<1>5. S \subseteq 1 .. Cardinality(S)
  BY <1>1, <1>2, <1>4
<1>6. /\ IsFiniteSet(1 .. Cardinality(S))
      /\ Cardinality(1 .. Cardinality(S)) = Cardinality(S)
  BY <1>1, FS_Interval
<1>7. S = 1 .. Cardinality(S)
  BY <1>5, <1>6, FS_Subset
<1> QED
  BY <1>1, <1>3, <1>7

LEMMA RebuildKept == GridInv /\ Rebuild => TableKept'
<1> SUFFICES ASSUME GridInv, Rebuild, NEW r \in 1 .. MaxRows
             PROVE  LET covered == {c \in 1 .. MaxCols : \E t \in layout : <<r, c>> \in Slots(t)}
                    IN  /\ DOMAIN WriteRow(r) = covered
                        /\ \A c \in covered : \E t \in layout :
                             <<r, c>> \in Slots(t) /\ WriteRow(r)[c] = Shows(t, <<r, c>>)
  BY DEF Rebuild, TableKept
<1> DEFINE covered == {c \in 1 .. MaxCols : \E t \in layout : <<r, c>> \in Slots(t)}
<1>1. Placed = layout
  BY TileType DEF GridInv, Rebuild, Placed
<1>2. DOMAIN grid = UNION {Slots(t) : t \in layout}
  BY <1>1 DEF GridInv
<1>3. \A t \in layout : \A c : <<r, c>> \in Slots(t) => c \in 1 .. MaxCols
  BY SlotIn, TileType, TableAssumption DEF GridInv
<1>4. Columns(r) = covered
  BY <1>2, <1>3, TableAssumption DEF Columns, GridCols
<1>5. \A c \in covered : \A d \in 1 .. c - 1 : d \in covered
  BY <1>3, NoHole, TableAssumption DEF GridInv
<1>6. /\ covered = 1 .. Cardinality(covered)
      /\ \A i \in covered :
           (CHOOSE c \in covered : Cardinality({d \in covered : d <= c}) = i) = i
  <2> HIDE DEF covered
  <2>1. covered \in SUBSET (1 .. MaxCols)
    BY DEF covered
  <2> QED
    BY <2>1, <1>5, DownwardClosed, TableAssumption
<1>7. WriteRow(r) = [i \in covered |-> grid[<<r, i>>]]
  <2> HIDE DEF covered
  <2>1. WriteRow(r) = [i \in 1 .. Cardinality(covered) |->
          grid[<<r, CHOOSE c \in covered : Cardinality({d \in covered : d <= c}) = i>>]]
    BY <1>4 DEF WriteRow
  <2> QED
    BY <2>1, <1>6
<1>8. \A c \in covered : \E t \in layout :
        <<r, c>> \in Slots(t) /\ grid[<<r, c>>] = Shows(t, <<r, c>>)
  BY <1>1 DEF GridInv
<1> QED
  BY <1>7, <1>8

-----------------------------------------------------------------------------
LEMMA TableInvNext == TableInv /\ [TableNext]_tableVars => TableInv'
<1> SUFFICES ASSUME TableInv, [TableNext]_tableVars PROVE TableInv'
  OBVIOUS
<1> USE DEF TableInv
<1>1. CASE NextRow
  BY <1>1, NextRowGrid DEF NextRow, TableKept
<1>2. CASE PlaceCell
  BY <1>2, PlaceCellGrid DEF PlaceCell, TableKept
<1>3. CASE Rebuild
  <2>1. GridInv'
    BY <1>3 DEF Rebuild, GridInv, Placed
  <2> QED
    BY <2>1, <1>3, RebuildKept
<1>4. CASE UNCHANGED tableVars
  BY <1>4 DEF tableVars, GridInv, Placed, TableKept
<1> QED
  BY <1>1, <1>2, <1>3, <1>4 DEF TableNext

LEMMA TableInvariant == TableSpec => []TableInv
BY InitGrid, TableInvNext, PTL DEF TableSpec

\* The variables keep their types; the columns stay within the layout.
THEOREM TableTypeCorrect == TableSpec => []TableTypeOK
<1>1. TableInv => TableTypeOK
  <2> SUFFICES ASSUME TableInv PROVE TableTypeOK
    OBVIOUS
  <2>1. \A t \in Placed : t \in layout
    BY DEF Placed
  <2>2. \A t \in layout : Slots(t) \subseteq (1 .. MaxRows) \X (1 .. MaxCols)
    BY TileType, TableAssumption DEF TableInv, GridInv, Slots
  <2>3. DOMAIN grid \subseteq (1 .. MaxRows) \X (1 .. MaxCols)
    BY <2>1, <2>2 DEF TableInv, GridInv
  <2>4. \A slot \in DOMAIN grid : grid[slot] \in layout \cup {Blank}
    BY <2>1 DEF TableInv, GridInv, Shows
  <2> QED
    BY <2>3, <2>4 DEF TableInv, GridInv, TableTypeOK
<1> QED
  BY <1>1, TableInvariant, PTL

\* Whatever is in the grid stands where the layout has it.
THEOREM TableCellsInPlace == TableSpec => []CellsInPlace
<1>1. TableInv => CellsInPlace
  BY DEF TableInv, GridInv, CellsInPlace, Placed
<1> QED
  BY <1>1, TableInvariant, PTL

\* The rebuilt table shows what the layout describes.
THEOREM FlattenedTableKept == TableSpec => []TableKept
<1>1. TableInv => TableKept
  BY DEF TableInv
<1> QED
  BY <1>1, TableInvariant, PTL
=============================================================================

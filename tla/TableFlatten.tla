---------------------------- MODULE TableFlatten ----------------------------
(***************************************************************************)
(* The last pass over the HTML of a result: the first table is rebuilt     *)
(* without rowspan and colspan, for terminals that cannot draw spans.      *)
(* The code parses the cells of each row in turn, puts each into the next  *)
(* free column of a grid together with the slots that it spans, and writes *)
(* the grid out row by row.  The text says nothing about columns: they     *)
(* follow from what earlier rows have left free.                           *)
(*                                                                         *)
(* The input is described by what it is to show: a layout, a set of tiles  *)
(* that each cover a rectangle of the table.  Row r of the HTML holds the  *)
(* tiles whose top is r, from left to right, with their spans.  Rows and   *)
(* columns count from 1.                                                   *)
(***************************************************************************)
EXTENDS Integers, Sequences, FiniteSets

CONSTANTS
  MaxRows, MaxCols,  \* size of the tables: MaxRows rows, at most MaxCols columns
  Layouts,           \* the layouts of the tables that are flattened
  Blank              \* the cell <td>&#160;</td>

Tiles == [top : 1 .. MaxRows, bottom : 1 .. MaxRows, left : 1 .. MaxCols, right : 1 .. MaxCols]

Slots(tile) == (tile.top .. tile.bottom) \X (tile.left .. tile.right)

(***************************************************************************)
(* The layouts that an HTML table can describe without leaving a gap: no   *)
(* tiles overlap, and a row may be short but has no hole before a tile.    *)
(***************************************************************************)
IsLayout(tiles) ==
  /\ \A t \in tiles : t \in Tiles /\ t.top <= t.bottom /\ t.left <= t.right
  /\ \A t, u \in tiles : Slots(t) \cap Slots(u) # {} => t = u
  /\ \A t \in tiles : \A slot \in Slots(t) : \A c \in 1 .. slot[2] - 1 :
       \E u \in tiles : <<slot[1], c>> \in Slots(u)

ASSUME TableAssumption ==
  /\ MaxRows \in Nat \ {0} /\ MaxCols \in Nat
  /\ \A tiles \in Layouts : IsLayout(tiles)
  /\ Blank \notin Tiles

VARIABLES
  layout,       \* the table, never changed
  row_content,  \* the cells of the current row that are still to be parsed
  current_row,
  current_col,
  grid,         \* what stands in each occupied slot; its domain is cell_occupied
  new_table     \* the rows of the rebuilt table, empty until it is written

tableVars == <<layout, row_content, current_row, current_col, grid, new_table>>

TableInit ==
  /\ layout \in Layouts
  /\ row_content = {} /\ current_row = 0 /\ current_col = 1
  /\ grid = <<>> /\ new_table = <<>>

-----------------------------------------------------------------------------
NextRow ==
  /\ row_content = {} /\ current_row < MaxRows
  /\ current_row' = current_row + 1
  /\ row_content' = {t \in layout : t.top = current_row + 1}
  /\ current_col' = 1
  /\ UNCHANGED <<layout, grid, new_table>>

NextFree_Ignored(col) == col = current_col   \* mutant: spans of rows above ignored

\* find_next_col: the first column from current_col on that is not occupied.
NextFree(col) ==
  /\ col >= current_col /\ <<current_row, col>> \notin DOMAIN grid
  /\ \A c \in current_col .. col - 1 : <<current_row, c>> \in DOMAIN grid

rowspan(cell) == cell.bottom - cell.top + 1

colspan_OneMore(cell) == cell.right - cell.left + 2   \* mutant
colspan(cell) == cell.right - cell.left + 1

Span(cell, col) ==
  (current_row .. current_row + rowspan(cell) - 1) \X (col .. col + colspan(cell) - 1)

LastRow(cell) == current_row + rowspan(cell) - 1

\* A cell that spans rows has its content in the last of them.
Content(cell, row) == IF row # LastRow(cell) THEN Blank ELSE cell

Filled(cell, col) ==
  [slot \in Span(cell, col) \cup DOMAIN grid |->
     IF slot \in Span(cell, col) THEN Content(cell, slot[1]) ELSE grid[slot]]

\* A bound on the columns of a grid that no layout reaches.
GridCols == 1 .. 2 * MaxCols

PlaceCell ==
  \E cell \in row_content, col \in GridCols :
    /\ \A other \in row_content : cell.left <= other.left   \* the next in the text
    /\ NextFree(col)
    /\ grid' = Filled(cell, col)
    /\ current_col' = col + colspan(cell)
    /\ row_content' = row_content \ {cell}
    /\ UNCHANGED <<layout, current_row, new_table>>

\* Mutant: blanks count as empty.
Columns_NoBlanks(r) ==
  {c \in GridCols : <<r, c>> \in DOMAIN grid /\ grid[<<r, c>>] # Blank}

Columns(r) == {c \in GridCols : <<r, c>> \in DOMAIN grid}

\* The cells of a row of the grid, in order; slots that nothing occupies are
\* left out.
WriteRow(r) ==
  [i \in 1 .. Cardinality(Columns(r)) |->
     grid[<<r, CHOOSE c \in Columns(r) : Cardinality({d \in Columns(r) : d <= c}) = i>>]]

Rebuild ==
  /\ row_content = {} /\ current_row = MaxRows /\ new_table = <<>>
  /\ new_table' = [r \in 1 .. MaxRows |-> WriteRow(r)]
  /\ UNCHANGED <<layout, row_content, current_row, current_col, grid>>

TableNext == NextRow \/ PlaceCell \/ Rebuild

TableSpec == TableInit /\ [][TableNext]_tableVars

-----------------------------------------------------------------------------
(***************************************************************************)
(* Properties.                                                             *)
(***************************************************************************)

\* What the layout has in a slot: the tile in its last row, blanks above.
Shows(tile, slot) == IF slot[1] = tile.bottom THEN tile ELSE Blank

TableTypeOK ==
  /\ row_content \subseteq layout
  /\ current_row \in 0 .. MaxRows
  /\ current_col \in 1 .. MaxCols + 1
  /\ DOMAIN grid \subseteq (1 .. MaxRows) \X (1 .. MaxCols)
  /\ \A slot \in DOMAIN grid : grid[slot] \in layout \cup {Blank}

\* Every cell lands in the columns that it has in the layout, although the
\* text only gives the spans: whatever stands in the grid is what the tile
\* of that slot shows there, and no later cell overwrites it.
CellsInPlace ==
  \A slot \in DOMAIN grid : \E t \in layout : slot \in Slots(t) /\ grid[slot] = Shows(t, slot)

\* The rebuilt table shows every row of the layout, column by column: blanks
\* for the upper rows of a span, the content in all columns of its last row.
TableKept ==
  new_table # <<>> =>
    \A r \in 1 .. MaxRows :
      LET covered == {c \in 1 .. MaxCols : \E t \in layout : <<r, c>> \in Slots(t)}
      IN  /\ DOMAIN new_table[r] = covered
          /\ \A c \in covered : \E t \in layout :
               <<r, c>> \in Slots(t) /\ new_table[r][c] = Shows(t, <<r, c>>)
=============================================================================

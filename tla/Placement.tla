------------------------------ MODULE Placement ------------------------------
(***************************************************************************)
(* Where the items of a grid go (layout crate, grid.rs). A place has a row  *)
(* and a column, counted from 1, and spans rows and columns from there. An  *)
(* item has what it spans, and in item.area the name of an area, if any;    *)
(* named gives the areas that have a name their places.                     *)
(***************************************************************************)
EXTENDS Integers, Sequences

Cells(p) == {<<r, c>> : r \in p.row .. p.row + p.rows - 1, c \in p.col .. p.col + p.cols - 1}

PlaceAt(at, item) == [row |-> at[1], col |-> at[2], rows |-> item.rows, cols |-> item.cols]
Crosses(at, item, columns) == at[2] + item.cols - 1 > columns

GridCells == (Nat \ {0}) \X (Nat \ {0})

FreeCorner(from, item, columns, taken) ==     \* variant: only the first cell is looked at
  LET free[at \in GridCells] ==
        IF Crosses(at, item, columns) THEN free[<<at[1] + 1, 1>>]
        ELSE IF at \in taken THEN free[<<at[1], at[2] + 1>>]
        ELSE PlaceAt(at, item)
  IN  free[from]

(* The first place, from a corner on and row by row, whose cells are all free.            *)
FreePlace(from, item, columns, taken) ==
  LET free[at \in GridCells] ==
        IF Crosses(at, item, columns) THEN free[<<at[1] + 1, 1>>]
        ELSE IF Cells(PlaceAt(at, item)) \cap taken # {} THEN free[<<at[1], at[2] + 1>>]
        ELSE PlaceAt(at, item)
  IN  free[from]

Bare(named) == [places |-> <<>>, at |-> <<1, 1>>, taken |-> UNION {Cells(named[a]) : a \in DOMAIN named}]

(* An item goes to the area it names, whoever is there; the others find a place among the *)
(* cells no area has a name for, each after the one before it.                            *)
WithItem(s, item, columns, named) ==
  LET areas == item.area \cap DOMAIN named
      free == FreePlace(s.at, item, columns, s.taken)
  IN  IF areas # {} THEN [s EXCEPT !.places = Append(@, named[CHOOSE a \in areas : TRUE])]
      ELSE [places |-> Append(s.places, free), taken |-> s.taken \cup Cells(free),
            at |-> <<free.row, free.col + free.cols>>]

PlaceItems(items, columns, named) ==
  LET after[k \in 0 .. Len(items)] == IF k = 0 THEN Bare(named) ELSE WithItem(after[k - 1], items[k], columns, named)
  IN  after[Len(items)].places

-----------------------------------------------------------------------------
(* What the language says: every item that names an area has it; every other is at the     *)
(* first place that fits it, after those before it.                                        *)

Before(p, q) == p.row < q.row \/ (p.row = q.row /\ p.col < q.col)

Auto(items, named) == {i \in DOMAIN items : items[i].area \cap DOMAIN named = {}}

Fits(p, i, items, columns, named, places) ==
  /\ p.col + p.cols - 1 <= columns
  /\ \A a \in DOMAIN named : Cells(p) \cap Cells(named[a]) = {}
  /\ \A j \in Auto(items, named) : j < i => Cells(p) \cap Cells(places[j]) = {} /\ Before(places[j], p)

PlacedWell(items, columns, named, places) ==
  /\ Len(places) = Len(items)
  /\ \A i \in DOMAIN items \ Auto(items, named) : \E a \in items[i].area \cap DOMAIN named : places[i] = named[a]
  /\ \A i \in Auto(items, named) :
       /\ places[i] = PlaceAt(<<places[i].row, places[i].col>>, items[i])
       /\ places[i].row >= 1 /\ places[i].col >= 1
       /\ Fits(places[i], i, items, columns, named, places)
       /\ \A c \in (1 .. places[i].row) \X (1 .. columns) :
            Fits(PlaceAt(c, items[i]), i, items, columns, named, places) => ~ Before(PlaceAt(c, items[i]), places[i])
=============================================================================

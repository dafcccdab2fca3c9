----------------------------- MODULE BookLevels -----------------------------
(***************************************************************************)
(* The std::map of map_based_book_side as a value: a function from the     *)
(* price levels present to their quantities, and what add_order and        *)
(* reduce_order do to it.                                                  *)
(***************************************************************************)
EXTENDS Integers

\* The quantity at a level, 0 when the map has no such key.
QtyIn(levels, px) == IF px \in DOMAIN levels THEN levels[px] ELSE 0

\* emplace(px, 0), then += qty.
Added(levels, px, qty) ==
    [tk \in DOMAIN levels \cup {px} |->
        IF tk = px THEN QtyIn(levels, px) + qty ELSE levels[tk]]

\* -= qty on a key that is present, erased at zero or below.
Subtracted(levels, px, qty) ==
    IF levels[px] <= qty
    THEN [tk \in DOMAIN levels \ {px} |-> levels[tk]]
    ELSE [levels EXCEPT ![px] = @ - qty]
=============================================================================

----------------------------- MODULE PriceLevels ----------------------------
(***************************************************************************)
(* price_levels and level_to_price for price4_t, the prices of the books:  *)
(* integers in units of 1/10000 of a dollar.  A level is the number of     *)
(* ticks from price 0: a tick is one unit up to a dollar, and a penny      *)
(* above.                                                                  *)
(***************************************************************************)
EXTENDS Integers

denom == 10000
unit == denom
penny == denom \div 100
mill == penny \div 100

\* price_levels, for lo <= hi; it throws for any other range.
price_levels(lo, hi) ==
    IF unit <= lo THEN (hi - lo) \div penny
    ELSE IF hi <= unit THEN (hi - lo) \div mill
    ELSE (unit - lo) \div mill + (hi - unit) \div penny

\* level_to_price, for a level not above that of the highest price.
level_to_price(p_level) ==
    IF p_level <= denom THEN p_level
    ELSE (p_level - denom) * 100 + denom

\* The level of a price in a book.
LevelOf(px) == price_levels(0, px)

\* The lowest price of the level of px: px itself up to a dollar.
Tick(px) == IF px <= unit THEN px ELSE px - (px % penny)
=============================================================================

----------------------------- MODULE BookPrices -----------------------------
(***************************************************************************)
(* What the two implementations of a book side have in common: price       *)
(* levels, the order of the levels on the BUY and on the SELL side, and    *)
(* the level that stands for an empty side.                                *)
(*                                                                         *)
(* A level is the index of a price, price_levels(price4_t(0), px).  Only   *)
(* the order of the levels and the distance between them matter here, so   *)
(* a price and its level are the same number.                              *)
(***************************************************************************)
EXTENDS Integers

CONSTANTS
    Ascending,    \* TRUE: BUY side, better is higher; FALSE: SELL side
    LevelMax,     \* the level of max_price_field_value<price4_t>()
    Prices,       \* the levels that operations name
    Qtys,         \* the quantities that operations name
    MaxLevelQty   \* bound: the largest quantity at a level (INT_MAX)

ASSUME AscendingAssumption == Ascending \in BOOLEAN
ASSUME LevelAssumption == LevelMax \in Nat /\ LevelMax >= 2
ASSUME PricesAssumption == Prices \subseteq 0..LevelMax
ASSUME QtysAssumption == Qtys \subseteq Nat /\ MaxLevelQty \in Nat

Levels == 0..LevelMax

\* side<compare_t>::better_level, and the compare_t of the level maps.
better_level(tk1, tk2) == IF Ascending THEN tk1 > tk2 ELSE tk1 < tk2

\* empty_bid_price() for BUY, empty_offer_price() for SELL.
tk_empty_quote == IF Ascending THEN 0 ELSE LevelMax

\* What the last call returned: true, false, or a jb::feed_error; "none"
\* before the first call.
Results == {"none", "inside_changed", "no_inside_change", "feed_error"}

Report(inside) == IF inside THEN "inside_changed" ELSE "no_inside_change"
=============================================================================

--------------------------- MODULE ArrayBookSide ---------------------------
(***************************************************************************)
(* array_based_book_side: one side of an order book that keeps the levels  *)
(* near the inside in a vector (a window of consecutive levels) and all    *)
(* the others in a sorted map.  The window moves when the inside leaves    *)
(* it: towards better prices in add_order, back in reduce_order.           *)
(*                                                                         *)
(* bottom_levels_ holds no zero entry, so the map is a function on all     *)
(* levels with 0 for an absent key.  An operation that fails its           *)
(* validation throws before it changes anything; it is a stuttering step.  *)
(***************************************************************************)
EXTENDS BookPrices, FiniteSets

CONSTANT MaxSize          \* array_based_order_book::config::max_size

ASSUME MaxSizeAssumption == MaxSize \in Nat /\ MaxSize >= 1

VARIABLES
    top_levels_,     \* slot -> quantity; slot 0 is the worst level
    bottom_levels_,  \* level -> quantity, 0 when the map has no such key
    tk_inside_,      \* the best level, tk_empty_quote when the side is empty
    tk_begin_top_,   \* the worst level of the window
    tk_end_top_,     \* one past the best level of the window
    ret              \* what the last operation returned or threw

window == <<tk_inside_, tk_begin_top_, tk_end_top_>>
vars == <<top_levels_, bottom_levels_, tk_inside_, tk_begin_top_,
          tk_end_top_, ret>>

Slots == 0..(MaxSize - 1)
HalfSize == MaxSize \div 2

Init ==
    /\ top_levels_ = [i \in Slots |-> 0]
    /\ bottom_levels_ = [tk \in Levels |-> 0]
    /\ tk_inside_ = tk_empty_quote
    /\ tk_begin_top_ = tk_empty_quote
    /\ tk_end_top_ = tk_empty_quote
    /\ ret = "none"
-----------------------------------------------------------------------------
\* Slots and levels, counted from the worst level of the window.
level_to_relative(tk_ini, tk) ==
    IF Ascending THEN tk - tk_ini ELSE tk_ini - tk

relative_to_level(tk_ini, i) ==
    IF Ascending THEN tk_ini + i ELSE tk_ini - i

\* A window around tk, HalfSize levels to each side, pushed back inside
\* 0..LevelMax: <<low, high>>.
get_limits(tk) ==
    LET AtMost(x)  == IF x >= LevelMax THEN LevelMax ELSE x
        Below(x)   == IF x <= HalfSize THEN 0 ELSE x - HalfSize
        low_base   == AtMost(Below(tk) + HalfSize)
        high       == AtMost(low_base + HalfSize)
        high_base  == Below(high)
        low        == IF low_base # high_base THEN Below(high_base)
                                              ELSE Below(tk)
    IN  IF tk = tk_empty_quote THEN <<tk, tk>> ELSE <<low, high>>

\* The limits as <<tk_begin_top_, tk_end_top_>>: the SELL side swaps them.
limit_top_prices(tk) ==
    IF Ascending THEN get_limits(tk)
                 ELSE <<get_limits(tk)[2], get_limits(tk)[1]>>

\* The slot of a level in the current window, and of the inside.
Slot(tk) == level_to_relative(tk_begin_top_, tk)
InsideSlot == Slot(tk_inside_)

\* validate_operation_params.
ValidOperation(px, qty) == qty > 0 /\ px < LevelMax

InTop(px) == ~better_level(tk_begin_top_, px)
-----------------------------------------------------------------------------
(* move_top_to_bottom(tk_max): the levels worse than tk_max leave the      *)
(* vector for the map, and the others shift down by as many slots.         *)
MovedOut(tk_max) ==
    IF better_level(tk_max, tk_inside_) THEN InsideSlot + 1 ELSE Slot(tk_max)

\* Faulty variant: the last level to move out is lost.
BottomAfterMoveDropsLast(tk_max) ==
    [tk \in Levels |->
        IF /\ InTop(tk)
           /\ Slot(tk) < MovedOut(tk_max) - 1
           /\ bottom_levels_[tk] = 0
        THEN top_levels_[Slot(tk)]
        ELSE bottom_levels_[tk]]

\* emplace_hint keeps the entry of a key that is already in the map.
BottomAfterMove(tk_max) ==
    [tk \in Levels |->
        IF /\ InTop(tk)
           /\ Slot(tk) < MovedOut(tk_max)
           /\ bottom_levels_[tk] = 0
        THEN top_levels_[Slot(tk)]
        ELSE bottom_levels_[tk]]

\* The loop copies slot i to slot i - n and clears slot i, in this order:
\* with n = 0 it clears every level up to the inside.
TopAfterMove(tk_max) ==
    LET n == MovedOut(tk_max)
    IN  IF better_level(tk_max, tk_inside_)
        THEN [i \in Slots |-> IF i < n THEN 0 ELSE top_levels_[i]]
        ELSE [i \in Slots |-> IF i > InsideSlot THEN top_levels_[i]
                              ELSE IF n > 0 /\ i + n <= InsideSlot
                              THEN top_levels_[i + n]
                              ELSE 0]
-----------------------------------------------------------------------------
(* add_order.                                                              *)
AddToBottom(px, qty) ==
    /\ better_level(tk_begin_top_, px)
    /\ bottom_levels_' = [bottom_levels_ EXCEPT ![px] = @ + qty]
    /\ ret' = Report(FALSE)
    /\ UNCHANGED <<top_levels_, window>>

\* The level is the inside, or a better one past the end of the window.
AddInNewWindow(px, qty) ==
    LET limits == limit_top_prices(px)
    IN  /\ InTop(px)
        /\ ~better_level(tk_inside_, px)
        /\ ~better_level(tk_end_top_, px)
        /\ bottom_levels_' = BottomAfterMove(limits[1])
        /\ top_levels_' = [TopAfterMove(limits[1]) EXCEPT
                              ![level_to_relative(limits[1], px)] = @ + qty]
        /\ tk_begin_top_' = limits[1]
        /\ tk_end_top_' = limits[2]
        /\ tk_inside_' = px
        /\ ret' = Report(TRUE)

AddAtInside(px, qty) ==
    /\ InTop(px)
    /\ ~better_level(tk_inside_, px)
    /\ better_level(tk_end_top_, px)
    /\ tk_inside_' = px
    /\ top_levels_' = [top_levels_ EXCEPT ![Slot(px)] = @ + qty]
    /\ ret' = Report(TRUE)
    /\ UNCHANGED <<bottom_levels_, tk_begin_top_, tk_end_top_>>

AddBehindInside(px, qty) ==
    /\ InTop(px)
    /\ better_level(tk_inside_, px)
    /\ top_levels_' = [top_levels_ EXCEPT ![Slot(px)] = @ + qty]
    /\ ret' = Report(FALSE)
    /\ UNCHANGED <<bottom_levels_, window>>

\* The quantity the side holds at a level, in either structure.
LevelQty(tk) ==
    bottom_levels_[tk] +
        IF Slot(tk) \in Slots THEN top_levels_[Slot(tk)] ELSE 0

add_order(px, qty) ==
    /\ ValidOperation(px, qty)
    /\ LevelQty(px) + qty <= MaxLevelQty
    /\ \/ AddToBottom(px, qty)
       \/ AddInNewWindow(px, qty)
       \/ AddAtInside(px, qty)
       \/ AddBehindInside(px, qty)
-----------------------------------------------------------------------------
(* reduce_order.                                                           *)
\* Faulty variant: the quantity may become negative.
ReducedBelowZero(old, qty) == old - qty

Reduced(old, qty) == IF old <= qty THEN 0 ELSE old - qty

ReduceBottom(px, qty) ==
    /\ better_level(tk_begin_top_, px)
    /\ bottom_levels_[px] # 0
    /\ bottom_levels_' = [bottom_levels_ EXCEPT ![px] = Reduced(@, qty)]
    /\ ret' = Report(FALSE)
    /\ UNCHANGED <<top_levels_, window>>

\* raise_invalid_reduce: no such level in the map, a level better than the
\* inside, or an empty slot.
ReduceMissing(px) ==
    /\ \/ better_level(tk_begin_top_, px) /\ bottom_levels_[px] = 0
       \/ InTop(px) /\ better_level(px, tk_inside_)
       \/ /\ InTop(px) /\ ~better_level(px, tk_inside_)
          /\ top_levels_[Slot(px)] = 0
    /\ ret' = "feed_error"
    /\ UNCHANGED <<top_levels_, bottom_levels_, window>>

\* What the vector holds after the subtraction.
TopReduced(px, qty) == [top_levels_ EXCEPT ![Slot(px)] = Reduced(@, qty)]

\* The level is in the window and present; LeavesInside says the reduction
\* removes the inside itself.
PresentInTop(px) ==
    InTop(px) /\ ~better_level(px, tk_inside_) /\ top_levels_[Slot(px)] # 0

LeavesInside(px, qty) == px = tk_inside_ /\ top_levels_[Slot(px)] <= qty

\* Faulty variant: a partial reduction of the inside is not reported.
ReduceTopSilent(px, qty) ==
    /\ PresentInTop(px)
    /\ ~LeavesInside(px, qty)
    /\ top_levels_' = TopReduced(px, qty)
    /\ ret' = Report(FALSE)
    /\ UNCHANGED <<bottom_levels_, window>>

ReduceTop(px, qty) ==
    /\ PresentInTop(px)
    /\ ~LeavesInside(px, qty)
    /\ top_levels_' = TopReduced(px, qty)
    /\ ret' = Report(px = tk_inside_)
    /\ UNCHANGED <<bottom_levels_, window>>

\* next_best_price_level: the first non-empty slot below the inside.
NextBestSlot(i) ==
    /\ i < InsideSlot
    /\ top_levels_[i] # 0
    /\ \A j \in Slots : i < j /\ j < InsideSlot => top_levels_[j] = 0

RemoveInside(px, qty) ==
    /\ PresentInTop(px)
    /\ LeavesInside(px, qty)
    /\ \E i \in Slots :
          /\ NextBestSlot(i)
          /\ tk_inside_' = relative_to_level(tk_begin_top_, i)
    /\ top_levels_' = TopReduced(px, qty)
    /\ ret' = Report(TRUE)
    /\ UNCHANGED <<bottom_levels_, tk_begin_top_, tk_end_top_>>

\* Faulty variant: the levels moved stay in the map.
MoveBottomToTopKeepsMap(begin, top) ==
    /\ top_levels_' =
          [i \in Slots |->
              LET tk == relative_to_level(begin, i)
              IN  IF tk \in Levels /\ bottom_levels_[tk] # 0
                  THEN bottom_levels_[tk] ELSE top[i]]
    /\ UNCHANGED bottom_levels_

\* move_bottom_to_top, with the window already at its new place.
MoveBottomToTop(begin, top) ==
    /\ top_levels_' =
          [i \in Slots |->
              LET tk == relative_to_level(begin, i)
              IN  IF tk \in Levels /\ bottom_levels_[tk] # 0
                  THEN bottom_levels_[tk] ELSE top[i]]
    /\ bottom_levels_' =
          [tk \in Levels |->
              IF better_level(begin, tk) THEN bottom_levels_[tk] ELSE 0]

\* bottom_levels_.begin(), tk_empty_quote when the map is empty.
IsBestOfBottom(tk) ==
    \/ /\ \A u \in Levels : bottom_levels_[u] = 0
       /\ tk = tk_empty_quote
    \/ /\ bottom_levels_[tk] # 0
       /\ \A u \in Levels : bottom_levels_[u] # 0 => ~better_level(u, tk)

\* The last level of the vector goes away: the best of the map becomes the
\* inside, and the window is laid out around it.
RefillWindow(px, qty) ==
    /\ PresentInTop(px)
    /\ LeavesInside(px, qty)
    /\ \A i \in Slots : i < InsideSlot => top_levels_[i] = 0
    /\ \E tk \in Levels :
          LET limits == limit_top_prices(tk)
          IN  /\ IsBestOfBottom(tk)
              /\ tk_inside_' = tk
              /\ tk_begin_top_' = limits[1]
              /\ tk_end_top_' = limits[2]
              /\ MoveBottomToTop(limits[1], TopReduced(px, qty))
    /\ ret' = Report(TRUE)

reduce_order(px, qty) ==
    /\ ValidOperation(px, qty)
    /\ \/ ReduceBottom(px, qty)
       \/ ReduceMissing(px)
       \/ ReduceTop(px, qty)
       \/ RemoveInside(px, qty)
       \/ RefillWindow(px, qty)

Next == \E px \in Prices, qty \in Qtys :
            add_order(px, qty) \/ reduce_order(px, qty)

Spec == Init /\ [][Next]_vars
-----------------------------------------------------------------------------
(* The observers.                                                          *)
best_quote ==
    IF tk_inside_ = tk_empty_quote
    THEN <<tk_empty_quote, 0>>
    ELSE <<tk_inside_, top_levels_[InsideSlot]>>

\* The worst level of the map, else the lowest non-empty slot.
worst_quote ==
    LET bottom == {tk \in Levels : bottom_levels_[tk] # 0}
        top == {i \in Slots : top_levels_[i] # 0}
        worst == CHOOSE tk \in bottom : \A u \in bottom : ~better_level(tk, u)
        low == CHOOSE i \in top : \A j \in top : i <= j
    IN  IF tk_inside_ = tk_empty_quote THEN <<tk_empty_quote, 0>>
        ELSE IF bottom # {} THEN <<worst, bottom_levels_[worst]>>
        ELSE <<relative_to_level(tk_begin_top_, low), top_levels_[low]>>

\* Faulty variant: the inside itself is not counted.
CountWithoutInside ==
    Cardinality({tk \in Levels : bottom_levels_[tk] # 0}) +
    IF tk_inside_ = tk_empty_quote THEN 0
    ELSE Cardinality({i \in Slots : i < InsideSlot /\ top_levels_[i] # 0})

\* bottom_levels_.size() + top_levels_count().
count ==
    Cardinality({tk \in Levels : bottom_levels_[tk] # 0}) +
    IF tk_inside_ = tk_empty_quote THEN 0
    ELSE Cardinality({i \in Slots : i <= InsideSlot /\ top_levels_[i] # 0})
-----------------------------------------------------------------------------
TypeOK ==
    /\ top_levels_ \in [Slots -> 0..MaxLevelQty]
    /\ bottom_levels_ \in [Levels -> 0..MaxLevelQty]
    /\ tk_inside_ \in Levels
    /\ tk_begin_top_ \in Levels
    /\ tk_end_top_ \in Levels
    /\ ret \in Results

\* An empty side has no window and holds nothing.
EmptySide ==
    tk_inside_ = tk_empty_quote =>
        /\ tk_begin_top_ = tk_empty_quote
        /\ tk_end_top_ = tk_empty_quote
        /\ \A i \in Slots : top_levels_[i] = 0
        /\ \A tk \in Levels : bottom_levels_[tk] = 0

\* The window has its full width unless it ends at the last level.
WindowWidth ==
    LET width == level_to_relative(tk_begin_top_, tk_end_top_)
    IN  \/ width = 2 * HalfSize
        \/ /\ width <= 2 * HalfSize
           /\ tk_end_top_ = IF Ascending THEN LevelMax ELSE 0

\* Otherwise the window fits the vector and the inside is in it.
InsideInWindow ==
    tk_inside_ # tk_empty_quote =>
        /\ tk_inside_ \in 1..(LevelMax - 1)
        /\ InTop(tk_inside_)
        /\ better_level(tk_end_top_, tk_inside_)
        /\ WindowWidth

\* The inside slot is the best non-empty one, and no slot stands for a level
\* outside the valid prices.
InsideIsBest ==
    tk_inside_ # tk_empty_quote =>
        /\ top_levels_[InsideSlot] # 0
        /\ \A i \in Slots : top_levels_[i] # 0 =>
              /\ i <= InsideSlot
              /\ relative_to_level(tk_begin_top_, i) \in 1..(LevelMax - 1)

\* Every level of the map is worse than every level of the window.
BottomBehindWindow ==
    \A tk \in Levels : bottom_levels_[tk] # 0 =>
        better_level(tk_begin_top_, tk) /\ tk \in 1..(LevelMax - 1)

(* The window invariant: whatever sequence of orders moved the window back *)
(* and forth, the vector holds the best levels with the inside last, the   *)
(* map holds only worse ones, and every index stays in the vector.         *)
WindowOK ==
    EmptySide /\ InsideInWindow /\ InsideIsBest /\ BottomBehindWindow
-----------------------------------------------------------------------------
(* The side as one map, and the specification it implements.               *)
AllLevels ==
    [tk \in {t \in Levels : LevelQty(t) # 0} |-> LevelQty(tk)]

Map == INSTANCE MapBookSide WITH levels_ <- AllLevels

(* array_based_book_side implements map_based_book_side: the same returned *)
(* values, the same feed_errors and the same quantity at every level.      *)
ImplementsMap == Map!Spec

(* "returns true if the inside changed": the value returned by add_order   *)
(* and reduce_order says exactly whether best_quote() changed.             *)
InsideChangeReported ==
    [][(ret' = "inside_changed") <=> (best_quote' # best_quote)]_vars

(* "the best bid price and quantity", "the worst bid price and quantity"   *)
(* and "the number of levels with non-zero quantity" are those of the one  *)
(* map, whichever of the two structures the levels are in.                 *)
ObserversAgree ==
    /\ best_quote = Map!best_quote
    /\ worst_quote = Map!worst_quote
    /\ count = Map!count
=============================================================================

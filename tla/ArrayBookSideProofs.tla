------------------------ MODULE ArrayBookSideProofs ------------------------
(***************************************************************************)
(* For every side, vector size, price range and sequence of operations,    *)
(* array_based_book_side keeps its window invariant, implements            *)
(* map_based_book_side, observes what it would observe, and reports        *)
(* whether the inside changed.                                             *)
(***************************************************************************)
EXTENDS ArrayBookSide, PriceLevels, FoldLemmas

\* What the theorems assume of the parameters besides the modules'
\* assumptions: no order at price 0 and room for two levels in the vector.
\* Without either the side loses quantities (see the README).
UsableParameters == 0 \notin Prices /\ MaxSize >= 2

\* The inductive invariant.
IInv == TypeOK /\ WindowOK
(* Updating one entry of a function keeps its type.                        *)
LEMMA UpdateKeepsType ==
    ASSUME NEW S, NEW T, NEW f \in [S -> T], NEW i, NEW v \in T
    PROVE  [f EXCEPT ![i] = v] \in [S -> T]
OBVIOUS
-----------------------------------------------------------------------------
(* Facts about the window arithmetic.                                      *)

LEMMA HalfSizeFacts ==
    ASSUME UsableParameters
    PROVE  HalfSize \in Nat /\ HalfSize >= 1 /\ 2 * HalfSize <= MaxSize
BY MaxSizeAssumption DEF HalfSize, UsableParameters

(* The nested clamps of get_limits, resolved: the window is tk - HalfSize  *)
(* to tk + HalfSize, moved up to start at 0 or down to end at LevelMax.    *)
LEMMA GetLimitsClosedForm ==
    ASSUME UsableParameters, NEW tk \in 1..(LevelMax - 1)
    PROVE  get_limits(tk) =
             <<IF tk <= HalfSize THEN 0
               ELSE IF tk + HalfSize < LevelMax THEN tk - HalfSize
               ELSE IF LevelMax <= 2 * HalfSize THEN 0
               ELSE LevelMax - 2 * HalfSize,
               IF tk <= HalfSize
               THEN IF 2 * HalfSize >= LevelMax THEN LevelMax ELSE 2 * HalfSize
               ELSE IF tk + HalfSize >= LevelMax THEN LevelMax
               ELSE tk + HalfSize>>
<1> DEFINE AtMost(x)  == IF x >= LevelMax THEN LevelMax ELSE x
           Below(x)   == IF x <= HalfSize THEN 0 ELSE x - HalfSize
           low_base   == AtMost(Below(tk) + HalfSize)
           high       == AtMost(low_base + HalfSize)
           high_base  == Below(high)
           low        == IF low_base # high_base THEN Below(high_base)
                                                 ELSE Below(tk)
<1>0. HalfSize \in Nat /\ HalfSize >= 1 /\ LevelMax \in Nat
  BY HalfSizeFacts, LevelAssumption
<1>1. tk # tk_empty_quote
  BY <1>0 DEF tk_empty_quote
<1>2. get_limits(tk) = <<low, high>>
  BY <1>1 DEF get_limits
<1>3. high = IF tk <= HalfSize
             THEN IF 2 * HalfSize >= LevelMax THEN LevelMax ELSE 2 * HalfSize
             ELSE IF tk + HalfSize >= LevelMax THEN LevelMax
             ELSE tk + HalfSize
  BY <1>0
<1>4. low = IF tk <= HalfSize THEN 0
            ELSE IF tk + HalfSize < LevelMax THEN tk - HalfSize
            ELSE IF LevelMax <= 2 * HalfSize THEN 0
            ELSE LevelMax - 2 * HalfSize
  BY <1>0
<1> QED
  BY <1>2, <1>3, <1>4

(* The same for a side, by the direction of the levels.                    *)
LEMMA LimitsClosedForm ==
    ASSUME UsableParameters, NEW tk \in 1..(LevelMax - 1)
    PROVE  /\ Ascending =>
                /\ limit_top_prices(tk)[1] = get_limits(tk)[1]
                /\ limit_top_prices(tk)[2] = get_limits(tk)[2]
           /\ ~Ascending =>
                /\ limit_top_prices(tk)[1] = get_limits(tk)[2]
                /\ limit_top_prices(tk)[2] = get_limits(tk)[1]
BY DEF limit_top_prices

(* A window laid out around a level contains it strictly before its end,   *)
(* is made of valid levels and has the width WindowWidth says.             *)
LEMMA LimitsAroundLevel ==
    ASSUME UsableParameters, NEW tk \in 1..(LevelMax - 1),
           NEW begin, NEW end,
           begin = limit_top_prices(tk)[1], end = limit_top_prices(tk)[2]
    PROVE  /\ begin \in Levels /\ end \in Levels
           /\ ~better_level(begin, tk)
           /\ better_level(end, tk)
           /\ \/ level_to_relative(begin, end) = 2 * HalfSize
              \/ /\ level_to_relative(begin, end) <= 2 * HalfSize
                 /\ end = IF Ascending THEN LevelMax ELSE 0
<1>0. HalfSize \in Nat /\ HalfSize >= 1 /\ LevelMax \in Nat
  BY HalfSizeFacts, LevelAssumption
<1>1. CASE Ascending
  BY <1>0, <1>1, GetLimitsClosedForm, LimitsClosedForm
     DEF Levels, better_level, level_to_relative
<1>2. CASE ~Ascending
  BY <1>0, <1>2, GetLimitsClosedForm, LimitsClosedForm
     DEF Levels, better_level, level_to_relative
<1> QED
  BY <1>1, <1>2

LEMMA LimitsOfEmptySide ==
    /\ limit_top_prices(tk_empty_quote)[1] = tk_empty_quote
    /\ limit_top_prices(tk_empty_quote)[2] = tk_empty_quote
BY AscendingAssumption DEF limit_top_prices, get_limits

(* A window that starts again past the end of the old one starts at the    *)
(* same or at a better level: the assertion in move_top_to_bottom.         *)
LEMMA WindowMovesForward ==
    ASSUME UsableParameters, TypeOK, EmptySide, InsideInWindow,
           NEW px \in 1..(LevelMax - 1),
           ~better_level(tk_inside_, px), ~better_level(tk_end_top_, px)
    PROVE  ~better_level(tk_begin_top_, limit_top_prices(px)[1])
<1>0. /\ HalfSize \in Nat /\ HalfSize >= 1 /\ LevelMax \in Nat
      /\ tk_begin_top_ \in Levels /\ tk_end_top_ \in Levels
  BY HalfSizeFacts, LevelAssumption DEF TypeOK
<1>1. CASE tk_inside_ = tk_empty_quote
  <2>1. tk_begin_top_ = tk_empty_quote
    BY <1>1 DEF EmptySide
  <2>2. limit_top_prices(px)[1] \in Levels
    BY LimitsAroundLevel
  <2> QED
    BY <1>0, <2>1, <2>2 DEF tk_empty_quote, better_level, Levels
<1>2. CASE tk_inside_ # tk_empty_quote
  <2>1. WindowWidth
    BY <1>2 DEF InsideInWindow
  <2>2. CASE Ascending
    BY <1>0, <2>1, <2>2, GetLimitsClosedForm, LimitsClosedForm
       DEF WindowWidth, Levels, better_level, level_to_relative
  <2>3. CASE ~Ascending
    BY <1>0, <2>1, <2>3, GetLimitsClosedForm, LimitsClosedForm
       DEF WindowWidth, Levels, better_level, level_to_relative
  <2> QED
    BY <2>2, <2>3
<1> QED
  BY <1>1, <1>2
-----------------------------------------------------------------------------
(* The invariant holds initially and every operation keeps it.             *)

LEMMA InitInvariant == Init => IInv
BY AscendingAssumption, LevelAssumption, QtysAssumption
   DEF Init, IInv, TypeOK, WindowOK, EmptySide, InsideInWindow, InsideIsBest,
       BottomBehindWindow, Levels, tk_empty_quote, Results

(* The arguments of an operation that passes the validation.               *)
LEMMA ValidArguments ==
    ASSUME UsableParameters, NEW px \in Prices, NEW qty \in Qtys,
           ValidOperation(px, qty)
    PROVE  /\ px \in 1..(LevelMax - 1) /\ px \in Levels
           /\ qty \in Nat /\ qty > 0
           /\ px # tk_empty_quote
BY PricesAssumption, QtysAssumption, LevelAssumption, AscendingAssumption
   DEF UsableParameters, ValidOperation, Levels, tk_empty_quote

(* A level of the window has a slot of the vector.                         *)
LEMMA SlotInVector ==
    ASSUME UsableParameters, TypeOK, InsideInWindow,
           tk_inside_ # tk_empty_quote,
           NEW tk \in Levels, InTop(tk), better_level(tk_end_top_, tk)
    PROVE  Slot(tk) \in Slots
<1>1. level_to_relative(tk_begin_top_, tk_end_top_) <= MaxSize
  BY HalfSizeFacts, MaxSizeAssumption, LevelAssumption
     DEF TypeOK, Levels, InsideInWindow, WindowWidth, level_to_relative
<1>2. CASE Ascending
  BY <1>1, <1>2, MaxSizeAssumption, LevelAssumption
     DEF TypeOK, InTop, Slot, Slots, Levels, better_level, level_to_relative
<1>3. CASE ~Ascending
  BY <1>1, <1>3, MaxSizeAssumption, LevelAssumption
     DEF TypeOK, InTop, Slot, Slots, Levels, better_level, level_to_relative
<1> QED
  BY <1>2, <1>3

LEMMA InsideSlotInVector ==
    ASSUME UsableParameters, TypeOK, InsideInWindow,
           tk_inside_ # tk_empty_quote
    PROVE  InsideSlot \in Slots
BY SlotInVector DEF TypeOK, InsideInWindow, InsideSlot

LEMMA AddToBottomInvariant ==
    ASSUME UsableParameters, IInv, NEW px \in Prices, NEW qty \in Qtys,
           ValidOperation(px, qty), LevelQty(px) + qty <= MaxLevelQty,
           AddToBottom(px, qty)
    PROVE  IInv'
<1> USE DEF AddToBottom, window
<1>0. /\ px \in 1..(LevelMax - 1) /\ px \in Levels
      /\ qty \in Nat /\ qty > 0 /\ MaxLevelQty \in Nat
  BY ValidArguments, QtysAssumption
<1>1. TypeOK'
  <2>1. bottom_levels_[px] + qty \in 0..MaxLevelQty
    BY <1>0 DEF IInv, TypeOK, LevelQty
  <2> QED
    BY <1>0, <2>1 DEF IInv, TypeOK, Report, Results
<1>2. tk_inside_ # tk_empty_quote
  BY <1>0, LevelAssumption, AscendingAssumption
     DEF IInv, WindowOK, EmptySide, better_level, tk_empty_quote
<1>3. EmptySide' /\ InsideInWindow'
  BY <1>2 DEF IInv, WindowOK, EmptySide, InsideInWindow, WindowWidth, InTop
<1>4. InsideIsBest'
  BY DEF IInv, WindowOK, InsideIsBest, InsideSlot, Slot
<1>5. BottomBehindWindow'
  BY <1>0 DEF IInv, TypeOK, WindowOK, BottomBehindWindow
<1> QED
  BY <1>1, <1>3, <1>4, <1>5 DEF IInv, WindowOK

LEMMA AddAtInsideInvariant ==
    ASSUME UsableParameters, IInv, NEW px \in Prices, NEW qty \in Qtys,
           ValidOperation(px, qty), LevelQty(px) + qty <= MaxLevelQty,
           AddAtInside(px, qty)
    PROVE  IInv'
<1> USE DEF AddAtInside
<1>0. /\ px \in 1..(LevelMax - 1) /\ px \in Levels /\ px # tk_empty_quote
      /\ qty \in Nat /\ qty > 0 /\ MaxLevelQty \in Nat
      /\ LevelMax \in Nat /\ Ascending \in BOOLEAN
  BY ValidArguments, QtysAssumption, LevelAssumption, AscendingAssumption
<1>1. tk_inside_ # tk_empty_quote
  BY <1>0 DEF IInv, WindowOK, EmptySide, better_level, tk_empty_quote
<1>2. Slot(px) \in Slots /\ InsideSlot \in Slots
  BY <1>0, <1>1, SlotInVector, InsideSlotInVector DEF IInv, WindowOK
<1>3. top_levels_[Slot(px)] + qty \in 1..MaxLevelQty
  BY <1>0, <1>2 DEF IInv, TypeOK, LevelQty
<1>4. TypeOK'
  <2>1. top_levels_' \in [Slots -> 0..MaxLevelQty]
    <3>1. top_levels_[Slot(px)] + qty \in 0..MaxLevelQty
      BY <1>0, <1>3
    <3>2. top_levels_ \in [Slots -> 0..MaxLevelQty]
      BY DEF IInv, TypeOK
    <3> QED
      BY <3>1, <3>2, UpdateKeepsType
  <2> QED
    BY <1>0, <2>1 DEF IInv, TypeOK, Report, Results
<1>5. EmptySide'
  BY <1>0 DEF EmptySide, tk_empty_quote
<1>6. InsideInWindow'
  BY <1>0, <1>1
     DEF IInv, WindowOK, InsideInWindow, WindowWidth, InTop
<1>7. InsideIsBest'
  <2>1. InsideSlot <= Slot(px) /\ InsideSlot' = Slot(px)
    BY <1>0, <1>1
       DEF IInv, TypeOK, Levels, InsideSlot, Slot, level_to_relative,
           better_level
  <2>2. relative_to_level(tk_begin_top_, Slot(px)) = px
    BY <1>0 DEF IInv, TypeOK, Levels, relative_to_level, Slot,
                level_to_relative
  <2>3. ASSUME NEW i \in Slots, top_levels_'[i] # 0, i # Slot(px)
        PROVE  top_levels_[i] # 0
    BY <1>2, <2>3 DEF IInv, TypeOK
  <2>4. top_levels_'[Slot(px)] # 0
    BY <1>2, <1>3 DEF IInv, TypeOK
  <2>5. ASSUME NEW i \in Slots, top_levels_'[i] # 0
        PROVE  /\ i <= Slot(px)
               /\ relative_to_level(tk_begin_top_, i) \in 1..(LevelMax - 1)
    <3>1. CASE i = Slot(px)
      BY <3>1, <1>0, <1>2, <2>2 DEF Slots
    <3>2. CASE i # Slot(px)
      BY <3>2, <1>1, <1>2, <2>1, <2>3, <2>5, MaxSizeAssumption
         DEF IInv, WindowOK, InsideIsBest, Slots
    <3> QED
      BY <3>1, <3>2
  <2> QED
    BY <1>1, <2>1, <2>4, <2>5 DEF InsideIsBest
<1>8. BottomBehindWindow'
  BY DEF IInv, WindowOK, BottomBehindWindow
<1> QED
  BY <1>4, <1>5, <1>6, <1>7, <1>8 DEF IInv, WindowOK

LEMMA AddBehindInsideInvariant ==
    ASSUME UsableParameters, IInv, NEW px \in Prices, NEW qty \in Qtys,
           ValidOperation(px, qty), LevelQty(px) + qty <= MaxLevelQty,
           AddBehindInside(px, qty)
    PROVE  IInv'
<1> USE DEF AddBehindInside, window
<1>0. /\ px \in 1..(LevelMax - 1) /\ px \in Levels /\ px # tk_empty_quote
      /\ qty \in Nat /\ qty > 0 /\ MaxLevelQty \in Nat
      /\ LevelMax \in Nat /\ Ascending \in BOOLEAN
  BY ValidArguments, QtysAssumption, LevelAssumption, AscendingAssumption
<1>1. tk_inside_ # tk_empty_quote
  BY <1>0 DEF IInv, WindowOK, EmptySide, better_level, tk_empty_quote, InTop
<1>2. better_level(tk_end_top_, px)
  BY <1>0, <1>1 DEF IInv, WindowOK, TypeOK, Levels, InsideInWindow,
                    better_level
<1>3. Slot(px) \in Slots /\ InsideSlot \in Slots
  BY <1>0, <1>1, <1>2, SlotInVector, InsideSlotInVector DEF IInv, WindowOK
<1>4. top_levels_[Slot(px)] + qty \in 1..MaxLevelQty
  BY <1>0, <1>3 DEF IInv, TypeOK, LevelQty
<1>5. TypeOK'
  <2>1. top_levels_' \in [Slots -> 0..MaxLevelQty]
    <3>1. top_levels_[Slot(px)] + qty \in 0..MaxLevelQty
      BY <1>0, <1>4
    <3>2. top_levels_ \in [Slots -> 0..MaxLevelQty]
      BY DEF IInv, TypeOK
    <3> QED
      BY <3>1, <3>2, UpdateKeepsType
  <2> QED
    BY <1>0, <2>1 DEF IInv, TypeOK, Report, Results
<1>6. EmptySide' /\ InsideInWindow'
  BY <1>1 DEF IInv, WindowOK, EmptySide, InsideInWindow, WindowWidth, InTop
<1>7. InsideIsBest'
  <2>1. Slot(px) < InsideSlot /\ InsideSlot' = InsideSlot
    BY <1>0, <1>1
       DEF IInv, TypeOK, Levels, InsideSlot, Slot, level_to_relative,
           better_level
  <2>2. relative_to_level(tk_begin_top_, Slot(px)) = px
    BY <1>0 DEF IInv, TypeOK, Levels, relative_to_level, Slot,
                level_to_relative
  <2>3. ASSUME NEW i \in Slots, top_levels_'[i] # 0
        PROVE  i = Slot(px) \/ top_levels_[i] # 0
    BY <1>3, <2>3 DEF IInv, TypeOK
  <2>4. top_levels_'[InsideSlot] # 0
    BY <1>1, <1>3, <2>1
       DEF IInv, WindowOK, InsideIsBest, TypeOK, Slots
  <2>5. ASSUME NEW i \in Slots, top_levels_'[i] # 0
        PROVE  /\ i <= InsideSlot
               /\ relative_to_level(tk_begin_top_, i) \in 1..(LevelMax - 1)
    <3>1. CASE i = Slot(px)
      BY <3>1, <1>0, <1>3, <2>1, <2>2 DEF Slots
    <3>2. CASE i # Slot(px)
      BY <3>2, <1>1, <2>3, <2>5 DEF IInv, WindowOK, InsideIsBest
    <3> QED
      BY <3>1, <3>2
  <2> QED
    BY <1>1, <2>1, <2>4, <2>5 DEF InsideIsBest
<1>8. BottomBehindWindow'
  BY DEF IInv, WindowOK, BottomBehindWindow
<1> QED
  BY <1>5, <1>6, <1>7, <1>8 DEF IInv, WindowOK

(* When the side is not empty the new window starts strictly past the old  *)
(* one, so at least one slot is moved out.                                 *)
LEMMA WindowMovesStrictly ==
    ASSUME UsableParameters, TypeOK, InsideInWindow,
           tk_inside_ # tk_empty_quote,
           NEW px \in 1..(LevelMax - 1), ~better_level(tk_end_top_, px)
    PROVE  /\ better_level(limit_top_prices(px)[1], tk_begin_top_)
           /\ better_level(px, tk_inside_)
<1>0. /\ HalfSize \in Nat /\ HalfSize >= 1 /\ LevelMax \in Nat
      /\ tk_begin_top_ \in Levels /\ tk_end_top_ \in Levels
      /\ tk_inside_ \in Levels
      /\ WindowWidth /\ better_level(tk_end_top_, tk_inside_)
  BY HalfSizeFacts, LevelAssumption DEF TypeOK, InsideInWindow
<1>1. CASE Ascending
  BY <1>0, <1>1, GetLimitsClosedForm, LimitsClosedForm
     DEF WindowWidth, Levels, better_level, level_to_relative
<1>2. CASE ~Ascending
  BY <1>0, <1>2, GetLimitsClosedForm, LimitsClosedForm
     DEF WindowWidth, Levels, better_level, level_to_relative
<1> QED
  BY <1>1, <1>2

(* How many slots move_top_to_bottom moves out, and what the first level   *)
(* that stays becomes.                                                     *)
LEMMA MovedOutFacts ==
    ASSUME UsableParameters, TypeOK, InsideInWindow,
           tk_inside_ # tk_empty_quote,
           NEW begin \in Levels, better_level(begin, tk_begin_top_)
    PROVE  /\ MovedOut(begin) \in 1..(InsideSlot + 1)
           /\ ~better_level(begin, tk_inside_) =>
                 /\ MovedOut(begin) = Slot(begin)
                 /\ \A i \in Slots : relative_to_level(begin, i) =
                        relative_to_level(tk_begin_top_, i + MovedOut(begin))
           /\ better_level(begin, tk_inside_) =>
                 MovedOut(begin) = InsideSlot + 1
<1>0. /\ LevelMax \in Nat /\ MaxSize \in Nat
      /\ tk_begin_top_ \in Levels /\ tk_inside_ \in Levels
      /\ InTop(tk_inside_)
  BY LevelAssumption, MaxSizeAssumption DEF TypeOK, InsideInWindow
<1>1. CASE Ascending
  BY <1>0, <1>1 DEF MovedOut, Slot, InsideSlot, Slots, Levels, InTop,
     better_level, level_to_relative, relative_to_level
<1>2. CASE ~Ascending
  BY <1>0, <1>2 DEF MovedOut, Slot, InsideSlot, Slots, Levels, InTop,
     better_level, level_to_relative, relative_to_level
<1> QED
  BY <1>1, <1>2

(* What is left in the vector after the move: quantities of valid levels,  *)
(* all of them worse than the new inside.                                  *)
LEMMA TopAfterMoveFacts ==
    ASSUME UsableParameters, IInv, NEW px \in 1..(LevelMax - 1),
           ~better_level(tk_inside_, px), ~better_level(tk_end_top_, px),
           NEW begin, begin = limit_top_prices(px)[1]
    PROVE  /\ TopAfterMove(begin) \in [Slots -> 0..MaxLevelQty]
           /\ \A i \in Slots : TopAfterMove(begin)[i] # 0 =>
                 /\ relative_to_level(begin, i) \in 1..(LevelMax - 1)
                 /\ i < level_to_relative(begin, px)
<1>0. /\ begin \in Levels /\ ~better_level(begin, px)
      /\ LevelMax \in Nat /\ MaxSize \in Nat /\ MaxSize >= 1
      /\ MaxLevelQty \in Nat
  BY LimitsAroundLevel, LevelAssumption, MaxSizeAssumption, QtysAssumption
<1>1. CASE tk_inside_ = tk_empty_quote
  <2>1. /\ \A i \in Slots : top_levels_[i] = 0
        /\ tk_begin_top_ = tk_empty_quote
    BY <1>1 DEF IInv, WindowOK, EmptySide
  <2>2. InsideSlot = 0
    BY <1>0, <1>1, <2>1, AscendingAssumption
       DEF InsideSlot, Slot, level_to_relative, tk_empty_quote
  <2>3. TopAfterMove(begin) = [i \in Slots |-> 0]
    <3>1. CASE better_level(begin, tk_inside_)
      BY <2>1, <3>1 DEF TopAfterMove
    <3>2. CASE ~better_level(begin, tk_inside_)
      <4>1. MovedOut(begin) = 0
        BY <1>0, <1>1, <2>1, <3>2, AscendingAssumption
           DEF MovedOut, Slot, level_to_relative, tk_empty_quote, Levels,
               better_level
      <4> QED
        BY <2>1, <3>2, <4>1 DEF TopAfterMove
    <3> QED
      BY <3>1, <3>2
  <2> QED
    BY <1>0, <2>3
<1>2. CASE tk_inside_ # tk_empty_quote
  <2> DEFINE n == MovedOut(begin)
  <2>1. /\ better_level(begin, tk_begin_top_)
        /\ better_level(px, tk_inside_)
    BY <1>2, WindowMovesStrictly DEF IInv, WindowOK
  <2>2. /\ n \in 1..(InsideSlot + 1)
        /\ ~better_level(begin, tk_inside_) =>
              /\ n = Slot(begin)
              /\ \A i \in Slots : relative_to_level(begin, i) =
                        relative_to_level(tk_begin_top_, i + n)
        /\ better_level(begin, tk_inside_) => n = InsideSlot + 1
    BY <1>0, <1>2, <2>1, MovedOutFacts DEF IInv, WindowOK
  <2>3. InsideSlot \in Slots
    BY <1>2, InsideSlotInVector DEF IInv, WindowOK
  <2>4. \A i \in Slots : top_levels_[i] # 0 =>
              /\ i <= InsideSlot
              /\ relative_to_level(tk_begin_top_, i) \in 1..(LevelMax - 1)
    BY <1>2 DEF IInv, WindowOK, InsideIsBest
  <2>5. top_levels_ \in [Slots -> 0..MaxLevelQty]
    BY DEF IInv, TypeOK
  <2> HIDE DEF n
  <2>6. CASE better_level(begin, tk_inside_)
    <3>1. TopAfterMove(begin) = [i \in Slots |-> 0]
      <4>1. TopAfterMove(begin) =
              [i \in Slots |-> IF i < n THEN 0 ELSE top_levels_[i]]
        BY <2>6 DEF TopAfterMove, n
      <4>2. ASSUME NEW i \in Slots, ~(i < n)
            PROVE  top_levels_[i] = 0
        BY <4>2, <2>2, <2>3, <2>4, <2>6, <1>0 DEF Slots
      <4> QED
        BY <4>1, <4>2
    <3> QED
      BY <1>0, <3>1
  <2>7. CASE ~better_level(begin, tk_inside_)
    <3>1. TopAfterMove(begin) =
            [i \in Slots |-> IF i > InsideSlot THEN top_levels_[i]
                             ELSE IF n > 0 /\ i + n <= InsideSlot
                             THEN top_levels_[i + n] ELSE 0]
      BY <2>7 DEF TopAfterMove, n
    <3>2. ASSUME NEW i \in Slots
          PROVE  \/ TopAfterMove(begin)[i] = 0
                 \/ /\ i + n \in Slots /\ i + n <= InsideSlot
                    /\ TopAfterMove(begin)[i] = top_levels_[i + n]
      BY <1>0, <2>2, <2>3, <2>4, <3>1 DEF Slots
    <3>3. ASSUME NEW i \in Slots
          PROVE  TopAfterMove(begin)[i] \in 0..MaxLevelQty
      BY <1>0, <2>5, <3>2
    <3>4. ASSUME NEW i \in Slots, TopAfterMove(begin)[i] # 0
          PROVE  relative_to_level(begin, i) \in 1..(LevelMax - 1)
      BY <2>2, <2>4, <2>7, <3>2, <3>4
    <3>5. ASSUME NEW i \in Slots, TopAfterMove(begin)[i] # 0
          PROVE  i < level_to_relative(begin, px)
      <4>1. i + n <= InsideSlot /\ n = Slot(begin)
        BY <2>2, <2>7, <3>2, <3>5
      <4>2. tk_begin_top_ \in Levels /\ tk_inside_ \in Levels
        BY DEF IInv, TypeOK
      <4> QED
        BY <1>0, <2>1, <4>1, <4>2, AscendingAssumption
           DEF InsideSlot, Slot, level_to_relative, Levels, better_level,
               Slots
    <3> QED
      BY <3>1, <3>3, <3>4, <3>5
  <2> QED
    BY <2>6, <2>7
<1> QED
  BY <1>1, <1>2

(* What the map holds after the move: valid levels worse than the window.  *)
LEMMA BottomAfterMoveFacts ==
    ASSUME UsableParameters, IInv, NEW px \in 1..(LevelMax - 1),
           ~better_level(tk_inside_, px), ~better_level(tk_end_top_, px),
           NEW begin, begin = limit_top_prices(px)[1]
    PROVE  /\ BottomAfterMove(begin) \in [Levels -> 0..MaxLevelQty]
           /\ \A tk \in Levels : BottomAfterMove(begin)[tk] # 0 =>
                 better_level(begin, tk) /\ tk \in 1..(LevelMax - 1)
<1>0. /\ begin \in Levels /\ ~better_level(begin, px)
      /\ LevelMax \in Nat /\ MaxSize \in Nat /\ MaxSize >= 1
      /\ MaxLevelQty \in Nat
      /\ tk_begin_top_ \in Levels /\ tk_inside_ \in Levels
  BY LimitsAroundLevel, LevelAssumption, MaxSizeAssumption, QtysAssumption
     DEF IInv, TypeOK
<1>1. CASE tk_inside_ = tk_empty_quote
  <2>1. /\ \A i \in Slots : top_levels_[i] = 0
        /\ \A tk \in Levels : bottom_levels_[tk] = 0
        /\ tk_begin_top_ = tk_empty_quote
    BY <1>1 DEF IInv, WindowOK, EmptySide
  <2>2. MovedOut(begin) \in {0, 1}
    BY <1>0, <1>1, <2>1, AscendingAssumption
       DEF MovedOut, InsideSlot, Slot, level_to_relative, tk_empty_quote,
           Levels, better_level
  <2>3. ASSUME NEW tk \in Levels, InTop(tk), Slot(tk) < MovedOut(begin)
        PROVE  Slot(tk) \in Slots
    BY <1>0, <2>2, <2>3, AscendingAssumption
       DEF InTop, Slot, Slots, level_to_relative, Levels, better_level
  <2>4. BottomAfterMove(begin) = [tk \in Levels |-> 0]
    BY <2>1, <2>3 DEF BottomAfterMove
  <2> QED
    BY <1>0, <2>4
<1>2. CASE tk_inside_ # tk_empty_quote
  <2>1. better_level(begin, tk_begin_top_)
    BY <1>2, WindowMovesStrictly DEF IInv, WindowOK
  <2>2. /\ MovedOut(begin) \in 1..(InsideSlot + 1)
        /\ ~better_level(begin, tk_inside_) => MovedOut(begin) = Slot(begin)
        /\ better_level(begin, tk_inside_) => MovedOut(begin) = InsideSlot + 1
    BY <1>0, <1>2, <2>1, MovedOutFacts DEF IInv, WindowOK
  <2>3. InsideSlot \in Slots
    BY <1>2, InsideSlotInVector DEF IInv, WindowOK
  <2>4. ASSUME NEW tk \in Levels, InTop(tk), Slot(tk) < MovedOut(begin)
        PROVE  Slot(tk) \in Slots /\ better_level(begin, tk)
    BY <1>0, <2>1, <2>2, <2>3, <2>4, AscendingAssumption
       DEF InTop, Slot, InsideSlot, Slots, level_to_relative, Levels,
           better_level
  <2>5. ASSUME NEW tk \in Levels, InTop(tk)
        PROVE  relative_to_level(tk_begin_top_, Slot(tk)) = tk
    BY <1>0 DEF Slot, level_to_relative, relative_to_level, Levels
  <2>6. ASSUME NEW tk \in Levels, bottom_levels_[tk] # 0
        PROVE  better_level(begin, tk) /\ tk \in 1..(LevelMax - 1)
    BY <1>0, <2>1, <2>6
       DEF IInv, WindowOK, BottomBehindWindow, better_level, Levels
  <2>7. ASSUME NEW tk \in Levels
        PROVE  \/ BottomAfterMove(begin)[tk] = bottom_levels_[tk]
               \/ /\ InTop(tk) /\ Slot(tk) < MovedOut(begin)
                  /\ BottomAfterMove(begin)[tk] = top_levels_[Slot(tk)]
    BY DEF BottomAfterMove
  <2>8. ASSUME NEW tk \in Levels
        PROVE  BottomAfterMove(begin)[tk] \in 0..MaxLevelQty
    BY <2>4, <2>7 DEF IInv, TypeOK
  <2>9. ASSUME NEW tk \in Levels, BottomAfterMove(begin)[tk] # 0
        PROVE  better_level(begin, tk) /\ tk \in 1..(LevelMax - 1)
    <3>1. CASE BottomAfterMove(begin)[tk] = bottom_levels_[tk]
      BY <2>6, <2>9, <3>1
    <3>2. CASE /\ InTop(tk) /\ Slot(tk) < MovedOut(begin)
               /\ BottomAfterMove(begin)[tk] = top_levels_[Slot(tk)]
      BY <1>2, <2>4, <2>5, <2>9, <3>2 DEF IInv, WindowOK, InsideIsBest
    <3> QED
      BY <2>7, <3>1, <3>2
  <2> QED
    BY <2>8, <2>9 DEF BottomAfterMove
<1> QED
  BY <1>1, <1>2

LEMMA AddInNewWindowInvariant ==
    ASSUME UsableParameters, IInv, NEW px \in Prices, NEW qty \in Qtys,
           ValidOperation(px, qty), LevelQty(px) + qty <= MaxLevelQty,
           AddInNewWindow(px, qty)
    PROVE  IInv'
<1> DEFINE begin == limit_top_prices(px)[1]
           end == limit_top_prices(px)[2]
           slot == level_to_relative(begin, px)
<1>0. /\ px \in 1..(LevelMax - 1) /\ px \in Levels /\ px # tk_empty_quote
      /\ qty \in Nat /\ qty > 0 /\ MaxLevelQty \in Nat
      /\ LevelMax \in Nat /\ MaxSize \in Nat /\ HalfSize \in Nat
      /\ 2 * HalfSize <= MaxSize /\ Ascending \in BOOLEAN
  BY ValidArguments, QtysAssumption, LevelAssumption, AscendingAssumption,
     MaxSizeAssumption, HalfSizeFacts
<1>1. /\ ~better_level(tk_inside_, px) /\ ~better_level(tk_end_top_, px)
      /\ bottom_levels_' = BottomAfterMove(begin)
      /\ top_levels_' = [TopAfterMove(begin) EXCEPT ![slot] = @ + qty]
      /\ tk_begin_top_' = begin /\ tk_end_top_' = end
      /\ tk_inside_' = px /\ ret' = "inside_changed"
  BY DEF AddInNewWindow, Report
<1>2. /\ begin \in Levels /\ end \in Levels
      /\ ~better_level(begin, px) /\ better_level(end, px)
      /\ \/ level_to_relative(begin, end) = 2 * HalfSize
         \/ /\ level_to_relative(begin, end) <= 2 * HalfSize
            /\ end = IF Ascending THEN LevelMax ELSE 0
  BY <1>0, LimitsAroundLevel
<1>3. /\ TopAfterMove(begin) \in [Slots -> 0..MaxLevelQty]
      /\ \A i \in Slots : TopAfterMove(begin)[i] # 0 =>
            /\ relative_to_level(begin, i) \in 1..(LevelMax - 1)
            /\ i < slot
  BY <1>0, <1>1, TopAfterMoveFacts
<1>4. /\ BottomAfterMove(begin) \in [Levels -> 0..MaxLevelQty]
      /\ \A tk \in Levels : BottomAfterMove(begin)[tk] # 0 =>
            better_level(begin, tk) /\ tk \in 1..(LevelMax - 1)
  BY <1>0, <1>1, BottomAfterMoveFacts
<1>5. slot \in Slots /\ relative_to_level(begin, slot) = px
  BY <1>0, <1>2 DEF Slots, Levels, better_level, level_to_relative,
                    relative_to_level
<1> HIDE DEF begin, end, slot
<1>6. TopAfterMove(begin)[slot] = 0
  BY <1>3, <1>5 DEF Slots
<1>7. qty <= MaxLevelQty
  BY <1>0 DEF IInv, TypeOK, LevelQty, Slots, Slot
<1>8. TypeOK'
  <2>1. top_levels_' \in [Slots -> 0..MaxLevelQty]
    <3>1. TopAfterMove(begin)[slot] + qty \in 0..MaxLevelQty
      BY <1>0, <1>6, <1>7
    <3> QED
      BY <1>1, <1>3, <3>1, UpdateKeepsType
  <2> QED
    BY <1>0, <1>1, <1>2, <1>4, <2>1 DEF TypeOK, Results
<1>9. EmptySide'
  BY <1>0, <1>1 DEF EmptySide, tk_empty_quote
<1>10. InsideInWindow'
  BY <1>0, <1>1, <1>2 DEF InsideInWindow, WindowWidth, InTop
<1>11. InsideIsBest'
  <2>1. InsideSlot' = slot
    BY <1>1 DEF InsideSlot, Slot, slot
  <2>2. top_levels_'[slot] # 0
    BY <1>0, <1>1, <1>3, <1>5, <1>6
  <2>3. ASSUME NEW i \in Slots, top_levels_'[i] # 0
        PROVE  /\ i <= slot
               /\ relative_to_level(begin, i) \in 1..(LevelMax - 1)
    BY <1>0, <1>1, <1>3, <1>5, <2>3 DEF Slots
  <2> QED
    BY <1>1, <2>1, <2>2, <2>3 DEF InsideIsBest
<1>12. BottomBehindWindow'
  BY <1>1, <1>4 DEF BottomBehindWindow
<1> QED
  BY <1>8, <1>9, <1>10, <1>11, <1>12 DEF IInv, WindowOK

(* A reduction leaves less at the level, and never a negative quantity.    *)
LEMMA ReducedFacts ==
    ASSUME NEW max \in Nat, NEW old \in 0..max, NEW qty \in Nat, qty > 0
    PROVE  /\ Reduced(old, qty) \in 0..max
           /\ Reduced(old, qty) # 0 => old # 0 /\ old > qty
           /\ old > qty => Reduced(old, qty) # 0
BY DEF Reduced

LEMMA ReduceBottomInvariant ==
    ASSUME UsableParameters, IInv, NEW px \in Prices, NEW qty \in Qtys,
           ValidOperation(px, qty), ReduceBottom(px, qty)
    PROVE  IInv'
<1> USE DEF ReduceBottom, window
<1>0. /\ px \in 1..(LevelMax - 1) /\ px \in Levels
      /\ qty \in Nat /\ qty > 0 /\ MaxLevelQty \in Nat
  BY ValidArguments, QtysAssumption
<1>1. /\ Reduced(bottom_levels_[px], qty) \in 0..MaxLevelQty
      /\ Reduced(bottom_levels_[px], qty) # 0 => bottom_levels_[px] # 0
  BY <1>0, ReducedFacts DEF IInv, TypeOK
<1>2. TypeOK'
  <2>1. bottom_levels_' \in [Levels -> 0..MaxLevelQty]
    BY <1>1, UpdateKeepsType DEF IInv, TypeOK
  <2> QED
    BY <2>1 DEF IInv, TypeOK, Report, Results
<1>3. tk_inside_ # tk_empty_quote
  BY <1>0 DEF IInv, WindowOK, EmptySide
<1>4. EmptySide' /\ InsideInWindow'
  BY <1>3 DEF IInv, WindowOK, EmptySide, InsideInWindow, WindowWidth, InTop
<1>5. InsideIsBest'
  BY DEF IInv, WindowOK, InsideIsBest, InsideSlot, Slot
<1>6. BottomBehindWindow'
  BY <1>0, <1>1 DEF IInv, TypeOK, WindowOK, BottomBehindWindow
<1> QED
  BY <1>2, <1>4, <1>5, <1>6 DEF IInv, WindowOK

LEMMA ReduceMissingInvariant ==
    ASSUME IInv, NEW px \in Prices, ReduceMissing(px)
    PROVE  IInv'
BY DEF ReduceMissing, window, IInv, TypeOK, WindowOK, EmptySide,
       InsideInWindow, WindowWidth, InTop, InsideIsBest, InsideSlot, Slot,
       BottomBehindWindow, Results

(* What holds when the level to reduce is in the vector.                   *)
LEMMA PresentInTopFacts ==
    ASSUME UsableParameters, IInv, NEW px \in 1..(LevelMax - 1),
           NEW qty \in Nat, qty > 0, PresentInTop(px)
    PROVE  /\ tk_inside_ # tk_empty_quote
           /\ Slot(px) \in Slots /\ InsideSlot \in Slots
           /\ Slot(px) <= InsideSlot
           /\ Slot(px) = InsideSlot <=> px = tk_inside_
           /\ TopReduced(px, qty) \in [Slots -> 0..MaxLevelQty]
           /\ \A i \in Slots : i # Slot(px) =>
                 TopReduced(px, qty)[i] = top_levels_[i]
           /\ TopReduced(px, qty)[Slot(px)] =
                 Reduced(top_levels_[Slot(px)], qty)
<1>0. /\ px \in Levels /\ tk_inside_ \in Levels /\ tk_begin_top_ \in Levels
      /\ tk_end_top_ \in Levels
      /\ LevelMax \in Nat /\ Ascending \in BOOLEAN /\ MaxLevelQty \in Nat
      /\ InTop(px) /\ ~better_level(px, tk_inside_)
  BY LevelAssumption, AscendingAssumption, QtysAssumption
     DEF IInv, TypeOK, PresentInTop, Levels
<1>1. tk_inside_ # tk_empty_quote
  BY <1>0 DEF IInv, WindowOK, EmptySide, tk_empty_quote, better_level, Levels
<1>2. better_level(tk_end_top_, px)
  BY <1>0, <1>1 DEF IInv, WindowOK, InsideInWindow, better_level, Levels
<1>3. Slot(px) \in Slots /\ InsideSlot \in Slots
  BY <1>0, <1>1, <1>2, SlotInVector, InsideSlotInVector DEF IInv, WindowOK
<1>4. Slot(px) <= InsideSlot /\ (Slot(px) = InsideSlot <=> px = tk_inside_)
  BY <1>0 DEF InsideSlot, Slot, level_to_relative, Levels, better_level
<1>5. Reduced(top_levels_[Slot(px)], qty) \in 0..MaxLevelQty
  BY <1>0, <1>3, ReducedFacts DEF IInv, TypeOK
<1>6. TopReduced(px, qty) \in [Slots -> 0..MaxLevelQty]
  BY <1>5, UpdateKeepsType DEF TopReduced, IInv, TypeOK
<1> QED
  BY <1>1, <1>3, <1>4, <1>6 DEF TopReduced, IInv, TypeOK

LEMMA ReduceTopInvariant ==
    ASSUME UsableParameters, IInv, NEW px \in Prices, NEW qty \in Qtys,
           ValidOperation(px, qty), ReduceTop(px, qty)
    PROVE  IInv'
<1> USE DEF ReduceTop, window
<1>0. /\ px \in 1..(LevelMax - 1) /\ qty \in Nat /\ qty > 0
      /\ MaxLevelQty \in Nat
  BY ValidArguments, QtysAssumption
<1>1. /\ tk_inside_ # tk_empty_quote
      /\ Slot(px) \in Slots /\ InsideSlot \in Slots
      /\ Slot(px) = InsideSlot <=> px = tk_inside_
      /\ TopReduced(px, qty) \in [Slots -> 0..MaxLevelQty]
      /\ \A i \in Slots : i # Slot(px) =>
            TopReduced(px, qty)[i] = top_levels_[i]
      /\ TopReduced(px, qty)[Slot(px)] = Reduced(top_levels_[Slot(px)], qty)
  BY <1>0, PresentInTopFacts
<1>2. TypeOK'
  BY <1>1 DEF IInv, TypeOK, Report, Results
<1>3. EmptySide' /\ InsideInWindow'
  BY <1>1 DEF IInv, WindowOK, EmptySide, InsideInWindow, WindowWidth, InTop
<1>4. InsideIsBest'
  <2>1. top_levels_'[InsideSlot] # 0
    <3>1. CASE px = tk_inside_
      <4>1. top_levels_[Slot(px)] > qty
        BY <1>0, <1>1, <3>1 DEF LeavesInside, IInv, TypeOK
      <4> QED
        BY <1>0, <1>1, <3>1, <4>1, ReducedFacts DEF IInv, TypeOK
    <3>2. CASE px # tk_inside_
      BY <1>1, <3>2 DEF IInv, WindowOK, InsideIsBest
    <3> QED
      BY <3>1, <3>2
  <2>2. ASSUME NEW i \in Slots, top_levels_'[i] # 0
        PROVE  top_levels_[i] # 0
    BY <1>1, <2>2 DEF PresentInTop
  <2> QED
    BY <1>1, <2>1, <2>2
       DEF IInv, WindowOK, InsideIsBest, InsideSlot, Slot
<1>5. BottomBehindWindow'
  BY DEF IInv, WindowOK, BottomBehindWindow
<1> QED
  BY <1>2, <1>3, <1>4, <1>5 DEF IInv, WindowOK

LEMMA RemoveInsideInvariant ==
    ASSUME UsableParameters, IInv, NEW px \in Prices, NEW qty \in Qtys,
           ValidOperation(px, qty), RemoveInside(px, qty)
    PROVE  IInv'
<1> USE DEF RemoveInside
<1>0. /\ px \in 1..(LevelMax - 1) /\ qty \in Nat /\ qty > 0
      /\ MaxLevelQty \in Nat /\ LevelMax \in Nat /\ Ascending \in BOOLEAN
      /\ MaxSize \in Nat
  BY ValidArguments, QtysAssumption, LevelAssumption, AscendingAssumption,
     MaxSizeAssumption
<1>1. /\ tk_inside_ # tk_empty_quote /\ px = tk_inside_
      /\ InsideSlot \in Slots /\ Slot(px) = InsideSlot
      /\ TopReduced(px, qty) \in [Slots -> 0..MaxLevelQty]
      /\ \A i \in Slots : i # InsideSlot =>
            TopReduced(px, qty)[i] = top_levels_[i]
      /\ TopReduced(px, qty)[InsideSlot] = 0
  <2>1. px = tk_inside_ /\ top_levels_[Slot(px)] <= qty
    BY DEF LeavesInside
  <2> QED
    BY <1>0, <2>1, PresentInTopFacts DEF Reduced
<1>2. PICK i \in Slots : NextBestSlot(i) /\
                         tk_inside_' = relative_to_level(tk_begin_top_, i)
  OBVIOUS
<1>3. /\ i < InsideSlot /\ top_levels_[i] # 0
      /\ \A j \in Slots : i < j /\ j < InsideSlot => top_levels_[j] = 0
  BY <1>2 DEF NextBestSlot
<1>4. tk_inside_' \in 1..(LevelMax - 1)
  BY <1>1, <1>2, <1>3 DEF IInv, WindowOK, InsideIsBest
<1>5. tk_inside_' # tk_empty_quote
  BY <1>0, <1>4 DEF tk_empty_quote
<1>6. TypeOK'
  <2>1. tk_inside_' \in Levels
    BY <1>0, <1>4 DEF Levels
  <2>2. top_levels_' \in [Slots -> 0..MaxLevelQty]
    BY <1>1
  <2> QED
    BY <2>1, <2>2 DEF IInv, TypeOK, Report, Results
<1>7. EmptySide'
  BY <1>5 DEF EmptySide, tk_empty_quote
<1>8. InsideInWindow'
  <2>1. ~better_level(tk_begin_top_, tk_inside_')
    BY <1>0, <1>2 DEF IInv, TypeOK, Levels, Slots, better_level,
                      relative_to_level
  <2>2. better_level(tk_inside_, tk_inside_')
    BY <1>0, <1>2, <1>3
       DEF IInv, TypeOK, Levels, Slots, better_level, relative_to_level,
           InsideSlot, Slot, level_to_relative
  <2>3. better_level(tk_end_top_, tk_inside_')
    <3>1. better_level(tk_end_top_, tk_inside_)
      BY <1>1 DEF IInv, WindowOK, InsideInWindow
    <3>2. tk_end_top_ \in Int /\ tk_inside_ \in Int /\ tk_inside_' \in Int
      BY <1>0, <1>4 DEF IInv, TypeOK, Levels
    <3> HIDE DEF RemoveInside
    <3> QED
      BY <1>0, <2>2, <3>1, <3>2 DEF better_level
  <2> QED
    BY <1>1, <1>4, <2>1, <2>3
       DEF IInv, WindowOK, InsideInWindow, WindowWidth, InTop
<1>9. InsideIsBest'
  <2>1. InsideSlot' = i
    BY <1>0, <1>2
       DEF InsideSlot, Slot, level_to_relative, relative_to_level, IInv,
           TypeOK, Levels, Slots
  <2>2. top_levels_'[i] # 0
    BY <1>1, <1>3 DEF Slots
  <2>3. ASSUME NEW j \in Slots, top_levels_'[j] # 0
        PROVE  /\ j <= i
               /\ relative_to_level(tk_begin_top_, j) \in 1..(LevelMax - 1)
    <3>1. j # InsideSlot /\ top_levels_[j] # 0
      BY <1>1, <2>3
    <3>2. /\ j <= InsideSlot
          /\ relative_to_level(tk_begin_top_, j) \in 1..(LevelMax - 1)
      BY <1>1, <3>1 DEF IInv, WindowOK, InsideIsBest
    <3>3. j < InsideSlot
      BY <1>0, <1>1, <3>1, <3>2 DEF Slots
    <3> QED
      BY <1>0, <1>3, <3>1, <3>2, <3>3 DEF Slots
  <2> QED
    BY <2>1, <2>2, <2>3 DEF InsideIsBest
<1>10. BottomBehindWindow'
  BY DEF IInv, WindowOK, BottomBehindWindow
<1> QED
  BY <1>6, <1>7, <1>8, <1>9, <1>10 DEF IInv, WindowOK

(* The last level of the vector is removed: the new window is laid out     *)
(* around the best level of the map and takes over all that fits.          *)
LEMMA RefillWindowInvariant ==
    ASSUME UsableParameters, IInv, NEW px \in Prices, NEW qty \in Qtys,
           ValidOperation(px, qty), RefillWindow(px, qty)
    PROVE  IInv'
<1>0. /\ px \in 1..(LevelMax - 1) /\ qty \in Nat /\ qty > 0
      /\ MaxLevelQty \in Nat /\ LevelMax \in Nat /\ Ascending \in BOOLEAN
      /\ MaxSize \in Nat /\ HalfSize \in Nat /\ 2 * HalfSize <= MaxSize
  BY ValidArguments, QtysAssumption, LevelAssumption, AscendingAssumption,
     MaxSizeAssumption, HalfSizeFacts
<1>1. TopReduced(px, qty) = [i \in Slots |-> 0]
  <2>1. /\ px = tk_inside_ /\ top_levels_[Slot(px)] <= qty
        /\ PresentInTop(px)
        /\ \A i \in Slots : i < InsideSlot => top_levels_[i] = 0
    BY DEF RefillWindow, LeavesInside
  <2>2. /\ tk_inside_ # tk_empty_quote
        /\ InsideSlot \in Slots /\ Slot(px) = InsideSlot
        /\ TopReduced(px, qty) \in [Slots -> 0..MaxLevelQty]
        /\ \A i \in Slots : i # InsideSlot =>
              TopReduced(px, qty)[i] = top_levels_[i]
        /\ TopReduced(px, qty)[InsideSlot] = 0
    BY <1>0, <2>1, PresentInTopFacts DEF Reduced
  <2>3. \A i \in Slots : top_levels_[i] # 0 => i <= InsideSlot
    BY <2>2 DEF IInv, WindowOK, InsideIsBest
  <2>4. \A i \in Slots : TopReduced(px, qty)[i] = 0
    BY <1>0, <2>1, <2>2, <2>3 DEF Slots
  <2> QED
    BY <2>2, <2>4
<1>2. PICK tk \in Levels :
         /\ IsBestOfBottom(tk)
         /\ tk_inside_' = tk
         /\ tk_begin_top_' = limit_top_prices(tk)[1]
         /\ tk_end_top_' = limit_top_prices(tk)[2]
         /\ MoveBottomToTop(limit_top_prices(tk)[1], TopReduced(px, qty))
  BY DEF RefillWindow
<1> DEFINE begin == limit_top_prices(tk)[1]
           end == limit_top_prices(tk)[2]
<1> HIDE DEF begin, end
<1>3. /\ tk_begin_top_' = begin /\ tk_end_top_' = end
      /\ ret' = "inside_changed"
      /\ top_levels_' = [i \in Slots |->
              IF /\ relative_to_level(begin, i) \in Levels
                 /\ bottom_levels_[relative_to_level(begin, i)] # 0
              THEN bottom_levels_[relative_to_level(begin, i)] ELSE 0]
      /\ bottom_levels_' = [u \in Levels |->
              IF better_level(begin, u) THEN bottom_levels_[u] ELSE 0]
  BY <1>1, <1>2 DEF MoveBottomToTop, RefillWindow, Report, begin, end
<1>4. bottom_levels_ \in [Levels -> 0..MaxLevelQty]
  BY DEF IInv, TypeOK
<1>5. \A u \in Levels : bottom_levels_[u] # 0 => u \in 1..(LevelMax - 1)
  BY DEF IInv, WindowOK, BottomBehindWindow
<1>6. top_levels_' \in [Slots -> 0..MaxLevelQty]
  BY <1>0, <1>3, <1>4
<1>7. bottom_levels_' \in [Levels -> 0..MaxLevelQty]
  BY <1>0, <1>3, <1>4
<1>8. BottomBehindWindow'
  BY <1>3, <1>5 DEF BottomBehindWindow
<1>9. CASE \A u \in Levels : bottom_levels_[u] = 0
  <2>1. tk = tk_empty_quote
    BY <1>2, <1>9 DEF IsBestOfBottom
  <2>2. begin = tk_empty_quote /\ end = tk_empty_quote
    BY <2>1, LimitsOfEmptySide DEF begin, end
  <2>3. TypeOK'
    BY <1>2, <1>3, <1>6, <1>7, <2>1, <2>2 DEF TypeOK, Results
  <2>4. EmptySide' /\ InsideInWindow' /\ InsideIsBest'
    BY <1>2, <1>3, <1>9, <2>1, <2>2
       DEF EmptySide, InsideInWindow, InsideIsBest, tk_empty_quote
  <2> QED
    BY <1>8, <2>3, <2>4 DEF IInv, WindowOK
<1>10. CASE ~ \A u \in Levels : bottom_levels_[u] = 0
  <2>1. /\ bottom_levels_[tk] # 0
        /\ \A u \in Levels : bottom_levels_[u] # 0 => ~better_level(u, tk)
    BY <1>2, <1>10 DEF IsBestOfBottom
  <2>2. tk \in 1..(LevelMax - 1) /\ tk # tk_empty_quote
    BY <1>0, <1>5, <2>1 DEF tk_empty_quote
  <2>3. /\ begin \in Levels /\ end \in Levels
        /\ ~better_level(begin, tk) /\ better_level(end, tk)
        /\ \/ level_to_relative(begin, end) = 2 * HalfSize
           \/ /\ level_to_relative(begin, end) <= 2 * HalfSize
              /\ end = IF Ascending THEN LevelMax ELSE 0
    BY <2>2, LimitsAroundLevel DEF begin, end
  <2>4. TypeOK'
    BY <1>2, <1>3, <1>6, <1>7, <2>3 DEF TypeOK, Results
  <2>5. EmptySide'
    BY <1>2, <2>2 DEF EmptySide, tk_empty_quote
  <2>6. InsideInWindow'
    BY <1>2, <1>3, <2>2, <2>3 DEF InsideInWindow, WindowWidth, InTop
  <2>7. InsideIsBest'
    <3> DEFINE slot == level_to_relative(begin, tk)
    <3>1. InsideSlot' = slot
      BY <1>2, <1>3 DEF InsideSlot, Slot
    <3>2. slot \in Slots /\ relative_to_level(begin, slot) = tk
      BY <1>0, <2>3
         DEF Slots, Levels, better_level, level_to_relative,
             relative_to_level
    <3>3. top_levels_'[slot] # 0
      BY <1>3, <2>1, <3>2
    <3>4. ASSUME NEW i \in Slots, top_levels_'[i] # 0
          PROVE  /\ i <= slot
                 /\ relative_to_level(begin, i) \in 1..(LevelMax - 1)
      <4>1. /\ relative_to_level(begin, i) \in Levels
            /\ bottom_levels_[relative_to_level(begin, i)] # 0
        BY <1>3, <3>4
      <4>2. ~better_level(relative_to_level(begin, i), tk)
        BY <2>1, <4>1
      <4>3. i <= slot
        BY <1>0, <2>3, <4>1, <4>2
           DEF Slots, Levels, better_level, level_to_relative,
               relative_to_level
      <4> QED
        BY <1>5, <4>1, <4>3
    <3> QED
      BY <1>3, <3>1, <3>3, <3>4 DEF InsideIsBest
  <2> QED
    BY <1>8, <2>4, <2>5, <2>6, <2>7 DEF IInv, WindowOK
<1> QED
  BY <1>9, <1>10

LEMMA NextInvariant ==
    ASSUME UsableParameters, IInv, [Next]_vars
    PROVE  IInv'
<1>1. ASSUME NEW px \in Prices, NEW qty \in Qtys, add_order(px, qty)
      PROVE  IInv'
  BY <1>1, AddToBottomInvariant, AddInNewWindowInvariant,
     AddAtInsideInvariant, AddBehindInsideInvariant DEF add_order
<1>2. ASSUME NEW px \in Prices, NEW qty \in Qtys, reduce_order(px, qty)
      PROVE  IInv'
  BY <1>2, ReduceBottomInvariant, ReduceMissingInvariant,
     ReduceTopInvariant, RemoveInsideInvariant, RefillWindowInvariant
     DEF reduce_order
<1>3. CASE UNCHANGED vars
  BY <1>3 DEF vars, IInv, TypeOK, WindowOK, EmptySide, InsideInWindow,
              WindowWidth, InTop, InsideIsBest, InsideSlot, Slot,
              BottomBehindWindow
<1> QED
  BY <1>1, <1>2, <1>3 DEF Next

(* The inductive invariant of a book side.                                 *)
THEOREM InvariantHolds ==
    ASSUME UsableParameters
    PROVE  Spec => []IInv
<1>1. Init => IInv
  BY InitInvariant
<1>2. IInv /\ [Next]_vars => IInv'
  BY NextInvariant
<1> QED
  BY <1>1, <1>2, PTL DEF Spec

(* Type correctness: quantities stay in range and the inside and the limits*)
(* are levels, whatever the vector size and the orders.                    *)
THEOREM TypeCorrect ==
    ASSUME UsableParameters
    PROVE  Spec => []TypeOK
<1>1. IInv => TypeOK
  BY DEF IInv
<1> QED
  BY <1>1, InvariantHolds, PTL

(* The window invariant: the vector holds the best levels with the inside  *)
(* last, the map only worse ones, and the window fits the vector, so every *)
(* index stays in it.                                                      *)
THEOREM WindowCorrect ==
    ASSUME UsableParameters
    PROVE  Spec => []WindowOK
<1>1. IInv => WindowOK
  BY DEF IInv
<1> QED
  BY <1>1, InvariantHolds, PTL
-----------------------------------------------------------------------------
(***************************************************************************)
(* array_based_book_side implements map_based_book_side: every operation   *)
(* on the vector and the map does to the quantity of each level what the   *)
(* same operation does on a single map, and returns the same value.        *)
(***************************************************************************)

\* The effect of an operation on the quantities, level by level.
QtyAdded(px, qty) ==
    \A tk \in Levels :
        LevelQty(tk)' = IF tk = px THEN LevelQty(tk) + qty ELSE LevelQty(tk)

QtyReduced(px, qty) ==
    \A tk \in Levels :
        LevelQty(tk)' = IF tk = px THEN Reduced(LevelQty(tk), qty)
                                   ELSE LevelQty(tk)

\* No level of the side is better than px.
NoneBetter(px) ==
    \A tk \in Levels : LevelQty(tk) # 0 => ~better_level(tk, px)
-----------------------------------------------------------------------------
(* The quantities of the side.                                             *)

LEMMA LevelQtyType ==
    ASSUME IInv, NEW tk \in Levels
    PROVE  LevelQty(tk) \in Nat
BY QtysAssumption DEF IInv, TypeOK, LevelQty

LEMMA ArrayParameters ==
    /\ LevelMax \in Nat /\ LevelMax >= 2
    /\ MaxSize \in Nat /\ MaxSize >= 1
    /\ Ascending \in BOOLEAN
    /\ MaxLevelQty \in Nat
BY LevelAssumption, MaxSizeAssumption, AscendingAssumption, QtysAssumption

(* A level worse than the window is held by the map only, any other by the *)
(* vector only.                                                            *)
LEMMA WhereTheQtyIs ==
    ASSUME IInv, NEW tk \in Levels
    PROVE  /\ better_level(tk_begin_top_, tk) =>
                 Slot(tk) \notin Slots /\ LevelQty(tk) = bottom_levels_[tk]
           /\ InTop(tk) =>
                 /\ bottom_levels_[tk] = 0
                 /\ LevelQty(tk) = IF Slot(tk) \in Slots
                                   THEN top_levels_[Slot(tk)] ELSE 0
<1>1. /\ tk_begin_top_ \in Levels
      /\ bottom_levels_[tk] \in Nat
      /\ Slot(tk) \in Slots => top_levels_[Slot(tk)] \in Nat
      /\ bottom_levels_[tk] # 0 => better_level(tk_begin_top_, tk)
  BY ArrayParameters DEF IInv, TypeOK, WindowOK, BottomBehindWindow
<1>2. better_level(tk_begin_top_, tk) => Slot(tk) \notin Slots
  BY <1>1, ArrayParameters
     DEF better_level, Slot, Slots, level_to_relative, Levels
<1> QED
  BY <1>1, <1>2 DEF LevelQty, InTop

(* Different levels have different slots.                                  *)
LEMMA SlotsAreDistinct ==
    ASSUME IInv, NEW t \in Levels, NEW u \in Levels, Slot(t) = Slot(u)
    PROVE  t = u
BY ArrayParameters DEF IInv, TypeOK, Slot, level_to_relative, Levels

(* The inside of a side that is not empty has a quantity, and no level is  *)
(* better.                                                                 *)
LEMMA InsideIsBestLevel ==
    ASSUME UsableParameters, IInv, tk_inside_ # tk_empty_quote
    PROVE  LevelQty(tk_inside_) # 0 /\ NoneBetter(tk_inside_)
<1>1. /\ tk_inside_ \in Levels /\ tk_begin_top_ \in Levels
      /\ InTop(tk_inside_) /\ InsideSlot \in Slots
      /\ top_levels_[InsideSlot] # 0
      /\ \A i \in Slots : top_levels_[i] # 0 => i <= InsideSlot
  BY InsideSlotInVector
     DEF IInv, TypeOK, WindowOK, InsideInWindow, InsideIsBest
<1>2. LevelQty(tk_inside_) # 0
  BY <1>1, WhereTheQtyIs DEF InsideSlot
<1>3. ASSUME NEW tk \in Levels, LevelQty(tk) # 0
      PROVE  ~better_level(tk, tk_inside_)
  <2>1. CASE better_level(tk_begin_top_, tk)
    BY <1>1, <2>1, ArrayParameters DEF better_level, InTop, Levels
  <2>2. CASE InTop(tk)
    <3>1. Slot(tk) \in Slots /\ Slot(tk) <= InsideSlot
      BY <1>1, <1>3, <2>2, WhereTheQtyIs
    <3> QED
      BY <1>1, <3>1, ArrayParameters
         DEF Slot, InsideSlot, level_to_relative, better_level, Levels
  <2> QED
    BY <2>1, <2>2 DEF InTop
<1> QED
  BY <1>2, <1>3 DEF NoneBetter

LEMMA EmptySideHasNoQty ==
    ASSUME IInv, tk_inside_ = tk_empty_quote, NEW tk \in Levels
    PROVE  LevelQty(tk) = 0
BY DEF IInv, WindowOK, EmptySide, LevelQty

(* "returns true if the inside changed": no level is better than px just   *)
(* when the inside is not.                                                 *)
LEMMA NoneBetterThanInside ==
    ASSUME UsableParameters, IInv, NEW px \in 1..(LevelMax - 1)
    PROVE  NoneBetter(px) <=> ~better_level(tk_inside_, px)
<1>1. CASE tk_inside_ = tk_empty_quote
  BY <1>1, EmptySideHasNoQty, ArrayParameters
     DEF NoneBetter, better_level, tk_empty_quote
<1>2. CASE tk_inside_ # tk_empty_quote
  <2>1. tk_inside_ \in Levels
    BY DEF IInv, TypeOK
  <2>2. LevelQty(tk_inside_) # 0 /\ NoneBetter(tk_inside_)
    BY <1>2, InsideIsBestLevel
  <2> QED
    BY <2>1, <2>2, ArrayParameters DEF NoneBetter, better_level, Levels
<1> QED
  BY <1>1, <1>2
-----------------------------------------------------------------------------
(* What each operation does to the quantities.                             *)

LEMMA AddToBottomEffect ==
    ASSUME UsableParameters, IInv, NEW px \in Prices, NEW qty \in Qtys,
           ValidOperation(px, qty), AddToBottom(px, qty)
    PROVE  QtyAdded(px, qty) /\ ret' = Report(NoneBetter(px))
<1> USE DEF AddToBottom, window
<1>0. px \in 1..(LevelMax - 1) /\ px \in Levels /\ qty \in Nat
  BY ValidArguments
<1>1. ASSUME NEW tk \in Levels
      PROVE  LevelQty(tk)' = IF tk = px THEN LevelQty(tk) + qty
                                        ELSE LevelQty(tk)
  BY <1>0 DEF IInv, TypeOK, LevelQty, Slot
<1>2. better_level(tk_inside_, px)
  <2>1. tk_inside_ # tk_empty_quote
    BY <1>0, ArrayParameters
       DEF IInv, WindowOK, EmptySide, better_level, tk_empty_quote
  <2> QED
    BY <1>0, <2>1, ArrayParameters
       DEF IInv, TypeOK, WindowOK, InsideInWindow, InTop, better_level, Levels
<1>3. ~NoneBetter(px)
  BY <1>0, <1>2, NoneBetterThanInside
<1> QED
  BY <1>1, <1>3 DEF QtyAdded, Report

(* Adding to a slot of the vector adds to the level of that slot.          *)
LEMMA AddToSlotEffect ==
    ASSUME IInv, NEW px \in Levels, NEW qty \in Nat, Slot(px) \in Slots,
           top_levels_' = [top_levels_ EXCEPT ![Slot(px)] = @ + qty],
           UNCHANGED <<bottom_levels_, tk_begin_top_>>
    PROVE  QtyAdded(px, qty)
<1>1. ASSUME NEW tk \in Levels
      PROVE  LevelQty(tk)' = IF tk = px THEN LevelQty(tk) + qty
                                        ELSE LevelQty(tk)
  <2>1. Slot(tk)' = Slot(tk)
    BY DEF Slot
  <2>2. CASE tk = px
    BY <2>1, <2>2 DEF IInv, TypeOK, LevelQty
  <2>3. CASE tk # px
    <3>1. Slot(tk) # Slot(px)
      BY <2>3, SlotsAreDistinct
    <3> QED
      BY <2>1, <2>3, <3>1 DEF IInv, TypeOK, LevelQty
  <2> QED
    BY <2>2, <2>3
<1> QED
  BY <1>1 DEF QtyAdded

LEMMA AddAtInsideEffect ==
    ASSUME UsableParameters, IInv, NEW px \in Prices, NEW qty \in Qtys,
           ValidOperation(px, qty), AddAtInside(px, qty)
    PROVE  QtyAdded(px, qty) /\ ret' = Report(NoneBetter(px))
<1> USE DEF AddAtInside
<1>0. px \in 1..(LevelMax - 1) /\ px \in Levels /\ qty \in Nat
  BY ValidArguments
<1>1. tk_inside_ # tk_empty_quote
  BY <1>0, ArrayParameters
     DEF IInv, WindowOK, EmptySide, better_level, tk_empty_quote
<1>2. Slot(px) \in Slots
  BY <1>0, <1>1, SlotInVector DEF IInv, WindowOK
<1>3. NoneBetter(px)
  BY <1>0, NoneBetterThanInside
<1> QED
  BY <1>0, <1>2, <1>3, AddToSlotEffect DEF Report

LEMMA AddBehindInsideEffect ==
    ASSUME UsableParameters, IInv, NEW px \in Prices, NEW qty \in Qtys,
           ValidOperation(px, qty), AddBehindInside(px, qty)
    PROVE  QtyAdded(px, qty) /\ ret' = Report(NoneBetter(px))
<1> USE DEF AddBehindInside, window
<1>0. px \in 1..(LevelMax - 1) /\ px \in Levels /\ qty \in Nat
  BY ValidArguments
<1>1. tk_inside_ # tk_empty_quote
  BY <1>0, ArrayParameters
     DEF IInv, WindowOK, EmptySide, better_level, tk_empty_quote, InTop
<1>2. better_level(tk_end_top_, px)
  BY <1>0, <1>1, ArrayParameters
     DEF IInv, WindowOK, TypeOK, Levels, InsideInWindow, better_level
<1>3. Slot(px) \in Slots
  BY <1>0, <1>1, <1>2, SlotInVector DEF IInv, WindowOK
<1>4. ~NoneBetter(px)
  BY <1>0, NoneBetterThanInside
<1> QED
  BY <1>0, <1>3, <1>4, AddToSlotEffect DEF Report

\* The quantity of a level once move_top_to_bottom has run and the window
\* starts at begin.
QtyAfterMove(begin, tk) ==
    BottomAfterMove(begin)[tk] +
        IF level_to_relative(begin, tk) \in Slots
        THEN TopAfterMove(begin)[level_to_relative(begin, tk)] ELSE 0

(* Moving the window of an empty side leaves it empty.                     *)
LEMMA MoveOfEmptySide ==
    ASSUME UsableParameters, IInv, tk_inside_ = tk_empty_quote,
           NEW begin \in Levels, NEW tk \in Levels
    PROVE  QtyAfterMove(begin, tk) = 0
<1>1. /\ \A i \in Slots : top_levels_[i] = 0
      /\ \A t \in Levels : bottom_levels_[t] = 0
      /\ tk_begin_top_ = tk_empty_quote
  BY DEF IInv, WindowOK, EmptySide
<1>2. /\ InsideSlot = 0
      /\ better_level(begin, tk_inside_) => MovedOut(begin) = 1
      /\ ~better_level(begin, tk_inside_) => MovedOut(begin) = 0
  BY <1>1, ArrayParameters
     DEF MovedOut, InsideSlot, Slot, level_to_relative, tk_empty_quote,
         Levels, better_level
<1>3. \A i \in Slots : TopAfterMove(begin)[i] = 0
  BY <1>1, <1>2 DEF TopAfterMove
<1>4. BottomAfterMove(begin)[tk] = 0
  <2>1. InTop(tk) /\ Slot(tk) < MovedOut(begin) => Slot(tk) \in Slots
    BY <1>1, <1>2, ArrayParameters
       DEF InTop, Slot, Slots, level_to_relative, Levels, better_level,
           tk_empty_quote
  <2> QED
    BY <1>1, <2>1 DEF BottomAfterMove
<1> QED
  BY <1>3, <1>4 DEF QtyAfterMove

(* Moving the window keeps the quantity of every level.                    *)
LEMMA MoveKeepsQty ==
    ASSUME UsableParameters, IInv, tk_inside_ # tk_empty_quote,
           NEW begin \in Levels, better_level(begin, tk_begin_top_),
           NEW tk \in Levels
    PROVE  QtyAfterMove(begin, tk) = LevelQty(tk)
<1> DEFINE n == MovedOut(begin)
           s == Slot(tk)
           r == level_to_relative(begin, tk)
<1>0. /\ tk_begin_top_ \in Levels /\ tk_inside_ \in Levels
      /\ InsideSlot \in Slots
      /\ \A i \in Slots : i > InsideSlot => top_levels_[i] = 0
      /\ \A i \in Slots : top_levels_[i] \in Nat
      /\ bottom_levels_[tk] \in Nat
  BY InsideSlotInVector, ArrayParameters
     DEF IInv, TypeOK, WindowOK, InsideIsBest, Slots
<1>1. /\ n \in 1..(InsideSlot + 1)
      /\ ~better_level(begin, tk_inside_) => n = Slot(begin)
      /\ better_level(begin, tk_inside_) => n = InsideSlot + 1
  BY MovedOutFacts, <1>0 DEF IInv, WindowOK
<1>2. /\ s \in Int /\ r \in Int /\ r = s - Slot(begin)
      /\ InTop(tk) <=> s >= 0
      /\ InsideSlot \in Nat /\ n \in Nat /\ n > 0
  BY <1>0, <1>1, ArrayParameters
     DEF Slot, Slots, level_to_relative, InTop, better_level, Levels
<1>3. BottomAfterMove(begin)[tk] =
        IF s >= 0 /\ s < n /\ bottom_levels_[tk] = 0
        THEN top_levels_[s] ELSE bottom_levels_[tk]
  BY <1>2 DEF BottomAfterMove
<1>4. LevelQty(tk) = IF s < 0 THEN bottom_levels_[tk]
                     ELSE IF s \in Slots THEN top_levels_[s] ELSE 0
  BY <1>2, WhereTheQtyIs DEF InTop
<1>5. s >= 0 => bottom_levels_[tk] = 0
  BY <1>2, WhereTheQtyIs
<1> HIDE DEF n, s, r
<1>6. CASE better_level(begin, tk_inside_)
  <2>1. n = InsideSlot + 1
    BY <1>1, <1>6
  <2>2. \A i \in Slots : TopAfterMove(begin)[i] = 0
    <3>1. TopAfterMove(begin) =
            [i \in Slots |-> IF i < n THEN 0 ELSE top_levels_[i]]
      BY <1>6 DEF TopAfterMove, n
    <3> QED
      BY <1>0, <1>2, <2>1, <3>1, ArrayParameters DEF Slots
  <2>3. QtyAfterMove(begin, tk) = BottomAfterMove(begin)[tk]
    BY <1>0, <1>2, <1>3, <2>1, <2>2, ArrayParameters
       DEF QtyAfterMove, r, Slots
  <2>4. BottomAfterMove(begin)[tk] = LevelQty(tk)
    BY <1>0, <1>2, <1>3, <1>4, <1>5, <2>1, ArrayParameters DEF Slots
  <2> QED
    BY <2>3, <2>4
<1>7. CASE ~better_level(begin, tk_inside_)
  <2>1. r = s - n
    BY <1>1, <1>2, <1>7
  <2>2. \A i \in Slots : TopAfterMove(begin)[i] =
            IF i > InsideSlot THEN top_levels_[i]
            ELSE IF n > 0 /\ i + n <= InsideSlot
            THEN top_levels_[i + n] ELSE 0
    BY <1>7 DEF TopAfterMove, n
  <2>3. CASE s < n
    <3>1. r \notin Slots
      BY <1>2, <2>1, <2>3, ArrayParameters DEF Slots
    <3>2. QtyAfterMove(begin, tk) = BottomAfterMove(begin)[tk]
      BY <1>0, <1>2, <1>3, <2>3, <3>1, <1>1, ArrayParameters
         DEF QtyAfterMove, r, Slots
    <3>3. BottomAfterMove(begin)[tk] = LevelQty(tk)
      BY <1>0, <1>1, <1>2, <1>3, <1>4, <1>5, <2>3, ArrayParameters DEF Slots
    <3> QED
      BY <3>2, <3>3
  <2>4. CASE s >= n
    <3>1. BottomAfterMove(begin)[tk] = 0
      BY <1>2, <1>3, <1>5, <2>4
    <3>2. r \in Slots => TopAfterMove(begin)[r] = LevelQty(tk)
      BY <1>0, <1>2, <1>4, <2>1, <2>2, <2>4, ArrayParameters DEF Slots
    <3>3. r \notin Slots => LevelQty(tk) = 0
      BY <1>0, <1>2, <1>4, <2>1, <2>4, ArrayParameters DEF Slots
    <3>4. LevelQty(tk) \in Nat
      BY LevelQtyType
    <3> QED
      BY <3>1, <3>2, <3>3, <3>4 DEF QtyAfterMove, r
  <2> QED
    BY <1>2, <2>3, <2>4
<1> QED
  BY <1>6, <1>7

LEMMA AddInNewWindowEffect ==
    ASSUME UsableParameters, IInv, NEW px \in Prices, NEW qty \in Qtys,
           ValidOperation(px, qty), AddInNewWindow(px, qty)
    PROVE  QtyAdded(px, qty) /\ ret' = Report(NoneBetter(px))
<1> DEFINE begin == limit_top_prices(px)[1]
           slot == level_to_relative(begin, px)
<1>0. /\ px \in 1..(LevelMax - 1) /\ px \in Levels /\ qty \in Nat
      /\ begin \in Levels /\ ~better_level(begin, px)
  BY ValidArguments, LimitsAroundLevel
<1>1. /\ ~better_level(tk_inside_, px) /\ ~better_level(tk_end_top_, px)
      /\ bottom_levels_' = BottomAfterMove(begin)
      /\ top_levels_' = [TopAfterMove(begin) EXCEPT ![slot] = @ + qty]
      /\ tk_begin_top_' = begin /\ ret' = Report(TRUE)
  BY DEF AddInNewWindow
<1>2. /\ TopAfterMove(begin) \in [Slots -> 0..MaxLevelQty]
      /\ BottomAfterMove(begin) \in [Levels -> 0..MaxLevelQty]
  BY <1>0, <1>1, TopAfterMoveFacts, BottomAfterMoveFacts
<1>3. slot \in Slots
  <2>1. /\ HalfSize \in Nat /\ 2 * HalfSize <= MaxSize
        /\ better_level(limit_top_prices(px)[2], px)
        /\ limit_top_prices(px)[2] \in Levels
        /\ level_to_relative(begin, limit_top_prices(px)[2]) <= 2 * HalfSize
    BY <1>0, HalfSizeFacts, LimitsAroundLevel
  <2> QED
    BY <1>0, <2>1, ArrayParameters
       DEF Slots, Levels, better_level, level_to_relative
<1>4. ASSUME NEW tk \in Levels
      PROVE  QtyAfterMove(begin, tk) = LevelQty(tk)
  <2>1. CASE tk_inside_ = tk_empty_quote
    BY <1>0, <2>1, MoveOfEmptySide, EmptySideHasNoQty
  <2>2. CASE tk_inside_ # tk_empty_quote
    <3>1. better_level(begin, tk_begin_top_)
      BY <1>0, <1>1, <2>2, WindowMovesStrictly DEF IInv, WindowOK
    <3> QED
      BY <1>0, <2>2, <3>1, MoveKeepsQty
  <2> QED
    BY <2>1, <2>2
<1>5. ASSUME NEW tk \in Levels
      PROVE  LevelQty(tk)' = IF tk = px THEN LevelQty(tk) + qty
                                        ELSE LevelQty(tk)
  <2>1. Slot(tk)' = level_to_relative(begin, tk)
    BY <1>1 DEF Slot
  <2>2. level_to_relative(begin, tk) = slot <=> tk = px
    BY <1>0, ArrayParameters DEF level_to_relative, Levels
  <2> HIDE DEF begin, slot
  <2>3. LevelQty(tk)' =
           bottom_levels_'[tk] +
              IF level_to_relative(begin, tk) \in Slots
              THEN top_levels_'[level_to_relative(begin, tk)] ELSE 0
    BY <2>1 DEF LevelQty
  <2>4. CASE tk = px
    BY <1>0, <1>1, <1>2, <1>3, <1>4, <2>2, <2>3, <2>4, ArrayParameters
       DEF QtyAfterMove
  <2>5. CASE tk # px
    BY <1>1, <1>2, <1>4, <2>2, <2>3, <2>5 DEF QtyAfterMove
  <2> QED
    BY <2>4, <2>5
<1>6. NoneBetter(px)
  BY <1>0, <1>1, NoneBetterThanInside
<1> QED
  BY <1>1, <1>5, <1>6 DEF QtyAdded

LEMMA ReduceBottomEffect ==
    ASSUME UsableParameters, IInv, NEW px \in Prices, NEW qty \in Qtys,
           ValidOperation(px, qty), ReduceBottom(px, qty)
    PROVE  /\ LevelQty(px) # 0 /\ QtyReduced(px, qty)
           /\ ret' = Report(NoneBetter(px))
<1> USE DEF ReduceBottom, window
<1>0. /\ px \in 1..(LevelMax - 1) /\ px \in Levels /\ qty \in Nat /\ qty > 0
  BY ValidArguments
<1>1. LevelQty(px) = bottom_levels_[px] /\ Slot(px) \notin Slots
  BY <1>0, WhereTheQtyIs
<1>2. Reduced(bottom_levels_[px], qty) \in Nat
  BY <1>0, ReducedFacts, ArrayParameters DEF IInv, TypeOK
<1>3. ASSUME NEW tk \in Levels
      PROVE  LevelQty(tk)' = IF tk = px THEN Reduced(LevelQty(tk), qty)
                                        ELSE LevelQty(tk)
  <2>1. Slot(tk)' = Slot(tk)
    BY DEF Slot
  <2>2. CASE tk = px
    BY <1>0, <1>1, <1>2, <2>1, <2>2 DEF IInv, TypeOK, LevelQty
  <2>3. CASE tk # px
    BY <1>0, <2>1, <2>3 DEF IInv, TypeOK, LevelQty
  <2> QED
    BY <2>2, <2>3
<1>4. better_level(tk_inside_, px)
  <2>1. tk_inside_ # tk_empty_quote
    BY <1>0 DEF IInv, WindowOK, EmptySide
  <2> QED
    BY <1>0, <2>1, ArrayParameters
       DEF IInv, TypeOK, WindowOK, InsideInWindow, InTop, better_level, Levels
<1>5. ret' = Report(NoneBetter(px))
  BY <1>0, <1>4, NoneBetterThanInside DEF Report
<1>6. LevelQty(px) # 0
  BY <1>1
<1> QED
  BY <1>3, <1>5, <1>6 DEF QtyReduced

LEMMA ReduceMissingEffect ==
    ASSUME UsableParameters, IInv, NEW px \in Prices, NEW qty \in Qtys,
           ValidOperation(px, qty), ReduceMissing(px)
    PROVE  /\ LevelQty(px) = 0 /\ ret' = "feed_error"
           /\ \A tk \in Levels : LevelQty(tk)' = LevelQty(tk)
<1> USE DEF ReduceMissing, window
<1>0. px \in 1..(LevelMax - 1) /\ px \in Levels
  BY ValidArguments
<1>1. LevelQty(px) = 0
  <2>1. CASE better_level(tk_begin_top_, px) /\ bottom_levels_[px] = 0
    BY <1>0, <2>1, WhereTheQtyIs
  <2>2. CASE InTop(px) /\ better_level(px, tk_inside_)
    <3>1. CASE tk_inside_ = tk_empty_quote
      BY <1>0, <3>1, EmptySideHasNoQty
    <3>2. CASE tk_inside_ # tk_empty_quote
      BY <1>0, <2>2, <3>2, InsideIsBestLevel DEF NoneBetter
    <3> QED
      BY <3>1, <3>2
  <2>3. CASE /\ InTop(px) /\ ~better_level(px, tk_inside_)
             /\ top_levels_[Slot(px)] = 0
    BY <1>0, <2>3, WhereTheQtyIs
  <2> QED
    BY <2>1, <2>2, <2>3
<1> QED
  BY <1>1 DEF LevelQty, Slot

(* Reducing a slot of the vector reduces the level of that slot.           *)
LEMMA ReduceSlotEffect ==
    ASSUME UsableParameters, IInv, NEW px \in Prices, NEW qty \in Qtys,
           ValidOperation(px, qty), PresentInTop(px),
           top_levels_' = TopReduced(px, qty),
           UNCHANGED <<bottom_levels_, tk_begin_top_>>
    PROVE  LevelQty(px) # 0 /\ QtyReduced(px, qty)
<1>0. /\ px \in 1..(LevelMax - 1) /\ px \in Levels /\ qty \in Nat /\ qty > 0
      /\ InTop(px) /\ top_levels_[Slot(px)] # 0
  BY ValidArguments DEF PresentInTop
<1>1. /\ Slot(px) \in Slots
      /\ \A i \in Slots : i # Slot(px) =>
            TopReduced(px, qty)[i] = top_levels_[i]
      /\ TopReduced(px, qty)[Slot(px)] = Reduced(top_levels_[Slot(px)], qty)
  BY <1>0, PresentInTopFacts
<1>2. LevelQty(px) = top_levels_[Slot(px)] /\ bottom_levels_[px] = 0
  BY <1>0, <1>1, WhereTheQtyIs
<1>3. Reduced(top_levels_[Slot(px)], qty) \in Nat
  BY <1>0, <1>1, ReducedFacts, ArrayParameters DEF IInv, TypeOK
<1>4. ASSUME NEW tk \in Levels
      PROVE  LevelQty(tk)' = IF tk = px THEN Reduced(LevelQty(tk), qty)
                                        ELSE LevelQty(tk)
  <2>1. Slot(tk)' = Slot(tk)
    BY DEF Slot
  <2>2. CASE tk = px
    BY <1>1, <1>2, <1>3, <2>1, <2>2 DEF LevelQty
  <2>3. CASE tk # px
    <3>1. Slot(tk) # Slot(px)
      BY <1>0, <2>3, SlotsAreDistinct
    <3> QED
      BY <1>1, <2>1, <2>3, <3>1 DEF LevelQty
  <2> QED
    BY <2>2, <2>3
<1> QED
  BY <1>0, <1>2, <1>4 DEF QtyReduced

LEMMA ReduceTopEffect ==
    ASSUME UsableParameters, IInv, NEW px \in Prices, NEW qty \in Qtys,
           ValidOperation(px, qty), ReduceTop(px, qty)
    PROVE  /\ LevelQty(px) # 0 /\ QtyReduced(px, qty)
           /\ ret' = Report(NoneBetter(px))
<1>0. px \in 1..(LevelMax - 1) /\ px \in Levels
  BY ValidArguments
<1>1. /\ PresentInTop(px) /\ ret' = Report(px = tk_inside_)
      /\ top_levels_' = TopReduced(px, qty)
      /\ UNCHANGED <<bottom_levels_, tk_begin_top_>>
  BY DEF ReduceTop, window
<1>2. px = tk_inside_ <=> NoneBetter(px)
  <2>1. px = tk_inside_ <=> ~better_level(tk_inside_, px)
    BY <1>0, <1>1, ArrayParameters
       DEF PresentInTop, IInv, TypeOK, better_level, Levels
  <2> QED
    BY <1>0, <2>1, NoneBetterThanInside
<1>3. ret' = Report(NoneBetter(px))
  BY <1>1, <1>2 DEF Report
<1> QED
  BY <1>1, <1>3, ReduceSlotEffect

LEMMA RemoveInsideEffect ==
    ASSUME UsableParameters, IInv, NEW px \in Prices, NEW qty \in Qtys,
           ValidOperation(px, qty), RemoveInside(px, qty)
    PROVE  /\ LevelQty(px) # 0 /\ QtyReduced(px, qty)
           /\ ret' = Report(NoneBetter(px))
<1>0. px \in 1..(LevelMax - 1) /\ px \in Levels
  BY ValidArguments
<1>1. /\ PresentInTop(px) /\ ret' = Report(TRUE)
      /\ px = tk_inside_
      /\ top_levels_' = TopReduced(px, qty)
      /\ UNCHANGED <<bottom_levels_, tk_begin_top_>>
  BY DEF RemoveInside, LeavesInside
<1>2. NoneBetter(px)
  BY <1>0, <1>1, NoneBetterThanInside DEF PresentInTop
<1>3. ret' = Report(NoneBetter(px))
  BY <1>1, <1>2 DEF Report
<1> QED
  BY <1>1, <1>3, ReduceSlotEffect

LEMMA RefillWindowEffect ==
    ASSUME UsableParameters, IInv, NEW px \in Prices, NEW qty \in Qtys,
           ValidOperation(px, qty), RefillWindow(px, qty)
    PROVE  /\ LevelQty(px) # 0 /\ QtyReduced(px, qty)
           /\ ret' = Report(NoneBetter(px))
<1>0. /\ px \in 1..(LevelMax - 1) /\ px \in Levels /\ qty \in Nat /\ qty > 0
  BY ValidArguments
<1>1. /\ PresentInTop(px) /\ InTop(px) /\ top_levels_[Slot(px)] # 0
      /\ px = tk_inside_ /\ top_levels_[InsideSlot] <= qty
      /\ Slot(px) = InsideSlot
      /\ \A i \in Slots : i < InsideSlot => top_levels_[i] = 0
      /\ ret' = Report(TRUE)
  BY DEF RefillWindow, LeavesInside, PresentInTop, InsideSlot
<1>2. /\ InsideSlot \in Slots
      /\ TopReduced(px, qty) \in [Slots -> 0..MaxLevelQty]
      /\ \A i \in Slots : i # InsideSlot =>
            TopReduced(px, qty)[i] = top_levels_[i]
      /\ TopReduced(px, qty)[InsideSlot] = 0
      /\ tk_inside_ # tk_empty_quote
  BY <1>0, <1>1, PresentInTopFacts DEF Reduced
<1>3. \A i \in Slots : top_levels_[i] # 0 => i = InsideSlot
  BY <1>1, <1>2, ArrayParameters DEF IInv, WindowOK, InsideIsBest, Slots
<1>4. \A i \in Slots : TopReduced(px, qty)[i] = 0
  BY <1>2, <1>3
<1>5. LevelQty(px) = top_levels_[InsideSlot] /\ bottom_levels_[px] = 0
  BY <1>0, <1>1, <1>2, WhereTheQtyIs
<1>6. ASSUME NEW tk \in Levels, tk # px
      PROVE  LevelQty(tk) = bottom_levels_[tk]
  <2>1. Slot(tk) # InsideSlot
    BY <1>0, <1>1, <1>6, SlotsAreDistinct
  <2>2. CASE better_level(tk_begin_top_, tk)
    BY <2>2, WhereTheQtyIs
  <2>3. CASE InTop(tk)
    BY <1>3, <2>1, <2>3, WhereTheQtyIs
  <2> QED
    BY <2>2, <2>3 DEF InTop
<1>7. PICK inside \in Levels :
         /\ IsBestOfBottom(inside)
         /\ tk_begin_top_' = limit_top_prices(inside)[1]
         /\ MoveBottomToTop(limit_top_prices(inside)[1], TopReduced(px, qty))
  BY DEF RefillWindow
<1> DEFINE begin == limit_top_prices(inside)[1]
<1>8. /\ begin \in Levels
      /\ \A u \in Levels : bottom_levels_[u] # 0 /\ ~better_level(begin, u) =>
            level_to_relative(begin, u) \in Slots
  <2>1. CASE \A u \in Levels : bottom_levels_[u] = 0
    <3>1. inside = tk_empty_quote
      BY <1>7, <2>1 DEF IsBestOfBottom
    <3>2. begin = tk_empty_quote
      BY <3>1, LimitsOfEmptySide
    <3> QED
      BY <2>1, <3>2, ArrayParameters DEF tk_empty_quote, Levels
  <2>2. CASE ~ \A u \in Levels : bottom_levels_[u] = 0
    <3>1. /\ bottom_levels_[inside] # 0
          /\ \A u \in Levels :
                bottom_levels_[u] # 0 => ~better_level(u, inside)
      BY <1>7, <2>2 DEF IsBestOfBottom
    <3>2. inside \in 1..(LevelMax - 1)
      BY <3>1 DEF IInv, WindowOK, BottomBehindWindow
    <3>3. /\ HalfSize \in Nat /\ 2 * HalfSize <= MaxSize
          /\ begin \in Levels /\ ~better_level(begin, inside)
          /\ limit_top_prices(inside)[2] \in Levels
          /\ better_level(limit_top_prices(inside)[2], inside)
          /\ level_to_relative(begin, limit_top_prices(inside)[2])
                <= 2 * HalfSize
      BY <3>2, HalfSizeFacts, LimitsAroundLevel
    <3>4. ASSUME NEW u \in Levels, bottom_levels_[u] # 0,
                 ~better_level(begin, u)
          PROVE  level_to_relative(begin, u) \in Slots
      <4>1. ~better_level(u, inside)
        BY <3>1, <3>4
      <4> HIDE DEF begin
      <4> QED
        BY <3>3, <3>4, <4>1, ArrayParameters
           DEF Slots, Levels, better_level, level_to_relative
    <3> QED
      BY <3>3, <3>4
  <2> QED
    BY <2>1, <2>2
<1>9. /\ tk_begin_top_' = begin
      /\ top_levels_' = [i \in Slots |->
              IF /\ relative_to_level(begin, i) \in Levels
                 /\ bottom_levels_[relative_to_level(begin, i)] # 0
              THEN bottom_levels_[relative_to_level(begin, i)] ELSE 0]
      /\ bottom_levels_' = [u \in Levels |->
              IF better_level(begin, u) THEN bottom_levels_[u] ELSE 0]
  BY <1>4, <1>7 DEF MoveBottomToTop
<1> HIDE DEF begin
<1>10. ASSUME NEW tk \in Levels
       PROVE  LevelQty(tk)' = bottom_levels_[tk]
  <2> DEFINE r == level_to_relative(begin, tk)
  <2>1. /\ relative_to_level(begin, r) = tk
        /\ better_level(begin, tk) <=> r < 0
    BY <1>8, ArrayParameters
       DEF level_to_relative, relative_to_level, better_level, Levels
  <2>2. LevelQty(tk)' =
           bottom_levels_'[tk] + IF r \in Slots THEN top_levels_'[r] ELSE 0
    BY <1>9 DEF LevelQty, Slot
  <2>3. bottom_levels_[tk] \in Nat
    BY DEF IInv, TypeOK
  <2> HIDE DEF r
  <2>4. r \in Slots => top_levels_'[r] = bottom_levels_[tk]
    BY <1>9, <2>1
  <2>5. CASE better_level(begin, tk)
    <3>1. r \notin Slots
      BY <2>1, <2>5, ArrayParameters DEF Slots
    <3> QED
      BY <1>9, <2>2, <2>3, <2>5, <3>1
  <2>6. CASE ~better_level(begin, tk)
    <3>1. bottom_levels_'[tk] = 0
      BY <1>9, <2>6
    <3>2. bottom_levels_[tk] # 0 => r \in Slots
      BY <1>8, <2>6 DEF r
    <3> QED
      BY <2>2, <2>3, <2>4, <3>1, <3>2
  <2> QED
    BY <2>5, <2>6
<1>11. QtyReduced(px, qty)
  BY <1>0, <1>1, <1>5, <1>6, <1>10 DEF QtyReduced, Reduced
<1>12. ret' = Report(NoneBetter(px))
  BY <1>0, <1>1, NoneBetterThanInside DEF PresentInTop, Report
<1> QED
  BY <1>1, <1>5, <1>11, <1>12
-----------------------------------------------------------------------------
(* The step of the map.                                                    *)

LEMMA AddStepsMap ==
    ASSUME UsableParameters, IInv, IInv', NEW px \in Levels, NEW qty \in Nat,
           qty > 0, LevelQty(px) + qty <= MaxLevelQty,
           QtyAdded(px, qty), ret' = Report(NoneBetter(px))
    PROVE  Map!add_order(px, qty)
<1>1. /\ DOMAIN AllLevels = {t \in Levels : LevelQty(t) # 0}
      /\ \A t \in DOMAIN AllLevels : AllLevels[t] = LevelQty(t)
  BY DEF AllLevels
<1>2. Map!QtyIn(AllLevels, px) = LevelQty(px)
  BY <1>1 DEF Map!QtyIn
<1>3. \A t \in Levels : LevelQty(t) \in Nat
  BY LevelQtyType
<1>4. {t \in Levels : LevelQty(t)' # 0} = DOMAIN AllLevels \cup {px}
  BY <1>1, <1>3 DEF QtyAdded
<1>5. AllLevels' = [t \in {u \in Levels : LevelQty(u)' # 0} |-> LevelQty(t)']
  BY DEF AllLevels, Levels
<1>6. AllLevels' = [t \in DOMAIN AllLevels \cup {px} |->
                       IF t = px THEN Map!QtyIn(AllLevels, px) + qty ELSE AllLevels[t]]
  <2>1. ASSUME NEW t \in DOMAIN AllLevels \cup {px}
        PROVE  LevelQty(t)' =
                  IF t = px THEN Map!QtyIn(AllLevels, px) + qty ELSE AllLevels[t]
    BY <1>1, <1>2, <2>1 DEF QtyAdded
  <2> QED
    BY <1>4, <1>5, <2>1
<1>7. NoneBetter(px) <=> Map!IsBegin(px, DOMAIN AllLevels)
  BY <1>1 DEF NoneBetter, Map!IsBegin, Map!better_level, better_level
<1>8. ret' = Map!Report(Map!IsBegin(px, DOMAIN AllLevels))
  BY <1>7 DEF Map!Report, Report
<1> QED
  BY <1>2, <1>6, <1>8 DEF Map!add_order, Map!Added

LEMMA ReduceStepsMap ==
    ASSUME UsableParameters, IInv, IInv', NEW px \in Levels, NEW qty \in Nat,
           qty > 0, LevelQty(px) # 0,
           QtyReduced(px, qty), ret' = Report(NoneBetter(px))
    PROVE  Map!reduce_order(px, qty)
<1>1. /\ DOMAIN AllLevels = {t \in Levels : LevelQty(t) # 0}
      /\ \A t \in DOMAIN AllLevels : AllLevels[t] = LevelQty(t)
  BY DEF AllLevels
<1>2. px \in DOMAIN AllLevels /\ AllLevels[px] = LevelQty(px)
  BY <1>1
<1>3. \A t \in Levels : LevelQty(t) \in Nat
  BY LevelQtyType
<1>4. AllLevels' = [t \in {u \in Levels : LevelQty(u)' # 0} |-> LevelQty(t)']
  BY DEF AllLevels, Levels
<1>5. AllLevels' = IF AllLevels[px] <= qty
                   THEN [t \in DOMAIN AllLevels \ {px} |-> AllLevels[t]]
                   ELSE [AllLevels EXCEPT ![px] = @ - qty]
  <2>1. CASE LevelQty(px) <= qty
    <3>1. {t \in Levels : LevelQty(t)' # 0} = DOMAIN AllLevels \ {px}
      BY <1>1, <2>1 DEF QtyReduced, Reduced
    <3>2. ASSUME NEW t \in DOMAIN AllLevels \ {px}
          PROVE  LevelQty(t)' = AllLevels[t]
      BY <1>1, <3>2 DEF QtyReduced
    <3> QED
      BY <1>2, <1>4, <2>1, <3>1, <3>2
  <2>2. CASE ~(LevelQty(px) <= qty)
    <3>1. {t \in Levels : LevelQty(t)' # 0} = DOMAIN AllLevels
      BY <1>1, <1>3, <2>2 DEF QtyReduced, Reduced
    <3>2. ASSUME NEW t \in DOMAIN AllLevels
          PROVE  LevelQty(t)' = IF t = px THEN AllLevels[px] - qty
                                          ELSE AllLevels[t]
      BY <1>1, <2>2, <3>2 DEF QtyReduced, Reduced
    <3>3. AllLevels' = [t \in DOMAIN AllLevels |->
                           IF t = px THEN AllLevels[px] - qty
                                     ELSE AllLevels[t]]
      BY <1>4, <3>1, <3>2
    <3>4. AllLevels = [t \in DOMAIN AllLevels |-> AllLevels[t]]
      BY DEF AllLevels
    <3>5. [AllLevels EXCEPT ![px] = @ - qty] =
             [t \in DOMAIN AllLevels |-> IF t = px THEN AllLevels[px] - qty
                                                   ELSE AllLevels[t]]
      BY <3>4, <1>2
    <3> QED
      BY <1>2, <2>2, <3>3, <3>5
  <2> QED
    BY <2>1, <2>2
<1>6. NoneBetter(px) <=> Map!IsBegin(px, DOMAIN AllLevels)
  BY <1>1 DEF NoneBetter, Map!IsBegin, Map!better_level, better_level
<1>7. ret' = Map!Report(Map!IsBegin(px, DOMAIN AllLevels))
  BY <1>6 DEF Map!Report, Report
<1> QED
  BY <1>2, <1>5, <1>7 DEF Map!reduce_order, Map!Subtracted

LEMMA MissingStepsMap ==
    ASSUME NEW px \in Levels, NEW qty \in Nat, LevelQty(px) = 0,
           \A tk \in Levels : LevelQty(tk)' = LevelQty(tk),
           ret' = "feed_error"
    PROVE  Map!reduce_order(px, qty)
<1>1. px \notin DOMAIN AllLevels
  BY DEF AllLevels
<1>2. AllLevels' = [t \in {u \in Levels : LevelQty(u)' # 0} |-> LevelQty(t)']
  BY DEF AllLevels, Levels
<1>3. AllLevels' = AllLevels
  BY <1>2 DEF AllLevels
<1> QED
  BY <1>1, <1>3 DEF Map!reduce_order

LEMMA NextStepsMap ==
    ASSUME UsableParameters, IInv, IInv', [Next]_vars
    PROVE  [Map!Next]_(Map!vars)
<1>1. ASSUME NEW px \in Prices, NEW qty \in Qtys, add_order(px, qty)
      PROVE  Map!add_order(px, qty)
  <2>1. /\ px \in Levels /\ qty \in Nat /\ qty > 0
        /\ LevelQty(px) + qty <= MaxLevelQty /\ ValidOperation(px, qty)
    BY <1>1, ValidArguments DEF add_order
  <2>2. QtyAdded(px, qty) /\ ret' = Report(NoneBetter(px))
    BY <1>1, <2>1, AddToBottomEffect, AddInNewWindowEffect,
       AddAtInsideEffect, AddBehindInsideEffect DEF add_order
  <2> QED
    BY <2>1, <2>2, AddStepsMap
<1>2. ASSUME NEW px \in Prices, NEW qty \in Qtys, reduce_order(px, qty)
      PROVE  Map!reduce_order(px, qty)
  <2>1. /\ px \in Levels /\ qty \in Nat /\ qty > 0 /\ ValidOperation(px, qty)
    BY <1>2, ValidArguments DEF reduce_order
  <2>2. CASE ReduceMissing(px)
    BY <2>1, <2>2, ReduceMissingEffect, MissingStepsMap
  <2>3. CASE \/ ReduceBottom(px, qty) \/ ReduceTop(px, qty)
             \/ RemoveInside(px, qty) \/ RefillWindow(px, qty)
    <3>1. /\ LevelQty(px) # 0 /\ QtyReduced(px, qty)
          /\ ret' = Report(NoneBetter(px))
      BY <2>1, <2>3, ReduceBottomEffect, ReduceTopEffect,
         RemoveInsideEffect, RefillWindowEffect
    <3> QED
      BY <2>1, <3>1, ReduceStepsMap
  <2> QED
    BY <1>2, <2>2, <2>3 DEF reduce_order
<1>3. CASE UNCHANGED vars
  <2>1. AllLevels' = AllLevels
    BY <1>3 DEF vars, AllLevels, LevelQty, Slot
  <2> QED
    BY <1>3, <2>1 DEF vars, Map!vars
<1> QED
  BY <1>1, <1>2, <1>3 DEF Next, Map!Next

(* array_based_book_side implements map_based_book_side, the type          *)
(* order_book says it must be compatible with: for every vector size,      *)
(* price range and sequence of operations it keeps the same quantity at    *)
(* every level and returns or throws the same.                             *)
THEOREM ArrayImplementsMap ==
    ASSUME UsableParameters
    PROVE  Spec => ImplementsMap
<1>1. Init => Map!Init
  <2>1. ASSUME Init
        PROVE  AllLevels = << >>
    <3>1. {t \in Levels : LevelQty(t) # 0} = {}
      BY <2>1 DEF Init, LevelQty
    <3> QED
      BY <3>1 DEF AllLevels
  <2> QED
    BY <2>1 DEF Init, Map!Init
<1>2. IInv /\ IInv' /\ [Next]_vars => [Map!Next]_(Map!vars)
  BY NextStepsMap
<1> QED
  BY <1>1, <1>2, InvariantHolds, PTL DEF Spec, ImplementsMap, Map!Spec
-----------------------------------------------------------------------------
(* The observers.                                                          *)
Present == {tk \in Levels : LevelQty(tk) # 0}

\* The best quote, of the quantities of the levels.
IsBestQuote(quote, qtys) ==
    \/ /\ \A tk \in Levels : qtys[tk] = 0
       /\ quote = <<tk_empty_quote, 0>>
    \/ \E tk \in Levels :
          /\ qtys[tk] # 0 /\ quote = <<tk, qtys[tk]>>
          /\ \A u \in Levels : qtys[u] # 0 => ~better_level(u, tk)

LevelQtys == [tk \in Levels |-> LevelQty(tk)]

LEMMA BestQuote == UsableParameters /\ IInv => IsBestQuote(best_quote, LevelQtys)
<1> SUFFICES ASSUME UsableParameters, IInv
             PROVE  IsBestQuote(best_quote, LevelQtys)
  OBVIOUS
<1>1. CASE tk_inside_ = tk_empty_quote
  BY <1>1, EmptySideHasNoQty DEF IsBestQuote, best_quote, LevelQtys
<1>2. CASE tk_inside_ # tk_empty_quote
  <2>1. tk_inside_ \in Levels /\ LevelQty(tk_inside_) # 0 /\ NoneBetter(tk_inside_)
    BY <1>2, InsideIsBestLevel DEF IInv, TypeOK
  <2>2. InTop(tk_inside_) /\ InsideSlot \in Slots
    BY <1>2, InsideSlotInVector DEF IInv, WindowOK, InsideInWindow
  <2>3. LevelQty(tk_inside_) = top_levels_[InsideSlot]
    BY <2>1, <2>2, WhereTheQtyIs DEF InsideSlot
  <2> QED
    BY <1>2, <2>1, <2>3 DEF IsBestQuote, best_quote, NoneBetter, LevelQtys
<1> QED
  BY <1>1, <1>2

LEMMA OneBest ==
  ASSUME NEW t \in Levels, NEW u \in Levels, ~ better_level(t, u), ~ better_level(u, t)
  PROVE  t = u
  BY ArrayParameters DEF better_level, Levels

LEMMA MapObserved ==
  /\ DOMAIN AllLevels = Present
  /\ \A t \in Present : AllLevels[t] = LevelQty(t)
  /\ Map!tk_empty_quote = tk_empty_quote
  /\ \A t, u : Map!better_level(t, u) <=> better_level(t, u)
  BY DEF AllLevels, Present, Map!better_level, better_level,
         Map!tk_empty_quote, tk_empty_quote

LEMMA BestAgrees ==
  ASSUME UsableParameters, IInv
  PROVE  best_quote = Map!best_quote
<1> DEFINE keys == DOMAIN AllLevels
           best == CHOOSE t \in keys : \A u \in keys : ~Map!better_level(u, t)
<1>1. Map!best_quote = IF keys = {} THEN <<Map!tk_empty_quote, 0>>
                                    ELSE <<best, AllLevels[best]>>
  BY DEF Map!best_quote, Map!QuoteAt
<1> HIDE DEF keys
<1>2. keys = Present
  BY MapObserved DEF keys
<1>3. CASE Present = {}
  <2>1. best_quote = <<tk_empty_quote, 0>>
    BY <1>3, BestQuote DEF IsBestQuote, Present, LevelQtys
  <2> QED
    BY <1>1, <1>2, <1>3, <2>1, MapObserved
<1>4. CASE Present # {}
  <2>1. PICK tk \in Levels : /\ LevelQty(tk) # 0 /\ NoneBetter(tk)
                             /\ best_quote = <<tk, LevelQty(tk)>>
    BY <1>4, BestQuote DEF IsBestQuote, Present, LevelQtys, NoneBetter
  <2>2. tk \in keys /\ \A u \in keys : ~Map!better_level(u, tk)
    BY <1>2, <2>1, MapObserved DEF Present, NoneBetter
  <2>3. \A t \in keys : (\A u \in keys : ~Map!better_level(u, t)) => t = tk
    BY <1>2, <2>1, <2>2, OneBest, MapObserved DEF Present
  <2>4. best = tk
    BY <2>2, <2>3
  <2> HIDE DEF best
  <2>5. AllLevels[tk] = LevelQty(tk)
    BY <1>2, <2>2, MapObserved
  <2> QED
    BY <1>1, <1>2, <1>4, <2>1, <2>4, <2>5
<1> QED
  BY <1>3, <1>4

\* The worst of some levels.
LEMMA WorstExists ==
  ASSUME NEW S \in SUBSET Levels, S # {}
  PROVE  \E tk \in S : \A u \in S : ~ better_level(tk, u)
<1>1. LevelMax \in Nat /\ S \in SUBSET (0..LevelMax)
  BY ArrayParameters DEF Levels
<1>2. PICK low \in S : \A x \in S : low <= x
  BY <1>1, MaxMin
<1>3. PICK high \in S : \A x \in S : high >= x
  BY <1>1, MaxMin
<1>4. CASE Ascending
  <2>1. \A u \in S : ~ better_level(low, u)
    BY <1>1, <1>2, <1>4 DEF better_level
  <2> QED
    BY <2>1
<1>5. CASE ~ Ascending
  <2>1. \A u \in S : ~ better_level(high, u)
    BY <1>1, <1>3, <1>5 DEF better_level
  <2> QED
    BY <2>1
<1> QED
  BY <1>4, <1>5

\* The levels in the map, the slots in use and their levels.
Bottom == {tk \in Levels : bottom_levels_[tk] # 0}
Top == {i \in Slots : top_levels_[i] # 0}
LevelsOfTop == {tk \in Levels : InTop(tk) /\ LevelQty(tk) # 0}

LEMMA BottomAndTop ==
  ASSUME UsableParameters, IInv
  PROVE  /\ Present = Bottom \cup LevelsOfTop /\ Bottom \cap LevelsOfTop = {}
         /\ \A tk \in Bottom : LevelQty(tk) = bottom_levels_[tk]
         /\ \A tk \in Bottom, u \in LevelsOfTop : ~ better_level(tk, u)
<1>1. \A tk \in Levels : bottom_levels_[tk] # 0 => better_level(tk_begin_top_, tk)
  BY DEF IInv, WindowOK, BottomBehindWindow
<1>2. \A tk \in Levels :
         better_level(tk_begin_top_, tk) => LevelQty(tk) = bottom_levels_[tk]
  BY WhereTheQtyIs
<1>3. \A tk \in Levels : InTop(tk) <=> ~ better_level(tk_begin_top_, tk)
  BY DEF InTop
<1>4. tk_begin_top_ \in Levels
  BY DEF IInv, TypeOK
<1>5. \A tk \in Bottom, u \in LevelsOfTop : ~ better_level(tk, u)
  BY <1>1, <1>3, <1>4, ArrayParameters
     DEF Bottom, LevelsOfTop, better_level, Levels
<1> QED
  BY <1>1, <1>2, <1>3, <1>5 DEF Present, Bottom, LevelsOfTop

\* Slots and the levels they stand for.
LEMMA SlotsAndLevels ==
  ASSUME UsableParameters, IInv, tk_inside_ # tk_empty_quote
  PROVE  /\ \A i \in Top :
               LET tk == relative_to_level(tk_begin_top_, i)
               IN  tk \in LevelsOfTop /\ Slot(tk) = i /\ LevelQty(tk) = top_levels_[i]
         /\ \A tk \in LevelsOfTop :
               /\ Slot(tk) \in Top
               /\ relative_to_level(tk_begin_top_, Slot(tk)) = tk
<1>1. tk_begin_top_ \in Levels /\ LevelMax \in Nat /\ MaxSize \in Nat
      /\ Ascending \in BOOLEAN
  BY ArrayParameters DEF IInv, TypeOK
<1>2. ASSUME NEW i \in Top
      PROVE  LET tk == relative_to_level(tk_begin_top_, i)
             IN  tk \in LevelsOfTop /\ Slot(tk) = i /\ LevelQty(tk) = top_levels_[i]
  <2> DEFINE tk == relative_to_level(tk_begin_top_, i)
  <2>1. i \in Slots /\ top_levels_[i] # 0 /\ tk \in 1..(LevelMax - 1)
    BY DEF Top, IInv, WindowOK, InsideIsBest
  <2>2. tk \in Levels /\ Slot(tk) = i /\ InTop(tk)
    BY <1>1, <2>1 DEF Levels, Slots, Slot, level_to_relative, relative_to_level,
                      InTop, better_level
  <2>3. LevelQty(tk) = top_levels_[i]
    BY <2>1, <2>2, WhereTheQtyIs
  <2> QED
    BY <2>1, <2>2, <2>3 DEF LevelsOfTop
<1>3. ASSUME NEW tk \in LevelsOfTop
      PROVE  Slot(tk) \in Top /\ relative_to_level(tk_begin_top_, Slot(tk)) = tk
  <2>1. tk \in Levels /\ InTop(tk) /\ LevelQty(tk) # 0
    BY DEF LevelsOfTop
  <2>2. Slot(tk) \in Top
    BY <2>1, WhereTheQtyIs DEF Top
  <2>3. relative_to_level(tk_begin_top_, Slot(tk)) = tk
    BY <1>1, <2>1 DEF Levels, Slot, level_to_relative, relative_to_level
  <2> QED
    BY <2>2, <2>3
<1> QED
  BY <1>2, <1>3

LEMMA LowestSlot ==
  ASSUME Top # {}
  PROVE  \E i \in Top : \A j \in Top : i <= j
<1>1. Top \in SUBSET (0..MaxSize)
  BY ArrayParameters DEF Top, Slots
<1>2. MaxSize \in Nat
  BY ArrayParameters
<1> QED
  BY <1>1, <1>2, SmallestNumber

LEMMA WorstQuote ==
  ASSUME UsableParameters, IInv, tk_inside_ # tk_empty_quote
  PROVE  \E tk \in Present : /\ \A u \in Present : ~ better_level(tk, u)
                              /\ worst_quote = <<tk, LevelQty(tk)>>
<1> DEFINE worst == CHOOSE tk \in Bottom : \A u \in Bottom : ~better_level(tk, u)
           low == CHOOSE i \in Top : \A j \in Top : i <= j
           tkLow == relative_to_level(tk_begin_top_, low)
<1>1. worst_quote = IF Bottom # {} THEN <<worst, bottom_levels_[worst]>>
                    ELSE <<tkLow, top_levels_[low]>>
  BY DEF worst_quote, Bottom, Top
<1>2. CASE Bottom # {}
  <2>1. worst \in Bottom /\ \A u \in Bottom : ~better_level(worst, u)
    <3>1. \E tk \in Bottom : \A u \in Bottom : ~better_level(tk, u)
      BY <1>2, WorstExists DEF Bottom
    <3> QED
      BY <3>1
  <2> HIDE DEF worst
  <2>2. worst \in Present /\ \A u \in Present : ~better_level(worst, u)
    BY <2>1, BottomAndTop
  <2> QED
    BY <1>1, <1>2, <2>1, <2>2, BottomAndTop
<1>3. CASE Bottom = {}
  <2>1. Present = LevelsOfTop
    BY <1>3, BottomAndTop
  <2>2. Top # {}
    BY InsideSlotInVector DEF IInv, WindowOK, InsideIsBest, Top
  <2>3. low \in Top /\ \A j \in Top : low <= j
    <3>1. \E i \in Top : \A j \in Top : i <= j
      BY <2>2, LowestSlot
    <3> QED
      BY <3>1
  <2> HIDE DEF low
  <2>4. tkLow \in Present /\ Slot(tkLow) = low /\ LevelQty(tkLow) = top_levels_[low]
    BY <2>1, <2>3, SlotsAndLevels
  <2> HIDE DEF tkLow
  <2>5. ASSUME NEW u \in Present PROVE ~better_level(tkLow, u)
    <3>1. Slot(u) \in Top
      BY <2>1, SlotsAndLevels
    <3>2. low <= Slot(u)
      BY <2>3, <3>1
    <3>3. u \in Levels /\ tkLow \in Levels /\ tk_begin_top_ \in Levels
      BY <2>4 DEF Present, IInv, TypeOK
    <3> QED
      BY <2>4, <3>2, <3>3, ArrayParameters
         DEF Slot, level_to_relative, better_level, Levels
  <2> QED
    BY <1>1, <1>3, <2>4, <2>5
<1> QED
  BY <1>2, <1>3

LEMMA WorstAgrees ==
  ASSUME UsableParameters, IInv
  PROVE  worst_quote = Map!worst_quote
<1> DEFINE keys == DOMAIN AllLevels
           worst == CHOOSE t \in keys : \A u \in keys : ~Map!better_level(t, u)
<1>1. Map!worst_quote = IF keys = {} THEN <<Map!tk_empty_quote, 0>>
                                     ELSE <<worst, AllLevels[worst]>>
  BY DEF Map!worst_quote, Map!QuoteAt
<1> HIDE DEF keys
<1>2. keys = Present
  BY MapObserved DEF keys
<1>3. CASE tk_inside_ = tk_empty_quote
  <2>1. Present = {}
    BY <1>3, EmptySideHasNoQty DEF Present
  <2>2. worst_quote = <<tk_empty_quote, 0>>
    BY <1>3 DEF worst_quote
  <2> QED
    BY <1>1, <1>2, <2>1, <2>2, MapObserved
<1>4. CASE tk_inside_ # tk_empty_quote
  <2>1. PICK tk \in Present : /\ \A u \in Present : ~ better_level(tk, u)
                              /\ worst_quote = <<tk, LevelQty(tk)>>
    BY <1>4, WorstQuote
  <2>2. tk \in keys /\ \A u \in keys : ~Map!better_level(tk, u)
    BY <1>2, <2>1, MapObserved
  <2>3. \A t \in keys : (\A u \in keys : ~Map!better_level(t, u)) => t = tk
    BY <1>2, <2>1, <2>2, OneBest, MapObserved DEF Present
  <2>4. worst = tk
    BY <2>2, <2>3
  <2> HIDE DEF worst
  <2>5. AllLevels[tk] = LevelQty(tk)
    BY <1>2, <2>2, MapObserved
  <2> QED
    BY <1>1, <1>2, <2>1, <2>4, <2>5
<1> QED
  BY <1>3, <1>4

\* An instance has a copy of its own of the operators of the library.
LEMMA SameCardinality == \A S : Map!Cardinality(S) = Cardinality(S)
  BY Zenon DEF Map!Cardinality, Cardinality

LEMMA CountAgrees ==
  ASSUME UsableParameters, IInv
  PROVE  count = Map!count
<1>1. Map!count = Cardinality(Present)
  <2>1. Map!count = Map!Cardinality(DOMAIN AllLevels)
    BY DEF Map!count
  <2>2. DOMAIN AllLevels = Present
    BY MapObserved
  <2> QED
    BY <2>1, <2>2, SameCardinality
<1>2. IsFiniteSet(Levels) /\ IsFiniteSet(Slots)
  <2>1. LevelMax \in Int /\ MaxSize - 1 \in Int
    BY ArrayParameters
  <2>2. IsFiniteSet(0..LevelMax) /\ IsFiniteSet(0..(MaxSize - 1))
    BY <2>1, FS_Interval
  <2> QED
    BY <2>2 DEF Levels, Slots
<1>3. IsFiniteSet(Bottom) /\ IsFiniteSet(LevelsOfTop) /\ IsFiniteSet(Top)
  <2>1. Bottom \in SUBSET Levels /\ LevelsOfTop \in SUBSET Levels /\ Top \in SUBSET Slots
    BY DEF Bottom, LevelsOfTop, Top
  <2> QED
    BY <1>2, <2>1, FS_Subset
<1>4. Cardinality(Present) = Cardinality(Bottom) + Cardinality(LevelsOfTop)
  <2>1. Present = Bottom \cup LevelsOfTop /\ Bottom \cap LevelsOfTop = {}
    BY BottomAndTop
  <2>2. Cardinality(Bottom \cup LevelsOfTop) = Cardinality(Bottom)
           + Cardinality(LevelsOfTop) - Cardinality(Bottom \cap LevelsOfTop)
    BY <1>3, FS_Union
  <2>3. Cardinality(Bottom) \in Nat /\ Cardinality(LevelsOfTop) \in Nat
    BY <1>3, FS_CardinalityType
  <2>4. Cardinality(Bottom \cap LevelsOfTop) = 0
    BY <2>1, FS_EmptySet
  <2>5. Cardinality(Present) = Cardinality(Bottom \cup LevelsOfTop)
    BY <2>1
  <2> QED
    BY <2>2, <2>3, <2>4, <2>5
<1>5. CASE tk_inside_ = tk_empty_quote
  <2>1. LevelsOfTop = {}
    BY <1>5, EmptySideHasNoQty DEF LevelsOfTop
  <2>2. Cardinality(LevelsOfTop) = 0
    BY <2>1, FS_EmptySet
  <2>3. count = Cardinality(Bottom) + 0
    BY <1>5 DEF count, Bottom
  <2> QED
    BY <1>1, <1>4, <2>2, <2>3
<1>6. CASE tk_inside_ # tk_empty_quote
  <2>1. Top = {i \in Slots : i <= InsideSlot /\ top_levels_[i] # 0}
    BY <1>6 DEF Top, IInv, WindowOK, InsideIsBest
  <2>2. count = Cardinality(Bottom) + Cardinality(Top)
    BY <1>6, <2>1 DEF count, Bottom
  <2>3. Cardinality(LevelsOfTop) = Cardinality(Top)
    <3> DEFINE f == [i \in Top |-> relative_to_level(tk_begin_top_, i)]
    <3>1. f \in [Top -> LevelsOfTop] /\ \A i \in Top : Slot(f[i]) = i
      BY <1>6, SlotsAndLevels
    <3>2. \A tk \in LevelsOfTop : Slot(tk) \in Top /\ f[Slot(tk)] = tk
      BY <1>6, SlotsAndLevels
    <3> HIDE DEF f
    <3>3. f \in Injection(Top, LevelsOfTop)
      BY <3>1 DEF Injection, IsInjective
    <3>4. f \in Surjection(Top, LevelsOfTop)
      BY <3>1, <3>2 DEF Surjection
    <3>5. ExistsBijection(Top, LevelsOfTop)
      BY <3>3, <3>4 DEF ExistsBijection, Bijection
    <3> QED
      BY <1>3, <3>5, FS_Bijection
  <2> QED
    BY <1>1, <1>4, <2>2, <2>3
<1> QED
  BY <1>5, <1>6

(* best_quote, worst_quote and count are those of a single map, however    *)
(* the levels are spread over the vector and the map.                      *)
THEOREM ObserversCorrect ==
    ASSUME UsableParameters
    PROVE  Spec => []ObserversAgree
<1>1. IInv => ObserversAgree
  BY BestAgrees, WorstAgrees, CountAgrees DEF ObserversAgree
<1> QED
  BY <1>1, InvariantHolds, PTL

-----------------------------------------------------------------------------
(* What a step reports.                                                    *)
ChangedOnlyAt(px, old, new) ==
    new[px] # old[px] /\ \A tk \in Levels \ {px} : new[tk] = old[tk]

NoneBetterIn(px, qtys) ==
    \A tk \in Levels : qtys[tk] # 0 => ~better_level(tk, px)

\* One level changes its quantity: the best quote changes just when no other
\* level is better.
LEMMA BestQuoteChanges ==
  ASSUME NEW px \in Levels, NEW old, NEW new, ChangedOnlyAt(px, old, new),
         NEW q, NEW r, IsBestQuote(q, old), IsBestQuote(r, new)
  PROVE  r # q <=> NoneBetterIn(px, old)
<1>0. /\ new[px] # old[px] /\ \A tk \in Levels : tk # px => new[tk] = old[tk]
      /\ \A t, u \in Levels :
            ~better_level(t, u) /\ ~better_level(u, t) => t = u
  BY OneBest DEF ChangedOnlyAt
<1>1. CASE \E b \in Levels : old[b] # 0 /\ better_level(b, px)
  <2>1. PICK t \in Levels :
           /\ old[t] # 0 /\ q = <<t, old[t]>>
           /\ \A u \in Levels : old[u] # 0 => ~better_level(u, t)
    BY <1>1 DEF IsBestQuote
  <2>2. PICK b \in Levels : old[b] # 0 /\ better_level(b, px)
    BY <1>1
  <2>3. better_level(t, px)
    BY <2>1, <2>2, ArrayParameters DEF better_level, Levels
  <2>4. t # px /\ ~better_level(px, t)
    BY <2>3, ArrayParameters DEF better_level, Levels
  <2>5. new[t] = old[t] /\ \A u \in Levels : new[u] # 0 => ~better_level(u, t)
    BY <1>0, <2>1, <2>4
  <2>6. PICK s \in Levels :
           /\ new[s] # 0 /\ r = <<s, new[s]>>
           /\ \A u \in Levels : new[u] # 0 => ~better_level(u, s)
    BY <2>1, <2>5 DEF IsBestQuote
  <2>7. s = t
    BY <1>0, <2>1, <2>5, <2>6
  <2> QED
    BY <1>1, <2>1, <2>5, <2>6, <2>7 DEF NoneBetterIn
<1>2. CASE \A b \in Levels : old[b] # 0 => ~better_level(b, px)
  <2> SUFFICES ASSUME r = q PROVE FALSE
    BY <1>2 DEF NoneBetterIn
  <2>1. CASE \A tk \in Levels : old[tk] = 0
    <3>1. new[px] # 0
      BY <1>0, <2>1
    <3>2. q = <<tk_empty_quote, 0>>
      BY <2>1 DEF IsBestQuote
    <3>3. PICK s \in Levels : new[s] # 0 /\ r = <<s, new[s]>>
      BY <3>1 DEF IsBestQuote
    <3> QED
      BY <3>2, <3>3
  <2>2. CASE \E tk \in Levels : old[tk] # 0
    <3>1. PICK t \in Levels :
             /\ old[t] # 0 /\ q = <<t, old[t]>>
             /\ \A u \in Levels : old[u] # 0 => ~better_level(u, t)
      BY <2>2 DEF IsBestQuote
    <3>2. r # <<tk_empty_quote, 0>>
      BY <3>1
    <3>3. PICK s \in Levels :
             /\ new[s] # 0 /\ r = <<s, new[s]>>
             /\ \A u \in Levels : new[u] # 0 => ~better_level(u, s)
      BY <3>2 DEF IsBestQuote
    <3>4. s = t /\ new[t] = old[t]
      BY <3>1, <3>3
    <3>5. t # px /\ ~better_level(t, px)
      BY <1>0, <1>2, <3>1, <3>4
    <3>6. old[px] # 0 \/ new[px] # 0
      BY <1>0
    <3>7. ~better_level(px, t)
      BY <3>1, <3>3, <3>4, <3>6
    <3> QED
      BY <1>0, <3>5, <3>7
  <2> QED
    BY <2>1, <2>2
<1> QED
  BY <1>1, <1>2

LEMMA StepEffect ==
  ASSUME UsableParameters, IInv, Next
  PROVE  \/ LevelQtys' = LevelQtys /\ ret' = "feed_error"
         \/ \E px \in Levels : /\ ChangedOnlyAt(px, LevelQtys, LevelQtys')
                               /\ ret' = Report(NoneBetterIn(px, LevelQtys))
<1>0. /\ LevelQtys = [tk \in Levels |-> LevelQty(tk)]
      /\ LevelQtys' = [tk \in Levels |-> LevelQty(tk)']
      /\ \A px : NoneBetterIn(px, LevelQtys) <=> NoneBetter(px)
  BY DEF LevelQtys, Levels, NoneBetterIn, NoneBetter
<1>1. ASSUME NEW px \in Prices, NEW qty \in Qtys, add_order(px, qty)
      PROVE  /\ ChangedOnlyAt(px, LevelQtys, LevelQtys') /\ px \in Levels
             /\ ret' = Report(NoneBetterIn(px, LevelQtys))
  <2>1. /\ px \in Levels /\ qty \in Nat /\ qty > 0
        /\ LevelQty(px) + qty <= MaxLevelQty /\ ValidOperation(px, qty)
    BY <1>1, ValidArguments DEF add_order
  <2>2. QtyAdded(px, qty) /\ ret' = Report(NoneBetter(px))
    BY <1>1, <2>1, AddToBottomEffect, AddInNewWindowEffect,
       AddAtInsideEffect, AddBehindInsideEffect DEF add_order
  <2>3. LevelQty(px) \in Nat
    BY <2>1, LevelQtyType
  <2>4. ChangedOnlyAt(px, LevelQtys, LevelQtys')
    BY <1>0, <2>1, <2>2, <2>3 DEF ChangedOnlyAt, QtyAdded
  <2> QED
    BY <1>0, <2>1, <2>2, <2>4 DEF Report
<1>2. ASSUME NEW px \in Prices, NEW qty \in Qtys, reduce_order(px, qty)
      PROVE  \/ LevelQtys' = LevelQtys /\ ret' = "feed_error"
             \/ /\ ChangedOnlyAt(px, LevelQtys, LevelQtys') /\ px \in Levels
                /\ ret' = Report(NoneBetterIn(px, LevelQtys))
  <2>1. /\ px \in Levels /\ qty \in Nat /\ qty > 0 /\ ValidOperation(px, qty)
    BY <1>2, ValidArguments DEF reduce_order
  <2>2. CASE ReduceMissing(px)
    BY <1>0, <2>1, <2>2, ReduceMissingEffect
  <2>3. CASE \/ ReduceBottom(px, qty) \/ ReduceTop(px, qty)
             \/ RemoveInside(px, qty) \/ RefillWindow(px, qty)
    <3>1. /\ LevelQty(px) # 0 /\ QtyReduced(px, qty)
          /\ ret' = Report(NoneBetter(px))
      BY <2>1, <2>3, ReduceBottomEffect, ReduceTopEffect,
         RemoveInsideEffect, RefillWindowEffect
    <3>2. LevelQty(px) \in Nat
      BY <2>1, LevelQtyType
    <3>3. ChangedOnlyAt(px, LevelQtys, LevelQtys')
      BY <1>0, <2>1, <3>1, <3>2 DEF ChangedOnlyAt, QtyReduced, Reduced
    <3> QED
      BY <1>0, <2>1, <3>1, <3>3 DEF Report
  <2> QED
    BY <1>2, <2>2, <2>3 DEF reduce_order
<1> QED
  BY <1>1, <1>2 DEF Next

(* An operation returns that the inside changed exactly when best_quote()  *)
(* is another one afterwards; one that throws leaves it as it was.         *)
THEOREM ChangesReported ==
    ASSUME UsableParameters
    PROVE  Spec => InsideChangeReported
<1>1. ASSUME IInv, IInv', IsBestQuote(best_quote, LevelQtys),
             IsBestQuote(best_quote, LevelQtys)', [Next]_vars
      PROVE  [(ret' = "inside_changed") <=> (best_quote' # best_quote)]_vars
  <2>1. IsBestQuote(best_quote', LevelQtys')
    BY <1>1 DEF IsBestQuote, Levels, better_level, tk_empty_quote
  <2>2. CASE LevelQtys' = LevelQtys /\ ret' = "feed_error"
    <3>1. ASSUME NEW q, NEW r, NEW f, IsBestQuote(q, f), IsBestQuote(r, f)
          PROVE  q = r
      BY <3>1, OneBest DEF IsBestQuote
    <3>2. best_quote' = best_quote
      BY <1>1, <2>1, <2>2, <3>1
    <3> QED
      BY <2>2, <3>2
  <2>3. ASSUME NEW px \in Levels, ChangedOnlyAt(px, LevelQtys, LevelQtys'),
               ret' = Report(NoneBetterIn(px, LevelQtys))
        PROVE  (ret' = "inside_changed") <=> (best_quote' # best_quote)
    <3>1. best_quote' # best_quote <=> NoneBetterIn(px, LevelQtys)
      BY <1>1, <2>1, <2>3, BestQuoteChanges
    <3> QED
      BY <2>3, <3>1 DEF Report
  <2>4. CASE UNCHANGED vars
    BY <2>4
  <2> QED
    BY <1>1, <2>2, <2>3, <2>4, StepEffect
<1>2. IInv => IsBestQuote(best_quote, LevelQtys)
  BY BestQuote
<1> QED
  BY <1>1, <1>2, InvariantHolds, PTL DEF Spec, InsideChangeReported
-----------------------------------------------------------------------------
(* What the levels of the books stand for (price_levels, level_to_price).  *)
LEMMA TicksAre == unit = 10000 /\ penny = 100 /\ mill = 1
<1>1. unit = 10000 /\ penny = 100
  BY SMT DEF unit, penny, denom
<1> QED
  BY <1>1, SMT DEF mill

LEMMA LevelIs ==
    ASSUME NEW px \in Nat
    PROVE  LevelOf(px) = IF px <= 10000 THEN px ELSE 10000 + ((px - 10000) \div 100)
<1>1. LevelOf(px) = IF px <= 10000 THEN (px - 0) \div 1
                    ELSE (10000 - 0) \div 1 + ((px - 10000) \div 100)
  BY TicksAre, SMT DEF LevelOf, price_levels
<1>2. (px - 0) \div 1 = px /\ (10000 - 0) \div 1 = 10000
  BY SMT
<1> QED
  BY <1>1, <1>2, SMT

LEMMA PriceIs ==
    ASSUME NEW level \in Nat
    PROVE  level_to_price(level) =
               IF level <= 10000 THEN level ELSE (level - 10000) * 100 + 10000
BY SMT DEF level_to_price, denom

(* A level has a price, and that price has that level: what a book reports *)
(* for a level is a price an order of that level could have.               *)
THEOREM LevelRoundTrip ==
    ASSUME NEW level \in Nat
    PROVE  /\ level_to_price(level) \in Nat
           /\ LevelOf(level_to_price(level)) = level
<1>1. level_to_price(level) \in Nat
  BY PriceIs, SMT
<1>2. CASE level <= 10000
  BY <1>1, <1>2, LevelIs, PriceIs, SMT
<1>3. CASE level > 10000
  <2>1. level_to_price(level) = (level - 10000) * 100 + 10000
    BY <1>3, PriceIs, SMT
  <2>2. ((level - 10000) * 100) \div 100 = level - 10000
    BY <1>3, SMT
  <2> QED
    BY <1>1, <1>3, <2>1, <2>2, LevelIs, SMT
<1> QED
  BY <1>1, <1>2, <1>3, SMT

(* The price a book reports for an order is the price of the order up to a *)
(* dollar, and is rounded down to a penny above: an array based side loses *)
(* the sub-penny part of a price.                                          *)
THEOREM PriceRoundTrip ==
    ASSUME NEW px \in Nat
    PROVE  level_to_price(LevelOf(px)) = Tick(px)
<1>1. Tick(px) = IF px <= 10000 THEN px ELSE px - (px % 100)
  BY TicksAre, SMT DEF Tick
<1>2. CASE px <= 10000
  <2>1. LevelOf(px) = px
    BY <1>2, LevelIs, SMT
  <2> QED
    BY <1>1, <1>2, <2>1, PriceIs, SMT
<1>3. CASE px > 10000
  <2> DEFINE n == (px - 10000) \div 100
  <2>1. n \in Nat /\ px - 10000 = n * 100 + (px % 100)
    BY <1>3, SMT
  <2>2. LevelOf(px) = 10000 + n
    BY <1>3, LevelIs, SMT
  <2>3. level_to_price(10000 + n) = n * 100 + 10000
    <3>1. 10000 + n \in Nat
      BY <2>1, SMT
    <3> HIDE DEF n
    <3>2. CASE n = 0
      BY <3>1, <3>2, PriceIs, SMT
    <3>3. CASE n # 0
      BY <2>1, <3>1, <3>3, PriceIs, SMT
    <3> QED
      BY <3>2, <3>3
  <2> HIDE DEF n
  <2> QED
    BY <1>1, <1>3, <2>1, <2>2, <2>3, SMT
<1> QED
  BY <1>2, <1>3, SMT

(* Levels are ordered as prices are, and two prices have the same level    *)
(* just when they are in the same tick: the books may compare levels in    *)
(* place of prices, and only orders within a penny are taken together.     *)
THEOREM LevelsOrdered ==
    ASSUME NEW px \in Nat, NEW qx \in Nat
    PROVE  /\ px <= qx => LevelOf(px) <= LevelOf(qx)
           /\ LevelOf(px) = LevelOf(qx) <=> Tick(px) = Tick(qx)
<1>1. px <= qx => LevelOf(px) <= LevelOf(qx)
  BY LevelIs, SMT
<1>2. /\ LevelOf(px) \in Nat
      /\ LevelOf(qx) \in Nat
  BY LevelIs, SMT
<1>3. /\ level_to_price(LevelOf(px)) = Tick(px)
      /\ level_to_price(LevelOf(qx)) = Tick(qx)
  BY PriceRoundTrip
<1>4. /\ LevelOf(level_to_price(LevelOf(px))) = LevelOf(px)
      /\ LevelOf(level_to_price(LevelOf(qx))) = LevelOf(qx)
  BY <1>2, LevelRoundTrip
<1> QED
  BY <1>1, <1>3, <1>4
=============================================================================

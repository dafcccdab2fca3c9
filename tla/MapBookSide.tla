---------------------------- MODULE MapBookSide ----------------------------
(***************************************************************************)
(* map_based_book_side: one side of an order book kept in a sorted map     *)
(* from price to quantity.  It is the simplest statement of what a book    *)
(* side promises, and the specification ArrayBookSide implements.          *)
(*                                                                         *)
(* levels_ is the std::map: a function whose domain is the set of keys.    *)
(* The map does not validate its arguments; Qtys says what it is given.    *)
(***************************************************************************)
EXTENDS BookPrices, BookLevels, FiniteSets

VARIABLES
    levels_,   \* price level -> quantity, for the levels present in the map
    ret        \* what the last operation returned or threw

vars == <<levels_, ret>>

Init == levels_ = << >> /\ ret = "none"

\* iterator == levels_.begin(), for the key tk in a map with these keys.
IsBegin(tk, keys) == \A t \in keys : ~better_level(t, tk)

add_order(px, qty) ==
    /\ QtyIn(levels_, px) + qty <= MaxLevelQty
    /\ levels_' = Added(levels_, px, qty)
    /\ ret' = Report(IsBegin(px, DOMAIN levels_))

\* A level that is not there is a feed_error.
reduce_order(px, qty) ==
    \/ /\ px \notin DOMAIN levels_
       /\ ret' = "feed_error"
       /\ UNCHANGED levels_
    \/ /\ px \in DOMAIN levels_
       /\ levels_' = Subtracted(levels_, px, qty)
       /\ ret' = Report(IsBegin(px, DOMAIN levels_))

Next == \E px \in Prices, qty \in Qtys :
            add_order(px, qty) \/ reduce_order(px, qty)

Spec == Init /\ [][Next]_vars
-----------------------------------------------------------------------------
\* The observers: (price, quantity) of the two ends, and the depth.
QuoteAt(P(_)) ==
    IF DOMAIN levels_ = {}
    THEN <<tk_empty_quote, 0>>
    ELSE LET tk == CHOOSE t \in DOMAIN levels_ : P(t) IN <<tk, levels_[tk]>>

best_quote ==
    QuoteAt(LAMBDA t : \A u \in DOMAIN levels_ : ~better_level(u, t))

worst_quote ==
    QuoteAt(LAMBDA t : \A u \in DOMAIN levels_ : ~better_level(t, u))

count == Cardinality(DOMAIN levels_)
=============================================================================

---------------------------- MODULE ComputeBook ----------------------------
(***************************************************************************)
(* compute_book: turns a stream of ITCH-5.0 order messages into one order  *)
(* book per security.  ITCH-5.0 names a security and a side only when an   *)
(* order is added, so the class keeps every live order (orders_) next to   *)
(* the books (books_), and has to keep the two in step.                    *)
(*                                                                         *)
(* A book side is the map of BookLevels; ArrayBookSide implements it.  An  *)
(* exception leaves handle_message at once with what it has changed so     *)
(* far, and ends every program that uses the class: no message is handled  *)
(* after it.                                                               *)
(***************************************************************************)
EXTENDS BookLevels, FiniteSets, FiniteSetsExt

CONSTANTS
    OrderIds,      \* order reference numbers
    Stocks,        \* securities
    Prices,        \* price levels, PriceMax included if a message can say so
    Shares,        \* share counts of new orders
    ReduceShares,  \* share counts of executions and cancels
    PriceMax,      \* max_price_field_value<price4_t>(), the empty offer
    ValidatingBook,\* TRUE: array_based_order_book, which validates its input
    NoUpdate       \* model value: the message made no callback

ASSUME ComputeBookAssumption ==
    /\ ValidatingBook \in BOOLEAN
    /\ PriceMax \in Nat /\ Prices \subseteq 1..PriceMax
    /\ Shares \subseteq Nat /\ ReduceShares \subseteq Nat

Sides == {"B", "S"}

\* book_update.
Updates ==
    [stock : Stocks, side : Sides, px : Prices, qty : Int,
     cxlreplx : BOOLEAN, oldpx : Nat, oldqty : Nat]

ASSUME NoUpdateAssumption == NoUpdate \notin Updates

VARIABLES
    orders_,   \* order id -> order_data, the stock, side, px and qty of live orders
    books_,    \* security -> side -> level map
    update,    \* the book_update of the callback the last message made
    status     \* "running", or the exception that ended the program

vars == <<orders_, books_, update, status>>

Init ==
    /\ orders_ = << >>
    /\ books_ = << >>
    /\ update = NoUpdate
    /\ status = "running"
-----------------------------------------------------------------------------
\* An unordered_map with a new or replaced entry, and one without an entry.
With(map, key, value) ==
    [k \in DOMAIN map \cup {key} |-> IF k = key THEN value ELSE map[k]]
Without(map, key) == [k \in DOMAIN map \ {key} |-> map[k]]

EmptyBook == [side \in Sides |-> << >>]

\* find(), then emplace() an empty book if there is none.
WithBook(books, stock) ==
    IF stock \in DOMAIN books THEN books ELSE With(books, stock, EmptyBook)

\* validate_operation_params, on an array based book only.
Rejected(px, qty) == ValidatingBook /\ (qty = 0 \/ px >= PriceMax)

\* order_book::handle_add_order and handle_order_reduced pick the side.
handle_add_order(books, stock, side, px, qty) ==
    [books EXCEPT ![stock][side] = Added(@, px, qty)]
handle_order_reduced(books, stock, side, px, qty) ==
    [books EXCEPT ![stock][side] = Subtracted(@, px, qty)]

\* do_reduce: how much is taken from an order; 0 shares stand for all, and
\* no more is taken than the order has.
ReducedQty(data, shares) ==
    IF shares = 0 \/ data.qty < shares THEN data.qty ELSE shares

\* Faulty variant: a finished order is kept, with no shares.
OrdersReducedKeepsFinished(id, qty) == [orders_ EXCEPT ![id].qty = @ - qty]

\* ... and what is left of the orders: a finished order is erased.
OrdersReduced(id, qty) ==
    IF orders_[id].qty = qty
    THEN Without(orders_, id)
    ELSE [orders_ EXCEPT ![id].qty = @ - qty]

\* Faulty variant: the update has the quantity of the order.
BookUpdateOfOrder(data, qty) ==
    [stock |-> data.stock, side |-> data.side, px |-> data.px,
     qty |-> data.qty, cxlreplx |-> FALSE, oldpx |-> 0, oldqty |-> 0]

BookUpdate(data, qty) ==
    [stock |-> data.stock, side |-> data.side, px |-> data.px, qty |-> qty,
     cxlreplx |-> FALSE, oldpx |-> 0, oldqty |-> 0]

\* The message is logged and skipped.
Skip == update' = NoUpdate /\ UNCHANGED <<orders_, books_, status>>

\* The message ends in an exception.
Throw(exception) == status' = exception /\ update' = NoUpdate
-----------------------------------------------------------------------------
(* handle_message(add_order_message), and add_order_mpid_message, which    *)
(* delegates to it.                                                        *)
add_order_message(id, stock, side, px, shares) ==
    LET data == [stock |-> stock, side |-> side, px |-> px, qty |-> shares]
        books == WithBook(books_, stock)
    IN  \/ /\ id \in DOMAIN orders_
           /\ Skip
        \/ /\ id \notin DOMAIN orders_
           /\ orders_' = With(orders_, id, data)
           /\ \/ /\ Rejected(px, shares)
                 /\ books_' = books
                 /\ Throw("add_rejected")
              \/ /\ ~Rejected(px, shares)
                 /\ books_' = handle_add_order(books, stock, side, px, shares)
                 /\ update' = BookUpdate(data, shares)
                 /\ UNCHANGED status

(* handle_order_reduction: order_executed, order_executed_price and        *)
(* order_cancel with their shares, order_delete with 0.                    *)
handle_order_reduction(id, shares) ==
    \/ /\ id \notin DOMAIN orders_
       /\ Skip
    \/ /\ id \in DOMAIN orders_
       /\ LET data == orders_[id]
              qty == ReducedQty(data, shares)
          IN  \/ /\ data.stock \notin DOMAIN books_   \* JB_ASSERT_THROW
                 /\ Throw("assert_failed")
                 /\ UNCHANGED <<orders_, books_>>
              \/ /\ data.stock \in DOMAIN books_
                 /\ orders_' = OrdersReduced(id, qty)
                 /\ \/ /\ data.px \notin DOMAIN books_[data.stock][data.side]
                       /\ Throw("reduce_failed")
                       /\ UNCHANGED books_
                    \/ /\ data.px \in DOMAIN books_[data.stock][data.side]
                       /\ books_' = handle_order_reduced(
                             books_, data.stock, data.side, data.px, qty)
                       /\ update' = BookUpdate(data, -qty)
                       /\ UNCHANGED status

(* handle_message(order_replace_message): the old order goes, the new one  *)
(* comes with the same security and side, and one callback reports both.   *)
order_replace_message(original, new, px, shares) ==
    \/ /\ original \notin DOMAIN orders_ \/ new \in DOMAIN orders_
       /\ Skip
    \/ /\ original \in DOMAIN orders_ /\ new \notin DOMAIN orders_
       /\ LET old == orders_[original]
              data == [old EXCEPT !.px = px, !.qty = shares]
              reduced == handle_order_reduced(
                            books_, old.stock, old.side, old.px, old.qty)
          IN  \/ /\ old.stock \notin DOMAIN books_    \* JB_ASSERT_THROW
                 /\ Throw("assert_failed")
                 /\ UNCHANGED <<orders_, books_>>
              \/ /\ old.stock \in DOMAIN books_
                 /\ old.px \notin DOMAIN books_[old.stock][old.side]
                 /\ orders_' = Without(orders_, original)
                 /\ Throw("reduce_failed")
                 /\ UNCHANGED books_
              \/ /\ old.stock \in DOMAIN books_
                 /\ old.px \in DOMAIN books_[old.stock][old.side]
                 /\ orders_' = With(Without(orders_, original), new, data)
                 /\ \/ /\ Rejected(px, shares)
                       /\ books_' = reduced
                       /\ Throw("add_rejected")
                    \/ /\ ~Rejected(px, shares)
                       /\ books_' = handle_add_order(
                             reduced, old.stock, old.side, px, shares)
                       /\ update' = [BookUpdate(data, shares) EXCEPT
                                        !.cxlreplx = TRUE,
                                        !.oldpx = old.px,
                                        !.oldqty = old.qty]
                       /\ UNCHANGED status

(* handle_message(stock_directory_message): books_.emplace, which keeps a  *)
(* book that is already there.                                             *)
stock_directory_message(stock) ==
    /\ books_' = WithBook(books_, stock)
    /\ update' = NoUpdate
    /\ UNCHANGED <<orders_, status>>

(* Every other message type is ignored.                                    *)
Next ==
    /\ status = "running"
    /\ \/ \E id \in OrderIds, stock \in Stocks, side \in Sides, px \in Prices,
             shares \in Shares : add_order_message(id, stock, side, px, shares)
       \/ \E id \in OrderIds, shares \in ReduceShares :
             handle_order_reduction(id, shares)
       \/ \E original, new \in OrderIds, px \in Prices, shares \in Shares :
             order_replace_message(original, new, px, shares)
       \/ \E stock \in Stocks : stock_directory_message(stock)

Spec == Init /\ [][Next]_vars
-----------------------------------------------------------------------------
\* order_book::best_bid and best_offer.
best_bid(book) ==
    IF DOMAIN book["B"] = {} THEN <<0, 0>>
    ELSE LET px == Max(DOMAIN book["B"]) IN <<px, book["B"][px]>>
best_offer(book) ==
    IF DOMAIN book["S"] = {} THEN <<PriceMax, 0>>
    ELSE LET px == Min(DOMAIN book["S"]) IN <<px, book["S"][px]>>

\* The live orders at a level.
OrdersAt(stock, side, px) ==
    {id \in DOMAIN orders_ : /\ orders_[id].stock = stock
                             /\ orders_[id].side = side
                             /\ orders_[id].px = px}
-----------------------------------------------------------------------------
(* The book is what the live orders add up to: a level exists just when a  *)
(* live order is there, and has the sum of their quantities.  Adds,        *)
(* executions, cancels, deletes and replaces all change both collections.  *)
BooksMatchOrders ==
    status = "running" =>
        /\ \A id \in DOMAIN orders_ : orders_[id].stock \in DOMAIN books_
        /\ \A stock \in DOMAIN books_, side \in Sides, px \in Prices :
              LET ids == OrdersAt(stock, side, px)
                  levels == books_[stock][side]
              IN  /\ px \in DOMAIN levels <=> ids # {}
                  /\ QtyIn(levels, px) =
                        SumFunctionOnSet([id \in ids |-> orders_[id].qty], ids)

(* "the book has to exist, since the original add_order created one if     *)
(* needed": the assertions hold, and no reduction of a known order ever    *)
(* asks the book for a level it does not have.                             *)
ReductionsSucceed == status \notin {"reduce_failed", "assert_failed"}

\* How an update says the level px of one side of one book has changed.
ReportedChange(u, stock, side, px) ==
    IF u = NoUpdate \/ u.stock # stock \/ u.side # side THEN 0
    ELSE (IF u.px = px THEN u.qty ELSE 0) -
         (IF u.cxlreplx /\ u.oldpx = px THEN u.oldqty ELSE 0)

(* "a representation of the update just applied to the book": the callback *)
(* accounts for every change of every level of every book, a replace with  *)
(* a single callback, and a message without a callback changes no level.   *)
UpdateExplainsBooks ==
    [][status' = "running" =>
        \A stock \in DOMAIN books_', side \in Sides, px \in Prices :
            LET before == IF stock \in DOMAIN books_
                          THEN QtyIn(books_[stock][side], px) ELSE 0
            IN  QtyIn(books_'[stock][side], px) - before =
                    ReportedChange(update', stock, side, px)]_vars
=============================================================================

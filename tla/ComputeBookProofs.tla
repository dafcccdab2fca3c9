------------------------- MODULE ComputeBookProofs -------------------------
(***************************************************************************)
(* compute_book and the output layers behind it, for any orders,           *)
(* securities and prices.  The books are what the live orders add up to,   *)
(* no reduction fails, and every update tells the change it comes from.    *)
(* The output layers decide after the update, from the new book and the    *)
(* update, so the proofs of what their readers know go back from these to  *)
(* the book before.                                                        *)
(***************************************************************************)
EXTENDS InsideOutput, FoldLemmas

(* A map based book takes an order of no shares.  Its level goes when the  *)
(* shares of the other orders there are gone, and the next message about   *)
(* the empty order finds no level.  An array based book rejects the order. *)
UsableOrders == ValidatingBook \/ 0 \notin Shares

OrderData == [stock : Stocks, side : Sides, px : Prices, qty : Nat \ {0}]

OrdersTyped(orders) ==
    orders \in [DOMAIN orders -> OrderData] /\ IsFiniteSet(DOMAIN orders)

LevelsTyped(levels) ==
    levels \in [DOMAIN levels -> Nat \ {0}] /\ DOMAIN levels \subseteq Prices

BooksTyped(books) ==
    /\ books = [stock \in DOMAIN books |-> books[stock]]
    /\ DOMAIN books \subseteq Stocks
    /\ \A stock \in DOMAIN books :
          /\ books[stock] = [side \in Sides |-> books[stock][side]]
          /\ \A side \in Sides : LevelsTyped(books[stock][side])

\* The level an order is at, the orders at a level, and their sum.
IsAt(data, stock, side, px) ==
    data.stock = stock /\ data.side = side /\ data.px = px

IdsAt(orders, stock, side, px) ==
    {id \in DOMAIN orders : IsAt(orders[id], stock, side, px)}

Quantities(orders, ids) == [id \in ids |-> orders[id].qty]

Total(orders, stock, side, px) ==
    LET ids == IdsAt(orders, stock, side, px)
    IN  SumFunctionOnSet(Quantities(orders, ids), ids)

(* Orders and books in step, as values: a replace goes through a pair of   *)
(* them that no state shows.                                               *)
InStep(orders, books) ==
    /\ OrdersTyped(orders)
    /\ BooksTyped(books)
    /\ \A id \in DOMAIN orders : orders[id].stock \in DOMAIN books
    /\ \A stock \in DOMAIN books, side \in Sides, px \in Prices :
          QtyIn(books[stock][side], px) = Total(orders, stock, side, px)

IInv ==
    /\ status \in {"running", "add_rejected"}
    /\ status = "running" => InStep(orders_, books_)

\* What do_reduce leaves of the orders.
Reduced(orders, id, qty) ==
    IF orders[id].qty = qty THEN Without(orders, id)
    ELSE [orders EXCEPT ![id].qty = @ - qty]

\* One order, or the level of one order, changes.
AddsOrder(os, orders, id, data) ==
    id \notin DOMAIN orders /\ os = With(orders, id, data)
TakesFromOrder(os, orders, id, qty) ==
    id \in DOMAIN orders /\ os = Reduced(orders, id, qty)
AddsToBook(bs, books, data, qty) ==
    /\ data.stock \in DOMAIN books
    /\ bs = handle_add_order(books, data.stock, data.side, data.px, qty)
TakesFromBook(bs, books, data, qty) ==
    /\ data.stock \in DOMAIN books
    /\ bs = handle_order_reduced(books, data.stock, data.side, data.px, qty)

\* ... and only the total, or the quantity, of its level with it.
TotalsChange(os, orders, data, change) ==
    \A stock, side, px : Total(os, stock, side, px) =
        Total(orders, stock, side, px)
           + IF IsAt(data, stock, side, px) THEN change ELSE 0
LevelsChange(bs, books, data, change) ==
    /\ DOMAIN bs = DOMAIN books
    /\ \A stock \in DOMAIN books, side \in Sides : \A px :
          QtyIn(bs[stock][side], px) = QtyIn(books[stock][side], px)
             + IF IsAt(data, stock, side, px) THEN change ELSE 0

\* The sum of the orders at a level but one.
TotalWithout(orders, stock, side, px, id) ==
    LET ids == IdsAt(orders, stock, side, px) \ {id}
    IN  SumFunctionOnSet(Quantities(orders, ids), ids)
-----------------------------------------------------------------------------
USE ComputeBookAssumption

(* Orders: totals.                                                         *)
LEMMA IdsFinite ==
  ASSUME NEW orders, OrdersTyped(orders), NEW stock, NEW side, NEW px
  PROVE  /\ IsFiniteSet(IdsAt(orders, stock, side, px))
         /\ \A id \in IdsAt(orders, stock, side, px) :
               Quantities(orders, IdsAt(orders, stock, side, px))[id]
                  \in Nat \ {0}
<1>1. IdsAt(orders, stock, side, px) \in SUBSET (DOMAIN orders)
  BY DEF IdsAt
<1>2. \A id \in DOMAIN orders : orders[id].qty \in Nat \ {0}
  BY DEF OrdersTyped, OrderData
<1> QED
  BY <1>1, <1>2, FS_Subset DEF OrdersTyped, Quantities

LEMMA TotalPositive ==
  ASSUME NEW orders, OrdersTyped(orders), NEW stock, NEW side, NEW px
  PROVE  /\ Total(orders, stock, side, px) \in Nat
         /\ Total(orders, stock, side, px) > 0
               <=> IdsAt(orders, stock, side, px) # {}
<1> DEFINE ids == IdsAt(orders, stock, side, px)
           f == Quantities(orders, ids)
<1>1. IsFiniteSet(ids) /\ \A id \in ids : f[id] \in Nat \ {0}
  BY IdsFinite
<1>2. Total(orders, stock, side, px) = SumFunctionOnSet(f, ids)
  BY DEF Total
<1> HIDE DEF ids, f
<1>3. SumFunctionOnSet(f, ids) \in Nat
  BY <1>1, SumIsNat
<1>4. ASSUME ids = {} PROVE SumFunctionOnSet(f, ids) = 0
  BY <1>4, FS_EmptySet, SumUnfolded
<1>5. ASSUME NEW id \in ids PROVE SumFunctionOnSet(f, ids) > 0
  <2>1. f[id] <= SumFunctionOnSet(f, ids)
    BY <1>1, SumAtLeast
  <2>2. f[id] \in Nat \ {0}
    BY <1>1
  <2> QED
    BY <1>3, <2>1, <2>2
<1>6. SumFunctionOnSet(f, ids) > 0 <=> ids # {}
  BY <1>3, <1>4, <1>5
<1> QED
  BY <1>2, <1>3, <1>6 DEF ids

\* The sum of the same orders of two collections.
LEMMA TotalSame ==
  ASSUME NEW orders, OrdersTyped(orders), NEW other,
         NEW ids \in SUBSET (DOMAIN orders),
         \A id \in ids : other[id].qty = orders[id].qty
  PROVE  SumFunctionOnSet(Quantities(other, ids), ids)
            = SumFunctionOnSet(Quantities(orders, ids), ids)
<1>1. IsFiniteSet(ids)
  BY FS_Subset DEF OrdersTyped
<1>2. \A id \in ids : Quantities(other, ids)[id] = Quantities(orders, ids)[id]
  BY DEF Quantities
<1> QED
  BY <1>1, <1>2, SumSame

\* The sum of the orders at a level, one of them apart.
LEMMA TotalBut ==
  ASSUME NEW orders, OrdersTyped(orders), NEW stock, NEW side, NEW px,
         NEW id \in IdsAt(orders, stock, side, px)
  PROVE  /\ TotalWithout(orders, stock, side, px, id) \in Nat
         /\ Total(orders, stock, side, px) =
               orders[id].qty + TotalWithout(orders, stock, side, px, id)
<1> DEFINE ids == IdsAt(orders, stock, side, px)
           rest == ids \ {id}
           f == Quantities(orders, ids)
           g == Quantities(orders, rest)
<1>1. IsFiniteSet(ids) /\ \A i \in ids : f[i] \in Nat \ {0}
  BY IdsFinite
<1>2. IsFiniteSet(rest)
  BY <1>1, FS_RemoveElement
<1>3. f[id] = orders[id].qty /\ \A i \in rest : f[i] = g[i] /\ g[i] \in Nat
  BY <1>1 DEF Quantities
<1>4. /\ Total(orders, stock, side, px) = SumFunctionOnSet(f, ids)
      /\ TotalWithout(orders, stock, side, px, id) = SumFunctionOnSet(g, rest)
  BY DEF Total, TotalWithout
<1> HIDE DEF ids, f, g
<1>5. SumFunctionOnSet(f, ids) = f[id] + SumFunctionOnSet(f, rest)
  BY <1>1, SumRemove DEF ids
<1> HIDE DEF rest
<1>6. SumFunctionOnSet(f, rest) = SumFunctionOnSet(g, rest)
  BY <1>2, <1>3, SumSame
<1>7. SumFunctionOnSet(g, rest) \in Nat
  BY <1>2, <1>3, SumIsNat
<1> QED
  BY <1>3, <1>4, <1>5, <1>6, <1>7

LEMMA OrderAdded ==
  ASSUME NEW orders, OrdersTyped(orders), NEW id, NEW data \in OrderData,
         NEW other, AddsOrder(other, orders, id, data)
  PROVE  OrdersTyped(other) /\ TotalsChange(other, orders, data, data.qty)
<1>0. id \notin DOMAIN orders /\ other = With(orders, id, data)
  BY DEF AddsOrder
<1>1. /\ DOMAIN other = DOMAIN orders \cup {id} /\ other[id] = data
      /\ \A i \in DOMAIN orders : other[i] = orders[i]
  BY <1>0 DEF With
<1>2. OrdersTyped(other)
  <2>1. other \in [DOMAIN other -> OrderData]
    BY <1>0 DEF With, OrdersTyped
  <2>2. IsFiniteSet(DOMAIN other)
    BY <1>1, FS_AddElement DEF OrdersTyped
  <2> QED
    BY <2>1, <2>2 DEF OrdersTyped
<1>3. ASSUME NEW stock, NEW side, NEW px
      PROVE  Total(other, stock, side, px) = Total(orders, stock, side, px)
                + IF IsAt(data, stock, side, px) THEN data.qty ELSE 0
  <2> DEFINE ids == IdsAt(orders, stock, side, px)
             sum == SumFunctionOnSet(Quantities(other, ids), ids)
  <2>1. ids \in SUBSET (DOMAIN orders) /\ \A i \in ids : other[i].qty = orders[i].qty
    BY <1>1 DEF IdsAt
  <2>2. sum = Total(orders, stock, side, px)
    BY <2>1, TotalSame DEF Total
  <2>3. Total(orders, stock, side, px) \in Nat
    BY TotalPositive
  <2>4. CASE IsAt(data, stock, side, px)
    <3>1. id \in IdsAt(other, stock, side, px)
      BY <1>1, <2>4 DEF IdsAt
    <3>2. IdsAt(other, stock, side, px) \ {id} = ids
      BY <1>0, <1>1 DEF IdsAt
    <3>3. TotalWithout(other, stock, side, px, id) = sum
      BY <3>2 DEF TotalWithout
    <3>4. Total(other, stock, side, px) =
             other[id].qty + TotalWithout(other, stock, side, px, id)
      BY <1>2, <3>1, TotalBut
    <3>5. data.qty \in Nat
      BY DEF OrderData
    <3> HIDE DEF sum
    <3> QED
      BY <1>1, <2>2, <2>3, <2>4, <3>3, <3>4, <3>5
  <2>5. CASE ~ IsAt(data, stock, side, px)
    <3>1. IdsAt(other, stock, side, px) = ids
      BY <1>0, <1>1, <2>5 DEF IdsAt
    <3>2. Total(other, stock, side, px) = Total(orders, stock, side, px)
      BY <2>2, <3>1 DEF Total
    <3> QED
      BY <2>3, <2>5, <3>2
  <2> QED
    BY <2>4, <2>5
<1> QED
  BY <1>1, <1>2, <1>3 DEF TotalsChange

LEMMA OrderReduced ==
  ASSUME NEW orders, OrdersTyped(orders), NEW id, NEW data, data = orders[id],
         NEW qty \in 1..data.qty, NEW other,
         TakesFromOrder(other, orders, id, qty)
  PROVE  /\ OrdersTyped(other)
         /\ DOMAIN other \subseteq DOMAIN orders
         /\ \A i \in DOMAIN other : other[i].stock = orders[i].stock
         /\ TotalsChange(other, orders, data, -qty)
<1>0. id \in DOMAIN orders /\ other = Reduced(orders, id, qty)
  BY DEF TakesFromOrder
<1>1. data \in OrderData /\ data.qty \in Nat \ {0} /\ qty \in Nat \ {0}
  BY <1>0 DEF OrdersTyped, OrderData
<1>2. CASE data.qty = qty
  <2>1. /\ DOMAIN other = DOMAIN orders \ {id}
        /\ \A i \in DOMAIN other : other[i] = orders[i]
    BY <1>0, <1>2 DEF Reduced, Without
  <2>2. OrdersTyped(other)
    <3>1. other \in [DOMAIN other -> OrderData]
      BY <1>0, <1>2 DEF Reduced, Without, OrdersTyped
    <3>2. IsFiniteSet(DOMAIN other)
      BY <2>1, FS_RemoveElement DEF OrdersTyped
    <3> QED
      BY <3>1, <3>2 DEF OrdersTyped
  <2>3. ASSUME NEW stock, NEW side, NEW px
        PROVE  Total(other, stock, side, px) = Total(orders, stock, side, px)
                  + IF IsAt(data, stock, side, px) THEN -qty ELSE 0
    <3> DEFINE ids == IdsAt(orders, stock, side, px)
               rest == ids \ {id}
    <3>1. IdsAt(other, stock, side, px) = rest
      BY <2>1 DEF IdsAt
    <3>2. rest \in SUBSET (DOMAIN orders)
          /\ \A i \in rest : other[i].qty = orders[i].qty
      BY <2>1 DEF IdsAt
    <3>3. Total(other, stock, side, px) =
             TotalWithout(orders, stock, side, px, id)
      BY <3>1, <3>2, TotalSame DEF Total, TotalWithout
    <3>4. CASE IsAt(data, stock, side, px)
      <4>1. id \in IdsAt(orders, stock, side, px)
        BY <1>0, <3>4 DEF IdsAt
      <4>2. /\ TotalWithout(orders, stock, side, px, id) \in Nat
            /\ Total(orders, stock, side, px) = data.qty
                  + TotalWithout(orders, stock, side, px, id)
        BY <4>1, TotalBut
      <4> QED
        BY <1>1, <1>2, <3>3, <3>4, <4>2
    <3>5. CASE ~ IsAt(data, stock, side, px)
      <4>1. rest = ids
        BY <3>5 DEF IdsAt
      <4>2. Total(other, stock, side, px) = Total(orders, stock, side, px)
        BY <3>3, <4>1 DEF Total, TotalWithout
      <4>3. Total(orders, stock, side, px) \in Nat
        BY TotalPositive
      <4> QED
        BY <3>5, <4>2, <4>3
    <3> QED
      BY <3>4, <3>5
  <2> QED
    BY <2>1, <2>2, <2>3 DEF TotalsChange
<1>3. CASE data.qty # qty
  <2> DEFINE left == [data EXCEPT !.qty = data.qty - qty]
  <2>1. /\ left \in OrderData /\ left.qty = data.qty - qty
        /\ left.stock = data.stock /\ left.side = data.side
        /\ left.px = data.px
    BY <1>1, <1>3 DEF OrderData
  <2>2. other = [orders EXCEPT ![id] = left]
    BY <1>0, <1>3 DEF Reduced
  <2>3. /\ DOMAIN other = DOMAIN orders /\ other[id] = left
        /\ \A i \in DOMAIN orders \ {id} : other[i] = orders[i]
    BY <1>0, <2>2 DEF OrdersTyped
  <2>4. OrdersTyped(other)
    BY <2>1, <2>2, <2>3 DEF OrdersTyped
  <2> HIDE DEF left
  <2>5. ASSUME NEW stock, NEW side, NEW px
        PROVE  Total(other, stock, side, px) = Total(orders, stock, side, px)
                  + IF IsAt(data, stock, side, px) THEN -qty ELSE 0
    <3> DEFINE ids == IdsAt(orders, stock, side, px)
               rest == ids \ {id}
    <3>1. IdsAt(other, stock, side, px) = ids
      BY <1>0, <2>1, <2>3 DEF IdsAt, IsAt
    <3>2. rest \in SUBSET (DOMAIN orders)
          /\ \A i \in rest : other[i].qty = orders[i].qty
      BY <2>3 DEF IdsAt
    <3>3. TotalWithout(other, stock, side, px, id) =
             TotalWithout(orders, stock, side, px, id)
      BY <3>1, <3>2, TotalSame DEF TotalWithout
    <3>4. CASE IsAt(data, stock, side, px)
      <4>1. id \in IdsAt(orders, stock, side, px)
        BY <1>0, <3>4 DEF IdsAt
      <4>2. /\ TotalWithout(orders, stock, side, px, id) \in Nat
            /\ Total(orders, stock, side, px) = data.qty
                  + TotalWithout(orders, stock, side, px, id)
        BY <4>1, TotalBut
      <4>3. id \in IdsAt(other, stock, side, px)
        BY <3>1, <4>1
      <4>4. Total(other, stock, side, px) = other[id].qty
               + TotalWithout(other, stock, side, px, id)
        BY <2>4, <4>3, TotalBut
      <4> QED
        BY <1>1, <2>1, <2>3, <3>3, <3>4, <4>2, <4>4
    <3>5. CASE ~ IsAt(data, stock, side, px)
      <4>1. rest = ids
        BY <3>5 DEF IdsAt
      <4>2. Total(other, stock, side, px) = Total(orders, stock, side, px)
        BY <3>1, <3>3, <4>1 DEF Total, TotalWithout
      <4>3. Total(orders, stock, side, px) \in Nat
        BY TotalPositive
      <4> QED
        BY <3>5, <4>2, <4>3
    <3> QED
      BY <3>4, <3>5
  <2> QED
    BY <1>3, <2>1, <2>3, <2>4, <2>5 DEF TotalsChange
<1> QED
  BY <1>2, <1>3
-----------------------------------------------------------------------------
(* Levels: what a map has after an addition and a subtraction.             *)
LEMMA LevelAdded ==
  ASSUME NEW levels, LevelsTyped(levels), NEW px \in Prices,
         NEW qty \in Nat \ {0}
  PROVE  /\ LevelsTyped(Added(levels, px, qty))
         /\ \A p : QtyIn(Added(levels, px, qty), p) =
                      QtyIn(levels, p) + IF p = px THEN qty ELSE 0
<1> DEFINE other == Added(levels, px, qty)
<1>1. \A p : QtyIn(levels, p) \in Nat
  BY DEF QtyIn, LevelsTyped
<1>2. /\ DOMAIN other = DOMAIN levels \cup {px}
      /\ \A p \in DOMAIN other :
            other[p] = IF p = px THEN QtyIn(levels, px) + qty ELSE levels[p]
  BY DEF Added
<1>3. QtyIn(levels, px) + qty \in Nat \ {0}
  BY <1>1
<1>4. other \in [DOMAIN other -> Nat \ {0}]
  BY <1>2, <1>3 DEF Added, LevelsTyped
<1>5. DOMAIN other \subseteq Prices
  BY <1>2 DEF LevelsTyped
<1> HIDE DEF other
<1>6. ASSUME NEW p
      PROVE  QtyIn(other, p) = QtyIn(levels, p) + IF p = px THEN qty ELSE 0
  <2>1. QtyIn(levels, p) \in Nat
    BY <1>1
  <2>2. CASE p = px
    BY <1>2, <2>2 DEF QtyIn
  <2>3. CASE p # px
    <3>1. QtyIn(other, p) = QtyIn(levels, p)
      BY <1>2, <2>3 DEF QtyIn
    <3> QED
      BY <2>1, <2>3, <3>1
  <2> QED
    BY <2>2, <2>3
<1> QED
  BY <1>4, <1>5, <1>6 DEF LevelsTyped, other

LEMMA LevelSubtracted ==
  ASSUME NEW levels, LevelsTyped(levels), NEW px \in DOMAIN levels,
         NEW qty \in Nat, qty <= levels[px]
  PROVE  /\ LevelsTyped(Subtracted(levels, px, qty))
         /\ \A p : QtyIn(Subtracted(levels, px, qty), p) =
                      QtyIn(levels, p) - IF p = px THEN qty ELSE 0
<1> DEFINE other == Subtracted(levels, px, qty)
<1>1. levels[px] \in Nat \ {0} /\ \A p : QtyIn(levels, p) \in Nat
  BY DEF QtyIn, LevelsTyped
<1>2. CASE levels[px] = qty
  <2>1. /\ DOMAIN other = DOMAIN levels \ {px}
        /\ \A p \in DOMAIN other : other[p] = levels[p]
    BY <1>1, <1>2 DEF Subtracted
  <2>2. LevelsTyped(other)
    BY <1>1, <1>2 DEF Subtracted, LevelsTyped
  <2> HIDE DEF other
  <2>3. ASSUME NEW p
        PROVE  QtyIn(other, p) = QtyIn(levels, p) - IF p = px THEN qty ELSE 0
    <3>1. QtyIn(levels, p) \in Nat
      BY <1>1
    <3>2. CASE p = px
      BY <1>1, <1>2, <2>1, <3>2 DEF QtyIn
    <3>3. CASE p # px
      <4>1. QtyIn(other, p) = QtyIn(levels, p)
        BY <2>1, <3>3 DEF QtyIn
      <4> QED
        BY <3>1, <3>3, <4>1
    <3> QED
      BY <3>2, <3>3
  <2> QED
    BY <2>2, <2>3 DEF other
<1>3. CASE levels[px] # qty
  <2>1. other = [levels EXCEPT ![px] = levels[px] - qty]
    BY <1>1, <1>3 DEF Subtracted
  <2>2. levels[px] - qty \in Nat \ {0}
    BY <1>1, <1>3
  <2>3. /\ DOMAIN other = DOMAIN levels
        /\ other[px] = levels[px] - qty
        /\ \A p \in DOMAIN levels \ {px} : other[p] = levels[p]
    BY <2>1
  <2>4. LevelsTyped(other)
    BY <2>1, <2>2, <2>3 DEF LevelsTyped
  <2> HIDE DEF other
  <2>5. ASSUME NEW p
        PROVE  QtyIn(other, p) = QtyIn(levels, p) - IF p = px THEN qty ELSE 0
    <3>1. QtyIn(levels, p) \in Nat
      BY <1>1
    <3>2. CASE p = px
      BY <1>1, <2>3, <3>2 DEF QtyIn
    <3>3. CASE p # px
      <4>1. QtyIn(other, p) = QtyIn(levels, p)
        BY <2>3, <3>3 DEF QtyIn
      <4> QED
        BY <3>1, <3>3, <4>1
    <3> QED
      BY <3>2, <3>3
  <2> QED
    BY <2>4, <2>5 DEF other
<1> QED
  BY <1>2, <1>3
-----------------------------------------------------------------------------
(* Books: one level of one side of one book changes.                       *)
LEMMA BookAdded ==
  ASSUME NEW books, BooksTyped(books), NEW data \in OrderData,
         NEW qty \in Nat \ {0}, NEW other, AddsToBook(other, books, data, qty)
  PROVE  BooksTyped(other) /\ LevelsChange(other, books, data, qty)
<1> DEFINE stock == data.stock
           side == data.side
           px == data.px
           levels == books[stock][side]
           level == Added(levels, px, qty)
<1>0. /\ stock \in DOMAIN books /\ side \in Sides /\ px \in Prices
      /\ other = handle_add_order(books, stock, side, px, qty)
      /\ \A s, d, p : IsAt(data, s, d, p) <=> s = stock /\ d = side /\ p = px
  BY DEF AddsToBook, OrderData, IsAt
<1> HIDE DEF stock, side, px
<1>1. LevelsTyped(levels)
  BY <1>0 DEF BooksTyped
<1>2. /\ LevelsTyped(level)
      /\ \A p : QtyIn(level, p) = QtyIn(levels, p) + IF p = px THEN qty ELSE 0
  BY <1>0, <1>1, LevelAdded
<1>3. other = [books EXCEPT ![stock] = [books[stock] EXCEPT ![side] = level]]
  BY <1>0 DEF handle_add_order
<1> HIDE DEF level
<1>4. /\ DOMAIN other = DOMAIN books
      /\ other = [s \in DOMAIN other |-> other[s]]
      /\ \A s \in DOMAIN books :
            other[s] = [d \in Sides |-> IF s = stock /\ d = side THEN level
                                                          ELSE books[s][d]]
  BY <1>0, <1>3 DEF BooksTyped
<1>5. BooksTyped(other)
  BY <1>2, <1>4 DEF BooksTyped
<1>6. ASSUME NEW s \in DOMAIN books, NEW d \in Sides, NEW p
      PROVE  QtyIn(other[s][d], p) = QtyIn(books[s][d], p)
                + IF IsAt(data, s, d, p) THEN qty ELSE 0
  <2>1. QtyIn(books[s][d], p) \in Nat
    BY DEF BooksTyped, LevelsTyped, QtyIn
  <2>2. CASE s = stock /\ d = side
    BY <1>0, <1>2, <1>4, <2>2
  <2>3. CASE ~ (s = stock /\ d = side)
    BY <1>0, <1>4, <2>1, <2>3
  <2> QED
    BY <2>2, <2>3
<1> QED
  BY <1>4, <1>5, <1>6 DEF LevelsChange

LEMMA BookSubtracted ==
  ASSUME NEW books, BooksTyped(books), NEW data \in OrderData,
         data.px \in DOMAIN books[data.stock][data.side],
         NEW qty \in Nat, qty <= books[data.stock][data.side][data.px],
         NEW other, TakesFromBook(other, books, data, qty)
  PROVE  BooksTyped(other) /\ LevelsChange(other, books, data, -qty)
<1> DEFINE stock == data.stock
           side == data.side
           px == data.px
           levels == books[stock][side]
           level == Subtracted(levels, px, qty)
<1>0. /\ stock \in DOMAIN books /\ side \in Sides
      /\ px \in DOMAIN levels /\ qty <= levels[px]
      /\ other = handle_order_reduced(books, stock, side, px, qty)
      /\ \A s, d, p : IsAt(data, s, d, p) <=> s = stock /\ d = side /\ p = px
  BY DEF TakesFromBook, OrderData, IsAt
<1> HIDE DEF stock, side, px
<1>1. LevelsTyped(levels)
  BY <1>0 DEF BooksTyped
<1>2. /\ LevelsTyped(level)
      /\ \A p : QtyIn(level, p) = QtyIn(levels, p) - IF p = px THEN qty ELSE 0
  BY <1>0, <1>1, LevelSubtracted
<1>3. other = [books EXCEPT ![stock] = [books[stock] EXCEPT ![side] = level]]
  BY <1>0 DEF handle_order_reduced
<1> HIDE DEF level
<1>4. /\ DOMAIN other = DOMAIN books
      /\ other = [s \in DOMAIN other |-> other[s]]
      /\ \A s \in DOMAIN books :
            other[s] = [d \in Sides |-> IF s = stock /\ d = side THEN level
                                                          ELSE books[s][d]]
  <2>1. stock \in DOMAIN books /\ side \in Sides
    BY <1>0
  <2> QED
    BY <1>3, <2>1 DEF BooksTyped
<1>5. BooksTyped(other)
  BY <1>2, <1>4 DEF BooksTyped
<1>6. ASSUME NEW s \in DOMAIN books, NEW d \in Sides, NEW p
      PROVE  QtyIn(other[s][d], p) = QtyIn(books[s][d], p)
                + IF IsAt(data, s, d, p) THEN -qty ELSE 0
  <2>1. QtyIn(books[s][d], p) \in Nat
    BY DEF BooksTyped, LevelsTyped, QtyIn
  <2>2. CASE s = stock /\ d = side
    BY <1>0, <1>2, <1>4, <2>1, <2>2
  <2>3. CASE ~ (s = stock /\ d = side)
    BY <1>0, <1>4, <2>1, <2>3
  <2> QED
    BY <2>2, <2>3
<1> QED
  BY <1>4, <1>5, <1>6 DEF LevelsChange

\* A book that is not there is as good as an empty one.
QtyOf(books, stock, side, px) ==
    IF stock \in DOMAIN books THEN QtyIn(books[stock][side], px) ELSE 0

LEMMA BookEnsured ==
  ASSUME NEW books, BooksTyped(books), NEW stock \in Stocks
  PROVE  LET other == WithBook(books, stock)
         IN  /\ BooksTyped(other) /\ DOMAIN other = DOMAIN books \cup {stock}
             /\ \A s \in DOMAIN other, d \in Sides : \A p :
                   QtyIn(other[s][d], p) = QtyOf(books, s, d, p)
<1> DEFINE other == WithBook(books, stock)
<1>1. CASE stock \in DOMAIN books
  <2>1. other = books
    BY <1>1 DEF WithBook
  <2> HIDE DEF other
  <2> QED
    BY <1>1, <2>1 DEF QtyOf, other
<1>2. CASE stock \notin DOMAIN books
  <2>1. /\ DOMAIN other = DOMAIN books \cup {stock}
        /\ other = [s \in DOMAIN other |-> other[s]]
        /\ other[stock] = [d \in Sides |-> << >>]
        /\ \A s \in DOMAIN books : other[s] = books[s]
    BY <1>2 DEF WithBook, With, EmptyBook
  <2> HIDE DEF other
  <2>2. LevelsTyped(<< >>) /\ \A p : QtyIn(<< >>, p) = 0
    BY DEF LevelsTyped, QtyIn
  <2>3. BooksTyped(other)
    BY <1>2, <2>1, <2>2 DEF BooksTyped
  <2>4. ASSUME NEW s \in DOMAIN other, NEW d \in Sides, NEW p
        PROVE  QtyIn(other[s][d], p) = QtyOf(books, s, d, p)
    BY <1>2, <2>1, <2>2 DEF QtyOf
  <2> QED
    BY <2>1, <2>3, <2>4 DEF other
<1> QED
  BY <1>1, <1>2
-----------------------------------------------------------------------------
(* Orders and books together.                                              *)
\* A security without a book has no orders.
LEMMA QtyIsTotal ==
  ASSUME NEW orders, NEW books, InStep(orders, books),
         NEW stock, NEW side \in Sides, NEW px \in Prices
  PROVE  /\ QtyOf(books, stock, side, px) = Total(orders, stock, side, px)
         /\ QtyOf(books, stock, side, px) \in Nat
<1> USE DEF InStep
<1>1. Total(orders, stock, side, px) \in Nat
  BY TotalPositive
<1>2. CASE stock \in DOMAIN books
  BY <1>1, <1>2 DEF QtyOf
<1>3. CASE stock \notin DOMAIN books
  <2>1. IdsAt(orders, stock, side, px) = {}
    BY <1>3 DEF IdsAt, IsAt
  <2>2. Total(orders, stock, side, px) = 0
    BY <1>1, <2>1, TotalPositive
  <2> QED
    BY <1>3, <2>2 DEF QtyOf
<1> QED
  BY <1>2, <1>3

LEMMA EnsureInStep ==
  ASSUME NEW orders, NEW books, InStep(orders, books), NEW stock \in Stocks
  PROVE  InStep(orders, WithBook(books, stock))
<1> DEFINE other == WithBook(books, stock)
<1>1. OrdersTyped(orders) /\ BooksTyped(books)
  BY DEF InStep
<1>2. /\ BooksTyped(other) /\ DOMAIN other = DOMAIN books \cup {stock}
      /\ \A s \in DOMAIN other, d \in Sides : \A p :
            QtyIn(other[s][d], p) = QtyOf(books, s, d, p)
  BY <1>1, BookEnsured
<1> HIDE DEF other
<1>3. ASSUME NEW s \in DOMAIN other, NEW d \in Sides, NEW p \in Prices
      PROVE  QtyIn(other[s][d], p) = Total(orders, s, d, p)
  BY <1>2, QtyIsTotal
<1>4. \A id \in DOMAIN orders : orders[id].stock \in DOMAIN other
  BY <1>2 DEF InStep
<1> QED
  BY <1>1, <1>2, <1>3, <1>4 DEF InStep, other

LEMMA ChangeInStep ==
  ASSUME NEW orders, NEW books, InStep(orders, books),
         NEW os, NEW bs, OrdersTyped(os), BooksTyped(bs),
         NEW data, NEW change, TotalsChange(os, orders, data, change),
         LevelsChange(bs, books, data, change),
         \A id \in DOMAIN os : os[id].stock \in DOMAIN books
  PROVE  InStep(os, bs)
<1>1. DOMAIN bs = DOMAIN books
  BY DEF LevelsChange
<1>2. ASSUME NEW stock \in DOMAIN bs, NEW side \in Sides, NEW px \in Prices
      PROVE  QtyIn(bs[stock][side], px) = Total(os, stock, side, px)
  <2>1. QtyIn(books[stock][side], px) = Total(orders, stock, side, px)
    BY <1>1 DEF InStep
  <2>2. Total(os, stock, side, px) = Total(orders, stock, side, px)
           + IF IsAt(data, stock, side, px) THEN change ELSE 0
    BY DEF TotalsChange
  <2>3. QtyIn(bs[stock][side], px) = QtyIn(books[stock][side], px)
           + IF IsAt(data, stock, side, px) THEN change ELSE 0
    BY <1>1 DEF LevelsChange
  <2> QED
    BY <2>1, <2>2, <2>3
<1> QED
  BY <1>1, <1>2 DEF InStep

LEMMA AddInStep ==
  ASSUME NEW orders, NEW books, InStep(orders, books),
         NEW id, NEW data \in OrderData,
         NEW os, AddsOrder(os, orders, id, data),
         NEW bs, AddsToBook(bs, books, data, data.qty)
  PROVE  InStep(os, bs) /\ LevelsChange(bs, books, data, data.qty)
<1>1. /\ data.qty \in Nat \ {0} /\ data.stock \in DOMAIN books
      /\ OrdersTyped(orders) /\ BooksTyped(books)
  BY DEF OrderData, InStep, AddsToBook
<1>2. OrdersTyped(os) /\ TotalsChange(os, orders, data, data.qty)
  BY <1>1, OrderAdded
<1>3. BooksTyped(bs) /\ LevelsChange(bs, books, data, data.qty)
  BY <1>1, BookAdded
<1>4. \A i \in DOMAIN os : os[i].stock \in DOMAIN books
  BY <1>1 DEF InStep, AddsOrder, With
<1> QED
  BY <1>2, <1>3, <1>4, ChangeInStep

\* The level of a live order is there and has at least its quantity.
LEMMA LevelOfOrder ==
  ASSUME NEW orders, NEW books, InStep(orders, books), NEW id \in DOMAIN orders
  PROVE  LET data == orders[id]
         IN  /\ data \in OrderData
             /\ data.stock \in DOMAIN books
             /\ data.px \in DOMAIN books[data.stock][data.side]
             /\ data.qty <= books[data.stock][data.side][data.px]
<1> DEFINE data == orders[id]
           levels == books[data.stock][data.side]
           total == Total(orders, data.stock, data.side, data.px)
           sum == TotalWithout(orders, data.stock, data.side, data.px, id)
<1>1. /\ OrdersTyped(orders) /\ data \in OrderData /\ data.stock \in DOMAIN books
      /\ data.side \in Sides /\ data.px \in Prices /\ data.qty \in Nat \ {0}
  BY DEF InStep, OrdersTyped, OrderData
<1>2. id \in IdsAt(orders, data.stock, data.side, data.px)
  BY DEF IdsAt, IsAt
<1>3. sum \in Nat /\ total = data.qty + sum
  BY <1>1, <1>2, TotalBut
<1>4. QtyIn(levels, data.px) = total
  BY <1>1 DEF InStep
<1> HIDE DEF data, levels, total, sum
<1>5. data.qty <= QtyIn(levels, data.px) /\ QtyIn(levels, data.px) # 0
  BY <1>1, <1>3, <1>4
<1>6. data.px \in DOMAIN levels /\ data.qty <= levels[data.px]
  BY <1>5 DEF QtyIn
<1> QED
  BY <1>1, <1>6 DEF data, levels

LEMMA ReduceInStep ==
  ASSUME NEW orders, NEW books, InStep(orders, books),
         NEW id, NEW data, data = orders[id], NEW qty \in 1..data.qty,
         NEW os, TakesFromOrder(os, orders, id, qty),
         NEW bs, TakesFromBook(bs, books, data, qty)
  PROVE  InStep(os, bs) /\ LevelsChange(bs, books, data, -qty)
<1>0. id \in DOMAIN orders
  BY DEF TakesFromOrder
<1>1. /\ OrdersTyped(orders) /\ BooksTyped(books) /\ data \in OrderData
      /\ data.stock \in DOMAIN books /\ data.side \in Sides
      /\ data.px \in DOMAIN books[data.stock][data.side]
      /\ data.qty <= books[data.stock][data.side][data.px]
      /\ data.qty \in Nat
  BY <1>0, LevelOfOrder DEF InStep, OrderData
<1>2. /\ OrdersTyped(os) /\ DOMAIN os \subseteq DOMAIN orders
      /\ \A i \in DOMAIN os : os[i].stock = orders[i].stock
      /\ TotalsChange(os, orders, data, -qty)
  BY <1>1, OrderReduced
<1>3. qty \in Nat /\ qty <= books[data.stock][data.side][data.px]
  <2>1. books[data.stock][data.side][data.px] \in Nat
    BY <1>1 DEF BooksTyped, LevelsTyped
  <2> QED
    BY <1>1, <2>1
<1>4. BooksTyped(bs) /\ LevelsChange(bs, books, data, -qty)
  BY <1>1, <1>3, BookSubtracted
<1>5. \A i \in DOMAIN os : os[i].stock \in DOMAIN books
  BY <1>2 DEF InStep
<1> QED
  BY <1>2, <1>4, <1>5, ChangeInStep
-----------------------------------------------------------------------------
(* Updates: what they say of a level.                                      *)
\* What UpdateExplainsBooks asks of a step, of its values.
Explains(u, bs, books) ==
    \A stock \in DOMAIN bs, side \in Sides, px \in Prices :
        QtyIn(bs[stock][side], px) - QtyOf(books, stock, side, px) =
            ReportedChange(u, stock, side, px)

LEMMA NothingExplained ==
  ASSUME NEW orders, NEW books, InStep(orders, books),
         NEW bs, \A stock \in DOMAIN bs, side \in Sides : \A px :
                    QtyIn(bs[stock][side], px) = QtyOf(books, stock, side, px)
  PROVE  Explains(NoUpdate, bs, books)
<1> SUFFICES ASSUME NEW stock \in DOMAIN bs, NEW side \in Sides, NEW px \in Prices
             PROVE  QtyIn(bs[stock][side], px) - QtyOf(books, stock, side, px) =
                       ReportedChange(NoUpdate, stock, side, px)
  BY DEF Explains
<1>1. QtyOf(books, stock, side, px) \in Nat
  BY QtyIsTotal
<1>2. QtyIn(bs[stock][side], px) = QtyOf(books, stock, side, px)
  OBVIOUS
<1>3. ReportedChange(NoUpdate, stock, side, px) = 0
  BY DEF ReportedChange
<1> QED
  BY <1>1, <1>2, <1>3

LEMMA UpdateReports ==
  ASSUME NEW data \in OrderData, NEW change \in Int,
         NEW stock, NEW side, NEW px
  PROVE  ReportedChange(BookUpdate(data, change), stock, side, px) =
            IF IsAt(data, stock, side, px) THEN change ELSE 0
<1> DEFINE u == BookUpdate(data, change)
<1>1. /\ u.stock = data.stock /\ u.side = data.side /\ u.px = data.px
      /\ u.qty = change /\ u.cxlreplx = FALSE
  BY DEF BookUpdate
<1>2. u # NoUpdate
  <2>1. u \in Updates
    BY DEF BookUpdate, Updates, OrderData
  <2> QED
    BY <2>1, NoUpdateAssumption
<1> HIDE DEF u
<1>3. ReportedChange(u, stock, side, px) =
         IF IsAt(data, stock, side, px) THEN change ELSE 0
  BY <1>1, <1>2 DEF ReportedChange, IsAt
<1> QED
  BY <1>3 DEF u

\* The update of a replace.
ReplaceUpdate(old, data) ==
    [BookUpdate(data, data.qty) EXCEPT
        !.cxlreplx = TRUE, !.oldpx = old.px, !.oldqty = old.qty]

LEMMA ReplaceReports ==
  ASSUME NEW old \in OrderData, NEW data \in OrderData,
         data.stock = old.stock, data.side = old.side,
         NEW stock, NEW side, NEW px
  PROVE  ReportedChange(ReplaceUpdate(old, data), stock, side, px) =
            (IF IsAt(data, stock, side, px) THEN data.qty ELSE 0)
               - (IF IsAt(old, stock, side, px) THEN old.qty ELSE 0)
<1> DEFINE u == ReplaceUpdate(old, data)
<1>1. u = [stock |-> data.stock, side |-> data.side, px |-> data.px,
           qty |-> data.qty, cxlreplx |-> TRUE, oldpx |-> old.px,
           oldqty |-> old.qty]
  <2> DEFINE added == BookUpdate(data, data.qty)
  <2>1. added = [stock |-> data.stock, side |-> data.side, px |-> data.px,
                 qty |-> data.qty, cxlreplx |-> FALSE, oldpx |-> 0,
                 oldqty |-> 0]
    BY DEF BookUpdate
  <2>2. u = [added EXCEPT !.cxlreplx = TRUE, !.oldpx = old.px,
                          !.oldqty = old.qty]
    BY DEF ReplaceUpdate
  <2> HIDE DEF added, u
  <2> QED
    BY <2>1, <2>2
<1>2. /\ data.stock \in Stocks /\ data.side \in Sides /\ data.px \in Prices
      /\ data.qty \in Nat /\ old.qty \in Nat /\ old.px \in Nat
  <2>1. Prices \subseteq Nat
    OBVIOUS
  <2> QED
    BY <2>1 DEF OrderData
<1> HIDE DEF u
<1>3. u # NoUpdate
  <2>1. u \in Updates
    BY <1>1, <1>2 DEF Updates
  <2> QED
    BY <2>1, NoUpdateAssumption
<1>4. /\ u.stock = old.stock /\ u.side = old.side /\ u.px = data.px
      /\ u.qty = data.qty /\ u.cxlreplx = TRUE
      /\ u.oldpx = old.px /\ u.oldqty = old.qty
  BY <1>1
<1>5. ReportedChange(u, stock, side, px) =
         (IF IsAt(data, stock, side, px) THEN data.qty ELSE 0)
            - (IF IsAt(old, stock, side, px) THEN old.qty ELSE 0)
  <2>1. CASE stock = old.stock /\ side = old.side
    BY <1>2, <1>3, <1>4, <2>1 DEF ReportedChange, IsAt
  <2>2. CASE ~ (stock = old.stock /\ side = old.side)
    BY <1>3, <1>4, <2>2 DEF ReportedChange, IsAt
  <2> QED
    BY <2>1, <2>2
<1> QED
  BY <1>5 DEF u

LEMMA ChangeExplained ==
  ASSUME NEW orders, NEW books, InStep(orders, books),
         NEW data \in OrderData, NEW change \in Int,
         NEW before, \A stock \in DOMAIN before, side \in Sides : \A px :
             QtyIn(before[stock][side], px) = QtyOf(books, stock, side, px),
         NEW bs, LevelsChange(bs, before, data, change)
  PROVE  Explains(BookUpdate(data, change), bs, books)
<1> SUFFICES ASSUME NEW stock \in DOMAIN bs, NEW side \in Sides, NEW px \in Prices
             PROVE  QtyIn(bs[stock][side], px) - QtyOf(books, stock, side, px) =
                       ReportedChange(BookUpdate(data, change), stock, side, px)
  BY DEF Explains
<1>1. QtyOf(books, stock, side, px) \in Nat
  BY QtyIsTotal
<1>2. stock \in DOMAIN before
  BY DEF LevelsChange
<1>3. QtyIn(before[stock][side], px) = QtyOf(books, stock, side, px)
  BY <1>2
<1>4. QtyIn(bs[stock][side], px) = QtyIn(before[stock][side], px)
         + IF IsAt(data, stock, side, px) THEN change ELSE 0
  BY <1>2 DEF LevelsChange
<1>5. ReportedChange(BookUpdate(data, change), stock, side, px) =
         IF IsAt(data, stock, side, px) THEN change ELSE 0
  BY UpdateReports
<1> QED
  BY <1>1, <1>3, <1>4, <1>5
-----------------------------------------------------------------------------
(* Steps.                                                                  *)
Good == IInv' /\ (status' = "running" => Explains(update', books_', books_))

LEMMA StepIsGood ==
  ASSUME status = "running", status' = "running", InStep(orders_', books_'),
         Explains(update', books_', books_)
  PROVE  Good
  BY DEF Good, IInv

LEMMA ThrowIsGood ==
  ASSUME Throw("add_rejected")
  PROVE  Good
  BY DEF Good, IInv, Throw

LEMMA SkipIsGood ==
  ASSUME IInv, status = "running", Skip
  PROVE  Good
<1>1. InStep(orders_, books_)
  BY DEF IInv
<1>2. /\ orders_' = orders_ /\ books_' = books_ /\ status' = "running"
      /\ update' = NoUpdate
  BY DEF Skip
<1>3. \A stock \in DOMAIN books_, side \in Sides : \A px :
         QtyIn(books_[stock][side], px) = QtyOf(books_, stock, side, px)
  BY DEF QtyOf
<1>4. Explains(NoUpdate, books_, books_)
  BY <1>1, <1>3, NothingExplained
<1> QED
  BY <1>1, <1>2, <1>4, StepIsGood

LEMMA DirectoryIsGood ==
  ASSUME IInv, status = "running", NEW stock \in Stocks,
         stock_directory_message(stock)
  PROVE  Good
<1>1. InStep(orders_, books_) /\ BooksTyped(books_)
  BY DEF IInv, InStep
<1>2. /\ orders_' = orders_ /\ books_' = WithBook(books_, stock)
      /\ status' = "running" /\ update' = NoUpdate
  BY DEF stock_directory_message
<1>3. InStep(orders_', books_')
  BY <1>1, <1>2, EnsureInStep
<1>4. \A s \in DOMAIN books_', d \in Sides : \A p :
         QtyIn(books_'[s][d], p) = QtyOf(books_, s, d, p)
  <2> DEFINE books == WithBook(books_, stock)
  <2>1. \A s \in DOMAIN books, d \in Sides : \A p :
           QtyIn(books[s][d], p) = QtyOf(books_, s, d, p)
    BY <1>1, BookEnsured
  <2> QED
    BY <1>2, <2>1
<1>5. Explains(update', books_', books_)
  BY <1>1, <1>2, <1>4, NothingExplained
<1> QED
  BY <1>2, <1>3, <1>5, StepIsGood

LEMMA AddIsGood ==
  ASSUME IInv, status = "running", UsableOrders,
         NEW id \in OrderIds, NEW stock \in Stocks, NEW side \in Sides,
         NEW px \in Prices, NEW shares \in Shares,
         add_order_message(id, stock, side, px, shares)
  PROVE  Good
<1> DEFINE data == [stock |-> stock, side |-> side, px |-> px, qty |-> shares]
           books == WithBook(books_, stock)
<1>1. InStep(orders_, books_) /\ BooksTyped(books_)
  BY DEF IInv, InStep
<1>2. CASE Skip
  BY <1>2, SkipIsGood
<1>3. CASE Throw("add_rejected")
  BY <1>3, ThrowIsGood
<1>4. ASSUME id \notin DOMAIN orders_, orders_' = With(orders_, id, data),
             ~ Rejected(px, shares),
             books_' = handle_add_order(books, stock, side, px, shares),
             update' = BookUpdate(data, shares), status' = status
      PROVE  Good
  <2>1. data \in OrderData
    <3>1. shares \in Nat \ {0}
      BY <1>4 DEF Rejected, UsableOrders
    <3> QED
      BY <3>1 DEF OrderData
  <2>2. InStep(orders_, books)
    BY <1>1, EnsureInStep
  <2>3. /\ DOMAIN books = DOMAIN books_ \cup {stock}
        /\ \A s \in DOMAIN books, d \in Sides : \A p :
              QtyIn(books[s][d], p) = QtyOf(books_, s, d, p)
    BY <1>1, BookEnsured
  <2>4. /\ data.stock = stock /\ data.side = side /\ data.px = px
        /\ data.qty = shares
    OBVIOUS
  <2>5. shares \in Int
    OBVIOUS
  <2> HIDE DEF data, books
  <2>6. AddsOrder(orders_', orders_, id, data)
    BY <1>4 DEF AddsOrder
  <2>7. AddsToBook(books_', books, data, data.qty)
    BY <1>4, <2>3, <2>4 DEF AddsToBook
  <2>8. InStep(orders_', books_') /\ LevelsChange(books_', books, data, data.qty)
    BY <2>1, <2>2, <2>6, <2>7, AddInStep
  <2>9. Explains(BookUpdate(data, shares), books_', books_)
    BY <1>1, <2>1, <2>3, <2>4, <2>5, <2>8, ChangeExplained
  <2> QED
    BY <1>4, <2>8, <2>9, StepIsGood
<1> QED
  BY <1>2, <1>3, <1>4 DEF add_order_message

LEMMA ReductionIsGood ==
  ASSUME IInv, status = "running", NEW id \in OrderIds,
         NEW shares \in ReduceShares, handle_order_reduction(id, shares)
  PROVE  Good
<1> DEFINE data == orders_[id]
           qty == ReducedQty(data, shares)
<1>1. InStep(orders_, books_)
  BY DEF IInv
<1>2. CASE id \notin DOMAIN orders_
  BY <1>2, SkipIsGood DEF handle_order_reduction
<1>3. CASE id \in DOMAIN orders_
  <2>1. /\ data \in OrderData /\ data.stock \in DOMAIN books_
        /\ data.px \in DOMAIN books_[data.stock][data.side]
    BY <1>1, <1>3, LevelOfOrder
  <2>2. /\ orders_' = OrdersReduced(id, qty)
        /\ books_' = handle_order_reduced(books_, data.stock, data.side, data.px, qty)
        /\ update' = BookUpdate(data, -qty)
        /\ status' = status
    BY <1>3, <2>1 DEF handle_order_reduction
  <2>3. data.qty \in Nat \ {0} /\ shares \in Nat
    BY <2>1 DEF OrderData
  <2>4. qty \in 1..data.qty /\ -qty \in Int
    BY <2>3 DEF ReducedQty
  <2>5. TakesFromOrder(orders_', orders_, id, qty)
    BY <1>3, <2>2 DEF TakesFromOrder, OrdersReduced, Reduced
  <2> HIDE DEF qty
  <2>6. TakesFromBook(books_', books_, data, qty)
    BY <2>1, <2>2 DEF TakesFromBook
  <2>7. InStep(orders_', books_') /\ LevelsChange(books_', books_, data, -qty)
    BY <1>1, <2>4, <2>5, <2>6, ReduceInStep
  <2>8. \A s \in DOMAIN books_, d \in Sides : \A p :
           QtyIn(books_[s][d], p) = QtyOf(books_, s, d, p)
    BY DEF QtyOf
  <2>9. Explains(BookUpdate(data, -qty), books_', books_)
    BY <1>1, <2>1, <2>4, <2>7, <2>8, ChangeExplained
  <2> QED
    BY <2>2, <2>7, <2>9, StepIsGood
<1> QED
  BY <1>2, <1>3

LEMMA ReplaceIsGood ==
  ASSUME IInv, status = "running", UsableOrders,
         NEW original \in OrderIds, NEW new \in OrderIds,
         NEW px \in Prices, NEW shares \in Shares,
         order_replace_message(original, new, px, shares)
  PROVE  Good
<1> DEFINE old == orders_[original]
           data == [old EXCEPT !.px = px, !.qty = shares]
           left == Without(orders_, original)
           reduced == handle_order_reduced(
                         books_, old.stock, old.side, old.px, old.qty)
<1>1. InStep(orders_, books_)
  BY DEF IInv
<1>2. CASE original \notin DOMAIN orders_ \/ new \in DOMAIN orders_
  BY <1>2, SkipIsGood DEF order_replace_message
<1>3. CASE original \in DOMAIN orders_ /\ new \notin DOMAIN orders_
  <2>1. /\ old \in OrderData /\ old.stock \in DOMAIN books_
        /\ old.px \in DOMAIN books_[old.stock][old.side]
    BY <1>1, <1>3, LevelOfOrder
  <2>2. CASE Throw("add_rejected")
    BY <2>2, ThrowIsGood
  <2>3. CASE ~ Throw("add_rejected")
    <3>1. /\ ~ Rejected(px, shares)
          /\ orders_' = With(left, new, data)
          /\ books_' = handle_add_order(
                          reduced, old.stock, old.side, px, shares)
          /\ update' = [BookUpdate(data, shares) EXCEPT
                           !.cxlreplx = TRUE, !.oldpx = old.px, !.oldqty = old.qty]
          /\ status' = status
      BY <1>3, <2>1, <2>3 DEF order_replace_message
    <3>2. shares \in Nat \ {0}
      BY <3>1 DEF Rejected, UsableOrders
    <3>3. /\ data \in OrderData /\ data.stock = old.stock
          /\ data.side = old.side /\ data.px = px /\ data.qty = shares
      BY <2>1, <3>2 DEF OrderData
    <3>4. old.qty \in Nat \ {0} /\ old.qty \in 1..old.qty
      BY <2>1 DEF OrderData
    <3>5. TakesFromOrder(left, orders_, original, old.qty)
      BY <1>3 DEF TakesFromOrder, Reduced
    <3>6. new \notin DOMAIN left
      BY <1>3 DEF Without
    <3> HIDE DEF data, left
    <3>7. TakesFromBook(reduced, books_, old, old.qty)
      BY <2>1 DEF TakesFromBook
    <3> HIDE DEF reduced
    <3>8. InStep(left, reduced) /\ LevelsChange(reduced, books_, old, -old.qty)
      BY <1>1, <3>4, <3>5, <3>7, ReduceInStep
    <3>9. AddsOrder(orders_', left, new, data)
      BY <3>1, <3>6 DEF AddsOrder
    <3>10. AddsToBook(books_', reduced, data, data.qty)
      <4>1. data.stock \in DOMAIN reduced
        BY <2>1, <3>3, <3>8 DEF LevelsChange
      <4> QED
        BY <3>1, <3>3, <4>1 DEF AddsToBook
    <3>11. /\ InStep(orders_', books_')
           /\ LevelsChange(books_', reduced, data, data.qty)
      BY <3>3, <3>8, <3>9, <3>10, AddInStep
    <3>12. Explains(update', books_', books_)
      <4> SUFFICES ASSUME NEW s \in DOMAIN books_', NEW d \in Sides, NEW p \in Prices
                   PROVE  QtyIn(books_'[s][d], p) - QtyOf(books_, s, d, p) =
                             ReportedChange(update', s, d, p)
        BY DEF Explains
      <4>1. s \in DOMAIN reduced /\ s \in DOMAIN books_
        BY <3>8, <3>11 DEF LevelsChange
      <4>2. QtyIn(books_'[s][d], p) = QtyIn(reduced[s][d], p)
               + IF IsAt(data, s, d, p) THEN data.qty ELSE 0
        BY <3>11, <4>1 DEF LevelsChange
      <4>3. QtyIn(reduced[s][d], p) = QtyIn(books_[s][d], p)
               + IF IsAt(old, s, d, p) THEN -old.qty ELSE 0
        BY <3>8, <4>1 DEF LevelsChange
      <4>4. /\ QtyOf(books_, s, d, p) \in Nat
            /\ QtyOf(books_, s, d, p) = QtyIn(books_[s][d], p)
        BY <1>1, <4>1, QtyIsTotal DEF QtyOf
      <4>5. update' = ReplaceUpdate(old, data)
        BY <3>1, <3>3 DEF ReplaceUpdate
      <4>6. ReportedChange(update', s, d, p) =
               (IF IsAt(data, s, d, p) THEN data.qty ELSE 0)
                  - (IF IsAt(old, s, d, p) THEN old.qty ELSE 0)
        <5>1. ReportedChange(ReplaceUpdate(old, data), s, d, p) =
                 (IF IsAt(data, s, d, p) THEN data.qty ELSE 0)
                    - (IF IsAt(old, s, d, p) THEN old.qty ELSE 0)
          BY <2>1, <3>3, ReplaceReports
        <5> QED
          BY <4>5, <5>1
      <4>7. data.qty \in Nat /\ old.qty \in Nat
        BY <3>2, <3>3, <3>4
      <4> QED
        BY <4>2, <4>3, <4>4, <4>6, <4>7
    <3> QED
      BY <3>1, <3>11, <3>12, StepIsGood
  <2> QED
    BY <2>2, <2>3
<1> QED
  BY <1>2, <1>3

LEMMA NextIsGood ==
  ASSUME UsableOrders, IInv, Next
  PROVE  Good
<1>1. status = "running"
  BY DEF Next
<1> QED
  BY <1>1, AddIsGood, ReductionIsGood, ReplaceIsGood, DirectoryIsGood DEF Next
-----------------------------------------------------------------------------
LEMMA InitInStep == Init => IInv
<1> SUFFICES ASSUME Init PROVE IInv
  OBVIOUS
<1>1. orders_ = << >> /\ books_ = << >> /\ status = "running"
  BY DEF Init
<1>2. DOMAIN << >> = {}
  OBVIOUS
<1>3. OrdersTyped(<< >>)
  BY <1>2, FS_EmptySet DEF OrdersTyped
<1>4. BooksTyped(<< >>)
  BY <1>2 DEF BooksTyped
<1>5. InStep(<< >>, << >>)
  BY <1>2, <1>3, <1>4 DEF InStep
<1> QED
  BY <1>1, <1>5 DEF IInv

LEMMA IInvInductive ==
  ASSUME UsableOrders
  PROVE  IInv /\ [Next]_vars => IInv'
<1>1. ASSUME IInv, Next PROVE IInv'
  BY <1>1, NextIsGood DEF Good
<1>2. ASSUME IInv, UNCHANGED vars PROVE IInv'
  BY <1>2 DEF IInv, vars
<1> QED
  BY <1>1, <1>2

LEMMA IInvMatches == IInv => BooksMatchOrders
<1> SUFFICES ASSUME IInv, status = "running"
             PROVE  /\ \A id \in DOMAIN orders_ : orders_[id].stock \in DOMAIN books_
                    /\ \A stock \in DOMAIN books_, side \in Sides, px \in Prices :
                          LET ids == OrdersAt(stock, side, px)
                              levels == books_[stock][side]
                          IN  /\ px \in DOMAIN levels <=> ids # {}
                              /\ QtyIn(levels, px) =
                                    SumFunctionOnSet(
                                       [id \in ids |-> orders_[id].qty], ids)
  BY DEF BooksMatchOrders
<1>1. InStep(orders_, books_) /\ OrdersTyped(orders_) /\ BooksTyped(books_)
  BY DEF IInv, InStep
<1>2. ASSUME NEW stock \in DOMAIN books_, NEW side \in Sides, NEW px \in Prices
      PROVE  LET ids == OrdersAt(stock, side, px)
                 levels == books_[stock][side]
             IN  /\ px \in DOMAIN levels <=> ids # {}
                 /\ QtyIn(levels, px) =
                       SumFunctionOnSet([id \in ids |-> orders_[id].qty], ids)
  <2> DEFINE ids == OrdersAt(stock, side, px)
             levels == books_[stock][side]
             total == Total(orders_, stock, side, px)
  <2>1. ids = IdsAt(orders_, stock, side, px)
    BY DEF OrdersAt, IdsAt, IsAt
  <2>2. total = SumFunctionOnSet([id \in ids |-> orders_[id].qty], ids)
    BY <2>1 DEF Total, Quantities
  <2>3. QtyIn(levels, px) = total
    BY <1>1 DEF InStep
  <2>4. total \in Nat /\ (total > 0 <=> ids # {})
    BY <1>1, <2>1, TotalPositive
  <2>5. LevelsTyped(levels)
    BY <1>1 DEF BooksTyped
  <2> HIDE DEF ids, levels, total
  <2>6. px \in DOMAIN levels <=> QtyIn(levels, px) # 0
    BY <2>5 DEF LevelsTyped, QtyIn
  <2> QED
    BY <2>2, <2>3, <2>4, <2>6 DEF ids, levels
<1> QED
  BY <1>1, <1>2 DEF InStep

(* The books are what the live orders add up to: for any orders, prices    *)
(* and securities, a level is there just when an order is, and has the sum *)
(* of their shares.                                                        *)
THEOREM BooksMatch == UsableOrders => (Spec => []BooksMatchOrders)
<1> SUFFICES ASSUME UsableOrders PROVE Spec => []BooksMatchOrders
  OBVIOUS
<1> QED
  BY InitInStep, IInvInductive, IInvMatches, PTL DEF Spec

(* No reduction of a known order asks for a book or a level that is not    *)
(* there: the assertions of compute_book never fail.                       *)
THEOREM ReductionsAlwaysSucceed == UsableOrders => (Spec => []ReductionsSucceed)
<1> SUFFICES ASSUME UsableOrders PROVE Spec => []ReductionsSucceed
  OBVIOUS
<1>1. IInv => ReductionsSucceed
  BY DEF IInv, ReductionsSucceed
<1> QED
  BY <1>1, InitInStep, IInvInductive, PTL DEF Spec

(* Every callback accounts for every change of every level of every book.  *)
THEOREM UpdatesExplain == UsableOrders => (Spec => UpdateExplainsBooks)
<1> SUFFICES ASSUME UsableOrders PROVE Spec => UpdateExplainsBooks
  OBVIOUS
<1> DEFINE Explained ==
       status' = "running" =>
          \A stock \in DOMAIN books_', side \in Sides, px \in Prices :
             LET before == IF stock \in DOMAIN books_
                           THEN QtyIn(books_[stock][side], px) ELSE 0
             IN  QtyIn(books_'[stock][side], px) - before =
                    ReportedChange(update', stock, side, px)
<1>1. ASSUME IInv, Next PROVE Explained
  BY <1>1, NextIsGood DEF Good, Explains, QtyOf
<1>2. IInv /\ [Next]_vars => [Explained]_vars
  BY <1>1
<1> HIDE DEF Explained
<1>3. Spec => [][Explained]_vars
  BY <1>2, InitInStep, IInvInductive, PTL DEF Spec
<1> QED
  BY <1>3 DEF Explained, UpdateExplainsBooks
-----------------------------------------------------------------------------
(* The output layers.                                                      *)
USE ComputeBookAssumption

(* The best level of a side.                                               *)
Better(side, px, other) == IF side = "B" THEN px > other ELSE px < other

Best(book, side) == IF side = "B" THEN best_bid(book) ELSE best_offer(book)

\* The price of the inside of an empty side: no price is worse.
NoPrice(side) == IF side = "B" THEN 0 ELSE PriceMax

\* top is the best of the levels of a side: no other is better, and without
\* any it is no price.
IsTop(top, levels, side) ==
    /\ top = <<top[1], QtyIn(levels, top[1])>>
    /\ top[1] \in 0..PriceMax
    /\ \A px \in DOMAIN levels : ~ Better(side, px, top[1])
    /\ top[1] \notin DOMAIN levels =>
          DOMAIN levels = {} /\ top[1] = NoPrice(side)

LEMMA BestIsTop ==
  ASSUME NEW book, NEW side \in Sides, LevelsTyped(book[side])
  PROVE  IsTop(Best(book, side), book[side], side)
<1> DEFINE levels == book[side]
           top == Best(book, side)
<1>1. /\ DOMAIN levels \in SUBSET (0..PriceMax)
      /\ DOMAIN levels \subseteq Prices /\ Prices \subseteq 1..PriceMax
  <2>1. DOMAIN levels \subseteq Prices /\ Prices \subseteq 1..PriceMax
    BY DEF LevelsTyped
  <2>2. 1..PriceMax \subseteq 0..PriceMax
    OBVIOUS
  <2> HIDE DEF levels
  <2> QED
    BY <2>1, <2>2
<1>2. CASE DOMAIN levels = {}
  <2>1. top = <<NoPrice(side), 0>>
    BY <1>2 DEF Best, best_bid, best_offer, Sides, NoPrice
  <2>2. NoPrice(side) \in 0..PriceMax
    BY DEF NoPrice
  <2> HIDE DEF top, levels
  <2> QED
    BY <1>2, <2>1, <2>2 DEF IsTop, QtyIn, top, levels
<1>3. CASE DOMAIN levels # {}
  <2> DEFINE px == IF side = "B" THEN Max(DOMAIN levels) ELSE Min(DOMAIN levels)
  <2>1. top = <<px, levels[px]>>
    BY <1>3 DEF Best, best_bid, best_offer, Sides
  <2> HIDE DEF top, levels
  <2>2. /\ Max(DOMAIN levels) \in DOMAIN levels
        /\ \A x \in DOMAIN levels : Max(DOMAIN levels) >= x
        /\ Min(DOMAIN levels) \in DOMAIN levels
        /\ \A x \in DOMAIN levels : Min(DOMAIN levels) <= x
    BY <1>1, <1>3, MaxMin
  <2>3. px \in DOMAIN levels /\ \A x \in DOMAIN levels : ~ Better(side, x, px)
    BY <1>1, <2>2 DEF Better
  <2> HIDE DEF px
  <2> QED
    BY <1>1, <2>1, <2>3 DEF IsTop, QtyIn, top, levels
<1> QED
  BY <1>2, <1>3

\* Maps with the same quantities are the same.
LEMMA SameLevels ==
  ASSUME NEW levels, LevelsTyped(levels), NEW other, LevelsTyped(other),
         \A px \in Prices : QtyIn(levels, px) = QtyIn(other, px)
  PROVE  levels = other
<1>1. \A px : px \in DOMAIN levels <=> px \in Prices /\ QtyIn(levels, px) # 0
  BY DEF LevelsTyped, QtyIn
<1>2. \A px : px \in DOMAIN other <=> px \in Prices /\ QtyIn(other, px) # 0
  BY DEF LevelsTyped, QtyIn
<1>3. DOMAIN levels = DOMAIN other
  BY <1>1, <1>2
<1>4. \A px \in DOMAIN levels : levels[px] = other[px]
  BY <1>3 DEF LevelsTyped, QtyIn
<1> QED
  BY <1>3, <1>4 DEF LevelsTyped

(* What an update does to the levels of a side, seen from its best level.  *)
\* A best level that is new, or larger, is at the price of the update.
LEMMA NewTop ==
  ASSUME NEW side \in Sides, NEW levels, LevelsTyped(levels),
         NEW other, LevelsTyped(other),
         NEW top, IsTop(top, levels, side), NEW now, IsTop(now, other, side),
         Better(side, now[1], top[1])
  PROVE  now[1] \in Prices /\ QtyIn(other, now[1]) > 0 /\ QtyIn(levels, now[1]) = 0
<1>1. now[1] \in DOMAIN other
  BY DEF IsTop, Better, NoPrice
<1>2. now[1] \notin DOMAIN levels
  BY DEF IsTop
<1> QED
  BY <1>1, <1>2 DEF LevelsTyped, QtyIn

\* The level px has changed, and no other.
ChangedAt(px, levels, other) ==
    /\ QtyIn(other, px) # QtyIn(levels, px)
    /\ \A x \in Prices : x # px => QtyIn(other, x) = QtyIn(levels, x)

\* One level changes: the best one is another, or has another quantity, just
\* when it is not better than the level that changed.
LEMMA TopDetected ==
  ASSUME NEW side \in Sides, NEW levels, LevelsTyped(levels),
         NEW other, LevelsTyped(other),
         NEW top, IsTop(top, levels, side), NEW now, IsTop(now, other, side),
         NEW px \in Prices, ChangedAt(px, levels, other)
  PROVE  ~ Better(side, now[1], px) <=> top # now
<1>1. /\ \A x : x \in DOMAIN levels <=> x \in Prices /\ QtyIn(levels, x) # 0
      /\ \A x : x \in DOMAIN other <=> x \in Prices /\ QtyIn(other, x) # 0
  BY DEF LevelsTyped, QtyIn
<1>2. /\ top = <<top[1], QtyIn(levels, top[1])>> /\ top[1] \in Int
      /\ now = <<now[1], QtyIn(other, now[1])>> /\ now[1] \in Int
      /\ px \in Int
  BY DEF IsTop
<1>3. ASSUME Better(side, now[1], px) PROVE top = now
  <2>1. now[1] \in DOMAIN other /\ now[1] # px
    BY <1>3 DEF IsTop, Better, NoPrice
  <2>2. now[1] \in DOMAIN levels /\ QtyIn(levels, now[1]) = QtyIn(other, now[1])
    BY <1>1, <2>1 DEF ChangedAt
  <2>3. \A x \in DOMAIN levels : ~ Better(side, x, now[1])
    <3> SUFFICES ASSUME NEW x \in DOMAIN levels, Better(side, x, now[1])
                 PROVE  FALSE
      OBVIOUS
    <3>1. x \in Int /\ x # px
      BY <1>1, <1>2, <1>3 DEF Better
    <3>2. x \in DOMAIN other
      BY <1>1, <3>1 DEF ChangedAt
    <3> QED
      BY <3>2 DEF IsTop
  <2>4. top[1] \in DOMAIN levels
    BY <2>2 DEF IsTop
  <2>5. ~ Better(side, top[1], now[1]) /\ ~ Better(side, now[1], top[1])
    BY <2>2, <2>3, <2>4 DEF IsTop
  <2>6. top[1] = now[1]
    BY <1>2, <2>5 DEF Better
  <2> QED
    BY <1>2, <2>2, <2>6
<1>4. ASSUME ~ Better(side, now[1], px), top = now PROVE FALSE
  <2>1. QtyIn(levels, top[1]) = QtyIn(other, top[1])
    BY <1>2, <1>4
  <2>2. px # top[1]
    BY <2>1 DEF ChangedAt
  <2>3. Better(side, px, top[1])
    BY <1>2, <1>4, <2>2 DEF Better
  <2>4. px \notin DOMAIN levels /\ px \notin DOMAIN other
    BY <1>4, <2>3 DEF IsTop
  <2> QED
    BY <1>1, <2>4 DEF ChangedAt
<1> QED
  BY <1>3, <1>4
-----------------------------------------------------------------------------
(* Steps of compute_book, as the callback sees them.                       *)
\* What every update says.
UpdateTyped(u) ==
    /\ u.stock \in Stocks /\ u.side \in Sides /\ u.px \in Prices
    /\ u.qty \in Int /\ u.qty # 0
    /\ u.cxlreplx \in BOOLEAN
    /\ u.cxlreplx => u.qty > 0 /\ u.oldqty \in Nat

\* A callback is made by a message that succeeds, for a book that exists.
Informed ==
    /\ DOMAIN books_ \subseteq DOMAIN books_'
    /\ update' # NoUpdate =>
          /\ UpdateTyped(update')
          /\ update'.stock \in DOMAIN books_'
          /\ status' = "running"

LEMMA BookUpdateTyped ==
  ASSUME NEW data \in OrderData, NEW change \in Int, change # 0
  PROVE  UpdateTyped(BookUpdate(data, change))
<1> DEFINE u == BookUpdate(data, change)
<1>1. /\ u.stock = data.stock /\ u.side = data.side /\ u.px = data.px
      /\ u.qty = change /\ u.cxlreplx = FALSE
  BY DEF BookUpdate
<1> HIDE DEF u
<1>2. data.stock \in Stocks /\ data.side \in Sides /\ data.px \in Prices
  BY DEF OrderData
<1>3. UpdateTyped(u)
  BY <1>1, <1>2 DEF UpdateTyped
<1> QED
  BY <1>3 DEF u

LEMMA AddInforms ==
  ASSUME IInv, status = "running", UsableOrders,
         NEW id \in OrderIds, NEW stock \in Stocks, NEW side \in Sides,
         NEW px \in Prices, NEW shares \in Shares,
         add_order_message(id, stock, side, px, shares)
  PROVE  Informed
<1> DEFINE data == [stock |-> stock, side |-> side, px |-> px, qty |-> shares]
           books == WithBook(books_, stock)
<1>1. DOMAIN books_ \subseteq DOMAIN books /\ stock \in DOMAIN books
  BY DEF WithBook, With
<1>2. CASE Skip
  BY <1>2 DEF Skip, Informed
<1>3. CASE books_' = books /\ Throw("add_rejected")
  BY <1>1, <1>3 DEF Throw, Informed
<1>4. ASSUME ~ Rejected(px, shares),
             books_' = handle_add_order(books, stock, side, px, shares),
             update' = BookUpdate(data, shares), status' = status
      PROVE  Informed
  <2>1. shares \in Nat \ {0} /\ data \in OrderData
    <3>1. shares \in Nat \ {0}
      BY <1>4 DEF Rejected, UsableOrders
    <3> QED
      BY <3>1 DEF OrderData
  <2>2. data.stock = stock
    OBVIOUS
  <2> HIDE DEF data, books
  <2>3. DOMAIN books_' = DOMAIN books
    BY <1>4 DEF handle_add_order
  <2>4. UpdateTyped(update')
    BY <1>4, <2>1, BookUpdateTyped
  <2>5. update'.stock = stock
    BY <1>4, <2>2 DEF BookUpdate
  <2> QED
    BY <1>1, <1>4, <2>3, <2>4, <2>5 DEF Informed
<1> QED
  BY <1>2, <1>3, <1>4 DEF add_order_message

LEMMA ReductionInforms ==
  ASSUME IInv, status = "running", NEW id \in OrderIds,
         NEW shares \in ReduceShares, handle_order_reduction(id, shares)
  PROVE  Informed
<1> DEFINE data == orders_[id]
           qty == ReducedQty(data, shares)
<1>1. InStep(orders_, books_)
  BY DEF IInv
<1>2. CASE id \notin DOMAIN orders_
  BY <1>2 DEF handle_order_reduction, Skip, Informed
<1>3. CASE id \in DOMAIN orders_
  <2>1. /\ data \in OrderData /\ data.stock \in DOMAIN books_
        /\ data.px \in DOMAIN books_[data.stock][data.side]
    BY <1>1, <1>3, LevelOfOrder
  <2>2. /\ books_' = handle_order_reduced(books_, data.stock, data.side, data.px, qty)
        /\ update' = BookUpdate(data, -qty)
        /\ status' = status
    BY <1>3, <2>1 DEF handle_order_reduction
  <2>3. data.qty \in Nat \ {0} /\ shares \in Nat
    BY <2>1 DEF OrderData
  <2>4. -qty \in Int /\ -qty # 0
    BY <2>3 DEF ReducedQty
  <2> HIDE DEF data, qty
  <2>5. DOMAIN books_' = DOMAIN books_
    BY <2>2 DEF handle_order_reduced
  <2>6. UpdateTyped(update')
    BY <2>1, <2>2, <2>4, BookUpdateTyped
  <2>7. update'.stock = data.stock
    BY <2>2 DEF BookUpdate
  <2> QED
    BY <2>1, <2>2, <2>5, <2>6, <2>7 DEF Informed
<1> QED
  BY <1>2, <1>3

LEMMA ReplaceInforms ==
  ASSUME IInv, status = "running", UsableOrders,
         NEW original \in OrderIds, NEW new \in OrderIds,
         NEW px \in Prices, NEW shares \in Shares,
         order_replace_message(original, new, px, shares)
  PROVE  Informed
<1> DEFINE old == orders_[original]
           data == [old EXCEPT !.px = px, !.qty = shares]
           reduced == handle_order_reduced(
                         books_, old.stock, old.side, old.px, old.qty)
<1>1. InStep(orders_, books_)
  BY DEF IInv
<1>2. CASE original \notin DOMAIN orders_ \/ new \in DOMAIN orders_
  BY <1>2 DEF order_replace_message, Skip, Informed
<1>3. CASE original \in DOMAIN orders_ /\ new \notin DOMAIN orders_
  <2>1. /\ old \in OrderData /\ old.stock \in DOMAIN books_
        /\ old.px \in DOMAIN books_[old.stock][old.side]
    BY <1>1, <1>3, LevelOfOrder
  <2>2. DOMAIN reduced = DOMAIN books_
    BY DEF handle_order_reduced
  <2>3. CASE books_' = reduced /\ Throw("add_rejected")
    BY <2>2, <2>3 DEF Throw, Informed
  <2>4. CASE ~ (books_' = reduced /\ Throw("add_rejected"))
    <3>1. /\ ~ Rejected(px, shares)
          /\ books_' = handle_add_order(
                          reduced, old.stock, old.side, px, shares)
          /\ update' = [BookUpdate(data, shares) EXCEPT
                           !.cxlreplx = TRUE, !.oldpx = old.px, !.oldqty = old.qty]
          /\ status' = status
      BY <1>3, <2>1, <2>4 DEF order_replace_message
    <3>2. shares \in Nat \ {0}
      BY <3>1 DEF Rejected, UsableOrders
    <3>3. /\ data.stock = old.stock /\ data.side = old.side /\ data.px = px
          /\ old.stock \in Stocks /\ old.side \in Sides /\ old.qty \in Nat
      BY <2>1 DEF OrderData
    <3> HIDE DEF data, old
    <3>4. update' = [stock |-> data.stock, side |-> data.side, px |-> data.px,
                     qty |-> shares, cxlreplx |-> TRUE, oldpx |-> old.px,
                     oldqty |-> old.qty]
      BY <3>1 DEF BookUpdate
    <3>5. UpdateTyped(update') /\ update'.stock = old.stock
      BY <3>2, <3>3, <3>4 DEF UpdateTyped
    <3> HIDE DEF reduced
    <3>6. DOMAIN books_' = DOMAIN books_
      BY <2>2, <3>1 DEF handle_add_order
    <3> QED
      BY <2>1, <3>1, <3>5, <3>6 DEF Informed, old
  <2> QED
    BY <2>3, <2>4
<1> QED
  BY <1>2, <1>3

LEMMA NextInforms ==
  ASSUME UsableOrders, IInv, Next
  PROVE  Informed
<1>1. status = "running"
  BY DEF Next
<1>2. ASSUME NEW stock \in Stocks, stock_directory_message(stock)
      PROVE  Informed
  BY <1>2 DEF stock_directory_message, WithBook, With, Informed
<1> QED
  BY <1>1, <1>2, AddInforms, ReductionInforms, ReplaceInforms DEF Next
-----------------------------------------------------------------------------
(* The books before and after a message.                                   *)
BookOf(books, stock) ==
    IF stock \in DOMAIN books THEN books[stock] ELSE EmptyBook

BookStep(u, bs, books) ==
    /\ BooksTyped(books) /\ BooksTyped(bs)
    /\ DOMAIN books \subseteq DOMAIN bs
    /\ Explains(u, bs, books)
    /\ u # NoUpdate => UpdateTyped(u) /\ u.stock \in DOMAIN bs

LEMMA BookOfTyped ==
  ASSUME NEW books, BooksTyped(books), NEW stock, NEW side \in Sides
  PROVE  /\ LevelsTyped(BookOf(books, stock)[side])
         /\ IsTop(Best(BookOf(books, stock), side),
                  BookOf(books, stock)[side], side)
         /\ \A px : /\ QtyIn(BookOf(books, stock)[side], px) =
                           QtyOf(books, stock, side, px)
                    /\ QtyOf(books, stock, side, px) \in Nat
<1>1. LevelsTyped(<< >>) /\ \A px : QtyIn(<< >>, px) = 0
  BY DEF LevelsTyped, QtyIn
<1>2. LevelsTyped(BookOf(books, stock)[side])
  BY <1>1 DEF BooksTyped, BookOf, EmptyBook
<1>3. ASSUME NEW px
      PROVE  /\ QtyIn(BookOf(books, stock)[side], px) =
                   QtyOf(books, stock, side, px)
             /\ QtyOf(books, stock, side, px) \in Nat
  <2>1. QtyIn(BookOf(books, stock)[side], px) \in Nat
    BY <1>2 DEF LevelsTyped, QtyIn
  <2>2. QtyIn(BookOf(books, stock)[side], px) = QtyOf(books, stock, side, px)
    BY <1>1 DEF BookOf, EmptyBook, QtyOf
  <2> QED
    BY <2>1, <2>2
<1> QED
  BY <1>2, <1>3, BestIsTop

\* What the update says of a level is how it has changed.
LEMMA LevelExplained ==
  ASSUME NEW u, NEW bs, NEW books, BookStep(u, bs, books),
         NEW stock \in DOMAIN bs, NEW side \in Sides, NEW px \in Prices
  PROVE  QtyIn(BookOf(bs, stock)[side], px) =
            QtyIn(BookOf(books, stock)[side], px)
               + ReportedChange(u, stock, side, px)
<1>1. BooksTyped(books) /\ BooksTyped(bs)
  BY DEF BookStep
<1>2. QtyIn(bs[stock][side], px) - QtyOf(books, stock, side, px) =
         ReportedChange(u, stock, side, px)
  BY DEF BookStep, Explains
<1>3. /\ QtyIn(BookOf(books, stock)[side], px) = QtyOf(books, stock, side, px)
      /\ QtyOf(books, stock, side, px) \in Nat
  BY <1>1, BookOfTyped
<1>4. /\ QtyIn(BookOf(bs, stock)[side], px) = QtyIn(bs[stock][side], px)
      /\ QtyIn(bs[stock][side], px) \in Nat
  <2>1. BookOf(bs, stock) = bs[stock]
    BY DEF BookOf
  <2> QED
    BY <1>1, <2>1, BookOfTyped DEF QtyOf
<1> QED
  BY <1>2, <1>3, <1>4

LEMMA OtherSideKept ==
  ASSUME NEW u, NEW bs, NEW books, BookStep(u, bs, books),
         NEW stock, NEW side \in Sides,
         u = NoUpdate \/ u.stock # stock \/ u.side # side
  PROVE  BookOf(bs, stock)[side] = BookOf(books, stock)[side]
<1> DEFINE levels == BookOf(books, stock)[side]
           other == BookOf(bs, stock)[side]
<1>1. BooksTyped(books) /\ BooksTyped(bs) /\ DOMAIN books \subseteq DOMAIN bs
  BY DEF BookStep
<1>2. CASE stock \in DOMAIN bs
  <2>1. LevelsTyped(levels) /\ LevelsTyped(other)
    BY <1>1, BookOfTyped
  <2>2. ASSUME NEW px \in Prices PROVE QtyIn(other, px) = QtyIn(levels, px)
    <3>1. QtyIn(other, px) = QtyIn(levels, px) + ReportedChange(u, stock, side, px)
      BY <1>2, LevelExplained
    <3>2. ReportedChange(u, stock, side, px) = 0
      BY DEF ReportedChange
    <3>3. QtyIn(levels, px) \in Nat
      BY <2>1 DEF LevelsTyped, QtyIn
    <3> HIDE DEF levels, other
    <3> QED
      BY <3>1, <3>2, <3>3
  <2> HIDE DEF levels, other
  <2>3. levels = other
    BY <2>1, <2>2, SameLevels
  <2> QED
    BY <2>3 DEF levels, other
<1>3. CASE stock \notin DOMAIN bs
  BY <1>1, <1>3 DEF BookOf
<1> QED
  BY <1>2, <1>3

LEMMA OtherBookKept ==
  ASSUME NEW u, NEW bs, NEW books, BookStep(u, bs, books),
         NEW stock, u = NoUpdate \/ u.stock # stock
  PROVE  Inside(BookOf(bs, stock)) = Inside(BookOf(books, stock))
<1>1. /\ BookOf(bs, stock)["B"] = BookOf(books, stock)["B"]
      /\ BookOf(bs, stock)["S"] = BookOf(books, stock)["S"]
  BY OtherSideKept DEF Sides
<1> QED
  BY <1>1 DEF Inside, best_bid, best_offer

\* An update that is not at the new inside has not made it better.
LEMMA NotAtInside ==
  ASSUME NEW u, NEW bs, NEW books, BookStep(u, bs, books),
         NEW stock, NEW side \in Sides,
         u = NoUpdate \/ ~ UpdateIsAtInside(bs[u.stock], u)
  PROVE  ~ Better(side, Best(BookOf(bs, stock), side)[1],
                        Best(BookOf(books, stock), side)[1])
<1> DEFINE levels == BookOf(books, stock)[side]
           other == BookOf(bs, stock)[side]
           top == Best(BookOf(books, stock), side)
           now == Best(BookOf(bs, stock), side)
<1> SUFFICES ASSUME Better(side, now[1], top[1]) PROVE FALSE
  OBVIOUS
<1>1. BooksTyped(books) /\ BooksTyped(bs)
  BY DEF BookStep
<1>2. /\ LevelsTyped(levels) /\ LevelsTyped(other)
      /\ IsTop(top, levels, side) /\ IsTop(now, other, side)
  BY <1>1, BookOfTyped
<1> HIDE DEF levels, other, top, now
<1>3. /\ now[1] \in Prices
      /\ QtyIn(other, now[1]) > 0 /\ QtyIn(levels, now[1]) = 0
  BY <1>2, NewTop
<1>4. levels # other
  BY <1>3
<1>5. u # NoUpdate /\ u.stock = stock /\ u.side = side
  BY <1>4, OtherSideKept DEF levels, other
<1>6. stock \in DOMAIN bs /\ UpdateTyped(u)
  BY <1>5 DEF BookStep
<1>7. QtyIn(other, now[1]) =
         QtyIn(levels, now[1]) + ReportedChange(u, stock, side, now[1])
  <2>1. \A px \in Prices : QtyIn(other, px) =
           QtyIn(levels, px) + ReportedChange(u, stock, side, px)
    BY <1>6, LevelExplained DEF levels, other
  <2> QED
    BY <1>3, <2>1
<1>8. u.px = now[1]
  <2> SUFFICES ASSUME u.px # now[1] PROVE FALSE
    OBVIOUS
  <2>1. ReportedChange(u, stock, side, now[1]) =
           0 - (IF u.cxlreplx /\ u.oldpx = now[1] THEN u.oldqty ELSE 0)
    BY <1>5 DEF ReportedChange
  <2>2. u.cxlreplx => u.oldqty \in Nat
    BY <1>6 DEF UpdateTyped
  <2>3. CASE u.cxlreplx /\ u.oldpx = now[1]
    BY <1>3, <1>7, <2>1, <2>2, <2>3
  <2>4. CASE ~ (u.cxlreplx /\ u.oldpx = now[1])
    BY <1>3, <1>7, <2>1, <2>4
  <2> QED
    BY <2>3, <2>4
<1>9. BookOf(bs, stock) = bs[u.stock]
  BY <1>5, <1>6 DEF BookOf
<1>10. UpdateIsAtInside(bs[u.stock], u)
  BY <1>5, <1>8, <1>9 DEF UpdateIsAtInside, now, Best, Sides
<1> QED
  BY <1>5, <1>10
-----------------------------------------------------------------------------
(* What the readers know.                                                  *)
\* A quote that is not worse than the inside.
NotBehind(quote, book) ==
    /\ quote.bid[1] \in Int /\ quote.bid[1] >= best_bid(book)[1]
    /\ quote.offer[1] \in Int /\ quote.offer[1] <= best_offer(book)[1]

Quotes(out) == out = [stock \in Stocks |-> out[stock]]

OutputInv ==
    /\ IInv
    /\ Quotes(file_out) /\ Quotes(udp_out)
    /\ status = "running" =>
          \A stock \in Stocks :
             /\ file_out[stock] = Inside(BookOf(books_, stock))
             /\ NotBehind(udp_out[stock], BookOf(books_, stock))

LEMMA InsideNotBehind ==
  ASSUME NEW books, BooksTyped(books), NEW stock
  PROVE  NotBehind(Inside(BookOf(books, stock)), BookOf(books, stock))
<1> DEFINE book == BookOf(books, stock)
<1>1. IsTop(Best(book, "B"), book["B"], "B") /\ IsTop(Best(book, "S"), book["S"], "S")
  BY BookOfTyped DEF Sides
<1>2. Best(book, "B") = best_bid(book) /\ Best(book, "S") = best_offer(book)
  BY DEF Best
<1> HIDE DEF book
<1>3. best_bid(book)[1] \in Int /\ best_offer(book)[1] \in Int
  BY <1>1, <1>2 DEF IsTop
<1>4. NotBehind(Inside(book), book)
  BY <1>3 DEF NotBehind, Inside
<1> QED
  BY <1>4 DEF book

\* What an output that was not behind knows after a message it did not get.
LEMMA StillNotBehind ==
  ASSUME NEW u, NEW bs, NEW books, BookStep(u, bs, books), NEW stock,
         NEW quote, NotBehind(quote, BookOf(books, stock)),
         u = NoUpdate \/ ~ UpdateIsAtInside(bs[u.stock], u)
  PROVE  NotBehind(quote, BookOf(bs, stock))
<1> DEFINE before == BookOf(books, stock)
           after == BookOf(bs, stock)
<1>1. BooksTyped(books) /\ BooksTyped(bs)
  BY DEF BookStep
<1>2. /\ Best(before, "B") = best_bid(before) /\ Best(before, "S") = best_offer(before)
      /\ Best(after, "B") = best_bid(after) /\ Best(after, "S") = best_offer(after)
  BY DEF Best
<1>3. /\ best_bid(before)[1] \in Int /\ best_offer(before)[1] \in Int
      /\ best_bid(after)[1] \in Int /\ best_offer(after)[1] \in Int
  <2>1. \A side \in Sides : /\ IsTop(Best(before, side), before[side], side)
                            /\ IsTop(Best(after, side), after[side], side)
    BY <1>1, BookOfTyped
  <2>2. \A side \in Sides : /\ Best(before, side)[1] \in Int
                            /\ Best(after, side)[1] \in Int
    BY <2>1 DEF IsTop
  <2> QED
    BY <1>2, <2>2 DEF Sides
<1>4. /\ ~ Better("B", Best(after, "B")[1], Best(before, "B")[1])
      /\ ~ Better("S", Best(after, "S")[1], Best(before, "S")[1])
  BY NotAtInside DEF Sides
<1> HIDE DEF before, after
<1>5. NotBehind(quote, before)
  BY DEF before
<1>6. NotBehind(quote, after)
  BY <1>2, <1>3, <1>4, <1>5 DEF NotBehind, Better
<1> QED
  BY <1>6 DEF after

\* What Send does, as values.
Sent(other, out, u, bs, filter) ==
    other = IF u # NoUpdate /\ filter
            THEN [out EXCEPT ![u.stock] = Inside(bs[u.stock])] ELSE out

\* A reader gets the inside of the book of the update, if it is sent.
LEMMA SentQuotes ==
  ASSUME NEW u, NEW bs, u # NoUpdate => u.stock \in DOMAIN bs,
         NEW filter \in BOOLEAN, NEW out, Quotes(out), NEW other,
         Sent(other, out, u, bs, filter)
  PROVE  /\ Quotes(other)
         /\ \A stock \in Stocks :
               other[stock] = IF u # NoUpdate /\ filter /\ u.stock = stock
                              THEN Inside(BookOf(bs, stock)) ELSE out[stock]
<1>1. DOMAIN out = Stocks
  BY DEF Quotes
<1>2. CASE u # NoUpdate /\ filter
  <2>1. other = [out EXCEPT ![u.stock] = Inside(bs[u.stock])]
    BY <1>2 DEF Sent
  <2>2. BookOf(bs, u.stock) = bs[u.stock]
    BY <1>2 DEF BookOf
  <2>3. other = [stock \in Stocks |->
                   IF stock = u.stock THEN Inside(bs[u.stock]) ELSE out[stock]]
    BY <1>1, <2>1 DEF Quotes
  <2> QED
    BY <1>2, <2>2, <2>3 DEF Quotes
<1>3. CASE ~ (u # NoUpdate /\ filter)
  BY <1>3 DEF Sent
<1> QED
  BY <1>2, <1>3

\* A step of compute_book, of values.
LEMMA NextIsBookStep ==
  ASSUME UsableOrders, IInv, Next, status' = "running"
  PROVE  BookStep(update', books_', books_)
<1>1. Good /\ Informed /\ status = "running"
  BY NextIsGood, NextInforms DEF Next
<1>2. BooksTyped(books_)
  BY <1>1 DEF IInv, InStep
<1>3. BooksTyped(books_')
  BY <1>1 DEF Good, IInv, InStep
<1>4. Explains(update', books_', books_)
  BY <1>1 DEF Good
<1> QED
  BY <1>1, <1>2, <1>3, <1>4 DEF BookStep, Informed

LEMMA OutputKeepsInv ==
  ASSUME UsableOrders, OutputInv, OutputNext
  PROVE  OutputInv'
<1> DEFINE atInside == UpdateIsAtInside(books_'[update'.stock], update')
<1>1. IInv /\ Next /\ status = "running" /\ IInv' /\ Informed
  BY NextIsGood, NextInforms DEF OutputInv, OutputNext, Next, Good
<1>2. /\ Quotes(file_out')
      /\ \A stock \in Stocks :
            file_out'[stock] = IF update' # NoUpdate /\ update'.stock = stock
                               THEN Inside(BookOf(books_', stock))
                               ELSE file_out[stock]
  <2>1. PICK always \in BOOLEAN : always
    OBVIOUS
  <2>2. Sent(file_out', file_out, update', books_', always)
    BY <2>1 DEF OutputNext, Send, Sent
  <2>3. Quotes(file_out)
    BY DEF OutputInv
  <2>4. update' # NoUpdate => update'.stock \in DOMAIN books_'
    BY <1>1 DEF Informed
  <2>5. /\ Quotes(file_out')
        /\ \A stock \in Stocks :
              file_out'[stock] =
                 IF update' # NoUpdate /\ always /\ update'.stock = stock
                 THEN Inside(BookOf(books_', stock)) ELSE file_out[stock]
    BY <2>2, <2>3, <2>4, SentQuotes
  <2> QED
    BY <2>1, <2>5
<1>3. /\ Quotes(udp_out')
      /\ \A stock \in Stocks :
            udp_out'[stock] = IF update' # NoUpdate /\ atInside /\ update'.stock = stock
                              THEN Inside(BookOf(books_', stock))
                              ELSE udp_out[stock]
  <2>1. Sent(udp_out', udp_out, update', books_', atInside)
    BY DEF OutputNext, Send, Sent
  <2>2. Quotes(udp_out)
    BY DEF OutputInv
  <2>3. update' # NoUpdate => update'.stock \in DOMAIN books_'
    BY <1>1 DEF Informed
  <2>4. atInside \in BOOLEAN
    BY DEF UpdateIsAtInside
  <2> HIDE DEF atInside
  <2> QED
    BY <2>1, <2>2, <2>3, <2>4, SentQuotes
<1>4. ASSUME status' = "running", NEW stock \in Stocks
      PROVE  /\ file_out'[stock] = Inside(BookOf(books_', stock))
             /\ NotBehind(udp_out'[stock], BookOf(books_', stock))
  <2>1. BookStep(update', books_', books_)
    BY <1>1, <1>4, NextIsBookStep
  <2>2. /\ file_out[stock] = Inside(BookOf(books_, stock))
        /\ NotBehind(udp_out[stock], BookOf(books_, stock))
    BY <1>1 DEF OutputInv
  <2>3. file_out'[stock] = Inside(BookOf(books_', stock))
    <3>1. CASE update' # NoUpdate /\ update'.stock = stock
      BY <1>2, <3>1
    <3>2. CASE update' = NoUpdate \/ update'.stock # stock
      <4>1. Inside(BookOf(books_', stock)) = Inside(BookOf(books_, stock))
        BY <2>1, <3>2, OtherBookKept
      <4> QED
        BY <1>2, <2>2, <3>2, <4>1
    <3> QED
      BY <3>1, <3>2
  <2>4. NotBehind(udp_out'[stock], BookOf(books_', stock))
    <3>1. CASE update' # NoUpdate /\ atInside /\ update'.stock = stock
      <4>1. BooksTyped(books_')
        BY <2>1 DEF BookStep
      <4>2. NotBehind(Inside(BookOf(books_', stock)), BookOf(books_', stock))
        BY <4>1, InsideNotBehind
      <4> QED
        BY <1>3, <3>1, <4>2
    <3>2. CASE update' = NoUpdate \/ ~ atInside
      <4>1. NotBehind(udp_out[stock], BookOf(books_', stock))
        BY <2>1, <2>2, <3>2, StillNotBehind
      <4> QED
        BY <1>3, <3>2, <4>1
    <3>3. CASE update' # NoUpdate /\ update'.stock # stock
      <4>1. Inside(BookOf(books_', stock)) = Inside(BookOf(books_, stock))
        BY <2>1, <3>3, OtherBookKept
      <4>2. /\ best_bid(BookOf(books_', stock)) = best_bid(BookOf(books_, stock))
            /\ best_offer(BookOf(books_', stock)) = best_offer(BookOf(books_, stock))
        BY <4>1 DEF Inside
      <4>3. udp_out'[stock] = udp_out[stock]
        BY <1>3, <3>3
      <4> QED
        BY <2>2, <4>2, <4>3 DEF NotBehind
    <3> QED
      BY <3>1, <3>2, <3>3
  <2> QED
    BY <2>3, <2>4
<1> QED
  BY <1>1, <1>2, <1>3, <1>4 DEF OutputInv

LEMMA OutputInvHolds ==
  ASSUME UsableOrders
  PROVE  OutputSpec => []OutputInv
<1>1. OutputInit => OutputInv
  <2> SUFFICES ASSUME OutputInit PROVE OutputInv
    OBVIOUS
  <2>1. IInv /\ books_ = << >>
    BY InitInStep DEF OutputInit, Init
  <2>2. file_out = NoQuotes /\ udp_out = NoQuotes
    BY DEF OutputInit
  <2>3. \A stock : BookOf(<< >>, stock) = EmptyBook
    BY DEF BookOf
  <2>4. BooksTyped(<< >>)
    BY DEF BooksTyped
  <2>5. \A stock : NotBehind(Inside(BookOf(<< >>, stock)), BookOf(<< >>, stock))
    BY <2>4, InsideNotBehind
  <2>6. \A stock \in Stocks : NoQuotes[stock] = Inside(EmptyBook)
    BY DEF NoQuotes
  <2>7. Quotes(NoQuotes)
    BY DEF Quotes, NoQuotes
  <2> QED
    BY <2>1, <2>2, <2>3, <2>5, <2>6, <2>7 DEF OutputInv
<1>2. OutputInv /\ [OutputNext]_<<vars, outputs>> => OutputInv'
  <2>1. ASSUME OutputInv, UNCHANGED <<vars, outputs>> PROVE OutputInv'
    <3>1. IInv'
      BY <2>1 DEF OutputInv, IInv, vars
    <3> QED
      BY <2>1, <3>1 DEF OutputInv, vars, outputs
  <2> QED
    BY <2>1, OutputKeepsInv
<1> QED
  BY <1>1, <1>2, PTL DEF OutputSpec

(* create_output_file is called once per change, with the book after it:   *)
(* for any orders and securities, the last line of the file for a security *)
(* is its inside.                                                          *)
THEOREM FileUpToDate == UsableOrders => (OutputSpec => []FileOutUpToDate)
<1> SUFFICES ASSUME UsableOrders PROVE OutputSpec => []FileOutUpToDate
  OBVIOUS
<1>1. OutputInv => FileOutUpToDate
  <2> SUFFICES ASSUME OutputInv, status = "running", NEW stock \in DOMAIN books_
               PROVE  file_out[stock] = Inside(books_[stock])
    BY DEF FileOutUpToDate, QuotesUpToDate
  <2>1. stock \in Stocks
    BY DEF OutputInv, IInv, InStep, BooksTyped
  <2> QED
    BY <2>1 DEF OutputInv, BookOf
<1> QED
  BY <1>1, OutputInvHolds, PTL

(* send_inside_levels_update sees only the book after the update, and yet  *)
(* misses no better price, in either book side, of any security.           *)
THEOREM UdpNotBehind == UsableOrders => (OutputSpec => []UdpOutNeverBehind)
<1> SUFFICES ASSUME UsableOrders PROVE OutputSpec => []UdpOutNeverBehind
  OBVIOUS
<1>1. OutputInv => UdpOutNeverBehind
  <2> SUFFICES ASSUME OutputInv, status = "running", NEW stock \in DOMAIN books_
               PROVE  /\ udp_out[stock].bid[1] >= best_bid(books_[stock])[1]
                      /\ udp_out[stock].offer[1] <= best_offer(books_[stock])[1]
    BY DEF UdpOutNeverBehind
  <2>1. stock \in Stocks /\ BookOf(books_, stock) = books_[stock]
    BY DEF OutputInv, IInv, InStep, BooksTyped, BookOf
  <2> QED
    BY <2>1 DEF OutputInv, NotBehind
<1> QED
  BY <1>1, OutputInvHolds, PTL

\* The test of generate_inside, of values.
LEMMA ChangeDetected ==
  ASSUME NEW u, NEW bs, NEW books, BookStep(u, bs, books),
         u # NoUpdate, ~ u.cxlreplx
  PROVE  record_latency_stats(BookOf(bs, u.stock), u) <=>
            Inside(BookOf(books, u.stock)) # Inside(BookOf(bs, u.stock))
<1> DEFINE before == BookOf(books, u.stock)
           after == BookOf(bs, u.stock)
           side == u.side
           px == u.px
           top == Best(before, side)
           now == Best(after, side)
<1>1. /\ side \in Sides /\ px \in Prices /\ u.qty \in Int /\ u.qty # 0
      /\ u.stock \in DOMAIN bs /\ BooksTyped(books) /\ BooksTyped(bs)
  BY DEF BookStep, UpdateTyped
<1>2. /\ LevelsTyped(before[side]) /\ LevelsTyped(after[side])
      /\ IsTop(top, before[side], side) /\ IsTop(now, after[side], side)
  BY <1>1, BookOfTyped
<1>3. ASSUME NEW x \in Prices
      PROVE  /\ QtyIn(before[side], x) \in Nat
             /\ QtyIn(after[side], x) = QtyIn(before[side], x)
                   + IF x = px THEN u.qty ELSE 0
  <2>1. QtyIn(after[side], x) = QtyIn(before[side], x)
           + ReportedChange(u, u.stock, side, x)
    BY <1>1, LevelExplained
  <2>2. QtyIn(before[side], x) \in Nat
    BY <1>2 DEF LevelsTyped, QtyIn
  <2>3. ReportedChange(u, u.stock, side, x) = IF x = px THEN u.qty ELSE 0
    BY <1>1 DEF ReportedChange
  <2> QED
    BY <2>1, <2>2, <2>3
<1>4. \A other \in Sides \ {side} : after[other] = before[other]
  BY <1>1, OtherSideKept
<1>5. Inside(before) # Inside(after) <=> top # now
  <2>1. CASE side = "B"
    <3>1. best_offer(before) = best_offer(after)
      <4>1. after["S"] = before["S"]
        BY <1>4, <2>1 DEF Sides
      <4> QED
        BY <4>1 DEF best_offer
    <3>2. top = best_bid(before) /\ now = best_bid(after)
      BY <2>1 DEF Best
    <3> HIDE DEF before, after, top, now
    <3> QED
      BY <3>1, <3>2 DEF Inside
  <2>2. CASE side = "S"
    <3>1. best_bid(before) = best_bid(after)
      <4>1. after["B"] = before["B"]
        BY <1>4, <2>2 DEF Sides
      <4> QED
        BY <4>1 DEF best_bid
    <3>2. top = best_offer(before) /\ now = best_offer(after)
      BY <2>2 DEF Best
    <3> HIDE DEF before, after, top, now
    <3> QED
      BY <3>1, <3>2 DEF Inside
  <2> QED
    BY <1>1, <2>1, <2>2 DEF Sides
<1>6. record_latency_stats(after, u) <=> ~ Better(side, now[1], px)
  <2>1. now[1] \in Int /\ px \in Int
    BY <1>1, <1>2 DEF IsTop
  <2>2. now[1] = IF side = "B" THEN best_bid(after)[1] ELSE best_offer(after)[1]
    BY DEF Best
  <2> HIDE DEF now, after
  <2>3. record_latency_stats(after, u) <=>
           IF side = "B" THEN px >= best_bid(after)[1] ELSE px <= best_offer(after)[1]
    BY DEF record_latency_stats
  <2> QED
    BY <2>1, <2>2, <2>3 DEF Better
<1>7. ~ Better(side, now[1], px) <=> top # now
  <2> HIDE DEF before, after, side, px, top, now
  <2>1. QtyIn(after[side], px) # QtyIn(before[side], px)
    BY <1>1, <1>3
  <2>2. \A x \in Prices : x # px => QtyIn(after[side], x) = QtyIn(before[side], x)
    BY <1>3
  <2>3. ChangedAt(px, before[side], after[side])
    BY <2>1, <2>2 DEF ChangedAt
  <2>4. side \in Sides /\ px \in Prices
    BY <1>1
  <2> QED
    BY <1>2, <2>3, <2>4, TopDetected
<1> QED
  BY <1>5, <1>6, <1>7

(* "Determine if this event changes the inside": for every message but a   *)
(* replace, generate_inside writes a line just when the best price or its  *)
(* quantity has changed.                                                   *)
THEOREM ChangesDetected == UsableOrders => (OutputSpec => InsideChangesDetected)
<1> SUFFICES ASSUME UsableOrders PROVE OutputSpec => InsideChangesDetected
  OBVIOUS
<1> DEFINE Detected ==
       update' # NoUpdate /\ ~update'.cxlreplx =>
          LET stock == update'.stock
              before == IF stock \in DOMAIN books_ THEN books_[stock]
                                                   ELSE EmptyBook
              after == books_'[stock]
          IN  record_latency_stats(after, update') <=>
                  Inside(before) # Inside(after)
<1>1. ASSUME OutputInv, OutputNext PROVE Detected
  <2> SUFFICES ASSUME update' # NoUpdate, ~update'.cxlreplx
               PROVE  record_latency_stats(books_'[update'.stock], update') <=>
                         Inside(BookOf(books_, update'.stock))
                            # Inside(books_'[update'.stock])
    BY DEF BookOf
  <2>1. IInv /\ Next /\ Informed
    BY <1>1, NextInforms DEF OutputInv, OutputNext
  <2>2. status' = "running" /\ update'.stock \in DOMAIN books_'
    BY <2>1 DEF Informed
  <2>3. BookStep(update', books_', books_)
    BY <2>1, <2>2, NextIsBookStep
  <2>4. BookOf(books_', update'.stock) = books_'[update'.stock]
    BY <2>2 DEF BookOf
  <2>5. record_latency_stats(BookOf(books_', update'.stock), update') <=>
           Inside(BookOf(books_, update'.stock))
              # Inside(BookOf(books_', update'.stock))
    BY <2>3, ChangeDetected
  <2> QED
    BY <2>4, <2>5
<1>2. OutputInv /\ [OutputNext]_<<vars, outputs>> => [Detected]_vars
  BY <1>1
<1> HIDE DEF Detected
<1>3. OutputSpec => [][Detected]_vars
  BY <1>2, OutputInvHolds, PTL DEF OutputSpec
<1> QED
  BY <1>3 DEF Detected, InsideChangesDetected
=============================================================================

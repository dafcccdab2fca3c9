---------------------------- MODULE InsideOutput ----------------------------
(***************************************************************************)
(* The output layers behind compute_book: the callback of every program    *)
(* that publishes the inside of the books.                                 *)
(*   - create_output_file (moldfeedhandler) writes the inside on every     *)
(*     update;                                                             *)
(*   - generate_inside (itch5inside, mold2inside) writes it when           *)
(*     record_latency_stats says that the inside is affected;              *)
(*   - send_inside_levels_update (moldfeedhandler) sends a UDP message     *)
(*     when its filter lets the update pass.                               *)
(* What a reader of each output knows is the last quote of each security.  *)
(***************************************************************************)
EXTENDS ComputeBook

VARIABLES
    file_out,    \* security -> last quote written by create_output_file
    inside_out,  \* security -> last quote written by generate_inside
    udp_out      \* security -> last quote of send_inside_levels_update

outputs == <<file_out, inside_out, udp_out>>

\* What every output carries: both sides of the inside.
Inside(book) == [bid |-> best_bid(book), offer |-> best_offer(book)]

NoQuotes == [stock \in Stocks |-> Inside(EmptyBook)]

OutputInit ==
    /\ Init
    /\ file_out = NoQuotes
    /\ inside_out = NoQuotes
    /\ udp_out = NoQuotes

\* Faulty variant: the price has to be better than the best price.
record_latency_stats_strict(book, u) ==
    LET px == IF u.cxlreplx THEN u.oldpx ELSE u.px
    IN  IF u.side = "B" THEN px > best_bid(book)[1]
                        ELSE px < best_offer(book)[1]

\* record_latency_stats: the price of the update (the old price of a
\* cancel/replace) is equal to or better than the new best price.
record_latency_stats(book, u) ==
    LET px == IF u.cxlreplx THEN u.oldpx ELSE u.px
    IN  IF u.side = "B" THEN px >= best_bid(book)[1]
                        ELSE px <= best_offer(book)[1]

\* Faulty variant: the price is compared with the other side.
UpdateIsAtOtherSide(book, u) ==
    u.px = IF u.side = "S" THEN best_bid(book)[1] ELSE best_offer(book)[1]

\* The filter of send_inside_levels_update.
UpdateIsAtInside(book, u) ==
    u.px = IF u.side = "B" THEN best_bid(book)[1] ELSE best_offer(book)[1]

\* Faulty variant: the book is read before the update is applied.
SendBefore(out, filter) ==
    IF update' # NoUpdate /\ filter
    THEN [out EXCEPT ![update'.stock] =
            Inside(IF update'.stock \in DOMAIN books_
                   THEN books_[update'.stock] ELSE EmptyBook)]
    ELSE out

Send(out, filter) ==
    LET book == books_'[update'.stock]
    IN  IF update' # NoUpdate /\ filter
        THEN [out EXCEPT ![update'.stock] = Inside(book)]
        ELSE out

\* compute_book calls the output layer at the end of each handler.
OutputNext ==
    /\ Next
    /\ file_out' = Send(file_out, TRUE)
    /\ inside_out' = Send(inside_out,
                          record_latency_stats(books_'[update'.stock], update'))
    /\ udp_out' = Send(udp_out,
                       UpdateIsAtInside(books_'[update'.stock], update'))

OutputSpec == OutputInit /\ [][OutputNext]_<<vars, outputs>>
-----------------------------------------------------------------------------
QuotesUpToDate(out) ==
    status = "running" =>
        \A stock \in DOMAIN books_ : out[stock] = Inside(books_[stock])

(* Whoever reads the output file knows the inside of every book.           *)
FileOutUpToDate == QuotesUpToDate(file_out)

(* "Determine if this event changes the inside, if so, record the          *)
(* statistics and output the result": the last quote that generate_inside  *)
(* wrote for a security is its inside.                                     *)
InsideOutUpToDate == QuotesUpToDate(inside_out)

(* The filter of send_inside_levels_update misses no better price: the last *)
(* quote sent for a security is never worse, on either side, than its       *)
(* inside, though it may be better when the best level has gone since.      *)
UdpOutNeverBehind ==
    status = "running" =>
        \A stock \in DOMAIN books_ :
            /\ udp_out[stock].bid[1] >= best_bid(books_[stock])[1]
            /\ udp_out[stock].offer[1] <= best_offer(books_[stock])[1]

(* For every message but a replace, record_latency_stats is true exactly   *)
(* when the best price or its quantity changes: it decides after the       *)
(* update, from the new book and the price of the update alone.            *)
InsideChangesDetected ==
    [][update' # NoUpdate /\ ~update'.cxlreplx =>
          LET stock == update'.stock
              before == IF stock \in DOMAIN books_ THEN books_[stock]
                                                   ELSE EmptyBook
              after == books_'[stock]
          IN  record_latency_stats(after, update') <=>
                  Inside(before) # Inside(after)]_vars
=============================================================================

-------------------------------- MODULE Ehs --------------------------------
(***************************************************************************)
(* jb::ehs, the embedded HTTP server that every program uses for control   *)
(* and monitoring: an acceptor, one connection object per socket, and the  *)
(* request_dispatcher with its handlers and its counters.                  *)
(*                                                                         *)
(* The callbacks of Boost.Asio run one at a time: the programs call        *)
(* io_service::run in one thread.  An exception that leaves a callback     *)
(* leaves run(), and with it main().                                       *)
(***************************************************************************)
EXTENDS Integers, FiniteSets, FiniteSetsExt

CONSTANTS
    Connections,    \* the connections clients may open
    Paths,          \* paths of requests and of handlers
    HandlerResults, \* what a handler may do: the class of its status, "throws"
    PeerResets,     \* whether a client may be gone when it is accepted
    MaxEvents       \* bound: the requests read, and the failed accepts

ASSUME EhsAssumption ==
    /\ HandlerResults \subseteq {"200", "400", "500", "throws"}
    /\ PeerResets \in BOOLEAN /\ MaxEvents \in Nat

VARIABLES
    handlers_,      \* the paths that have a handler
    acceptor_open,  \* acceptor_.is_open()
    accepting,      \* an async_accept is pending
    connection,     \* connection -> what it waits for
    counter,        \* the event counters of the dispatcher
    written,        \* responses written without an error
    running         \* io_service::run has not been left

vars == <<handlers_, acceptor_open, accepting, connection, counter, written,
          running>>

Counters ==
    {"open", "close", "read_ok", "read_error", "write_ok", "write_error",
     "accept_ok", "accept_error", "accept_closed", "200", "400", "500"}

Init ==
    /\ handlers_ = {}
    /\ acceptor_open = TRUE
    /\ accepting = TRUE
    /\ connection = [c \in Connections |-> "none"]
    /\ counter = [n \in Counters |-> 0]
    /\ written = 0
    /\ running = TRUE

\* The counters after some of them have been incremented.
Counted(names) ==
    [n \in Counters |-> counter[n] + IF n \in names THEN 1 ELSE 0]
-----------------------------------------------------------------------------
(* request_dispatcher.                                                     *)
\* A duplicate is an exception: the caller gets it and nothing changes.
add_handler(path) ==
    /\ path \notin handlers_
    /\ handlers_' = handlers_ \cup {path}
    /\ UNCHANGED <<acceptor_open, accepting, connection, counter, written,
                   running>>

\* Faulty variant: an exception of a handler counts no response.
process_uncounted(path) ==
    IF path \notin handlers_ THEN {"400"} ELSE HandlerResults

\* process: the classes of the status it may answer with.
process(path) ==
    IF path \notin handlers_ THEN {"400"}
    ELSE {IF r = "throws" THEN "500" ELSE r : r \in HandlerResults}
-----------------------------------------------------------------------------
(* acceptor.                                                               *)
shutdown ==
    /\ acceptor_open
    /\ acceptor_open' = FALSE
    /\ UNCHANGED <<handlers_, accepting, connection, counter, written, running>>

\* Faulty variant: a cancelled accept is scheduled again.
AcceptClosedAgain ==
    /\ accepting /\ ~acceptor_open
    /\ counter' = Counted({"accept_closed"})
    /\ UNCHANGED <<handlers_, acceptor_open, accepting, connection, written,
                   running>>

\* on_accept, when close() has cancelled the pending accept.
AcceptClosed ==
    /\ accepting /\ ~acceptor_open
    /\ counter' = Counted({"accept_closed"})
    /\ accepting' = FALSE
    /\ UNCHANGED <<handlers_, acceptor_open, connection, written, running>>

\* on_accept with a socket: the new connection waits for a request, and the
\* next accept is scheduled.
AcceptOk(c) ==
    /\ accepting /\ acceptor_open
    /\ connection[c] = "none"
    /\ connection' = [connection EXCEPT ![c] = "reading"]
    /\ counter' = Counted({"open", "accept_ok"})
    /\ UNCHANGED <<handlers_, acceptor_open, accepting, written, running>>

\* The client is gone: remote_endpoint() throws in the constructor of
\* connection.
AcceptReset ==
    /\ PeerResets
    /\ accepting /\ acceptor_open
    /\ accepting' = FALSE
    /\ running' = FALSE
    /\ UNCHANGED <<handlers_, acceptor_open, connection, counter, written>>

\* Faulty variant: no accept is scheduled after an error.
AcceptErrorStops ==
    /\ accepting /\ acceptor_open
    /\ counter["accept_error"] < MaxEvents
    /\ counter' = Counted({"accept_error"})
    /\ accepting' = FALSE
    /\ UNCHANGED <<handlers_, acceptor_open, connection, written, running>>

AcceptError ==
    /\ accepting /\ acceptor_open
    /\ counter["accept_error"] < MaxEvents
    /\ counter' = Counted({"accept_error"})
    /\ UNCHANGED <<handlers_, acceptor_open, accepting, connection, written,
                   running>>
-----------------------------------------------------------------------------
(* connection.                                                             *)
\* on_read with an error: nothing refers to the connection any more, and its
\* destructor runs.
ReadError(c) ==
    /\ connection[c] = "reading"
    /\ connection' = [connection EXCEPT ![c] = "closed"]
    /\ counter' = Counted({"read_error", "close"})
    /\ UNCHANGED <<handlers_, acceptor_open, accepting, written, running>>

on_read(c, path) ==
    /\ connection[c] = "reading"
    /\ counter["read_ok"] < MaxEvents
    /\ connection' = [connection EXCEPT ![c] = "writing"]
    /\ \E class \in process(path) : counter' = Counted({"read_ok", class})
    /\ UNCHANGED <<handlers_, acceptor_open, accepting, written, running>>

\* Faulty variant: the connection ends with a failed write.
on_write_closes(c) ==
    /\ connection[c] = "writing"
    /\ \/ /\ counter' = Counted({"write_error", "close"})
          /\ connection' = [connection EXCEPT ![c] = "closed"]
          /\ UNCHANGED written
       \/ /\ written' = written + 1
          /\ connection' = [connection EXCEPT ![c] = "reading"]
          /\ UNCHANGED counter
    /\ UNCHANGED <<handlers_, acceptor_open, accepting, running>>

\* on_write: an error is counted, and the next request is read either way.
on_write(c) ==
    /\ connection[c] = "writing"
    /\ connection' = [connection EXCEPT ![c] = "reading"]
    /\ \/ /\ counter' = Counted({"write_error"})
          /\ UNCHANGED written
       \/ /\ written' = written + 1
          /\ UNCHANGED counter
    /\ UNCHANGED <<handlers_, acceptor_open, accepting, running>>

Next ==
    /\ running
    /\ \/ \E path \in Paths : add_handler(path)
       \/ shutdown \/ AcceptClosed \/ AcceptReset \/ AcceptError
       \/ \E c \in Connections : AcceptOk(c) \/ ReadError(c) \/ on_write(c)
       \/ \E c \in Connections, path \in Paths : on_read(c, path)

Spec == Init /\ [][Next]_vars
-----------------------------------------------------------------------------
TypeOK ==
    /\ handlers_ \subseteq Paths
    /\ acceptor_open \in BOOLEAN
    /\ accepting \in BOOLEAN
    /\ connection \in [Connections -> {"none", "reading", "writing", "closed"}]
    /\ counter \in [Counters -> Nat]
    /\ counter["accept_closed"] <= 1
    /\ written \in Nat
    /\ running \in BOOLEAN

Waiting(what) == {c \in Connections : connection[c] = what}

(* The counters of the metrics page add up: accepted connections are those *)
(* opened, those opened and not closed are there, every connection was     *)
(* closed by a read that failed.                                           *)
ConnectionsAccounted ==
    /\ counter["accept_ok"] = counter["open"]
    /\ counter["open"] - counter["close"] =
          Cardinality(Waiting("reading") \cup Waiting("writing"))
    /\ counter["close"] = counter["read_error"]

(* Every request that was read has one response, a 404 or a 500 if need be,*)
(* and every response has been written, has failed or is being written.    *)
ResponsesAccounted ==
    /\ counter["200"] + counter["400"] + counter["500"] = counter["read_ok"]
    /\ counter["read_ok"] =
          written + counter["write_error"] + Cardinality(Waiting("writing"))

(* "error or not, schedule a new accept() request": until an exception or  *)
(* a shutdown ends it, the server always accepts connections.              *)
KeepsAccepting == running /\ acceptor_open => accepting
=============================================================================

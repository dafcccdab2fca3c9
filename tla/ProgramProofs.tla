--------------------------- MODULE ProgramProofs ---------------------------
(***************************************************************************)
(* What every program of the repository starts with, for any instance:     *)
(*                                                                         *)
(*   - the embedded HTTP server: for any clients, paths and handlers its   *)
(*     counters add up, and it accepts connections until an exception      *)
(*     leaves io_service::run or it is shut down;                          *)
(*   - the configuration: for any entries and options, what each attribute *)
(*     gets from the code, the document and the command line, and with it  *)
(*     the precedence that the documentation gives.                        *)
(***************************************************************************)
EXTENDS Ehs, ConfigObject, FoldLemmas, FiniteSetTheorems, SequenceTheorems,
        TLAPS

(* The embedded HTTP server.                                               *)

\* The connections of Waiting, of a value.
WaitingIn(conns, what) == {c \in Connections : conns[c] = what}

\* One connection goes from one wait to another.
Moves(after, before, c, from, to) ==
    /\ before \in [Connections -> {"none", "reading", "writing", "closed"}]
    /\ c \in Connections /\ before[c] = from
    /\ to \in {"none", "reading", "writing", "closed"} \ {from}
    /\ after = [before EXCEPT ![c] = to]

\* A finite set of connections is read from, another one is written to.
ConnectionsFinite ==
    \A what \in {"reading", "writing"} :
        IsFiniteSet(WaitingIn(connection, what))

(* The invariants are inductive together.  The sets of ConnectionsAccounted*)
(* are counted one by one, and no accept was cancelled while one waits.    *)
Tally ==
    /\ counter["accept_ok"] = counter["open"]
    /\ counter["open"] = counter["close"]
          + Cardinality(WaitingIn(connection, "reading"))
          + Cardinality(WaitingIn(connection, "writing"))
    /\ counter["close"] = counter["read_error"]
    /\ counter["200"] + counter["400"] + counter["500"] = counter["read_ok"]
    /\ counter["read_ok"] = written + counter["write_error"]
          + Cardinality(WaitingIn(connection, "writing"))

IInv ==
    /\ TypeOK
    /\ ConnectionsFinite
    /\ Tally
    /\ KeepsAccepting
    /\ accepting => counter["accept_closed"] = 0
-----------------------------------------------------------------------------
LEMMA WaitingMoved ==
  ASSUME NEW before, NEW after, NEW c, NEW from, NEW to,
         Moves(after, before, c, from, to), NEW what,
         IsFiniteSet(WaitingIn(before, what))
  PROVE  /\ IsFiniteSet(WaitingIn(after, what))
         /\ Cardinality(WaitingIn(before, what)) \in Nat
         /\ Cardinality(WaitingIn(after, what)) =
               Cardinality(WaitingIn(before, what))
                  + (IF what = to THEN 1 ELSE 0) - (IF what = from THEN 1 ELSE 0)
<1> DEFINE old == WaitingIn(before, what)
           new == WaitingIn(after, what)
<1>1. Cardinality(old) \in Nat
  BY FS_CardinalityType
<1>2. CASE what = to
  <2>1. new = old \cup {c} /\ c \notin old /\ what # from
    BY <1>2 DEF Moves, WaitingIn
  <2>2. IsFiniteSet(new) /\ Cardinality(new) = Cardinality(old) + 1
    BY <2>1, FS_AddElement
  <2> QED
    BY <1>1, <1>2, <2>1, <2>2
<1>3. CASE what = from
  <2>1. new = old \ {c} /\ c \in old /\ what # to
    BY <1>3 DEF Moves, WaitingIn
  <2>2. IsFiniteSet(new) /\ Cardinality(new) = Cardinality(old) - 1
    BY <2>1, FS_RemoveElement
  <2> QED
    BY <1>1, <1>3, <2>1, <2>2
<1>4. CASE what # from /\ what # to
  <2>1. new = old
    BY <1>4 DEF Moves, WaitingIn
  <2> QED
    BY <1>1, <1>4, <2>1
<1> QED
  BY <1>2, <1>3, <1>4

LEMMA CountedIs ==
  ASSUME TypeOK, NEW names
  PROVE  /\ Counted(names) \in [Counters -> Nat]
         /\ \A n \in Counters :
               /\ counter[n] \in Nat
               /\ Counted(names)[n] = counter[n] + IF n \in names THEN 1 ELSE 0
<1>1. \A n \in Counters : counter[n] \in Nat
  BY DEF TypeOK
<1>2. \A n \in Counters : counter[n] + (IF n \in names THEN 1 ELSE 0) \in Nat
  BY <1>1
<1> QED
  BY <1>1, <1>2 DEF Counted

LEMMA InitTallies == Init => IInv
<1> SUFFICES ASSUME Init PROVE IInv
  OBVIOUS
<1>1. \A what \in {"reading", "writing"} : WaitingIn(connection, what) = {}
  BY DEF Init, WaitingIn
<1>2. IsFiniteSet({}) /\ Cardinality({}) = 0
  BY FS_EmptySet
<1>3. \A n \in Counters : counter[n] = 0
  BY DEF Init
<1>4. TypeOK
  BY <1>3 DEF Init, TypeOK, Counters
<1>5. ConnectionsFinite
  BY <1>1, <1>2 DEF ConnectionsFinite
<1>6. Tally
  BY <1>1, <1>2, <1>3 DEF Tally, Counters, Init
<1> QED
  BY <1>3, <1>4, <1>5, <1>6 DEF IInv, KeepsAccepting, Init, Counters

\* A step of the acceptor or of the dispatcher, with no connection in it.
LEMMA ServerStep ==
  ASSUME IInv, UNCHANGED connection, UNCHANGED written,
         handlers_' \subseteq Paths, acceptor_open' \in BOOLEAN,
         accepting' \in BOOLEAN, running' \in BOOLEAN, KeepsAccepting',
         \/ UNCHANGED counter /\ (accepting' => accepting)
         \/ counter' = Counted({"accept_error"}) /\ (accepting' => accepting)
         \/ counter' = Counted({"accept_closed"}) /\ accepting /\ ~accepting'
  PROVE  IInv'
<1>1. TypeOK /\ ConnectionsFinite /\ Tally
  BY DEF IInv
<1>2. ConnectionsFinite'
  BY <1>1 DEF ConnectionsFinite, WaitingIn
<1>3. \A what : WaitingIn(connection, what)' = WaitingIn(connection, what)
  BY DEF WaitingIn
<1>4. /\ counter' \in [Counters -> Nat]
      /\ counter'["accept_closed"] <= 1
      /\ accepting' => counter'["accept_closed"] = 0
      /\ \A n \in Counters \ {"accept_error", "accept_closed"} :
            counter'[n] = counter[n]
  <2>1. CASE UNCHANGED counter /\ (accepting' => accepting)
    BY <2>1 DEF IInv, TypeOK
  <2>2. CASE counter' = Counted({"accept_error"}) /\ (accepting' => accepting)
    BY <1>1, <2>2, CountedIs DEF IInv, TypeOK, Counters
  <2>3. CASE counter' = Counted({"accept_closed"}) /\ accepting /\ ~accepting'
    BY <1>1, <2>3, CountedIs DEF IInv, TypeOK, Counters
  <2> QED
    BY <2>1, <2>2, <2>3
<1>5. TypeOK'
  BY <1>1, <1>4 DEF TypeOK
<1>6. Tally'
  BY <1>1, <1>3, <1>4 DEF Tally, Counters
<1> QED
  BY <1>2, <1>4, <1>5, <1>6 DEF IInv

\* A step of a connection: a counted change of what it waits for.
LEMMA ConnectionStep ==
  ASSUME IInv, NEW c, NEW from, NEW to, NEW names,
         Moves(connection', connection, c, from, to),
         \/ counter' = Counted(names) /\ written' = written
         \/ /\ counter' = counter /\ names = {}
            /\ written' = written + 1
            /\ from = "writing" /\ to = "reading",
         UNCHANGED <<handlers_, acceptor_open, accepting, running>>,
         \/ from = "none" /\ to = "reading" /\ names = {"open", "accept_ok"}
         \/ from = "reading" /\ to = "closed" /\ names = {"read_error", "close"}
         \/ /\ from = "reading" /\ to = "writing"
            /\ \E class \in {"200", "400", "500"} : names = {"read_ok", class}
         \/ from = "writing" /\ to = "reading" /\ names = {"write_error"}
         \/ from = "writing" /\ to = "reading" /\ written' = written + 1
  PROVE  IInv'
<1> DEFINE R == Cardinality(WaitingIn(connection, "reading"))
           W == Cardinality(WaitingIn(connection, "writing"))
<1>1. TypeOK /\ ConnectionsFinite /\ Tally
  BY DEF IInv
<1>2. \A what \in {"reading", "writing"} :
         /\ IsFiniteSet(WaitingIn(connection', what))
         /\ Cardinality(WaitingIn(connection, what)) \in Nat
         /\ Cardinality(WaitingIn(connection', what)) =
               Cardinality(WaitingIn(connection, what))
                  + (IF what = to THEN 1 ELSE 0) - (IF what = from THEN 1 ELSE 0)
  BY <1>1, WaitingMoved DEF ConnectionsFinite
<1>3. connection' \in [Connections -> {"none", "reading", "writing", "closed"}]
  BY DEF Moves
<1>4. /\ R \in Nat /\ W \in Nat
      /\ R' = R + (IF to = "reading" THEN 1 ELSE 0)
                - (IF from = "reading" THEN 1 ELSE 0)
      /\ W' = W + (IF to = "writing" THEN 1 ELSE 0)
                - (IF from = "writing" THEN 1 ELSE 0)
  BY <1>2 DEF WaitingIn
<1>5. ConnectionsFinite'
  BY <1>2 DEF ConnectionsFinite, WaitingIn
<1> DEFINE Counts ==
      /\ counter["accept_ok"] = counter["open"]
      /\ counter["open"] = counter["close"] + R + W
      /\ counter["close"] = counter["read_error"]
      /\ counter["200"] + counter["400"] + counter["500"] = counter["read_ok"]
      /\ counter["read_ok"] = written + counter["write_error"] + W
<1>6. Counts
  BY <1>1 DEF Tally
<1>7. written \in Nat /\ \A n \in Counters : counter[n] \in Nat
  BY <1>1 DEF TypeOK
<1> HIDE DEF R, W
<1>8. counter' \in [Counters -> Nat] /\ written' \in Nat
      /\ counter'["accept_closed"] = counter["accept_closed"] /\ Counts'
  <2>1. CASE counter' = Counted(names) /\ written' = written
    <3>1. \A n \in Counters :
             counter'[n] = counter[n] + IF n \in names THEN 1 ELSE 0
      BY <1>1, <2>1, CountedIs
    <3>2. CASE from = "none" /\ to = "reading" /\ names = {"open", "accept_ok"}
      BY <1>4, <1>6, <1>7, <2>1, <3>1, <3>2, <1>1, CountedIs DEF Counters
    <3>3. CASE from = "reading" /\ to = "closed" /\ names = {"read_error", "close"}
      BY <1>4, <1>6, <1>7, <2>1, <3>1, <3>3, <1>1, CountedIs DEF Counters
    <3>4. CASE /\ from = "reading" /\ to = "writing"
               /\ \E class \in {"200", "400", "500"} : names = {"read_ok", class}
      BY <1>4, <1>6, <1>7, <2>1, <3>1, <3>4, <1>1, CountedIs DEF Counters
    <3>5. CASE from = "writing" /\ to = "reading" /\ names = {"write_error"}
      BY <1>4, <1>6, <1>7, <2>1, <3>1, <3>5, <1>1, CountedIs DEF Counters
    <3> QED
      BY <1>7, <2>1, <3>2, <3>3, <3>4, <3>5
  <2>2. CASE /\ counter' = counter /\ written' = written + 1
             /\ from = "writing" /\ to = "reading"
    <3>1. counter' \in [Counters -> Nat]
      BY <1>1, <2>2 DEF TypeOK
    <3> QED
      BY <1>4, <1>6, <1>7, <2>2, <3>1 DEF Counters
  <2> QED
    BY <2>1, <2>2
<1>9. Tally'
  BY <1>8 DEF Tally, R, W
<1>10. TypeOK'
  BY <1>1, <1>3, <1>8 DEF TypeOK
<1> QED
  BY <1>5, <1>8, <1>9, <1>10 DEF IInv, KeepsAccepting

LEMMA IInvInductive == IInv /\ [Next]_vars => IInv'
<1> SUFFICES ASSUME IInv, [Next]_vars PROVE IInv'
  OBVIOUS
<1> USE DEF IInv, TypeOK
<1>1. ASSUME running, NEW path \in Paths, add_handler(path) PROVE IInv'
  BY <1>1, ServerStep DEF add_handler, KeepsAccepting
<1>2. ASSUME shutdown PROVE IInv'
  BY <1>2, ServerStep DEF shutdown, KeepsAccepting
<1>3. ASSUME AcceptClosed PROVE IInv'
  BY <1>3, ServerStep DEF AcceptClosed, KeepsAccepting
<1>4. ASSUME AcceptReset PROVE IInv'
  BY <1>4, ServerStep DEF AcceptReset, KeepsAccepting
<1>5. ASSUME AcceptError PROVE IInv'
  BY <1>5, ServerStep DEF AcceptError, KeepsAccepting
<1>6. ASSUME NEW c \in Connections, AcceptOk(c) PROVE IInv'
  <2>1. Moves(connection', connection, c, "none", "reading")
    BY <1>6 DEF AcceptOk, Moves
  <2> QED
    BY <1>6, <2>1, ConnectionStep DEF AcceptOk
<1>7. ASSUME NEW c \in Connections, ReadError(c) PROVE IInv'
  <2>1. Moves(connection', connection, c, "reading", "closed")
    BY <1>7 DEF ReadError, Moves
  <2> QED
    BY <1>7, <2>1, ConnectionStep DEF ReadError
<1>8. ASSUME NEW c \in Connections, on_write(c) PROVE IInv'
  <2>1. Moves(connection', connection, c, "writing", "reading")
    BY <1>8 DEF on_write, Moves
  <2> QED
    BY <1>8, <2>1, ConnectionStep DEF on_write
<1>9. ASSUME NEW c \in Connections, NEW path \in Paths, on_read(c, path)
      PROVE  IInv'
  <2>1. Moves(connection', connection, c, "reading", "writing")
    BY <1>9 DEF on_read, Moves
  <2>2. PICK class \in process(path) : counter' = Counted({"read_ok", class})
    BY <1>9 DEF on_read
  <2>3. class \in {"200", "400", "500"}
    BY EhsAssumption DEF process
  <2> QED
    BY <1>9, <2>1, <2>2, <2>3, ConnectionStep DEF on_read
<1>10. CASE UNCHANGED vars
  BY <1>10, ServerStep DEF vars, KeepsAccepting
<1> QED
  BY <1>1, <1>2, <1>3, <1>4, <1>5, <1>6, <1>7, <1>8, <1>9, <1>10 DEF Next
-----------------------------------------------------------------------------
LEMMA IInvHolds == Spec => []IInv
  BY InitTallies, IInvInductive, PTL DEF Spec

(* The server counts what it has: no accept is cancelled twice, and every  *)
(* counter is a number of events.                                          *)
THEOREM EhsTyped == Spec => []TypeOK
<1>1. IInv => TypeOK
  BY DEF IInv
<1> QED
  BY <1>1, IInvHolds, PTL

(* For any number of clients, the connections opened and not closed are    *)
(* those that wait for a request or for a response to be written.          *)
THEOREM ConnectionsAddUp == Spec => []ConnectionsAccounted
<1>1. IInv => ConnectionsAccounted
  <2> SUFFICES ASSUME IInv PROVE ConnectionsAccounted
    OBVIOUS
  <2> DEFINE R == WaitingIn(connection, "reading")
             W == WaitingIn(connection, "writing")
  <2>1. R = Waiting("reading") /\ W = Waiting("writing")
    BY DEF Waiting, WaitingIn
  <2>2. IsFiniteSet(R) /\ IsFiniteSet(W)
    BY DEF IInv, ConnectionsFinite
  <2>3. R \cap W = {}
    BY DEF WaitingIn
  <2>4. /\ Cardinality(R \cup W) =
              Cardinality(R) + Cardinality(W) - Cardinality(R \cap W)
        /\ Cardinality(R \cap W) = 0
    BY <2>2, <2>3, FS_Union, FS_EmptySet
  <2>5. Cardinality(R) \in Nat /\ Cardinality(W) \in Nat
    BY <2>2, FS_CardinalityType
  <2>6. counter["open"] \in Nat /\ counter["close"] \in Nat
    BY DEF IInv, TypeOK, Counters
  <2> HIDE DEF R, W
  <2>7. /\ counter["accept_ok"] = counter["open"]
        /\ counter["open"] = counter["close"] + Cardinality(R) + Cardinality(W)
        /\ counter["close"] = counter["read_error"]
    BY DEF IInv, Tally, R, W
  <2>8. counter["open"] - counter["close"] = Cardinality(R \cup W)
    BY <2>4, <2>5, <2>6, <2>7
  <2> QED
    BY <2>1, <2>7, <2>8 DEF ConnectionsAccounted
<1> QED
  BY <1>1, IInvHolds, PTL

(* Every request has one response, and every response has been written, has*)
(* failed or is being written.                                             *)
THEOREM ResponsesAddUp == Spec => []ResponsesAccounted
<1>1. IInv => ResponsesAccounted
  BY DEF IInv, Tally, ResponsesAccounted, Waiting, WaitingIn
<1> QED
  BY <1>1, IInvHolds, PTL

(* While io_service::run has not been left and the acceptor is open an     *)
(* accept is pending: on_accept schedules the next one whether it got a    *)
(* connection or an error.  A client that is gone before its connection    *)
(* object is made ends run(), and with it the server.                      *)
THEOREM AlwaysAccepts == Spec => []KeepsAccepting
<1>1. IInv => KeepsAccepting
  BY DEF IInv
<1> QED
  BY <1>1, IInvHolds, PTL
-----------------------------------------------------------------------------
(* The configuration.                                                      *)

Threads == {"reader", "writer"}
Code == {Default, FromCode}

\* A function on paths.
KeyPaths(node) ==
    /\ node = [p \in DOMAIN node |-> node[p]]
    /\ DOMAIN node \subseteq Seq(Key)

\* A value with its scalars at the leaves.
Shaped(value, leaves) == KeyPaths(value) /\ DOMAIN value = leaves

\* The entry e if the document d has it, or else v.
Of(d, e, v) == IF e \in d THEN e ELSE v

\* The attributes of a configuration with a list of so many workers.
WorkersLeaves(i) ==
    {<<"workers", Index[i], "cl-device-name">>} \cup
    {<<"workers", Index[i], r, "affinity">> : r \in Threads}
Leaves(size) ==
    {<<"primary", "cl-device-name">>} \cup
    {<<"primary", r, "affinity">> : r \in Threads} \cup
    UNION {WorkersLeaves(i) : i \in 1..size}

(* v is what an attribute p has after the overrides of a document d: the   *)
(* first of its overrides that d has, from the innermost one to the        *)
(* outermost one, or else what the code gave it.  An element of the list   *)
(* that is not in the document is left alone.                              *)
Winner(v, p, d) ==
    /\ p = <<"primary", "cl-device-name">> =>
          \E c \in Code :
             v = Of(d, p, Of(d, <<":worker_config", "cl-device-name">>, c))
    /\ \A r \in Threads : p = <<"primary", r, "affinity">> =>
          \E c \in Code :
             v = Of(d, p,
                 Of(d, <<"primary", r, ":cpu_set">>,
                 Of(d, <<"primary", ":cpu_set">>,
                 Of(d, <<":cpu_set">>,
                 Of(d, <<"primary", ":thread_config", "affinity">>,
                 Of(d, <<":thread_config", "affinity">>,
                 Of(d, <<":worker_config", r, "affinity">>,
                 Of(d, <<":worker_config", r, ":cpu_set">>, c))))))))
    /\ \A i \in 1..Len(Index) : p = <<"workers", Index[i], "cl-device-name">> =>
          \E c \in Code : v = Of(d, p, c)
    /\ \A i \in 1..Len(Index), r \in Threads :
          p = <<"workers", Index[i], r, "affinity">> =>
          \E c \in Code :
             \/ v = Of(d, p,
                    Of(d, <<"workers", Index[i], r, ":cpu_set">>,
                    Of(d, <<":cpu_set">>,
                    Of(d, <<":thread_config", "affinity">>, c))))
             \/ v = c /\ Index[i] \notin Elements(d)

(* The invariants of the configuration in one: of every attribute, what it *)
(* has.  It needs no induction, for a program loads its configuration once;*)
(* it needs the value of every apply_overrides on the way.                 *)
ConfigInv ==
    /\ status \in {"defaults", "ready", "thrown"}
    /\ args \subseteq Options
    /\ DOMAIN doc \subseteq Entries
    /\ doc = [p \in DOMAIN doc |-> p]
    /\ \E size \in 0..Len(Index) :
          /\ Shaped(config, Leaves(size))
          /\ status # "defaults" =>
                Elements(DOMAIN doc) \subseteq {Index[i] : i \in 1..size}
    /\ status = "defaults" =>
          doc = Undefined /\ \A p \in DOMAIN config : config[p] \in Code
    /\ status # "defaults" =>
          \A p \in DOMAIN config :
             IF status = "ready" /\ p \in args THEN config[p] = FromCmdline(p)
             ELSE Winner(config[p], p, DOMAIN doc)
    /\ status = "ready" => args \subseteq DOMAIN config
-----------------------------------------------------------------------------
LEMMA Literals ==
  /\ Attributes \subseteq Key /\ Classes \subseteq Key
  /\ \A i \in 1..Len(Index) : Index[i] \in Key
  /\ \A r \in Threads : r \in Key
<1>1. DOMAIN Index = 1..Len(Index)
  BY ConfigObjectAssumption, LenProperties
<1> QED
  BY <1>1 DEF Key, Range, Threads, Attributes

LEMMA Prefixed ==
  ASSUME NEW S, NEW k \in S, NEW q \in Seq(S)
  PROVE  /\ <<k>> \o q \in Seq(S)
         /\ Len(<<k>> \o q) = Len(q) + 1
         /\ Head(<<k>> \o q) = k
         /\ Tail(<<k>> \o q) = q
         /\ (<<k>> \o q)[1] = k
         /\ \A i \in 1..Len(q) : (<<k>> \o q)[i + 1] = q[i]
         /\ <<k>> \o q # << >>
<1>1. /\ <<k>> \o q \in Seq(S)
      /\ Len(<<k>> \o q) = Len(q) + 1
      /\ Head(<<k>> \o q) = k
      /\ Tail(<<k>> \o q) = q
  OBVIOUS
<1>2. (<<k>> \o q)[1] = k
  OBVIOUS
<1>3. \A i \in 1..Len(q) : (<<k>> \o q)[i + 1] = q[i]
  OBVIOUS
<1>4. <<k>> \o q # << >>
  BY <1>1, EmptySeq, LenProperties
<1> QED
  BY <1>1, <1>2, <1>3, <1>4

LEMMA Unprefixed ==
  ASSUME NEW S, NEW s \in Seq(S), s # << >>
  PROVE  /\ Head(s) \in S /\ Tail(s) \in Seq(S)
         /\ Head(s) = s[1]
         /\ s = <<Head(s)>> \o Tail(s)
<1>1. Head(s) \in S /\ Tail(s) \in Seq(S)
      /\ Len(Tail(s)) = Len(s) - 1
      /\ \A i \in 1..Len(Tail(s)) : Tail(s)[i] = s[i + 1]
  BY HeadTailProperties
<1>2. Head(s) = s[1]
  OBVIOUS
<1>3. Len(s) \in Nat
  BY LenProperties
<1> DEFINE t == <<Head(s)>> \o Tail(s)
<1>4. t \in Seq(S) /\ Len(t) = Len(s) /\ t[1] = s[1]
      /\ \A i \in 1..Len(Tail(s)) : t[i + 1] = s[i + 1]
  BY <1>1, <1>2, <1>3, Prefixed
<1> HIDE DEF t
<1>5. ASSUME NEW j \in 1..Len(s)
      PROVE  t[j] = s[j]
  <2>1. CASE j = 1
    BY <1>4, <2>1
  <2>2. CASE j # 1
    <3>1. j - 1 \in 1..Len(Tail(s)) /\ (j - 1) + 1 = j
      BY <1>1, <1>3, <2>2
    <3> QED
      BY <1>4, <3>1
  <2> QED
    BY <2>1, <2>2
<1>6. t = s
  BY <1>4, <1>5, SeqEqual
<1> QED
  BY <1>1, <1>2, <1>6 DEF t

LEMMA Tuples ==
  ASSUME NEW S, NEW k \in S, NEW a \in S, NEW b \in S, NEW c \in S
  PROVE  /\ <<k>> \o << >> = <<k>>
         /\ <<k>> \o <<a>> = <<k, a>>
         /\ <<k>> \o <<a, b>> = <<k, a, b>>
         /\ <<k>> \o <<a, b, c>> = <<k, a, b, c>>
<1>1. Head(<<k>>) = k /\ Tail(<<k>>) = << >> /\ <<k>> \in Seq(S)
      /\ <<k>> # << >>
  OBVIOUS
<1>2. Head(<<k, a>>) = k /\ Tail(<<k, a>>) = <<a>> /\ <<k, a>> \in Seq(S)
      /\ <<k, a>> # << >>
  OBVIOUS
<1>3. Head(<<k, a, b>>) = k /\ Tail(<<k, a, b>>) = <<a, b>>
      /\ <<k, a, b>> \in Seq(S) /\ <<k, a, b>> # << >>
  OBVIOUS
<1>4. Head(<<k, a, b, c>>) = k /\ Tail(<<k, a, b, c>>) = <<a, b, c>>
      /\ <<k, a, b, c>> \in Seq(S) /\ <<k, a, b, c>> # << >>
  OBVIOUS
<1> QED
  BY <1>1, <1>2, <1>3, <1>4, Unprefixed
-----------------------------------------------------------------------------
\* What a node says at a path, or else a value.
Pick(node, q, v) == IF q \in DOMAIN node THEN node[q] ELSE v

\* A node that a reader of the type can convert.
IsNode(type, node) ==
    /\ KeyPaths(node)
    /\ \A p \in DOMAIN node : WellFormed(type, p)

LEMMA AtKey ==
  ASSUME NEW node, KeyPaths(node), NEW key \in Key
  PROVE  /\ KeyPaths(At(node, key))
         /\ \A q \in Seq(Key) : \A v :
               /\ q \in DOMAIN At(node, key) <=> <<key>> \o q \in DOMAIN node
               /\ Pick(At(node, key), q, v) = Pick(node, <<key>> \o q, v)
               /\ q \in DOMAIN At(node, key) =>
                     At(node, key)[q] = node[<<key>> \o q]
<1> DEFINE sub == {p \in DOMAIN node : p # << >> /\ Head(p) = key}
           dom == {Tail(p) : p \in sub}
<1>1. At(node, key) = [q \in dom |-> node[<<key>> \o q]]
  BY DEF At
<1>2. dom \subseteq Seq(Key)
  BY Unprefixed DEF KeyPaths
<1>3. ASSUME NEW q \in Seq(Key)
      PROVE  q \in dom <=> <<key>> \o q \in DOMAIN node
  <2>1. ASSUME q \in dom
        PROVE  <<key>> \o q \in DOMAIN node
    <3>1. PICK p \in sub : q = Tail(p)
      BY <2>1
    <3>2. p = <<key>> \o q
      BY <3>1, Unprefixed DEF KeyPaths
    <3> QED
      BY <3>1, <3>2
  <2>2. ASSUME <<key>> \o q \in DOMAIN node
        PROVE  q \in dom
    <3>1. <<key>> \o q \in sub /\ q = Tail(<<key>> \o q)
      BY <2>2, Prefixed
    <3> QED
      BY <3>1
  <2> QED
    BY <2>1, <2>2
<1> HIDE DEF dom
<1>4. DOMAIN At(node, key) = dom
      /\ \A q \in dom : At(node, key)[q] = node[<<key>> \o q]
  BY <1>1
<1>5. KeyPaths(At(node, key))
  BY <1>1, <1>2, <1>4 DEF KeyPaths
<1> QED
  BY <1>3, <1>4, <1>5 DEF Pick

LEMMA RestWellFormed ==
  ASSUME NEW type, NEW key \in Key, NEW q \in Seq(Key),
         WellFormed(type, <<key>> \o q)
  PROVE  WellFormed(TypeOf(key), q) /\ key \in KeysOf(type)
<1> DEFINE s == <<key>> \o q
<1>1. /\ Len(s) = Len(q) + 1 /\ s[1] = key /\ Len(q) \in Nat
      /\ \A i \in 1..Len(q) : s[i + 1] = q[i]
  BY Prefixed, LenProperties
<1>2. /\ \A i \in 1..Len(s) : s[i] \in KeysOf(TypeAt(type, s, i - 1))
      /\ TypeAt(type, s, Len(s)) = "scalar"
  BY DEF WellFormed
<1> HIDE DEF s
<1>3. ASSUME NEW i \in 0..Len(q)
      PROVE  TypeAt(type, s, i + 1) = TypeAt(TypeOf(key), q, i)
  <2>1. CASE i = 0
    BY <1>1, <2>1 DEF TypeAt
  <2>2. CASE i # 0
    <3>1. i \in 1..Len(q) /\ i + 1 # 0
      BY <2>2
    <3> QED
      BY <1>1, <3>1 DEF TypeAt
  <2> QED
    BY <2>1, <2>2
<1>4. ASSUME NEW i \in 1..Len(q)
      PROVE  q[i] \in KeysOf(TypeAt(TypeOf(key), q, i - 1))
  <2>1. i + 1 \in 1..Len(s) /\ i - 1 \in 0..Len(q) /\ (i - 1) + 1 = i
        /\ (i + 1) - 1 = i
    BY <1>1
  <2>2. s[i + 1] \in KeysOf(TypeAt(type, s, i))
    BY <1>2, <2>1
  <2>3. TypeAt(type, s, i) = TypeAt(TypeOf(key), q, i - 1)
    BY <1>3, <2>1
  <2> QED
    BY <1>1, <2>2, <2>3
<1>5. TypeAt(TypeOf(key), q, Len(q)) = "scalar"
  BY <1>1, <1>2, <1>3
<1>6. key \in KeysOf(type)
  <2>1. 1 \in 1..Len(s) /\ 1 - 1 = 0
    BY <1>1
  <2>2. s[1] \in KeysOf(TypeAt(type, s, 0))
    BY <1>2, <2>1
  <2> QED
    BY <1>1, <2>2 DEF TypeAt
<1> QED
  BY <1>4, <1>5, <1>6 DEF WellFormed

LEMMA AtNode ==
  ASSUME NEW type, NEW node, IsNode(type, node), NEW key \in Key
  PROVE  IsNode(TypeOf(key), At(node, key))
<1>1. KeyPaths(At(node, key))
  BY AtKey DEF IsNode
<1>2. ASSUME NEW q \in DOMAIN At(node, key)
      PROVE  WellFormed(TypeOf(key), q)
  <2>1. q \in Seq(Key) /\ <<key>> \o q \in DOMAIN node
    BY <1>1, AtKey DEF IsNode, KeyPaths
  <2> QED
    BY <2>1, RestWellFormed DEF IsNode
<1> QED
  BY <1>1, <1>2 DEF IsNode
-----------------------------------------------------------------------------
(* The types of the keys, and nodes that are made of other nodes.          *)

LEMMA KeysApart ==
  \A i \in 1..Len(Index) :
     /\ Index[i] \in Range(Index)
     /\ Index[i] \notin Attributes /\ Index[i] \notin Classes
     /\ \A j \in 1..Len(Index) : Index[i] = Index[j] => i = j
<1>1. DOMAIN Index = 1..Len(Index)
  BY ConfigObjectAssumption, LenProperties
<1> QED
  BY <1>1, ConfigObjectAssumption DEF Range, IsInjective

LEMMA Types ==
  /\ TypeOf("workers") = "list"
  /\ TypeOf("primary") = "worker_config"
  /\ TypeOf(":worker_config") = "worker_config"
  /\ \A i \in 1..Len(Index) : TypeOf(Index[i]) = "worker_config"
  /\ \A r \in Threads \cup {":thread_config"} : TypeOf(r) = "thread_config"
  /\ TypeOf("cl-device-name") = "scalar"
  /\ TypeOf("affinity") = "scalar"
  /\ TypeOf(":cpu_set") = "scalar"
<1>1. \A k \in Attributes \cup Classes : k \notin Range(Index)
  BY ConfigObjectAssumption
<1>2. ASSUME NEW i \in 1..Len(Index)
      PROVE  TypeOf(Index[i]) = "worker_config"
  <2>1. Index[i] \in Range(Index) /\ Index[i] \notin Attributes \cup Classes
    BY KeysApart
  <2>2. \A k : k \in Range(Index) /\ k \notin Attributes \cup Classes =>
                  TypeOf(k) = "worker_config"
    BY DEF TypeOf, Attributes, Classes
  <2> QED
    BY <2>1, <2>2
<1> QED
  BY <1>1, <1>2 DEF TypeOf, Attributes, Classes, Threads

LEMMA ScalarNode ==
  ASSUME NEW node, IsNode("scalar", node)
  PROVE  DOMAIN node \subseteq {<< >>}
<1> SUFFICES ASSUME NEW p \in DOMAIN node, p # << >>
             PROVE  FALSE
  OBVIOUS
<1>1. p \in Seq(Key) /\ WellFormed("scalar", p)
  BY DEF IsNode, KeyPaths
<1>2. 1 \in 1..Len(p) /\ 1 - 1 = 0
  BY <1>1, EmptySeq
<1>3. p[1] \in KeysOf(TypeAt("scalar", p, 0))
  BY <1>1, <1>2 DEF WellFormed
<1> QED
  BY <1>3 DEF TypeAt, KeysOf

\* One node over another.
Over(node, m, n) ==
    \A q : \A v : Pick(node, q, v) = Pick(m, q, Pick(n, q, v))

LEMMA Merged ==
  ASSUME NEW m, NEW n, KeyPaths(m), KeyPaths(n)
  PROVE  /\ KeyPaths(merge_node(n, m))
         /\ DOMAIN merge_node(n, m) = DOMAIN m \cup DOMAIN n
         /\ Over(merge_node(n, m), m, n)
<1>1. merge_node(n, m) = [p \in DOMAIN m \cup DOMAIN n |->
                   IF p \in DOMAIN m THEN m[p] ELSE n[p]]
  BY DEF merge_node
<1>2. DOMAIN merge_node(n, m) = DOMAIN m \cup DOMAIN n
  BY <1>1
<1>3. KeyPaths(merge_node(n, m))
  BY <1>1, <1>2 DEF KeyPaths
<1>4. ASSUME NEW q, NEW v
      PROVE  Pick(merge_node(n, m), q, v) = Pick(m, q, Pick(n, q, v))
  BY <1>1, <1>2 DEF Pick
<1>5. Over(merge_node(n, m), m, n)
  BY <1>4 DEF Over
<1> QED
  BY <1>2, <1>3, <1>5

LEMMA NestedNode ==
  ASSUME NEW node, KeyPaths(node), NEW key \in Key
  PROVE  /\ KeyPaths(Nested(key, node))
         /\ DOMAIN Nested(key, node) = {<<key>> \o q : q \in DOMAIN node}
         /\ \A q \in DOMAIN node : Nested(key, node)[<<key>> \o q] = node[q]
<1> DEFINE dom == {<<key>> \o q : q \in DOMAIN node}
<1>1. Nested(key, node) = [p \in dom |-> node[Tail(p)]]
  BY DEF Nested
<1>2. ASSUME NEW q \in DOMAIN node
      PROVE  <<key>> \o q \in dom /\ <<key>> \o q \in Seq(Key)
             /\ Tail(<<key>> \o q) = q
  BY Prefixed DEF KeyPaths
<1>3. dom \subseteq Seq(Key)
  BY <1>2
<1> HIDE DEF dom
<1>4. DOMAIN Nested(key, node) = dom /\ KeyPaths(Nested(key, node))
  BY <1>1, <1>3 DEF KeyPaths
<1> QED
  BY <1>1, <1>2, <1>4 DEF dom

LEMMA JoinedNodes ==
  ASSUME NEW nodes, \A n \in nodes : KeyPaths(n),
         \A m, n \in nodes : \A p \in DOMAIN m : p \in DOMAIN n => m = n
  PROVE  /\ KeyPaths(Joined(nodes))
         /\ DOMAIN Joined(nodes) = UNION {DOMAIN n : n \in nodes}
         /\ \A n \in nodes : \A p \in DOMAIN n : Joined(nodes)[p] = n[p]
<1> DEFINE dom == UNION {DOMAIN n : n \in nodes}
           of(p) == CHOOSE m \in nodes : p \in DOMAIN m
<1>1. Joined(nodes) = [p \in dom |-> of(p)[p]]
  BY DEF Joined
<1>2. ASSUME NEW n \in nodes, NEW p \in DOMAIN n
      PROVE  p \in dom /\ of(p) = n /\ p \in Seq(Key)
  <2>1. p \in dom
    OBVIOUS
  <2>2. of(p) \in nodes /\ p \in DOMAIN of(p)
    OBVIOUS
  <2>3. of(p) = n
    BY <2>2
  <2> QED
    BY <2>1, <2>3 DEF KeyPaths
<1>3. dom \subseteq Seq(Key)
  BY <1>2
<1> HIDE DEF dom, of
<1>4. DOMAIN Joined(nodes) = dom /\ KeyPaths(Joined(nodes))
  BY <1>1, <1>3 DEF KeyPaths
<1>5. ASSUME NEW n \in nodes, NEW p \in DOMAIN n
      PROVE  Joined(nodes)[p] = n[p]
  BY <1>1, <1>2
<1> QED
  BY <1>4, <1>5 DEF dom

\* The class overrides of a scope.
Scopes(by_class) == \A c \in Classes : IsNode(TypeOf(c), by_class[c])

\* The overrides of a scope, in a node and outside of it.
ScopeOver(scope, by_class, node) ==
    \A c \in Classes : \A q \in Seq(Key) : \A v :
       Pick(scope[c], q, v) = Pick(node, <<c>> \o q, Pick(by_class[c], q, v))
ScopeOverAt(scope, by_class, node, key) ==
    \A c \in Classes : \A q \in Seq(Key) : \A v :
       Pick(scope[c], q, v) =
          Pick(node, <<key>> \o (<<c>> \o q), Pick(by_class[c], q, v))

LEMMA MergedScopes ==
  ASSUME NEW by_class, Scopes(by_class), NEW type, NEW node, IsNode(type, node)
  PROVE  /\ Scopes(merge(by_class, node))
         /\ ScopeOver(merge(by_class, node), by_class, node)
<1>1. ASSUME NEW c \in Classes
      PROVE  /\ IsNode(TypeOf(c), merge(by_class, node)[c])
             /\ \A q \in Seq(Key) : \A v :
                   Pick(merge(by_class, node)[c], q, v) =
                      Pick(node, <<c>> \o q, Pick(by_class[c], q, v))
  <2> DEFINE m == At(node, c)
             n == by_class[c]
             merged == merge_node(n, m)
  <2>1. c \in Key
    BY Literals
  <2>2. IsNode(TypeOf(c), m) /\ IsNode(TypeOf(c), n)
    BY <2>1, AtNode DEF Scopes
  <2>3. KeyPaths(m) /\ KeyPaths(n) /\ KeyPaths(node)
    BY <2>2 DEF IsNode
  <2>4. merge(by_class, node)[c] = merged
    BY DEF merge
  <2>5. KeyPaths(merged) /\ DOMAIN merged = DOMAIN m \cup DOMAIN n
        /\ Over(merged, m, n)
    BY <2>3, Merged
  <2>6. \A q \in Seq(Key) : \A v : Pick(m, q, v) = Pick(node, <<c>> \o q, v)
    BY <2>1, <2>3, AtKey
  <2> HIDE DEF m, n, merged
  <2>7. IsNode(TypeOf(c), merged)
    BY <2>2, <2>5 DEF IsNode
  <2>8. ASSUME NEW q \in Seq(Key), NEW v
        PROVE  Pick(merged, q, v) = Pick(node, <<c>> \o q, Pick(n, q, v))
    BY <2>5, <2>6 DEF Over
  <2> QED
    BY <2>4, <2>7, <2>8 DEF n
<1> QED
  BY <1>1 DEF Scopes, ScopeOver

LEMMA InnerScope ==
  ASSUME NEW by_class, Scopes(by_class), NEW type, NEW node, IsNode(type, node),
         NEW key \in Key
  PROVE  /\ Scopes(ScopeOf(by_class, node, key))
         /\ ScopeOverAt(ScopeOf(by_class, node, key), by_class, node, key)
<1> DEFINE m == At(node, key)
           scope == merge(by_class, m)
<1>1. IsNode(TypeOf(key), m) /\ KeyPaths(node)
  BY AtNode DEF IsNode
<1>2. Scopes(scope) /\ ScopeOver(scope, by_class, m)
  BY <1>1, MergedScopes
<1>3. \A q \in Seq(Key) : \A v : Pick(m, q, v) = Pick(node, <<key>> \o q, v)
  BY <1>1, AtKey
<1>4. scope = ScopeOf(by_class, node, key)
  BY DEF ScopeOf
<1> HIDE DEF m, scope
<1>5. ASSUME NEW c \in Classes, NEW q \in Seq(Key), NEW v
      PROVE  Pick(scope[c], q, v) =
                Pick(node, <<key>> \o (<<c>> \o q), Pick(by_class[c], q, v))
  <2>1. <<c>> \o q \in Seq(Key)
    BY Literals, Prefixed
  <2> DEFINE x == Pick(by_class[c], q, v)
  <2>2. Pick(scope[c], q, v) = Pick(m, <<c>> \o q, x)
    BY <1>2 DEF ScopeOver
  <2> HIDE DEF x
  <2>3. Pick(m, <<c>> \o q, x) = Pick(node, <<key>> \o (<<c>> \o q), x)
    BY <1>3, <2>1
  <2> QED
    BY <2>2, <2>3 DEF x
<1>6. ScopeOverAt(scope, by_class, node, key)
  BY <1>5 DEF ScopeOverAt
<1> QED
  BY <1>2, <1>4, <1>6
-----------------------------------------------------------------------------
(* What each apply_overrides makes of a value.                             *)

LEMMA ScalarOverridden ==
  ASSUME NEW value, Shaped(value, {<< >>}), NEW node, IsNode("scalar", node),
         NEW by_class
  PROVE  /\ Shaped(override_scalar(value, node, by_class), {<< >>})
         /\ override_scalar(value, node, by_class)[<< >>] =
               Pick(node, << >>, value[<< >>])
<1>1. KeyPaths(node) /\ DOMAIN node \subseteq {<< >>}
  BY ScalarNode DEF IsNode
<1>2. CASE node = Undefined
  <2>1. DOMAIN node = {}
    BY <1>2 DEF Undefined
  <2>2. override_scalar(value, node, by_class) = value
    BY <1>2 DEF override_scalar
  <2> QED
    BY <2>1, <2>2 DEF Pick
<1>3. CASE node # Undefined
  <2>1. DOMAIN node # {}
    <3> SUFFICES ASSUME DOMAIN node = {}
                 PROVE  FALSE
      OBVIOUS
    <3>1. node = [p \in {} |-> node[p]]
      BY <1>1 DEF KeyPaths
    <3> QED
      BY <1>3, <3>1 DEF Undefined
  <2>2. override_scalar(value, node, by_class) = node
    BY <1>3 DEF override_scalar
  <2> QED
    BY <1>1, <2>1, <2>2 DEF Pick, Shaped
<1> QED
  BY <1>2, <1>3

\* The sub-node of a key has at q what the node has at p.
AtIs(node, key, q, p) ==
    /\ \A v : Pick(At(node, key), q, v) = Pick(node, p, v)
    /\ q \in DOMAIN At(node, key) <=> p \in DOMAIN node
    /\ p \in DOMAIN node => At(node, key)[q] = node[p]

LEMMA AtTuple ==
  ASSUME NEW node, KeyPaths(node), NEW key \in Key, NEW a \in Key,
            NEW b \in Key,
         NEW c \in Key
  PROVE  /\ AtIs(node, key, << >>, <<key>>)
         /\ AtIs(node, key, <<a>>, <<key, a>>)
         /\ AtIs(node, key, <<a, b>>, <<key, a, b>>)
         /\ AtIs(node, key, <<a, b, c>>, <<key, a, b, c>>)
<1>1. ASSUME NEW q \in Seq(Key)
      PROVE  AtIs(node, key, q, <<key>> \o q)
  BY AtKey DEF AtIs
<1> DEFINE q0 == << >>
           q1 == <<a>>
           q2 == <<a, b>>
           q3 == <<a, b, c>>
<1>2. q0 \in Seq(Key) /\ q1 \in Seq(Key) /\ q2 \in Seq(Key) /\ q3 \in Seq(Key)
  OBVIOUS
<1>3. <<key>> \o q0 = <<key>> /\ <<key>> \o q1 = <<key, a>>
      /\ <<key>> \o q2 = <<key, a, b>> /\ <<key>> \o q3 = <<key, a, b, c>>
  BY Tuples
<1> HIDE DEF q0, q1, q2, q3
<1>4. AtIs(node, key, q0, <<key>> \o q0) /\ AtIs(node, key, q1, <<key>> \o q1)
      /\ AtIs(node, key, q2, <<key>> \o q2) /\ AtIs(node, key, q3,
            <<key>> \o q3)
  BY <1>1, <1>2
<1> QED
  BY <1>3, <1>4 DEF q0, q1, q2, q3

\* The paths that a key and a set of leaves make.
Under(key, leaves) == {<<key>> \o q : q \in leaves}

LEMMA NestedShaped ==
  ASSUME NEW key \in Key, NEW leaves, NEW value, Shaped(value, leaves)
  PROVE  Shaped(Nested(key, value), Under(key, leaves))
BY NestedNode DEF Shaped, Under

LEMMA AtUnder ==
  ASSUME NEW key \in Key, NEW leaves \in SUBSET Seq(Key), NEW value, NEW all,
         Shaped(value, all),
         \A p \in all : p \in Under(key, leaves) \/ Head(p) # key,
         Under(key, leaves) \subseteq all
  PROVE  Shaped(At(value, key), leaves)
<1>1. KeyPaths(value) /\ KeyPaths(At(value, key))
  BY AtKey DEF Shaped
<1>2. ASSUME NEW q \in Seq(Key)
      PROVE  q \in DOMAIN At(value, key) <=> <<key>> \o q \in all
  BY <1>1, AtKey DEF Shaped
<1>3. ASSUME NEW q \in Seq(Key), <<key>> \o q \in all
      PROVE  q \in leaves
  <2>1. Head(<<key>> \o q) = key /\ Tail(<<key>> \o q) = q
    BY Prefixed
  <2>2. PICK l \in leaves : <<key>> \o q = <<key>> \o l
    BY <1>3, <2>1 DEF Under
  <2>3. Tail(<<key>> \o l) = l
    BY Prefixed
  <2> QED
    BY <2>1, <2>2, <2>3
<1>4. ASSUME NEW q \in leaves
      PROVE  q \in Seq(Key) /\ <<key>> \o q \in all
  BY DEF Under
<1>5. DOMAIN At(value, key) = leaves
  BY <1>1, <1>2, <1>3, <1>4 DEF KeyPaths
<1> QED
  BY <1>1, <1>5 DEF Shaped

LEMMA UnderTuples ==
  ASSUME NEW key \in Key, NEW a \in Key, NEW b \in Key
  PROVE  /\ Under(key, {<< >>}) = {<<key>>}
         /\ Under(key, {<<a>>}) = {<<key, a>>}
         /\ Under(key, {<<a, b>>}) = {<<key, a, b>>}
<1>1. \A q : Under(key, {q}) = {<<key>> \o q}
  BY DEF Under
<1>2. <<key>> \o << >> = <<key>> /\ <<key>> \o <<a>> = <<key, a>>
      /\ <<key>> \o <<a, b>> = <<key, a, b>>
  BY Tuples
<1>3. Under(key, {<< >>}) = {<<key>>}
  BY <1>1, <1>2
<1>4. Under(key, {<<a>>}) = {<<key, a>>}
  BY <1>1, <1>2
<1>5. Under(key, {<<a, b>>}) = {<<key, a, b>>}
  BY <1>1, <1>2
<1> QED
  BY <1>3, <1>4, <1>5

LEMMA ThreadOverridden ==
  ASSUME NEW value, Shaped(value, {<<"affinity">>}),
         NEW node, IsNode("thread_config", node),
         NEW by_class, Scopes(by_class)
  PROVE  /\ Shaped(override_thread_config(value, node, by_class),
                   {<<"affinity">>})
         /\ override_thread_config(value, node, by_class)[<<"affinity">>] =
               Pick(node, <<"affinity">>,
               Pick(by_class[":cpu_set"], << >>, value[<<"affinity">>]))
<1> DEFINE e == << >>
           l == <<"affinity">>
           a == At(value, "affinity")
           o == by_class[":cpu_set"]
           b == IF o = Undefined THEN a ELSE override_scalar(a, o, by_class)
           scope == ScopeOf(by_class, node, "affinity")
           n == At(node, "affinity")
           c == override_scalar(b, n, scope)
           r == Nested("affinity", c)
<1>1. "affinity" \in Key /\ ":cpu_set" \in Classes
  BY Literals DEF Attributes, Classes
<1>2. e \in Seq(Key) /\ <<"affinity">> \o e = l /\ Under("affinity", {e}) = {l}
      /\ Head(l) = "affinity"
  <2>1. e \in Seq(Key) /\ Head(l) = "affinity"
    OBVIOUS
  <2>2. <<"affinity">> \o e = l
    BY <1>1, Tuples
  <2>3. Under("affinity", {e}) = {l}
    BY <1>1, UnderTuples
  <2> QED
    BY <2>1, <2>2, <2>3
<1>3. override_thread_config(value, node, by_class) = r
  BY DEF override_thread_config, Override
<1>4. KeyPaths(value) /\ KeyPaths(node)
  BY DEF Shaped, IsNode
<1>5. AtIs(value, "affinity", e, l) /\ AtIs(node, "affinity", e, l)
  BY <1>1, <1>4, AtTuple
<1>6. IsNode("scalar", n) /\ IsNode("scalar", o)
  BY <1>1, AtNode, Types DEF Scopes
<1>7. Shaped(value, {l})
  OBVIOUS
<1> HIDE DEF e, l
<1>8. Shaped(a, {e}) /\ a[e] = value[l]
  <2>1. Shaped(a, {e})
    BY <1>1, <1>2, <1>7, AtUnder
  <2> QED
    BY <1>5, <1>7, <2>1 DEF AtIs, Shaped
<1> HIDE DEF a, n, scope, o
<1>9. Shaped(b, {e}) /\ b[e] = Pick(o, e, a[e])
  <2>1. CASE o = Undefined
    BY <1>8, <2>1 DEF Pick, Undefined
  <2>2. CASE o # Undefined
    BY <1>6, <1>8, <2>2, ScalarOverridden DEF e
  <2> QED
    BY <2>1, <2>2
<1> HIDE DEF b
<1>10. Shaped(c, {e}) /\ c[e] = Pick(n, e, b[e])
  BY <1>6, <1>9, ScalarOverridden DEF e
<1>11. Pick(n, e, b[e]) = Pick(node, l, b[e])
  BY <1>5 DEF AtIs, n
<1> HIDE DEF c
<1>12. Shaped(r, {l})
  BY <1>1, <1>2, <1>10, NestedShaped
<1>13. r[l] = c[e]
  BY <1>1, <1>2, <1>10, NestedNode DEF Shaped
<1> HIDE DEF r
<1>14. Shaped(r, {l}) /\ r[l] = Pick(node, l, Pick(o, e, value[l]))
  BY <1>8, <1>9, <1>10, <1>11, <1>12, <1>13
<1> QED
  BY <1>3, <1>14 DEF l, e, o

\* The class overrides that reach a thread, from its scope outwards.
ThreadAttribute(r, value, node, by_class) ==
    Override(override_thread_config, ":thread_config", r, value, node, by_class)

LEMMA ThreadAttributeOverridden ==
  ASSUME NEW r \in Threads, NEW value, Shaped(value, WorkerLeaves),
         NEW node, IsNode("worker_config", node),
         NEW by_class, Scopes(by_class)
  PROVE  /\ Shaped(ThreadAttribute(r, value, node, by_class),
                   {<<r, "affinity">>})
         /\ ThreadAttribute(r, value, node, by_class)[<<r, "affinity">>] =
               Pick(node, <<r, "affinity">>,
               Pick(node, <<r, ":cpu_set">>,
               Pick(by_class[":cpu_set"], << >>,
               Pick(by_class[":thread_config"], <<"affinity">>,
                    value[<<r, "affinity">>]))))
<1> DEFINE e == << >>
           l == <<"affinity">>
           m == <<r, "affinity">>
           k == <<r, ":cpu_set">>
           a == At(value, r)
           o == by_class[":thread_config"]
           cpu == by_class[":cpu_set"]
           b == IF o = Undefined THEN a ELSE override_thread_config(a, o,
              by_class)
           scope == ScopeOf(by_class, node, r)
           n == At(node, r)
           c == override_thread_config(b, n, scope)
           x == Nested(r, c)
<1>1. r \in Key /\ "affinity" \in Key /\ ":cpu_set" \in Classes
      /\ ":thread_config" \in Classes /\ ":cpu_set" \in Key
  BY Literals DEF Attributes, Classes
<1>2. e \in Seq(Key) /\ l \in Seq(Key)
  BY <1>1
<1>3. <<r>> \o l = m /\ <<r>> \o (<<":cpu_set">> \o e) = k
  BY <1>1, Tuples
<1>4. Under(r, {l}) = {m}
  BY <1>1, UnderTuples
<1>5. m \in WorkerLeaves /\ \A p \in WorkerLeaves : p = m \/ Head(p) # r
  BY DEF WorkerLeaves, Threads
<1>6. ThreadAttribute(r, value, node, by_class) = x
  BY DEF ThreadAttribute, Override
<1>7. KeyPaths(value) /\ KeyPaths(node)
  BY DEF Shaped, IsNode
<1>8. AtIs(value, r, l, m) /\ AtIs(node, r, l, m)
  BY <1>1, <1>7, AtTuple
<1>9. IsNode("thread_config", n) /\ IsNode("thread_config", o)
  BY <1>1, AtNode, Types DEF Scopes
<1>10. Scopes(scope) /\ ScopeOverAt(scope, by_class, node, r)
  BY <1>1, InnerScope
<1>11. \A v : Pick(scope[":cpu_set"], e, v) = Pick(node, k, Pick(cpu, e, v))
  <2>1. ScopeOverAt(scope, by_class, node, r)
    BY <1>10
  <2> HIDE DEF scope, e, k
  <2>2. \A q \in Seq(Key) : \A v :
           Pick(scope[":cpu_set"], q, v) =
              Pick(node, <<r>> \o (<<":cpu_set">> \o q), Pick(cpu, q, v))
    BY <1>1, <2>1 DEF ScopeOverAt
  <2> HIDE DEF cpu
  <2> QED
    BY <1>2, <1>3, <2>2
<1> HIDE DEF e, m, k
<1>12. Shaped(a, {l}) /\ a[l] = value[m]
  <2> HIDE DEF l
  <2>1. Shaped(a, {l})
    BY <1>1, <1>2, <1>4, <1>5, AtUnder
  <2> QED
    BY <1>5, <1>8, <2>1 DEF AtIs, Shaped
<1> HIDE DEF a, n, scope, o, cpu
<1>13. Shaped(b, {l}) /\ Pick(cpu, e, b[l]) = Pick(cpu, e, Pick(o, l, a[l]))
  <2>1. CASE o = Undefined
    <3>1. Pick(o, l, a[l]) = a[l]
      BY <2>1 DEF Pick, Undefined
    <3> QED
      BY <1>12, <2>1, <3>1
  <2>2. CASE o # Undefined
    <3>1. Shaped(b, {l}) /\ b[l] = Pick(o, l, Pick(cpu, e, a[l]))
      BY <1>9, <1>12, <2>2, ThreadOverridden DEF e, cpu
    <3> QED
      BY <3>1 DEF Pick
  <2> QED
    BY <2>1, <2>2
<1> HIDE DEF b
<1>14. Shaped(c, {l}) /\ c[l] = Pick(n, l, Pick(scope[":cpu_set"], e, b[l]))
  BY <1>9, <1>10, <1>13, ThreadOverridden DEF e
<1>15. c[l] = Pick(node, m, Pick(node, k, Pick(cpu, e, b[l])))
  BY <1>8, <1>11, <1>14 DEF AtIs, n
<1> HIDE DEF c, l
<1>16. Shaped(x, {m})
  BY <1>1, <1>4, <1>14, NestedShaped
<1>17. x[m] = c[l]
  BY <1>1, <1>3, <1>14, NestedNode DEF Shaped
<1> HIDE DEF x
<1>18. x[m] = Pick(node, m, Pick(node, k, Pick(cpu, e, Pick(o, l, value[m]))))
  BY <1>12, <1>13, <1>15, <1>17
<1> QED
  BY <1>6, <1>16, <1>18 DEF l, e, o, cpu, m, k

\* What an object of class :worker_config gets.
WorkerGets(result, value, node, by_class) ==
    /\ result[<<"cl-device-name">>] =
          Pick(node, <<"cl-device-name">>, value[<<"cl-device-name">>])
    /\ \A r \in Threads :
          result[<<r, "affinity">>] =
             Pick(node, <<r, "affinity">>,
             Pick(node, <<r, ":cpu_set">>,
             Pick(by_class[":cpu_set"], << >>,
             Pick(by_class[":thread_config"], <<"affinity">>,
                  value[<<r, "affinity">>]))))

LEMMA NameOverridden ==
  ASSUME NEW value, Shaped(value, WorkerLeaves),
         NEW node, IsNode("worker_config", node), NEW by_class
  PROVE  LET x == Override(override_scalar, "", "cl-device-name",
                           value, node, by_class)
         IN  /\ Shaped(x, {<<"cl-device-name">>})
             /\ x[<<"cl-device-name">>] =
                   Pick(node, <<"cl-device-name">>, value[<<"cl-device-name">>])
<1> DEFINE name == "cl-device-name"
           e == << >>
           m == <<"cl-device-name">>
           a == At(value, name)
           n == At(node, name)
           c == override_scalar(a, n, ScopeOf(by_class, node, name))
           x == Nested(name, c)
<1>1. name \in Key
  BY Literals DEF Attributes
<1>2. e \in Seq(Key) /\ m \in WorkerLeaves
      /\ \A p \in WorkerLeaves : p = m \/ Head(p) # name
  BY DEF WorkerLeaves
<1>3. <<name>> \o e = m
  BY <1>1, Tuples
<1>4. Under(name, {e}) = {m}
  BY <1>1, UnderTuples
<1>5. Override(override_scalar, "", name, value, node, by_class) = x
  BY DEF Override
<1>6. KeyPaths(value) /\ KeyPaths(node)
  BY DEF Shaped, IsNode
<1>7. AtIs(value, name, e, m) /\ AtIs(node, name, e, m)
  BY <1>1, <1>6, AtTuple
<1>8. IsNode("scalar", n)
  BY <1>1, AtNode, Types
<1> HIDE DEF name, m
<1>9. Shaped(a, {e}) /\ a[e] = value[m]
  <2> HIDE DEF e
  <2>1. Shaped(a, {e})
    BY <1>1, <1>2, <1>4, AtUnder
  <2> QED
    BY <1>2, <1>7, <2>1 DEF AtIs, Shaped
<1> HIDE DEF a, n
<1>10. Shaped(c, {e}) /\ c[e] = Pick(n, e, a[e])
  BY <1>8, <1>9, ScalarOverridden
<1>11. Pick(n, e, a[e]) = Pick(node, m, a[e])
  BY <1>7 DEF AtIs, n
<1> HIDE DEF c, e
<1>12. Shaped(x, {m})
  BY <1>1, <1>4, <1>10, NestedShaped
<1>13. x[m] = c[e]
  BY <1>1, <1>3, <1>10, NestedNode DEF Shaped
<1> HIDE DEF x
<1>14. Shaped(x, {m}) /\ x[m] = Pick(node, m, value[m])
  BY <1>9, <1>10, <1>11, <1>12, <1>13
<1> QED
  BY <1>5, <1>14 DEF name, m

LEMMA WorkerOverridden ==
  ASSUME NEW value, Shaped(value, WorkerLeaves),
         NEW node, IsNode("worker_config", node),
         NEW by_class, Scopes(by_class)
  PROVE  /\ Shaped(override_worker_config(value, node, by_class), WorkerLeaves)
         /\ WorkerGets(override_worker_config(value, node, by_class),
                       value, node, by_class)
<1> DEFINE x == Override(override_scalar, "", "cl-device-name",
                         value, node, by_class)
           y == ThreadAttribute("reader", value, node, by_class)
           z == ThreadAttribute("writer", value, node, by_class)
           nodes == {x, y, z}
           w == Joined(nodes)
<1>1. override_worker_config(value, node, by_class) = w
  BY DEF override_worker_config, ThreadAttribute
<1>2. Shaped(x, {<<"cl-device-name">>})
      /\ x[<<"cl-device-name">>] =
            Pick(node, <<"cl-device-name">>, value[<<"cl-device-name">>])
  BY NameOverridden
<1>3. "reader" \in Threads /\ "writer" \in Threads
      /\ Threads = {"reader", "writer"}
  BY DEF Threads
<1>4. Shaped(y, {<<"reader", "affinity">>})
      /\ Shaped(z, {<<"writer", "affinity">>})
  BY <1>3, ThreadAttributeOverridden
<1> DEFINE Gets(v, r) ==
             v = Pick(node, <<r, "affinity">>,
                 Pick(node, <<r, ":cpu_set">>,
                 Pick(by_class[":cpu_set"], << >>,
                 Pick(by_class[":thread_config"], <<"affinity">>,
                      value[<<r, "affinity">>]))))
<1>5. Gets(y[<<"reader", "affinity">>], "reader")
      /\ Gets(z[<<"writer", "affinity">>], "writer")
  BY <1>3, ThreadAttributeOverridden
<1> HIDE DEF x, y, z, Gets
<1>6. /\ KeyPaths(x) /\ DOMAIN x = {<<"cl-device-name">>}
      /\ KeyPaths(y) /\ DOMAIN y = {<<"reader", "affinity">>}
      /\ KeyPaths(z) /\ DOMAIN z = {<<"writer", "affinity">>}
  BY <1>2, <1>4 DEF Shaped
<1>7. /\ <<"cl-device-name">> # <<"reader", "affinity">>
      /\ <<"cl-device-name">> # <<"writer", "affinity">>
      /\ <<"reader", "affinity">> # <<"writer", "affinity">>
  OBVIOUS
<1>8. \A n \in nodes : KeyPaths(n)
  BY <1>6
<1>9. \A m, n \in nodes : \A p \in DOMAIN m : p \in DOMAIN n => m = n
  BY <1>6, <1>7
<1>10. UNION {DOMAIN n : n \in nodes} = WorkerLeaves
  BY <1>6 DEF WorkerLeaves
<1>11. x \in nodes /\ y \in nodes /\ z \in nodes
  OBVIOUS
<1> HIDE DEF nodes
<1>12. KeyPaths(w) /\ DOMAIN w = WorkerLeaves
       /\ \A n \in nodes : \A p \in DOMAIN n : w[p] = n[p]
  BY <1>8, <1>9, <1>10, JoinedNodes
<1> HIDE DEF w
<1>13. /\ w[<<"cl-device-name">>] = x[<<"cl-device-name">>]
       /\ w[<<"reader", "affinity">>] = y[<<"reader", "affinity">>]
       /\ w[<<"writer", "affinity">>] = z[<<"writer", "affinity">>]
  BY <1>6, <1>11, <1>12
<1>14. \A r \in Threads : Gets(w[<<r, "affinity">>], r)
  BY <1>3, <1>5, <1>13
<1>15. WorkerGets(w, value, node, by_class)
  BY <1>2, <1>13, <1>14 DEF WorkerGets, Gets
<1> QED
  BY <1>1, <1>12, <1>15 DEF Shaped
-----------------------------------------------------------------------------
(* Lists of workers.                                                       *)

FirstKeys(n) == {Index[i] : i \in 1..n}
ListLeaves(n) == UNION {Under(Index[i], WorkerLeaves) : i \in 1..n}

LEMMA FirstKeysCounted ==
  ASSUME NEW n \in 0..Len(Index)
  PROVE  IsFiniteSet(FirstKeys(n)) /\ Cardinality(FirstKeys(n)) = n
<1> DEFINE S == 1..n
           T == FirstKeys(n)
           f == [i \in S |-> Index[i]]
<1>1. n \in Nat /\ Len(Index) \in Nat
  BY ConfigObjectAssumption, LenProperties
<1>2. IsFiniteSet(S) /\ Cardinality(S) = n
  BY <1>1, FS_Interval
<1>3. f \in Injection(S, T)
  <2>1. f \in [S -> T]
    BY DEF FirstKeys
  <2>2. \A a, b \in S : f[a] = f[b] => a = b
    BY <1>1, KeysApart
  <2> QED
    BY <2>1, <2>2 DEF Injection, IsInjective
<1>4. f \in Surjection(S, T)
  BY DEF Surjection, FirstKeys
<1>5. ExistsBijection(S, T)
  BY <1>3, <1>4 DEF ExistsBijection, Bijection
<1> QED
  BY <1>2, <1>5, FS_Bijection

LEMMA KeysOfNode ==
  ASSUME NEW node, KeyPaths(node)
  PROVE  Keys(node) = {k \in Key : \E q \in Seq(Key) :
            <<k>> \o q \in DOMAIN node}
<1>1. ASSUME NEW k \in Keys(node)
      PROVE  k \in Key /\ \E q \in Seq(Key) : <<k>> \o q \in DOMAIN node
  <2>1. PICK p \in DOMAIN node : p # << >> /\ k = Head(p)
    BY DEF Keys
  <2>2. p \in Seq(Key)
    BY DEF KeyPaths
  <2>3. k \in Key /\ Tail(p) \in Seq(Key) /\ p = <<k>> \o Tail(p)
    BY <2>1, <2>2, Unprefixed
  <2> QED
    BY <2>3
<1>2. ASSUME NEW k \in Key, NEW q \in Seq(Key), <<k>> \o q \in DOMAIN node
      PROVE  k \in Keys(node)
  <2>1. <<k>> \o q # << >> /\ Head(<<k>> \o q) = k
    BY Prefixed
  <2> QED
    BY <1>2, <2>1 DEF Keys
<1> QED
  BY <1>1, <1>2

LEMMA WorkerLeavesTyped == WorkerLeaves \subseteq Seq(Key) /\ WorkerLeaves # {}
<1>1. "cl-device-name" \in Key /\ "reader" \in Key /\ "writer" \in Key
      /\ "affinity" \in Key
  BY Literals DEF Attributes
<1>2. <<"cl-device-name">> \in Seq(Key)
  BY <1>1
<1>3. <<"reader", "affinity">> \in Seq(Key)
  BY <1>1
<1>4. <<"writer", "affinity">> \in Seq(Key)
  BY <1>1
<1> QED
  BY <1>2, <1>3, <1>4 DEF WorkerLeaves

LEMMA ListKeys ==
  ASSUME NEW n \in 0..Len(Index), NEW value, Shaped(value, ListLeaves(n))
  PROVE  Keys(value) = FirstKeys(n) /\ Cardinality(Keys(value)) = n
<1>1. KeyPaths(value) /\ DOMAIN value = ListLeaves(n)
  BY DEF Shaped
<1>2. ASSUME NEW i \in 1..n
      PROVE  i \in 1..Len(Index) /\ Index[i] \in Key
  BY Literals, ConfigObjectAssumption, LenProperties
<1>3. ASSUME NEW k \in Keys(value)
      PROVE  k \in FirstKeys(n)
  <2>1. PICK q \in Seq(Key) : k \in Key /\ <<k>> \o q \in ListLeaves(n)
    BY <1>1, KeysOfNode
  <2>2. PICK i \in 1..n : <<k>> \o q \in Under(Index[i], WorkerLeaves)
    BY <2>1 DEF ListLeaves
  <2>3. PICK l \in WorkerLeaves : <<k>> \o q = <<Index[i]>> \o l
    BY <2>2 DEF Under
  <2>4. Head(<<k>> \o q) = k /\ Head(<<Index[i]>> \o l) = Index[i]
    BY <1>2, <2>1, Prefixed, WorkerLeavesTyped
  <2> QED
    BY <2>3, <2>4 DEF FirstKeys
<1>4. ASSUME NEW i \in 1..n
      PROVE  Index[i] \in Keys(value)
  <2>1. PICK l \in WorkerLeaves : l \in Seq(Key)
    BY WorkerLeavesTyped
  <2>2. <<Index[i]>> \o l \in ListLeaves(n)
    BY DEF ListLeaves, Under
  <2> QED
    BY <1>1, <1>2, <2>1, <2>2, KeysOfNode
<1>5. Keys(value) = FirstKeys(n)
  BY <1>3, <1>4 DEF FirstKeys
<1> QED
  BY <1>5, FirstKeysCounted

LEMMA ListElement ==
  ASSUME NEW n \in 0..Len(Index), NEW value, Shaped(value, ListLeaves(n)),
         NEW i \in 1..n
  PROVE  /\ Shaped(At(value, Index[i]), WorkerLeaves)
         /\ \A l \in WorkerLeaves :
               At(value, Index[i])[l] = value[<<Index[i]>> \o l]
<1>1. ASSUME NEW j \in 1..n
      PROVE  j \in 1..Len(Index) /\ Index[j] \in Key
  BY Literals, ConfigObjectAssumption, LenProperties
<1>2. Under(Index[i], WorkerLeaves) \subseteq ListLeaves(n)
  BY DEF ListLeaves
<1>3. ASSUME NEW p \in ListLeaves(n)
      PROVE  p \in Under(Index[i], WorkerLeaves) \/ Head(p) # Index[i]
  <2>1. PICK j \in 1..n : p \in Under(Index[j], WorkerLeaves)
    BY DEF ListLeaves
  <2>2. PICK l \in WorkerLeaves : p = <<Index[j]>> \o l
    BY <2>1 DEF Under
  <2>3. Head(p) = Index[j]
    BY <1>1, <2>2, Prefixed, WorkerLeavesTyped
  <2>4. CASE i = j
    BY <2>1, <2>4
  <2>5. CASE i # j
    BY <1>1, <2>3, <2>5, KeysApart
  <2> QED
    BY <2>4, <2>5
<1>4. Shaped(At(value, Index[i]), WorkerLeaves)
  BY <1>1, <1>2, <1>3, WorkerLeavesTyped, AtUnder
<1>5. ASSUME NEW l \in WorkerLeaves
      PROVE  At(value, Index[i])[l] = value[<<Index[i]>> \o l]
  BY <1>1, <1>4, WorkerLeavesTyped, AtKey DEF Shaped
<1> QED
  BY <1>4, <1>5

\* The elements of a list before and after the overrides.
ElementBefore(value, n, i) ==
    IF i <= n THEN At(value, Index[i]) ELSE Constructed(WorkerLeaves)
ElementAfter(value, n, node, given, by_class, i) ==
    IF i <= given
    THEN override_worker_config(ElementBefore(value, n, i),
                                At(node, Index[i]), by_class)
    ELSE ElementBefore(value, n, i)
Larger(a, b) == IF a <= b THEN b ELSE a

ListGets(result, value, n, node, given, by_class) ==
    \A i \in 1..Larger(given, n) : \A l \in WorkerLeaves :
       result[<<Index[i]>> \o l] =
          ElementAfter(value, n, node, given, by_class, i)[l]

LEMMA ElementShaped ==
  ASSUME NEW n \in 0..Len(Index), NEW value, Shaped(value, ListLeaves(n)),
         NEW node, \A i \in 1..Len(Index) : IsNode("worker_config", At(node,
            Index[i])),
         NEW given, NEW by_class, Scopes(by_class), NEW i \in 1..Len(Index)
  PROVE  /\ Shaped(ElementBefore(value, n, i), WorkerLeaves)
         /\ Shaped(ElementAfter(value, n, node, given, by_class, i),
               WorkerLeaves)
<1>1. Shaped(ElementBefore(value, n, i), WorkerLeaves)
  <2>1. CASE i <= n
    <3>1. i \in 1..n
      BY <2>1, ConfigObjectAssumption, LenProperties
    <3> QED
      BY <2>1, <3>1, ListElement DEF ElementBefore
  <2>2. CASE ~(i <= n)
    <3>1. Shaped(Constructed(WorkerLeaves), WorkerLeaves)
      BY WorkerLeavesTyped DEF Constructed, Shaped, KeyPaths
    <3> QED
      BY <2>2, <3>1 DEF ElementBefore
  <2> QED
    BY <2>1, <2>2
<1> QED
  BY <1>1, WorkerOverridden DEF ElementAfter

LEMMA ListOverridden ==
  ASSUME NEW n \in 0..Len(Index), NEW value, Shaped(value, ListLeaves(n)),
         NEW node, \A i \in 1..Len(Index) : IsNode("worker_config", At(node,
            Index[i])),
         NEW given \in 0..Len(Index), Cardinality(Keys(node)) = given,
         NEW by_class, Scopes(by_class)
  PROVE  /\ Shaped(override_list(value, node, by_class),
                   ListLeaves(Larger(given, n)))
         /\ ListGets(override_list(value, node, by_class),
                     value, n, node, given, by_class)
<1> DEFINE size == Larger(given, n)
           After(i) == ElementAfter(value, n, node, given, by_class, i)
           nodes == {Nested(Index[i], After(i)) : i \in 1..size}
           r == Joined(nodes)
<1>1. Len(Index) \in Nat /\ DOMAIN Index = 1..Len(Index)
  BY ConfigObjectAssumption, LenProperties
<1>2. size \in 0..Len(Index)
      /\ {j \in DOMAIN Index : j <= given \/ j <= n} = 1..size
  BY <1>1 DEF Larger
<1>3. Cardinality(Keys(value)) = n
  BY ListKeys
<1>4. override_list(value, node, by_class) = r
  BY <1>2, <1>3 DEF override_list, ElementAfter, ElementBefore
<1> HIDE DEF size
<1>5. ASSUME NEW i \in 1..size
      PROVE  i \in 1..Len(Index) /\ Index[i] \in Key
             /\ Shaped(After(i), WorkerLeaves)
  <2>1. i \in 1..Len(Index)
    BY <1>1, <1>2
  <2> QED
    BY <2>1, Literals, ElementShaped
<1> HIDE DEF After
<1>6. ASSUME NEW i \in 1..size
      PROVE  Shaped(Nested(Index[i], After(i)), Under(Index[i], WorkerLeaves))
  BY <1>5, NestedShaped
<1>7. ASSUME NEW i \in 1..size, NEW j \in 1..size,
             NEW p, p \in Under(Index[i], WorkerLeaves),
             p \in Under(Index[j], WorkerLeaves)
      PROVE  i = j
  <2>1. PICK l \in WorkerLeaves : p = <<Index[i]>> \o l
    BY <1>7 DEF Under
  <2>2. PICK m \in WorkerLeaves : p = <<Index[j]>> \o m
    BY <1>7 DEF Under
  <2>3. Head(<<Index[i]>> \o l) = Index[i] /\ Head(<<Index[j]>> \o m) = Index[j]
    BY <1>5, Prefixed, WorkerLeavesTyped
  <2> QED
    BY <1>5, <2>1, <2>2, <2>3, KeysApart
<1>8. \A x \in nodes : KeyPaths(x)
  BY <1>6 DEF Shaped
<1>9. ASSUME NEW x \in nodes, NEW y \in nodes, NEW p \in DOMAIN x,
             p \in DOMAIN y
      PROVE  x = y
  <2>1. PICK i \in 1..size : x = Nested(Index[i], After(i))
    OBVIOUS
  <2>2. PICK j \in 1..size : y = Nested(Index[j], After(j))
    OBVIOUS
  <2>3. i = j
    BY <1>6, <1>7, <1>9, <2>1, <2>2 DEF Shaped
  <2> QED
    BY <2>1, <2>2, <2>3
<1>10. UNION {DOMAIN x : x \in nodes} = ListLeaves(size)
  BY <1>6 DEF Shaped, ListLeaves
<1>11. \A i \in 1..size : Nested(Index[i], After(i)) \in nodes
  OBVIOUS
<1> HIDE DEF nodes
<1>12. KeyPaths(r) /\ DOMAIN r = ListLeaves(size)
       /\ \A x \in nodes : \A p \in DOMAIN x : r[p] = x[p]
  BY <1>8, <1>9, <1>10, JoinedNodes
<1> HIDE DEF r
<1>13. ASSUME NEW i \in 1..size, NEW l \in WorkerLeaves
       PROVE  r[<<Index[i]>> \o l] = After(i)[l]
  <2> DEFINE x == Nested(Index[i], After(i))
  <2>1. KeyPaths(After(i)) /\ DOMAIN After(i) = WorkerLeaves /\ Index[i] \in Key
    BY <1>5 DEF Shaped
  <2>2. x[<<Index[i]>> \o l] = After(i)[l]
    BY <2>1, NestedNode
  <2>3. <<Index[i]>> \o l \in DOMAIN x
    BY <1>6 DEF Shaped, Under
  <2>4. x \in nodes
    BY <1>11
  <2> HIDE DEF x
  <2> QED
    BY <1>12, <2>2, <2>3, <2>4
<1>14. ListGets(r, value, n, node, given, by_class)
  BY <1>13 DEF ListGets, size, After
<1> QED
  BY <1>4, <1>12, <1>14 DEF Shaped, size
-----------------------------------------------------------------------------
(* What a document says.                                                   *)

DocOf(d) == [p \in d |-> p]
TopScope(d) == merge([c \in Classes |-> Undefined], DocOf(d))

\* A node says at q what the document d says at p.
Says(node, q, d, p) == \A v : Pick(node, q, v) = Of(d, p, v)

LEMMA DocumentNode ==
  ASSUME NEW d \in Documents
  PROVE  /\ d \subseteq Entries
         /\ KeyPaths(DocOf(d)) /\ IsNode("program_config", DocOf(d))
         /\ \A p : Says(DocOf(d), p, d, p)
<1>1. d \subseteq Entries
  BY DEF Documents, kSubset
<1>2. DOMAIN DocOf(d) = d /\ \A p \in d : DocOf(d)[p] = p
  BY DEF DocOf
<1>3. KeyPaths(DocOf(d))
  BY <1>1, <1>2, ConfigObjectAssumption DEF KeyPaths, DocOf
<1>4. IsNode("program_config", DocOf(d))
  BY <1>1, <1>2, <1>3, ConfigObjectAssumption DEF IsNode
<1>5. \A p : Says(DocOf(d), p, d, p)
  BY <1>2 DEF Says, Pick, Of
<1> QED
  BY <1>1, <1>3, <1>4, <1>5

LEMMA TopScopeNodes ==
  ASSUME NEW d \in Documents
  PROVE  /\ Scopes(TopScope(d))
         /\ \A c \in Classes : \A q \in Seq(Key) :
               Says(TopScope(d)[c], q, d, <<c>> \o q)
<1> DEFINE none == [c \in Classes |-> Undefined]
           doc_ == DocOf(d)
<1>1. IsNode("program_config", doc_) /\ \A p : Says(doc_, p, d, p)
  BY DocumentNode
<1>2. Scopes(none)
  BY DEF Scopes, IsNode, KeyPaths, Undefined
<1>3. Scopes(merge(none, doc_)) /\ ScopeOver(merge(none, doc_), none, doc_)
  BY <1>1, <1>2, MergedScopes
<1>4. \A c \in Classes : \A q : \A v : Pick(none[c], q, v) = v
  BY DEF Pick, Undefined
<1>5. merge(none, doc_) = TopScope(d)
  BY DEF TopScope
<1> HIDE DEF none, doc_
<1>6. ASSUME NEW c \in Classes, NEW q \in Seq(Key), NEW v
      PROVE  Pick(TopScope(d)[c], q, v) = Of(d, <<c>> \o q, v)
  <2>1. Pick(TopScope(d)[c], q, v) = Pick(doc_, <<c>> \o q, Pick(none[c], q, v))
    BY <1>3, <1>5 DEF ScopeOver
  <2>2. Pick(TopScope(d)[c], q, v) = Pick(doc_, <<c>> \o q, v)
    BY <1>4, <2>1
  <2> QED
    BY <1>1, <2>2 DEF Says
<1> QED
  BY <1>3, <1>5, <1>6 DEF Says

LEMMA TopScopeSays ==
  ASSUME NEW d \in Documents
  PROVE  /\ Says(TopScope(d)[":cpu_set"], << >>, d, <<":cpu_set">>)
         /\ Says(TopScope(d)[":thread_config"], <<"affinity">>,
                 d, <<":thread_config", "affinity">>)
         /\ Says(TopScope(d)[":worker_config"], <<"cl-device-name">>,
                 d, <<":worker_config", "cl-device-name">>)
         /\ \A r \in Threads :
               /\ Says(TopScope(d)[":worker_config"], <<r, "affinity">>,
                       d, <<":worker_config", r, "affinity">>)
               /\ Says(TopScope(d)[":worker_config"], <<r, ":cpu_set">>,
                       d, <<":worker_config", r, ":cpu_set">>)
<1>1. /\ "affinity" \in Key /\ "cl-device-name" \in Key /\ ":cpu_set" \in Key
      /\ ":thread_config" \in Key /\ ":worker_config" \in Key
      /\ \A r \in Threads : r \in Key
      /\ ":cpu_set" \in Classes /\ ":thread_config" \in Classes
      /\ ":worker_config" \in Classes
  BY Literals DEF Attributes, Classes
<1> DEFINE S(c, q, p) == Says(TopScope(d)[c], q, d, p)
<1>2. \A c \in Classes : \A q \in Seq(Key) : S(c, q, <<c>> \o q)
  BY TopScopeNodes
<1> HIDE DEF S
<1>3. S(":cpu_set", << >>, <<":cpu_set">>)
  <2> DEFINE q == << >>
  <2>1. q \in Seq(Key) /\ <<":cpu_set">> \o q = <<":cpu_set">>
    BY <1>1, Tuples
  <2> HIDE DEF q
  <2>2. S(":cpu_set", q, <<":cpu_set">>)
    BY <1>1, <1>2, <2>1
  <2> QED
    BY <2>2 DEF q
<1>4. ASSUME NEW c \in Classes, c \in Key, NEW a \in Key
      PROVE  S(c, <<a>>, <<c, a>>)
  <2> DEFINE q == <<a>>
  <2>1. q \in Seq(Key)
    BY <1>4
  <2>2. <<c>> \o q = <<c, a>>
    BY <1>4, Tuples
  <2> HIDE DEF q
  <2>3. S(c, q, <<c, a>>)
    BY <1>2, <2>1, <2>2
  <2> QED
    BY <2>3 DEF q
<1>5. ASSUME NEW c \in Classes, c \in Key, NEW a \in Key, NEW b \in Key
      PROVE  S(c, <<a, b>>, <<c, a, b>>)
  <2> DEFINE q == <<a, b>>
  <2>1. q \in Seq(Key)
    BY <1>5
  <2>2. <<c>> \o q = <<c, a, b>>
    BY <1>5, Tuples
  <2> HIDE DEF q
  <2>3. S(c, q, <<c, a, b>>)
    BY <1>2, <2>1, <2>2
  <2> QED
    BY <2>3 DEF q
<1>6. S(":thread_config", <<"affinity">>, <<":thread_config", "affinity">>)
  BY <1>1, <1>4
<1>7. S(":worker_config", <<"cl-device-name">>,
        <<":worker_config", "cl-device-name">>)
  BY <1>1, <1>4
<1>8. ASSUME NEW r \in Threads
      PROVE  /\ S(":worker_config", <<r, "affinity">>,
                  <<":worker_config", r, "affinity">>)
             /\ S(":worker_config", <<r, ":cpu_set">>,
                  <<":worker_config", r, ":cpu_set">>)
  BY <1>1, <1>5
<1> QED
  BY <1>3, <1>6, <1>7, <1>8 DEF S

LEMMA SaysAt ==
  ASSUME NEW node, NEW key, NEW q, NEW p, NEW d, NEW p1,
         AtIs(node, key, q, p), Says(node, p, d, p1)
  PROVE  Says(At(node, key), q, d, p1)
BY DEF AtIs, Says

LEMMA PrimarySays ==
  ASSUME NEW d \in Documents
  PROVE  /\ Says(At(DocOf(d), "primary"), <<"cl-device-name">>,
                 d, <<"primary", "cl-device-name">>)
         /\ \A r \in Threads :
               /\ Says(At(DocOf(d), "primary"), <<r, "affinity">>,
                       d, <<"primary", r, "affinity">>)
               /\ Says(At(DocOf(d), "primary"), <<r, ":cpu_set">>,
                       d, <<"primary", r, ":cpu_set">>)
<1>1. /\ "affinity" \in Key /\ "cl-device-name" \in Key /\ ":cpu_set" \in Key
      /\ "primary" \in Key /\ \A r \in Threads : r \in Key
  BY Literals DEF Attributes, Classes
<1> DEFINE doc_ == DocOf(d)
<1>2. KeyPaths(doc_) /\ \A p : Says(doc_, p, d, p)
  BY DocumentNode
<1> HIDE DEF doc_
<1>3. AtIs(doc_, "primary", <<"cl-device-name">>, <<"primary",
         "cl-device-name">>)
  BY <1>1, <1>2, AtTuple
<1>4. ASSUME NEW r \in Threads
      PROVE  /\ AtIs(doc_, "primary", <<r, "affinity">>,
                     <<"primary", r, "affinity">>)
             /\ AtIs(doc_, "primary", <<r, ":cpu_set">>,
                     <<"primary", r, ":cpu_set">>)
  BY <1>1, <1>2, AtTuple
<1>5. Says(At(doc_, "primary"), <<"cl-device-name">>,
           d, <<"primary", "cl-device-name">>)
  BY <1>2, <1>3, SaysAt
<1>6. ASSUME NEW r \in Threads
      PROVE  /\ Says(At(doc_, "primary"), <<r, "affinity">>,
                     d, <<"primary", r, "affinity">>)
             /\ Says(At(doc_, "primary"), <<r, ":cpu_set">>,
                     d, <<"primary", r, ":cpu_set">>)
  BY <1>2, <1>4, SaysAt
<1> QED
  BY <1>5, <1>6 DEF doc_

LEMMA WorkerSays ==
  ASSUME NEW d \in Documents, NEW i \in 1..Len(Index)
  PROVE  LET node == At(At(DocOf(d), "workers"), Index[i])
         IN  /\ IsNode("worker_config", node)
             /\ Says(node, <<"cl-device-name">>,
                     d, <<"workers", Index[i], "cl-device-name">>)
             /\ \A r \in Threads :
                   /\ Says(node, <<r, "affinity">>,
                           d, <<"workers", Index[i], r, "affinity">>)
                   /\ Says(node, <<r, ":cpu_set">>,
                           d, <<"workers", Index[i], r, ":cpu_set">>)
<1> DEFINE k == Index[i]
           doc_ == DocOf(d)
           list == At(doc_, "workers")
<1>1. /\ "affinity" \in Key /\ "cl-device-name" \in Key /\ ":cpu_set" \in Key
      /\ "workers" \in Key /\ \A r \in Threads : r \in Key
      /\ k \in Key
  BY Literals DEF Attributes, Classes
<1>2. KeyPaths(doc_) /\ IsNode("program_config", doc_) /\ \A p : Says(doc_, p,
         d, p)
  BY DocumentNode
<1>3. IsNode("list", list) /\ KeyPaths(list)
  BY <1>1, <1>2, AtNode, Types DEF IsNode
<1>4. IsNode("worker_config", At(list, k))
  BY <1>1, <1>3, AtNode, Types
<1> HIDE DEF k, doc_
<1>5. ASSUME NEW a \in Key
      PROVE  Says(At(list, k), <<a>>, d, <<"workers", k, a>>)
  <2>1. AtIs(doc_, "workers", <<k, a>>, <<"workers", k, a>>)
    BY <1>1, <1>2, AtTuple
  <2>2. Says(list, <<k, a>>, d, <<"workers", k, a>>)
    BY <1>2, <2>1, SaysAt
  <2> HIDE DEF list
  <2>3. AtIs(list, k, <<a>>, <<k, a>>)
    BY <1>1, <1>3, AtTuple
  <2> QED
    BY <2>2, <2>3, SaysAt
<1>6. ASSUME NEW a \in Key, NEW b \in Key
      PROVE  Says(At(list, k), <<a, b>>, d, <<"workers", k, a, b>>)
  <2>1. AtIs(doc_, "workers", <<k, a, b>>, <<"workers", k, a, b>>)
    BY <1>1, <1>2, AtTuple
  <2>2. Says(list, <<k, a, b>>, d, <<"workers", k, a, b>>)
    BY <1>2, <2>1, SaysAt
  <2> HIDE DEF list
  <2>3. AtIs(list, k, <<a, b>>, <<k, a, b>>)
    BY <1>1, <1>3, AtTuple
  <2> QED
    BY <2>2, <2>3, SaysAt
<1>7. Says(At(list, k), <<"cl-device-name">>, d, <<"workers", k,
         "cl-device-name">>)
  BY <1>1, <1>5
<1>8. ASSUME NEW r \in Threads
      PROVE  /\ Says(At(list, k), <<r, "affinity">>,
                     d, <<"workers", k, r, "affinity">>)
             /\ Says(At(list, k), <<r, ":cpu_set">>,
                     d, <<"workers", k, r, ":cpu_set">>)
  BY <1>1, <1>6
<1> QED
  BY <1>4, <1>7, <1>8 DEF k, doc_

\* A node says at q what the document says at p, or else at p1.
SaysTwice(node, q, d, p, p1) ==
    \A v : Pick(node, q, v) = Of(d, p, Of(d, p1, v))

LEMMA SaysInTurn ==
  ASSUME NEW d, NEW n, NEW q, NEW q1, NEW x, NEW q2, NEW y, NEW q3,
         NEW p, NEW p1, NEW p2, NEW p3,
         Says(n, q, d, p), Says(n, q1, d, p1), Says(x, q2, d, p2),
         Says(y, q3, d, p3), NEW v
  PROVE  Pick(n, q, Pick(n, q1, Pick(x, q2, Pick(y, q3, v)))) =
            Of(d, p, Of(d, p1, Of(d, p2, Of(d, p3, v))))
<1>1. \A u : Pick(n, q, u) = Of(d, p, u)
  BY DEF Says
<1>2. \A u : Pick(n, q1, u) = Of(d, p1, u)
  BY DEF Says
<1>3. \A u : Pick(x, q2, u) = Of(d, p2, u)
  BY DEF Says
<1>4. \A u : Pick(y, q3, u) = Of(d, p3, u)
  BY DEF Says
<1> QED
  BY <1>1, <1>2, <1>3, <1>4

LEMMA SaysTwiceInTurn ==
  ASSUME NEW d, NEW n, NEW q, NEW q1, NEW x, NEW q2, NEW y, NEW q3,
         NEW p, NEW p1, NEW p2, NEW p3, NEW p4, NEW p5,
         Says(n, q, d, p), Says(n, q1, d, p1), SaysTwice(x, q2, d, p2, p3),
         SaysTwice(y, q3, d, p4, p5), NEW v
  PROVE  Pick(n, q, Pick(n, q1, Pick(x, q2, Pick(y, q3, v)))) =
            Of(d, p, Of(d, p1, Of(d, p2, Of(d, p3, Of(d, p4, Of(d, p5, v))))))
<1>1. \A u : Pick(n, q, u) = Of(d, p, u)
  BY DEF Says
<1>2. \A u : Pick(n, q1, u) = Of(d, p1, u)
  BY DEF Says
<1>3. \A u : Pick(x, q2, u) = Of(d, p2, Of(d, p3, u))
  BY DEF SaysTwice
<1>4. \A u : Pick(y, q3, u) = Of(d, p4, Of(d, p5, u))
  BY DEF SaysTwice
<1> QED
  BY <1>1, <1>2, <1>3, <1>4

LEMMA ScopeSays ==
  ASSUME NEW d \in Documents, NEW key \in Key
  PROVE  /\ Scopes(ScopeOf(TopScope(d), DocOf(d), key))
         /\ SaysTwice(ScopeOf(TopScope(d), DocOf(d), key)[":cpu_set"], << >>,
                      d, <<key, ":cpu_set">>, <<":cpu_set">>)
         /\ SaysTwice(ScopeOf(TopScope(d), DocOf(d), key)[":thread_config"],
                      <<"affinity">>, d, <<key, ":thread_config", "affinity">>,
                      <<":thread_config", "affinity">>)
<1> DEFINE top == TopScope(d)
           doc_ == DocOf(d)
           scope == ScopeOf(top, doc_, key)
           e == << >>
           l == <<"affinity">>
           cpu == ":cpu_set"
           tc == ":thread_config"
<1>1. "affinity" \in Key /\ cpu \in Key /\ tc \in Key
      /\ cpu \in Classes /\ tc \in Classes
  BY Literals DEF Attributes, Classes
<1>2. IsNode("program_config", doc_) /\ \A p : Says(doc_, p, d, p)
  BY DocumentNode
<1>3. Scopes(top) /\ Says(top[cpu], e, d, <<cpu>>)
      /\ Says(top[tc], l, d, <<tc, "affinity">>)
  BY TopScopeNodes, TopScopeSays
<1>4. e \in Seq(Key) /\ l \in Seq(Key)
  BY <1>1
<1>5. <<key>> \o (<<cpu>> \o e) = <<key, cpu>>
  BY <1>1, Tuples
<1>6. <<key>> \o (<<tc>> \o l) = <<key, tc, "affinity">>
  <2>1. <<tc>> \o l = <<tc, "affinity">>
    BY <1>1, Tuples
  <2>2. <<key>> \o <<tc, "affinity">> = <<key, tc, "affinity">>
    BY <1>1, Tuples
  <2> QED
    BY <2>1, <2>2
<1> HIDE DEF top, doc_
<1>7. Scopes(scope) /\ ScopeOverAt(scope, top, doc_, key)
  BY <1>2, <1>3, InnerScope
<1> HIDE DEF scope, e, l, cpu, tc
<1>8. ASSUME NEW c \in Classes, NEW q \in Seq(Key), NEW p, NEW p1,
             p = <<key>> \o (<<c>> \o q), Says(top[c], q, d, p1)
      PROVE  SaysTwice(scope[c], q, d, p, p1)
  <2> SUFFICES ASSUME NEW v
               PROVE  Pick(scope[c], q, v) = Of(d, p, Of(d, p1, v))
    BY DEF SaysTwice
  <2> DEFINE x == Pick(top[c], q, v)
  <2>1. x = Of(d, p1, v)
    BY <1>8 DEF Says
  <2>2. Pick(scope[c], q, v) = Pick(doc_, p, x)
    BY <1>7, <1>8 DEF ScopeOverAt
  <2> HIDE DEF x
  <2>3. Pick(doc_, p, x) = Of(d, p, x)
    BY <1>2 DEF Says
  <2> QED
    BY <2>1, <2>2, <2>3
<1>9. SaysTwice(scope[cpu], e, d, <<key, cpu>>, <<cpu>>)
  BY <1>1, <1>3, <1>4, <1>5, <1>8
<1>10. SaysTwice(scope[tc], l, d, <<key, tc, "affinity">>, <<tc, "affinity">>)
  BY <1>1, <1>3, <1>4, <1>6, <1>8
<1> QED
  BY <1>7, <1>9, <1>10 DEF scope, top, doc_, e, l, cpu, tc

\* What the worker that is not in a list gets.
PrimaryGets(result, value, d) ==
    /\ result[<<"cl-device-name">>] =
          Of(d, <<"primary", "cl-device-name">>,
          Of(d, <<":worker_config", "cl-device-name">>,
             value[<<"cl-device-name">>]))
    /\ \A r \in Threads :
          result[<<r, "affinity">>] =
             Of(d, <<"primary", r, "affinity">>,
             Of(d, <<"primary", r, ":cpu_set">>,
             Of(d, <<"primary", ":cpu_set">>,
             Of(d, <<":cpu_set">>,
             Of(d, <<"primary", ":thread_config", "affinity">>,
             Of(d, <<":thread_config", "affinity">>,
             Of(d, <<":worker_config", r, "affinity">>,
             Of(d, <<":worker_config", r, ":cpu_set">>,
                value[<<r, "affinity">>]))))))))

\* The override of an attribute by its class.
WorkerByClass(value, d) ==
    IF TopScope(d)[":worker_config"] = Undefined THEN value
    ELSE override_worker_config(value, TopScope(d)[":worker_config"],
                                TopScope(d))

LEMMA WorkerByClassGets ==
  ASSUME NEW d \in Documents, NEW value, Shaped(value, WorkerLeaves)
  PROVE  /\ Shaped(WorkerByClass(value, d), WorkerLeaves)
         /\ WorkerByClass(value, d)[<<"cl-device-name">>] =
               Of(d, <<":worker_config", "cl-device-name">>,
                  value[<<"cl-device-name">>])
         /\ \A r \in Threads :
               \/ WorkerByClass(value, d)[<<r, "affinity">>] =
                     Of(d, <<":worker_config", r, "affinity">>,
                     Of(d, <<":worker_config", r, ":cpu_set">>,
                     Of(d, <<":cpu_set">>,
                     Of(d, <<":thread_config", "affinity">>,
                        value[<<r, "affinity">>]))))
               \/ /\ WorkerByClass(value, d)[<<r, "affinity">>] =
                        value[<<r, "affinity">>]
                  /\ <<":worker_config", r, "affinity">> \notin d
                  /\ <<":worker_config", r, ":cpu_set">> \notin d
<1> DEFINE o == TopScope(d)[":worker_config"]
           top == TopScope(d)
           b == WorkerByClass(value, d)
           w == override_worker_config(value, o, top)
<1>1. ":worker_config" \in Classes /\ TypeOf(":worker_config") = "worker_config"
  BY Types DEF Classes
<1>2. Scopes(top) /\ IsNode("worker_config", o)
  BY <1>1, TopScopeNodes DEF Scopes
<1>3. Says(o, <<"cl-device-name">>, d, <<":worker_config", "cl-device-name">>)
      /\ \A r \in Threads :
            /\ Says(o, <<r, "affinity">>, d, <<":worker_config", r,
                  "affinity">>)
            /\ Says(o, <<r, ":cpu_set">>, d, <<":worker_config", r,
                  ":cpu_set">>)
  BY TopScopeSays
<1>4. Says(top[":cpu_set"], << >>, d, <<":cpu_set">>)
      /\ Says(top[":thread_config"], <<"affinity">>,
              d, <<":thread_config", "affinity">>)
  BY TopScopeSays
<1>5. b = IF o = Undefined THEN value ELSE w
  BY DEF WorkerByClass
<1>6. Shaped(w, WorkerLeaves) /\ WorkerGets(w, value, o, top)
  BY <1>2, WorkerOverridden
<1> HIDE DEF o, top, b, w
<1>7. CASE o = Undefined
  <2>1. ASSUME NEW q, NEW p, Says(o, q, d, p), p # << >>
        PROVE  p \notin d
    <3> SUFFICES ASSUME p \in d PROVE FALSE
      OBVIOUS
    <3>1. Pick(o, q, << >>) = Of(d, p, << >>)
      BY <2>1 DEF Says
    <3>2. Pick(o, q, << >>) = << >>
      BY <1>7 DEF Pick, Undefined
    <3> QED
      BY <2>1, <3>1, <3>2 DEF Of
  <2>2. <<":worker_config", "cl-device-name">> \notin d
    BY <1>3, <2>1
  <2>3. \A r \in Threads : <<":worker_config", r, "affinity">> \notin d
                           /\ <<":worker_config", r, ":cpu_set">> \notin d
    BY <1>3, <2>1
  <2> QED
    BY <1>5, <1>7, <2>2, <2>3 DEF Of, b
<1>8. CASE o # Undefined
  <2>1. b = w
    BY <1>5, <1>8
  <2>2. b[<<"cl-device-name">>] =
           Of(d, <<":worker_config", "cl-device-name">>,
              value[<<"cl-device-name">>])
    BY <1>3, <1>6, <2>1 DEF WorkerGets, Says
  <2>3. ASSUME NEW r \in Threads
        PROVE  b[<<r, "affinity">>] =
                     Of(d, <<":worker_config", r, "affinity">>,
                     Of(d, <<":worker_config", r, ":cpu_set">>,
                     Of(d, <<":cpu_set">>,
                     Of(d, <<":thread_config", "affinity">>,
                        value[<<r, "affinity">>]))))
    <3> DEFINE vv == value[<<r, "affinity">>]
               q0 == <<r, "affinity">>
               q1 == <<r, ":cpu_set">>
               q2 == << >>
               q3 == <<"affinity">>
               p0 == <<":worker_config", r, "affinity">>
               p1 == <<":worker_config", r, ":cpu_set">>
               p2 == <<":cpu_set">>
               p3 == <<":thread_config", "affinity">>
    <3>1. w[q0] = Pick(o, q0, Pick(o, q1, Pick(top[":cpu_set"], q2,
                     Pick(top[":thread_config"], q3, vv))))
      BY <1>6 DEF WorkerGets
    <3>2. Says(o, q0, d, p0) /\ Says(o, q1, d, p1)
          /\ Says(top[":cpu_set"], q2, d, p2)
          /\ Says(top[":thread_config"], q3, d, p3)
      BY <1>3, <1>4
    <3> HIDE DEF vv, q0, q1, q2, q3, p0, p1, p2, p3
    <3>3. w[q0] = Of(d, p0, Of(d, p1, Of(d, p2, Of(d, p3, vv))))
      BY <3>1, <3>2, SaysInTurn
    <3> QED
      BY <2>1, <3>3 DEF vv, q0, p0, p1, p2, p3
  <2> QED
    BY <1>6, <2>1, <2>2, <2>3 DEF b
<1> QED
  BY <1>7, <1>8

LEMMA PrimaryOverridden ==
  ASSUME NEW d \in Documents, NEW value, Shaped(value, WorkerLeaves)
  PROVE  LET c == override_worker_config(WorkerByClass(value, d),
                     At(DocOf(d), "primary"),
                     ScopeOf(TopScope(d), DocOf(d), "primary"))
         IN  Shaped(c, WorkerLeaves) /\ PrimaryGets(c, value, d)
<1> DEFINE b == WorkerByClass(value, d)
           n == At(DocOf(d), "primary")
           scope == ScopeOf(TopScope(d), DocOf(d), "primary")
           c == override_worker_config(b, n, scope)
<1>1. "primary" \in Key /\ TypeOf("primary") = "worker_config"
  BY Literals, Types DEF Attributes
<1>2. IsNode("worker_config", n)
  BY <1>1, AtNode, DocumentNode
<1>3. Says(n, <<"cl-device-name">>, d, <<"primary", "cl-device-name">>)
      /\ \A r \in Threads :
            /\ Says(n, <<r, "affinity">>, d, <<"primary", r, "affinity">>)
            /\ Says(n, <<r, ":cpu_set">>, d, <<"primary", r, ":cpu_set">>)
  BY PrimarySays
<1>4. Scopes(scope)
      /\ SaysTwice(scope[":cpu_set"], << >>,
                   d, <<"primary", ":cpu_set">>, <<":cpu_set">>)
      /\ SaysTwice(scope[":thread_config"], <<"affinity">>,
                   d, <<"primary", ":thread_config", "affinity">>,
                   <<":thread_config", "affinity">>)
  BY <1>1, ScopeSays
<1>5. Shaped(b, WorkerLeaves)
  BY WorkerByClassGets
<1> HIDE DEF b, n, scope
<1>6. Shaped(c, WorkerLeaves) /\ WorkerGets(c, b, n, scope)
  BY <1>2, <1>4, <1>5, WorkerOverridden
<1> HIDE DEF c
<1>7. c[<<"cl-device-name">>] =
          Of(d, <<"primary", "cl-device-name">>, b[<<"cl-device-name">>])
  BY <1>3, <1>6 DEF WorkerGets, Says
<1>8. ASSUME NEW r \in Threads
      PROVE  c[<<r, "affinity">>] =
                Of(d, <<"primary", r, "affinity">>,
                Of(d, <<"primary", r, ":cpu_set">>,
                Of(d, <<"primary", ":cpu_set">>,
                Of(d, <<":cpu_set">>,
                Of(d, <<"primary", ":thread_config", "affinity">>,
                Of(d, <<":thread_config", "affinity">>, b[<<r,
                   "affinity">>]))))))
  <2> DEFINE vv == b[<<r, "affinity">>]
             q0 == <<r, "affinity">>
             q1 == <<r, ":cpu_set">>
             q2 == << >>
             q3 == <<"affinity">>
             p0 == <<"primary", r, "affinity">>
             p1 == <<"primary", r, ":cpu_set">>
             p2 == <<"primary", ":cpu_set">>
             p3 == <<":cpu_set">>
             p4 == <<"primary", ":thread_config", "affinity">>
             p5 == <<":thread_config", "affinity">>
  <2>1. c[q0] = Pick(n, q0, Pick(n, q1, Pick(scope[":cpu_set"], q2,
                     Pick(scope[":thread_config"], q3, vv))))
    BY <1>6 DEF WorkerGets
  <2>2. Says(n, q0, d, p0) /\ Says(n, q1, d, p1)
        /\ SaysTwice(scope[":cpu_set"], q2, d, p2, p3)
        /\ SaysTwice(scope[":thread_config"], q3, d, p4, p5)
    BY <1>3, <1>4
  <2> HIDE DEF vv, q0, q1, q2, q3, p0, p1, p2, p3, p4, p5
  <2>3. c[q0] = Of(d, p0, Of(d, p1, Of(d, p2, Of(d, p3, Of(d, p4,
                   Of(d, p5, vv))))))
    BY <2>1, <2>2, SaysTwiceInTurn
  <2> QED
    BY <2>3 DEF vv, q0, p0, p1, p2, p3, p4, p5
<1>9. b[<<"cl-device-name">>] =
         Of(d, <<":worker_config", "cl-device-name">>,
            value[<<"cl-device-name">>])
  BY WorkerByClassGets DEF b
<1>10. ASSUME NEW r \in Threads
       PROVE  c[<<r, "affinity">>] =
                Of(d, <<"primary", r, "affinity">>,
                Of(d, <<"primary", r, ":cpu_set">>,
                Of(d, <<"primary", ":cpu_set">>,
                Of(d, <<":cpu_set">>,
                Of(d, <<"primary", ":thread_config", "affinity">>,
                Of(d, <<":thread_config", "affinity">>,
                Of(d, <<":worker_config", r, "affinity">>,
                Of(d, <<":worker_config", r, ":cpu_set">>,
                   value[<<r, "affinity">>]))))))))
  <2> DEFINE bv == b[<<r, "affinity">>]
             vv == value[<<r, "affinity">>]
             p1 == <<":worker_config", r, "affinity">>
             p2 == <<":worker_config", r, ":cpu_set">>
             p3 == <<":cpu_set">>
             p4 == <<":thread_config", "affinity">>
  <2>1. bv = Of(d, p1, Of(d, p2, Of(d, p3, Of(d, p4, vv))))
        \/ (bv = vv /\ p1 \notin d /\ p2 \notin d)
    BY WorkerByClassGets DEF b
  <2> HIDE DEF bv, vv, p1, p2, p3, p4
  <2>2. \A x : Of(d, p3, Of(d, x, Of(d, p4, bv))) =
                  Of(d, p3, Of(d, x, Of(d, p4, Of(d, p1, Of(d, p2, vv)))))
    BY <2>1 DEF Of
  <2> QED
    BY <1>8, <2>2 DEF bv, vv, p1, p2, p3, p4
<1>11. PrimaryGets(c, value, d)
  BY <1>7, <1>9, <1>10 DEF PrimaryGets
<1> QED
  BY <1>6, <1>11 DEF c, b, n, scope
-----------------------------------------------------------------------------
(* What the workers in the list get.                                       *)

\* What an element of the list has after the override of its class.
ElementBase(x, d) ==
    /\ x[<<"cl-device-name">>] \in Code
    /\ \A r \in Threads : \E c \in Code :
          \/ x[<<r, "affinity">>] = c
          \/ x[<<r, "affinity">>] =
                Of(d, <<":cpu_set">>, Of(d, <<":thread_config", "affinity">>,
                   c))

ElementGets(x, i, d) ==
    /\ \E c \in Code :
          x[<<"cl-device-name">>] =
             Of(d, <<"workers", Index[i], "cl-device-name">>, c)
    /\ \A r \in Threads : \E c \in Code :
          \/ x[<<r, "affinity">>] =
                Of(d, <<"workers", Index[i], r, "affinity">>,
                Of(d, <<"workers", Index[i], r, ":cpu_set">>,
                Of(d, <<":cpu_set">>,
                Of(d, <<":thread_config", "affinity">>, c))))
          \/ x[<<r, "affinity">>] = c /\ Index[i] \notin Elements(d)

\* The override of a class has no elements of a list.
LEMMA NoElements ==
  ASSUME NEW node, IsNode("worker_config", node), NEW i \in 1..Len(Index)
  PROVE  /\ IsNode("worker_config", At(node, Index[i]))
         /\ DOMAIN At(node, Index[i]) = {}
<1>1. Index[i] \in Key /\ TypeOf(Index[i]) = "worker_config"
  BY Literals, Types
<1>2. Index[i] \notin {"cl-device-name", "reader", "writer"} \cup Classes
  BY KeysApart DEF Attributes
<1>3. KeysOf("worker_config") =
         {"cl-device-name", "reader", "writer"} \cup Classes
  BY DEF KeysOf
<1>4. IsNode("worker_config", At(node, Index[i]))
  BY <1>1, AtNode
<1>5. ASSUME NEW q \in DOMAIN At(node, Index[i])
      PROVE  FALSE
  <2>1. q \in Seq(Key)
    BY <1>4 DEF IsNode, KeyPaths
  <2>2. <<Index[i]>> \o q \in DOMAIN node
    BY <1>1, <1>5, <2>1, AtKey DEF IsNode
  <2>3. WellFormed("worker_config", <<Index[i]>> \o q)
    BY <2>2 DEF IsNode
  <2>4. Index[i] \in KeysOf("worker_config")
    BY <1>1, <2>1, <2>3, RestWellFormed
  <2> QED
    BY <1>2, <1>3, <2>4
<1> QED
  BY <1>4, <1>5

\* It gives the list at most six.
LEMMA ClassKeysCounted ==
  ASSUME NEW node, IsNode("worker_config", node)
  PROVE  Cardinality(Keys(node)) \in 0..Len(Index)
<1> DEFINE all == {"cl-device-name", "reader", "writer", ":worker_config",
                   ":thread_config", ":cpu_set"}
           f == [i \in 1..6 |-> CASE i = 1 -> "cl-device-name"
                                  [] i = 2 -> "reader"
                                  [] i = 3 -> "writer"
                                  [] i = 4 -> ":worker_config"
                                  [] i = 5 -> ":thread_config"
                                  [] i = 6 -> ":cpu_set"]
<1>1. KeysOf("worker_config") = all
  BY DEF KeysOf, Classes
<1>2. Keys(node) \subseteq all
  <2>1. ASSUME NEW k \in Keys(node)
        PROVE  k \in KeysOf("worker_config")
    <3>1. PICK q \in Seq(Key) : k \in Key /\ <<k>> \o q \in DOMAIN node
      BY KeysOfNode DEF IsNode
    <3> QED
      BY <3>1, RestWellFormed DEF IsNode
  <2> QED
    BY <1>1, <2>1
<1>3. f \in Surjection(1..6, all)
  <2>1. f \in [1..6 -> all]
    OBVIOUS
  <2>2. /\ f[1] = "cl-device-name" /\ f[2] = "reader" /\ f[3] = "writer"
        /\ f[4] = ":worker_config" /\ f[5] = ":thread_config"
        /\ f[6] = ":cpu_set"
    OBVIOUS
  <2> HIDE DEF f
  <2>3. \A k \in all : \E i \in 1..6 : f[i] = k
    BY <2>2
  <2> QED
    BY <2>1, <2>3 DEF Surjection
<1> HIDE DEF all, f
<1>4. IsFiniteSet(1..6) /\ Cardinality(1..6) = 6
  <2>1. \A n \in Nat : IsFiniteSet(1..n) /\ Cardinality(1..n) = n
    BY FS_Interval
  <2> QED
    BY <2>1
<1>5. IsFiniteSet(all) /\ Cardinality(all) <= 6
  BY <1>3, <1>4, FS_Surjection
<1>6. Cardinality(Keys(node)) <= Cardinality(all) /\ IsFiniteSet(Keys(node))
  BY <1>2, <1>5, FS_Subset
<1>7. Cardinality(Keys(node)) \in Nat /\ Cardinality(all) \in Nat
  BY <1>5, <1>6, FS_CardinalityType
<1>8. Len(Index) \in Nat /\ Len(Index) >= 6
  BY ConfigObjectAssumption, LenProperties
<1> QED
  BY <1>5, <1>6, <1>7, <1>8

\* The override of the list by the class of its elements.
WorkersByClass(value, d) ==
    IF TopScope(d)[":worker_config"] = Undefined THEN value
    ELSE override_list(value, TopScope(d)[":worker_config"], TopScope(d))

LEMMA BaseOverridden ==
  ASSUME NEW d \in Documents, NEW value, Shaped(value, WorkerLeaves),
         \A l \in WorkerLeaves : value[l] \in Code,
         NEW node, IsNode("worker_config", node), DOMAIN node = {}
  PROVE  ElementBase(override_worker_config(value, node, TopScope(d)), d)
<1> DEFINE top == TopScope(d)
           w == override_worker_config(value, node, top)
<1>1. Scopes(top)
  BY TopScopeNodes
<1>2. WorkerGets(w, value, node, top)
  BY <1>1, WorkerOverridden
<1>3. \A q : \A v : Pick(node, q, v) = v
  BY DEF Pick
<1>4. Says(top[":cpu_set"], << >>, d, <<":cpu_set">>)
      /\ Says(top[":thread_config"], <<"affinity">>,
              d, <<":thread_config", "affinity">>)
  BY TopScopeSays
<1> HIDE DEF w, top
<1>5. w[<<"cl-device-name">>] = value[<<"cl-device-name">>]
      /\ <<"cl-device-name">> \in WorkerLeaves
  BY <1>2, <1>3 DEF WorkerGets, WorkerLeaves
<1>6. ASSUME NEW r \in Threads
      PROVE  \E c \in Code : w[<<r, "affinity">>] =
                Of(d, <<":cpu_set">>, Of(d, <<":thread_config", "affinity">>,
                   c))
  <2> DEFINE l == <<r, "affinity">>
             k == <<r, ":cpu_set">>
             e == << >>
             a == <<"affinity">>
             p == <<":cpu_set">>
             p1 == <<":thread_config", "affinity">>
             vv == value[l]
  <2>1. l \in WorkerLeaves
    BY DEF WorkerLeaves, Threads
  <2>2. w[l] = Pick(node, l, Pick(node, k, Pick(top[":cpu_set"], e,
                  Pick(top[":thread_config"], a, vv))))
    BY <1>2 DEF WorkerGets
  <2>3. Says(top[":cpu_set"], e, d, p) /\ Says(top[":thread_config"], a, d, p1)
    BY <1>4
  <2>4. vv \in Code
    BY <2>1
  <2> HIDE DEF l, k, e, a, p, p1, vv
  <2>5. w[l] = Pick(top[":cpu_set"], e, Pick(top[":thread_config"], a, vv))
    BY <1>3, <2>2
  <2>6. w[l] = Of(d, p, Of(d, p1, vv))
    BY <2>3, <2>5 DEF Says
  <2> QED
    BY <2>4, <2>6 DEF l, p, p1
<1> QED
  BY <1>5, <1>6 DEF ElementBase, w, top

LEMMA WorkersByClassGet ==
  ASSUME NEW d \in Documents, NEW n \in 0..Len(Index),
         NEW value, Shaped(value, ListLeaves(n)),
         \A l \in ListLeaves(n) : value[l] \in Code
  PROVE  \E m \in n..Len(Index) :
            /\ Shaped(WorkersByClass(value, d), ListLeaves(m))
            /\ \A i \in 1..m :
                  ElementBase(At(WorkersByClass(value, d), Index[i]), d)
<1> DEFINE o == TopScope(d)[":worker_config"]
           top == TopScope(d)
           b == WorkersByClass(value, d)
           w == override_list(value, o, top)
           given == Cardinality(Keys(o))
           After(i) == ElementAfter(value, n, o, given, top, i)
<1>1. ":worker_config" \in Classes /\ TypeOf(":worker_config") = "worker_config"
      /\ Len(Index) \in Nat
  BY Types, ConfigObjectAssumption, LenProperties DEF Classes
<1>2. Scopes(top) /\ IsNode("worker_config", o)
  BY <1>1, TopScopeNodes DEF Scopes
<1>3. b = IF o = Undefined THEN value ELSE w
  BY DEF WorkersByClass
<1> HIDE DEF o, top, b, w
<1>4. given \in 0..Len(Index) /\ Cardinality(Keys(o)) = given
  BY <1>2, ClassKeysCounted
<1> HIDE DEF given
<1>5. \A i \in 1..Len(Index) : /\ IsNode("worker_config", At(o, Index[i]))
                               /\ DOMAIN At(o, Index[i]) = {}
  BY <1>2, NoElements
<1>6. ASSUME NEW i \in 1..Len(Index)
      PROVE  /\ Shaped(ElementBefore(value, n, i), WorkerLeaves)
             /\ \A l \in WorkerLeaves : ElementBefore(value, n, i)[l] \in Code
  <2>1. Shaped(ElementBefore(value, n, i), WorkerLeaves)
    BY <1>2, <1>5, ElementShaped
  <2>2. CASE i <= n
    <3>1. i \in 1..n
      BY <1>1, <2>2
    <3>2. \A l \in WorkerLeaves : <<Index[i]>> \o l \in ListLeaves(n)
      BY <3>1 DEF ListLeaves, Under
    <3> QED
      BY <2>1, <2>2, <3>1, <3>2, ListElement DEF ElementBefore
  <2>3. CASE ~(i <= n)
    BY <2>1, <2>3 DEF ElementBefore, Constructed, Code
  <2> QED
    BY <2>2, <2>3
<1>7. ASSUME NEW x, \A l \in WorkerLeaves : x[l] \in Code
      PROVE  ElementBase(x, d)
  <2>1. <<"cl-device-name">> \in WorkerLeaves
        /\ \A r \in Threads : <<r, "affinity">> \in WorkerLeaves
    BY DEF WorkerLeaves, Threads
  <2> QED
    BY <1>7, <2>1 DEF ElementBase
<1>8. CASE o = Undefined
  <2>1. b = value
    BY <1>3, <1>8
  <2>2. ASSUME NEW i \in 1..n
        PROVE  ElementBase(At(b, Index[i]), d)
    <3>1. i \in 1..Len(Index) /\ i <= n
      BY <1>1
    <3>2. At(b, Index[i]) = ElementBefore(value, n, i)
      BY <2>1, <3>1 DEF ElementBefore
    <3> QED
      BY <1>6, <1>7, <3>1, <3>2
  <2>3. n \in n..Len(Index)
    BY <1>1
  <2> QED
    BY <2>1, <2>2, <2>3 DEF b
<1>9. CASE o # Undefined
  <2> DEFINE m == Larger(given, n)
  <2>1. b = w
    BY <1>3, <1>9
  <2>2. Shaped(w, ListLeaves(m)) /\ ListGets(w, value, n, o, given, top)
    BY <1>2, <1>4, <1>5, ListOverridden DEF w
  <2>3. m \in n..Len(Index) /\ m \in 0..Len(Index)
    BY <1>1, <1>4 DEF Larger
  <2>4. ASSUME NEW i \in 1..m
        PROVE  ElementBase(At(b, Index[i]), d)
    <3>1. i \in 1..Len(Index)
      BY <1>1, <2>3
    <3>2. \A l \in WorkerLeaves : At(w, Index[i])[l] = After(i)[l]
      <4>1. \A l \in WorkerLeaves : w[<<Index[i]>> \o l] = After(i)[l]
        BY <2>2 DEF ListGets
      <4> HIDE DEF m
      <4> QED
        BY <2>2, <2>3, <4>1, ListElement
    <3>3. ElementBase(After(i), d)
      <4>1. CASE i <= given
        <5>1. After(i) = override_worker_config(ElementBefore(value, n, i),
                                                At(o, Index[i]), top)
          BY <4>1 DEF ElementAfter
        <5> QED
          BY <1>5, <1>6, <3>1, <5>1, BaseOverridden DEF top
      <4>2. CASE ~(i <= given)
        <5>1. After(i) = ElementBefore(value, n, i)
          BY <4>2 DEF ElementAfter
        <5> QED
          BY <1>6, <1>7, <3>1, <5>1
      <4> QED
        BY <4>1, <4>2
    <3>4. <<"cl-device-name">> \in WorkerLeaves
          /\ \A r \in Threads : <<r, "affinity">> \in WorkerLeaves
      BY DEF WorkerLeaves, Threads
    <3> HIDE DEF After
    <3> QED
      BY <2>1, <3>2, <3>3, <3>4 DEF ElementBase
  <2> HIDE DEF m
  <2> QED
    BY <2>1, <2>2, <2>3, <2>4 DEF b
<1> QED
  BY <1>8, <1>9

LEMMA WorkersEntry ==
  ASSUME NEW p \in Seq(Key), WellFormed("program_config", p)
  PROVE  /\ Len(p) \in Nat \ {0} /\ p # << >>
         /\ p[1] = "workers" => Len(p) >= 2 /\ p[2] \in Range(Index)
<1>1. Len(p) \in Nat
  BY LenProperties
<1>2. /\ \A i \in 1..Len(p) :
            p[i] \in KeysOf(TypeAt("program_config", p, i - 1))
      /\ TypeAt("program_config", p, Len(p)) = "scalar"
  BY DEF WellFormed
<1>3. Len(p) # 0
  BY <1>2 DEF TypeAt
<1>4. ASSUME p[1] = "workers"
      PROVE  Len(p) >= 2 /\ p[2] \in Range(Index)
  <2>1. TypeAt("program_config", p, 1) = "list"
    BY <1>4, Types DEF TypeAt
  <2>2. Len(p) # 1
    BY <1>2, <2>1
  <2>3. 2 \in 1..Len(p) /\ 2 - 1 = 1
    <3> DEFINE n == Len(p)
    <3>1. n \in Nat /\ n # 0 /\ n # 1
      BY <1>1, <1>3, <2>2
    <3> HIDE DEF n
    <3>2. 2 \in 1..n /\ 2 - 1 = 1
      BY <3>1
    <3> QED
      BY <3>2 DEF n
  <2>4. p[2] \in KeysOf("list")
    BY <1>2, <2>1, <2>3
  <2> QED
    BY <2>3, <2>4 DEF KeysOf
<1> QED
  BY <1>1, <1>3, <1>4, EmptySeq

LEMMA ElementKeys ==
  ASSUME NEW d \in Documents
  PROVE  /\ Keys(At(DocOf(d), "workers")) = Elements(d)
         /\ \E n \in 0..Len(Index) :
               Elements(d) = FirstKeys(n) /\ Cardinality(Elements(d)) = n
<1> DEFINE list == At(DocOf(d), "workers")
<1>1. "workers" \in Key
  BY Literals DEF Attributes
<1>2. KeyPaths(DocOf(d)) /\ DOMAIN DocOf(d) = d /\ d \subseteq Entries
  BY DocumentNode DEF DocOf
<1>3. KeyPaths(list)
        /\ \A q \in Seq(Key) : q \in DOMAIN list <=> <<"workers">> \o q \in d
  BY <1>1, <1>2, AtKey
<1> HIDE DEF list
<1>4. Keys(list) = {k \in Key : \E q \in Seq(Key) : <<k>> \o q \in DOMAIN list}
  BY <1>3, KeysOfNode
<1>5. ASSUME NEW k \in Keys(list)
      PROVE  k \in Elements(d)
  <2>1. PICK q \in Seq(Key) : k \in Key /\ <<k>> \o q \in DOMAIN list
    BY <1>4
  <2> DEFINE s == <<k>> \o q
             p == <<"workers">> \o s
  <2>2. s \in Seq(Key) /\ s[1] = k /\ 1 \in 1..Len(s)
    BY <2>1, Prefixed, LenProperties
  <2>3. s \in DOMAIN list
    BY <2>1
  <2> HIDE DEF s
  <2>4. p \in d
    BY <1>3, <2>2, <2>3
  <2>5. p[1] = "workers" /\ p[1 + 1] = s[1]
    BY <1>1, <2>2, Prefixed
  <2> HIDE DEF p
  <2> QED
    BY <2>2, <2>4, <2>5 DEF Elements
<1>6. ASSUME NEW p \in d, p[1] = "workers"
      PROVE  p[2] \in Keys(list)
  <2>1. p \in Seq(Key) /\ WellFormed("program_config", p)
    BY <1>2, ConfigObjectAssumption
  <2>2. Len(p) >= 2 /\ p # << >> /\ Len(p) \in Nat
    BY <1>6, <2>1, WorkersEntry
  <2> DEFINE t == Tail(p)
  <2>3. t \in Seq(Key) /\ Len(t) = Len(p) - 1 /\ t[1] = p[1 + 1]
    BY <2>1, <2>2, HeadTailProperties
  <2>4. p = <<"workers">> \o t
    BY <1>6, <2>1, <2>2, Unprefixed
  <2> HIDE DEF t
  <2>5. t # << >>
    BY <2>2, <2>3, EmptySeq
  <2>6. t \in DOMAIN list
    BY <1>3, <2>3, <2>4
  <2>7. Head(t) = t[1] /\ Head(t) \in Key /\ Tail(t) \in Seq(Key)
        /\ t = <<Head(t)>> \o Tail(t)
    BY <2>3, <2>5, Unprefixed
  <2>8. Head(t) \in Keys(list)
    BY <1>4, <2>6, <2>7
  <2> QED
    BY <2>3, <2>7, <2>8
<1>7. Keys(list) = Elements(d)
  BY <1>5, <1>6 DEF Elements
<1>8. PICK n \in 0..Len(Index) : Elements(d) = FirstKeys(n)
  BY DEF Documents, FirstKeys
<1> QED
  BY <1>7, <1>8, FirstKeysCounted DEF list

\* A list has no class overrides: its scope is the one around it.
LEMMA ListScope ==
  ASSUME NEW d \in Documents
  PROVE  LET scope == ScopeOf(TopScope(d), DocOf(d), "workers")
         IN  /\ Scopes(scope)
             /\ Says(scope[":cpu_set"], << >>, d, <<":cpu_set">>)
             /\ Says(scope[":thread_config"], <<"affinity">>,
                     d, <<":thread_config", "affinity">>)
<1> DEFINE scope == ScopeOf(TopScope(d), DocOf(d), "workers")
           e == << >>
           l == <<"affinity">>
           p == <<"workers", ":cpu_set">>
           p1 == <<":cpu_set">>
           q == <<"workers", ":thread_config", "affinity">>
           q1 == <<":thread_config", "affinity">>
<1>1. "workers" \in Key /\ ":cpu_set" \in Classes
         /\ ":thread_config" \in Classes
  BY Literals DEF Attributes, Classes
<1>2. /\ Scopes(scope)
      /\ SaysTwice(scope[":cpu_set"], e, d, p, p1)
      /\ SaysTwice(scope[":thread_config"], l, d, q, q1)
  BY <1>1, ScopeSays
<1>3. p[1] = "workers" /\ p[2] = ":cpu_set"
      /\ q[1] = "workers" /\ q[2] = ":thread_config"
  OBVIOUS
<1> HIDE DEF scope, e, l, p, p1, q, q1
<1>4. ASSUME NEW x \in d, x[1] = "workers", x[2] \in Classes
      PROVE  FALSE
  <2>1. x \in Seq(Key) /\ WellFormed("program_config", x)
    BY DocumentNode, ConfigObjectAssumption
  <2>2. x[2] \in Range(Index)
    BY <1>4, <2>1, WorkersEntry
  <2> QED
    BY <1>4, <2>2, ConfigObjectAssumption
<1>5. p \notin d /\ q \notin d
  BY <1>1, <1>3, <1>4
<1>6. Says(scope[":cpu_set"], e, d, p1) /\ Says(scope[":thread_config"], l, d,
         q1)
  BY <1>2, <1>5 DEF Says, SaysTwice, Of
<1> QED
  BY <1>2, <1>6 DEF scope, e, l, p1, q1

LEMMA ElementOverridden ==
  ASSUME NEW d \in Documents, NEW i \in 1..Len(Index),
         NEW value, Shaped(value, WorkerLeaves), ElementBase(value, d)
  PROVE  ElementGets(override_worker_config(value,
                        At(At(DocOf(d), "workers"), Index[i]),
                        ScopeOf(TopScope(d), DocOf(d), "workers")), i, d)
<1> DEFINE node == At(At(DocOf(d), "workers"), Index[i])
           scope == ScopeOf(TopScope(d), DocOf(d), "workers")
           w == override_worker_config(value, node, scope)
<1>1. /\ IsNode("worker_config", node)
      /\ Says(node, <<"cl-device-name">>,
              d, <<"workers", Index[i], "cl-device-name">>)
      /\ \A r \in Threads :
            /\ Says(node, <<r, "affinity">>, d, <<"workers", Index[i], r,
                  "affinity">>)
            /\ Says(node, <<r, ":cpu_set">>, d, <<"workers", Index[i], r,
                  ":cpu_set">>)
  BY WorkerSays
<1>2. /\ Scopes(scope)
      /\ Says(scope[":cpu_set"], << >>, d, <<":cpu_set">>)
      /\ Says(scope[":thread_config"], <<"affinity">>,
              d, <<":thread_config", "affinity">>)
  BY ListScope
<1> HIDE DEF node, scope
<1>3. WorkerGets(w, value, node, scope)
  BY <1>1, <1>2, WorkerOverridden
<1> HIDE DEF w
<1>4. \E c \in Code : w[<<"cl-device-name">>] =
             Of(d, <<"workers", Index[i], "cl-device-name">>, c)
  BY <1>1, <1>3 DEF WorkerGets, Says, ElementBase
<1>5. ASSUME NEW r \in Threads
      PROVE  \E c \in Code : w[<<r, "affinity">>] =
                Of(d, <<"workers", Index[i], r, "affinity">>,
                Of(d, <<"workers", Index[i], r, ":cpu_set">>,
                Of(d, <<":cpu_set">>,
                Of(d, <<":thread_config", "affinity">>, c))))
  <2> DEFINE vv == value[<<r, "affinity">>]
             q0 == <<r, "affinity">>
             q1 == <<r, ":cpu_set">>
             q2 == << >>
             q3 == <<"affinity">>
             p0 == <<"workers", Index[i], r, "affinity">>
             p1 == <<"workers", Index[i], r, ":cpu_set">>
             p2 == <<":cpu_set">>
             p3 == <<":thread_config", "affinity">>
  <2>1. w[q0] = Pick(node, q0, Pick(node, q1, Pick(scope[":cpu_set"], q2,
                   Pick(scope[":thread_config"], q3, vv))))
    BY <1>3 DEF WorkerGets
  <2>2. Says(node, q0, d, p0) /\ Says(node, q1, d, p1)
        /\ Says(scope[":cpu_set"], q2, d, p2)
        /\ Says(scope[":thread_config"], q3, d, p3)
    BY <1>1, <1>2
  <2>3. \E c \in Code : vv = c \/ vv = Of(d, p2, Of(d, p3, c))
    BY DEF ElementBase
  <2> HIDE DEF vv, q0, q1, q2, q3, p0, p1, p2, p3
  <2>4. w[q0] = Of(d, p0, Of(d, p1, Of(d, p2, Of(d, p3, vv))))
    BY <2>1, <2>2, SaysInTurn
  <2>5. \E c \in Code : Of(d, p2, Of(d, p3, vv)) = Of(d, p2, Of(d, p3, c))
    BY <2>3 DEF Of
  <2>6. \E c \in Code : w[q0] = Of(d, p0, Of(d, p1, Of(d, p2, Of(d, p3, c))))
    BY <2>4, <2>5
  <2> QED
    BY <2>6 DEF q0, p0, p1, p2, p3
<1> QED
  BY <1>4, <1>5 DEF ElementGets, w, node, scope

\* An element that is not in the document.
LEMMA ElementKept ==
  ASSUME NEW d \in Documents, NEW i \in 1..Len(Index),
         Index[i] \notin Elements(d), NEW value, ElementBase(value, d)
  PROVE  ElementGets(value, i, d)
<1> DEFINE k == Index[i]
<1>1. ASSUME NEW p \in d, p[1] = "workers", p[2] = k
      PROVE  FALSE
  BY <1>1 DEF Elements
<1>2. <<"workers", k, "cl-device-name">> \notin d
  <2> DEFINE p == <<"workers", k, "cl-device-name">>
  <2>1. p[1] = "workers" /\ p[2] = k
    OBVIOUS
  <2> HIDE DEF p, k
  <2>2. p \notin d
    BY <1>1, <2>1
  <2> QED
    BY <2>2 DEF p
<1>3. ASSUME NEW a, NEW b
      PROVE  <<"workers", k, a, b>> \notin d
  <2> DEFINE p == <<"workers", k, a, b>>
  <2>1. p[1] = "workers" /\ p[2] = k
    OBVIOUS
  <2> HIDE DEF p, k
  <2>2. p \notin d
    BY <1>1, <2>1
  <2> QED
    BY <2>2 DEF p
<1>4. \E c \in Code : value[<<"cl-device-name">>] =
             Of(d, <<"workers", k, "cl-device-name">>, c)
  BY <1>2 DEF ElementBase, Of
<1>5. ASSUME NEW r \in Threads
      PROVE  \E c \in Code :
          \/ value[<<r, "affinity">>] =
                Of(d, <<"workers", k, r, "affinity">>,
                Of(d, <<"workers", k, r, ":cpu_set">>,
                Of(d, <<":cpu_set">>,
                Of(d, <<":thread_config", "affinity">>, c))))
          \/ value[<<r, "affinity">>] = c /\ k \notin Elements(d)
  <2> DEFINE vv == value[<<r, "affinity">>]
             p0 == <<"workers", k, r, "affinity">>
             p1 == <<"workers", k, r, ":cpu_set">>
             p2 == <<":cpu_set">>
             p3 == <<":thread_config", "affinity">>
  <2>1. p0 \notin d /\ p1 \notin d
    BY <1>3
  <2>2. PICK c \in Code : vv = c \/ vv = Of(d, p2, Of(d, p3, c))
    BY DEF ElementBase
  <2>3. k \notin Elements(d)
    OBVIOUS
  <2> HIDE DEF vv, p0, p1, p2, p3, k
  <2>4. \/ vv = Of(d, p0, Of(d, p1, Of(d, p2, Of(d, p3, c))))
        \/ vv = c /\ k \notin Elements(d)
    BY <2>1, <2>2, <2>3 DEF Of
  <2> QED
    BY <2>2, <2>4 DEF vv, p0, p1, p2, p3
<1> QED
  BY <1>4, <1>5 DEF ElementGets

LEMMA WorkersOverridden ==
  ASSUME NEW d \in Documents, NEW n \in 0..Len(Index),
         NEW value, Shaped(value, ListLeaves(n)),
         \A l \in ListLeaves(n) : value[l] \in Code
  PROVE  LET c == override_list(WorkersByClass(value, d),
                     At(DocOf(d), "workers"),
                     ScopeOf(TopScope(d), DocOf(d), "workers"))
         IN  \E m \in n..Len(Index) :
                /\ Shaped(c, ListLeaves(m))
                /\ Elements(d) \subseteq FirstKeys(m)
                /\ \A i \in 1..m : ElementGets(At(c, Index[i]), i, d)
<1> DEFINE b == WorkersByClass(value, d)
           list == At(DocOf(d), "workers")
           scope == ScopeOf(TopScope(d), DocOf(d), "workers")
           c == override_list(b, list, scope)
<1>1. Len(Index) \in Nat
  BY ConfigObjectAssumption, LenProperties
<1>2. PICK m \in n..Len(Index) :
         Shaped(b, ListLeaves(m)) /\ \A i \in 1..m : ElementBase(At(b,
            Index[i]), d)
  BY WorkersByClassGet
<1>3. PICK given \in 0..Len(Index) :
         Elements(d) = FirstKeys(given) /\ Cardinality(Keys(list)) = given
  BY ElementKeys
<1>4. Scopes(scope)
  BY ListScope
<1>5. \A i \in 1..Len(Index) : IsNode("worker_config", At(list, Index[i]))
  BY WorkerSays
<1> DEFINE size == Larger(given, m)
           After(i) == ElementAfter(b, m, list, given, scope, i)
<1>6. m \in 0..Len(Index)
  BY <1>1
<1> HIDE DEF b, list, scope
<1>7. Shaped(c, ListLeaves(size)) /\ ListGets(c, b, m, list, given, scope)
  BY <1>2, <1>3, <1>4, <1>5, <1>6, ListOverridden
<1> HIDE DEF c
<1>8. size \in n..Len(Index) /\ size \in 0..Len(Index)
      /\ given <= size /\ m <= size
  BY <1>1, <1>3 DEF Larger
<1>9. Elements(d) \subseteq FirstKeys(size)
  BY <1>1, <1>3, <1>8 DEF FirstKeys
<1>10. ASSUME NEW i \in 1..size
       PROVE  ElementGets(At(c, Index[i]), i, d)
  <2>1. i \in 1..Len(Index)
    BY <1>1, <1>8
  <2>2. \A l \in WorkerLeaves : At(c, Index[i])[l] = After(i)[l]
    <3>1. \A l \in WorkerLeaves : c[<<Index[i]>> \o l] = After(i)[l]
      BY <1>7 DEF ListGets
    <3> HIDE DEF size, After
    <3> QED
      BY <1>7, <1>8, <3>1, ListElement
  <2>3. Shaped(ElementBefore(b, m, i), WorkerLeaves)
    BY <1>2, <1>4, <1>5, <1>6, <2>1, ElementShaped
  <2>4. ElementBase(ElementBefore(b, m, i), d)
    <3>1. CASE i <= m
      <4>1. i \in 1..m
        BY <3>1, <1>1
      <4> QED
        BY <1>2, <3>1, <4>1 DEF ElementBefore
    <3>2. CASE ~(i <= m)
      <4>1. ElementBefore(b, m, i) = Constructed(WorkerLeaves)
        BY <3>2 DEF ElementBefore
      <4>2. /\ Constructed(WorkerLeaves)[<<"cl-device-name">>] \in Code
            /\ \A r \in Threads :
                  Constructed(WorkerLeaves)[<<r, "affinity">>] \in Code
        BY DEF Constructed, WorkerLeaves, Code, Threads
      <4> QED
        BY <4>1, <4>2 DEF ElementBase
    <3> QED
      BY <3>1, <3>2
  <2>5. ElementGets(After(i), i, d)
    <3>1. CASE i <= given
      <4>1. After(i) = override_worker_config(ElementBefore(b, m, i),
                                              At(list, Index[i]), scope)
        BY <3>1 DEF ElementAfter
      <4> HIDE DEF After
      <4> QED
        BY <2>1, <2>3, <2>4, <4>1, ElementOverridden DEF list, scope
    <3>2. CASE ~(i <= given)
      <4>1. After(i) = ElementBefore(b, m, i)
        BY <3>2 DEF ElementAfter
      <4>2. Index[i] \notin Elements(d)
        <5>1. ASSUME NEW j \in 1..given, Index[i] = Index[j]
              PROVE  FALSE
          <6>1. j \in 1..Len(Index)
            BY <1>1, <1>3
          <6>2. i = j
            BY <2>1, <5>1, <6>1, KeysApart
          <6> QED
            BY <3>2, <6>2
        <5> QED
          BY <1>3, <5>1 DEF FirstKeys
      <4> HIDE DEF After
      <4> QED
        BY <2>1, <2>4, <4>1, <4>2, ElementKept
    <3> QED
      BY <3>1, <3>2
  <2>6. <<"cl-device-name">> \in WorkerLeaves
        /\ \A r \in Threads : <<r, "affinity">> \in WorkerLeaves
    BY DEF WorkerLeaves, Threads
  <2> HIDE DEF After
  <2> QED
    BY <2>2, <2>5, <2>6 DEF ElementGets
<1> HIDE DEF size
<1> QED
  BY <1>7, <1>8, <1>9, <1>10 DEF c, b, list, scope
-----------------------------------------------------------------------------
(* The whole configuration.                                                *)

LEMMA LeafTuples ==
  /\ <<"primary">> \o <<"cl-device-name">> = <<"primary", "cl-device-name">>
  /\ \A r \in Threads :
        <<"primary">> \o <<r, "affinity">> = <<"primary", r, "affinity">>
  /\ \A i \in 1..Len(Index) :
        /\ <<"workers">> \o (<<Index[i]>> \o <<"cl-device-name">>) =
              <<"workers", Index[i], "cl-device-name">>
        /\ \A r \in Threads :
              <<"workers">> \o (<<Index[i]>> \o <<r, "affinity">>) =
                 <<"workers", Index[i], r, "affinity">>
<1>1. /\ "primary" \in Key /\ "workers" \in Key /\ "cl-device-name" \in Key
      /\ "affinity" \in Key /\ \A r \in Threads : r \in Key
      /\ \A i \in 1..Len(Index) : Index[i] \in Key
  BY Literals DEF Attributes
<1> DEFINE Cat(k, q) == <<k>> \o q
           One(a) == <<a>>
           Two(a, b) == <<a, b>>
           Three(a, b, c) == <<a, b, c>>
           Four(a, b, c, e) == <<a, b, c, e>>
<1>2. ASSUME NEW k \in Key, NEW a \in Key, NEW b \in Key, NEW c \in Key
      PROVE  /\ Cat(k, One(a)) = Two(k, a)
             /\ Cat(k, Two(a, b)) = Three(k, a, b)
             /\ Cat(k, Three(a, b, c)) = Four(k, a, b, c)
  BY Tuples
<1> HIDE DEF Cat, One, Two, Three, Four
<1>3. Cat("primary", One("cl-device-name")) = Two("primary", "cl-device-name")
  BY <1>1, <1>2
<1>4. ASSUME NEW r \in Threads
      PROVE  Cat("primary", Two(r, "affinity")) = Three("primary", r,
                "affinity")
  BY <1>1, <1>2
<1>5. ASSUME NEW i \in 1..Len(Index)
      PROVE  Cat("workers", Cat(Index[i], One("cl-device-name"))) =
                Three("workers", Index[i], "cl-device-name")
  BY <1>1, <1>2
<1>6. ASSUME NEW i \in 1..Len(Index), NEW r \in Threads
      PROVE  Cat("workers", Cat(Index[i], Two(r, "affinity"))) =
                Four("workers", Index[i], r, "affinity")
  BY <1>1, <1>2
<1> QED
  BY <1>3, <1>4, <1>5, <1>6 DEF Cat, One, Two, Three, Four

LEMMA WorkerLeavesAre ==
  WorkerLeaves = {<<"cl-device-name">>} \cup {<<r, "affinity">> : r \in Threads}
BY DEF WorkerLeaves, Threads

LEMMA LeavesUnder ==
  ASSUME NEW n \in 0..Len(Index)
  PROVE  Leaves(n) = Under("primary", WorkerLeaves)
                        \cup Under("workers", ListLeaves(n))
<1>1. \A i \in 1..n : i \in 1..Len(Index)
  BY ConfigObjectAssumption, LenProperties
<1>2. Under("primary", WorkerLeaves) =
         {<<"primary", "cl-device-name">>} \cup
         {<<"primary", r, "affinity">> : r \in Threads}
  <2>1. Under("primary", WorkerLeaves) =
           {<<"primary">> \o <<"cl-device-name">>} \cup
           {<<"primary">> \o <<r, "affinity">> : r \in Threads}
    BY WorkerLeavesAre DEF Under
  <2> QED
    BY <2>1, LeafTuples
<1>3. ASSUME NEW i \in 1..n, NEW l \in WorkerLeaves
      PROVE  <<"workers">> \o (<<Index[i]>> \o l) \in WorkersLeaves(i)
  <2>1. CASE l = <<"cl-device-name">>
    BY <1>1, <2>1, LeafTuples DEF WorkersLeaves
  <2>2. ASSUME NEW r \in Threads, l = <<r, "affinity">>
        PROVE  <<"workers">> \o (<<Index[i]>> \o l) \in WorkersLeaves(i)
    BY <1>1, <2>2, LeafTuples DEF WorkersLeaves
  <2> QED
    BY <2>1, <2>2, WorkerLeavesAre
<1>4. ASSUME NEW i \in 1..n, NEW p \in WorkersLeaves(i)
      PROVE  \E l \in WorkerLeaves : p = <<"workers">> \o (<<Index[i]>> \o l)
  <2>1. CASE p = <<"workers", Index[i], "cl-device-name">>
    BY <1>1, <2>1, LeafTuples, WorkerLeavesAre
  <2>2. ASSUME NEW r \in Threads, p = <<"workers", Index[i], r, "affinity">>
        PROVE  \E l \in WorkerLeaves : p = <<"workers">> \o (<<Index[i]>> \o l)
    <3>1. p = <<"workers">> \o (<<Index[i]>> \o <<r, "affinity">>)
      BY <1>1, <2>2, LeafTuples
    <3>2. <<r, "affinity">> \in WorkerLeaves
      BY WorkerLeavesAre
    <3> QED
      BY <3>1, <3>2
  <2> QED
    BY <2>1, <2>2 DEF WorkersLeaves
<1>5. Under("workers", ListLeaves(n)) = UNION {WorkersLeaves(i) : i \in 1..n}
  <2>1. ASSUME NEW p \in Under("workers", ListLeaves(n))
        PROVE  p \in UNION {WorkersLeaves(i) : i \in 1..n}
    <3>1. PICK q \in ListLeaves(n) : p = <<"workers">> \o q
      BY <2>1 DEF Under
    <3>2. PICK i \in 1..n : q \in Under(Index[i], WorkerLeaves)
      BY DEF ListLeaves
    <3>3. PICK l \in WorkerLeaves : q = <<Index[i]>> \o l
      BY <3>2 DEF Under
    <3>4. p \in WorkersLeaves(i)
      BY <1>3, <3>1, <3>3
    <3> QED
      BY <3>4
  <2>2. ASSUME NEW i \in 1..n, NEW p \in WorkersLeaves(i)
        PROVE  p \in Under("workers", ListLeaves(n))
    <3>1. PICK l \in WorkerLeaves : p = <<"workers">> \o (<<Index[i]>> \o l)
      BY <1>4
    <3> DEFINE q == <<Index[i]>> \o l
    <3>2. q \in Under(Index[i], WorkerLeaves)
      BY DEF Under
    <3>3. p = <<"workers">> \o q
      BY <3>1
    <3> HIDE DEF q
    <3>4. q \in ListLeaves(n)
      BY <3>2 DEF ListLeaves
    <3> QED
      BY <3>3, <3>4 DEF Under
  <2> QED
    BY <2>1, <2>2
<1> QED
  BY <1>2, <1>5 DEF Leaves

\* What the worker that is not in a list, and an element of the list, have.
PrimaryWins(config_, d) ==
    /\ \E c \in Code :
          config_[<<"primary", "cl-device-name">>] =
             Of(d, <<"primary", "cl-device-name">>,
             Of(d, <<":worker_config", "cl-device-name">>, c))
    /\ \A r \in Threads : \E c \in Code :
          config_[<<"primary", r, "affinity">>] =
             Of(d, <<"primary", r, "affinity">>,
             Of(d, <<"primary", r, ":cpu_set">>,
             Of(d, <<"primary", ":cpu_set">>,
             Of(d, <<":cpu_set">>,
             Of(d, <<"primary", ":thread_config", "affinity">>,
             Of(d, <<":thread_config", "affinity">>,
             Of(d, <<":worker_config", r, "affinity">>,
             Of(d, <<":worker_config", r, ":cpu_set">>, c))))))))
ElementWins(config_, i, d) ==
    /\ \E c \in Code :
          config_[<<"workers", Index[i], "cl-device-name">>] =
             Of(d, <<"workers", Index[i], "cl-device-name">>, c)
    /\ \A r \in Threads : \E c \in Code :
          \/ config_[<<"workers", Index[i], r, "affinity">>] =
                Of(d, <<"workers", Index[i], r, "affinity">>,
                Of(d, <<"workers", Index[i], r, ":cpu_set">>,
                Of(d, <<":cpu_set">>,
                Of(d, <<":thread_config", "affinity">>, c))))
          \/ config_[<<"workers", Index[i], r, "affinity">>] = c
             /\ Index[i] \notin Elements(d)
ProgramGets(config_, n, d) ==
    /\ Shaped(config_, Leaves(n))
    /\ Elements(d) \subseteq FirstKeys(n)
    /\ PrimaryWins(config_, d)
    /\ \A i \in 1..n : ElementWins(config_, i, d)

\* A configuration that is made of a worker and a list.
Assembled(config_, primary, list, n) ==
    /\ Shaped(config_, Leaves(n))
    /\ \A l \in WorkerLeaves : config_[<<"primary">> \o l] = primary[l]
    /\ \A l \in ListLeaves(n) : config_[<<"workers">> \o l] = list[l]

LEMMA ProgramAssembled ==
  ASSUME NEW n \in 0..Len(Index),
         NEW primary, Shaped(primary, WorkerLeaves),
         NEW list, Shaped(list, ListLeaves(n))
  PROVE  Assembled(Joined({Nested("workers", list), Nested("primary",
            primary)}),
                   primary, list, n)
<1> DEFINE x == Nested("workers", list)
           y == Nested("primary", primary)
           nodes == {x, y}
           r == Joined(nodes)
<1>1. "workers" \in Key /\ "primary" \in Key
  BY Literals DEF Attributes
<1>2. Shaped(x, Under("workers", ListLeaves(n)))
      /\ Shaped(y, Under("primary", WorkerLeaves))
  BY <1>1, NestedShaped
<1>3. /\ \A l \in ListLeaves(n) : x[<<"workers">> \o l] = list[l]
      /\ \A l \in WorkerLeaves : y[<<"primary">> \o l] = primary[l]
  BY <1>1, NestedNode DEF Shaped
<1>4. ListLeaves(n) \subseteq Seq(Key) /\ WorkerLeaves \subseteq Seq(Key)
  BY WorkerLeavesTyped DEF Shaped, KeyPaths
<1>5. /\ \A p \in Under("workers", ListLeaves(n)) : Head(p) = "workers"
      /\ \A p \in Under("primary", WorkerLeaves) : Head(p) = "primary"
  BY <1>1, <1>4, Prefixed DEF Under
<1> HIDE DEF x, y
<1>6. \A m \in nodes : KeyPaths(m)
  BY <1>2 DEF Shaped
<1>7. \A a, b \in nodes : \A p \in DOMAIN a : p \in DOMAIN b => a = b
  BY <1>2, <1>5 DEF Shaped
<1>8. UNION {DOMAIN m : m \in nodes} =
         Under("primary", WorkerLeaves) \cup Under("workers", ListLeaves(n))
  BY <1>2 DEF Shaped
<1>9. x \in nodes /\ y \in nodes
  OBVIOUS
<1> HIDE DEF nodes
<1>10. KeyPaths(r) /\ DOMAIN r = Leaves(n)
       /\ \A m \in nodes : \A p \in DOMAIN m : r[p] = m[p]
  BY <1>6, <1>7, <1>8, LeavesUnder, JoinedNodes
<1> HIDE DEF r
<1>11. ASSUME NEW l \in WorkerLeaves
       PROVE  r[<<"primary">> \o l] = primary[l]
  <2>1. <<"primary">> \o l \in DOMAIN y
    BY <1>2 DEF Shaped, Under
  <2> QED
    BY <1>3, <1>9, <1>10, <2>1
<1>12. ASSUME NEW l \in ListLeaves(n)
       PROVE  r[<<"workers">> \o l] = list[l]
  <2>1. <<"workers">> \o l \in DOMAIN x
    BY <1>2 DEF Shaped, Under
  <2> QED
    BY <1>3, <1>9, <1>10, <2>1
<1>13. Assembled(r, primary, list, n)
  BY <1>10, <1>11, <1>12 DEF Assembled, Shaped
<1> QED
  BY <1>13 DEF r, nodes, x, y

\* The parts of a configuration.
LEMMA ProgramParts ==
  ASSUME NEW n \in 0..Len(Index), NEW value, Shaped(value, Leaves(n))
  PROVE  /\ Shaped(At(value, "primary"), WorkerLeaves)
         /\ Shaped(At(value, "workers"), ListLeaves(n))
         /\ \A l \in WorkerLeaves :
               /\ <<"primary">> \o l \in Leaves(n)
               /\ At(value, "primary")[l] = value[<<"primary">> \o l]
         /\ \A l \in ListLeaves(n) :
               /\ <<"workers">> \o l \in Leaves(n)
               /\ At(value, "workers")[l] = value[<<"workers">> \o l]
<1>1. "workers" \in Key /\ "primary" \in Key
  BY Literals DEF Attributes
<1>2. ListLeaves(n) \subseteq Seq(Key)
  <2>1. ASSUME NEW i \in 1..n, NEW l \in WorkerLeaves
        PROVE  <<Index[i]>> \o l \in Seq(Key)
    <3>1. i \in 1..Len(Index)
      BY ConfigObjectAssumption, LenProperties
    <3>2. Index[i] \in Key
      BY <3>1, Literals
    <3> QED
      BY <3>2, WorkerLeavesTyped, Prefixed
  <2> SUFFICES ASSUME NEW p \in ListLeaves(n)
               PROVE  p \in Seq(Key)
    OBVIOUS
  <2>2. PICK i \in 1..n : p \in Under(Index[i], WorkerLeaves)
    BY DEF ListLeaves
  <2>3. PICK l \in WorkerLeaves : p = <<Index[i]>> \o l
    BY <2>2 DEF Under
  <2> QED
    BY <2>1, <2>3
<1>3. /\ \A p \in Under("workers", ListLeaves(n)) : Head(p) = "workers"
      /\ \A p \in Under("primary", WorkerLeaves) : Head(p) = "primary"
  BY <1>1, <1>2, WorkerLeavesTyped, Prefixed DEF Under
<1>4. Leaves(n) = Under("primary", WorkerLeaves)
                     \cup Under("workers", ListLeaves(n))
  BY LeavesUnder
<1>5. /\ \A p \in Leaves(n) :
            p \in Under("primary", WorkerLeaves) \/ Head(p) # "primary"
      /\ \A p \in Leaves(n) :
            p \in Under("workers", ListLeaves(n)) \/ Head(p) # "workers"
  BY <1>3, <1>4
<1>6. Shaped(At(value, "primary"), WorkerLeaves)
  BY <1>1, <1>4, <1>5, WorkerLeavesTyped, AtUnder
<1>7. Shaped(At(value, "workers"), ListLeaves(n))
  BY <1>1, <1>2, <1>4, <1>5, AtUnder
<1>8. ASSUME NEW l \in WorkerLeaves
      PROVE  /\ <<"primary">> \o l \in Leaves(n)
             /\ At(value, "primary")[l] = value[<<"primary">> \o l]
  BY <1>1, <1>4, <1>6, WorkerLeavesTyped, AtKey DEF Shaped, Under
<1>9. ASSUME NEW l \in ListLeaves(n)
      PROVE  /\ <<"workers">> \o l \in Leaves(n)
             /\ At(value, "workers")[l] = value[<<"workers">> \o l]
  BY <1>1, <1>2, <1>4, <1>7, AtKey DEF Shaped, Under
<1> QED
  BY <1>6, <1>7, <1>8, <1>9

LEMMA AssembledGets ==
  ASSUME NEW d, NEW n \in 0..Len(Index), NEW r,
         NEW primary, Shaped(primary, WorkerLeaves),
         NEW value, \A l \in WorkerLeaves : value[l] \in Code,
         PrimaryGets(primary, value, d),
         NEW list, Shaped(list, ListLeaves(n)),
         \A i \in 1..n : ElementGets(At(list, Index[i]), i, d),
         Elements(d) \subseteq FirstKeys(n),
         Assembled(r, primary, list, n)
  PROVE  ProgramGets(r, n, d)
<1>1. <<"cl-device-name">> \in WorkerLeaves
      /\ \A k \in Threads : <<k, "affinity">> \in WorkerLeaves
  BY WorkerLeavesAre
<1>2. PrimaryWins(r, d)
  <2>1. r[<<"primary", "cl-device-name">>] = primary[<<"cl-device-name">>]
    BY <1>1, LeafTuples DEF Assembled
  <2>2. \A k \in Threads :
           r[<<"primary", k, "affinity">>] = primary[<<k, "affinity">>]
    BY <1>1, LeafTuples DEF Assembled
  <2>3. value[<<"cl-device-name">>] \in Code
        /\ \A k \in Threads : value[<<k, "affinity">>] \in Code
    BY <1>1
  <2> QED
    BY <2>1, <2>2, <2>3 DEF PrimaryWins, PrimaryGets
<1>3. ASSUME NEW i \in 1..n
      PROVE  ElementWins(r, i, d)
  <2>1. i \in 1..Len(Index)
    BY ConfigObjectAssumption, LenProperties
  <2> DEFINE e == At(list, Index[i])
  <2>2. \A l \in WorkerLeaves :
           r[<<"workers">> \o (<<Index[i]>> \o l)] = e[l]
    <3>1. \A l \in WorkerLeaves : <<Index[i]>> \o l \in ListLeaves(n)
      BY DEF ListLeaves, Under
    <3>2. \A l \in WorkerLeaves : e[l] = list[<<Index[i]>> \o l]
      BY ListElement
    <3> HIDE DEF e
    <3> QED
      BY <3>1, <3>2 DEF Assembled
  <2>3. ElementGets(e, i, d)
    OBVIOUS
  <2> HIDE DEF e
  <2>4. r[<<"workers", Index[i], "cl-device-name">>] = e[<<"cl-device-name">>]
    BY <1>1, <2>1, <2>2, LeafTuples
  <2>5. \A k \in Threads :
           r[<<"workers", Index[i], k, "affinity">>] = e[<<k, "affinity">>]
    BY <1>1, <2>1, <2>2, LeafTuples
  <2> QED
    BY <2>3, <2>4, <2>5 DEF ElementWins, ElementGets
<1> QED
  BY <1>2, <1>3 DEF ProgramGets, Assembled

LEMMA ProgramOverridden ==
  ASSUME NEW d \in Documents, NEW n \in 0..Len(Index),
         NEW value, Shaped(value, Leaves(n)),
         \A p \in Leaves(n) : value[p] \in Code
  PROVE  \E m \in n..Len(Index) :
            ProgramGets(apply_overrides(value, DocOf(d)), m, d)
<1> DEFINE v == At(value, "primary")
           a == At(value, "workers")
           scope(name) == ScopeOf(TopScope(d), DocOf(d), name)
           primary == override_worker_config(WorkerByClass(v, d),
                         At(DocOf(d), "primary"), scope("primary"))
           list == override_list(WorkersByClass(a, d),
                      At(DocOf(d), "workers"), scope("workers"))
           r == Joined({Nested("workers", list), Nested("primary", primary)})
<1>1. apply_overrides(value, DocOf(d)) = r
  BY DEF apply_overrides, override_program_config, Override, TopScope,
         WorkerByClass, WorkersByClass
<1>2. Shaped(v, WorkerLeaves) /\ Shaped(a, ListLeaves(n))
      /\ (\A l \in WorkerLeaves : v[l] \in Code)
      /\ (\A l \in ListLeaves(n) : a[l] \in Code)
  BY ProgramParts
<1> HIDE DEF v, a
<1>3. Shaped(primary, WorkerLeaves) /\ PrimaryGets(primary, v, d)
  BY <1>2, PrimaryOverridden
<1>4. PICK m \in n..Len(Index) :
         /\ Shaped(list, ListLeaves(m))
         /\ Elements(d) \subseteq FirstKeys(m)
         /\ \A i \in 1..m : ElementGets(At(list, Index[i]), i, d)
  BY <1>2, WorkersOverridden
<1>5. m \in 0..Len(Index)
  BY ConfigObjectAssumption, LenProperties
<1> HIDE DEF primary, list
<1>6. Assembled(r, primary, list, m)
  BY <1>3, <1>4, <1>5, ProgramAssembled
<1> HIDE DEF r
<1>7. ProgramGets(r, m, d)
  BY <1>2, <1>3, <1>4, <1>5, <1>6, AssembledGets
<1> QED
  BY <1>1, <1>4, <1>7

LEMMA ConstructedElement ==
  /\ Shaped(Constructed(WorkerLeaves), WorkerLeaves)
  /\ \A l \in WorkerLeaves : Constructed(WorkerLeaves)[l] \in Code
  /\ \A d : ElementBase(Constructed(WorkerLeaves), d)
<1>1. Shaped(Constructed(WorkerLeaves), WorkerLeaves)
      /\ \A l \in WorkerLeaves : Constructed(WorkerLeaves)[l] \in Code
  BY WorkerLeavesTyped DEF Constructed, Shaped, KeyPaths, Code
<1>2. <<"cl-device-name">> \in WorkerLeaves
      /\ \A k \in Threads : <<k, "affinity">> \in WorkerLeaves
  BY WorkerLeavesAre
<1> QED
  BY <1>1, <1>2 DEF ElementBase

\* The keys of the leaves.
LEMMA LeafKeys ==
  ASSUME NEW n \in 0..Len(Index), NEW p \in Leaves(n)
  PROVE  /\ p \in Seq(Key)
         /\ p # << >> /\ Head(p) = p[1]
         /\ \/ p[1] = "primary"
            \/ p[1] = "workers" /\ \E i \in 1..n : p[2] = Index[i]
<1>1. \A i \in 1..n : Index[i] \in Key
  BY Literals, ConfigObjectAssumption, LenProperties
<1>2. /\ "primary" \in Key /\ "workers" \in Key /\ "cl-device-name" \in Key
      /\ "affinity" \in Key /\ \A r \in Threads : r \in Key
  BY Literals DEF Attributes
<1>3. CASE p = <<"primary", "cl-device-name">>
  BY <1>2, <1>3
<1>4. ASSUME NEW r \in Threads, p = <<"primary", r, "affinity">>
      PROVE  p \in Seq(Key) /\ p # << >> /\ Head(p) = p[1] /\ p[1] = "primary"
  BY <1>2, <1>4
<1>5. ASSUME NEW i \in 1..n, p = <<"workers", Index[i], "cl-device-name">>
      PROVE  p \in Seq(Key) /\ p # << >> /\ Head(p) = p[1]
             /\ p[1] = "workers" /\ p[2] = Index[i]
  BY <1>1, <1>2, <1>5
<1>6. ASSUME NEW i \in 1..n, NEW r \in Threads,
             p = <<"workers", Index[i], r, "affinity">>
      PROVE  p \in Seq(Key) /\ p # << >> /\ Head(p) = p[1]
             /\ p[1] = "workers" /\ p[2] = Index[i]
  BY <1>1, <1>2, <1>6
<1> QED
  BY <1>3, <1>4, <1>5, <1>6 DEF Leaves, WorkersLeaves

LEMMA Winners ==
  ASSUME NEW d, NEW n \in 0..Len(Index), NEW r, ProgramGets(r, n, d)
  PROVE  \A p \in Leaves(n) : Winner(r[p], p, d)
<1> SUFFICES ASSUME NEW p \in Leaves(n)
             PROVE  Winner(r[p], p, d)
  OBVIOUS
<1>1. PrimaryWins(r, d) /\ \A i \in 1..n : ElementWins(r, i, d)
  BY DEF ProgramGets
<1>2. ASSUME NEW i \in 1..Len(Index), p[1] = "workers", p[2] = Index[i]
      PROVE  ElementWins(r, i, d)
  <2>1. PICK j \in 1..n : p[2] = Index[j]
    BY <1>2, LeafKeys
  <2>2. j \in 1..Len(Index)
    BY ConfigObjectAssumption, LenProperties
  <2>3. i = j
    BY <1>2, <2>1, <2>2, KeysApart
  <2> QED
    BY <1>1, <2>3
<1>3. ASSUME p = <<"primary", "cl-device-name">>
      PROVE  \E c \in Code :
                r[p] = Of(d, p, Of(d, <<":worker_config", "cl-device-name">>,
                   c))
  BY <1>1, <1>3 DEF PrimaryWins
<1>4. ASSUME NEW k \in Threads, p = <<"primary", k, "affinity">>
      PROVE  \E c \in Code :
             r[p] = Of(d, p,
                 Of(d, <<"primary", k, ":cpu_set">>,
                 Of(d, <<"primary", ":cpu_set">>,
                 Of(d, <<":cpu_set">>,
                 Of(d, <<"primary", ":thread_config", "affinity">>,
                 Of(d, <<":thread_config", "affinity">>,
                 Of(d, <<":worker_config", k, "affinity">>,
                 Of(d, <<":worker_config", k, ":cpu_set">>, c))))))))
  BY <1>1, <1>4 DEF PrimaryWins
<1>5. ASSUME NEW i \in 1..Len(Index),
             p = <<"workers", Index[i], "cl-device-name">>
      PROVE  \E c \in Code : r[p] = Of(d, p, c)
  <2>1. p[1] = "workers" /\ p[2] = Index[i]
    BY <1>5
  <2>2. ElementWins(r, i, d)
    BY <1>2, <2>1
  <2> QED
    BY <1>5, <2>2 DEF ElementWins
<1>6. ASSUME NEW i \in 1..Len(Index), NEW k \in Threads,
             p = <<"workers", Index[i], k, "affinity">>
      PROVE  \E c \in Code :
             \/ r[p] = Of(d, p,
                    Of(d, <<"workers", Index[i], k, ":cpu_set">>,
                    Of(d, <<":cpu_set">>,
                    Of(d, <<":thread_config", "affinity">>, c))))
             \/ r[p] = c /\ Index[i] \notin Elements(d)
  <2>1. p[1] = "workers" /\ p[2] = Index[i]
    BY <1>6
  <2>2. ElementWins(r, i, d)
    BY <1>2, <2>1
  <2> QED
    BY <1>6, <2>2 DEF ElementWins
<1> QED
  BY <1>3, <1>4, <1>5, <1>6 DEF Winner

LEMMA FirstElementGets ==
  ASSUME NEW d \in Documents, NEW n \in 0..Len(Index), NEW r,
         ProgramGets(r, n, d)
  PROVE  \E m \in 0..Len(Index) : ProgramGets(WithFirstElement(r), m, d)
<1>1. CASE "workers" \in Keys(r)
  BY <1>1 DEF WithFirstElement
<1>2. CASE "workers" \notin Keys(r)
  <2>1. Len(Index) \in Nat /\ Len(Index) >= 6 /\ 1 \in 1..Len(Index)
        /\ 1 \in 0..Len(Index)
    BY ConfigObjectAssumption, LenProperties
  <2>2. Shaped(r, Leaves(n)) /\ PrimaryWins(r, d)
           /\ Elements(d) \subseteq FirstKeys(n)
    BY DEF ProgramGets
  <2>3. n = 0
    <3> SUFFICES ASSUME n # 0
                 PROVE  FALSE
      OBVIOUS
    <3> DEFINE p == <<"workers", Index[1], "cl-device-name">>
    <3>1. 1 \in 1..n
      BY <2>1
    <3>2. p \in Leaves(n)
      BY <3>1 DEF Leaves, WorkersLeaves
    <3>3. p[1] = "workers"
      OBVIOUS
    <3> HIDE DEF p
    <3>4. p # << >> /\ Head(p) = "workers"
      BY <3>2, <3>3, LeafKeys
    <3>5. p \in DOMAIN r
      BY <2>2, <3>2 DEF Shaped
    <3>6. "workers" \in Keys(r)
      BY <3>4, <3>5 DEF Keys
    <3> QED
      BY <1>2, <3>6
  <2> DEFINE k == Index[1]
             element == Constructed(WorkerLeaves)
             one == Nested(k, element)
             x == Nested("workers", one)
             nodes == {r, x}
             w == Joined(nodes)
  <2>4. WithFirstElement(r) = w
    BY <1>2 DEF WithFirstElement
  <2>5. k \in Key /\ "workers" \in Key /\ Shaped(element, WorkerLeaves)
    BY <2>1, Literals, ConstructedElement DEF Attributes
  <2> HIDE DEF element
  <2>6. Shaped(one, Under(k, WorkerLeaves))
    BY <2>5, NestedShaped
  <2>7. Shaped(one, ListLeaves(1))
    <3>1. Under(k, WorkerLeaves) = ListLeaves(1)
      <4>1. 1..1 = {1}
        OBVIOUS
      <4> QED
        BY <4>1 DEF ListLeaves
    <3> QED
      BY <2>6, <3>1
  <2> HIDE DEF k, one
  <2>8. Shaped(x, Under("workers", ListLeaves(1)))
    BY <2>5, <2>7, NestedShaped
  <2>9. \A q \in ListLeaves(1) : x[<<"workers">> \o q] = one[q]
    BY <2>5, <2>7, NestedNode DEF Shaped
  <2>10. \A p \in Under("workers", ListLeaves(1)) : Head(p) = "workers"
    <3>1. ListLeaves(1) \subseteq Seq(Key)
      BY <2>7 DEF Shaped, KeyPaths
    <3> QED
      BY <2>5, <3>1, Prefixed DEF Under
  <2>11. \A p \in Leaves(n) : Head(p) = "primary"
    BY <2>3, LeafKeys
  <2> HIDE DEF x
  <2>12. \A m \in nodes : KeyPaths(m)
    BY <2>2, <2>8 DEF Shaped
  <2>13. \A a, b \in nodes : \A p \in DOMAIN a : p \in DOMAIN b => a = b
    BY <2>2, <2>8, <2>10, <2>11 DEF Shaped
  <2>14. UNION {DOMAIN m : m \in nodes} = Leaves(1)
    <3>1. UNION {DOMAIN m : m \in nodes} =
             Leaves(n) \cup Under("workers", ListLeaves(1))
      BY <2>2, <2>8 DEF Shaped
    <3>2. Leaves(0) = Under("primary", WorkerLeaves)
                         \cup Under("workers", ListLeaves(0))
      BY <2>1, LeavesUnder
    <3>3. Leaves(1) = Under("primary", WorkerLeaves)
                         \cup Under("workers", ListLeaves(1))
      BY <2>1, LeavesUnder
    <3>4. ListLeaves(0) = {}
      <4>1. 1..0 = {}
        OBVIOUS
      <4> QED
        BY <4>1 DEF ListLeaves
    <3>5. Under("workers", {}) = {}
      BY DEF Under
    <3> QED
      BY <2>3, <3>1, <3>2, <3>3, <3>4, <3>5
  <2>15. r \in nodes /\ x \in nodes
    OBVIOUS
  <2> HIDE DEF nodes
  <2>16. KeyPaths(w) /\ DOMAIN w = Leaves(1)
         /\ \A m \in nodes : \A p \in DOMAIN m : w[p] = m[p]
    BY <2>12, <2>13, <2>14, JoinedNodes
  <2> HIDE DEF w
  <2>17. \A p \in Leaves(0) : w[p] = r[p]
    BY <2>2, <2>3, <2>15, <2>16 DEF Shaped
  <2>18. PrimaryWins(w, d)
    <3>1. w[<<"primary", "cl-device-name">>] = r[<<"primary",
             "cl-device-name">>]
      BY <2>17 DEF Leaves
    <3>2. \A t \in Threads :
             w[<<"primary", t, "affinity">>] = r[<<"primary", t, "affinity">>]
      BY <2>17 DEF Leaves
    <3> QED
      BY <2>2, <3>1, <3>2 DEF PrimaryWins
  <2>19. Elements(d) = {}
    <3>1. 1..0 = {}
      OBVIOUS
    <3> QED
      BY <2>2, <2>3, <3>1 DEF FirstKeys
  <2>20. ElementWins(w, 1, d)
    <3>1. ElementGets(element, 1, d)
      BY <2>1, <2>19, ConstructedElement, ElementKept DEF element
    <3>2. \A l \in WorkerLeaves : w[<<"workers">> \o (<<k>> \o l)] = element[l]
      <4>1. ASSUME NEW l \in WorkerLeaves
            PROVE  w[<<"workers">> \o (<<k>> \o l)] = element[l]
        <5> DEFINE q == <<k>> \o l
        <5>1. one[q] = element[l]
          BY <2>5, NestedNode DEF one, Shaped
        <5>2. q \in ListLeaves(1)
          <6>1. q \in Under(k, WorkerLeaves)
            BY DEF Under
          <6> QED
            BY <2>6, <2>7, <6>1 DEF Shaped
        <5> HIDE DEF q
        <5>3. x[<<"workers">> \o q] = one[q]
          BY <2>9, <5>2
        <5>4. <<"workers">> \o q \in DOMAIN x
          BY <2>8, <5>2 DEF Shaped, Under
        <5>5. w[<<"workers">> \o q] = x[<<"workers">> \o q]
          BY <2>15, <2>16, <5>4
        <5> QED
          BY <5>1, <5>3, <5>5 DEF q
      <4> QED
        BY <4>1
    <3>3. <<"cl-device-name">> \in WorkerLeaves
          /\ \A t \in Threads : <<t, "affinity">> \in WorkerLeaves
      BY WorkerLeavesAre
    <3>4. w[<<"workers", k, "cl-device-name">>] = element[<<"cl-device-name">>]
      BY <2>1, <3>2, <3>3, LeafTuples DEF k
    <3>5. \A t \in Threads :
             w[<<"workers", k, t, "affinity">>] = element[<<t, "affinity">>]
      BY <2>1, <3>2, <3>3, LeafTuples DEF k
    <3> QED
      BY <3>1, <3>4, <3>5 DEF ElementWins, ElementGets, k
  <2>21. ProgramGets(w, 1, d)
    <3>1. \A i \in 1..1 : i = 1
      OBVIOUS
    <3>2. \A i \in 1..1 : ElementWins(w, i, d)
      BY <2>20, <3>1
    <3> QED
      BY <2>16, <2>18, <2>19, <3>2 DEF ProgramGets, Shaped
  <2> QED
    BY <2>1, <2>4, <2>21
<1> QED
  BY <1>1, <1>2

LEMMA InitialConfig ==
  ASSUME NEW n \in 0..Len(Index)
  PROVE  LET c == Joined({Nested("primary", Constructed(WorkerLeaves))} \cup
                     {Nested("workers", Nested(Index[i],
                         [p \in WorkerLeaves |-> FromCode])) : i \in 1..n})
         IN  Shaped(c, Leaves(n)) /\ \A p \in Leaves(n) : c[p] \in Code
<1> DEFINE e == [p \in WorkerLeaves |-> FromCode]
           x == Nested("primary", Constructed(WorkerLeaves))
           y(i) == Nested("workers", Nested(Index[i], e))
           nodes == {x} \cup {y(i) : i \in 1..n}
           r == Joined(nodes)
           U(i) == Under("workers", Under(Index[i], WorkerLeaves))
           V == Under("primary", WorkerLeaves)
<1>1. /\ "workers" \in Key /\ "primary" \in Key
      /\ \A i \in 1..n : i \in 1..Len(Index) /\ Index[i] \in Key
  BY Literals, ConfigObjectAssumption, LenProperties DEF Attributes
<1>2. Shaped(e, WorkerLeaves) /\ \A l \in WorkerLeaves : e[l] \in Code
  BY WorkerLeavesTyped DEF Shaped, KeyPaths, Code
<1> HIDE DEF e
<1>3. Shaped(x, V) /\ \A p \in V : x[p] \in Code
  <2>1. Shaped(x, V)
    BY <1>1, ConstructedElement, NestedShaped
  <2>2. ASSUME NEW l \in WorkerLeaves
        PROVE  x[<<"primary">> \o l] \in Code
    BY <1>1, ConstructedElement, NestedNode DEF Shaped
  <2> HIDE DEF x
  <2> QED
    BY <2>1, <2>2 DEF Under
<1>4. ASSUME NEW i \in 1..n
      PROVE  Shaped(y(i), U(i)) /\ \A p \in U(i) : y(i)[p] \in Code
  <2> DEFINE z == Nested(Index[i], e)
  <2>1. Shaped(z, Under(Index[i], WorkerLeaves))
        /\ \A l \in WorkerLeaves : z[<<Index[i]>> \o l] = e[l]
    BY <1>1, <1>2, NestedShaped, NestedNode DEF Shaped
  <2>2. \A q \in Under(Index[i], WorkerLeaves) : z[q] \in Code
    BY <1>2, <2>1 DEF Under
  <2> HIDE DEF z
  <2>3. Shaped(y(i), U(i))
        /\ \A q \in Under(Index[i], WorkerLeaves) :
              y(i)[<<"workers">> \o q] = z[q]
    BY <1>1, <2>1, NestedShaped, NestedNode DEF Shaped, z
  <2> HIDE DEF y
  <2>4. ASSUME NEW p \in U(i)
        PROVE  y(i)[p] \in Code
    <3>1. PICK q \in Under(Index[i], WorkerLeaves) : p = <<"workers">> \o q
      BY DEF Under
    <3> QED
      BY <2>2, <2>3, <3>1
  <2> QED
    BY <2>3, <2>4
<1>5. \A p \in V : Head(p) = "primary"
  BY <1>1, WorkerLeavesTyped, Prefixed DEF Under
<1>6. ASSUME NEW i \in 1..n, NEW p \in U(i)
      PROVE  Head(p) = "workers" /\ Head(Tail(p)) = Index[i]
  <2>1. PICK q \in Under(Index[i], WorkerLeaves) : p = <<"workers">> \o q
    BY DEF Under
  <2>2. PICK l \in WorkerLeaves : q = <<Index[i]>> \o l
    BY <2>1 DEF Under
  <2>3. q \in Seq(Key) /\ Head(q) = Index[i]
    BY <1>1, <2>2, WorkerLeavesTyped, Prefixed
  <2>4. Head(<<"workers">> \o q) = "workers" /\ Tail(<<"workers">> \o q) = q
    BY <1>1, <2>3, Prefixed
  <2> QED
    BY <2>1, <2>3, <2>4
<1> HIDE DEF x, y, U, V
<1>7. \A m \in nodes : KeyPaths(m)
  BY <1>3, <1>4 DEF Shaped
<1>8. ASSUME NEW a \in nodes, NEW b \in nodes, NEW p \in DOMAIN a,
                p \in DOMAIN b
      PROVE  a = b
  <2>1. CASE a = x /\ b = x
    BY <2>1
  <2>2. ASSUME NEW i \in 1..n, (a = x /\ b = y(i)) \/ (a = y(i) /\ b = x)
        PROVE  FALSE
    <3>1. p \in V /\ p \in U(i)
      BY <1>3, <1>4, <1>8, <2>2 DEF Shaped
    <3> QED
      BY <1>5, <1>6, <3>1
  <2>3. ASSUME NEW i \in 1..n, NEW j \in 1..n, a = y(i), b = y(j)
        PROVE  i = j
    <3>1. p \in U(i) /\ p \in U(j)
      BY <1>4, <1>8, <2>3 DEF Shaped
    <3>2. Index[i] = Index[j]
      BY <1>6, <3>1
    <3> QED
      BY <1>1, <3>2, KeysApart
  <2> QED
    BY <2>1, <2>2, <2>3
<1>9. UNION {DOMAIN m : m \in nodes} = Leaves(n)
  <2>1. UNION {DOMAIN m : m \in nodes} = V \cup UNION {U(i) : i \in 1..n}
    BY <1>3, <1>4 DEF Shaped
  <2>2. UNION {U(i) : i \in 1..n} = Under("workers", ListLeaves(n))
    <3>1. ASSUME NEW i \in 1..n, NEW p \in U(i)
          PROVE  p \in Under("workers", ListLeaves(n))
      <4>1. PICK q \in Under(Index[i], WorkerLeaves) : p = <<"workers">> \o q
        BY <3>1 DEF U, Under
      <4>2. q \in ListLeaves(n)
        BY <4>1 DEF ListLeaves
      <4> QED
        BY <4>1, <4>2 DEF Under
    <3>2. ASSUME NEW p \in Under("workers", ListLeaves(n))
          PROVE  \E i \in 1..n : p \in U(i)
      <4>1. PICK q \in ListLeaves(n) : p = <<"workers">> \o q
        BY <3>2 DEF Under
      <4>2. PICK i \in 1..n : q \in Under(Index[i], WorkerLeaves)
        BY DEF ListLeaves
      <4>3. p \in U(i)
        BY <4>1, <4>2 DEF U, Under
      <4> QED
        BY <4>3
    <3> QED
      BY <3>1, <3>2
  <2> QED
    BY <2>1, <2>2, LeavesUnder DEF V
<1>10. \A m \in nodes : \A p \in DOMAIN m : m[p] \in Code
  BY <1>3, <1>4 DEF Shaped
<1> HIDE DEF nodes
<1>11. KeyPaths(r) /\ DOMAIN r = Leaves(n)
       /\ \A m \in nodes : \A p \in DOMAIN m : r[p] = m[p]
  BY <1>7, <1>8, <1>9, JoinedNodes
<1> HIDE DEF r
<1>12. ASSUME NEW p \in Leaves(n)
       PROVE  r[p] \in Code
  <2>1. PICK m \in nodes : p \in DOMAIN m
    BY <1>9
  <2> QED
    BY <1>10, <1>11, <2>1
<1> QED
  BY <1>11, <1>12 DEF Shaped, r, nodes, x, y, e

LEMMA ConfigInitial == ConfigInit => ConfigInv
<1> SUFFICES ASSUME ConfigInit
             PROVE  ConfigInv
  OBVIOUS
<1>1. PICK n \in 0..MaxCodeSize :
         config = Joined(
            {Nested("primary", Constructed(WorkerLeaves))} \cup
            {Nested("workers", Nested(Index[i],
                [p \in WorkerLeaves |-> FromCode])) : i \in 1..n})
  BY DEF ConfigInit
<1>2. n \in 0..Len(Index)
  BY ConfigObjectAssumption, LenProperties
<1>3. Shaped(config, Leaves(n)) /\ \A p \in Leaves(n) : config[p] \in Code
  BY <1>1, <1>2, InitialConfig
<1>4. doc = Undefined /\ args \subseteq Options /\ status = "defaults"
  BY DEF ConfigInit
<1>5. DOMAIN doc = {} /\ doc = [p \in DOMAIN doc |-> p]
  BY <1>4 DEF Undefined
<1> QED
  BY <1>2, <1>3, <1>4, <1>5 DEF ConfigInv, Shaped

LEMMA ConfigStep == ConfigInv /\ [ConfigNext]_config_vars => ConfigInv'
<1> SUFFICES ASSUME ConfigInv, [ConfigNext]_config_vars
             PROVE  ConfigInv'
  OBVIOUS
<1>1. CASE UNCHANGED config_vars
  BY <1>1 DEF ConfigInv, config_vars
<1>2. CASE ConfigNext
  <2>1. status = "defaults" /\ args' = args
    BY <1>2 DEF ConfigNext, load_overrides
  <2>2. PICK d \in Documents :
           doc' = DocOf(d) /\ process_cmdline(apply_overrides(config, doc'))
    BY <1>2 DEF ConfigNext, load_overrides, DocOf
  <2>3. PICK n \in 0..Len(Index) : Shaped(config, Leaves(n))
    BY DEF ConfigInv
  <2>4. \A p \in Leaves(n) : config[p] \in Code
    BY <2>1, <2>3 DEF ConfigInv, Shaped
  <2> DEFINE overridden == apply_overrides(config, DocOf(d))
             target == WithFirstElement(overridden)
  <2>6. PICK m \in 0..Len(Index) : ProgramGets(overridden, m, d)
    <3>1. PICK m \in n..Len(Index) : ProgramGets(overridden, m, d)
      BY <2>3, <2>4, ProgramOverridden
    <3>2. m \in 0..Len(Index)
      BY ConfigObjectAssumption, LenProperties
    <3> QED
      BY <3>1, <3>2
  <2> HIDE DEF overridden
  <2>7. PICK k \in 0..Len(Index) : ProgramGets(target, k, d)
    BY <2>6, FirstElementGets
  <2>8. process_cmdline(overridden)
    BY <2>2 DEF overridden
  <2>9. DOMAIN doc' = d /\ doc' = [p \in DOMAIN doc' |-> p]
           /\ d \subseteq Entries
    BY <2>2, DocumentNode DEF DocOf
  <2>10. args' \subseteq Options
    BY <2>1 DEF ConfigInv
  <2>11. CASE /\ args \subseteq DOMAIN target
              /\ config' = cmdline_values(target, args)
              /\ status' = "ready"
    <3>1. /\ DOMAIN target = Leaves(k) /\ Elements(d) \subseteq FirstKeys(k)
          /\ Leaves(k) \subseteq Seq(Key)
      BY <2>7 DEF ProgramGets, Shaped, KeyPaths
    <3>2. \A p \in Leaves(k) : Winner(target[p], p, d)
      BY <2>7, Winners
    <3> HIDE DEF target
    <3>3. /\ DOMAIN config' = Leaves(k)
          /\ config' = [p \in DOMAIN config' |-> config'[p]]
          /\ \A p \in Leaves(k) :
                config'[p] = IF p \in args THEN FromCmdline(p) ELSE target[p]
      BY <2>11, <3>1 DEF cmdline_values
    <3>4. \A p \in DOMAIN config' :
             IF status' = "ready" /\ p \in args' THEN config'[p]
                = FromCmdline(p)
             ELSE Winner(config'[p], p, DOMAIN doc')
      BY <2>1, <2>9, <2>11, <3>2, <3>3
    <3>5. args' \subseteq DOMAIN config'
      BY <2>1, <2>11, <3>1, <3>3
    <3>6. Elements(DOMAIN doc') \subseteq {Index[i] : i \in 1..k}
      BY <2>9, <3>1 DEF FirstKeys
    <3>7. status' = "ready"
      BY <2>11
    <3>8. Shaped(config', Leaves(k))
      BY <3>1, <3>3 DEF Shaped, KeyPaths
    <3> HIDE DEF Winner
    <3> QED
      BY <2>9, <2>10, <3>8, <3>4, <3>5, <3>6, <3>7 DEF ConfigInv
  <2>12. CASE config' = overridden /\ status' = "thrown"
    <3>1. /\ Shaped(config', Leaves(m)) /\ DOMAIN config' = Leaves(m)
          /\ Elements(d) \subseteq FirstKeys(m)
      BY <2>6, <2>12 DEF ProgramGets, Shaped
    <3>2. \A p \in Leaves(m) : Winner(config'[p], p, d)
      BY <2>6, <2>12, Winners
    <3>3. \A p \in DOMAIN config' :
             IF status' = "ready" /\ p \in args' THEN config'[p]
                = FromCmdline(p)
             ELSE Winner(config'[p], p, DOMAIN doc')
      BY <2>9, <2>12, <3>1, <3>2
    <3>4. Elements(DOMAIN doc') \subseteq {Index[i] : i \in 1..m}
      BY <2>9, <3>1 DEF FirstKeys
    <3>5. status' = "thrown"
      BY <2>12
    <3> HIDE DEF Winner
    <3> QED
      BY <2>9, <2>10, <3>1, <3>3, <3>4, <3>5 DEF ConfigInv
  <2> QED
    BY <2>8, <2>11, <2>12 DEF process_cmdline
<1> QED
  BY <1>1, <1>2

LEMMA ConfigInvHolds == ConfigSpec => []ConfigInv
  BY ConfigInitial, ConfigStep, PTL DEF ConfigSpec
-----------------------------------------------------------------------------
(* The scopes of the entries of a document.                                *)

LEMMA TupleIs ==
  ASSUME NEW s \in Seq(Key), NEW a \in Key, NEW b \in Key, NEW c \in Key,
         NEW e \in Key
  PROVE  /\ Len(s) = 0 => s = << >>
         /\ Len(s) = 1 /\ s[1] = a => s = <<a>>
         /\ Len(s) = 2 /\ s[1] = a /\ s[2] = b => s = <<a, b>>
         /\ Len(s) = 3 /\ s[1] = a /\ s[2] = b /\ s[3] = c => s = <<a, b, c>>
         /\ Len(s) = 4 /\ s[1] = a /\ s[2] = b /\ s[3] = c /\ s[4] = e =>
               s = <<a, b, c, e>>
<1>1. Len(s) = 0 => s = << >>
  BY EmptySeq
<1>2. ASSUME Len(s) = 1, s[1] = a
      PROVE  s = <<a>>
  <2> DEFINE t == <<a>>
  <2>1. t \in Seq(Key) /\ Len(t) = 1 /\ t[1] = a
    OBVIOUS
  <2> HIDE DEF t
  <2>2. \A i \in 1..1 : i = 1
    OBVIOUS
  <2>3. s = t
    BY <1>2, <2>1, <2>2, SeqEqual
  <2> QED
    BY <2>3 DEF t
<1>3. ASSUME Len(s) = 2, s[1] = a, s[2] = b
      PROVE  s = <<a, b>>
  <2> DEFINE t == <<a, b>>
  <2>1. t \in Seq(Key) /\ Len(t) = 2 /\ t[1] = a /\ t[2] = b
    OBVIOUS
  <2> HIDE DEF t
  <2>2. \A i \in 1..2 : i = 1 \/ i = 2
    OBVIOUS
  <2>3. s = t
    BY <1>3, <2>1, <2>2, SeqEqual
  <2> QED
    BY <2>3 DEF t
<1>4. ASSUME Len(s) = 3, s[1] = a, s[2] = b, s[3] = c
      PROVE  s = <<a, b, c>>
  <2> DEFINE t == <<a, b, c>>
  <2>1. t \in Seq(Key) /\ Len(t) = 3 /\ t[1] = a /\ t[2] = b /\ t[3] = c
    OBVIOUS
  <2> HIDE DEF t
  <2>2. \A i \in 1..3 : i = 1 \/ i = 2 \/ i = 3
    OBVIOUS
  <2>3. s = t
    BY <1>4, <2>1, <2>2, SeqEqual
  <2> QED
    BY <2>3 DEF t
<1>5. ASSUME Len(s) = 4, s[1] = a, s[2] = b, s[3] = c, s[4] = e
      PROVE  s = <<a, b, c, e>>
  <2> DEFINE t == <<a, b, c, e>>
  <2>1. t \in Seq(Key) /\ Len(t) = 4
        /\ t[1] = a /\ t[2] = b /\ t[3] = c /\ t[4] = e
    OBVIOUS
  <2> HIDE DEF t
  <2>2. \A i \in 1..4 : i = 1 \/ i = 2 \/ i = 3 \/ i = 4
    OBVIOUS
  <2>3. s = t
    BY <1>5, <2>1, <2>2, SeqEqual
  <2> QED
    BY <2>3 DEF t
<1> QED
  BY <1>1, <1>2, <1>3, <1>4, <1>5

\* The scope of an entry has n keys.
ScopeIs(e, n) ==
    /\ Scope(e) \in Seq(Key) /\ Len(Scope(e)) = n
    /\ \A i \in 1..n : Scope(e)[i] = e[i] /\ e[i] \notin Classes
    /\ FromScope(e) \in Seq(Key) /\ Len(FromScope(e)) = Len(e) - n
    /\ \A i \in 1..Len(e) - n : FromScope(e)[i] = e[n + i]
    /\ n < Len(e) => e[n + 1] \in Classes
    /\ OfClass(e) <=> n < Len(e)

LEMMA ScopeParts ==
  ASSUME NEW e \in Seq(Key)
  PROVE  \E n \in 0..Len(e) : ScopeIs(e, n)
<1> DEFINE I == {i \in 1..Len(e) : IsClassKey(e[i])}
           m == SelectInSeq(e, IsClassKey)
           n == IF m = 0 THEN Len(e) ELSE m - 1
<1>1. Len(e) \in Nat /\ \A i \in 1..Len(e) : e[i] \in Key
  BY LenProperties, ElementOfSeq
<1>2. /\ m \in 0..Len(e)
      /\ \A i \in 1..n : e[i] \notin Classes
      /\ m # 0 => e[m] \in Classes
  <2>1. CASE I = {}
    <3>1. m = 0
      BY <2>1 DEF SelectInSeq
    <3>2. \A i \in 1..Len(e) : e[i] \notin Classes
      BY <2>1 DEF IsClassKey
    <3> QED
      BY <1>1, <3>1, <3>2
  <2>2. CASE I # {}
    <3>1. m = Min(I)
      BY <2>2 DEF SelectInSeq
    <3>2. I \in SUBSET (0..Len(e))
      BY <1>1
    <3>3. Min(I) \in I /\ \A i \in I : Min(I) <= i
      <4> HIDE DEF I
      <4> QED
        BY <1>1, <2>2, <3>2, MaxMin
    <3>4. m \in 1..Len(e) /\ e[m] \in Classes
      BY <3>1, <3>3 DEF IsClassKey
    <3>5. ASSUME NEW i \in 1..n, e[i] \in Classes
          PROVE  FALSE
      <4>1. i \in 1..Len(e) /\ i < m
        BY <1>1, <3>4
      <4>2. i \in I
        BY <3>5, <4>1 DEF IsClassKey
      <4> QED
        BY <1>1, <3>1, <3>3, <3>4, <4>1, <4>2
    <3> QED
      BY <1>1, <3>4, <3>5
  <2> QED
    BY <2>1, <2>2
<1>3. Scope(e) = IF m = 0 THEN e ELSE SubSeq(e, 1, m - 1)
  BY DEF Scope
<1> HIDE DEF m
<1>4. n \in 0..Len(e) /\ (n < Len(e) <=> m # 0) /\ (m # 0 => m = n + 1)
  BY <1>1, <1>2
<1>5. Scope(e) = SubSeq(e, 1, n)
  BY <1>3, SubSeqFull
<1> HIDE DEF n
<1>6. /\ Scope(e) \in Seq(Key) /\ Len(Scope(e)) = n
      /\ \A i \in 1..n : Scope(e)[i] = e[i]
  <2> DEFINE s == SubSeq(e, 1, n)
  <2>1. 1 \in Int /\ n \in Int /\ \A i \in 1..n : e[i] \in Key
    BY <1>1, <1>4
  <2>2. /\ s \in Seq(Key)
        /\ Len(s) = IF 1 <= n THEN n - 1 + 1 ELSE 0
        /\ \A i \in 1..n - 1 + 1 : s[i] = e[1 + i - 1]
    BY <2>1, SubSeqProperties
  <2> HIDE DEF s
  <2>3. n \in Nat
    BY <1>1, <1>4
  <2>4. Len(s) = n /\ \A i \in 1..n : s[i] = e[i]
    BY <2>2, <2>3
  <2> QED
    BY <1>5, <2>2, <2>4 DEF s
<1>7. /\ FromScope(e) \in Seq(Key) /\ Len(FromScope(e)) = Len(e) - n
      /\ \A i \in 1..Len(e) - n : FromScope(e)[i] = e[n + i]
  <2> DEFINE l == Len(e)
             s == SubSeq(e, n + 1, l)
  <2>1. FromScope(e) = s
    BY <1>6 DEF FromScope
  <2>2. n + 1 \in Int /\ l \in Int /\ \A i \in n + 1..l : e[i] \in Key
    BY <1>1, <1>4
  <2>3. /\ s \in Seq(Key)
        /\ Len(s) = IF n + 1 <= l THEN l - (n + 1) + 1 ELSE 0
        /\ \A i \in 1..l - (n + 1) + 1 : s[i] = e[(n + 1) + i - 1]
    BY <2>2, SubSeqProperties
  <2>4. n \in Nat /\ l \in Nat /\ n <= l
    BY <1>1, <1>4
  <2> HIDE DEF s, l
  <2>5. Len(s) = l - n /\ \A i \in 1..l - n : s[i] = e[n + i]
    BY <2>3, <2>4
  <2> QED
    BY <2>1, <2>3, <2>5 DEF l
<1>8. OfClass(e) <=> n < Len(e)
  <2>1. CASE n < Len(e)
    BY <1>6, <2>1 DEF OfClass
  <2>2. CASE ~(n < Len(e))
    BY <1>3, <1>4, <2>2 DEF OfClass
  <2> QED
    BY <2>1, <2>2
<1>9. ScopeIs(e, n)
  BY <1>2, <1>4, <1>6, <1>7, <1>8 DEF ScopeIs, n
<1> QED
  BY <1>4, <1>9

\* One key after another of an entry.
LEMMA NextKey ==
  ASSUME NEW e \in Seq(Key), NEW type, WellFormed(type, e), NEW k \in 0..Len(e)
  PROVE  /\ k = Len(e) => TypeAt(type, e, k) = "scalar"
         /\ k < Len(e) => /\ k + 1 \in 1..Len(e)
                          /\ e[k + 1] \in KeysOf(TypeAt(type, e, k))
                          /\ TypeAt(type, e, k + 1) = TypeOf(e[k + 1])
<1>1. Len(e) \in Nat
  BY LenProperties
<1>2. /\ \A i \in 1..Len(e) : e[i] \in KeysOf(TypeAt(type, e, i - 1))
      /\ TypeAt(type, e, Len(e)) = "scalar"
  BY DEF WellFormed
<1>3. ASSUME k < Len(e)
      PROVE  /\ k + 1 \in 1..Len(e)
             /\ e[k + 1] \in KeysOf(TypeAt(type, e, k))
             /\ TypeAt(type, e, k + 1) = TypeOf(e[k + 1])
  <2>1. k + 1 \in 1..Len(e) /\ (k + 1) - 1 = k /\ k + 1 # 0
    BY <1>1, <1>3
  <2>2. e[k + 1] \in KeysOf(TypeAt(type, e, (k + 1) - 1))
    BY <1>2, <2>1
  <2>3. TypeAt(type, e, k + 1) = TypeOf(e[k + 1])
    BY <2>1 DEF TypeAt
  <2> QED
    BY <2>1, <2>2, <2>3
<1> QED
  BY <1>2, <1>3

LEMMA KeysAre ==
  /\ KeysOf("program_config") = {"workers", "primary"} \cup Classes
  /\ KeysOf("list") = Range(Index)
  /\ KeysOf("worker_config") = {"cl-device-name"} \cup Threads \cup Classes
  /\ KeysOf("thread_config") = {"affinity"} \cup Classes
  /\ KeysOf("scalar") = {}
BY DEF KeysOf, Threads

\* What is left of an entry without class overrides, at an object of class
\* :worker_config.
LEMMA NamedInWorker ==
  ASSUME NEW e \in Seq(Key), NEW type, WellFormed(type, e),
         NEW k \in 0..Len(e), TypeAt(type, e, k) = "worker_config",
         \A i \in 1..Len(e) : e[i] \notin Classes
  PROVE  \/ Len(e) = k + 1 /\ e[k + 1] = "cl-device-name"
         \/ Len(e) = k + 2 /\ e[k + 1] \in Threads /\ e[k + 2] = "affinity"
<1>1. Len(e) \in Nat
  BY LenProperties
<1>2. k < Len(e)
  BY <1>1, NextKey
<1>3. /\ k + 1 \in 1..Len(e) /\ e[k + 1] \in KeysOf("worker_config")
      /\ TypeAt(type, e, k + 1) = TypeOf(e[k + 1])
  BY <1>2, NextKey
<1>4. e[k + 1] \in {"cl-device-name"} \cup Threads
  BY <1>3, KeysAre
<1>5. k + 1 \in 0..Len(e)
  BY <1>1, <1>3
<1>6. CASE e[k + 1] = "cl-device-name"
  <2>1. TypeAt(type, e, k + 1) = "scalar"
    BY <1>3, <1>6, Types
  <2>2. ~(k + 1 < Len(e))
    BY <1>5, <2>1, NextKey, KeysAre
  <2> QED
    BY <1>1, <1>5, <1>6, <2>2
<1>7. CASE e[k + 1] \in Threads
  <2>1. TypeAt(type, e, k + 1) = "thread_config"
    BY <1>3, <1>7, Types
  <2> DEFINE j == k + 1
  <2>2. j \in 0..Len(e) /\ TypeAt(type, e, j) = "thread_config"
    BY <1>5, <2>1
  <2> HIDE DEF j
  <2>3. j < Len(e)
    BY <1>1, <2>2, NextKey
  <2>4. /\ j + 1 \in 1..Len(e) /\ e[j + 1] \in KeysOf("thread_config")
        /\ TypeAt(type, e, j + 1) = TypeOf(e[j + 1])
    BY <2>2, <2>3, NextKey
  <2>5. e[j + 1] = "affinity"
    BY <2>4, KeysAre
  <2>6. TypeAt(type, e, j + 1) = "scalar" /\ j + 1 \in 0..Len(e)
    BY <1>1, <2>4, <2>5, Types
  <2>7. ~(j + 1 < Len(e))
    BY <2>6, NextKey, KeysAre
  <2>8. Len(e) = j + 1
    BY <1>1, <2>6, <2>7
  <2>9. Len(e) = k + 2 /\ e[k + 2] = "affinity"
    BY <2>5, <2>8 DEF j
  <2> QED
    BY <1>7, <2>9
<1> QED
  BY <1>4, <1>6, <1>7

LEMMA NamedEntry ==
  ASSUME NEW e \in Seq(Key), WellFormed("program_config", e),
         \A i \in 1..Len(e) : e[i] \notin Classes
  PROVE  \/ e = <<"primary", "cl-device-name">>
         \/ \E r \in Threads : e = <<"primary", r, "affinity">>
         \/ \E i \in 1..Len(Index) : e = <<"workers", Index[i],
               "cl-device-name">>
         \/ \E i \in 1..Len(Index), r \in Threads :
               e = <<"workers", Index[i], r, "affinity">>
<1> DEFINE type == "program_config"
<1>1. Len(e) \in Nat /\ Len(e) # 0
  BY LenProperties, WorkersEntry
<1>2. 0 \in 0..Len(e) /\ TypeAt(type, e, 0) = "program_config"
      /\ WellFormed(type, e) /\ 0 + 1 = 1 /\ 1 + 1 = 2 /\ 1 + 2 = 3
      /\ 2 + 1 = 3 /\ 2 + 2 = 4
  BY <1>1 DEF TypeAt
<1>3. 0 < Len(e) /\ 1 \in 1..Len(e) /\ 1 \in 0..Len(e)
  BY <1>1
<1>4. /\ "primary" \in Key /\ "workers" \in Key /\ "cl-device-name" \in Key
      /\ "affinity" \in Key /\ \A r \in Threads : r \in Key
      /\ \A i \in 1..Len(Index) : Index[i] \in Key
  BY Literals DEF Attributes
<1> HIDE DEF type
<1>5. e[1] \in {"workers", "primary"} /\ TypeAt(type, e, 1) = TypeOf(e[1])
  <2>1. /\ e[0 + 1] \in KeysOf(TypeAt(type, e, 0))
        /\ TypeAt(type, e, 0 + 1) = TypeOf(e[0 + 1])
    BY <1>2, <1>3, NextKey
  <2> QED
    BY <1>2, <1>3, <2>1, KeysAre
<1>6. CASE e[1] = "primary"
  <2>1. TypeAt(type, e, 1) = "worker_config"
    BY <1>5, <1>6, Types
  <2>2. \/ Len(e) = 1 + 1 /\ e[1 + 1] = "cl-device-name"
        \/ Len(e) = 1 + 2 /\ e[1 + 1] \in Threads /\ e[1 + 2] = "affinity"
    BY <1>2, <1>3, <2>1, NamedInWorker
  <2>3. CASE Len(e) = 2 /\ e[2] = "cl-device-name"
    BY <1>4, <1>6, <2>3, TupleIs
  <2>4. CASE Len(e) = 3 /\ e[2] \in Threads /\ e[3] = "affinity"
    <3>1. PICK r \in Threads : e[2] = r
      BY <2>4
    <3>2. e = <<"primary", r, "affinity">>
      BY <1>4, <1>6, <2>4, <3>1, TupleIs
    <3> QED
      BY <3>2
  <2> QED
    BY <1>2, <2>2, <2>3, <2>4
<1>7. CASE e[1] = "workers"
  <2>1. Len(e) >= 2 /\ e[2] \in Range(Index)
    BY <1>7, WorkersEntry
  <2>2. PICK i \in 1..Len(Index) : e[2] = Index[i]
    <3>1. DOMAIN Index = 1..Len(Index)
      BY ConfigObjectAssumption, LenProperties
    <3> QED
      BY <2>1, <3>1 DEF Range
  <2>3. TypeAt(type, e, 2) = "worker_config" /\ 2 \in 0..Len(e)
    <3>1. TypeAt(type, e, 2) = TypeOf(e[2])
      BY DEF TypeAt
    <3>2. 2 \in 0..Len(e)
      BY <1>1, <2>1
    <3> QED
      BY <2>2, <3>1, <3>2, Types
  <2>4. \/ Len(e) = 2 + 1 /\ e[2 + 1] = "cl-device-name"
        \/ Len(e) = 2 + 2 /\ e[2 + 1] \in Threads /\ e[2 + 2] = "affinity"
    BY <1>2, <2>3, NamedInWorker
  <2>5. CASE Len(e) = 3 /\ e[3] = "cl-device-name"
    <3>1. e = <<"workers", Index[i], "cl-device-name">>
      BY <1>4, <1>7, <2>2, <2>5, TupleIs
    <3> QED
      BY <3>1
  <2>6. CASE Len(e) = 4 /\ e[3] \in Threads /\ e[4] = "affinity"
    <3>1. PICK r \in Threads : e[3] = r
      BY <2>6
    <3>2. e = <<"workers", Index[i], r, "affinity">>
      BY <1>4, <1>7, <2>2, <2>6, <3>1, TupleIs
    <3> QED
      BY <3>2
  <2> QED
    BY <1>2, <2>4, <2>5, <2>6
<1> QED
  BY <1>5, <1>6, <1>7

\* The values of the code, the document and the command line are apart.
LEMMA SourcesApart ==
  ASSUME NEW e \in Entries
  PROVE  /\ e \in Seq(Key) /\ WellFormed("program_config", e)
         /\ e \notin Code /\ \A p : e # FromCmdline(p)
<1>1. e \in Seq(Key) /\ WellFormed("program_config", e)
  BY ConfigObjectAssumption
<1>2. Len(e) \in Nat /\ Len(e) # 0
  BY <1>1, WorkersEntry
<1>3. e[1] \in {"workers", "primary"} \cup Classes
  <2>1. 0 \in 0..Len(e) /\ 0 < Len(e) /\ 0 + 1 = 1
        /\ TypeAt("program_config", e, 0) = "program_config"
    BY <1>2 DEF TypeAt
  <2>2. e[0 + 1] \in KeysOf("program_config")
    BY <1>1, <2>1, NextKey
  <2> QED
    BY <2>1, <2>2, KeysAre
<1>4. e[1] # "default" /\ e[1] # "code" /\ e[1] # "--"
  BY <1>3 DEF Classes
<1>5. Default[1] = "default" /\ FromCode[1] = "code"
      /\ \A p : FromCmdline(p)[1] = "--"
  BY DEF Default, FromCode, FromCmdline
<1> QED
  BY <1>1, <1>4, <1>5 DEF Code

LEMMA ByNameFollows == ConfigInv => ByNameWins
<1> SUFFICES ASSUME ConfigInv, status = "ready"
             PROVE  /\ \A p \in args : config[p] = FromCmdline(p)
                    /\ \A p \in DOMAIN doc \ args :
                          ~OfClass(p) => p \in DOMAIN config /\ config[p] = p
  BY DEF ByNameWins
<1> DEFINE d == DOMAIN doc
<1>1. PICK n \in 0..Len(Index) :
         Shaped(config, Leaves(n)) /\ Elements(d) \subseteq {Index[i] :
            i \in 1..n}
  BY DEF ConfigInv
<1>2. DOMAIN config = Leaves(n) /\ args \subseteq DOMAIN config
         /\ d \subseteq Entries
      /\ \A p \in DOMAIN config :
            IF p \in args THEN config[p]
               = FromCmdline(p) ELSE Winner(config[p], p, d)
  BY <1>1 DEF ConfigInv, Shaped
<1> HIDE DEF d
<1>3. ASSUME NEW p \in d, p \notin args, ~OfClass(p)
      PROVE  p \in DOMAIN config /\ config[p] = p
  <2>1. p \in Seq(Key) /\ WellFormed("program_config", p)
    BY <1>2, SourcesApart
  <2>2. \A i \in 1..Len(p) : p[i] \notin Classes
    <3>1. PICK m \in 0..Len(p) : ScopeIs(p, m)
      BY <2>1, ScopeParts
    <3>2. m = Len(p)
      BY <1>3, <2>1, <3>1, LenProperties DEF ScopeIs
    <3> QED
      BY <3>1, <3>2 DEF ScopeIs
  <2>3. CASE p = <<"primary", "cl-device-name">>
    <3>1. p \in DOMAIN config
      BY <1>2, <2>3 DEF Leaves
    <3>2. Winner(config[p], p, d)
      BY <1>2, <1>3, <3>1
    <3> QED
      BY <1>3, <2>3, <3>1, <3>2 DEF Winner, Of
  <2>4. ASSUME NEW r \in Threads, p = <<"primary", r, "affinity">>
        PROVE  p \in DOMAIN config /\ config[p] = p
    <3>1. p \in DOMAIN config
      BY <1>2, <2>4 DEF Leaves
    <3>2. Winner(config[p], p, d)
      BY <1>2, <1>3, <3>1
    <3>3. \A v : Of(d, p, v) = p
      BY <1>3 DEF Of
    <3> QED
      BY <2>4, <3>1, <3>2, <3>3 DEF Winner
  <2>5. ASSUME NEW i \in 1..Len(Index), p[1] = "workers", p[2] = Index[i]
        PROVE  i \in 1..n /\ Index[i] \in Elements(d)
    <3>1. Index[i] \in Elements(d)
      BY <1>3, <2>5 DEF Elements
    <3>2. PICK j \in 1..n : Index[i] = Index[j]
      BY <1>1, <3>1
    <3>3. j \in 1..Len(Index)
      BY ConfigObjectAssumption, LenProperties
    <3> QED
      BY <3>1, <3>2, <3>3, KeysApart
  <2>6. ASSUME NEW i \in 1..Len(Index),
               p = <<"workers", Index[i], "cl-device-name">>
        PROVE  p \in DOMAIN config /\ config[p] = p
    <3>1. i \in 1..n
      BY <2>5, <2>6
    <3>2. p \in DOMAIN config
      BY <1>2, <2>6, <3>1 DEF Leaves, WorkersLeaves
    <3>3. Winner(config[p], p, d)
      BY <1>2, <1>3, <3>2
    <3>4. \A v : Of(d, p, v) = p
      BY <1>3 DEF Of
    <3> QED
      BY <2>6, <3>2, <3>3, <3>4 DEF Winner
  <2>7. ASSUME NEW i \in 1..Len(Index), NEW r \in Threads,
               p = <<"workers", Index[i], r, "affinity">>
        PROVE  p \in DOMAIN config /\ config[p] = p
    <3>1. i \in 1..n /\ Index[i] \in Elements(d)
      BY <2>5, <2>7
    <3>2. p \in DOMAIN config
      BY <1>2, <2>7, <3>1 DEF Leaves, WorkersLeaves
    <3>3. Winner(config[p], p, d)
      BY <1>2, <1>3, <3>2
    <3>4. \A v : Of(d, p, v) = p
      BY <1>3 DEF Of
    <3> QED
      BY <2>7, <3>1, <3>2, <3>3, <3>4 DEF Winner
  <2> QED
    BY <2>1, <2>2, <2>3, <2>4, <2>6, <2>7, NamedEntry
<1> QED
  BY <1>2, <1>3 DEF d

\* An entry whose first class is the key k.
LEMMA FirstClass ==
  ASSUME NEW e \in Seq(Key), NEW k \in 1..Len(e), e[k] \in Classes,
         \A i \in 1..k - 1 : e[i] \notin Classes
  PROVE  ScopeIs(e, k - 1) /\ OfClass(e)
<1>1. PICK n \in 0..Len(e) : ScopeIs(e, n)
  BY ScopeParts
<1>2. Len(e) \in Nat
  BY LenProperties
<1>3. /\ \A i \in 1..n : e[i] \notin Classes
      /\ n < Len(e) => e[n + 1] \in Classes
      /\ OfClass(e) <=> n < Len(e)
  BY <1>1 DEF ScopeIs
<1>4. n < k
  BY <1>2, <1>3
<1>5. ~(n + 1 < k)
  <2> SUFFICES ASSUME n + 1 < k
               PROVE  FALSE
    OBVIOUS
  <2>1. n + 1 \in 1..k - 1 /\ n < Len(e)
    BY <1>2
  <2> QED
    BY <1>3, <2>1
<1>6. n = k - 1 /\ n < Len(e)
  BY <1>2, <1>4, <1>5
<1> QED
  BY <1>1, <1>3, <1>6

LEMMA ScopeTuples ==
  ASSUME NEW a \in Key \ Classes, NEW b \in Key \ Classes,
            NEW k \in Key \ Classes,
         NEW c \in Classes, NEW x \in Key, NEW y \in Key
  PROVE  /\ ScopeIs(<<c>>, 0) /\ ScopeIs(<<c, x>>, 0) /\ ScopeIs(<<c, x, y>>, 0)
         /\ ScopeIs(<<a, c>>, 1) /\ ScopeIs(<<a, c, x>>, 1)
         /\ ScopeIs(<<a, b, c>>, 2) /\ ScopeIs(<<a, b, k, c>>, 3)
<1>1. c \in Key
  BY Literals
<1>2. ASSUME NEW e \in Seq(Key), Len(e) \in 1..3, e[1] = c
      PROVE  ScopeIs(e, 0)
  <2>1. 1 \in 1..Len(e) /\ 1 - 1 = 0 /\ 1..0 = {}
    BY <1>2
  <2>2. \A i \in 1..1 - 1 : e[i] \notin Classes
    BY <2>1
  <2> QED
    BY <1>2, <2>1, <2>2, FirstClass
<1>3. ASSUME NEW e \in Seq(Key), Len(e) \in 2..3, e[1] = a, e[2] = c
      PROVE  ScopeIs(e, 1)
  <2>1. 2 \in 1..Len(e) /\ 2 - 1 = 1 /\ \A i \in 1..1 : i = 1
    BY <1>3
  <2>2. \A i \in 1..2 - 1 : e[i] \notin Classes
    BY <1>3, <2>1
  <2> QED
    BY <1>3, <2>1, <2>2, FirstClass
<1>4. ASSUME NEW e \in Seq(Key), Len(e) = 3, e[1] = a, e[2] = b, e[3] = c
      PROVE  ScopeIs(e, 2)
  <2>1. 3 \in 1..Len(e) /\ 3 - 1 = 2 /\ \A i \in 1..2 : i = 1 \/ i = 2
    BY <1>4
  <2>2. \A i \in 1..3 - 1 : e[i] \notin Classes
    BY <1>4, <2>1
  <2> QED
    BY <1>4, <2>1, <2>2, FirstClass
<1>5. ASSUME NEW e \in Seq(Key), Len(e) = 4,
             e[1] = a, e[2] = b, e[3] = k, e[4] = c
      PROVE  ScopeIs(e, 3)
  <2>1. 4 \in 1..Len(e) /\ 4 - 1 = 3 /\ \A i \in 1..3 : i = 1 \/ i = 2 \/ i = 3
    BY <1>5
  <2>2. \A i \in 1..4 - 1 : e[i] \notin Classes
    BY <1>5, <2>1
  <2> QED
    BY <1>5, <2>1, <2>2, FirstClass
<1>6. ScopeIs(<<c>>, 0)
  <2> DEFINE e == <<c>>
  <2>1. e \in Seq(Key) /\ Len(e) \in 1..3 /\ e[1] = c
    BY <1>1
  <2> HIDE DEF e
  <2>2. ScopeIs(e, 0)
    BY <1>2, <2>1
  <2> QED
    BY <2>2 DEF e
<1>7. ScopeIs(<<c, x>>, 0)
  <2> DEFINE e == <<c, x>>
  <2>1. e \in Seq(Key) /\ Len(e) \in 1..3 /\ e[1] = c
    BY <1>1
  <2> HIDE DEF e
  <2>2. ScopeIs(e, 0)
    BY <1>2, <2>1
  <2> QED
    BY <2>2 DEF e
<1>8. ScopeIs(<<c, x, y>>, 0)
  <2> DEFINE e == <<c, x, y>>
  <2>1. e \in Seq(Key) /\ Len(e) \in 1..3 /\ e[1] = c
    BY <1>1
  <2> HIDE DEF e
  <2>2. ScopeIs(e, 0)
    BY <1>2, <2>1
  <2> QED
    BY <2>2 DEF e
<1>9. ScopeIs(<<a, c>>, 1)
  <2> DEFINE e == <<a, c>>
  <2>1. e \in Seq(Key) /\ Len(e) \in 2..3 /\ e[1] = a /\ e[2] = c
    BY <1>1
  <2> HIDE DEF e
  <2>2. ScopeIs(e, 1)
    BY <1>3, <2>1
  <2> QED
    BY <2>2 DEF e
<1>10. ScopeIs(<<a, c, x>>, 1)
  <2> DEFINE e == <<a, c, x>>
  <2>1. e \in Seq(Key) /\ Len(e) \in 2..3 /\ e[1] = a /\ e[2] = c
    BY <1>1
  <2> HIDE DEF e
  <2>2. ScopeIs(e, 1)
    BY <1>3, <2>1
  <2> QED
    BY <2>2 DEF e
<1>11. ScopeIs(<<a, b, c>>, 2)
  <2> DEFINE e == <<a, b, c>>
  <2>1. e \in Seq(Key) /\ Len(e) = 3 /\ e[1] = a /\ e[2] = b /\ e[3] = c
    BY <1>1
  <2> HIDE DEF e
  <2>2. ScopeIs(e, 2)
    BY <1>4, <2>1
  <2> QED
    BY <2>2 DEF e
<1>12. ScopeIs(<<a, b, k, c>>, 3)
  <2> DEFINE e == <<a, b, k, c>>
  <2>1. e \in Seq(Key) /\ Len(e) = 4
        /\ e[1] = a /\ e[2] = b /\ e[3] = k /\ e[4] = c
    BY <1>1
  <2> HIDE DEF e
  <2>2. ScopeIs(e, 3)
    BY <1>5, <2>1
  <2> QED
    BY <2>2 DEF e
<1> QED
  BY <1>6, <1>7, <1>8, <1>9, <1>10, <1>11, <1>12

LEMMA ScopePrefix ==
  ASSUME NEW f \in Seq(Key), NEW p \in Seq(Key), NEW n \in Nat, ScopeIs(f, n),
         n <= Len(p), \A i \in 1..n : f[i] = p[i]
  PROVE  IsPrefix(Scope(f), p)
<1> DEFINE s == Scope(f)
<1>1. s \in Seq(Key) /\ Len(s) = n /\ \A i \in 1..n : s[i] = p[i]
  BY DEF ScopeIs
<1> HIDE DEF s
<1>2. SubSeq(s, 1, Len(s)) = s
  BY <1>1, SubSeqFull
<1> DEFINE t == SubSeq(p, 1, n)
<1>3. \A i \in 1..n : p[i] \in Key
  BY LenProperties, ElementOfSeq
<1>4. t \in Seq(Key)
      /\ Len(t) = (IF 1 <= n THEN n - 1 + 1 ELSE 0)
      /\ \A i \in 1..n - 1 + 1 : t[i] = p[1 + i - 1]
  BY <1>3, SubSeqProperties
<1> HIDE DEF t
<1>5. Len(t) = n /\ \A i \in 1..n : t[i] = p[i]
  BY <1>4
<1>6. s = t
  BY <1>1, <1>4, <1>5, SeqEqual
<1> QED
  BY <1>1, <1>2, <1>6 DEF IsPrefix, s, t

\* The other way round.
LEMMA PrefixAgrees ==
  ASSUME NEW s \in Seq(Key), NEW p \in Seq(Key), IsPrefix(s, p)
  PROVE  Len(s) <= Len(p) /\ \A i \in 1..Len(s) : s[i] = p[i]
<1> DEFINE n == Len(s)
           t == SubSeq(p, 1, n)
<1>1. n \in Nat /\ Len(p) \in Nat
  BY LenProperties
<1>2. n <= Len(p) /\ s = t
  <2>1. SubSeq(s, 1, Len(s)) = s
    BY SubSeqFull
  <2> QED
    BY <2>1 DEF IsPrefix
<1> HIDE DEF n
<1>3. \A i \in 1..n : p[i] \in Key
  BY <1>1, <1>2, ElementOfSeq
<1>4. \A i \in 1..n - 1 + 1 : t[i] = p[1 + i - 1]
  BY <1>1, <1>3, SubSeqProperties
<1> HIDE DEF t
<1>5. \A i \in 1..n : t[i] = p[i]
  BY <1>1, <1>4
<1> QED
  BY <1>2, <1>5 DEF n

LEMMA NamedKeys ==
  /\ "primary" \in Key \ Classes /\ "workers" \in Key \ Classes
  /\ "cl-device-name" \in Key \ Classes /\ "affinity" \in Key \ Classes
  /\ \A r \in Threads : r \in Key \ Classes
  /\ \A i \in 1..Len(Index) : Index[i] \in Key \ Classes
<1>1. \A k \in Attributes : k \in Key \ Classes
  BY Literals DEF Attributes, Classes
<1>2. \A i \in 1..Len(Index) : Index[i] \in Key \ Classes
  BY Literals, KeysApart
<1> QED
  BY <1>1, <1>2 DEF Attributes, Threads

\* What a document can give to an attribute, and what it then does not say.
ChosenForThread(f, p, d) ==
    \E r \in Threads :
       /\ p = <<"primary", r, "affinity">>
       /\ \/ f = <<"primary", r, ":cpu_set">>
          \/ f = <<"primary", ":cpu_set">> /\ <<"primary", r,
                ":cpu_set">> \notin d
          \/ /\ f = <<":cpu_set">>
             /\ <<"primary", r, ":cpu_set">> \notin d
             /\ <<"primary", ":cpu_set">> \notin d
          \/ f = <<"primary", ":thread_config", "affinity">>
          \/ /\ f = <<":thread_config", "affinity">>
             /\ <<"primary", ":thread_config", "affinity">> \notin d
          \/ f = <<":worker_config", r, "affinity">>
          \/ f = <<":worker_config", r, ":cpu_set">>
ChosenForElement(f, p, d) ==
    \E i \in 1..Len(Index), r \in Threads :
       /\ p = <<"workers", Index[i], r, "affinity">>
       /\ \/ f = <<"workers", Index[i], r, ":cpu_set">>
          \/ /\ f = <<":cpu_set">>
             /\ <<"workers", Index[i], r, ":cpu_set">> \notin d
          \/ f = <<":thread_config", "affinity">>
Chosen(f, p, d) ==
    \/ f = p
    \/ p = <<"primary", "cl-device-name">>
       /\ f = <<":worker_config", "cl-device-name">>
    \/ ChosenForThread(f, p, d)
    \/ ChosenForElement(f, p, d)

LEMMA LeafKinds ==
  ASSUME NEW n \in 0..Len(Index), NEW p \in Leaves(n)
  PROVE  \/ p = <<"primary", "cl-device-name">>
         \/ \E r \in Threads : p = <<"primary", r, "affinity">>
         \/ \E i \in 1..Len(Index) : p = <<"workers", Index[i],
               "cl-device-name">>
         \/ \E i \in 1..Len(Index), r \in Threads :
               p = <<"workers", Index[i], r, "affinity">>
<1>1. \A i \in 1..n : i \in 1..Len(Index)
  BY ConfigObjectAssumption, LenProperties
<1> QED
  BY <1>1 DEF Leaves, WorkersLeaves

LEMMA WinnerChosen ==
  ASSUME NEW n \in 0..Len(Index), NEW p \in Leaves(n), NEW f,
         NEW d, f \in d, d \cap Code = {}, Winner(f, p, d)
  PROVE  Chosen(f, p, d)
<1>1. \A c \in Code : f # c
  OBVIOUS
<1>2. CASE p = <<"primary", "cl-device-name">>
  <2>1. PICK c \in Code :
           f = Of(d, p, Of(d, <<":worker_config", "cl-device-name">>, c))
    BY <1>2 DEF Winner
  <2> QED
    BY <1>1, <1>2, <2>1 DEF Chosen, Of
<1>3. ASSUME NEW r \in Threads, p = <<"primary", r, "affinity">>
      PROVE  Chosen(f, p, d)
  <2> DEFINE q1 == <<"primary", r, ":cpu_set">>
             q2 == <<"primary", ":cpu_set">>
             q3 == <<":cpu_set">>
             q4 == <<"primary", ":thread_config", "affinity">>
             q5 == <<":thread_config", "affinity">>
             q6 == <<":worker_config", r, "affinity">>
             q7 == <<":worker_config", r, ":cpu_set">>
  <2>1. PICK c \in Code :
           f = Of(d, p, Of(d, q1, Of(d, q2, Of(d, q3, Of(d, q4, Of(d, q5,
               Of(d, q6, Of(d, q7, c))))))))
    BY <1>3 DEF Winner
  <2> HIDE DEF q1, q2, q3, q4, q5, q6, q7
  <2>2. \/ f = p
        \/ f = q1
        \/ f = q2 /\ q1 \notin d
        \/ f = q3 /\ q1 \notin d /\ q2 \notin d
        \/ f = q4
        \/ f = q5 /\ q4 \notin d
        \/ f = q6
        \/ f = q7
    BY <1>1, <2>1 DEF Of
  <2> USE DEF q1, q2, q3, q4, q5, q6, q7
  <2>3. f = p \/ ChosenForThread(f, p, d)
    BY <1>3, <2>2 DEF ChosenForThread
  <2> QED
    BY <2>3 DEF Chosen
<1>4. ASSUME NEW i \in 1..Len(Index), p = <<"workers", Index[i],
                "cl-device-name">>
      PROVE  Chosen(f, p, d)
  <2>1. PICK c \in Code : f = Of(d, p, c)
    BY <1>4 DEF Winner
  <2> QED
    BY <1>1, <2>1 DEF Chosen, Of
<1>5. ASSUME NEW i \in 1..Len(Index), NEW r \in Threads,
             p = <<"workers", Index[i], r, "affinity">>
      PROVE  Chosen(f, p, d)
  <2> DEFINE q1 == <<"workers", Index[i], r, ":cpu_set">>
             q2 == <<":cpu_set">>
             q3 == <<":thread_config", "affinity">>
  <2>1. PICK c \in Code :
           f = Of(d, p, Of(d, q1, Of(d, q2, Of(d, q3, c)))) \/ f = c
    BY <1>5 DEF Winner
  <2> HIDE DEF q1, q2, q3
  <2>2. f = p \/ f = q1 \/ (f = q2 /\ q1 \notin d) \/ f = q3
    BY <1>1, <2>1 DEF Of
  <2> USE DEF q1, q2, q3
  <2>3. f = p \/ ChosenForElement(f, p, d)
    BY <1>5, <2>2 DEF ChosenForElement
  <2> QED
    BY <2>3 DEF Chosen
<1> QED
  BY <1>2, <1>3, <1>4, <1>5, LeafKinds

\* Where each of them has its scope.
LEMMA ThreadChosenScope ==
  ASSUME NEW f, NEW p, NEW d, ChosenForThread(f, p, d)
  PROVE  \E n \in 0..2 :
            ScopeIs(f, n) /\ n <= Len(p) /\ \A i \in 1..n : f[i] = p[i]
<1>1. PICK r \in Threads :
       /\ p = <<"primary", r, "affinity">>
       /\ \/ f = <<"primary", r, ":cpu_set">>
          \/ f = <<"primary", ":cpu_set">>
          \/ f = <<":cpu_set">>
          \/ f = <<"primary", ":thread_config", "affinity">>
          \/ f = <<":thread_config", "affinity">>
          \/ f = <<":worker_config", r, "affinity">>
          \/ f = <<":worker_config", r, ":cpu_set">>
  BY DEF ChosenForThread
<1>2. Len(p) = 3 /\ p[1] = "primary" /\ p[2] = r
  BY <1>1
<1>3. /\ ":cpu_set" \in Classes /\ ":thread_config" \in Classes
      /\ ":worker_config" \in Classes
      /\ \A c \in Classes : c \in Key
  BY Literals DEF Classes
<1>4. 0 \in 0..2 /\ 1 \in 0..2 /\ 2 \in 0..2 /\ 1..0 = {}
      /\ (\A i \in 1..1 : i = 1) /\ (\A i \in 1..2 : i = 1 \/ i = 2)
  OBVIOUS
<1>5. CASE f = <<"primary", r, ":cpu_set">>
  <2>1. ScopeIs(f, 2)
    BY <1>3, <1>5, NamedKeys, ScopeTuples
  <2>2. f[1] = "primary" /\ f[2] = r
    BY <1>5
  <2> QED
    BY <1>2, <1>4, <2>1, <2>2
<1>6. CASE f = <<"primary", ":cpu_set">>
  <2>1. ScopeIs(f, 1)
    BY <1>3, <1>6, NamedKeys, ScopeTuples
  <2>2. f[1] = "primary"
    BY <1>6
  <2> QED
    BY <1>2, <1>4, <2>1, <2>2
<1>7. CASE f = <<"primary", ":thread_config", "affinity">>
  <2>1. ScopeIs(f, 1)
    BY <1>3, <1>7, NamedKeys, ScopeTuples
  <2>2. f[1] = "primary"
    BY <1>7
  <2> QED
    BY <1>2, <1>4, <2>1, <2>2
<1>8. CASE ScopeIs(f, 0)
  BY <1>2, <1>4, <1>8
<1>9. ScopeIs(<<":cpu_set">>, 0) /\ ScopeIs(<<":thread_config", "affinity">>, 0)
      /\ ScopeIs(<<":worker_config", r, "affinity">>, 0)
      /\ ScopeIs(<<":worker_config", r, ":cpu_set">>, 0)
  BY <1>3, NamedKeys, ScopeTuples
<1> QED
  BY <1>1, <1>5, <1>6, <1>7, <1>8, <1>9

LEMMA ElementChosenScope ==
  ASSUME NEW f, NEW p, NEW d, ChosenForElement(f, p, d)
  PROVE  \E n \in 0..3 :
            ScopeIs(f, n) /\ n <= Len(p) /\ \A i \in 1..n : f[i] = p[i]
<1>1. PICK i \in 1..Len(Index), r \in Threads :
       /\ p = <<"workers", Index[i], r, "affinity">>
       /\ \/ f = <<"workers", Index[i], r, ":cpu_set">>
          \/ f = <<":cpu_set">>
          \/ f = <<":thread_config", "affinity">>
  BY DEF ChosenForElement
<1>2. Len(p) = 4 /\ p[1] = "workers" /\ p[2] = Index[i] /\ p[3] = r
  BY <1>1
<1>3. /\ ":cpu_set" \in Classes /\ ":thread_config" \in Classes
      /\ \A c \in Classes : c \in Key
  BY Literals DEF Classes
<1>4. 0 \in 0..3 /\ 3 \in 0..3 /\ 1..0 = {}
      /\ (\A j \in 1..3 : j = 1 \/ j = 2 \/ j = 3)
  OBVIOUS
<1>5. CASE f = <<"workers", Index[i], r, ":cpu_set">>
  <2>1. ScopeIs(f, 3)
    BY <1>3, <1>5, NamedKeys, ScopeTuples
  <2>2. f[1] = "workers" /\ f[2] = Index[i] /\ f[3] = r
    BY <1>5
  <2> QED
    BY <1>2, <1>4, <2>1, <2>2
<1>6. CASE ScopeIs(f, 0)
  BY <1>2, <1>4, <1>6
<1>7. ScopeIs(<<":cpu_set">>, 0) /\ ScopeIs(<<":thread_config", "affinity">>, 0)
  BY <1>3, NamedKeys, ScopeTuples
<1> QED
  BY <1>1, <1>5, <1>6, <1>7

\* What the invariant says of an attribute that the document gives.
LEMMA GivenByDocument ==
  ASSUME ConfigInv, NEW p \in DOMAIN config, config[p] \in DOMAIN doc
  PROVE  /\ Chosen(config[p], p, DOMAIN doc)
         /\ \E n \in 0..Len(Index) : p \in Leaves(n)
         /\ config[p] \in Entries
<1>1. PICK n \in 0..Len(Index) : Shaped(config, Leaves(n))
  BY DEF ConfigInv
<1>2. p \in Leaves(n)
  BY <1>1 DEF Shaped
<1>3. DOMAIN doc \subseteq Entries
  BY DEF ConfigInv
<1>4. status # "defaults"
  BY DEF ConfigInv, Undefined
<1>5. DOMAIN doc \cap Code = {} /\ config[p] # FromCmdline(p)
  BY <1>3, SourcesApart
<1>6. Winner(config[p], p, DOMAIN doc)
  BY <1>4, <1>5 DEF ConfigInv
<1>7. Chosen(config[p], p, DOMAIN doc)
  BY <1>2, <1>5, <1>6, WinnerChosen
<1> QED
  BY <1>2, <1>3, <1>7

LEMMA IsolationFollows == ConfigInv => ScopesIsolated
<1> SUFFICES ASSUME ConfigInv, NEW p \in DOMAIN config, config[p] \in DOMAIN doc
             PROVE  IsPrefix(Scope(config[p]), p)
  BY DEF ScopesIsolated
<1> DEFINE f == config[p]
           d == DOMAIN doc
<1>1. PICK k \in 0..Len(Index) : p \in Leaves(k)
  BY GivenByDocument
<1>2. p \in Seq(Key)
  BY <1>1, LeafKeys
<1>3. f \in Seq(Key) /\ Chosen(f, p, d)
  BY GivenByDocument, SourcesApart
<1> SUFFICES IsPrefix(Scope(f), p)
  OBVIOUS
<1> HIDE DEF f, d
<1>4. ASSUME NEW n \in Nat, ScopeIs(f, n), n <= Len(p),
             \A i \in 1..n : f[i] = p[i]
      PROVE  IsPrefix(Scope(f), p)
  BY <1>2, <1>3, <1>4, ScopePrefix
<1>5. CASE f = p
  <2>1. PICK n \in 0..Len(f) : ScopeIs(f, n)
    BY <1>3, ScopeParts
  <2>2. n \in Nat /\ n <= Len(p)
    BY <1>2, <1>5, LenProperties
  <2> QED
    BY <1>4, <1>5, <2>1, <2>2
<1>6. CASE /\ p = <<"primary", "cl-device-name">>
           /\ f = <<":worker_config", "cl-device-name">>
  <2>1. ":worker_config" \in Classes
    BY DEF Classes
  <2>2. ScopeIs(f, 0)
    BY <1>6, <2>1, NamedKeys, ScopeTuples
  <2>3. 0 \in Nat /\ 0 <= Len(p) /\ 1..0 = {}
    BY <1>2, LenProperties
  <2> QED
    BY <1>4, <2>2, <2>3
<1>7. CASE ChosenForThread(f, p, d)
  <2>1. PICK n \in 0..2 :
           ScopeIs(f, n) /\ n <= Len(p) /\ \A i \in 1..n : f[i] = p[i]
    BY <1>7, ThreadChosenScope
  <2> QED
    BY <1>4, <2>1
<1>8. CASE ChosenForElement(f, p, d)
  <2>1. PICK n \in 0..3 :
           ScopeIs(f, n) /\ n <= Len(p) /\ \A i \in 1..n : f[i] = p[i]
    BY <1>8, ElementChosenScope
  <2> QED
    BY <1>4, <2>1
<1> QED
  BY <1>3, <1>5, <1>6, <1>7, <1>8 DEF Chosen

\* An entry e that overrides the same as f, in a scope further inside around
\* p, with n keys; p[i] is the object.
Further(e, f, p, m, n, i) ==
    /\ m < n /\ n < i /\ i <= Len(p)
    /\ Len(e) = n + (Len(f) - m) /\ m < Len(f)
    /\ \A j \in 1..n : e[j] = p[j]
    /\ \A j \in 1..Len(f) - m : e[n + j] = f[m + j]
    /\ p[i] \in Named(f[m + 1]) /\ f[m + 1] \in Classes
    /\ e[n] \notin Range(Index)

LEMMA FurtherInside ==
  ASSUME NEW e \in Seq(Key), NEW f \in Seq(Key), NEW p \in Seq(Key),
         NEW m \in 0..Len(f), ScopeIs(f, m), OfClass(f),
         FromScope(e) = FromScope(f), IsStrictPrefix(Scope(f), Scope(e)),
         IsPrefix(Scope(e), p), Last(Scope(e)) \notin Range(Index),
         NEW i \in Len(Scope(e)) + 1..Len(p), p[i] \in Named(Head(FromScope(e)))
  PROVE  \E n \in Nat : Further(e, f, p, m, n, i)
<1>1. Len(e) \in Nat /\ Len(f) \in Nat /\ Len(p) \in Nat
  BY LenProperties
<1>2. PICK n \in 0..Len(e) : ScopeIs(e, n)
  BY ScopeParts
<1> DEFINE s == Scope(e)
           t == Scope(f)
           g == FromScope(f)
<1>3. /\ s \in Seq(Key) /\ Len(s) = n /\ \A j \in 1..n : s[j] = e[j]
      /\ t \in Seq(Key) /\ Len(t) = m /\ \A j \in 1..m : t[j] = f[j]
      /\ g \in Seq(Key) /\ Len(g) = Len(f) - m
      /\ \A j \in 1..Len(f) - m : g[j] = f[m + j]
      /\ Len(g) = Len(e) - n
      /\ \A j \in 1..Len(e) - n : g[j] = e[n + j]
      /\ m < Len(f) /\ f[m + 1] \in Classes
  BY <1>2 DEF ScopeIs
<1>4. m \in Nat /\ n \in Nat /\ Len(e) = n + (Len(f) - m)
  <2>1. m \in Nat /\ n \in Nat
    BY <1>1
  <2>2. Len(f) - m = Len(e) - n
    BY <1>3
  <2> HIDE DEF s, t, g
  <2> QED
    BY <1>1, <2>1, <2>2
<1>5. m < n
  <2>1. IsPrefix(t, s) /\ t # s
    BY DEF IsStrictPrefix
  <2> HIDE DEF s, t
  <2>2. Len(t) <= Len(s) /\ \A j \in 1..Len(t) : t[j] = s[j]
    BY <1>3, <2>1, PrefixAgrees
  <2>3. Len(t) # Len(s)
    BY <1>3, <2>1, <2>2, SeqEqual
  <2> QED
    BY <1>3, <1>4, <2>2, <2>3
<1>6. Len(s) <= Len(p) /\ \A j \in 1..Len(s) : s[j] = p[j]
  BY <1>3, PrefixAgrees
<1>7. n < i /\ i <= Len(p)
  BY <1>1, <1>3, <1>4
<1>8. Head(g) = f[m + 1]
  <2>1. 1 \in 1..Len(f) - m
    BY <1>1, <1>3, <1>4
  <2>2. Head(g) = g[1]
    <3> HIDE DEF g
    <3>1. g # << >>
      BY <1>3, <2>1, EmptySeq
    <3> QED
      BY <1>3, <3>1, Unprefixed
  <2> QED
    BY <1>3, <2>1, <2>2
<1>9. p[i] \in Named(f[m + 1])
  BY <1>8
<1>10. e[n] \notin Range(Index)
  <2>1. n \in 1..n
    BY <1>4, <1>5
  <2> QED
    BY <1>3, <2>1 DEF Last
<1>11. \A j \in 1..n : e[j] = p[j]
  BY <1>3, <1>6
<1>12. \A j \in 1..Len(f) - m : e[n + j] = f[m + j]
  <2>1. Len(f) - m = Len(e) - n
    BY <1>3
  <2> QED
    BY <1>3, <2>1
<1>13. Further(e, f, p, m, n, i)
  BY <1>3, <1>4, <1>5, <1>7, <1>9, <1>10, <1>11, <1>12 DEF Further
<1> QED
  BY <1>4, <1>13

LEMMA NamedAre ==
  /\ Named(":worker_config") = {"workers", "primary"}
  /\ Named(":thread_config") = Threads
  /\ Named(":cpu_set") = {"affinity"}
  /\ \A c \in Classes : /\ "cl-device-name" \notin Named(c)
                        /\ \A i \in 1..Len(Index) : Index[i] \notin Named(c)
                        /\ "affinity" \in Named(c) => c = ":cpu_set"
                        /\ \A r \in Threads : r \in Named(c) => c
                              = ":thread_config"
                        /\ "primary" \in Named(c) => c = ":worker_config"
                        /\ "workers" \in Named(c) => c = ":worker_config"
<1>1. /\ Named(":worker_config") = {"workers", "primary"}
      /\ Named(":thread_config") = Threads
      /\ Named(":cpu_set") = {"affinity"}
  BY DEF Named, Threads
<1>2. \A c \in Classes : Named(c) \subseteq Attributes
  BY <1>1 DEF Classes, Threads, Attributes
<1>3. \A i \in 1..Len(Index) : Index[i] \notin Attributes
  BY KeysApart
<1> QED
  BY <1>1, <1>2, <1>3 DEF Classes, Threads

LEMMA FurtherThread ==
  ASSUME NEW d, NEW e \in d, e \in Seq(Key), NEW f, NEW p,
         ChosenForThread(f, p, d), NEW m \in 0..Len(f), ScopeIs(f, m),
         NEW n \in Nat, NEW i \in Nat, Further(e, f, p, m, n, i)
  PROVE  FALSE
<1>1. PICK r \in Threads :
       /\ p = <<"primary", r, "affinity">>
       /\ \/ f = <<"primary", r, ":cpu_set">>
          \/ f = <<"primary", ":cpu_set">> /\ <<"primary", r,
                ":cpu_set">> \notin d
          \/ /\ f = <<":cpu_set">>
             /\ <<"primary", r, ":cpu_set">> \notin d
             /\ <<"primary", ":cpu_set">> \notin d
          \/ f = <<"primary", ":thread_config", "affinity">>
          \/ /\ f = <<":thread_config", "affinity">>
             /\ <<"primary", ":thread_config", "affinity">> \notin d
          \/ f = <<":worker_config", r, "affinity">>
          \/ f = <<":worker_config", r, ":cpu_set">>
  BY DEF ChosenForThread
<1>2. Len(p) = 3 /\ p[1] = "primary" /\ p[2] = r /\ p[3] = "affinity"
  BY <1>1
<1>3. /\ ":cpu_set" \in Classes /\ ":thread_config" \in Classes
      /\ ":worker_config" \in Classes
      /\ \A c \in Classes : c \in Key
      /\ "primary" \in Key /\ r \in Key /\ "affinity" \in Key
  BY Literals DEF Classes, Attributes
<1>4. /\ m < n /\ n < i /\ i <= 3 /\ m \in Nat
      /\ Len(e) = n + (Len(f) - m) /\ m < Len(f)
      /\ \A j \in 1..n : e[j] = p[j]
      /\ \A j \in 1..Len(f) - m : e[n + j] = f[m + j]
      /\ p[i] \in Named(f[m + 1]) /\ f[m + 1] \in Classes
  BY <1>2 DEF Further
<1>5. ASSUME NEW k \in Nat, ScopeIs(f, k)
      PROVE  m = k
  BY <1>5 DEF ScopeIs
<1>6. \/ i = 2 /\ n = 1 /\ m = 0 /\ f[m + 1] = ":thread_config"
      \/ i = 3 /\ n \in {1, 2} /\ f[m + 1] = ":cpu_set"
  <2>1. i = 2 \/ i = 3
    BY <1>4
  <2>2. CASE i = 2
    BY <1>2, <1>4, <2>2, NamedAre
  <2>3. CASE i = 3
    BY <1>2, <1>4, <2>3, NamedAre
  <2> QED
    BY <2>1, <2>2, <2>3
<1>7. CASE f = <<"primary", r, ":cpu_set">>
  <2>1. m = 2
    BY <1>3, <1>5, <1>7, NamedKeys, ScopeTuples
  <2> QED
    BY <1>4, <2>1
<1>8. CASE f = <<"primary", ":cpu_set">> /\ <<"primary", r,
              ":cpu_set">> \notin d
  <2>1. m = 1
    BY <1>3, <1>5, <1>8, NamedKeys, ScopeTuples
  <2>2. n = 2 /\ Len(f) = 2 /\ f[2] = ":cpu_set"
    BY <1>4, <1>6, <1>8, <2>1
  <2>3. Len(e) = 3 /\ e[1] = "primary" /\ e[2] = r /\ e[3] = ":cpu_set"
    <3>1. 1 \in 1..n /\ 2 \in 1..n /\ 1 \in 1..Len(f) - m /\ n + 1 = 3 /\ m + 1
             = 2
      BY <2>1, <2>2
    <3> QED
      BY <1>2, <1>4, <2>1, <2>2, <3>1
  <2>4. e = <<"primary", r, ":cpu_set">>
    BY <1>3, <2>3, TupleIs
  <2> QED
    BY <1>8, <2>4
<1>9. CASE /\ f = <<":cpu_set">>
           /\ <<"primary", r, ":cpu_set">> \notin d
           /\ <<"primary", ":cpu_set">> \notin d
  <2>1. m = 0
    BY <1>3, <1>5, <1>9, NamedKeys, ScopeTuples
  <2>2. Len(f) = 1 /\ f[1] = ":cpu_set"
    BY <1>9
  <2>3. n = 1 \/ n = 2
    BY <1>6
  <2>4. CASE n = 1
    <3>1. 1 \in 1..n /\ 1 \in 1..Len(f) - m /\ n + 1 = 2 /\ m + 1 = 1
      BY <2>1, <2>2, <2>4
    <3>2. Len(e) = 2 /\ e[1] = "primary" /\ e[2] = ":cpu_set"
      BY <1>2, <1>4, <2>1, <2>2, <2>4, <3>1
    <3>3. e = <<"primary", ":cpu_set">>
      BY <1>3, <3>2, TupleIs
    <3> QED
      BY <1>9, <3>3
  <2>5. CASE n = 2
    <3>1. 1 \in 1..n /\ 2 \in 1..n /\ 1 \in 1..Len(f) - m /\ n + 1 = 3 /\ m + 1
             = 1
      BY <2>1, <2>2, <2>5
    <3>2. Len(e) = 3 /\ e[1] = "primary" /\ e[2] = r /\ e[3] = ":cpu_set"
      BY <1>2, <1>4, <2>1, <2>2, <2>5, <3>1
    <3>3. e = <<"primary", r, ":cpu_set">>
      BY <1>3, <3>2, TupleIs
    <3> QED
      BY <1>9, <3>3
  <2> QED
    BY <2>3, <2>4, <2>5
<1>10. CASE f = <<"primary", ":thread_config", "affinity">>
  <2>1. m = 1
    BY <1>3, <1>5, <1>10, NamedKeys, ScopeTuples
  <2>2. f[2] = ":thread_config" /\ m + 1 = 2
    BY <1>10, <2>1
  <2> QED
    BY <1>6, <2>1, <2>2
<1>11. CASE /\ f = <<":thread_config", "affinity">>
            /\ <<"primary", ":thread_config", "affinity">> \notin d
  <2>1. m = 0
    BY <1>3, <1>5, <1>11, NamedKeys, ScopeTuples
  <2>2. Len(f) = 2 /\ f[1] = ":thread_config" /\ f[2] = "affinity"
    BY <1>11
  <2>3. n = 1
    BY <1>6, <2>1, <2>2
  <2>4. 1 \in 1..n /\ 1 \in 1..Len(f) - m /\ 2 \in 1..Len(f) - m
        /\ n + 1 = 2 /\ n + 2 = 3 /\ m + 1 = 1 /\ m + 2 = 2
    BY <2>1, <2>2, <2>3
  <2>5. Len(e) = 3 /\ e[1] = "primary" /\ e[2] = ":thread_config"
        /\ e[3] = "affinity"
    BY <1>2, <1>4, <2>1, <2>2, <2>3, <2>4
  <2>6. e = <<"primary", ":thread_config", "affinity">>
    BY <1>3, <2>5, TupleIs
  <2> QED
    BY <1>11, <2>6
<1>12. ASSUME f[1] = ":worker_config", ScopeIs(f, 0)
       PROVE  FALSE
  <2>1. m = 0 /\ m + 1 = 1
    BY <1>5, <1>12
  <2> QED
    BY <1>6, <1>12, <2>1
<1>13. CASE f = <<":worker_config", r, "affinity">>
  <2>1. ScopeIs(f, 0) /\ f[1] = ":worker_config"
    BY <1>3, <1>13, NamedKeys, ScopeTuples
  <2> QED
    BY <1>12, <2>1
<1>14. CASE f = <<":worker_config", r, ":cpu_set">>
  <2>1. ScopeIs(f, 0) /\ f[1] = ":worker_config"
    BY <1>3, <1>14, NamedKeys, ScopeTuples
  <2> QED
    BY <1>12, <2>1
<1> QED
  BY <1>1, <1>7, <1>8, <1>9, <1>10, <1>11, <1>13, <1>14

LEMMA FurtherElement ==
  ASSUME NEW d, NEW e \in d, e \in Seq(Key), WellFormed("program_config", e),
         NEW f, NEW p, ChosenForElement(f, p, d),
         NEW m \in 0..Len(f), ScopeIs(f, m),
         NEW n \in Nat, NEW i \in Nat, Further(e, f, p, m, n, i)
  PROVE  FALSE
<1>1. PICK k \in 1..Len(Index), r \in Threads :
       /\ p = <<"workers", Index[k], r, "affinity">>
       /\ \/ f = <<"workers", Index[k], r, ":cpu_set">>
          \/ /\ f = <<":cpu_set">>
             /\ <<"workers", Index[k], r, ":cpu_set">> \notin d
          \/ f = <<":thread_config", "affinity">>
  BY DEF ChosenForElement
<1>2. Len(p) = 4 /\ p[1] = "workers" /\ p[2] = Index[k] /\ p[3] = r
      /\ p[4] = "affinity"
  BY <1>1
<1>3. /\ ":cpu_set" \in Classes /\ ":thread_config" \in Classes
      /\ \A c \in Classes : c \in Key
      /\ "workers" \in Key /\ r \in Key /\ Index[k] \in Key
      /\ Index[k] \in Range(Index)
  BY Literals, KeysApart DEF Classes, Attributes
<1>4. /\ m < n /\ n < i /\ i <= 4 /\ m \in Nat
      /\ Len(e) = n + (Len(f) - m) /\ m < Len(f)
      /\ \A j \in 1..n : e[j] = p[j]
      /\ \A j \in 1..Len(f) - m : e[n + j] = f[m + j]
      /\ p[i] \in Named(f[m + 1]) /\ f[m + 1] \in Classes
      /\ e[n] \notin Range(Index)
  BY <1>2 DEF Further
<1>5. ASSUME NEW q \in Nat, ScopeIs(f, q)
      PROVE  m = q
  BY <1>5 DEF ScopeIs
<1>6. n # 1
  <2> SUFFICES ASSUME n = 1
               PROVE  FALSE
    OBVIOUS
  <2>1. Len(f) \in Nat
    BY <1>4
  <2>2. 1 \in 1..n /\ 1 \in 1..Len(f) - m /\ n + 1 = 2
    BY <1>4, <2>1
  <2>3. e[1] = "workers" /\ e[2] = f[m + 1]
    BY <1>2, <1>4, <2>2
  <2>4. e[2] \in Range(Index) /\ e[2] \in Classes
    BY <1>4, <2>3, WorkersEntry
  <2> QED
    BY <2>4, ConfigObjectAssumption
<1>7. n # 2
  <2> SUFFICES ASSUME n = 2
               PROVE  FALSE
    OBVIOUS
  <2>1. 2 \in 1..n
    OBVIOUS
  <2>2. e[2] = Index[k]
    BY <1>2, <1>4, <2>1
  <2> QED
    BY <1>3, <1>4, <2>2
<1>8. n = 3 /\ i = 4 /\ f[m + 1] = ":cpu_set"
  <2>1. n = 3 /\ i = 4
    BY <1>4, <1>6, <1>7
  <2> QED
    BY <1>2, <1>4, <2>1, NamedAre
<1>9. CASE f = <<"workers", Index[k], r, ":cpu_set">>
  <2>1. m = 3
    BY <1>3, <1>5, <1>9, NamedKeys, ScopeTuples
  <2> QED
    BY <1>4, <1>8, <2>1
<1>10. CASE f = <<":cpu_set">> /\ <<"workers", Index[k], r,
               ":cpu_set">> \notin d
  <2>1. m = 0
    BY <1>3, <1>5, <1>10, NamedKeys, ScopeTuples
  <2>2. Len(f) = 1 /\ f[1] = ":cpu_set"
    BY <1>10
  <2>3. 1 \in 1..n /\ 2 \in 1..n /\ 3 \in 1..n /\ 1 \in 1..Len(f) - m
        /\ n + 1 = 4 /\ m + 1 = 1
    BY <1>8, <2>1, <2>2
  <2>4. Len(e) = 4 /\ e[1] = "workers" /\ e[2] = Index[k] /\ e[3] = r
        /\ e[4] = ":cpu_set"
    BY <1>2, <1>4, <1>8, <2>1, <2>2, <2>3
  <2>5. e = <<"workers", Index[k], r, ":cpu_set">>
    BY <1>3, <2>4, TupleIs
  <2> QED
    BY <1>10, <2>5
<1>11. CASE f = <<":thread_config", "affinity">>
  <2>1. m = 0
    BY <1>3, <1>5, <1>11, NamedKeys, ScopeTuples
  <2>2. f[1] = ":thread_config" /\ m + 1 = 1
    BY <1>11, <2>1
  <2> QED
    BY <1>8, <2>2
<1> QED
  BY <1>1, <1>9, <1>10, <1>11

LEMMA InnermostFollows == ConfigInv => InnermostScopeWins
<1> SUFFICES ASSUME ConfigInv, NEW p \in DOMAIN config,
                    config[p] \in DOMAIN doc, OfClass(config[p]),
                    NEW e \in DOMAIN doc,
                    FromScope(e) = FromScope(config[p]),
                    IsStrictPrefix(Scope(config[p]), Scope(e)),
                    IsPrefix(Scope(e), p), Last(Scope(e)) \notin Range(Index),
                    NEW i \in Len(Scope(e)) + 1..Len(p),
                    p[i] \in Named(Head(FromScope(e)))
             PROVE  FALSE
  BY DEF InnermostScopeWins
<1> DEFINE f == config[p]
           d == DOMAIN doc
<1>1. PICK k \in 0..Len(Index) : p \in Leaves(k)
  BY GivenByDocument
<1>2. p \in Seq(Key) /\ Len(p) \in Nat
  BY <1>1, LeafKeys, LenProperties
<1>3. f \in Seq(Key) /\ Chosen(f, p, d)
  BY GivenByDocument, SourcesApart
<1>4. e \in d /\ e \in Seq(Key) /\ WellFormed("program_config", e)
  BY SourcesApart DEF ConfigInv
<1>5. PICK m \in 0..Len(f) : ScopeIs(f, m)
  BY <1>3, ScopeParts
<1>6. PICK n \in Nat : Further(e, f, p, m, n, i)
  BY <1>2, <1>3, <1>4, <1>5, FurtherInside
<1>7. i \in Nat
  <2>1. Scope(e) \in Seq(Key)
    <3>1. PICK q \in 0..Len(e) : ScopeIs(e, q)
      BY <1>4, ScopeParts
    <3> QED
      BY <3>1 DEF ScopeIs
  <2>2. Len(Scope(e)) \in Nat
    BY <2>1, LenProperties
  <2> QED
    BY <1>2, <2>2
<1>8. OfClass(f)
  OBVIOUS
<1> HIDE DEF f, d
<1>9. CASE f = p
  <2>1. m < Len(f) /\ \A j \in 1..m : f[j] \notin Classes
    BY <1>5, <1>8 DEF ScopeIs
  <2>2. f[m + 1] \in Classes
    BY <1>6 DEF Further
  <2>3. \A j \in 1..Len(p) : p[j] \notin Classes
    <3>1. CASE p = <<"primary", "cl-device-name">>
      BY <3>1, NamedKeys
    <3>2. ASSUME NEW r \in Threads, p = <<"primary", r, "affinity">>
          PROVE  \A j \in 1..Len(p) : p[j] \notin Classes
      BY <3>2, NamedKeys
    <3>3. ASSUME NEW l \in 1..Len(Index),
                 p = <<"workers", Index[l], "cl-device-name">>
          PROVE  \A j \in 1..Len(p) : p[j] \notin Classes
      BY <3>3, NamedKeys
    <3>4. ASSUME NEW l \in 1..Len(Index), NEW r \in Threads,
                 p = <<"workers", Index[l], r, "affinity">>
          PROVE  \A j \in 1..Len(p) : p[j] \notin Classes
      BY <3>4, NamedKeys
    <3> QED
      BY <1>1, <3>1, <3>2, <3>3, <3>4, LeafKinds
  <2>4. m + 1 \in 1..Len(p)
    BY <1>2, <1>9, <2>1
  <2> QED
    BY <1>9, <2>2, <2>3, <2>4
<1>10. CASE p = <<"primary", "cl-device-name">>
  <2>1. /\ m < n /\ n < i /\ i <= 2 /\ m \in Nat
        /\ p[i] \in Named(f[m + 1]) /\ f[m + 1] \in Classes
    <3>1. Len(p) = 2
      BY <1>10
    <3> QED
      BY <1>5, <1>6, <3>1 DEF Further
  <2>2. i = 2
    BY <1>7, <2>1
  <2>3. p[2] = "cl-device-name"
    BY <1>10
  <2> QED
    BY <2>1, <2>2, <2>3, NamedAre
<1>11. CASE ChosenForThread(f, p, d)
  BY <1>4, <1>5, <1>6, <1>7, <1>11, FurtherThread
<1>12. CASE ChosenForElement(f, p, d)
  BY <1>4, <1>5, <1>6, <1>7, <1>12, FurtherElement
<1> QED
  BY <1>3, <1>9, <1>10, <1>11, <1>12 DEF Chosen
-----------------------------------------------------------------------------
(* The class overrides of the outermost level.                             *)

\* The entry e overrides the class of an object around p, n keys inside p.
Reaches(e, p, n) ==
    /\ n \in Nat /\ Len(e) \in Nat \ {0} /\ n + Len(e) = Len(p)
    /\ e[1] \in Classes /\ p[n + 1] \in Named(e[1])
    /\ \A j \in 2..Len(e) : e[j] = p[n + j]

LEMMA ClassReaches ==
  ASSUME NEW e \in Seq(Key), NEW p \in Seq(Key), e # << >>,
         IsClassKey(Head(e)), Len(e) <= Len(p),
         Tail(e) = SubSeq(p, Len(p) - Len(e) + 2, Len(p)),
         p[Len(p) - Len(e) + 1] \in Named(Head(e))
  PROVE  \E n \in Nat : Reaches(e, p, n)
<1> DEFINE n == Len(p) - Len(e)
           t == Tail(e)
<1>1. Len(e) \in Nat /\ Len(p) \in Nat
  BY LenProperties
<1>2. Len(e) # 0
  BY EmptySeq
<1>3. Head(e) = e[1]
  BY Unprefixed
<1>4. Len(t) = Len(e) - 1 /\ \A i \in 1..Len(t) : t[i] = e[i + 1]
  BY HeadTailProperties
<1>5. n \in Nat /\ n + Len(e) = Len(p)
  BY <1>1
<1>6. t = SubSeq(p, n + 2, Len(p)) /\ p[n + 1] \in Named(e[1])
      /\ e[1] \in Classes
  BY <1>3 DEF IsClassKey
<1> HIDE DEF n, t
<1>7. n + 2 \in Int /\ Len(p) \in Int /\ \A i \in n + 2..Len(p) : p[i] \in Key
  <2>1. \A i \in n + 2..Len(p) : i \in 1..Len(p)
    BY <1>1, <1>5
  <2> QED
    BY <1>1, <1>5, <2>1, ElementOfSeq
<1>8. \A i \in 1..Len(p) - (n + 2) + 1 : t[i] = p[n + 2 + i - 1]
  BY <1>6, <1>7, SubSeqProperties
<1>9. ASSUME NEW j \in 2..Len(e)
      PROVE  e[j] = p[n + j]
  <2>1. /\ j - 1 \in 1..Len(t) /\ (j - 1) + 1 = j
        /\ j - 1 \in 1..Len(p) - (n + 2) + 1
        /\ n + 2 + (j - 1) - 1 = n + j
    BY <1>1, <1>4, <1>5
  <2>2. t[j - 1] = e[j]
    BY <1>4, <2>1
  <2>3. t[j - 1] = p[n + 2 + (j - 1) - 1]
    BY <1>8, <2>1
  <2> QED
    BY <2>1, <2>2, <2>3
<1> QED
  BY <1>1, <1>2, <1>5, <1>6, <1>9 DEF Reaches

\* No override of a class of workers has the key of an element.
LEMMA WorkerClassEntry ==
  ASSUME NEW e \in Seq(Key), WellFormed("program_config", e), 2 <= Len(e),
         e[1] = ":worker_config"
  PROVE  \A i \in 1..Len(Index) : e[2] # Index[i]
<1>1. Len(e) \in Nat
  BY LenProperties
<1>2. 1 \in 0..Len(e) /\ 1 < Len(e) /\ 1 + 1 = 2
  BY <1>1
<1>3. TypeAt("program_config", e, 1) = "worker_config"
  BY Types DEF TypeAt
<1>4. e[2] \in KeysOf("worker_config")
  BY <1>2, <1>3, NextKey
<1>5. e[2] \in Attributes \cup Classes
  BY <1>4, KeysAre DEF Attributes, Threads
<1> QED
  BY <1>5, KeysApart

LEMMA Sums ==
  ASSUME NEW n \in Nat, NEW l \in Nat, l # 0
  PROVE  /\ n + l = 2 => \/ n = 1 /\ l = 1 /\ n + 1 = 2
                         \/ n = 0 /\ l = 2 /\ n + 1 = 1 /\ n + 2 = 2
         /\ n + l = 3 => \/ n = 2 /\ l = 1 /\ n + 1 = 3
                         \/ n = 1 /\ l = 2 /\ n + 1 = 2 /\ n + 2 = 3
                         \/ /\ n = 0 /\ l = 3
                            /\ n + 1 = 1 /\ n + 2 = 2 /\ n + 3 = 3
         /\ n + l = 4 => \/ n = 3 /\ l = 1 /\ n + 1 = 4
                         \/ n = 2 /\ l = 2 /\ n + 1 = 3 /\ n + 2 = 4
                         \/ n = 1 /\ l = 3 /\ n + 1 = 2
                         \/ n = 0 /\ l = 4 /\ n + 1 = 1 /\ n + 2 = 2
<1>1. n + l = 2 => (n = 1 /\ l = 1) \/ (n = 0 /\ l = 2)
  OBVIOUS
<1>2. n + l = 3 => (n = 2 /\ l = 1) \/ (n = 1 /\ l = 2) \/ (n = 0 /\ l = 3)
  OBVIOUS
<1>3. n + l = 4 => \/ n = 3 /\ l = 1
                   \/ n = 2 /\ l = 2
                   \/ n = 1 /\ l = 3
                   \/ n = 0 /\ l = 4
  OBVIOUS
<1> QED
  BY <1>1, <1>2, <1>3

LEMMA ReachesThread ==
  ASSUME NEW e \in Seq(Key), NEW r \in Threads, NEW p,
         p = <<"primary", r, "affinity">>, NEW n \in Nat, Reaches(e, p, n)
  PROVE  \/ e = <<":cpu_set">>
         \/ e = <<":thread_config", "affinity">>
         \/ e = <<":worker_config", r, "affinity">>
<1>1. Len(p) = 3 /\ p[1] = "primary" /\ p[2] = r /\ p[3] = "affinity"
  OBVIOUS
<1>2. /\ ":cpu_set" \in Classes /\ ":thread_config" \in Classes
      /\ ":worker_config" \in Classes
      /\ \A c \in Classes : c \in Key
      /\ r \in Key /\ "affinity" \in Key
  BY Literals DEF Classes, Attributes
<1>3. /\ Len(e) \in Nat \ {0} /\ n + Len(e) = 3
      /\ e[1] \in Classes /\ p[n + 1] \in Named(e[1])
      /\ \A j \in 2..Len(e) : e[j] = p[n + j]
  BY <1>1 DEF Reaches
<1>4. \/ n = 2 /\ Len(e) = 1 /\ n + 1 = 3
      \/ n = 1 /\ Len(e) = 2 /\ n + 1 = 2 /\ n + 2 = 3
      \/ n = 0 /\ Len(e) = 3 /\ n + 1 = 1 /\ n + 2 = 2 /\ n + 3 = 3
  <2>1. n + Len(e) = 3 /\ Len(e) \in Nat /\ Len(e) # 0
    BY <1>3
  <2> QED
    BY <2>1, Sums
<1>5. CASE n = 2 /\ Len(e) = 1 /\ n + 1 = 3
  <2>1. e[1] = ":cpu_set"
    BY <1>1, <1>3, <1>5, NamedAre
  <2> QED
    BY <1>2, <1>5, <2>1, TupleIs
<1>6. CASE n = 1 /\ Len(e) = 2 /\ n + 1 = 2 /\ n + 2 = 3
  <2>1. e[1] = ":thread_config"
    BY <1>1, <1>3, <1>6, NamedAre
  <2>2. e[2] = "affinity"
    BY <1>1, <1>3, <1>6
  <2> QED
    BY <1>2, <1>6, <2>1, <2>2, TupleIs
<1>7. CASE n = 0 /\ Len(e) = 3 /\ n + 1 = 1 /\ n + 2 = 2 /\ n + 3 = 3
  <2>1. e[1] = ":worker_config"
    BY <1>1, <1>3, <1>7, NamedAre
  <2>2. 2 \in 2..Len(e) /\ 3 \in 2..Len(e)
    BY <1>7
  <2>3. e[2] = r /\ e[3] = "affinity"
    BY <1>1, <1>3, <1>7, <2>2
  <2> QED
    BY <1>2, <1>7, <2>1, <2>3, TupleIs
<1> QED
  BY <1>4, <1>5, <1>6, <1>7

LEMMA ReachesElementThread ==
  ASSUME NEW e \in Seq(Key), WellFormed("program_config", e),
         NEW i \in 1..Len(Index), NEW r \in Threads, NEW p,
         p = <<"workers", Index[i], r, "affinity">>,
         NEW n \in Nat, Reaches(e, p, n)
  PROVE  e = <<":cpu_set">> \/ e = <<":thread_config", "affinity">>
<1>1. Len(p) = 4 /\ p[1] = "workers" /\ p[2] = Index[i] /\ p[3] = r
      /\ p[4] = "affinity"
  OBVIOUS
<1>2. /\ ":cpu_set" \in Classes /\ ":thread_config" \in Classes
      /\ \A c \in Classes : c \in Key
      /\ "affinity" \in Key
  BY Literals DEF Classes, Attributes
<1>3. /\ Len(e) \in Nat \ {0} /\ n + Len(e) = 4
      /\ e[1] \in Classes /\ p[n + 1] \in Named(e[1])
      /\ \A j \in 2..Len(e) : e[j] = p[n + j]
  BY <1>1 DEF Reaches
<1>4. \/ n = 3 /\ Len(e) = 1 /\ n + 1 = 4
      \/ n = 2 /\ Len(e) = 2 /\ n + 1 = 3 /\ n + 2 = 4
      \/ n = 1 /\ Len(e) = 3 /\ n + 1 = 2
      \/ n = 0 /\ Len(e) = 4 /\ n + 1 = 1 /\ n + 2 = 2
  <2>1. n + Len(e) = 4 /\ Len(e) \in Nat /\ Len(e) # 0
    BY <1>3
  <2> QED
    BY <2>1, Sums
<1>5. CASE n = 3 /\ Len(e) = 1 /\ n + 1 = 4
  <2>1. e[1] = ":cpu_set"
    BY <1>1, <1>3, <1>5, NamedAre
  <2> QED
    BY <1>2, <1>5, <2>1, TupleIs
<1>6. CASE n = 2 /\ Len(e) = 2 /\ n + 1 = 3 /\ n + 2 = 4
  <2>1. e[1] = ":thread_config"
    BY <1>1, <1>3, <1>6, NamedAre
  <2>2. e[2] = "affinity"
    BY <1>1, <1>3, <1>6
  <2> QED
    BY <1>2, <1>6, <2>1, <2>2, TupleIs
<1>7. CASE n = 1 /\ Len(e) = 3 /\ n + 1 = 2
  BY <1>1, <1>3, <1>7, NamedAre
<1>8. CASE n = 0 /\ Len(e) = 4 /\ n + 1 = 1 /\ n + 2 = 2
  <2>1. e[1] = ":worker_config"
    BY <1>1, <1>3, <1>8, NamedAre
  <2>2. 2 \in 2..Len(e) /\ 2 <= Len(e)
    BY <1>8
  <2>3. e[2] = Index[i]
    BY <1>1, <1>3, <1>8, <2>2
  <2> QED
    BY <2>1, <2>2, <2>3, WorkerClassEntry
<1> QED
  BY <1>4, <1>5, <1>6, <1>7, <1>8

LEMMA ReachesName ==
  ASSUME NEW e \in Seq(Key), WellFormed("program_config", e), NEW p,
         NEW n \in Nat, Reaches(e, p, n)
  PROVE  /\ p = <<"primary", "cl-device-name">> =>
               e = <<":worker_config", "cl-device-name">>
         /\ \A i \in 1..Len(Index) :
               p # <<"workers", Index[i], "cl-device-name">>
<1>1. /\ Len(e) \in Nat \ {0} /\ n + Len(e) = Len(p)
      /\ e[1] \in Classes /\ p[n + 1] \in Named(e[1])
      /\ \A j \in 2..Len(e) : e[j] = p[n + j]
  BY DEF Reaches
<1>2. /\ ":worker_config" \in Key /\ "cl-device-name" \in Key
  BY Literals DEF Classes, Attributes
<1>3. ASSUME p = <<"primary", "cl-device-name">>
      PROVE  e = <<":worker_config", "cl-device-name">>
  <2>1. Len(p) = 2 /\ p[1] = "primary" /\ p[2] = "cl-device-name"
    BY <1>3
  <2>2. \/ n = 1 /\ Len(e) = 1 /\ n + 1 = 2
        \/ n = 0 /\ Len(e) = 2 /\ n + 1 = 1 /\ n + 2 = 2
    <3>1. n + Len(e) = 2 /\ Len(e) \in Nat /\ Len(e) # 0
      BY <1>1, <2>1
    <3> QED
      BY <3>1, Sums
  <2>3. CASE n = 1 /\ Len(e) = 1 /\ n + 1 = 2
    BY <1>1, <2>1, <2>3, NamedAre
  <2>4. CASE n = 0 /\ Len(e) = 2 /\ n + 1 = 1 /\ n + 2 = 2
    <3>1. e[1] = ":worker_config" /\ e[2] = "cl-device-name"
      BY <1>1, <2>1, <2>4, NamedAre
    <3> QED
      BY <1>2, <2>4, <3>1, TupleIs
  <2> QED
    BY <2>2, <2>3, <2>4
<1>4. ASSUME NEW i \in 1..Len(Index),
             p = <<"workers", Index[i], "cl-device-name">>
      PROVE  FALSE
  <2>1. Len(p) = 3 /\ p[1] = "workers" /\ p[2] = Index[i]
        /\ p[3] = "cl-device-name"
    BY <1>4
  <2>2. \/ n = 2 /\ n + 1 = 3
        \/ n = 1 /\ n + 1 = 2
        \/ n = 0 /\ Len(e) = 3 /\ n + 1 = 1 /\ n + 2 = 2
    <3>1. n + Len(e) = 3 /\ Len(e) \in Nat /\ Len(e) # 0
      BY <1>1, <2>1
    <3> QED
      BY <3>1, Sums
  <2>3. CASE n = 2 /\ n + 1 = 3
    BY <1>1, <2>1, <2>3, NamedAre
  <2>4. CASE n = 1 /\ n + 1 = 2
    BY <1>1, <2>1, <2>4, NamedAre
  <2>5. CASE n = 0 /\ Len(e) = 3 /\ n + 1 = 1 /\ n + 2 = 2
    <3>1. e[1] = ":worker_config"
      BY <1>1, <2>1, <2>5, NamedAre
    <3>2. 2 \in 2..Len(e) /\ 2 <= Len(e)
      BY <2>5
    <3>3. e[2] = Index[i]
      BY <1>1, <2>1, <2>5, <3>2
    <3> QED
      BY <3>1, <3>2, <3>3, WorkerClassEntry
  <2> QED
    BY <2>2, <2>3, <2>4, <2>5
<1> QED
  BY <1>3, <1>4

\* What the document says of a class decides over what the code says.
LEMMA WinnerReached ==
  ASSUME NEW d, NEW p, NEW v, Winner(v, p, d), NEW e \in d,
         e \in Seq(Key), WellFormed("program_config", e),
         NEW n \in Nat, Reaches(e, p, n),
         NEW k \in 0..Len(Index), p \in Leaves(k),
         p[1] = "workers" => p[2] \in Elements(d)
  PROVE  v \in d
<1>1. CASE p = <<"primary", "cl-device-name">>
  <2> DEFINE q == <<":worker_config", "cl-device-name">>
  <2>1. q \in d
    BY <1>1, ReachesName
  <2>2. PICK c \in Code : v = Of(d, p, Of(d, q, c))
    BY <1>1 DEF Winner
  <2> HIDE DEF q
  <2> QED
    BY <2>1, <2>2 DEF Of
<1>2. ASSUME NEW r \in Threads, p = <<"primary", r, "affinity">>
      PROVE  v \in d
  <2> DEFINE q1 == <<"primary", r, ":cpu_set">>
             q2 == <<"primary", ":cpu_set">>
             q3 == <<":cpu_set">>
             q4 == <<"primary", ":thread_config", "affinity">>
             q5 == <<":thread_config", "affinity">>
             q6 == <<":worker_config", r, "affinity">>
             q7 == <<":worker_config", r, ":cpu_set">>
  <2>1. PICK c \in Code :
           v = Of(d, p, Of(d, q1, Of(d, q2, Of(d, q3, Of(d, q4, Of(d, q5,
               Of(d, q6, Of(d, q7, c))))))))
    BY <1>2 DEF Winner
  <2>2. q3 \in d \/ q5 \in d \/ q6 \in d
    BY <1>2, ReachesThread
  <2> HIDE DEF q1, q2, q3, q4, q5, q6, q7
  <2> QED
    BY <2>1, <2>2 DEF Of
<1>3. ASSUME NEW i \in 1..Len(Index), NEW r \in Threads,
             p = <<"workers", Index[i], r, "affinity">>
      PROVE  v \in d
  <2> DEFINE q1 == <<"workers", Index[i], r, ":cpu_set">>
             q2 == <<":cpu_set">>
             q3 == <<":thread_config", "affinity">>
  <2>1. Index[i] \in Elements(d)
    <3>1. p[1] = "workers" /\ p[2] = Index[i]
      BY <1>3
    <3> QED
      BY <3>1
  <2>2. PICK c \in Code : v = Of(d, p, Of(d, q1, Of(d, q2, Of(d, q3, c))))
    BY <1>3, <2>1 DEF Winner
  <2>3. q2 \in d \/ q3 \in d
    BY <1>3, ReachesElementThread
  <2> HIDE DEF q1, q2, q3
  <2> QED
    BY <2>2, <2>3 DEF Of
<1> QED
  BY <1>1, <1>2, <1>3, LeafKinds, ReachesName

\* The elements that the document gives.
LEMMA GivenElement ==
  ASSUME NEW p \in Seq(Key), 2 <= Len(p), p[1] = "workers", p # << >>,
         DOMAIN doc \subseteq Seq(Key), InDocument(p)
  PROVE  p[2] \in Elements(DOMAIN doc)
<1> DEFINE s == SubSeq(p, 1, 2)
<1>1. Head(p) = "workers" /\ Len(p) \in Nat
  BY Unprefixed, LenProperties
<1>2. PICK e \in DOMAIN doc : IsPrefix(s, e)
  BY <1>1 DEF InDocument
<1>3. \A i \in 1..2 : p[i] \in Key
  BY <1>1, ElementOfSeq
<1>4. s \in Seq(Key) /\ Len(s) = (IF 1 <= 2 THEN 2 - 1 + 1 ELSE 0)
      /\ \A i \in 1..2 - 1 + 1 : s[i] = p[1 + i - 1]
  BY <1>3, SubSeqProperties
<1> HIDE DEF s
<1>5. Len(s) = 2 /\ s[1] = p[1] /\ s[2] = p[2]
  BY <1>4
<1>6. e[1] = "workers" /\ e[2] = p[2]
  <2>1. \A i \in 1..2 : s[i] = e[i]
    BY <1>2, <1>4, <1>5, PrefixAgrees
  <2>2. 1 \in 1..2 /\ 2 \in 1..2
    OBVIOUS
  <2> QED
    BY <1>5, <2>1, <2>2
<1> QED
  BY <1>6 DEF Elements

LEMMA ReachFollows == ConfigInv => ClassOverridesReach
<1> SUFFICES ASSUME ConfigInv, status # "defaults", NEW p \in DOMAIN config,
                    NEW e \in DOMAIN doc, OverridesClass(e, p),
                    ~IsElement(p, ObjectOf(e, p)), InDocument(p)
             PROVE  config[p] \notin Code
  BY DEF ClassOverridesReach, Code
<1> DEFINE d == DOMAIN doc
           v == config[p]
<1>1. PICK k \in 0..Len(Index) : Shaped(config, Leaves(k))
  BY DEF ConfigInv
<1>2. p \in Leaves(k)
  BY <1>1 DEF Shaped
<1>3. p \in Seq(Key) /\ p # << >> /\ Head(p) = p[1]
  BY <1>2, LeafKeys
<1>4. d \subseteq Entries /\ d \subseteq Seq(Key)
      /\ \A q \in d : WellFormed("program_config", q)
  BY SourcesApart DEF ConfigInv
<1>5. d \cap Code = {} /\ \A q : FromCmdline(q) \notin Code
  <2>1. \A q : Len(FromCmdline(q)) = 2
    BY DEF FromCmdline
  <2>2. Len(Default) = 1 /\ Len(FromCode) = 1
    BY DEF Default, FromCode
  <2>3. \A q : FromCmdline(q) \notin Code
    BY <2>1, <2>2 DEF Code
  <2> QED
    BY <1>4, <2>3, SourcesApart
<1>6. /\ e \in d /\ IsClassKey(Head(e)) /\ Len(e) <= Len(p)
      /\ Tail(e) = SubSeq(p, Len(p) - Len(e) + 2, Len(p))
      /\ p[Len(p) - Len(e) + 1] \in Named(Head(e))
  <2>1. /\ Tail(e) = SubSeq(p, ObjectOf(e, p) + 1, Len(p))
        /\ p[ObjectOf(e, p)] \in Named(Head(e))
    BY DEF OverridesClass, IsOfClass
  <2>2. Len(p) \in Nat /\ Len(e) \in Nat
    BY <1>3, <1>4, LenProperties
  <2>3. ObjectOf(e, p) = Len(p) - Len(e) + 1
        /\ ObjectOf(e, p) + 1 = Len(p) - Len(e) + 2
    BY <2>2 DEF ObjectOf
  <2> QED
    BY <2>1, <2>3 DEF OverridesClass
<1>7. e \in Seq(Key) /\ e # << >> /\ WellFormed("program_config", e)
  <2>1. e \in Seq(Key) /\ WellFormed("program_config", e)
    BY <1>4
  <2>2. Len(e) # 0
    BY <2>1, WorkersEntry
  <2>3. Len(<< >>) = 0
    OBVIOUS
  <2> QED
    BY <2>1, <2>2, <2>3
<1>8. PICK n \in Nat : Reaches(e, p, n)
  BY <1>3, <1>6, <1>7, ClassReaches
<1>9. p[1] = "workers" => p[2] \in Elements(d)
  <2> SUFFICES ASSUME p[1] = "workers"
               PROVE  p[2] \in Elements(d)
    OBVIOUS
  <2>1. 2 <= Len(p)
    <3>1. p = <<"primary", "cl-device-name">> => Len(p) = 2
      OBVIOUS
    <3>2. \A r \in Threads : p = <<"primary", r, "affinity">> => Len(p) = 3
      OBVIOUS
    <3>3. \A i \in 1..Len(Index) :
             p = <<"workers", Index[i], "cl-device-name">> => Len(p) = 3
      OBVIOUS
    <3>4. \A i \in 1..Len(Index), r \in Threads :
             p = <<"workers", Index[i], r, "affinity">> => Len(p) = 4
      OBVIOUS
    <3>5. Len(p) \in {2, 3, 4}
      BY <1>2, <3>1, <3>2, <3>3, <3>4, LeafKinds
    <3> DEFINE m == Len(p)
    <3>6. m \in {2, 3, 4}
      BY <3>5
    <3> HIDE DEF m
    <3>7. 2 <= m
      BY <3>6
    <3> QED
      BY <3>7 DEF m
  <2> QED
    BY <1>3, <1>4, <2>1, GivenElement
<1>10. \/ v = FromCmdline(p)
       \/ Winner(v, p, d)
  BY DEF ConfigInv
<1> SUFFICES v \notin Code
  OBVIOUS
<1> HIDE DEF v, d
<1>11. CASE Winner(v, p, d)
  <2>1. v \in d
    BY <1>2, <1>6, <1>7, <1>8, <1>9, <1>11, WinnerReached
  <2> QED
    BY <1>5, <2>1
<1> QED
  BY <1>5, <1>10, <1>11
-----------------------------------------------------------------------------
(* The command line beats the document, and an override by name beats one  *)
(* by class, for any document and options: process_cmdline and the order in*)
(* which apply_overrides goes by class and by name.                        *)
THEOREM NamesWin == ConfigSpec => []ByNameWins
  BY ByNameFollows, ConfigInvHolds, PTL

(* No attribute has a value that a document gives in a scope it is not in: *)
(* merge works on a clone of the class overrides of the outer scope.       *)
THEOREM ScopesApart == ConfigSpec => []ScopesIsolated
  BY IsolationFollows, ConfigInvHolds, PTL

(* Of two class overrides from scopes around an attribute the inner one is *)
(* in force: merge_node lets the inner scope win.                          *)
THEOREM InnerScopesWin == ConfigSpec => []InnermostScopeWins
  BY InnermostFollows, ConfigInvHolds, PTL

(* An override of a class at the outermost level leaves nothing as the code*)
(* made it in an attribute of that class, but for the elements of lists    *)
(* that the document does not have: the scopes that merge makes keep the   *)
(* class overrides of the outer ones.  Nothing is said of the elements     *)
(* themselves, which are objects of the class of their list.               *)
THEOREM ClassesReach == ConfigSpec => []ClassOverridesReach
  BY ReachFollows, ConfigInvHolds, PTL
=============================================================================

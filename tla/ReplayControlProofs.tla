------------------------ MODULE ReplayControlProofs ------------------------
(***************************************************************************)
(* ReplayControl for any number of sessions, any file and any failures:    *)
(* one replay at a time, known to the control object, and stopped by it.   *)
(***************************************************************************)
EXTENDS ReplayControl, FiniteSetTheorems, TLAPS

\* Threads that are on their way to start_check, and all that may yet touch
\* the state.
Launched == {s \in Sessions : thread[s] \in {"setup", "start_check"}}
Active == Launched \cup Running

\* At most one thread is active, and it is the one of the session.
OneThread == \A s \in Active : session_ = s

\* The state tells how far that thread has got, and whether it was stopped.
StateOfThread ==
    /\ \A s \in Launched :
          current_state_ = IF stop_[s] THEN "stopping" ELSE "starting"
    /\ \A s \in Running :
          current_state_ = IF stop_[s] THEN "stopping" ELSE "replaying"

\* A session is stopped only once it has been launched.
StoppedAfterStart ==
    /\ session_ # NoSession => thread[session_] # "none"
    /\ \A s \in Sessions : thread[s] = "none" => ~stop_[s]

\* A thread that has read the flag before it was set sends one more message.
OneMessageLeft ==
    \A s \in Sessions :
        /\ thread[s] = "send" => sent[s] < FileLen
        /\ stop_[s] => /\ sent[s] <= sent_at_stop[s] + 1
                       /\ thread[s] = "send" => sent[s] <= sent_at_stop[s]

IInv ==
    /\ TypeOK
    /\ OneThread
    /\ StateOfThread
    /\ StoppedAfterStart
    /\ OneMessageLeft
-----------------------------------------------------------------------------
USE ReplayControlAssumption DEF Sessions, NoSession

LEMMA InitIInv == Init => IInv
<1> SUFFICES ASSUME Init PROVE IInv
  OBVIOUS
<1> USE DEF Init
<1>1. TypeOK
  BY DEF TypeOK, state
<1>2. Active = {}
  BY DEF Active, Launched, Running
<1>3. OneThread
  BY <1>2 DEF OneThread
<1>4. StateOfThread
  BY <1>2 DEF StateOfThread, Active
<1>5. StoppedAfterStart
  BY DEF StoppedAfterStart
<1>6. OneMessageLeft
  BY DEF OneMessageLeft
<1> QED
  BY <1>1, <1>3, <1>4, <1>5, <1>6 DEF IInv

LEMMA StatusIInv == IInv /\ status => IInv'
BY DEF IInv, TypeOK, OneThread, StateOfThread, StoppedAfterStart,
   OneMessageLeft, Active, Launched, Running, status, session_vars

\* An idle control object has no active thread, so a new one is alone.
LEMMA StartIInv == IInv /\ start => IInv'
<1> SUFFICES ASSUME IInv, start PROVE IInv'
  OBVIOUS
<1> USE DEF IInv, session_vars
<1>1. CASE UNCHANGED <<session_, session_vars>>
           /\ current_state_' = current_state_ /\ response' \in {428, 500}
  BY <1>1 DEF TypeOK, OneThread, StateOfThread, StoppedAfterStart,
     OneMessageLeft, Active, Launched, Running
<1> SUFFICES ASSUME current_state_ = "idle" PROVE IInv'
  BY <1>1 DEF start, Rejected
<1>2. Active = {}
  BY DEF StateOfThread, Active
<1>3. CASE UNCHANGED <<session_, session_vars>>
           /\ current_state_' = "starting" /\ response' = 500
  <2>1. Active' = {}
    BY <1>2, <1>3 DEF Active, Launched, Running
  <2> QED
    BY <1>3, <2>1 DEF TypeOK, state, OneThread, StateOfThread,
       StoppedAfterStart, OneMessageLeft, Active
<1>4. ASSUME NEW s \in Sessions, NewSession(s),
             session_' = s, thread' = [thread EXCEPT ![s] = "setup"],
             current_state_' = "starting", response' = 200,
             UNCHANGED <<stop_, sent, sent_at_stop>>
      PROVE  IInv'
  <2>1. TypeOK'
    BY <1>4 DEF TypeOK, state
  <2>2. Launched' = {s} /\ Running' = {}
    BY <1>2, <1>4 DEF Active, Launched, Running, TypeOK
  <2>3. ~stop_'[s]
    BY <1>4 DEF NewSession, StoppedAfterStart
  <2>4. OneThread' /\ StateOfThread'
    BY <1>4, <2>2, <2>3 DEF OneThread, StateOfThread, Active
  <2>5. StoppedAfterStart' /\ OneMessageLeft'
    BY <1>4 DEF StoppedAfterStart, OneMessageLeft, TypeOK
  <2> QED
    BY <2>1, <2>4, <2>5
<1> QED
  BY <1>1, <1>3, <1>4 DEF start

\* Only the session is stopped; the state of its thread follows.
LEMMA StopIInv == IInv /\ stop => IInv'
<1> SUFFICES ASSUME IInv, stop PROVE IInv'
  OBVIOUS
<1> USE DEF IInv
<1>1. CASE UNCHANGED <<current_state_, session_, session_vars>> /\ response' = 428
  BY <1>1 DEF TypeOK, OneThread, StateOfThread, StoppedAfterStart,
     OneMessageLeft, Active, Launched, Running, session_vars
<1> SUFFICES ASSUME /\ current_state_ \in {"replaying", "starting"}
                    /\ current_state_' = "stopping"
                    /\ UNCHANGED <<session_, thread, sent>>
             PROVE  IInv'
  BY <1>1 DEF stop, Rejected
<1>2. Launched' = Launched /\ Running' = Running /\ Active' = Active
  BY DEF Active, Launched, Running
<1>3. OneThread'
  BY <1>2 DEF OneThread
<1>4. CASE session_ = NoSession /\ response' = 500 /\ UNCHANGED <<stop_, sent_at_stop>>
  <2>1. Active = {}
    BY <1>4 DEF OneThread, Active, Launched, Running
  <2> QED
    BY <1>2, <1>3, <1>4, <2>1 DEF TypeOK, state, StateOfThread,
       StoppedAfterStart, OneMessageLeft, Active
<1>5. CASE /\ session_ # NoSession /\ response' = 200
           /\ stop_' = [stop_ EXCEPT ![session_] = TRUE]
           /\ sent_at_stop' = [sent_at_stop EXCEPT ![session_] = sent[session_]]
  <2>1. TypeOK'
    BY <1>5 DEF TypeOK, state
  <2>2. \A s \in Active : stop_'[s]
    BY <1>5 DEF OneThread, TypeOK, Active, Launched, Running
  <2>3. StateOfThread'
    BY <1>2, <2>2 DEF StateOfThread, Active
  <2>4. StoppedAfterStart'
    BY <1>5 DEF StoppedAfterStart, TypeOK
  <2>5. OneMessageLeft'
    BY <1>5 DEF OneMessageLeft, TypeOK
  <2> QED
    BY <1>3, <2>1, <2>3, <2>4, <2>5
<1> QED
  BY <1>1, <1>4, <1>5 DEF stop

\* A step of a thread: the others are not active.
LEMMA ReplayIInv == ASSUME NEW s \in Sessions PROVE IInv /\ Replay(s) => IInv'
<1> SUFFICES ASSUME IInv, Replay(s) PROVE IInv'
  OBVIOUS
<1> USE DEF IInv, control_vars, Goto
<1>1. TypeOK'
  <2>1. CASE reconfigure_this_thread(s)
    BY <2>1 DEF reconfigure_this_thread, TypeOK
  <2>2. CASE start_check(s)
    BY <2>2 DEF start_check, TypeOK, state
  <2>3. CASE open_input_file(s)
    BY <2>3 DEF open_input_file, TypeOK
  <2>4. CASE CheckStop(s)
    BY <2>4 DEF CheckStop, TypeOK
  <2>5. CASE handle_unknown(s)
    <3>1. sent[s] \in 0..FileLen /\ sent[s] < FileLen
      BY <2>5 DEF handle_unknown, TypeOK, OneMessageLeft
    <3>2. sent[s] + 1 \in 0..FileLen
      BY <3>1
    <3>3. sent' = sent \/ sent' = [sent EXCEPT ![s] = sent[s] + 1]
      BY <2>5 DEF handle_unknown
    <3>4. sent' \in [Sessions -> 0..FileLen]
      <4>1. sent \in [Sessions -> 0..FileLen]
        BY DEF TypeOK
      <4>2. CASE sent' = sent
        BY <4>1, <4>2
      <4>3. CASE sent' = [sent EXCEPT ![s] = sent[s] + 1]
        BY <3>2, <4>1, <4>3
      <4> QED
        BY <3>3, <4>2, <4>3
    <3>5. thread' \in [Sessions -> {"none", "setup", "start_check", "open",
                                    "read", "send", "replay_done", "gone"}]
      BY <2>5 DEF handle_unknown, TypeOK
    <3>6. UNCHANGED <<current_state_, session_, response, stop_, sent_at_stop>>
      BY <2>5 DEF handle_unknown
    <3> QED
      BY <3>4, <3>5, <3>6 DEF TypeOK
  <2>6. CASE replay_done(s)
    BY <2>6 DEF replay_done, TypeOK, state
  <2> QED
    BY <2>1, <2>2, <2>3, <2>4, <2>5, <2>6 DEF Replay
<1>2. s \in Active /\ session_ = s /\ Active \subseteq {s}
  BY DEF Replay, reconfigure_this_thread, start_check, open_input_file,
     CheckStop, handle_unknown, replay_done, OneThread, Active, Launched,
     Running
<1>3. \A r \in Sessions \ {s} : thread'[r] = thread[r]
  BY DEF Replay, reconfigure_this_thread, start_check, open_input_file,
     CheckStop, handle_unknown, replay_done, TypeOK
<1>4. Active' \subseteq {s} /\ Launched' \subseteq {s} /\ Running' \subseteq {s}
  BY <1>2, <1>3 DEF Active, Launched, Running
<1>5. OneThread' /\ StateOfThread'
  <2> SUFFICES
        /\ thread'[s] \in {"setup", "start_check"} =>
              /\ session_' = s
              /\ current_state_' = IF stop_'[s] THEN "stopping" ELSE "starting"
        /\ thread'[s] \in {"open", "read", "send", "replay_done"} =>
              /\ session_' = s
              /\ current_state_' = IF stop_'[s] THEN "stopping" ELSE "replaying"
    BY <1>4 DEF OneThread, StateOfThread, Active, Launched, Running
  <2>1. stop_' = stop_ /\ s \in DOMAIN thread
    BY DEF Replay, reconfigure_this_thread, start_check, open_input_file,
       CheckStop, handle_unknown, replay_done, TypeOK
  <2>2. /\ thread[s] \in {"setup", "start_check"} =>
              current_state_ = IF stop_[s] THEN "stopping" ELSE "starting"
        /\ thread[s] \in {"open", "read", "send", "replay_done"} =>
              current_state_ = IF stop_[s] THEN "stopping" ELSE "replaying"
    BY DEF StateOfThread, Launched, Running
  <2>3. CASE reconfigure_this_thread(s)
    <3>1. /\ thread[s] = "setup" /\ thread'[s] \in {"start_check", "gone"}
          /\ UNCHANGED <<session_, current_state_>>
      BY <2>1, <2>3 DEF reconfigure_this_thread
    <3> QED
      BY <1>2, <2>1, <2>2, <3>1
  <2>4. CASE start_check(s)
    <3>1. /\ thread[s] = "start_check"
          /\ \/ thread'[s] = "gone"
             \/ /\ thread'[s] = "open" /\ session_' = session_
                /\ current_state_ = "starting" /\ current_state_' = "replaying"
      BY <2>1, <2>4 DEF start_check
    <3> QED
      BY <1>2, <2>1, <2>2, <3>1
  <2>5. CASE open_input_file(s) \/ CheckStop(s) \/ handle_unknown(s)
    <3>1. /\ thread[s] \in {"open", "read", "send"}
          /\ thread'[s] \in {"read", "send", "replay_done"}
          /\ UNCHANGED <<session_, current_state_>>
      BY <2>1, <2>5 DEF open_input_file, CheckStop, handle_unknown
    <3> QED
      BY <1>2, <2>1, <2>2, <3>1
  <2>6. CASE replay_done(s)
    <3>1. thread'[s] = "gone"
      BY <2>1, <2>6 DEF replay_done
    <3> QED
      BY <3>1
  <2> QED
    BY <2>3, <2>4, <2>5, <2>6 DEF Replay
<1>6. StoppedAfterStart'
  <2>1. stop_' = stop_ /\ session_' \in {session_, NoSession}
        /\ thread'[s] # "none"
    BY DEF Replay, reconfigure_this_thread, start_check, open_input_file,
       CheckStop, handle_unknown, replay_done, TypeOK
  <2> QED
    BY <1>2, <1>3, <2>1 DEF StoppedAfterStart
<1>7. OneMessageLeft'
  <2>1. CASE CheckStop(s)
    BY <2>1 DEF CheckStop, OneMessageLeft, TypeOK
  <2>2. CASE handle_unknown(s)
    <3>1. /\ sent[s] \in Nat /\ sent_at_stop[s] \in Nat
          /\ s \in DOMAIN thread /\ s \in DOMAIN sent
      BY DEF TypeOK
    <3>2. /\ thread[s] = "send" /\ thread'[s] # "send"
          /\ UNCHANGED <<stop_, sent_at_stop>>
          /\ sent'[s] \in {sent[s], sent[s] + 1}
          /\ \A r \in Sessions \ {s} : sent'[r] = sent[r]
      BY <2>2, <3>1 DEF handle_unknown, TypeOK
    <3>3. stop_[s] => sent'[s] <= sent_at_stop[s] + 1
      BY <3>1, <3>2 DEF OneMessageLeft
    <3> QED
      BY <1>3, <3>2, <3>3 DEF OneMessageLeft
  <2>3. CASE ~CheckStop(s) /\ ~handle_unknown(s)
    <3>1. /\ UNCHANGED <<stop_, sent, sent_at_stop>>
          /\ thread'[s] # "send"
      BY <2>3 DEF Replay, reconfigure_this_thread, start_check,
         open_input_file, replay_done, TypeOK
    <3> QED
      BY <1>3, <3>1 DEF OneMessageLeft
  <2> QED
    BY <2>1, <2>2, <2>3
<1> QED
  BY <1>1, <1>5, <1>6, <1>7

LEMMA NextIInv == IInv /\ [Next]_vars => IInv'
<1> SUFFICES ASSUME IInv, [Next]_vars PROVE IInv'
  OBVIOUS
<1>1. CASE Next
  BY <1>1, StatusIInv, StartIInv, StopIInv, ReplayIInv DEF Next
<1>2. CASE UNCHANGED vars
  BY <1>2 DEF IInv, TypeOK, OneThread, StateOfThread, StoppedAfterStart,
     OneMessageLeft, Active, Launched, Running, vars, control_vars,
     session_vars
<1> QED
  BY <1>1, <1>2

LEMMA InductiveInvariant == Spec => []IInv
<1>1. Init => IInv
  BY InitIInv
<1>2. IInv /\ [Next]_vars => IInv'
  BY NextIInv
<1> QED
  BY <1>1, <1>2, PTL DEF Spec

(* Every variable keeps its type, whatever fails: no thread sends more than *)
(* the file has.                                                            *)
THEOREM TypeCorrect == Spec => []TypeOK
<1>1. IInv => TypeOK
  BY DEF IInv
<1> QED
  BY <1>1, InductiveInvariant, PTL

(* Requests and any number of replay threads, left over from any number of *)
(* sessions: there is never more than one replay, it is the one of the     *)
(* control object's session, and the state is its state.                   *)
THEOREM ControlCorrect == Spec => []ControlMatchesThread
<1>1. IInv => ControlMatchesThread
  <2> SUFFICES ASSUME IInv PROVE ControlMatchesThread
    OBVIOUS
  <2>1. Running \subseteq {session_}
    BY DEF IInv, OneThread, Active
  <2>2. Cardinality(Running) <= 1
    <3>1. IsFiniteSet({session_}) /\ Cardinality({session_}) = 1
      BY FS_Singleton
    <3>2. Cardinality(Running) <= Cardinality({session_})
      BY <2>1, <3>1, FS_Subset
    <3> QED
      BY <3>1, <3>2
  <2> QED
    BY <2>1, <2>2 DEF IInv, StateOfThread, ControlMatchesThread
<1> QED
  BY <1>1, InductiveInvariant, PTL

(* "Messages will stop flowing": after an accepted stop a session sends at *)
(* most the message its thread was about to send.                          *)
THEOREM StopCorrect == Spec => []StopsFlowing
<1>1. IInv => StopsFlowing
  BY DEF IInv, OneMessageLeft, StopsFlowing
<1> QED
  BY <1>1, InductiveInvariant, PTL
=============================================================================

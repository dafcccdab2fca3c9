--------------------------- MODULE ReplayControl ---------------------------
(***************************************************************************)
(* replayer_control and session of moldreplay: HTTP requests start, stop   *)
(* and query the replay of a file, which runs in a detached thread.        *)
(*                                                                         *)
(* The requests are handled one after the other by the thread that runs    *)
(* the io_service, each with mu_ locked from the first line to the last,   *)
(* so a request is one step.  A replay thread takes mu_ in start_check and *)
(* in replay_done only.                                                    *)
(***************************************************************************)
EXTENDS Integers, FiniteSets

CONSTANTS
    MaxSessions,  \* bound: how many sessions are started
    FileLen,      \* the messages in the input file
    Failures      \* what may throw: see AllFailures

\* The constructor of session, launch_thread, reconfigure_this_thread,
\* open_input_file, and the pacer or its sink.
AllFailures == {"construct", "launch", "setup", "open", "send"}

ASSUME ReplayControlAssumption ==
    /\ MaxSessions \in Nat \ {0} /\ FileLen \in Nat
    /\ Failures \subseteq AllFailures

Sessions == 1..MaxSessions
NoSession == 0

VARIABLES
    current_state_,
    session_,       \* the session of the control object, or NoSession
    stop_,          \* session -> its stop flag
    thread,         \* session -> what its thread will do next
    sent,           \* session -> messages handed to the pacer
    sent_at_stop,   \* session -> value of sent when its stop flag was set
    response        \* the status code of the last response

control_vars == <<current_state_, session_, response>>
session_vars == <<stop_, thread, sent, sent_at_stop>>
vars == <<control_vars, session_vars>>

state == {"idle", "starting", "replaying", "stopping"}

Init ==
    /\ current_state_ = "idle"
    /\ session_ = NoSession
    /\ stop_ = [s \in Sessions |-> FALSE]
    /\ thread = [s \in Sessions |-> "none"]
    /\ sent = [s \in Sessions |-> 0]
    /\ sent_at_stop = [s \in Sessions |-> 0]
    /\ response = 200
-----------------------------------------------------------------------------
(* The requests.  An exception becomes a response with status 500.         *)
status ==
    /\ response' = IF current_state_ # "idle" /\ session_ = NoSession
                   THEN 500 ELSE 200
    /\ UNCHANGED <<current_state_, session_, session_vars>>

Rejected == response' = 428 /\ UNCHANGED <<current_state_, session_>>

\* The next session that has not been used.
NewSession(s) ==
    thread[s] = "none" /\ \A r \in Sessions : r < s => thread[r] # "none"

start ==
    \/ /\ current_state_ # "idle"
       /\ Rejected
       /\ UNCHANGED session_vars
    \/ /\ current_state_ = "idle"              \* make_shared<session> throws
       /\ "construct" \in Failures
       /\ response' = 500
       /\ UNCHANGED <<current_state_, session_, session_vars>>
    \/ /\ current_state_ = "idle"              \* launch_thread throws
       /\ "launch" \in Failures
       /\ current_state_' = "starting"
       /\ response' = 500
       /\ UNCHANGED <<session_, session_vars>>
    \/ /\ current_state_ = "idle"
       /\ \E s \in Sessions :
             /\ NewSession(s)
             /\ session_' = s
             /\ thread' = [thread EXCEPT ![s] = "setup"]
       /\ current_state_' = "starting"
       /\ response' = 200
       /\ UNCHANGED <<stop_, sent, sent_at_stop>>

\* The state and the response are set before the assertion.
stop ==
    \/ /\ current_state_ \notin {"replaying", "starting"}
       /\ Rejected
       /\ UNCHANGED session_vars
    \/ /\ current_state_ \in {"replaying", "starting"}
       /\ current_state_' = "stopping"
       /\ UNCHANGED <<session_, thread, sent>>
       /\ \/ /\ session_ = NoSession
             /\ response' = 500
             /\ UNCHANGED <<stop_, sent_at_stop>>
          \/ /\ session_ # NoSession
             /\ response' = 200
             /\ stop_' = [stop_ EXCEPT ![session_] = TRUE]
             /\ sent_at_stop' =
                   [sent_at_stop EXCEPT ![session_] = sent[session_]]
-----------------------------------------------------------------------------
(* The replay thread of session s.                                         *)
Goto(s, from, to) ==
    thread[s] = from /\ thread' = [thread EXCEPT ![s] = to]

\* thread_setup_wrapper: if the thread cannot be configured as asked the
\* callable does not run.
reconfigure_this_thread(s) ==
    /\ \/ Goto(s, "setup", "start_check")
       \/ "setup" \in Failures /\ Goto(s, "setup", "gone")
    /\ UNCHANGED <<control_vars, stop_, sent, sent_at_stop>>

\* Faulty variant: the thread does not look at the state.
start_check_always(s) ==
    /\ Goto(s, "start_check", "open")
    /\ current_state_' = "replaying"
    /\ UNCHANGED <<session_, response, stop_, sent, sent_at_stop>>

start_check(s) ==
    /\ \/ /\ current_state_ # "starting"
          /\ Goto(s, "start_check", "gone")
          /\ UNCHANGED current_state_
       \/ /\ current_state_ = "starting"
          /\ Goto(s, "start_check", "open")
          /\ current_state_' = "replaying"
    /\ UNCHANGED <<session_, response, stop_, sent, sent_at_stop>>

\* session::start opens the file, and reads it message by message.
open_input_file(s) ==
    /\ \/ Goto(s, "open", "read")
       \/ "open" \in Failures /\ Goto(s, "open", "replay_done")
    /\ UNCHANGED <<control_vars, stop_, sent, sent_at_stop>>

\* Faulty variants: the stop flag is ignored, and the end of the file.
CheckNoStop(s) ==
    /\ \/ sent[s] = FileLen /\ Goto(s, "read", "replay_done")
       \/ sent[s] < FileLen /\ Goto(s, "read", "send")
    /\ UNCHANGED <<control_vars, stop_, sent, sent_at_stop>>
CheckStopOnly(s) ==
    /\ \/ stop_[s] /\ Goto(s, "read", "replay_done")
       \/ ~stop_[s] /\ Goto(s, "read", "send")
    /\ UNCHANGED <<control_vars, stop_, sent, sent_at_stop>>

\* The stop flag is read before the message is handled.
CheckStop(s) ==
    /\ \/ (stop_[s] \/ sent[s] = FileLen) /\ Goto(s, "read", "replay_done")
       \/ ~stop_[s] /\ sent[s] < FileLen /\ Goto(s, "read", "send")
    /\ UNCHANGED <<control_vars, stop_, sent, sent_at_stop>>

\* The rest of handle_unknown, which may sleep for 10 seconds.
handle_unknown(s) ==
    /\ \/ /\ Goto(s, "send", "read")
          /\ sent' = [sent EXCEPT ![s] = @ + 1]
       \/ /\ "send" \in Failures
          /\ Goto(s, "send", "replay_done")
          /\ UNCHANGED sent
    /\ UNCHANGED <<control_vars, stop_, sent_at_stop>>

\* Faulty variant: a replay that was stopped leaves the state as it is.
replay_done_keeps_state(s) ==
    /\ Goto(s, "replay_done", "gone")
    /\ current_state_' = IF stop_[s] THEN current_state_ ELSE "idle"
    /\ session_' = NoSession
    /\ UNCHANGED <<response, stop_, sent, sent_at_stop>>

replay_done(s) ==
    /\ Goto(s, "replay_done", "gone")
    /\ current_state_' = "idle"
    /\ session_' = NoSession
    /\ UNCHANGED <<response, stop_, sent, sent_at_stop>>

Replay(s) ==
    \/ reconfigure_this_thread(s) \/ start_check(s) \/ open_input_file(s)
    \/ CheckStop(s) \/ handle_unknown(s) \/ replay_done(s)

Next == status \/ start \/ stop \/ \E s \in Sessions : Replay(s)

\* Threads run: the operating system schedules them, no step waits for
\* anything but mu_, and every holder of mu_ releases it.
Spec ==
    Init /\ [][Next]_vars /\ \A s \in Sessions : WF_vars(Replay(s))
-----------------------------------------------------------------------------
TypeOK ==
    /\ current_state_ \in state
    /\ session_ \in Sessions \cup {NoSession}
    /\ stop_ \in [Sessions -> BOOLEAN]
    /\ thread \in [Sessions -> {"none", "setup", "start_check", "open", "read",
                                "send", "replay_done", "gone"}]
    /\ sent \in [Sessions -> 0..FileLen]
    /\ sent_at_stop \in [Sessions -> 0..FileLen]
    /\ response \in {200, 428, 500}

Running == {s \in Sessions : thread[s] \in {"open", "read", "send",
                                            "replay_done"}}

(* Only one replay at a time, and the control object knows it: the session *)
(* that status reports on and that stop stops is the one of the running    *)
(* thread.                                                                 *)
ControlMatchesThread ==
    /\ Cardinality(Running) <= 1
    /\ \A s \in Running :
          /\ session_ = s
          /\ current_state_ = IF stop_[s] THEN "stopping" ELSE "replaying"

(* "Messages will stop flowing": after a stop that was accepted the thread *)
(* handles at most the message it was about to handle.                     *)
StopsFlowing ==
    \A s \in Sessions : stop_[s] => sent[s] <= sent_at_stop[s] + 1

(* "reset the state to idle, even if an exception is raised": a replay     *)
(* that runs comes to its end, by itself, stopped or failed, and then the  *)
(* control object has let go of it and is idle: it accepts a new start.    *)
RunningEnds ==
    \A s \in Sessions :
        s \in Running ~>
            thread[s] = "gone" /\ session_ # s /\ current_state_ = "idle"

(* "request succeeded, stopping current session": a stop that was accepted *)
(* ends, and the control object is idle again.                             *)
StoppingEnds == current_state_ = "stopping" ~> current_state_ = "idle"
=============================================================================

---------------------------- MODULE MCCallClient ----------------------------
(* CallClient for TLC.  REJECT_CALL forgets the call in whatever state it  *)
(* is (Win32CallClient.cpp:362-370): a behaviour has it, and every other   *)
(* command, or it has only those that a window without helper threads      *)
(* gives.                                                                  *)
EXTENDS CallClient

VARIABLE given   \* the commands of this behaviour

MCInit == Init /\ given \in {Commands, {"CALL", "HANGUP", "ACCEPT_CALL"}}

MCNext ==
  /\ \/ SignallingThread
     \/ \E m \in Incoming : Arrive(m)
     \/ \E command \in given : Command(command)
  /\ UNCHANGED given

MCSpec == MCInit /\ [][MCNext]_<<vars, given>> /\ Fairness

(* "Only one call at a time" (src/Usage.txt): no call is made or announced *)
(* while another one is alive, as long as none is forgotten.               *)
OneCall == "REJECT_CALL" \notin given => OneCallAtATime
=============================================================================

-------------------------------- MODULE MyJingle --------------------------------
(***************************************************************************)
(* The dialog and the signalling thread together.  The dialog gives        *)
(* commands through the mailbox (its last command and the event; the grain *)
(* of the mailbox itself is JingleAdapter's subject), the call client      *)
(* answers with messages it posts to the window.  Everything else they     *)
(* know of each other may be out of date.                                  *)
(*                                                                         *)
(* src/LibJingle/LibJingleDlg.h:173 names two uses: a client only calls,   *)
(* the front desk is only called.  `use' is one of them, from the start:   *)
(* the buttons and keys that are pressed, and which way calls are made.    *)
(***************************************************************************)
EXTENDS Naturals, Sequences, FiniteSets

CONSTANTS Sessions, None, Helpers,
  Uses   \* "in" among the ways: others may call, "out": the user may call

Buttons == {"Call", "Hangup", "Sendmsg"}
BoxKeys == {"LEFT_KEY", "RIGHT_KEY"}

ASSUME MyJingleConstants ==
  /\ None \notin Sessions
  /\ Uses \subseteq [clicks : SUBSET Buttons, keys : SUBSET BoxKeys,
                    ways : SUBSET {"in", "out"}, helpers : SUBSET Helpers]

VARIABLES
  use,
  client, inbox, peer, waiting,                                  \* CallClient
  m_callStatus, dialEvents, acceptEvents, helper, buttons, bell, \* Dialog
  command, wake, signalling, uiQueue

Given == {"CALL", "HANGUP", "ACCEPT_CALL", "REJECT_CALL", "STR_CHAT"}

Client == INSTANCE CallClient WITH Commands <- Given
UI     == INSTANCE Dialog WITH MaxQueue <- 0, Clicks <- Buttons, Keys <- BoxKeys

clientVars == <<client, inbox, peer, waiting>>
uiVars     == <<m_callStatus, dialEvents, acceptEvents, helper, buttons, bell>>
vars       == <<clientVars, uiVars, command, wake, signalling, uiQueue, use>>

Init == use \in Uses /\ Client!Init /\ UI!Init

(* What the step of the signalling thread posted reaches the window.       *)
Delivered == uiQueue' = uiQueue \o client'.posted

(* Win32JingleAdapter::OnEvent: the last command stored is executed.       *)
TakeCommand ==
  /\ wake
  /\ wake' = FALSE
  /\ Client!Command(command)
  /\ Delivered
  /\ UNCHANGED <<uiVars, command, signalling, use>>

Signalling ==
  /\ \/ Client!SignallingThread
     \/ \E m \in Client!Incoming : Client!Arrive(m) /\ (m.type = "INITIATE" => "in" \in use.ways)
  /\ Delivered
  /\ UNCHANGED <<uiVars, command, wake, signalling, use>>

\* Bound: a call is dialled only when few messages that stop a bell wait.
Dialog ==
  /\ \/ UI!HelperThreads
     \/ UI!HandleMessage
     \/ UI!SetEventAdapter
     \/ UI!BellEnds
     \/ \E b \in use.clicks : UI!Click(b)
     \/ \E k \in use.keys : UI!OnHandlePhone(k)
  /\ (m_callStatus' = "DIALING" /\ m_callStatus # "DIALING") =>
       "out" \in use.ways /\ UI!StopsPending < Cardinality(use.helpers)
  /\ \A h \in Helpers \ use.helpers : helper'[h].kind = "none"
  /\ UNCHANGED <<clientVars, use>>

Next == TakeCommand \/ Signalling \/ Dialog

Spec == Init /\ [][Next]_vars

(* Both threads run, and the signalling thread looks at the mailbox when   *)
(* it has nothing else to do.                                              *)
FairSpec == Spec /\ Client!Fairness /\ UI!Fairness /\ WF_vars(TakeCommand)

-----------------------------------------------------------------------------
Live == {s \in Sessions : client.state[s] \in Client!Live}

(* Nothing is under way between the two threads.                           *)
Quiet ==
  /\ ~wake /\ ~signalling /\ uiQueue = <<>>
  /\ inbox = <<>> /\ client.queue = <<>>

(* When all is told, the dialog offers Call if there is no call.           *)
IdleOffersCall == Quiet /\ Live = {} => buttons = {"Call"}

(* Commands that end the ringing of a call; Call and Sendmsg store one     *)
(* that does not.                                                          *)
Ends == {"ACCEPT_CALL", "REJECT_CALL", "HANGUP"}
Own  == {"CALL", "STR_CHAT"}

Rings(s) == client.state[s] = "RECEIVEDINITIATE"

(* The helper thread h will store a command and set the event.             *)
Attends(h) ==
  /\ helper[h].kind = "accept"
  /\ \E i \in DOMAIN helper[h].todo : helper[h].todo[i] \in {"Wait", "SetEvent"}

(* A call that rings is looked after: the dialog has yet to be told, a     *)
(* helper thread has yet to command, or what ends it is on its way.        *)
Announced == \E i \in DOMAIN uiQueue : uiQueue[i] = "INCOMING"
OnItsWay  == (wake \/ signalling) /\ command \in Ends
Attended  == Announced \/ (\E h \in Helpers : Attends(h)) \/ OnItsWay

(* A call that rings is looked after from the first moment on, and ceases  *)
(* to be in one way only: the user presses Call or Sendmsg, and CALL or    *)
(* STR_CHAT takes the place of the helper's command in the mailbox         *)
(* (LibJingleDlg.cpp:907).                                                 *)
RingingIsAttended ==
  [][\A s \in Sessions :
       Rings(s)' => Attended' \/ (Rings(s) /\ (~Attended \/ command' \in Own))]_vars

(* A call that comes in does not ring for ever: the helper answers or      *)
(* rejects it and the command gets through, or the caller gives up; unless *)
(* the command was replaced, in the way that RingingIsAttended tells.      *)
IncomingCallEnds == \A s \in Sessions : Rings(s) ~> ~(Rings(s) /\ Attended)

(* A hang-up given to the mailbox ends a caller's call, unless he replaces *)
(* it before the signalling thread looks.  He can by a chat message, and,  *)
(* as a key does not look at the buttons, by the call box's LEFT_KEY; not  *)
(* by the button Call, which is disabled until the call has ended.         *)
HangupReplaced == command = "STR_CHAT" \/ (command = "CALL" /\ "LEFT_KEY" \in use.keys)

HangupEndsCall ==
  "in" \notin use.ways /\ command = "HANGUP" /\ (signalling \/ wake)
    ~> Live = {} \/ HangupReplaced

(* A call is ended by pressing Hangup (Usage.txt:17): when all is told,    *)
(* the button is enabled while a call is in progress.                      *)
HangupOffered ==
  Quiet => \A s \in Sessions : client.state[s] = "INPROGRESS" => buttons = {"Hangup"}
=============================================================================

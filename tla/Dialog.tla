--------------------------------- MODULE Dialog ---------------------------------
(***************************************************************************)
(* The dialog of MyJingle (src/LibJingle/LibJingleDlg.cpp) and how it      *)
(* handles what the signalling thread tells it (FromJingleMessage.cpp),    *)
(* once logged in.                                                         *)
(*                                                                         *)
(* The UI thread serves the window's messages one at a time.  Each call    *)
(* that is dialled or comes in has a helper thread, DialFunc or            *)
(* AcceptCallFunc, that waits up to ten seconds for one of two events and  *)
(* then changes the status of the dialog itself.  Nothing protects the     *)
(* status, the events or the order of the helpers' steps: a helper is the  *)
(* list of the steps it has yet to take, and any thread may run in between.*)
(*                                                                         *)
(* Commands go to the signalling thread through a mailbox (JingleAdapter): *)
(* here it is the last command and the event.                              *)
(***************************************************************************)
EXTENDS Naturals, Sequences, FiniteSets

CONSTANTS
  Helpers,   \* ids of helper threads; bound on how many exist at a time
  Clicks,    \* the buttons the user may press
  Keys,      \* the keys of the call box; the device decodes LEFT_KEY only
  MaxQueue   \* bound on the messages posted to the window

ASSUME DialogConstants ==
  /\ Clicks \subseteq {"Call", "Hangup", "Sendmsg"}
  /\ Keys \subseteq {"LEFT_KEY", "RIGHT_KEY"}
  /\ MaxQueue \in Nat

VARIABLES
  m_callStatus,
  dialEvents,    \* which of m_hDialEvents are set
  acceptEvents,  \* which of m_hAcceptCallEvents are set
  helper,        \* of each helper thread: its kind and the steps to come
  buttons,       \* which of Call and Hangup are enabled
  bell,          \* what m_mciMusic plays
  uiQueue,       \* messages posted to the window
  command,       \* the last command stored for the signalling thread
  wake,          \* the event of the mailbox is set
  signalling     \* the UI thread has stored a command and not set the event yet

ui     == <<m_callStatus, dialEvents, acceptEvents, helper, buttons, bell>>
mail   == <<command, wake, signalling>>
vars   == <<ui, mail, uiQueue>>

OnCall  == {"ANSWERED", "IN_PROGRESS", "CALLING"}
Closing == {"NOT_ANSWERED", "TERMINATE", "SENTTERMINATE"}
\* UNSET: the type of the message was never assigned
Notices == OnCall \cup Closing \cup {"INCOMING", "UNSET"}
Posted  == Notices \cup {"WM_STOPMUSIC", "MM_MCINOTIFY"}

NoHelper == [kind |-> "none", todo |-> <<>>]

Init ==
  /\ m_callStatus = "INITIAL"
  /\ dialEvents = {}
  /\ acceptEvents = {}
  /\ helper = [h \in Helpers |-> NoHelper]
  /\ buttons = {"Call"}
  /\ bell = "silent"
  /\ uiQueue = <<>>
  /\ command = "UNKNOWN"
  /\ wake = FALSE
  /\ signalling = FALSE

-----------------------------------------------------------------------------
(* Helper threads.                                                         *)

Answered(kind) ==
  IF kind = "dial" THEN <<"ONLINE", "ResetAnswer">>
                   ELSE <<"ResetAnswer", "ONLINE", "ACCEPT_CALL", "SetEvent">>

NotAnswered(kind) ==
  IF kind = "dial" THEN <<"ResetHangup", "INITIAL">>
                   ELSE <<"REJECT_CALL", "SetEvent", "ResetHangup", "INITIAL">>

Events(kind) == IF kind = "dial" THEN dialEvents ELSE acceptEvents

(* Mutated: the wait has no time limit.                                    *)
WaitsForEver(h) ==
  /\ helper[h].todo = <<"Wait">>
  /\ LET kind == helper[h].kind
     IN  /\ Events(kind) # {}
         /\ helper' = [helper EXCEPT ![h].todo =
                         IF "answer" \in Events(kind) THEN Answered(kind) ELSE NotAnswered(kind)]
  /\ uiQueue' = Append(uiQueue, "WM_STOPMUSIC")
  /\ UNCHANGED <<m_callStatus, dialEvents, acceptEvents, buttons, bell, mail>>

(* WaitForMultipleObjects prefers the first event; without one it ends     *)
(* after ten seconds, and that is handled like a hang-up.                  *)
WaitEnds(h) ==
  /\ helper[h].todo = <<"Wait">>
  /\ LET kind == helper[h].kind
     IN  helper' = [helper EXCEPT ![h].todo =
                      IF "answer" \in Events(kind) THEN Answered(kind) ELSE NotAnswered(kind)]
  /\ uiQueue' = Append(uiQueue, "WM_STOPMUSIC")
  /\ UNCHANGED <<m_callStatus, dialEvents, acceptEvents, buttons, bell, mail>>

Reset(kind, own, events, step) ==
  IF kind # own THEN events
  ELSE IF step = "ResetAnswer" THEN events \ {"answer"}
  ELSE IF step = "ResetHangup" THEN events \ {"hangup"}
  ELSE events

HelperSteps(h) ==
  /\ helper[h].kind # "none"
  /\ Head(helper[h].todo) # "Wait"
  /\ LET step == Head(helper[h].todo)
         rest == Tail(helper[h].todo)
     IN  /\ m_callStatus' = IF step \in {"ONLINE", "INITIAL"} THEN step ELSE m_callStatus
         /\ dialEvents' = Reset(helper[h].kind, "dial", dialEvents, step)
         /\ acceptEvents' = Reset(helper[h].kind, "accept", acceptEvents, step)
         /\ command' = IF step \in {"ACCEPT_CALL", "REJECT_CALL"} THEN step ELSE command
         /\ wake' = (wake \/ step = "SetEvent")
         /\ helper' = [helper EXCEPT ![h] =
                         IF rest = <<>> THEN NoHelper ELSE [@ EXCEPT !.todo = rest]]
  /\ UNCHANGED <<buttons, bell, uiQueue, signalling>>

-----------------------------------------------------------------------------
(* The UI thread.                                                          *)

Idle == {h \in Helpers : helper[h].kind = "none"}

(* Mutated: the status changes, no thread is started.                      *)
RingSilently(status, kind, sound) ==
  /\ m_callStatus' = status
  /\ Idle # {}
  /\ UNCHANGED helper
  /\ bell' = sound

(* Mutated: the arguments are swapped.                                     *)
RingSwapped(status, kind, sound) ==
  /\ m_callStatus' = kind
  /\ \E h \in Idle : helper' = [helper EXCEPT ![h] = [kind |-> kind, todo |-> <<"Wait">>]]
  /\ bell' = sound

(* A call begins to ring: _beginthreadex and PlaySound.                    *)
Ring(status, kind, sound) ==
  /\ m_callStatus' = status
  /\ \E h \in Idle : helper' = [helper EXCEPT ![h] = [kind |-> kind, todo |-> <<"Wait">>]]
  /\ bell' = sound

Give(c) == command' = c /\ signalling' = TRUE /\ UNCHANGED wake

(* Bound: of the messages that stop a bell at most one per helper waits.   *)
StopsPending == Cardinality({i \in DOMAIN uiQueue : uiQueue[i] = "WM_STOPMUSIC"})

OnBnClickedCall ==
  /\ StopsPending < Cardinality(Helpers)
  /\ Ring("DIALING", "dial", "dialing")
  /\ Give("CALL")
  /\ UNCHANGED <<dialEvents, acceptEvents, buttons, uiQueue>>

OnBnClickedHangup ==
  /\ m_callStatus' = "INITIAL"
  /\ Give("HANGUP")
  /\ UNCHANGED <<dialEvents, acceptEvents, helper, buttons, bell, uiQueue>>

OnBnClickedSendmsg ==
  /\ Give("STR_CHAT")
  /\ UNCHANGED <<ui, uiQueue>>

(* Windows delivers posted messages before the mouse's: a button is        *)
(* pressed only when nothing is posted.                                    *)
Click(button) ==
  /\ ~signalling
  /\ uiQueue = <<>>
  /\ \/ button = "Call" /\ button \in buttons /\ OnBnClickedCall
     \/ button = "Hangup" /\ button \in buttons /\ OnBnClickedHangup
     \/ button = "Sendmsg" /\ OnBnClickedSendmsg

(* A key is sent, not posted, and does not look at the buttons.            *)
OnHandlePhone(key) ==
  /\ ~signalling
  /\ \/ /\ key = "LEFT_KEY"
        /\ m_callStatus = "INITIAL"
        /\ OnBnClickedCall
     \/ /\ key = "RIGHT_KEY"
        /\ m_callStatus = "ONLINE"
        /\ OnBnClickedHangup
     \/ /\ key = "RIGHT_KEY"
        /\ m_callStatus \in {"DIALING", "ACCEPTING"}
        /\ m_callStatus' = "INITIAL"
        /\ acceptEvents' = IF m_callStatus = "ACCEPTING" THEN acceptEvents \cup {"hangup"}
                                                         ELSE acceptEvents
        /\ UNCHANGED <<dialEvents, helper, buttons, bell, uiQueue, mail>>

SetEventAdapter ==
  /\ signalling
  /\ wake' = TRUE
  /\ signalling' = FALSE
  /\ UNCHANGED <<ui, uiQueue, command>>

(* SetAnswerEvent and SetRejectEvent.                                      *)
Set(event) ==
  /\ dialEvents'   = IF m_callStatus = "DIALING" THEN dialEvents \cup {event} ELSE dialEvents
  /\ acceptEvents' = IF m_callStatus = "ACCEPTING" THEN acceptEvents \cup {event} ELSE acceptEvents

(* Mutated: Call stays enabled in a call.                                  *)
EngagedKeepsCall(type) ==
  /\ buttons' = {"Call", "Hangup"}
  /\ \/ type = "ANSWERED" /\ Set("answer")
     \/ type # "ANSWERED" /\ UNCHANGED <<dialEvents, acceptEvents>>
  /\ UNCHANGED <<m_callStatus, helper, bell>>

(* ANSWERED falls through to the next case.                                *)
Engaged(type) ==
  /\ buttons' = {"Hangup"}
  /\ \/ type = "ANSWERED" /\ Set("answer")
     \/ type # "ANSWERED" /\ UNCHANGED <<dialEvents, acceptEvents>>
  /\ UNCHANGED <<m_callStatus, helper, bell>>

(* Mutated: the buttons are not set back when a call ends.                 *)
ClosedKeepsButtons == Set("hangup") /\ UNCHANGED <<buttons, m_callStatus, helper, bell>>

Closed ==
  /\ buttons' = {"Call"}
  /\ Set("hangup")
  /\ UNCHANGED <<m_callStatus, helper, bell>>

(* CCallChangeMessage::Handle.                                             *)
HandleType(type) ==
  \/ type \in OnCall /\ Engaged(type)
  \/ type \in Closing /\ Closed
  \/ /\ type = "INCOMING"
     /\ Ring("ACCEPTING", "accept", "incoming")
     /\ UNCHANGED <<dialEvents, acceptEvents, buttons>>
  \/ type = "UNKNOWN" /\ UNCHANGED ui

BellFor(status) ==
  IF status = "DIALING" THEN "dialing" ELSE IF status = "ACCEPTING" THEN "incoming" ELSE "busy"

(* A message whose type was never assigned is handled like any.            *)
HandleMessage ==
  /\ ~signalling
  /\ uiQueue # <<>>
  /\ uiQueue' = Tail(uiQueue)
  /\ LET m == Head(uiQueue)
     IN  \/ m \in Notices \ {"UNSET"} /\ HandleType(m)
         \/ m = "UNSET" /\ \E type \in (Notices \ {"UNSET"}) \cup {"UNKNOWN"} : HandleType(type)
         \/ /\ m = "WM_STOPMUSIC"
            /\ bell' = "silent"
            /\ UNCHANGED <<m_callStatus, dialEvents, acceptEvents, helper, buttons>>
         \/ /\ m = "MM_MCINOTIFY"
            /\ bell' = BellFor(m_callStatus)
            /\ UNCHANGED <<m_callStatus, dialEvents, acceptEvents, helper, buttons>>
  /\ UNCHANGED mail

(* A bell has been played to its end.  Bound: the one before was handled.  *)
BellEnds ==
  /\ bell # "silent"
  /\ \A i \in DOMAIN uiQueue : uiQueue[i] # "MM_MCINOTIFY"
  /\ bell' = "silent"
  /\ uiQueue' = Append(uiQueue, "MM_MCINOTIFY")
  /\ UNCHANGED <<m_callStatus, dialEvents, acceptEvents, helper, buttons, mail>>

HelperThreads == \E h \in Helpers : WaitEnds(h) \/ HelperSteps(h)

UIThread ==
  \/ HandleMessage
  \/ SetEventAdapter
  \/ \E b \in Clicks : Click(b)
  \/ \E k \in Keys : OnHandlePhone(k)

-----------------------------------------------------------------------------
(* The signalling thread, when this module is taken by itself.             *)
Take ==
  /\ wake
  /\ wake' = FALSE
  /\ UNCHANGED <<ui, uiQueue, command, signalling>>

Post(notice) ==
  /\ Len(uiQueue) < MaxQueue
  /\ uiQueue' = Append(uiQueue, notice)
  /\ UNCHANGED <<ui, mail>>

Next ==
  \/ HelperThreads \/ UIThread \/ BellEnds
  \/ Take
  \/ \E n \in Notices : Post(n)

Spec == Init /\ [][Next]_vars

(* Threads run, the wait of a helper ends, the window's messages are       *)
(* served.                                                                 *)
Fairness ==
  /\ \A h \in Helpers : WF_vars(WaitEnds(h)) /\ WF_vars(HelperSteps(h))
  /\ WF_vars(SetEventAdapter)
  /\ WF_vars(HandleMessage)

FairSpec == Spec /\ Fairness

-----------------------------------------------------------------------------
Steps == {"Wait", "ONLINE", "INITIAL", "ResetAnswer", "ResetHangup",
          "ACCEPT_CALL", "REJECT_CALL", "SetEvent"}

TypeOK ==
  /\ m_callStatus \in {"INITIAL", "DIALING", "ACCEPTING", "ONLINE"}
  /\ dialEvents \subseteq {"answer", "hangup"}
  /\ acceptEvents \subseteq {"answer", "hangup"}
  /\ helper \in [Helpers -> [kind : {"none", "dial", "accept"}, todo : Seq(Steps)]]
  /\ buttons \in {{"Call"}, {"Hangup"}}
  /\ bell \in {"silent", "dialing", "incoming", "busy"}
  /\ uiQueue \in Seq(Posted)
  /\ command \in {"UNKNOWN", "CALL", "HANGUP", "ACCEPT_CALL", "REJECT_CALL", "STR_CHAT"}
  /\ wake \in BOOLEAN
  /\ signalling \in BOOLEAN

(* The helper thread h will still change the status.                       *)
WillSettle(h) ==
  \E i \in DOMAIN helper[h].todo : helper[h].todo[i] \in {"Wait", "ONLINE", "INITIAL"}

(* A dialog that rings is looked after: a helper thread of the right kind  *)
(* has yet to set the status, however many others come and go.             *)
RingingHasHelper ==
  /\ m_callStatus = "DIALING" =>
       \E h \in Helpers : helper[h].kind = "dial" /\ WillSettle(h)
  /\ m_callStatus = "ACCEPTING" =>
       \E h \in Helpers : helper[h].kind = "accept" /\ WillSettle(h)

(* A dialog does not ring for ever: the helper's ten seconds end it.       *)
RingingEnds ==
  m_callStatus \in {"DIALING", "ACCEPTING"} ~> m_callStatus \in {"INITIAL", "ONLINE"}
=============================================================================

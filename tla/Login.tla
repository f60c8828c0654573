---------------------------------- MODULE Login ----------------------------------
(***************************************************************************)
(* The life of the signalling thread: the dialog's Login, Logout and       *)
(* destructor (LibJingleDlg.cpp), the thread they start and wait for       *)
(* (JingleMain.cpp), the XMPP client and its engine, as far as a login is  *)
(* made and ended (talk/xmpp), and what the call client sets up and stops  *)
(* with it (Win32CallClient::OnStateChange).                               *)
(*                                                                         *)
(* A handler of the UI thread is the list of the steps it has yet to take, *)
(* because one of them, Stop, waits for the signalling thread.  What the   *)
(* signalling thread has on its stack is the record `x', made anew by each *)
(* login; the mailbox and the window's queue outlive it.                   *)
(***************************************************************************)
EXTENDS Naturals, Sequences

CONSTANTS
  Clicks,     \* the buttons the user may press
  Keys,       \* {"LEFT_KEY"} where there is a call box, else {}
  Others,     \* commands other threads give: the helpers of calls
  Faults,     \* how a connection may fail
  MaxLogins,  \* bound: logins
  MaxQueue    \* bound: messages posted to the window when the key is pressed

ASSUME LoginConstants ==
  /\ Clicks \subseteq {"Login", "Logout", "Call", "Hangup"}
  /\ Keys \subseteq {"LEFT_KEY"}
  /\ Others \subseteq {"ACCEPT_CALL", "REJECT_CALL"}
  /\ Faults \subseteq {"refused", "unreachable", "lost", "stream"}
  /\ MaxLogins \in Nat /\ MaxQueue \in Nat

VARIABLES
  ui,         \* the steps the UI thread's handler has yet to take
  gone,       \* the dialog was destroyed
  running,    \* m_Running
  thread,     \* the signalling thread
  x,          \* its stack: client, engine, socket and call client
  peer,       \* what the person called was told in this login
  buttons,    \* which are enabled
  uiQueue,    \* messages posted to the window
  command,    \* the mailbox (JingleAdapter): the last command stored
  wake,       \* and its event
  logins      \* logins so far

dialog  == <<ui, gone, running, buttons, logins>>
mailbox == <<command, wake>>
vars    == <<dialog, thread, x, peer, uiQueue, mailbox>>

(* Before pump.DoLogin; the event loop has one message for the pump.       *)
Fresh ==
  [engine |-> "START", error |-> "NONE",      \* XmppEngineImpl
   task |-> "START", closed |-> FALSE,        \* XmppClient: state, signal_closed_
   socket |-> "new", pump |-> TRUE,           \* a message for the pump is posted
   stopping |-> FALSE,                        \* fStop_ of the thread
   worker |-> "none", phone |-> FALSE,        \* InitPhone: thread, phone client
   call |-> FALSE, unsent |-> {},             \* call_, stanzas of tasks not run yet
   posted |-> <<>>]                           \* to the window, in this step

-----------------------------------------------------------------------------
(* The signalling thread: callbacks within one step.                       *)
Post(y, notice) == [y EXCEPT !.posted = Append(@, notice)]

(* Mutated: the worker thread is left running.                             *)
OnStateChangeLeavesWorker(y, state) ==
  CASE state = "OPENING" -> Post(y, "LOGGINGIN")
    [] state = "OPEN"    -> Post([y EXCEPT !.worker = "running", !.phone = TRUE,
                                           !.pump = TRUE], "LOGGEDIN")
    [] state = "CLOSED"  -> [Post(y, "DISCONNECT") EXCEPT !.stopping = TRUE]

(* Win32CallClient::OnStateChange.  OPEN sets up the phone client and the  *)
(* tasks; CLOSED waits for the worker and stops this thread's loop.        *)
OnStateChange(y, state) ==
  CASE state = "OPENING" -> Post(y, "LOGGINGIN")
    [] state = "OPEN"    -> Post([y EXCEPT !.worker = "running", !.phone = TRUE,
                                           !.pump = TRUE], "LOGGEDIN")
    [] state = "CLOSED"  ->
         [Post(y, "DISCONNECT") EXCEPT
            !.worker = IF @ = "running" THEN "stopped" ELSE @, !.stopping = TRUE]

(* Mutated: the dialog is not told, the loop goes on.                      *)
EnsureClosedSilently(y) == [y EXCEPT !.closed = TRUE]

EnsureClosed(y) ==
  IF y.closed THEN y ELSE OnStateChange([y EXCEPT !.closed = TRUE], "CLOSED")

(* The engine has moved to a state; the client task is woken.              *)
Entered(y, state) ==
  [(IF state = "CLOSED" THEN EnsureClosed([y EXCEPT !.engine = state])
    ELSE OnStateChange([y EXCEPT !.engine = state], state))
   EXCEPT !.pump = TRUE]

(* XmppSocket::Close closes an open socket only.                           *)
SignalError(y, error) ==
  IF y.engine = "CLOSED" THEN y
  ELSE Entered([y EXCEPT !.error = error,
                         !.socket = IF @ = "connected" THEN "closed" ELSE @], "CLOSED")

(* Session::Terminate: the stanza is a task that the pump has yet to run.  *)
Terminated(y) ==
  [Post(y, "ENDED") EXCEPT !.call = FALSE, !.unsent = @ \cup {"TERMINATE"},
                           !.pump = TRUE]

Exit(y) == SignalError(IF y.call THEN Terminated(y) ELSE y, "NONE")

(* Win32CallClient::OnMessage.                                             *)
Executed(y, c) ==
  CASE c = "CALL" /\ ~y.call ->
         [Post(y, "CALLING") EXCEPT !.call = TRUE, !.unsent = @ \cup {"INITIATE"},
                                    !.pump = TRUE]
    [] c = "HANGUP" /\ y.call -> Terminated(y)
    [] c = "EXIT"             -> Exit(y)
    [] c = "REJECT_CALL"      -> [y EXCEPT !.call = FALSE]
    [] OTHER                  -> y

-----------------------------------------------------------------------------
(* The signalling thread: its steps.                                       *)
Becomes(y) ==
  /\ x' = [y EXCEPT !.posted = <<>>]
  /\ uiQueue' = uiQueue \o y.posted

InLoop == thread = "loop" /\ ~x.stopping

SvcLoop ==
  /\ thread = "started"
  /\ thread' = "loop"
  /\ x' = Fresh
  /\ UNCHANGED <<dialog, peer, uiQueue, mailbox>>

(* The pump runs every task: the client first, then the stanzas' senders.  *)
(* A host that cannot be reached at all is known at once.                  *)
Connects(y) == [y EXCEPT !.task = "RESPONSE", !.socket = "connecting"]

RunTasks ==
  /\ InLoop /\ x.pump
  /\ LET y == [x EXCEPT !.pump = FALSE]
     IN \/ /\ x.task = "START"
           /\ Becomes(Connects(y))
           /\ UNCHANGED peer
        \/ /\ x.task = "START" /\ "unreachable" \in Faults
           /\ Becomes(EnsureClosed([y EXCEPT !.task = "ERROR"]))
           /\ UNCHANGED peer
        \/ /\ x.task = "RESPONSE"
           /\ Becomes([y EXCEPT !.unsent = {}])
           /\ peer' = IF "TERMINATE" \in x.unsent THEN "ended"
                      ELSE IF "INITIATE" \in x.unsent THEN "called" ELSE peer
  /\ UNCHANGED <<dialog, thread, mailbox>>

Idle == InLoop /\ ~x.pump

SocketEvent(y) ==
  /\ Becomes(y)
  /\ UNCHANGED <<dialog, thread, peer, mailbox>>

OnSocketConnected ==
  /\ Idle /\ x.socket = "connecting" /\ x.engine = "START"
  /\ SocketEvent(Entered([x EXCEPT !.socket = "connected"], "OPENING"))

SignalBound ==
  /\ Idle /\ x.socket = "connected" /\ x.engine = "OPENING"
  /\ SocketEvent(Entered(x, "OPEN"))

(* A stream error, a failed authentication or the end of the stream.       *)
StreamEnds ==
  /\ Idle /\ x.socket = "connected" /\ "stream" \in Faults
  /\ SocketEvent(SignalError(x, "STREAM"))

(* The socket's SignalCloseEvent is connected to nothing: nobody notices.  *)
SocketFails ==
  /\ thread = "loop"
  /\ \/ x.socket = "connecting" /\ "refused" \in Faults
     \/ x.socket = "connected" /\ "lost" \in Faults
  /\ x' = [x EXCEPT !.socket = "dead"]
  /\ UNCHANGED <<dialog, thread, peer, uiQueue, mailbox>>

(* The phone client of a CALL is whatever the stack holds before InitPhone *)
(* has set it: the process crashes.                                        *)
TakeCommand ==
  /\ Idle /\ wake
  /\ wake' = FALSE
  /\ IF command = "CALL" /\ ~x.phone
     THEN thread' = "crashed" /\ UNCHANGED <<x, uiQueue>>
     ELSE Becomes(Executed(x, command)) /\ UNCHANGED thread
  /\ UNCHANGED <<dialog, peer, command>>

(* Loop returns; what is still posted is lost.                             *)
LoopReturns ==
  /\ thread = "loop" /\ x.stopping
  /\ thread' = "ended"
  /\ UNCHANGED <<dialog, x, peer, uiQueue, mailbox>>

-----------------------------------------------------------------------------
(* The UI thread.                                                          *)
Store(c) == command' = c /\ wake' = TRUE

UIFree == ui = <<>> /\ ~gone /\ thread # "crashed"

(* Mutated: the thread is not waited for.                                  *)
StopAtOnce ==
  /\ running' = FALSE
  /\ UNCHANGED <<thread, x, peer, gone, logins, mailbox>>

(* Thread::Stop of beat waits for the thread, however long it takes.       *)
Stop ==
  /\ thread = "ended"
  /\ thread' = "none"
  /\ running' = FALSE
  /\ UNCHANGED <<x, peer, gone, logins, mailbox>>

Run ==
  /\ thread = "none"
  /\ running' = TRUE
  /\ thread' = "started"
  /\ peer' = "none"
  /\ logins' = logins + 1
  /\ UNCHANGED <<x, gone, mailbox>>

HandlerStep ==
  /\ ui # <<>> /\ thread # "crashed"
  /\ \/ /\ Head(ui) \in {"EXIT", "CALL", "HANGUP"}
        /\ Store(Head(ui))
        /\ UNCHANGED <<running, thread, x, peer, gone, logins>>
     \/ Head(ui) = "Stop" /\ Stop
     \/ Head(ui) = "Run" /\ Run
     \/ /\ Head(ui) = "Gone"
        /\ gone' = TRUE
        /\ UNCHANGED <<running, thread, x, peer, logins, mailbox>>
  /\ ui' = Tail(ui)
  /\ UNCHANGED <<buttons, uiQueue>>

OnBnClickedLogin ==
  /\ logins < MaxLogins
  /\ ui' = IF running THEN <<"Stop", "Run">> ELSE <<"Run">>

OnBnClickedLogout == ui' = IF running THEN <<"EXIT", "Stop">> ELSE <<>>

(* A button is pressed when nothing is posted.                             *)
Click(button) ==
  /\ UIFree /\ uiQueue = <<>> /\ button \in buttons
  /\ \/ button = "Login" /\ OnBnClickedLogin
     \/ button = "Logout" /\ OnBnClickedLogout
     \/ button = "Call" /\ ui' = <<"CALL">>
     \/ button = "Hangup" /\ ui' = <<"HANGUP">>
  /\ UNCHANGED <<gone, running, buttons, logins, thread, x, peer, uiQueue, mailbox>>

(* The key looks at the status of the call, not at the buttons.            *)
OnHandlePhone ==
  /\ UIFree /\ Keys # {} /\ Len(uiQueue) < MaxQueue
  /\ ui' = <<"CALL">>
  /\ UNCHANGED <<gone, running, buttons, logins, thread, x, peer, uiQueue, mailbox>>

Destructor ==
  /\ UIFree
  /\ ui' = IF running THEN <<"EXIT", "Stop", "Gone">> ELSE <<"Gone">>
  /\ UNCHANGED <<gone, running, buttons, logins, thread, x, peer, uiQueue, mailbox>>

(* Mutated: Logout and Call stay enabled.                                  *)
EnabledStays(notice, old) ==
  CASE notice = "LOGGINGIN"  -> {}
    [] notice = "LOGGEDIN"   -> {"Logout", "Call"}
    [] notice = "CALLING"    -> {"Logout", "Hangup"}
    [] notice = "ENDED"      -> {"Logout", "Call"}
    [] notice = "DISCONNECT" -> old \cup {"Login"}

(* What a message leaves enabled.                                          *)
Enabled(notice, old) ==
  CASE notice = "LOGGINGIN"  -> {}
    [] notice = "LOGGEDIN"   -> {"Logout", "Call"}
    [] notice = "CALLING"    -> {"Logout", "Hangup"}
    [] notice = "ENDED"      -> {"Logout", "Call"}
    [] notice = "DISCONNECT" -> {"Login"}

HandleMessage ==
  /\ UIFree /\ uiQueue # <<>>
  /\ buttons' = Enabled(Head(uiQueue), buttons)
  /\ uiQueue' = Tail(uiQueue)
  /\ UNCHANGED <<ui, gone, running, logins, thread, x, peer, mailbox>>

(* A helper thread of a call gives its command.                            *)
HelperGives(c) ==
  /\ thread # "crashed" /\ ~gone
  /\ Store(c)
  /\ UNCHANGED <<dialog, thread, x, peer, uiQueue>>

-----------------------------------------------------------------------------
(* OnInitDialog logs in.                                                   *)
Init ==
  /\ ui = <<"Run">>
  /\ gone = FALSE
  /\ running = FALSE
  /\ thread = "none"
  /\ x = Fresh
  /\ peer = "none"
  /\ buttons = {"Login"}
  /\ uiQueue = <<>>
  /\ command = "UNKNOWN"
  /\ wake = FALSE
  /\ logins = 0

Network == OnSocketConnected \/ SignalBound \/ StreamEnds \/ SocketFails

Next ==
  \/ SvcLoop \/ RunTasks \/ TakeCommand \/ LoopReturns
  \/ Network
  \/ HandlerStep \/ HandleMessage \/ Destructor \/ OnHandlePhone
  \/ \E b \in Clicks : Click(b)
  \/ \E c \in Others : HelperGives(c)

Spec == Init /\ [][Next]_vars

(* The two threads run; nothing is assumed of the network and the user.    *)
Fairness ==
  /\ WF_vars(SvcLoop) /\ WF_vars(RunTasks) /\ WF_vars(TakeCommand) /\ WF_vars(LoopReturns)
  /\ WF_vars(HandlerStep) /\ WF_vars(HandleMessage)

FairSpec == Spec /\ Fairness

-----------------------------------------------------------------------------
Steps == {"EXIT", "CALL", "HANGUP", "Stop", "Run", "Gone"}

Stacks ==
  [engine : {"START", "OPENING", "OPEN", "CLOSED"}, error : {"NONE", "STREAM"},
   task : {"START", "RESPONSE", "ERROR"}, closed : BOOLEAN,
   socket : {"new", "connecting", "connected", "closed", "dead"}, pump : BOOLEAN,
   stopping : BOOLEAN, worker : {"none", "running", "stopped"}, phone : BOOLEAN,
   call : BOOLEAN, unsent : SUBSET {"INITIATE", "TERMINATE"}, posted : {<<>>}]

Notices == {"LOGGINGIN", "LOGGEDIN", "CALLING", "ENDED", "DISCONNECT"}

TypeOK ==
  /\ ui \in Seq(Steps) /\ gone \in BOOLEAN /\ running \in BOOLEAN
  /\ thread \in {"none", "started", "loop", "ended", "crashed"}
  /\ x \in Stacks
  /\ peer \in {"none", "called", "ended"}
  /\ buttons \subseteq {"Login", "Logout", "Call", "Hangup"}
  /\ uiQueue \in Seq(Notices)
  /\ command \in {"UNKNOWN", "CALL", "HANGUP", "EXIT"} \cup Others
  /\ wake \in BOOLEAN /\ logins \in Nat

(* The dialog knows of a signalling thread it would have to wait for, no   *)
(* thread is left when the dialog is destroyed, and no worker thread when  *)
(* its signalling thread has ended, however that came about.               *)
NothingOutlives ==
  /\ thread \in {"started", "loop", "ended"} => running
  /\ gone => thread = "none"
  /\ thread \notin {"loop", "crashed"} => x.worker # "running"

(* A call that was made and that REJECT_CALL made the call client forget   *)
(* (Win32CallClient.cpp:362-370) while it has not ended: nobody has told   *)
(* the peer.                                                               *)
Forgotten == ~x.call /\ (peer = "called" \/ "INITIATE" \in x.unsent)

(* When all is told, the dialog offers Login after a login has ended, and  *)
(* Logout while one lasts.  It offers Hangup in every call the call client *)
(* is in, and else only while a call goes on that it has forgotten.  (How  *)
(* the peer or the timer ends that one is CallClient's subject.)           *)
ButtonsFit ==
  UIFree /\ uiQueue = <<>> =>
    /\ thread \in {"none", "ended"} => buttons = {"Login"}
    /\ thread = "loop" /\ x.engine = "OPEN" =>
         /\ "Logout" \in buttons
         /\ x.call => "Hangup" \in buttons
         /\ "Hangup" \in buttons => x.call \/ Forgotten

(* The thread is waited for and its EXIT is not there to be read: Login,   *)
(* which gives none, was pressed while a login was tried, or a helper      *)
(* thread gave another command after it.                                   *)
ExitMissing ==
  /\ thread = "loop"
  /\ \/ ui = <<"Stop", "Run">>
     \/ ui \in {<<"Stop">>, <<"Stop", "Gone">>} /\ command # "EXIT"

(* The dialog hangs in a handler in no other case: an EXIT that is read    *)
(* ends the thread whatever the connection is in the middle of.            *)
HandlerReturns == ui # <<>> ~> (ui = <<>> \/ thread = "crashed" \/ ExitMissing)

(* A call is ended by pressing Hangup "or 'Logout' or close the dialog"    *)
(* (Usage.txt:17): when a login was ended from here, who was called knows. *)
LogoutEndsCall == thread = "ended" /\ x.error = "NONE" => peer # "called"
=============================================================================

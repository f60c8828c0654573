------------------------------ MODULE CallClient ------------------------------
(***************************************************************************)
(* The signalling thread of MyJingle: the call client of the application   *)
(* (src/LibJingle/Win32CallClient.cpp) and the libjingle objects it drives *)
(* on the same thread: the sessions, the calls that own them, the session  *)
(* manager, the phone client and the message queue of the thread.          *)
(*                                                                         *)
(* Everything here runs on one thread, so a handler is one step; but a     *)
(* handler calls back: Session::set_state signals the phone client and the *)
(* call client before it posts MSG_STATE, and they may change the session  *)
(* again.  A handler is therefore a function of the client's state, and a  *)
(* callback is the composition of two such functions.                      *)
(*                                                                         *)
(* A session and the Call that owns it are named by one id: each call has  *)
(* exactly one session here.  call_ and session_ of the call client are    *)
(* always assigned together and are the one field "call".  The peer is     *)
(* another MyJingle: it never sends modify or redirect.                    *)
(***************************************************************************)
EXTENDS Naturals, Sequences, FiniteSets

CONSTANTS
  Sessions,      \* session ids, each used for at most one call
  None,          \* the null pointer
  Commands       \* the commands the dialog may give

Ringing == {"SENTINITIATE", "RECEIVEDINITIATE"}
Talking == {"SENTACCEPT", "RECEIVEDACCEPT", "INPROGRESS"}
Live    == Ringing \cup Talking
Over    == {"SENTREJECT", "RECEIVEDREJECT", "SENTTERMINATE", "RECEIVEDTERMINATE"}
\* "absent": no Session object yet; "destroyed": it has been deleted
States  == Live \cup Over \cup {"absent", "destroyed"}

Notices  == {"INCOMING", "CALLING", "ANSWERED", "NOT_ANSWERED", "IN_PROGRESS",
             "TERMINATE", "SENTTERMINATE", "UNSET"}
Closing  == {"NOT_ANSWERED", "TERMINATE", "SENTTERMINATE"}
Stanzas  == {"INITIATE", "ACCEPT", "REJECT", "TERMINATE"}
\* codecs: an INITIATE offers a codec that the media engine has
Incoming == [type : {"INITIATE"}, sess : Sessions, codecs : BOOLEAN]
  \cup [type : {"ACCEPT", "REJECT", "TERMINATE", "ERROR"}, sess : Sessions, codecs : {TRUE}]

ASSUME CallClientConstants ==
  /\ None \notin Sessions
  /\ Commands \subseteq {"CALL", "HANGUP", "ACCEPT_CALL", "REJECT_CALL", "STR_CHAT"}

Messages == [id : {"STATE", "ERROR", "TIMEOUT", "AUTODESTROY"}, sess : Sessions]
              \cup [id : {"PUMP", "CLEARED"}, sess : {None}]
Pump == [id |-> "PUMP", sess |-> None]

VARIABLES
  client,      \* the objects of the signalling thread, a record:
               \*   state, error, timer: of each session (timer: a delayed
               \*     MSG_TIMEOUT is pending)
               \*   calls: the Call objects that exist, focus: focus_call_
               \*   call: call_ and session_ of Win32CallClient
               \*   queue: msgq_ of the thread
               \*   sent, posted: the stanzas the last step sent, and what it
               \*     posted to the dialog's window
  inbox,       \* stanzas the Receiver task has queued
  peer,        \* where the other side of each session is
  waiting      \* the thread is inside PhysicalSocketServer::Wait

vars == <<client, inbox, peer, waiting>>

Objects == [state  : [Sessions -> States],
            error  : [Sessions -> {"NONE", "TIME", "RESPONSE"}],
            timer  : [Sessions -> BOOLEAN],
            calls  : SUBSET Sessions,
            focus  : Sessions \cup {None},
            call   : Sessions \cup {None},
            queue  : Seq(Messages),
            sent   : Seq(Stanzas \X Sessions),
            posted : Seq(Notices)]

Init ==
  /\ client = [state  |-> [s \in Sessions |-> "absent"],
               error  |-> [s \in Sessions |-> "NONE"],
               timer  |-> [s \in Sessions |-> FALSE],
               calls  |-> {},
               focus  |-> None,
               call   |-> None,
               queue  |-> <<>>,
               sent   |-> <<>>,
               posted |-> <<>>]
  /\ inbox = <<>>
  /\ peer = [s \in Sessions |-> "idle"]
  /\ waiting = TRUE

-----------------------------------------------------------------------------
(* The parts of a handler.                                                 *)
\* mutated: the wrong field is assigned
EnterError(c, s, st) == [c EXCEPT !.error[s] = st]
Enter(c, s, st)     == [c EXCEPT !.state[s] = st]
Transmit(c, s, st)  == [c EXCEPT !.sent = Append(@, <<st, s>>)]
Notify(c, type)     == [c EXCEPT !.posted = Append(@, type)]
Enqueue(c, id, s)   == [c EXCEPT !.queue = Append(@, [id |-> id, sess |-> s])]

(* MessageQueue::Clear removes messages; here they keep their place and do *)
(* nothing when their turn comes.                                          *)
Clear(c, s, ids) ==
  [c EXCEPT !.queue = [i \in DOMAIN @ |->
                         IF @[i].sess = s /\ @[i].id \in ids
                         THEN [id |-> "CLEARED", sess |-> None] ELSE @[i]],
            !.timer[s] = @ /\ "TIMEOUT" \notin ids]

(* Mutated: the pointer is kept; the end of a call is not told.            *)
OnSentTerminateKeepsCall(c, s) == Notify(c, "SENTTERMINATE")
OnSentTerminateSilent(c, s) == [c EXCEPT !.call = IF @ = s THEN None ELSE @]

(* Win32CallClient::OnSessionState for SENTTERMINATE.  Its call->Terminate *)
(* finds the session already in that state.                                *)
OnSentTerminate(c, s) ==
  Notify([c EXCEPT !.call = IF @ = s THEN None ELSE @], "SENTTERMINATE")

(* Session::Terminate.  Only a redirected session sends nothing.           *)
Terminate(c, s) ==
  IF c.state[s] = "SENTTERMINATE"
  THEN c
  ELSE Enqueue(OnSentTerminate(
         Enter(Transmit(c, s, "TERMINATE"), s, "SENTTERMINATE"), s), "STATE", s)

(* A state for which OnSessionState has no case is announced by a          *)
(* CCallChangeMessage whose type was never assigned.                       *)
Reject(c, s) ==
  IF c.state[s] # "RECEIVEDINITIATE"
  THEN c
  ELSE Enqueue(Notify(
         Enter(Transmit(c, s, "REJECT"), s, "SENTREJECT"), "UNSET"), "STATE", s)

Accept(c, s) ==
  IF c.state[s] # "RECEIVEDINITIATE"
  THEN c
  ELSE Enqueue(Notify(
         Enter(Transmit(c, s, "ACCEPT"), s, "SENTACCEPT"), "UNSET"), "STATE", s)

SetError(c, s, error) ==
  IF c.error[s] = error
  THEN c
  ELSE Enqueue([c EXCEPT !.error[s] = error], "ERROR", s)

(* Mutated: the call is deleted as soon as it is terminated.               *)
EndMineDeletes(c, s) ==
  IF c.call = s THEN [Terminate(c, s) EXCEPT !.call = None, !.calls = @ \ {s}] ELSE c

(* The call client ends the call it is in; other calls are not touched.    *)
EndMine(c, s) == IF c.call = s THEN [Terminate(c, s) EXCEPT !.call = None] ELSE c

-----------------------------------------------------------------------------
(* Stanzas: SessionManager::OnIncomingMessage and Session::OnIncomingMessage. *)

(* Mutated: a second call is not turned away.                              *)
AnnounceAlways(c, s) == Notify([c EXCEPT !.call = s], "INCOMING")

(* Win32CallClient::OnSessionState for RECEIVEDINITIATE: one call at most. *)
Announce(c, s) ==
  IF c.call = None
  THEN Notify([c EXCEPT !.call = s], "INCOMING")
  ELSE Notify(Reject(c, s), "UNSET")

(* The phone client is told first and rejects a call without a common      *)
(* codec; the call client is then told of RECEIVEDINITIATE all the same.   *)
OnInitiate(c, s, codecs) ==
  LET created == Enter([c EXCEPT !.calls = @ \cup {s}], s, "RECEIVEDINITIATE")
      checked == IF codecs THEN created ELSE Reject(created, s)
  IN  Enqueue(Announce(checked, s), "STATE", s)

OnAccept(c, s) ==
  IF c.state[s] = "RECEIVEDACCEPT"
  THEN c
  ELSE Enqueue(Notify(Enter(c, s, "RECEIVEDACCEPT"), "ANSWERED"), "STATE", s)

OnReject(c, s) ==
  IF c.state[s] = "RECEIVEDREJECT"
  THEN c
  ELSE Enqueue(Notify(
         EndMine(Enter(c, s, "RECEIVEDREJECT"), s), "NOT_ANSWERED"), "STATE", s)

OnTerminate(c, s) ==
  IF c.state[s] = "RECEIVEDTERMINATE"
  THEN c
  ELSE Enqueue(Notify(
         EndMine(Enter(c, s, "RECEIVEDTERMINATE"), s), "TERMINATE"), "STATE", s)

Exists(c, s) == c.state[s] \notin {"absent", "destroyed"}

OnIncomingMessage(c, m) ==
  IF m.type = "INITIATE" THEN OnInitiate(c, m.sess, m.codecs)
  ELSE IF ~Exists(c, m.sess) THEN c
  ELSE IF m.type = "ACCEPT" THEN OnAccept(c, m.sess)
  ELSE IF m.type = "REJECT" THEN OnReject(c, m.sess)
  ELSE IF m.type = "TERMINATE" THEN OnTerminate(c, m.sess)
  ELSE SetError(c, m.sess, "RESPONSE")

-----------------------------------------------------------------------------
(* Posted messages: Session::OnMessage and Call::OnMessage.                *)

(* Mutated: the call is not asked to check whether it is empty.            *)
DestroySessionOnly(c, s) ==
  Clear(Enter(c, s, "destroyed"), s, {"STATE", "ERROR", "TIMEOUT"})

(* SessionManager::DestroySession, Call::RemoveSession and ~Session.       *)
DestroySession(c, s) ==
  Enqueue(Clear([Enter(c, s, "destroyed") EXCEPT !.error[s] = "NONE"],
                s, {"STATE", "ERROR", "TIMEOUT"}), "AUTODESTROY", s)

(* SetFocus(call_), whatever call the session belongs to; then the         *)
(* session's timer becomes the one for lost writability.                   *)
Progress(c, s, writable) ==
  LET focused == [Enter(c, s, "INPROGRESS") EXCEPT !.focus = c.call]
      told    == Enqueue(Notify(focused, "IN_PROGRESS"), "STATE", s)
  IN  [Clear(told, s, {"TIMEOUT"}) EXCEPT !.timer[s] = ~writable]

OnState(c, s, writable) ==
  IF c.state[s] \in {"SENTACCEPT", "RECEIVEDACCEPT"} THEN Progress(c, s, writable)
  ELSE IF c.state[s] \in {"SENTREJECT", "RECEIVEDREJECT"} THEN Terminate(c, s)
  ELSE IF c.state[s] \in {"SENTTERMINATE", "RECEIVEDTERMINATE"} THEN DestroySession(c, s)
  ELSE c

(* Mutated: the call is deleted while it has the focus.                    *)
DestroyCallKeepsFocus(c, s) == [c EXCEPT !.calls = @ \ {s}]

DestroyCall(c, s) ==
  [c EXCEPT !.focus = IF @ = s THEN None ELSE @, !.calls = @ \ {s}]

OnPosted(c, m, writable) ==
  IF m.id = "STATE" THEN OnState(c, m.sess, writable)
  ELSE IF m.id = "TIMEOUT" THEN SetError(c, m.sess, "TIME")
  ELSE IF m.id = "ERROR" THEN Terminate(c, m.sess)
  ELSE IF m.id = "AUTODESTROY" THEN DestroyCall(c, m.sess)
  ELSE c

-----------------------------------------------------------------------------
(* Commands of the dialog: Win32CallClient::OnMessage.                     *)

(* Mutated: the session timer is not started.                              *)
InitiateUntimed(c, s) ==
  Enqueue(Notify(Enter(
    Transmit([c EXCEPT !.calls = @ \cup {s}, !.call = s], s, "INITIATE"),
    s, "SENTINITIATE"), "CALLING"), "STATE", s)

Initiate(c, s) ==
  LET created == Transmit([c EXCEPT !.calls = @ \cup {s}, !.call = s], s, "INITIATE")
  IN  [Enqueue(Notify(Enter(created, s, "SENTINITIATE"), "CALLING"), "STATE", s)
         EXCEPT !.timer[s] = TRUE]

(* new is the id of the session that CALL creates.                         *)
OnCommand(c, command, new) ==
  IF command = "CALL" /\ c.call = None THEN Initiate(c, new)
  ELSE IF command = "HANGUP" /\ c.call # None THEN EndMine(c, c.call)
  ELSE IF command = "ACCEPT_CALL" /\ c.call # None THEN Accept(c, c.call)
  ELSE IF command = "REJECT_CALL" /\ c.call # None THEN
    [Reject(c, c.call) EXCEPT !.call = None]
  ELSE c

-----------------------------------------------------------------------------
(* A handler starts with nothing sent and nothing posted yet.              *)
Idle == [client EXCEPT !.sent = <<>>, !.posted = <<>>]

Fresh == {s \in Sessions : client.state[s] = "absent" /\ peer[s] = "idle"}

(* The adapter's event is the last one Wait looks at: it is served only    *)
(* when no posted message has signalled the wake-up event before it.       *)
Command(command) ==
  /\ waiting
  /\ client.queue = <<>>
  /\ \/ /\ command = "CALL" /\ client.call = None
        /\ \E s \in Fresh : /\ client' = OnCommand(Idle, command, s)
                            /\ peer' = [peer EXCEPT ![s] = "invited"]
     \/ /\ ~(command = "CALL" /\ client.call = None)
        /\ client' = OnCommand(Idle, command, None)
        /\ UNCHANGED peer
  /\ UNCHANGED <<inbox, waiting>>

(* What a peer may send in a session, in the order it sends it: a peer     *)
(* that called or answered can only terminate, and nothing follows that.   *)
(* An error is the response to a stanza of this client.                    *)
PeerMay(type, s) ==
  \/ type = "INITIATE" /\ s \in Fresh
  \/ type \in {"ACCEPT", "REJECT"} /\ peer[s] = "invited"
  \/ type \in {"TERMINATE", "ERROR"} /\ peer[s] \in {"invited", "joined"}

PeerAfter(m) ==
  [peer EXCEPT ![m.sess] = IF m.type \in {"TERMINATE", "ERROR"} THEN "done" ELSE "joined"]

(* Mutated: stanzas are read, and handled first, at any time.              *)
ArriveAnyTime(m) ==
  /\ PeerMay(m.type, m.sess)
  /\ inbox' = Append(inbox, m)
  /\ client' = IF inbox = <<>> THEN [Idle EXCEPT !.queue = <<Pump>> \o @] ELSE Idle
  /\ peer' = PeerAfter(m)
  /\ UNCHANGED waiting

(* A stanza is read from the socket inside Wait.  The Receiver queues it;  *)
(* the first one wakes the task, which posts the pump's message.           *)
Arrive(m) ==
  /\ waiting
  /\ PeerMay(m.type, m.sess)
  /\ inbox' = Append(inbox, m)
  /\ client' = IF inbox = <<>> THEN [Idle EXCEPT !.queue = Append(@, Pump)] ELSE Idle
  /\ peer' = PeerAfter(m)
  /\ UNCHANGED waiting

(* MessageQueue::Get moves a delayed message that is due to the queue.     *)
(* Bound: session_timeout is long enough for the one before to be handled. *)
TimerFires(s) ==
  /\ client.timer[s]
  /\ \A i \in DOMAIN client.queue : client.queue[i] # [id |-> "TIMEOUT", sess |-> s]
  /\ client' = Enqueue([Idle EXCEPT !.timer[s] = FALSE], "TIMEOUT", s)
  /\ waiting' = FALSE
  /\ UNCHANGED <<inbox, peer>>

Popped == [Idle EXCEPT !.queue = Tail(@)]

(* Get returns to Wait only when the queue is empty.                       *)
WaitsIfIdle == waiting' = (client'.queue = <<>>)

Dispatch ==
  /\ client.queue # <<>>
  /\ Head(client.queue).id # "PUMP"
  /\ \E writable \in BOOLEAN : client' = OnPosted(Popped, Head(client.queue), writable)
  /\ WaitsIfIdle
  /\ UNCHANGED <<inbox, peer>>

(* XmppPump::OnMessage runs the tasks until none can make progress: the    *)
(* Receiver handles every stanza it has.  The message stays at the head of *)
(* the queue until it is done, nothing else is dispatched meanwhile.       *)
HandleStanza ==
  /\ client.queue # <<>>
  /\ Head(client.queue).id = "PUMP"
  /\ inbox # <<>>
  /\ client' = OnIncomingMessage(IF Len(inbox) = 1 THEN Popped ELSE Idle, Head(inbox))
  /\ inbox' = Tail(inbox)
  /\ WaitsIfIdle
  /\ UNCHANGED peer

(* The worker thread reports that a socket became (un)writable; only a     *)
(* session in progress cares.  The report only decides whether the timer   *)
(* runs, so it is enough to let it come when nothing else is posted.       *)
OnSocketState(s, writable) ==
  /\ waiting
  /\ client.queue = <<>>
  /\ client.state[s] = "INPROGRESS"
  /\ client' = IF writable THEN Clear(Idle, s, {"TIMEOUT"})
                           ELSE [Idle EXCEPT !.timer[s] = TRUE]
  /\ UNCHANGED <<inbox, peer, waiting>>

SignallingThread ==
  \/ Dispatch
  \/ HandleStanza
  \/ \E s \in Sessions : TimerFires(s)
  \/ \E s \in Sessions, writable \in BOOLEAN : OnSocketState(s, writable)

Next ==
  \/ SignallingThread
  \/ \E m \in Incoming : Arrive(m)
  \/ \E command \in Commands : Command(command)

(* The thread serves its queue (Thread::Loop); the clock does not stop.    *)
Fairness ==
  /\ WF_vars(Dispatch)
  /\ WF_vars(HandleStanza)
  /\ \A s \in Sessions : WF_vars(TimerFires(s))

Spec == Init /\ [][Next]_vars
FairSpec == Spec /\ Fairness

-----------------------------------------------------------------------------
TypeOK ==
  /\ client \in Objects
  /\ inbox \in Seq(Incoming)
  /\ peer \in [Sessions -> {"idle", "invited", "joined", "done"}]
  /\ waiting \in BOOLEAN

(* call_ and session_ are never dangling: the session they point at exists *)
(* and is not about to be destroyed, and the Call exists too.              *)
NoDanglingCall ==
  client.call # None =>
    /\ client.state[client.call] \in Live \cup {"SENTREJECT"}
    /\ client.call \in client.calls

(* focus_call_ points at a Call that exists.                               *)
FocusExists == client.focus # None => client.focus \in client.calls

(* A call outlives its session: whoever holds a session that exists can    *)
(* reach the Call that forwards its states.                                *)
SessionHasCall == \A s \in Sessions : Exists(client, s) => s \in client.calls

(* "Only one call at a time" (src/Usage.txt): no two sessions are alive.   *)
OneCallAtATime ==
  \A s, t \in Sessions : client.state[s] \in Live /\ client.state[t] \in Live => s = t

(* The step that ends a call tells the dialog so.                          *)
EndIsAnnounced ==
  [][\A s \in Sessions :
       client.state[s] \in Live /\ client'.state[s] \in Over \ {"SENTREJECT"}
         => \E i \in DOMAIN client'.posted : client'.posted[i] \in Closing]_vars

(* The client's sessions implement the abstract lifecycle.                 *)
PhaseOf(state) ==
  IF state = "absent" THEN "none"
  ELSE IF state \in Ringing THEN "ringing"
  ELSE IF state \in Talking THEN "talking"
  ELSE IF state \in Over THEN "over"
  ELSE "gone"

Lifecycle == INSTANCE CallLifecycle
               WITH phase <- [s \in Sessions |-> PhaseOf(client.state[s])]

(* No session that is over comes back to life, and each is destroyed.      *)
CallsAreDisposed == Lifecycle!Spec

(* A session that is over sends no (further) terminate, although the guard *)
(* of Session::Terminate lets one that received a terminate do so          *)
(* (src/References/talk/p2p/base/session.cc:247).                          *)
TerminateSentOnce ==
  [][\A s \in Sessions :
       client.state[s] \in {"SENTTERMINATE", "RECEIVEDTERMINATE"}
         => \A i \in DOMAIN client'.sent : client'.sent[i] # <<"TERMINATE", s>>]_vars

(* A call the peer never answers does not ring for ever: the session timer *)
(* started by Initiate ends it.                                            *)
UnansweredCallEnds ==
  \A s \in Sessions :
    client.state[s] = "SENTINITIATE" ~> client.state[s] # "SENTINITIATE"

(* Every Call deletes itself once its session is gone.                     *)
CallsAreDeleted ==
  \A s \in Sessions : client.state[s] = "destroyed" ~> s \notin client.calls
=============================================================================

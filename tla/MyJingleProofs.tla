----------------------------- MODULE MyJingleProofs -----------------------------
(***************************************************************************)
(* Proofs about the dialog and the signalling thread together, for any     *)
(* numbers of calls and of helper threads: what the dialog believes, once  *)
(* all is told, of the calls that the signalling thread has.               *)
(*                                                                         *)
(* CallClientProofs and DialogProofs are instantiated: their invariants    *)
(* hold of the parts (Types), and CallClientProofs says what a step of the *)
(* signalling thread tells the dialog (Informs).  The two invariants here  *)
(* relate the client's sessions to the messages and commands that are      *)
(* still under way.                                                        *)
(***************************************************************************)
EXTENDS MyJingle, Adapter, SequenceTheorems, TLAPS

CP == INSTANCE CallClientProofs WITH Commands <- Given, given <- Given
UP == INSTANCE DialogProofs WITH MaxQueue <- 0, Clicks <- Buttons, Keys <- BoxKeys

(* MyJingle's own instances of the two modules have the same steps.        *)
LEMMA SameClient ==
  /\ Client!SignallingThread <=> CP!SignallingThread
  /\ Client!Incoming = CP!Incoming
  /\ \A m : Client!Arrive(m) <=> CP!Arrive(m)
  /\ \A c : Client!Command(c) <=> CP!Command(c)
<1>1. \A c, s, x :
        /\ Client!Exists(c, s) = CP!Exists(c, s)
        /\ Client!Enter(c, s, x) = CP!Enter(c, s, x)
        /\ Client!Transmit(c, s, x) = CP!Transmit(c, s, x)
        /\ Client!Notify(c, x) = CP!Notify(c, x)
        /\ Client!Enqueue(c, x, s) = CP!Enqueue(c, x, s)
        /\ Client!Clear(c, s, x) = CP!Clear(c, s, x)
        /\ Client!DestroyCall(c, s) = CP!DestroyCall(c, s)
  BY DEF Client!Exists, CP!Exists, Client!Enter, CP!Enter, Client!Transmit,
         CP!Transmit, Client!Notify, CP!Notify, Client!Enqueue, CP!Enqueue,
         Client!Clear, CP!Clear, Client!DestroyCall, CP!DestroyCall
<1>2. \A c, s, x :
        /\ Client!OnSentTerminate(c, s) = CP!OnSentTerminate(c, s)
        /\ Client!Reject(c, s) = CP!Reject(c, s)
        /\ Client!Accept(c, s) = CP!Accept(c, s)
        /\ Client!SetError(c, s, x) = CP!SetError(c, s, x)
        /\ Client!OnAccept(c, s) = CP!OnAccept(c, s)
        /\ Client!DestroySession(c, s) = CP!DestroySession(c, s)
        /\ Client!Progress(c, s, x) = CP!Progress(c, s, x)
        /\ Client!Initiate(c, s) = CP!Initiate(c, s)
  <2>1. \A c, s : Client!OnSentTerminate(c, s) = CP!OnSentTerminate(c, s)
    BY <1>1 DEF Client!OnSentTerminate, CP!OnSentTerminate
  <2>2. \A c, s : Client!Reject(c, s) = CP!Reject(c, s)
    BY <1>1 DEF Client!Reject, CP!Reject
  <2>3. \A c, s : Client!Accept(c, s) = CP!Accept(c, s)
    BY <1>1 DEF Client!Accept, CP!Accept
  <2>4. \A c, s, x : Client!SetError(c, s, x) = CP!SetError(c, s, x)
    BY <1>1 DEF Client!SetError, CP!SetError
  <2>5. \A c, s : Client!OnAccept(c, s) = CP!OnAccept(c, s)
    BY <1>1 DEF Client!OnAccept, CP!OnAccept
  <2>6. \A c, s : Client!DestroySession(c, s) = CP!DestroySession(c, s)
    BY <1>1 DEF Client!DestroySession, CP!DestroySession
  <2>7. \A c, s, x : Client!Progress(c, s, x) = CP!Progress(c, s, x)
    BY <1>1 DEF Client!Progress, CP!Progress
  <2>8. \A c, s : Client!Initiate(c, s) = CP!Initiate(c, s)
    BY <1>1 DEF Client!Initiate, CP!Initiate
  <2> QED
    BY <2>1, <2>2, <2>3, <2>4, <2>5, <2>6, <2>7, <2>8
<1>3. \A c, s, x :
        /\ Client!Terminate(c, s) = CP!Terminate(c, s)
        /\ Client!Announce(c, s) = CP!Announce(c, s)
  BY <1>1, <1>2 DEF Client!Terminate, CP!Terminate, Client!Announce, CP!Announce
<1>4. \A c, s, x :
        /\ Client!EndMine(c, s) = CP!EndMine(c, s)
        /\ Client!OnInitiate(c, s, x) = CP!OnInitiate(c, s, x)
        /\ Client!OnState(c, s, x) = CP!OnState(c, s, x)
  BY <1>1, <1>2, <1>3
  DEF Client!EndMine, CP!EndMine, Client!OnInitiate, CP!OnInitiate, Client!OnState,
      CP!OnState
<1>5. \A c, s, x :
        /\ Client!OnReject(c, s) = CP!OnReject(c, s)
        /\ Client!OnTerminate(c, s) = CP!OnTerminate(c, s)
        /\ Client!OnPosted(c, s, x) = CP!OnPosted(c, s, x)
        /\ Client!OnCommand(c, x, s) = CP!OnCommand(c, x, s)
  BY <1>1, <1>2, <1>3, <1>4
  DEF Client!OnReject, CP!OnReject, Client!OnTerminate, CP!OnTerminate,
      Client!OnPosted, CP!OnPosted, Client!OnCommand, CP!OnCommand
<1>6. \A c, s, x :
        /\ Client!OnIncomingMessage(c, x) = CP!OnIncomingMessage(c, x)
  BY <1>1, <1>2, <1>3, <1>4, <1>5 DEF Client!OnIncomingMessage, CP!OnIncomingMessage
<1>7. /\ Client!Idle = CP!Idle /\ Client!Popped = CP!Popped
      /\ Client!WaitsIfIdle <=> CP!WaitsIfIdle
      /\ Client!Pump = CP!Pump /\ Client!Fresh = CP!Fresh
  BY DEF Client!Idle, CP!Idle, Client!Popped, CP!Popped, Client!WaitsIfIdle, CP!WaitsIfIdle,
         Client!Pump, CP!Pump, Client!Fresh, CP!Fresh
<1>8. Client!Dispatch <=> CP!Dispatch
  BY <1>5, <1>7 DEF Client!Dispatch, CP!Dispatch
<1>9. Client!HandleStanza <=> CP!HandleStanza
  BY <1>6, <1>7 DEF Client!HandleStanza, CP!HandleStanza
<1>10. \A s, writable : /\ Client!TimerFires(s) <=> CP!TimerFires(s)
                        /\ Client!OnSocketState(s, writable) <=> CP!OnSocketState(s, writable)
  BY <1>1, <1>7 DEF Client!TimerFires, CP!TimerFires, Client!OnSocketState, CP!OnSocketState
<1>11. \A m, type, s : /\ Client!PeerMay(type, s) <=> CP!PeerMay(type, s)
                       /\ Client!PeerAfter(m) = CP!PeerAfter(m)
  BY <1>7 DEF Client!PeerMay, CP!PeerMay, Client!PeerAfter, CP!PeerAfter
<1>12. \A m : Client!Arrive(m) <=> CP!Arrive(m)
  BY <1>7, <1>11 DEF Client!Arrive, CP!Arrive
<1>13. \A c : Client!Command(c) <=> CP!Command(c)
  BY <1>5, <1>7 DEF Client!Command, CP!Command
<1> QED
  BY <1>8, <1>9, <1>10, <1>12, <1>13
  DEF Client!SignallingThread, CP!SignallingThread, Client!Incoming, CP!Incoming

LEMMA SameDialog ==
  /\ (UI!HelperThreads <=> UP!HelperThreads)
  /\ (UI!HandleMessage <=> UP!HandleMessage)
  /\ (UI!SetEventAdapter <=> UP!SetEventAdapter)
  /\ (UI!BellEnds <=> UP!BellEnds)
  /\ \A b : (UI!Click(b) <=> UP!Click(b))
  /\ \A k : (UI!OnHandlePhone(k) <=> UP!OnHandlePhone(k))
<1>1. /\ UI!mail = UP!mail
      /\ UI!ui = UP!ui
      /\ UI!Idle = UP!Idle
      /\ UI!StopsPending = UP!StopsPending
      /\ UI!Notices = UP!Notices
      /\ UI!OnCall = UP!OnCall
      /\ UI!Closing = UP!Closing
      /\ UI!NoHelper = UP!NoHelper
      /\ UI!Cardinality(Helpers) = UP!Cardinality(Helpers)
  BY DEF UI!Cardinality, UP!Cardinality, UI!mail, UP!mail, UI!ui, UP!ui, UI!Idle,
         UP!Idle, UI!StopsPending, UP!StopsPending, UI!Notices, UP!Notices, UI!OnCall,
         UP!OnCall, UI!Closing, UP!Closing, UI!NoHelper, UP!NoHelper
<1>2. /\ \A k : UI!Answered(k) = UP!Answered(k)
      /\ \A k : UI!NotAnswered(k) = UP!NotAnswered(k)
      /\ \A k : UI!Events(k) = UP!Events(k)
      /\ \A k, o, e, t : UI!Reset(k, o, e, t) = UP!Reset(k, o, e, t)
  BY DEF UI!Answered, UP!Answered, UI!NotAnswered, UP!NotAnswered, UI!Events,
         UP!Events, UI!Reset, UP!Reset, UI!mail, UP!mail, UI!ui, UP!ui
<1>3. \A h : UI!WaitEnds(h) <=> UP!WaitEnds(h)
  BY <1>1, <1>2 DEF UI!WaitEnds, UP!WaitEnds, UI!mail, UP!mail, UI!ui, UP!ui
<1>4. \A h : UI!HelperSteps(h) <=> UP!HelperSteps(h)
  BY <1>1, <1>2 DEF UI!HelperSteps, UP!HelperSteps, UI!mail, UP!mail, UI!ui, UP!ui
<1>5. /\ \A a, b, c : UI!Ring(a, b, c) <=> UP!Ring(a, b, c)
      /\ \A c : UI!Give(c) <=> UP!Give(c)
      /\ \A e : UI!Set(e) <=> UP!Set(e)
      /\ \A k : UI!BellFor(k) = UP!BellFor(k)
  BY <1>1
  DEF UI!Ring, UP!Ring, UI!Give, UP!Give, UI!Set, UP!Set, UI!BellFor, UP!BellFor,
      UI!mail, UP!mail, UI!ui, UP!ui
<1>6. /\ UI!OnBnClickedCall <=> UP!OnBnClickedCall
      /\ UI!OnBnClickedHangup <=> UP!OnBnClickedHangup
      /\ UI!OnBnClickedSendmsg <=> UP!OnBnClickedSendmsg
  BY <1>1, <1>5
  DEF UI!OnBnClickedCall, UP!OnBnClickedCall, UI!OnBnClickedHangup,
      UP!OnBnClickedHangup, UI!OnBnClickedSendmsg, UP!OnBnClickedSendmsg, UI!mail,
      UP!mail, UI!ui, UP!ui
<1>7. \A b : UI!Click(b) <=> UP!Click(b)
  BY <1>6 DEF UI!Click, UP!Click, UI!mail, UP!mail, UI!ui, UP!ui
<1>8. \A k : UI!OnHandlePhone(k) <=> UP!OnHandlePhone(k)
  BY <1>1, <1>6 DEF UI!OnHandlePhone, UP!OnHandlePhone, UI!mail, UP!mail, UI!ui, UP!ui
<1>9. /\ \A t : UI!Engaged(t) <=> UP!Engaged(t)
      /\ UI!Closed <=> UP!Closed
  BY <1>5 DEF UI!Engaged, UP!Engaged, UI!Closed, UP!Closed, UI!mail, UP!mail, UI!ui, UP!ui
<1>10. \A t : UI!HandleType(t) <=> UP!HandleType(t)
  BY <1>1, <1>5, <1>9 DEF UI!HandleType, UP!HandleType, UI!mail, UP!mail, UI!ui, UP!ui
<1>11. UI!HandleMessage <=> UP!HandleMessage
  BY <1>1, <1>5, <1>10 DEF UI!HandleMessage, UP!HandleMessage, UI!mail, UP!mail, UI!ui, UP!ui
<1>12. /\ UI!SetEventAdapter <=> UP!SetEventAdapter
       /\ UI!BellEnds <=> UP!BellEnds
  BY <1>1
  DEF UI!SetEventAdapter, UP!SetEventAdapter, UI!BellEnds, UP!BellEnds, UI!mail,
      UP!mail, UI!ui, UP!ui
<1>13. UI!HelperThreads <=> UP!HelperThreads
  BY <1>3, <1>4 DEF UI!HelperThreads, UP!HelperThreads, UI!mail, UP!mail, UI!ui, UP!ui
<1> QED
  BY <1>7, <1>8, <1>11, <1>12, <1>13

-----------------------------------------------------------------------------
(* Sequences: where the elements of a longer and of a shorter one are.     *)
LEMMA ConcatIs ==
  ASSUME NEW S, NEW q \in Seq(S), NEW r \in Seq(S)
  PROVE  /\ q \o r \in Seq(S)
         /\ Len(q \o r) = Len(q) + Len(r) /\ Len(q) \in Nat /\ Len(r) \in Nat
         /\ \A i \in DOMAIN q : i \in DOMAIN (q \o r) /\ (q \o r)[i] = q[i]
         /\ \A i \in DOMAIN r : /\ Len(q) + i \in DOMAIN (q \o r)
                                /\ (q \o r)[Len(q) + i] = r[i]
         /\ r = <<>> => q \o r = q
<1>1. /\ q \o r \in Seq(S)
      /\ Len(q \o r) = Len(q) + Len(r) /\ Len(q) \in Nat /\ Len(r) \in Nat
      /\ \A i \in 1..(Len(q) + Len(r)) :
           (q \o r)[i] = IF i <= Len(q) THEN q[i] ELSE r[i - Len(q)]
  BY ConcatProperties, LenProperties
<1>2. DOMAIN q = 1..Len(q) /\ DOMAIN r = 1..Len(r) /\ DOMAIN (q \o r) = 1..(Len(q) + Len(r))
  BY <1>1, LenProperties
<1>3. r = <<>> => q \o r = q
  BY ConcatEmptySeq
<1>4. ASSUME NEW i \in DOMAIN q PROVE i \in DOMAIN (q \o r) /\ (q \o r)[i] = q[i]
  <2>1. i \in 1..(Len(q) + Len(r)) /\ i <= Len(q)
    BY <1>1, <1>2
  <2> QED BY <1>1, <1>2, <2>1
<1>5. ASSUME NEW i \in DOMAIN r
      PROVE  Len(q) + i \in DOMAIN (q \o r) /\ (q \o r)[Len(q) + i] = r[i]
  <2>1. /\ Len(q) + i \in 1..(Len(q) + Len(r)) /\ ~(Len(q) + i <= Len(q))
        /\ (Len(q) + i) - Len(q) = i
    BY <1>1, <1>2
  <2> QED BY <1>1, <1>2, <2>1
<1> QED BY <1>1, <1>3, <1>4, <1>5

LEMMA AppendIs ==
  ASSUME NEW S, NEW q \in Seq(S), NEW x \in S
  PROVE  /\ Append(q, x) \in Seq(S)
         /\ Len(q) \in Nat /\ DOMAIN q = 1..Len(q)
         /\ DOMAIN Append(q, x) = 1..(Len(q) + 1)
         /\ \A i \in DOMAIN q : Append(q, x)[i] = q[i]
         /\ Append(q, x)[Len(q) + 1] = x
  BY AppendProperties, LenProperties

LEMMA TailIs ==
  ASSUME NEW S, NEW q \in Seq(S), q # <<>>
  PROVE  /\ Tail(q) \in Seq(S) /\ 1 \in DOMAIN q /\ Head(q) = q[1]
         /\ DOMAIN q \subseteq Nat \ {0} /\ DOMAIN Tail(q) \subseteq Nat \ {0}
         /\ \A i \in DOMAIN Tail(q) : i + 1 \in DOMAIN q /\ Tail(q)[i] = q[i + 1]
         /\ \A i \in DOMAIN q : i # 1 => i - 1 \in DOMAIN Tail(q) /\ Tail(q)[i - 1] = q[i]
<1>1. /\ Tail(q) \in Seq(S) /\ Head(q) = q[1] /\ Len(q) \in Nat /\ Len(q) # 0
      /\ Len(Tail(q)) = Len(q) - 1
      /\ \A i \in 1..(Len(q) - 1) : Tail(q)[i] = q[i + 1]
  BY HeadTailProperties, EmptySeq, LenProperties
<1>2. DOMAIN q = 1..Len(q) /\ DOMAIN Tail(q) = 1..(Len(q) - 1)
  BY <1>1, LenProperties
<1> QED BY <1>1, <1>2

-----------------------------------------------------------------------------
(* The parts keep their invariants.                                        *)
Types == CP!IInv /\ CP!OInv /\ UP!IInv /\ use \in Uses

LEMMA Constants == CP!CallClientConstants /\ UP!DialogConstants
  BY MyJingleConstants
  DEF CP!CallClientConstants, Given, UP!DialogConstants, Buttons, BoxKeys

LEMMA InitTypes == Init => Types
<1> SUFFICES ASSUME Init PROVE Types
  OBVIOUS
<1>1. CP!Init
  BY DEF Init, Client!Init, CP!Init
<1>2. UP!Init
  BY DEF Init, UI!Init, UP!Init, UI!NoHelper, UP!NoHelper
<1>3. CP!IInv /\ CP!OInv
  BY <1>1, Constants, CP!InitInvariant, CP!InitOrder
<1>4. UP!IInv
  BY <1>2, Constants, UP!InitInv
<1> QED BY <1>3, <1>4 DEF Types, Init

(* A step of the signalling thread: what it is and what it does.           *)
LEMMA ClientStep ==
  ASSUME Types, TakeCommand \/ Signalling
  PROVE  /\ CP!IInv' /\ CP!OInv'
         /\ CP!Informs(client, client')
<1>1. CASE TakeCommand
  <2>1. CP!Command(command)
    BY <1>1, SameClient DEF TakeCommand
  <2>2. CP!IInv' 
    BY <2>1, Constants, CP!CommandInvariant DEF Types
  <2>3. CP!OInv'
    BY <2>1, Constants, CP!CommandOrder DEF Types
  <2>4. CP!Informs(client, client')
    BY <2>1, Constants, CP!CommandStepInforms DEF Types
  <2> QED BY <2>2, <2>3, <2>4
<1>2. CASE Signalling
  <2>1. CP!SignallingThread \/ \E m \in CP!Incoming : CP!Arrive(m)
    BY <1>2, SameClient DEF Signalling
  <2>2. CP!IInv'
    BY <2>1, Constants, CP!StepInvariant DEF Types
  <2>3. CP!OInv'
    BY <2>1, Constants, CP!StepOrder DEF Types
  <2>4. CP!Informs(client, client')
    BY <2>1, Constants, CP!StepInforms DEF Types
  <2> QED BY <2>2, <2>3, <2>4
<1> QED BY <1>1, <1>2

(* What a step of the signalling thread leaves to the dialog.              *)
LEMMA Told ==
  ASSUME Types, TakeCommand \/ Signalling
  PROVE  /\ client'.posted \in Seq(UP!Posted) /\ uiQueue \in Seq(UP!Posted)
         /\ uiQueue' = uiQueue \o client'.posted
         /\ UNCHANGED <<m_callStatus, dialEvents, acceptEvents, helper, buttons, bell>>
         /\ UNCHANGED <<command, signalling, use>>
         /\ wake' \in BOOLEAN
<1>1. client'.posted \in Seq(CP!Notices)
  BY ClientStep DEF CP!IInv, CP!TypeOK, CP!Objects
<1>2. CP!Notices \subseteq UP!Posted
  BY DEF CP!Notices, UP!Posted, UP!Notices, UP!OnCall, UP!Closing
<1>3. client'.posted \in Seq(UP!Posted)
  <2> DEFINE S == CP!Notices
             T == UP!Posted
             q == client'.posted
  <2> HIDE DEF S, T, q
  <2>1. q \in Seq(S) /\ S \subseteq T => q \in Seq(T)
    OBVIOUS
  <2> QED BY <1>1, <1>2, <2>1 DEF S, T, q
<1>4. uiQueue \in Seq(UP!Posted) /\ wake \in BOOLEAN
  BY DEF Types, UP!IInv, UP!TypeOK
<1> QED BY <1>3, <1>4 DEF TakeCommand, Signalling, Delivered, uiVars

LEMMA ToldTypes ==
  ASSUME Types, TakeCommand \/ Signalling
  PROVE  Types'
<1> DEFINE T == UP!Posted
           r == client'.posted
           q == uiQueue'
<1>0. uiQueue \in Seq(T) /\ r \in Seq(T) /\ q = uiQueue \o r
  BY Told
<1> HIDE DEF T, r, q
<1>1. q \in Seq(T)
  BY <1>0, ConcatIs
<1>2. UP!IInv'
  BY <1>1, Told DEF Types, UP!IInv, UP!TypeOK, UP!Busy, T, q
<1> QED BY <1>2, Told, ClientStep DEF Types

(* The dialog's own step, as DialogProofs knows it.                        *)
LEMMA DialogStep ==
  ASSUME Dialog
  PROVE  \/ UP!HelperThreads \/ UP!HandleMessage \/ UP!SetEventAdapter \/ UP!BellEnds
         \/ \E b \in use.clicks : UP!Click(b)
         \/ \E k \in use.keys : UP!OnHandlePhone(k)
  BY SameDialog DEF Dialog

LEMMA UseIs ==
  ASSUME use \in Uses
  PROVE  use.clicks \subseteq Buttons /\ use.keys \subseteq BoxKeys
<1> DEFINE R == [clicks : SUBSET Buttons, keys : SUBSET BoxKeys,
                 ways : SUBSET {"in", "out"}, helpers : SUBSET Helpers]
<1>1. use \in R
  BY MyJingleConstants
<1> QED BY <1>1

LEMMA ClientRests ==
  ASSUME CP!IInv, CP!OInv, UNCHANGED clientVars
  PROVE  CP!IInv' /\ CP!OInv'
<1>1. CP!IInv'
  BY DEF clientVars, CP!IInv, CP!TypeOK, CP!InboxOK
<1>2. CP!OInv'
  BY DEF clientVars, CP!OInv, CP!Waits, CP!InboxOrder, CP!Ordered
<1> QED BY <1>1, <1>2

LEMMA DialogTypes ==
  ASSUME Types, Dialog
  PROVE  Types'
<1>1. UP!Next
  <2>1. use.clicks \subseteq Buttons /\ use.keys \subseteq BoxKeys
    BY UseIs DEF Types
  <2> QED BY <2>1, DialogStep DEF UP!Next, UP!UIThread
<1>2. UP!IInv'
  BY <1>1, Constants, UP!Inductive DEF Types
<1>3. UNCHANGED clientVars /\ use' = use
  BY DEF Dialog
<1> QED BY <1>2, <1>3, ClientRests DEF Types

LEMMA TypesStep == Types /\ [Next]_vars => Types'
<1> SUFFICES ASSUME Types, [Next]_vars PROVE Types'
  OBVIOUS
<1>1. CASE TakeCommand \/ Signalling
  BY <1>1, ToldTypes
<1>2. CASE Dialog
  BY <1>2, DialogTypes
<1>3. CASE UNCHANGED vars
  <2>1. UP!IInv'
    BY <1>3 DEF vars, uiVars, Types, UP!IInv, UP!TypeOK, UP!Busy
  <2> QED BY <1>3, <2>1, ClientRests DEF vars, Types
<1> QED BY <1>1, <1>2, <1>3 DEF Next

-----------------------------------------------------------------------------
(* What the buttons will be when the window's messages have been handled:  *)
(* Settled, they will offer Call.  As long as a session has not ended, the *)
(* end that is told last is still to come.                                 *)
Deciding == UI!OnCall \cup UI!Closing \cup {"UNSET"}

Settles(i) ==
  uiQueue[i] \in UI!Closing /\ \A j \in DOMAIN uiQueue : j > i => uiQueue[j] \notin Deciding

Settled ==
  \/ buttons = {"Call"} /\ \A i \in DOMAIN uiQueue : uiQueue[i] \notin Deciding
  \/ \E i \in DOMAIN uiQueue : Settles(i)

AllEnded == \A s \in Sessions : client.state[s] \in CP!Ended

ButtonsInv == AllEnded => Settled

LEMMA ToldSettles ==
  ASSUME Types, TakeCommand \/ Signalling, ButtonsInv
  PROVE  ButtonsInv'
<1> DEFINE T == UP!Posted
           r == client'.posted
           q == uiQueue'
<1>0. uiQueue \in Seq(T) /\ r \in Seq(T) /\ q = uiQueue \o r /\ buttons' = buttons
  BY Told
<1>1. CP!LastWord(client, client')
  BY ClientStep DEF CP!Informs
<1>2. SUFFICES ASSUME AllEnded' PROVE Settled'
  BY DEF ButtonsInv
<1>3. CASE CP!Announces(client')
  <2>1. r # <<>> /\ r[Len(r)] \in CP!Closing
    BY <1>3 DEF CP!Announces
  <2> DEFINE k == Len(uiQueue) + Len(r)
  <2> HIDE DEF T, r, q
  <2>2. /\ Len(r) \in DOMAIN r
    BY <1>0, <2>1, EmptySeq, LenProperties
  <2>3. q[k] = r[Len(r)] /\ k \in DOMAIN q /\ DOMAIN q = 1..k /\ k \in Nat
    <3>1. k \in DOMAIN q /\ q[k] = r[Len(r)]
      BY <1>0, <2>2, ConcatIs
    <3>2. q \in Seq(T) /\ Len(q) = k
      BY <1>0, ConcatIs
    <3> QED BY <3>1, <3>2, LenProperties
  <2>4. q[k] \in UI!Closing
    BY <2>1, <2>3 DEF CP!Closing, UI!Closing
  <2>5. \A j \in DOMAIN q : ~(j > k)
    BY <2>3
  <2> QED BY <2>3, <2>4, <2>5 DEF Settled, Settles, q
<1>4. CASE r = <<>> /\ \A t \in Sessions : client.state[t] \in CP!Ended
  <2>1. Settled
    BY <1>4 DEF ButtonsInv, AllEnded
  <2>2. uiQueue' = uiQueue
    <3> HIDE DEF T, r
    <3>1. q = uiQueue
      BY <1>0, <1>4, ConcatIs
    <3> QED BY <3>1
  <2> QED BY <1>0, <2>1, <2>2 DEF Settled, Settles
<1> QED BY <1>1, <1>2, <1>3, <1>4 DEF CP!LastWord, AllEnded

(* What a step of the dialog does to the buttons and the messages.         *)
LEMMA DialogDoes ==
  ASSUME Dialog
  PROVE  \/ UNCHANGED <<uiQueue, buttons>>
         \/ /\ \/ uiQueue' = Append(uiQueue, "WM_STOPMUSIC")
               \/ uiQueue' = Append(uiQueue, "MM_MCINOTIFY")
            /\ buttons' = buttons
         \/ /\ uiQueue # <<>> /\ uiQueue' = Tail(uiQueue)
            /\ Head(uiQueue) \notin Deciding => buttons' = buttons
            /\ Head(uiQueue) \in UI!Closing => buttons' = {"Call"}
<1> DEFINE Goal ==
         \/ UNCHANGED <<uiQueue, buttons>>
         \/ /\ \/ uiQueue' = Append(uiQueue, "WM_STOPMUSIC")
               \/ uiQueue' = Append(uiQueue, "MM_MCINOTIFY")
            /\ buttons' = buttons
         \/ /\ uiQueue # <<>> /\ uiQueue' = Tail(uiQueue)
            /\ Head(uiQueue) \notin Deciding => buttons' = buttons
            /\ Head(uiQueue) \in UI!Closing => buttons' = {"Call"}
<1>1. ASSUME NEW h \in Helpers, UI!WaitEnds(h) PROVE Goal
  BY <1>1 DEF UI!WaitEnds
<1>2. ASSUME NEW h \in Helpers, UI!HelperSteps(h) PROVE Goal
  BY <1>2 DEF UI!HelperSteps
<1>3. ASSUME UI!HandleMessage PROVE Goal
  <2> DEFINE m == Head(uiQueue)
  <2>1. uiQueue # <<>> /\ uiQueue' = Tail(uiQueue)
    BY <1>3 DEF UI!HandleMessage
  <2>2. m \in UI!Notices \ {"UNSET"} /\ UI!HandleType(m) =>
          /\ m \notin Deciding => buttons' = buttons
          /\ m \in UI!Closing => buttons' = {"Call"}
    <3> HIDE DEF m
    <3> QED BY DEF UI!HandleType, UI!Closed, UI!Notices, UI!OnCall, UI!Closing, Deciding, UI!ui
  <2>3. /\ "UNSET" \in Deciding /\ "UNSET" \notin UI!Closing
        /\ "WM_STOPMUSIC" \notin Deciding /\ "MM_MCINOTIFY" \notin Deciding
        /\ UI!Closing \subseteq Deciding
    BY DEF Deciding, UI!OnCall, UI!Closing
  <2>4. \/ m \in UI!Notices \ {"UNSET"} /\ UI!HandleType(m)
        \/ m = "UNSET"
        \/ m \in {"WM_STOPMUSIC", "MM_MCINOTIFY"} /\ buttons' = buttons
    BY <1>3 DEF UI!HandleMessage
  <2>5. /\ m \notin Deciding => buttons' = buttons
        /\ m \in UI!Closing => buttons' = {"Call"}
    <3> HIDE DEF m
    <3> QED BY <2>2, <2>3, <2>4
  <2> QED BY <2>1, <2>5
<1>4. ASSUME UI!SetEventAdapter PROVE Goal
  BY <1>4 DEF UI!SetEventAdapter, UI!ui
<1>5. ASSUME UI!BellEnds PROVE Goal
  BY <1>5 DEF UI!BellEnds
<1>6. ASSUME NEW b, UI!Click(b) PROVE Goal
  BY <1>6 DEF UI!Click, UI!OnBnClickedCall, UI!OnBnClickedHangup, UI!OnBnClickedSendmsg, UI!ui
<1>7. ASSUME NEW k, UI!OnHandlePhone(k) PROVE Goal
  BY <1>7 DEF UI!OnHandlePhone, UI!OnBnClickedCall, UI!OnBnClickedHangup
<1> HIDE DEF Goal
<1>8. \/ \E h \in Helpers : UI!WaitEnds(h) \/ UI!HelperSteps(h)
      \/ UI!HandleMessage \/ UI!SetEventAdapter \/ UI!BellEnds
      \/ \E b : UI!Click(b)
      \/ \E k : UI!OnHandlePhone(k)
  BY DEF Dialog, UI!HelperThreads
<1>9. Goal
  BY <1>1, <1>2, <1>3, <1>4, <1>5, <1>6, <1>7, <1>8
<1> QED BY <1>9 DEF Goal

LEMMA DialogSettles ==
  ASSUME Types, Dialog, ButtonsInv
  PROVE  ButtonsInv'
<1> DEFINE T == UP!Posted
           q == uiQueue'
<1>0. uiQueue \in Seq(T) /\ "WM_STOPMUSIC" \in T /\ "MM_MCINOTIFY" \in T
  BY DEF Types, UP!IInv, UP!TypeOK, UP!Posted
<1>1. SUFFICES ASSUME AllEnded' PROVE Settled'
  BY DEF ButtonsInv
<1>2. Settled
  BY <1>1 DEF ButtonsInv, AllEnded, Dialog, clientVars
<1>3. CASE UNCHANGED <<uiQueue, buttons>>
  BY <1>2, <1>3 DEF Settled, Settles
<1>4. ASSUME NEW n \in {"WM_STOPMUSIC", "MM_MCINOTIFY"}, uiQueue' = Append(uiQueue, n),
             buttons' = buttons
      PROVE  Settled'
  <2> DEFINE k == Len(uiQueue)
  <2>1. n \in T /\ n \notin Deciding
    BY <1>0, <1>4 DEF Deciding, UI!OnCall, UI!Closing
  <2>2. q = Append(uiQueue, n)
    BY <1>4
  <2> HIDE DEF T, q
  <2>3. /\ k \in Nat /\ DOMAIN uiQueue = 1..k /\ DOMAIN q = 1..(k + 1)
        /\ \A i \in DOMAIN uiQueue : q[i] = uiQueue[i]
        /\ q[k + 1] = n
    BY <1>0, <2>1, <2>2, AppendIs
  <2> HIDE DEF k
  <2>4. CASE buttons = {"Call"} /\ \A i \in DOMAIN uiQueue : uiQueue[i] \notin Deciding
    <3>1. \A i \in DOMAIN q : q[i] \notin Deciding
      BY <2>1, <2>3, <2>4
    <3> QED BY <1>4, <2>4, <3>1 DEF Settled, q
  <2>5. ASSUME NEW i \in DOMAIN uiQueue, Settles(i) PROVE Settled'
    <3>1. i \in DOMAIN q /\ q[i] \in UI!Closing
      BY <2>3, <2>5 DEF Settles
    <3>2. \A j \in DOMAIN q : j > i => q[j] \notin Deciding
      BY <2>1, <2>3, <2>5 DEF Settles
    <3> QED BY <3>1, <3>2 DEF Settled, Settles, q
  <2> QED BY <1>2, <2>4, <2>5 DEF Settled
<1>5. ASSUME uiQueue # <<>>, uiQueue' = Tail(uiQueue),
             Head(uiQueue) \notin Deciding => buttons' = buttons,
             Head(uiQueue) \in UI!Closing => buttons' = {"Call"}
      PROVE  Settled'
  <2>1. q = Tail(uiQueue)
    BY <1>5
  <2> HIDE DEF T, q
  <2>2. /\ 1 \in DOMAIN uiQueue /\ Head(uiQueue) = uiQueue[1]
        /\ DOMAIN uiQueue \subseteq Nat \ {0} /\ DOMAIN q \subseteq Nat \ {0}
        /\ \A i \in DOMAIN q : i + 1 \in DOMAIN uiQueue /\ q[i] = uiQueue[i + 1]
        /\ \A i \in DOMAIN uiQueue : i # 1 => i - 1 \in DOMAIN q /\ q[i - 1] = uiQueue[i]
    BY <1>0, <1>5, <2>1, TailIs
  <2>3. CASE buttons = {"Call"} /\ \A i \in DOMAIN uiQueue : uiQueue[i] \notin Deciding
    <3>1. \A i \in DOMAIN q : q[i] \notin Deciding
      BY <2>2, <2>3
    <3>2. buttons' = {"Call"}
      BY <1>5, <2>2, <2>3
    <3> QED BY <3>1, <3>2 DEF Settled, q
  <2>4. ASSUME NEW i \in DOMAIN uiQueue, Settles(i) PROVE Settled'
    <3>1. CASE i = 1
      <4>1. buttons' = {"Call"}
        BY <1>5, <2>2, <2>4, <3>1 DEF Settles
      <4>2. \A j \in DOMAIN q : q[j] \notin Deciding
        BY <2>2, <2>4, <3>1 DEF Settles
      <4> QED BY <4>1, <4>2 DEF Settled, q
    <3>2. CASE i # 1
      <4> DEFINE k == i - 1
      <4>1. k \in DOMAIN q /\ q[k] \in UI!Closing
        BY <2>2, <2>4, <3>2 DEF Settles
      <4>2. \A j \in DOMAIN q : j > k => q[j] \notin Deciding
        BY <2>2, <2>4 DEF Settles
      <4> QED BY <4>1, <4>2 DEF Settled, Settles, q
    <3> QED BY <3>1, <3>2
  <2> QED BY <1>2, <2>3, <2>4 DEF Settled
<1> QED BY <1>3, <1>4, <1>5, DialogDoes

LEMMA ButtonsStep ==
  ASSUME Types, ButtonsInv, [Next]_vars
  PROVE  ButtonsInv'
<1>1. CASE TakeCommand \/ Signalling
  BY <1>1, ToldSettles
<1>2. CASE Dialog
  BY <1>2, DialogSettles
<1>3. CASE UNCHANGED vars
  BY <1>3 DEF vars, clientVars, uiVars, ButtonsInv, AllEnded, Settled, Settles
<1> QED BY <1>1, <1>2, <1>3 DEF Next

(* When no message is left, every session that is not alive has ended:     *)
(* one that was rejected still has its disposal to come.                   *)
LEMMA QuietEnds ==
  ASSUME Types, Quiet, Live = {}
  PROVE  AllEnded
<1> SUFFICES ASSUME NEW s \in Sessions PROVE client.state[s] \in CP!Ended
  BY DEF AllEnded
<1>1. client.state[s] \in CP!States
  BY DEF Types, CP!IInv, CP!TypeOK, CP!Objects
<1>2. client.state[s] \notin CP!Live
  BY DEF Live, Client!Live, Client!Ringing, Client!Talking, CP!Live, CP!Ringing, CP!Talking
<1>3. CP!Kept(client, s)
  BY DEF Types, CP!OInv, CP!Ordered
<1>4. ~CP!Pending(client, s)
  BY DEF Quiet, CP!Pending
<1>5. client.state[s] \notin CP!Over
  BY <1>3, <1>4 DEF CP!Kept, CP!Lost
<1> QED BY <1>1, <1>2, <1>5 DEF CP!States, CP!Over, CP!Ended

(* When the two threads have nothing left to tell each other and no call   *)
(* is alive, the dialog offers Call: of all the messages posted, the last  *)
(* that says something about the buttons was the end of a call.            *)
THEOREM OffersCall == Spec => []IdleOffersCall
<1>1. Init => Types /\ ButtonsInv
  <2> SUFFICES ASSUME Init PROVE Types /\ ButtonsInv
    OBVIOUS
  <2>1. buttons = {"Call"} /\ uiQueue = <<>> /\ DOMAIN <<>> = {}
    BY DEF Init, UI!Init
  <2> QED BY <2>1, InitTypes DEF ButtonsInv, Settled
<1>2. Types /\ ButtonsInv /\ [Next]_vars => (Types /\ ButtonsInv)'
  BY TypesStep, ButtonsStep
<1>3. Types /\ ButtonsInv => IdleOffersCall
  <2> SUFFICES ASSUME Types, ButtonsInv, Quiet, Live = {} PROVE buttons = {"Call"}
    BY DEF IdleOffersCall
  <2>1. Settled
    BY QuietEnds DEF ButtonsInv
  <2>2. uiQueue = <<>> /\ DOMAIN <<>> = {}
    BY DEF Quiet
  <2> QED BY <2>1, <2>2 DEF Settled
<1> QED BY <1>1, <1>2, <1>3, PTL DEF Spec

-----------------------------------------------------------------------------
(* A call that rings is attended, until the user stores a command of his   *)
(* own over the helper's.                                                  *)
(* A helper that sets the event has just stored a command that ends the    *)
(* ringing; others may have stored theirs since.                           *)
Commands(todo, stored) ==
  /\ \A i \in DOMAIN todo : todo[i] = "Wait" => i = 1
  /\ \A i \in DOMAIN todo : todo[i] = "SetEvent" =>
       IF i = 1 THEN stored \in Ends \cup Own ELSE todo[i - 1] \in {"ACCEPT_CALL", "REJECT_CALL"}

Planned == \A h \in Helpers : helper[h].kind = "accept" => Commands(helper[h].todo, command)

RingInv == CP!Rung(client) /\ Planned

Stays(s) == Rings(s)' => Attended' \/ (Rings(s) /\ (~Attended \/ command' \in Own))

(* A step of the signalling thread that makes a call ring tells the dialog. *)
LEMMA TellsOfRings ==
  ASSUME Types, TakeCommand \/ Signalling, NEW s \in Sessions, Rings(s)', ~Rings(s)
  PROVE  Announced'
<1> DEFINE T == UP!Posted
           r == client'.posted
           q == uiQueue'
<1>0. uiQueue \in Seq(T) /\ r \in Seq(T) /\ q = uiQueue \o r
  BY Told
<1>1. CP!NewlyRings(client, client', s)
  BY DEF Rings, CP!NewlyRings
<1>2. PICK i \in DOMAIN r : r[i] = "INCOMING"
  BY <1>1, ClientStep DEF CP!Informs
<1> HIDE DEF T, r, q
<1>3. Len(uiQueue) + i \in DOMAIN q /\ q[Len(uiQueue) + i] = "INCOMING"
  BY <1>0, <1>2, ConcatIs
<1> QED BY <1>3 DEF Announced, q

(* A step of the signalling thread takes nothing from a call that rings.   *)
LEMMA ToldRings ==
  ASSUME Types, TakeCommand \/ Signalling, RingInv
  PROVE  RingInv' /\ \A s \in Sessions : Stays(s)
<1> DEFINE T == UP!Posted
           r == client'.posted
           q == uiQueue'
<1>0. /\ uiQueue \in Seq(T) /\ r \in Seq(T) /\ q = uiQueue \o r
      /\ helper' = helper /\ command' = command /\ signalling' = signalling
  BY Told
<1>1. CP!Rung(client') /\ Planned'
  BY <1>0, ClientStep DEF RingInv, CP!Informs, Planned, Commands
<1>2. ASSUME NEW s \in Sessions, Rings(s)', Rings(s) => Attended PROVE Attended'
  <2>1. CASE ~Rings(s)
    BY <1>2, <2>1, TellsOfRings DEF Attended
  <2>2. CASE Announced
    <3>1. PICK i \in DOMAIN uiQueue : uiQueue[i] = "INCOMING"
      BY <2>2 DEF Announced
    <3> HIDE DEF T, r, q
    <3>2. i \in DOMAIN q /\ q[i] = "INCOMING"
      BY <1>0, <3>1, ConcatIs
    <3> QED BY <3>2 DEF Attended, Announced, q
  <2>3. CASE \E h \in Helpers : Attends(h)
    BY <1>0, <2>3 DEF Attended, Attends
  <2>4. CASE OnItsWay
    <3>1. CASE TakeCommand
      <4>1. CP!Command(command) /\ command \in Ends
        BY <2>4, <3>1, SameClient DEF TakeCommand, OnItsWay
      <4>2. client'.state[s] # "RECEIVEDINITIATE"
        BY <4>1, Constants, CP!CommandStepInforms DEF Types, RingInv, Ends
      <4> QED BY <1>2, <4>2 DEF Rings
    <3>2. CASE Signalling
      <4>1. wake' = wake
        BY <3>2 DEF Signalling
      <4> QED BY <1>0, <2>4, <4>1 DEF Attended, OnItsWay
    <3> QED BY <3>1, <3>2
  <2> QED BY <1>2, <2>1, <2>2, <2>3, <2>4 DEF Attended
<1>3. RingInv'
  BY <1>1 DEF RingInv, CP!Rung
<1> QED BY <1>2, <1>3 DEF Stays

-----------------------------------------------------------------------------
(* The helpers' plans, and what stays attended, in a step of the dialog.   *)
LEMMA PlansCommand ==
  ASSUME NEW c
  PROVE  /\ Commands(<<"Wait">>, c)
         /\ Commands(UI!Answered("accept"), c)
         /\ Commands(UI!NotAnswered("accept"), c)
         /\ \E i \in DOMAIN UI!Answered("accept") : UI!Answered("accept")[i] = "SetEvent"
         /\ \E i \in DOMAIN UI!NotAnswered("accept") : UI!NotAnswered("accept")[i] = "SetEvent"
<1> DEFINE a == <<"ResetAnswer", "ONLINE", "ACCEPT_CALL", "SetEvent">>
           n == <<"REJECT_CALL", "SetEvent", "ResetHangup", "INITIAL">>
           w == <<"Wait">>
<1>1. UI!Answered("accept") = a /\ UI!NotAnswered("accept") = n
  BY DEF UI!Answered, UI!NotAnswered
<1>2. DOMAIN a = 1..4 /\ DOMAIN n = 1..4 /\ DOMAIN w = 1..1
  OBVIOUS
<1>3. /\ a[1] = "ResetAnswer" /\ a[2] = "ONLINE" /\ a[3] = "ACCEPT_CALL" /\ a[4] = "SetEvent"
      /\ n[1] = "REJECT_CALL" /\ n[2] = "SetEvent" /\ n[3] = "ResetHangup" /\ n[4] = "INITIAL"
      /\ w[1] = "Wait"
  OBVIOUS
<1> HIDE DEF a, n, w
<1>4. Commands(w, c)
  BY <1>2, <1>3 DEF Commands
<1>5. Commands(a, c)
  <2>1. \A i \in 1..4 : i = 1 \/ i = 2 \/ i = 3 \/ i = 4
    OBVIOUS
  <2> QED BY <1>2, <1>3, <2>1 DEF Commands
<1>6. Commands(n, c)
  <2>1. \A i \in 1..4 : i = 1 \/ i = 2 \/ i = 3 \/ i = 4
    OBVIOUS
  <2> QED BY <1>2, <1>3, <2>1 DEF Commands
<1> QED BY <1>1, <1>2, <1>3, <1>4, <1>5, <1>6 DEF w

(* A plan stays one when another command is stored.                        *)
LEMMA StoredIs ==
  ASSUME NEW todo, NEW c, NEW d, Commands(todo, c),
         c \in Ends \cup Own => d \in Ends \cup Own
  PROVE  Commands(todo, d)
BY DEF Commands

Waits(f) == f.kind = "accept" /\ \E i \in DOMAIN f.todo : f.todo[i] \in {"Wait", "SetEvent"}

LEMMA AttendsIs == \A h : Attends(h) <=> Waits(helper[h])
BY DEF Attends, Waits

HelperTypes ==
  /\ helper \in [Helpers -> [kind : {"none", "dial", "accept"}, todo : Seq(UP!Steps)]]
  /\ \A h \in Helpers : helper[h].kind # "none" => helper[h].todo # <<>>

(* One helper changes.                                                     *)
LEMMA OneHelper ==
  ASSUME HelperTypes, Planned, NEW h \in Helpers, NEW f, helper' = [helper EXCEPT ![h] = f],
         command \in Ends \cup Own => command' \in Ends \cup Own,
         f.kind = "accept" => Commands(f.todo, command')
  PROVE  /\ Planned'
         /\ helper'[h] = f
         /\ \A g \in Helpers : g # h /\ Attends(g) => Attends(g)'
<1>1. helper'[h] = f /\ \A g \in Helpers : g # h => helper'[g] = helper[g]
  BY DEF HelperTypes
<1>2. Planned'
  <2> SUFFICES ASSUME NEW g \in Helpers, helper'[g].kind = "accept"
               PROVE  Commands(helper'[g].todo, command')
    BY DEF Planned
  <2>1. CASE g = h
    BY <1>1, <2>1
  <2>2. CASE g # h
    <3>1. helper'[g] = helper[g]
      BY <1>1, <2>2
    <3>2. Commands(helper[g].todo, command)
      BY <3>1 DEF Planned
    <3> QED BY <3>1, <3>2, StoredIs
  <2> QED BY <2>1, <2>2
<1> QED BY <1>1, <1>2 DEF Attends

LEMMA WaitEndsRings ==
  ASSUME HelperTypes, Planned, NEW h \in Helpers, UI!WaitEnds(h)
  PROVE  Planned' /\ \A g \in Helpers : Attends(g) => Attends(g)'
<1> DEFINE kind == helper[h].kind
           plan == IF "answer" \in UI!Events(kind) THEN UI!Answered(kind) ELSE UI!NotAnswered(kind)
           f == [kind |-> kind, todo |-> plan]
<1>1. helper' = [helper EXCEPT ![h].todo = plan] /\ command' = command
  BY DEF UI!WaitEnds, UI!mail
<1>2. kind = "accept" => Commands(plan, command) /\ \E i \in DOMAIN plan : plan[i] = "SetEvent"
  BY PlansCommand
<1> HIDE DEF plan
<1>3. helper' = [helper EXCEPT ![h] = f]
  <2>1. helper[h] = [kind |-> helper[h].kind, todo |-> helper[h].todo]
    BY DEF HelperTypes
  <2>2. [helper[h] EXCEPT !.todo = plan] = f
    BY <2>1
  <2>3. helper' = [helper EXCEPT ![h] = [helper[h] EXCEPT !.todo = plan]]
    BY <1>1
  <2> QED BY <2>2, <2>3
<1>4. f.kind = kind /\ f.todo = plan
  OBVIOUS
<1> HIDE DEF f
<1>5. Planned' /\ helper'[h] = f /\ \A g \in Helpers : g # h /\ Attends(g) => Attends(g)'
  BY <1>1, <1>2, <1>3, <1>4, OneHelper
<1>6. Attends(h) => Attends(h)'
  BY <1>2, <1>4, <1>5 DEF Attends
<1> QED BY <1>5, <1>6

LEMMA HelperStepsRings ==
  ASSUME HelperTypes, Planned, NEW h \in Helpers, UI!HelperSteps(h)
  PROVE  /\ Planned' /\ uiQueue' = uiQueue
         /\ (\E g \in Helpers : Attends(g)) \/ OnItsWay
              => (\E g \in Helpers : Attends(g)') \/ OnItsWay' \/ command' \in Own
<1> DEFINE todo == helper[h].todo
           kind == helper[h].kind
           step == Head(todo)
           rest == Tail(todo)
           f == IF rest = <<>> THEN UI!NoHelper ELSE [kind |-> kind, todo |-> rest]
<1>1. /\ kind # "none" /\ step # "Wait" /\ uiQueue' = uiQueue /\ signalling' = signalling
      /\ command' = IF step \in {"ACCEPT_CALL", "REJECT_CALL"} THEN step ELSE command
      /\ wake' = (wake \/ step = "SetEvent")
      /\ helper' = [helper EXCEPT ![h] =
                      IF rest = <<>> THEN UI!NoHelper ELSE [@ EXCEPT !.todo = rest]]
  BY DEF UI!HelperSteps
<1>2. todo \in Seq(UP!Steps) /\ todo # <<>>
  BY <1>1 DEF HelperTypes
<1>3. /\ 1 \in DOMAIN todo /\ step = todo[1]
      /\ DOMAIN todo \subseteq Nat \ {0} /\ DOMAIN rest \subseteq Nat \ {0}
      /\ \A i \in DOMAIN rest : i + 1 \in DOMAIN todo /\ rest[i] = todo[i + 1]
      /\ \A i \in DOMAIN todo : i # 1 => i - 1 \in DOMAIN rest /\ rest[i - 1] = todo[i]
      /\ rest = <<>> => DOMAIN rest = {}
  <2>1. rest = <<>> => DOMAIN rest = {}
    OBVIOUS
  <2> QED BY <1>2, <2>1, TailIs
<1>4. helper' = [helper EXCEPT ![h] = f]
  <2>1. helper[h] = [kind |-> kind, todo |-> todo]
    BY DEF HelperTypes
  <2> HIDE DEF rest, todo, kind
  <2>2. [helper[h] EXCEPT !.todo = rest] = [kind |-> kind, todo |-> rest]
    BY <2>1
  <2>3. helper' = [helper EXCEPT ![h] =
                     IF rest = <<>> THEN UI!NoHelper ELSE [helper[h] EXCEPT !.todo = rest]]
    BY <1>1
  <2> QED BY <2>2, <2>3
<1>5. f.kind = "accept" => kind = "accept" /\ f.todo = rest
  BY DEF UI!NoHelper
<1>6. kind = "accept" => Commands(todo, command)
  BY DEF Planned
<1>7. rest # <<>> => f.kind = kind /\ f.todo = rest
  OBVIOUS
<1> HIDE DEF f, rest, step, todo, kind
<1>8. kind = "accept" => Commands(rest, command')
  <2> SUFFICES ASSUME kind = "accept" PROVE Commands(rest, command')
    OBVIOUS
  <2>1. \A i \in DOMAIN rest : rest[i] # "Wait"
    BY <1>3, <1>6 DEF Commands
  <2>2. ASSUME NEW i \in DOMAIN rest, rest[i] = "SetEvent"
        PROVE  IF i = 1 THEN command' \in Ends \cup Own ELSE rest[i - 1] \in {"ACCEPT_CALL", "REJECT_CALL"}
    <3>1. i + 1 \in DOMAIN todo /\ todo[i + 1] = "SetEvent" /\ i + 1 # 1 /\ (i + 1) - 1 = i
      BY <1>3, <2>2
    <3>2. todo[i] \in {"ACCEPT_CALL", "REJECT_CALL"}
      BY <1>6, <3>1 DEF Commands
    <3>3. CASE i = 1
      BY <1>1, <1>3, <3>2, <3>3 DEF Ends
    <3>4. CASE i # 1
      <4>1. i \in DOMAIN todo
        BY <1>2, <1>3, <2>2, <3>1, LenProperties
      <4> QED BY <1>3, <3>2, <3>4, <4>1
    <3> QED BY <3>3, <3>4
  <2> QED BY <2>1, <2>2 DEF Commands
<1>9. /\ command \in Ends => command' \in Ends
      /\ command \in Ends \cup Own => command' \in Ends \cup Own
  BY <1>1 DEF Ends
<1>10. Planned' /\ helper'[h] = f /\ \A g \in Helpers : g # h /\ Attends(g) => Attends(g)'
  BY <1>4, <1>5, <1>8, <1>9, OneHelper
<1>11. OnItsWay => OnItsWay'
  BY <1>1, <1>9 DEF OnItsWay
<1>12. ASSUME Attends(h) PROVE Attends(h)' \/ OnItsWay' \/ command' \in Own
  <2>1. kind = "accept" /\ \E i \in DOMAIN todo : todo[i] \in {"Wait", "SetEvent"}
    BY <1>12 DEF Attends, kind, todo
  <2>2. PICK i \in DOMAIN todo : todo[i] = "SetEvent"
    BY <1>1, <1>3, <1>6, <2>1 DEF Commands
  <2>3. CASE i = 1
    <3>1. step = "SetEvent" /\ command \in Ends \cup Own
      BY <1>3, <1>6, <2>1, <2>2, <2>3 DEF Commands
    <3>2. command' = command
      BY <1>1, <3>1
    <3> QED BY <1>1, <3>1, <3>2 DEF OnItsWay
  <2>4. CASE i # 1
    <3>1. i - 1 \in DOMAIN rest /\ rest[i - 1] = "SetEvent" /\ rest # <<>>
      BY <1>3, <2>2, <2>4
    <3> QED BY <1>7, <1>10, <2>1, <3>1 DEF Attends
  <2> QED BY <2>3, <2>4
<1> QED BY <1>1, <1>10, <1>11, <1>12

LEMMA AppendKeeps ==
  ASSUME uiQueue \in Seq(UP!Posted), NEW n \in {"WM_STOPMUSIC", "MM_MCINOTIFY"},
         uiQueue' = Append(uiQueue, n), Announced
  PROVE  Announced'
<1> DEFINE T == UP!Posted
           q == uiQueue'
<1>1. uiQueue \in Seq(T) /\ n \in T /\ q = Append(uiQueue, n)
  BY DEF UP!Posted
<1>2. PICK i \in DOMAIN uiQueue : uiQueue[i] = "INCOMING"
  BY DEF Announced
<1> HIDE DEF T, q
<1>3. i \in DOMAIN q /\ q[i] = "INCOMING"
  BY <1>1, <1>2, AppendIs
<1> QED BY <1>3 DEF Announced, q

(* The window's messages are handled: a call that is announced gets a      *)
(* helper thread.                                                          *)
LEMMA HandleRings ==
  ASSUME Types, HelperTypes, Planned, UI!HandleMessage
  PROVE  Planned' /\ (Attended => Attended')
<1> DEFINE T == UP!Posted
           q == uiQueue'
           m == Head(uiQueue)
           new == [kind |-> "accept", todo |-> <<"Wait">>]
<1>1. /\ uiQueue # <<>> /\ q = Tail(uiQueue) /\ uiQueue \in Seq(T)
      /\ UNCHANGED <<command, wake, signalling>>
  BY DEF UI!HandleMessage, UI!mail, Types, UP!IInv, UP!TypeOK
<1>2. \/ helper' = helper /\ m # "INCOMING"
      \/ \E h \in UI!Idle : helper' = [helper EXCEPT ![h] = new]
  <2>1. ASSUME NEW type, UI!HandleType(type)
        PROVE  \/ helper' = helper /\ type # "INCOMING"
               \/ \E h \in UI!Idle : helper' = [helper EXCEPT ![h] = new]
    BY <2>1 DEF UI!HandleType, UI!Engaged, UI!Closed, UI!Ring, UI!ui, UI!OnCall, UI!Closing
  <2>2. \/ UI!HandleType(m)
        \/ m = "UNSET" /\ \E type : UI!HandleType(type)
        \/ m \in {"WM_STOPMUSIC", "MM_MCINOTIFY"} /\ helper' = helper
    BY DEF UI!HandleMessage
  <2> HIDE DEF m, new
  <2> QED BY <2>1, <2>2
<1>3. ASSUME NEW h \in UI!Idle, helper' = [helper EXCEPT ![h] = new]
      PROVE  /\ Planned' /\ Attends(h)' /\ h \in Helpers
             /\ \A g \in Helpers : Attends(g) => Attends(g)'
  <2>1. h \in Helpers /\ ~Attends(h)
    BY <1>3 DEF UI!Idle, Attends
  <2>2. new.kind = "accept" /\ new.todo = <<"Wait">> /\ Commands(new.todo, command')
    BY PlansCommand
  <2>3. 1 \in DOMAIN new.todo /\ new.todo[1] = "Wait"
    OBVIOUS
  <2> HIDE DEF new
  <2>4. Planned' /\ helper'[h] = new /\ \A g \in Helpers : g # h /\ Attends(g) => Attends(g)'
    BY <1>1, <1>3, <2>1, <2>2, OneHelper
  <2>5. Attends(h)'
    BY <2>2, <2>3, <2>4 DEF Attends
  <2> QED BY <2>1, <2>4, <2>5
<1>4. Planned'
  BY <1>1, <1>2, <1>3 DEF Planned
<1>5. (\E h \in Helpers : Attends(h)) \/ m = "INCOMING" => \E h \in Helpers : Attends(h)'
  BY <1>2, <1>3 DEF Attends
<1>6. OnItsWay => OnItsWay'
  BY <1>1 DEF OnItsWay
<1>7. Announced => m = "INCOMING" \/ Announced'
  <2> SUFFICES ASSUME NEW i \in DOMAIN uiQueue, uiQueue[i] = "INCOMING", i # 1
               PROVE  Announced'
    <3> HIDE DEF m
    <3>1. Announced => \E i \in DOMAIN uiQueue : uiQueue[i] = "INCOMING"
      BY DEF Announced
    <3>2. m = uiQueue[1]
      BY <1>1, TailIs DEF m
    <3> QED BY <3>1, <3>2
  <2> HIDE DEF q, T
  <2>1. i - 1 \in DOMAIN q /\ q[i - 1] = "INCOMING"
    BY <1>1, TailIs
  <2> QED BY <2>1 DEF Announced, q
<1> QED BY <1>4, <1>5, <1>6, <1>7 DEF Attended

(* A step of the dialog, whatever its user presses.                        *)
LEMMA DialogRings ==
  ASSUME Types, Dialog, Planned
  PROVE  Planned' /\ (Attended => Attended' \/ command' \in Own)
<1> DEFINE Goal == Planned' /\ (Attended => Attended' \/ command' \in Own)
<1>0. HelperTypes
  BY DEF Types, UP!IInv, UP!TypeOK, UP!Busy, HelperTypes
<1>1. ASSUME NEW h \in Helpers, UI!WaitEnds(h) PROVE Goal
  <2>1. Planned' /\ \A g \in Helpers : Attends(g) => Attends(g)'
    BY <1>0, <1>1, WaitEndsRings
  <2>2. uiQueue' = Append(uiQueue, "WM_STOPMUSIC") /\ UNCHANGED <<command, wake, signalling>>
    BY <1>1 DEF UI!WaitEnds, UI!mail
  <2>3. OnItsWay => OnItsWay'
    BY <2>2 DEF OnItsWay
  <2>4. Announced => Announced'
    BY <2>2, AppendKeeps DEF Types, UP!IInv, UP!TypeOK
  <2> QED BY <2>1, <2>3, <2>4 DEF Attended
<1>2. ASSUME NEW h \in Helpers, UI!HelperSteps(h) PROVE Goal
  <2>1. Announced => Announced'
    BY <1>0, <1>2, HelperStepsRings DEF Announced
  <2>2. /\ Planned'
        /\ (\E g \in Helpers : Attends(g)) \/ OnItsWay
             => (\E g \in Helpers : Attends(g)') \/ OnItsWay' \/ command' \in Own
    BY <1>0, <1>2, HelperStepsRings
  <2> QED BY <2>1, <2>2 DEF Attended
<1>3. ASSUME UI!HandleMessage PROVE Goal
  BY <1>0, <1>3, HandleRings
<1>4. ASSUME UI!SetEventAdapter PROVE Goal
  BY <1>4 DEF UI!SetEventAdapter, UI!ui, Planned, Attended, Announced, Attends, OnItsWay
<1>5. ASSUME UI!BellEnds PROVE Goal
  <2>1. /\ uiQueue' = Append(uiQueue, "MM_MCINOTIFY")
        /\ UNCHANGED <<helper, command, wake, signalling>>
    BY <1>5 DEF UI!BellEnds, UI!mail
  <2>2. Announced => Announced'
    BY <2>1, AppendKeeps DEF Types, UP!IInv, UP!TypeOK
  <2> QED BY <2>1, <2>2 DEF Planned, Attended, Attends, OnItsWay
<1>6. ASSUME UI!OnBnClickedHangup PROVE Goal
  <2>1. helper' = helper /\ command' = "HANGUP" /\ signalling'
    BY <1>6 DEF UI!OnBnClickedHangup, UI!Give
  <2>2. Planned'
    BY <2>1, StoredIs DEF Planned, Ends
  <2> QED BY <2>1, <2>2 DEF Attended, OnItsWay, Ends
<1>7. ASSUME UI!OnBnClickedCall PROVE Goal
  <2> DEFINE new == [kind |-> "dial", todo |-> <<"Wait">>]
  <2>1. command' = "CALL" /\ \E h \in UI!Idle : helper' = [helper EXCEPT ![h] = new]
    BY <1>7 DEF UI!OnBnClickedCall, UI!Give, UI!Ring
  <2>2. UI!Idle \subseteq Helpers /\ new.kind # "accept"
    BY DEF UI!Idle
  <2> HIDE DEF new
  <2>3. Planned'
    BY <1>0, <2>1, <2>2, OneHelper DEF Own
  <2> QED BY <2>1, <2>3 DEF Own
<1>8. ASSUME UI!OnBnClickedSendmsg PROVE Goal
  <2>1. helper' = helper /\ command' = "STR_CHAT"
    BY <1>8 DEF UI!OnBnClickedSendmsg, UI!Give, UI!ui
  <2>2. Planned'
    BY <2>1, StoredIs DEF Planned, Own
  <2> QED BY <2>1, <2>2 DEF Own
<1>9. ASSUME NEW b \in use.clicks, UI!Click(b) PROVE Goal
  BY <1>6, <1>7, <1>8, <1>9 DEF UI!Click
<1>10. ASSUME NEW k \in use.keys, UI!OnHandlePhone(k) PROVE Goal
  <2>1. \/ UI!OnBnClickedCall \/ UI!OnBnClickedHangup
        \/ UNCHANGED <<helper, uiQueue, command, wake, signalling>>
    BY <1>10 DEF UI!OnHandlePhone, UI!mail
  <2>2. CASE UNCHANGED <<helper, uiQueue, command, wake, signalling>>
    BY <2>2 DEF Planned, Attended, Announced, Attends, OnItsWay
  <2> QED BY <1>6, <1>7, <2>1, <2>2
<1>11. \/ \E h \in Helpers : UI!WaitEnds(h) \/ UI!HelperSteps(h)
       \/ UI!HandleMessage \/ UI!SetEventAdapter \/ UI!BellEnds
       \/ \E b \in use.clicks : UI!Click(b)
       \/ \E k \in use.keys : UI!OnHandlePhone(k)
  BY DEF Dialog, UI!HelperThreads
<1> HIDE DEF Goal
<1>12. Goal
  BY <1>1, <1>2, <1>3, <1>4, <1>5, <1>9, <1>10, <1>11
<1> QED BY <1>12 DEF Goal

LEMMA RingStep ==
  ASSUME Types, RingInv, [Next]_vars
  PROVE  RingInv' /\ \A s \in Sessions : Stays(s)
<1>1. CASE TakeCommand \/ Signalling
  BY <1>1, ToldRings
<1>2. CASE Dialog
  <2>1. UNCHANGED client
    BY <1>2 DEF Dialog, clientVars
  <2>2. Planned' /\ (Attended => Attended' \/ command' \in Own)
    BY <1>2, DialogRings DEF RingInv
  <2> QED BY <2>1, <2>2 DEF RingInv, Rings, CP!Rung, Stays
<1>3. CASE UNCHANGED vars
  <2>1. UNCHANGED <<client, helper, command, uiQueue, wake, signalling>>
    BY <1>3 DEF vars, clientVars, uiVars
  <2>2. Attended => Attended'
    BY <2>1 DEF Attended, Announced, Attends, OnItsWay
  <2> QED BY <2>1, <2>2 DEF RingInv, Rings, Planned, CP!Rung, Stays
<1> QED BY <1>1, <1>2, <1>3 DEF Next

(* A call that rings here is looked after from the first moment on, until  *)
(* the user stores CALL or STR_CHAT over the helper's command: whatever he *)
(* presses, whoever calls, with any number of helpers.                     *)
THEOREM RingsAreAttended == Spec => RingingIsAttended
<1>1. Init => Types /\ RingInv
  <2> SUFFICES ASSUME Init PROVE Types /\ RingInv
    OBVIOUS
  <2>1. \A s \in Sessions : client.state[s] = "absent"
    BY DEF Init, Client!Init
  <2>2. \A h \in Helpers : helper[h].kind = "none"
    BY DEF Init, UI!Init, UI!NoHelper
  <2> QED BY <2>1, <2>2, InitTypes DEF RingInv, Planned, CP!Rung
<1>2. Types /\ RingInv /\ [Next]_vars => (Types /\ RingInv)'
  BY TypesStep, RingStep
<1>3. Types /\ RingInv /\ [Next]_vars
        => \A s \in Sessions :
             Rings(s)' => Attended' \/ (Rings(s) /\ (~Attended \/ command' \in Own))
  BY RingStep DEF Stays
<1> QED BY <1>1, <1>2, <1>3, PTL DEF Spec, RingingIsAttended

-----------------------------------------------------------------------------
(***************************************************************************)
(* The mailbox by itself, for any number of writers, contacts and texts.   *)
(* The invariant adds to the types that the mutex has one holder and that  *)
(* whoever set the event, or is about to, has stored a command.            *)
(***************************************************************************)
IsStored == m_Message.type # "UNKNOWN"

(* Only the writer that holds the mutex fills the message in.              *)
MutexHeld == \A w \in Writers : writer[w].at = "writing" <=> m_Mutex = w

CommandKnown ==
  \A w \in Writers : writer[w].at = "writing" => writer[w].command \in Box!Commands

StoredWhenNeeded ==
  (\/ m_Event
   \/ reader # "waiting"
   \/ fresh
   \/ \E w \in Writers : writer[w].at = "stored") => IsStored

(* A text that is not whole is being assigned.                             *)
TextsWhole ==
  /\ m_Message.text = Torn =>
       \E w \in Writers : writer[w].at = "writing" /\ writer[w].command.text # Nobody
  /\ m_Message.type = "STR_CHAT" => m_Message.text \in Texts \cup {Torn}
  /\ TextIntact

MailboxInv ==
  /\ MailboxTypeOK
  /\ MutexHeld
  /\ CommandKnown
  /\ StoredWhenNeeded
  /\ NoLostWakeup
  /\ TextsWhole

Strings == Texts \cup {Nobody, Torn}
Jids    == Contacts \cup {Nobody, Torn}

LEMMA CommandFields ==
  ASSUME NEW c \in Box!Commands
  PROVE  /\ c.type \in Box!Types
         /\ c.jid \in Contacts \cup {Nobody}
         /\ c.text \in Texts \cup {Nobody}
         /\ c.type = "STR_CHAT" => c.text \in Texts
  BY DEF Box!Commands, Box!Types

LEMMA MailboxBegins == Box!Init => MailboxInv
<1> SUFFICES ASSUME Box!Init PROVE MailboxInv
  OBVIOUS
<1>1. MailboxTypeOK
  BY DEF Box!Init, Box!Nothing, MailboxTypeOK
<1>2. MutexHeld /\ CommandKnown /\ StoredWhenNeeded /\ NoLostWakeup
  BY AdapterConstants
     DEF Box!Init, Box!Nothing, MutexHeld, CommandKnown, StoredWhenNeeded,
         NoLostWakeup
<1>3. TextsWhole
  BY AdapterConstants DEF Box!Init, Box!Nothing, TextsWhole, TextIntact
<1> QED
  BY <1>1, <1>2, <1>3 DEF MailboxInv

LEMMA LockKeeps ==
  ASSUME MailboxInv, NEW w \in Writers, NEW c \in Box!Commands, Box!Lock(w, c)
  PROVE  MailboxInv'
<1>1. /\ m_Message'.type = m_Message.type
      /\ m_Message'.jid \in Jids /\ m_Message'.text \in {m_Message.text, Torn}
      /\ m_Message' \in [type : Box!Types \cup {"UNKNOWN"}, jid : Jids, text : Strings]
  BY DEF Box!Lock, MailboxInv, MailboxTypeOK, Jids, Strings
<1>2. /\ writer' = [writer EXCEPT ![w] = [at |-> "writing", command |-> c]]
      /\ m_Mutex = Nobody /\ m_Mutex' = w
      /\ UNCHANGED <<m_Event, reader, jid, done, fresh>>
      /\ writer[w].at = "idle"
  BY DEF Box!Lock
<1>3. \A v \in Writers : v # w => writer'[v] = writer[v]
  BY <1>2 DEF MailboxInv, MailboxTypeOK
<1>4. writer'[w] = [at |-> "writing", command |-> c]
  BY <1>2 DEF MailboxInv, MailboxTypeOK
<1>5. MailboxTypeOK'
  BY <1>1, <1>2 DEF MailboxInv, MailboxTypeOK, Jids, Strings
<1>6. MutexHeld' /\ CommandKnown'
  BY <1>2, <1>3, <1>4, AdapterConstants DEF MailboxInv, MutexHeld, CommandKnown
<1>7. StoredWhenNeeded' /\ NoLostWakeup'
  BY <1>1, <1>2, <1>3, <1>4
     DEF MailboxInv, StoredWhenNeeded, IsStored, NoLostWakeup
<1>8. TextsWhole'
  <2>1. m_Message'.text = Torn => c.text # Nobody
    <3>1. c.text = Nobody => m_Message'.text = m_Message.text
      BY DEF Box!Lock, MailboxInv, MailboxTypeOK
    <3>2. m_Message.text # Torn
      BY <1>2, AdapterConstants DEF MailboxInv, TextsWhole, MutexHeld
    <3> QED
      BY <3>1, <3>2
  <2> QED
    BY <1>1, <1>2, <1>4, <2>1 DEF MailboxInv, TextsWhole, TextIntact
<1> QED
  BY <1>5, <1>6, <1>7, <1>8 DEF MailboxInv

LEMMA StoreKeeps ==
  ASSUME MailboxInv, NEW w \in Writers, Box!Store(w)
  PROVE  MailboxInv'
<1> DEFINE c == writer[w].command
<1>1. /\ writer[w].at = "writing" /\ c \in Box!Commands /\ m_Mutex = w
      /\ m_Message \in [type : Box!Types \cup {"UNKNOWN"}, jid : Jids, text : Strings]
  BY DEF Box!Store, MailboxInv, CommandKnown, MutexHeld, MailboxTypeOK,
      Jids, Strings
<1>2. /\ m_Message' = [type |-> c.type,
                       jid  |-> Box!Assigned(m_Message.jid, c.jid),
                       text |-> Box!Assigned(m_Message.text, c.text)]
      /\ m_Mutex' = Nobody /\ fresh' = TRUE
      /\ writer' = [writer EXCEPT ![w].at = "stored"]
      /\ UNCHANGED <<m_Event, reader, jid, done>>
  BY DEF Box!Store
<1>3. /\ c.type \in Box!Types /\ c.jid \in Contacts \cup {Nobody}
      /\ c.text \in Texts \cup {Nobody}
      /\ c.type = "STR_CHAT" => c.text \in Texts
  BY <1>1, CommandFields
<1> HIDE DEF c
<1>4. /\ m_Message'.type = c.type /\ c.type \in Box!Types
      /\ m_Message'.text \in Strings
      /\ c.type = "STR_CHAT" => m_Message'.text \in Texts
      /\ m_Message' \in [type : Box!Types \cup {"UNKNOWN"}, jid : Jids, text : Strings]
  BY <1>1, <1>2, <1>3, AdapterConstants DEF Box!Assigned, Jids, Strings
<1>5. /\ \A v \in Writers : v # w => writer'[v] = writer[v]
      /\ writer'[w].at = "stored" /\ writer'[w].command = writer[w].command
  BY <1>2 DEF MailboxInv, MailboxTypeOK
<1>6. MailboxTypeOK'
  BY <1>2, <1>4 DEF MailboxInv, MailboxTypeOK, Jids, Strings
<1>7. MutexHeld' /\ CommandKnown'
  BY <1>1, <1>2, <1>5, AdapterConstants DEF MailboxInv, MutexHeld, CommandKnown
<1>8. StoredWhenNeeded' /\ NoLostWakeup'
  BY <1>4, <1>5 DEF StoredWhenNeeded, IsStored, NoLostWakeup, Box!Types
<1>9. TextsWhole'
  <2>1. m_Message'.text # Torn
    <3>1. CASE c.text = Nobody
      <4>1. m_Message'.text = m_Message.text
        BY <1>2, <3>1 DEF Box!Assigned
      <4>2. \A v \in Writers : writer[v].at = "writing" => v = w
        BY <1>1 DEF MailboxInv, MutexHeld
      <4> QED
        BY <3>1, <4>1, <4>2 DEF MailboxInv, TextsWhole, c
    <3>2. CASE c.text # Nobody
      BY <1>2, <1>3, <3>2, AdapterConstants DEF Box!Assigned
    <3> QED
      BY <3>1, <3>2
  <2>2. TextIntact'
    BY <1>2 DEF MailboxInv, TextsWhole, TextIntact
  <2> QED
    BY <1>4, <2>1, <2>2 DEF TextsWhole
<1> QED
  BY <1>6, <1>7, <1>8, <1>9 DEF MailboxInv

LEMMA SetEventKeeps ==
  ASSUME MailboxInv, NEW w \in Writers, Box!SetEvent(w)
  PROVE  MailboxInv'
<1>1. /\ writer[w].at = "stored" /\ m_Event' = TRUE
      /\ writer' = [writer EXCEPT ![w] = [at |-> "idle", command |-> Box!Nothing]]
      /\ UNCHANGED <<m_Message, m_Mutex, reader, jid, done, fresh>>
  BY DEF Box!SetEvent
<1>2. /\ \A v \in Writers : v # w => writer'[v] = writer[v]
      /\ writer'[w] = [at |-> "idle", command |-> Box!Nothing]
  BY <1>1 DEF MailboxInv, MailboxTypeOK
<1>3. MailboxTypeOK'
  BY <1>1 DEF MailboxInv, MailboxTypeOK
<1>4. MutexHeld' /\ CommandKnown'
  BY <1>1, <1>2 DEF MailboxInv, MutexHeld, CommandKnown
<1>5. StoredWhenNeeded' /\ NoLostWakeup'
  BY <1>1, <1>2 DEF MailboxInv, StoredWhenNeeded, IsStored, NoLostWakeup
<1>6. TextsWhole'
  BY <1>1, <1>2 DEF MailboxInv, TextsWhole, TextIntact
<1> QED
  BY <1>3, <1>4, <1>5, <1>6 DEF MailboxInv

LEMMA ReaderKeeps ==
  ASSUME MailboxInv, Box!OnPreEvent \/ Box!ReadJid \/ Box!OnMessage
  PROVE  MailboxInv'
<1>1. UNCHANGED <<m_Message, m_Mutex, writer>>
  BY DEF Box!OnPreEvent, Box!ReadJid, Box!OnMessage
<1>2. MailboxTypeOK'
  <2>1. Box!Executed \in [type : Box!Types \cup {"UNKNOWN"}, jid : Jids, text : Strings]
    BY DEF MailboxInv, MailboxTypeOK, Box!Executed, Jids, Strings
  <2>2. m_Message.jid \in Jids
    BY DEF MailboxInv, MailboxTypeOK, Jids
  <2> QED
    BY <1>1, <2>1, <2>2
       DEF MailboxInv, MailboxTypeOK, Box!OnPreEvent, Box!ReadJid,
           Box!OnMessage, Jids, Strings
<1>3. MutexHeld' /\ CommandKnown'
  BY <1>1 DEF MailboxInv, MutexHeld, CommandKnown
<1>4. StoredWhenNeeded' /\ NoLostWakeup'
  BY <1>1 DEF MailboxInv, StoredWhenNeeded, IsStored, NoLostWakeup,
      Box!OnPreEvent, Box!ReadJid, Box!OnMessage
<1>5. TextIntact'
  <2>1. CASE Box!OnMessage
    <3>1. m_Message.text # Torn
      BY <2>1, AdapterConstants
         DEF Box!OnMessage, MailboxInv, MutexHeld, TextsWhole
    <3> QED
      BY <2>1, <3>1
         DEF Box!OnMessage, Box!Executed, MailboxInv, TextsWhole, TextIntact
  <2>2. CASE Box!OnPreEvent \/ Box!ReadJid
    BY <2>2 DEF Box!OnPreEvent, Box!ReadJid, MailboxInv, TextsWhole, TextIntact
  <2> QED
    BY <2>1, <2>2
<1>6. TextsWhole'
  BY <1>1, <1>5 DEF MailboxInv, TextsWhole
<1> QED
  BY <1>2, <1>3, <1>4, <1>6 DEF MailboxInv

LEMMA MailboxKeeps == MailboxInv /\ [Box!Next]_(Box!vars) => MailboxInv'
<1> SUFFICES ASSUME MailboxInv, [Box!Next]_(Box!vars) PROVE MailboxInv'
  OBVIOUS
<1>1. ASSUME NEW w \in Writers, NEW c \in Box!Commands, Box!Lock(w, c) PROVE MailboxInv'
  BY <1>1, LockKeeps
<1>2. ASSUME NEW w \in Writers, Box!Store(w) PROVE MailboxInv'
  BY <1>2, StoreKeeps
<1>3. ASSUME NEW w \in Writers, Box!SetEvent(w) PROVE MailboxInv'
  BY <1>3, SetEventKeeps
<1>4. CASE Box!OnPreEvent \/ Box!ReadJid \/ Box!OnMessage
  BY <1>4, ReaderKeeps
<1>5. CASE UNCHANGED Box!vars
  BY <1>5 DEF Box!vars, MailboxInv, MailboxTypeOK, MutexHeld, CommandKnown,
      StoredWhenNeeded, IsStored,
              NoLostWakeup, TextsWhole, TextIntact
<1> QED
  BY <1>1, <1>2, <1>3, <1>4, <1>5 DEF Box!Next

LEMMA MailboxInvariance == Box!Spec => []MailboxInv
  BY MailboxBegins, MailboxKeeps, PTL DEF Box!Spec

-----------------------------------------------------------------------------
(* Every variable of the mailbox keeps its type.                           *)
THEOREM MailboxTypeCorrect == Box!Spec => []MailboxTypeOK
<1>1. MailboxInv => MailboxTypeOK
  BY DEF MailboxInv
<1> QED
  BY <1>1, MailboxInvariance, PTL

(* No wake-up is lost: a command that was stored is executed, or the event *)
(* is set, or will be, or the reader is on its way.                        *)
THEOREM WakeupNeverLost == Box!Spec => []NoLostWakeup
<1>1. MailboxInv => NoLostWakeup
  BY DEF MailboxInv
<1> QED
  BY <1>1, MailboxInvariance, PTL

(* The mutex keeps the text of a chat message whole.                       *)
THEOREM TextAlwaysIntact == Box!Spec => []TextIntact
<1>1. MailboxInv => TextIntact
  BY DEF MailboxInv, TextsWhole
<1> QED
  BY <1>1, MailboxInvariance, PTL

(* The fine-grained mailbox implements the abstract one: storing a command *)
(* is Put, executing it is Take, every other step changes nothing.         *)
THEOREM ImplementsMailbox == Box!Spec => Abstract!Init /\ [][Abstract!Next]_(Abstract!vars)
<1>1. Box!Init => Abstract!Init
  BY DEF Box!Init, Box!Nothing, Abstract!Init
<1>2. ASSUME MailboxInv, [Box!Next]_(Box!vars) PROVE [Abstract!Next]_(Abstract!vars)
  <2>1. ASSUME NEW w \in Writers, NEW c \in Box!Commands, Box!Lock(w, c)
        PROVE  UNCHANGED Abstract!vars
    <3>1. m_Message'.type = m_Message.type
      BY <1>2, <2>1 DEF Box!Lock, MailboxInv, MailboxTypeOK
    <3> QED
      BY <2>1, <3>1 DEF Box!Lock, Abstract!vars
  <2>2. ASSUME NEW w \in Writers, Box!Store(w) PROVE Abstract!Next
    <3> DEFINE t == writer[w].command.type
    <3>1. t \in Box!Types
      BY <1>2, <2>2, CommandFields DEF Box!Store, MailboxInv, CommandKnown
    <3>2. Abstract!Put(t)
      BY <2>2 DEF Box!Store, Abstract!Put
    <3> QED
      BY <3>1, <3>2 DEF Abstract!Next
  <2>3. ASSUME NEW w \in Writers, Box!SetEvent(w) PROVE UNCHANGED Abstract!vars
    BY <2>3 DEF Box!SetEvent, Abstract!vars
  <2>4. CASE Box!OnPreEvent \/ Box!ReadJid
    BY <2>4 DEF Box!OnPreEvent, Box!ReadJid, Abstract!vars
  <2>5. CASE Box!OnMessage
    BY <1>2, <2>5
       DEF Box!OnMessage, Box!Executed, MailboxInv, StoredWhenNeeded, IsStored,
                      Abstract!Next, Abstract!Take
  <2>6. CASE UNCHANGED Box!vars
    BY <2>6 DEF Box!vars, Abstract!vars
  <2> QED
    BY <1>2, <2>1, <2>2, <2>3, <2>4, <2>5, <2>6 DEF Box!Next
<1> QED
  BY <1>1, <1>2, MailboxInvariance, PTL DEF Box!Spec
=============================================================================

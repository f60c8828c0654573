------------------------------- MODULE LoginProofs -------------------------------
(***************************************************************************)
(* Proofs about Login: its types, that neither a signalling thread nor its *)
(* worker is left behind, and that the buttons tell the state, for any     *)
(* commands, faults and logins.                                            *)
(***************************************************************************)
EXTENDS Login, SequenceTheorems, TLAPS

(* A stack in the middle of a step, with what it has posted so far.        *)
Frames ==
  [engine : {"START", "OPENING", "OPEN", "CLOSED"}, error : {"NONE", "STREAM"},
   task : {"START", "RESPONSE", "ERROR"}, closed : BOOLEAN,
   socket : {"new", "connecting", "connected", "closed", "dead"}, pump : BOOLEAN,
   stopping : BOOLEAN, worker : {"none", "running", "stopped"}, phone : BOOLEAN,
   call : BOOLEAN, unsent : SUBSET {"INITIATE", "TERMINATE"}, posted : Seq(Notices)]

(* A loop that is to end has no worker left.                               *)
Quiet(y) == y.stopping => y.worker # "running"

(* The handlers of the UI thread, and what is left of them.                *)
Handlers ==
  {<<>>, <<"Run">>, <<"Stop", "Run">>, <<"EXIT", "Stop">>, <<"Stop">>, <<"CALL">>,
   <<"HANGUP">>, <<"EXIT", "Stop", "Gone">>, <<"Stop", "Gone">>, <<"Gone">>}

(* NothingOutlives, and why it stays true: a stopping loop has no worker,  *)
(* m_Running is never false too early, and the last step of the destructor *)
(* comes after Stop.                                                       *)
IInv ==
  /\ TypeOK
  /\ ui \in Handlers
  /\ Quiet(x)
  /\ thread \notin {"loop", "crashed"} => x.worker # "running"
  /\ ~running => thread = "none"
  /\ ui = <<"Gone">> => thread = "none"
  /\ gone => ui = <<>> /\ thread = "none"

-----------------------------------------------------------------------------
(* What the callbacks make of a stack.                                     *)
Kept(y, z) == z \in Frames /\ (Quiet(y) => Quiet(z))

LEMMA Appended ==
  ASSUME NEW S, NEW q \in Seq(S), NEW n \in S
  PROVE  Append(q, n) \in Seq(S)
OBVIOUS

LEMMA Joined ==
  ASSUME NEW S, NEW q \in Seq(S), NEW r \in Seq(S)
  PROVE  q \o r \in Seq(S)
OBVIOUS

LEMMA PostKeeps ==
  ASSUME NEW y \in Frames, NEW n \in Notices
  PROVE  /\ Post(y, n) \in Frames
         /\ Post(y, n).stopping = y.stopping /\ Post(y, n).worker = y.worker
<1> DEFINE q == Append(y.posted, n)
<1>1. q \in Seq(Notices)
  <2>1. y.posted \in Seq(Notices)
    BY DEF Frames
  <2> QED BY <2>1, Appended
<1>2. Post(y, n) = [y EXCEPT !.posted = q]
  BY DEF Post
<1> HIDE DEF q
<1> QED
  BY <1>1, <1>2 DEF Frames

LEMMA StateChangeKeeps ==
  ASSUME NEW y \in Frames, NEW s \in {"OPENING", "CLOSED"}
  PROVE  Kept(y, OnStateChange(y, s))
<1>1. CASE s = "OPENING"
  <2>1. OnStateChange(y, s) = Post(y, "LOGGINGIN")
    BY <1>1 DEF OnStateChange
  <2> QED BY <2>1, PostKeeps DEF Kept, Quiet, Notices
<1>2. CASE s = "CLOSED"
  <2> DEFINE z == Post(y, "DISCONNECT")
  <2>1. OnStateChange(y, s) =
          [z EXCEPT !.worker = IF @ = "running" THEN "stopped" ELSE @, !.stopping = TRUE]
    BY <1>2 DEF OnStateChange
  <2>2. z \in Frames
    BY PostKeeps DEF Notices
  <2> HIDE DEF z
  <2> QED BY <2>1, <2>2, ZenonT(60) DEF Kept, Quiet, Frames
<1> QED BY <1>1, <1>2

(* The phone is set up by a loop that runs.                                *)
LEMMA OpenKeeps ==
  ASSUME NEW y \in Frames, ~y.stopping
  PROVE  Kept(y, OnStateChange(y, "OPEN"))
<1> DEFINE z == [y EXCEPT !.worker = "running", !.phone = TRUE, !.pump = TRUE]
<1>1. z \in Frames /\ ~z.stopping
  BY DEF Frames
<1>2. OnStateChange(y, "OPEN") = Post(z, "LOGGEDIN")
  BY DEF OnStateChange
<1> HIDE DEF z
<1> QED BY <1>1, <1>2, PostKeeps DEF Kept, Quiet, Notices

LEMMA EnsureClosedKeeps ==
  ASSUME NEW y \in Frames
  PROVE  Kept(y, EnsureClosed(y))
<1> DEFINE z == [y EXCEPT !.closed = TRUE]
<1>1. z \in Frames /\ (Quiet(y) => Quiet(z))
  BY DEF Frames, Quiet
<1>2. Kept(z, OnStateChange(z, "CLOSED"))
  BY <1>1, StateChangeKeeps
<1> QED
  BY <1>1, <1>2 DEF EnsureClosed, Kept

LEMMA PumpKeeps ==
  ASSUME NEW y \in Frames
  PROVE  Kept(y, [y EXCEPT !.pump = TRUE])
<1>1. [y EXCEPT !.pump = TRUE] \in Frames
  BY DEF Frames
<1>2. Quiet(y) => Quiet([y EXCEPT !.pump = TRUE])
  BY DEF Quiet, Frames
<1> QED BY <1>1, <1>2 DEF Kept

LEMMA EnteredKeeps ==
  ASSUME NEW y \in Frames, NEW s \in {"OPENING", "OPEN", "CLOSED"},
         s = "OPEN" => ~y.stopping
  PROVE  Kept(y, Entered(y, s))
<1> DEFINE z == [y EXCEPT !.engine = s]
           w == IF s = "CLOSED" THEN EnsureClosed(z) ELSE OnStateChange(z, s)
<1>1. z \in Frames /\ (Quiet(y) => Quiet(z)) /\ z.stopping = y.stopping
  BY DEF Frames, Quiet
<1>2. Kept(z, w)
  BY <1>1, EnsureClosedKeeps, StateChangeKeeps, OpenKeeps
<1>3. Entered(y, s) = [w EXCEPT !.pump = TRUE]
  BY DEF Entered
<1>4. w \in Frames /\ (Quiet(y) => Quiet(w))
  <2> HIDE DEF z, w
  <2> QED BY <1>1, <1>2 DEF Kept
<1>5. Kept(w, [w EXCEPT !.pump = TRUE])
  <2> HIDE DEF z, w
  <2> QED BY <1>4, PumpKeeps
<1> HIDE DEF z, w
<1> QED
  BY <1>3, <1>4, <1>5 DEF Kept

LEMMA SignalErrorKeeps ==
  ASSUME NEW y \in Frames, NEW e \in {"NONE", "STREAM"}
  PROVE  Kept(y, SignalError(y, e))
<1> DEFINE z == [y EXCEPT !.error = e,
                          !.socket = IF @ = "connected" THEN "closed" ELSE @]
<1>1. z \in Frames /\ (Quiet(y) => Quiet(z))
  BY DEF Frames, Quiet
<1>2. Kept(z, Entered(z, "CLOSED"))
  BY <1>1, EnteredKeeps
<1> QED
  BY <1>1, <1>2 DEF SignalError, Kept

LEMMA TerminatedKeeps ==
  ASSUME NEW y \in Frames
  PROVE  Kept(y, Terminated(y))
<1> DEFINE z == Post(y, "ENDED")
<1>1. Terminated(y) = [z EXCEPT !.call = FALSE, !.unsent = @ \cup {"TERMINATE"},
                                !.pump = TRUE]
  BY DEF Terminated
<1>2. z \in Frames /\ z.stopping = y.stopping /\ z.worker = y.worker
  BY PostKeeps DEF Notices
<1> HIDE DEF z
<1>3. Terminated(y) \in Frames
  BY <1>1, <1>2, ZenonT(60) DEF Frames
<1>4. Terminated(y).stopping = z.stopping /\ Terminated(y).worker = z.worker
  BY <1>1, <1>2 DEF Frames
<1> QED BY <1>2, <1>3, <1>4 DEF Kept, Quiet

LEMMA ExecutedKeeps ==
  ASSUME NEW y \in Frames, NEW c
  PROVE  Kept(y, Executed(y, c))
<1>1. Kept(y, y)
  BY DEF Kept
<1>2. Kept(y, Exit(y))
  BY <1>1, TerminatedKeeps, SignalErrorKeeps DEF Exit, Kept
<1>3. ASSUME NEW z, z = Post(y, "CALLING")
      PROVE  Kept(y, [z EXCEPT !.call = TRUE, !.unsent = @ \cup {"INITIATE"},
                               !.pump = TRUE])
  <2>1. z \in Frames /\ z.stopping = y.stopping /\ z.worker = y.worker
    BY <1>3, PostKeeps DEF Notices
  <2> QED BY <2>1 DEF Kept, Quiet, Frames
<1>4. Kept(y, [y EXCEPT !.call = FALSE])
  BY DEF Kept, Quiet, Frames
<1> QED
  BY <1>1, <1>2, <1>3, <1>4, TerminatedKeeps DEF Executed

LEMMA BecomesKeeps ==
  ASSUME TypeOK, Quiet(x), NEW y, Kept(x, y), Becomes(y)
  PROVE  x' \in Stacks /\ uiQueue' \in Seq(Notices) /\ Quiet(x)'
<1>1. x' \in Stacks
  BY DEF Becomes, Kept, Frames, Stacks
<1>2. uiQueue' \in Seq(Notices)
  <2>1. uiQueue \in Seq(Notices) /\ y.posted \in Seq(Notices)
    BY DEF Kept, Frames, TypeOK
  <2> QED BY <2>1, Joined DEF Becomes
<1>3. Quiet(x)'
  BY DEF Becomes, Kept, Frames, Quiet
<1> QED
  BY <1>1, <1>2, <1>3

LEMMA StackIsFrame ==
  ASSUME TypeOK
  PROVE  x \in Frames
<1>1. <<>> \in Seq(Notices)
  OBVIOUS
<1> QED BY <1>1 DEF TypeOK, Stacks, Frames

-----------------------------------------------------------------------------
(* The parts of IInv that are about the threads and the dialog, without    *)
(* what a step of the signalling thread makes of its stack and the queue.  *)
LEMMA InitIInv == Init => IInv
<1> SUFFICES ASSUME Init PROVE IInv
  OBVIOUS
<1>1. <<"Run">> \in Seq(Steps) /\ <<>> \in Seq(Notices)
  BY DEF Steps
<1>2. Fresh \in Stacks
  BY DEF Fresh, Stacks
<1>3. TypeOK
  BY <1>1, <1>2 DEF Init, TypeOK
<1> QED
  BY <1>3 DEF Init, IInv, Handlers, Quiet, Fresh

(* A step of the loop that leaves the dialog alone.                        *)
LEMMA LoopStepKeeps ==
  ASSUME IInv, thread = "loop", UNCHANGED dialog,
         x' \in Stacks, uiQueue' \in Seq(Notices), Quiet(x)',
         peer' \in {"none", "called", "ended"},
         command' = command, wake' \in BOOLEAN,
         thread' \in {"loop", "crashed"}
  PROVE  IInv'
<1>1. TypeOK'
  BY DEF IInv, TypeOK, dialog
<1> QED
  BY <1>1 DEF IInv, dialog

LEMMA SignallingKeeps ==
  ASSUME IInv, SvcLoop \/ RunTasks \/ TakeCommand \/ LoopReturns \/ Network
  PROVE  IInv'
<1> USE DEF IInv
<1>0. x \in Frames /\ Kept(x, x)
  BY StackIsFrame DEF Kept
<1>1. CASE SvcLoop
  <2>1. Fresh \in Stacks /\ ~Fresh.stopping
    BY DEF Fresh, Stacks
  <2>2. TypeOK'
    BY <1>1, <2>1 DEF SvcLoop, TypeOK, dialog, mailbox
  <2> QED BY <1>1, <2>1, <2>2 DEF SvcLoop, dialog, Quiet
<1>2. CASE RunTasks
  <2> DEFINE y == [x EXCEPT !.pump = FALSE]
             e == [y EXCEPT !.task = "ERROR"]
             u == [y EXCEPT !.unsent = {}]
  <2>1. Kept(x, Connects(y)) /\ Kept(x, u) /\ e \in Frames /\ (Quiet(x) => Quiet(e))
    BY <1>0 DEF Kept, Connects, Frames, Quiet
  <2>2. Kept(x, EnsureClosed(e))
    BY <2>1, EnsureClosedKeeps DEF Kept
  <2>3. \E z : Kept(x, z) /\ Becomes(z)
    BY <1>2, <2>1, <2>2 DEF RunTasks
  <2>4. x' \in Stacks /\ uiQueue' \in Seq(Notices) /\ Quiet(x)'
    BY <2>3, BecomesKeeps
  <2>5. peer' \in {"none", "called", "ended"}
    BY <1>2 DEF RunTasks, TypeOK
  <2> HIDE DEF IInv
  <2> QED BY <1>2, <2>4, <2>5, LoopStepKeeps DEF RunTasks, InLoop, mailbox, IInv, TypeOK
<1>3. CASE TakeCommand
  <2>1. Kept(x, Executed(x, command))
    BY <1>0, ExecutedKeeps
  <2>2. x' \in Stacks /\ uiQueue' \in Seq(Notices) /\ Quiet(x)'
    BY <1>3, <2>1, BecomesKeeps DEF TakeCommand, TypeOK, Quiet
  <2> HIDE DEF IInv
  <2> QED BY <1>3, <2>2, LoopStepKeeps DEF TakeCommand, Idle, InLoop, IInv, TypeOK
<1>4. CASE LoopReturns
  <2>1. TypeOK'
    BY <1>4 DEF LoopReturns, TypeOK, dialog, mailbox
  <2> QED BY <1>4, <2>1 DEF LoopReturns, dialog, Quiet
<1>5. ASSUME NEW y, Kept(x, y), Idle, SocketEvent(y) PROVE IInv'
  <2>1. x' \in Stacks /\ uiQueue' \in Seq(Notices) /\ Quiet(x)'
    BY <1>5, BecomesKeeps DEF SocketEvent
  <2> HIDE DEF IInv
  <2> QED BY <1>5, <2>1, LoopStepKeeps DEF SocketEvent, Idle, InLoop, IInv, TypeOK, mailbox
<1>6. CASE OnSocketConnected
  <2> DEFINE y == [x EXCEPT !.socket = "connected"]
  <2>1. y \in Frames /\ (Quiet(x) => Quiet(y))
    BY <1>0 DEF Frames, Quiet
  <2>2. Kept(x, Entered(y, "OPENING"))
    BY <2>1, EnteredKeeps DEF Kept
  <2> QED BY <1>5, <1>6, <2>2 DEF OnSocketConnected
<1>7. CASE SignalBound
  <2>1. Kept(x, Entered(x, "OPEN"))
    BY <1>0, <1>7, EnteredKeeps DEF SignalBound, Idle, InLoop
  <2> QED BY <1>5, <1>7, <2>1 DEF SignalBound
<1>8. CASE StreamEnds
  <2>1. Kept(x, SignalError(x, "STREAM"))
    BY <1>0, SignalErrorKeeps
  <2> QED BY <1>5, <1>8, <2>1 DEF StreamEnds
<1>9. CASE SocketFails
  <2>1. x' \in Stacks /\ Quiet(x)'
    BY <1>9 DEF SocketFails, TypeOK, Stacks, Quiet
  <2> HIDE DEF IInv
  <2> QED BY <1>9, <2>1, LoopStepKeeps DEF SocketFails, IInv, TypeOK, mailbox
<1> QED
  BY <1>1, <1>2, <1>3, <1>4, <1>6, <1>7, <1>8, <1>9 DEF Network

(* What the UI thread does.  A handler's steps are taken one by one.       *)
LEMMA HandlerTypes ==
  /\ Handlers \subseteq Seq(Steps)
  /\ \A h \in Handlers : h # <<>> => Tail(h) \in Handlers
<1>1. <<"EXIT", "Stop", "Gone">> \in Seq(Steps) /\ <<"EXIT", "Stop">> \in Seq(Steps)
  BY DEF Steps
<1>2. <<"Stop", "Run">> \in Seq(Steps) /\ <<"Stop", "Gone">> \in Seq(Steps)
  BY DEF Steps
<1>3. <<"Run">> \in Seq(Steps) /\ <<"Stop">> \in Seq(Steps) /\ <<"Gone">> \in Seq(Steps)
  BY DEF Steps
<1>4. <<"CALL">> \in Seq(Steps) /\ <<"HANGUP">> \in Seq(Steps) /\ <<>> \in Seq(Steps)
  BY DEF Steps
<1>5. Tail(<<"EXIT", "Stop", "Gone">>) = <<"Stop", "Gone">>
  OBVIOUS
<1>6. Tail(<<"EXIT", "Stop">>) = <<"Stop">> /\ Tail(<<"Stop", "Run">>) = <<"Run">>
  OBVIOUS
<1>7. Tail(<<"Stop", "Gone">>) = <<"Gone">>
  OBVIOUS
<1>8. /\ Tail(<<"Run">>) = <<>> /\ Tail(<<"Stop">>) = <<>> /\ Tail(<<"Gone">>) = <<>>
      /\ Tail(<<"CALL">>) = <<>> /\ Tail(<<"HANGUP">>) = <<>>
  OBVIOUS
<1> QED
  BY <1>1, <1>2, <1>3, <1>4, <1>5, <1>6, <1>7, <1>8, Zenon DEF Handlers

(* A handler whose next step is Gone, or leaves Gone, is one of these.     *)
LEMMA HandlerHeads ==
  ASSUME NEW h \in Handlers, h # <<>>
  PROVE  /\ Head(h) \in Steps
         /\ Head(h) = "Gone" => h = <<"Gone">> /\ Tail(h) = <<>>
         /\ Tail(h) = <<"Gone">> => Head(h) = "Stop"
<1>1. /\ Head(<<"Run">>) = "Run" /\ Head(<<"Stop", "Run">>) = "Stop"
      /\ Head(<<"EXIT", "Stop">>) = "EXIT" /\ Head(<<"Stop">>) = "Stop"
      /\ Head(<<"CALL">>) = "CALL" /\ Head(<<"HANGUP">>) = "HANGUP"
  OBVIOUS
<1>2. /\ Head(<<"EXIT", "Stop", "Gone">>) = "EXIT" /\ Head(<<"Stop", "Gone">>) = "Stop"
      /\ Head(<<"Gone">>) = "Gone"
  OBVIOUS
<1>3. /\ Tail(<<"Gone">>) = <<>>
      /\ Tail(<<"Run">>) # <<"Gone">> /\ Tail(<<"EXIT", "Stop">>) # <<"Gone">>
      /\ Tail(<<"CALL">>) # <<"Gone">> /\ Tail(<<"HANGUP">>) # <<"Gone">>
  OBVIOUS
<1>4. Tail(<<"EXIT", "Stop", "Gone">>) # <<"Gone">>
  OBVIOUS
<1>5. <<>> # <<"Gone">>
  OBVIOUS
<1>6. h \in {<<"Run">>, <<"Stop", "Run">>, <<"EXIT", "Stop">>, <<"Stop">>, <<"CALL">>,
            <<"HANGUP">>, <<"EXIT", "Stop", "Gone">>, <<"Stop", "Gone">>, <<"Gone">>}
  BY Zenon DEF Handlers
<1>7. h = <<"Gone">> => Tail(h) # <<"Gone">>
  BY <1>3, <1>5
<1> HIDE DEF Handlers
<1>8. Head(h) \in Steps
  BY <1>1, <1>2, <1>6, Zenon DEF Steps
<1>9. Head(h) = "Gone" => h = <<"Gone">>
  BY <1>1, <1>2, <1>6
<1>10. Tail(h) = <<"Gone">> => Head(h) = "Stop"
  BY <1>1, <1>2, <1>3, <1>4, <1>6, <1>7, ZenonT(30)
<1> QED
  BY <1>3, <1>8, <1>9, <1>10

LEMMA OthersAreNotGone ==
  /\ <<"Run">> # <<"Gone">> /\ <<"Stop", "Run">> # <<"Gone">> /\ <<>> # <<"Gone">>
  /\ <<"EXIT", "Stop">> # <<"Gone">> /\ <<"CALL">> # <<"Gone">> /\ <<"HANGUP">> # <<"Gone">>
  /\ <<"EXIT", "Stop", "Gone">> # <<"Gone">>
<1>1. <<"Run">> # <<"Gone">> /\ <<"CALL">> # <<"Gone">> /\ <<"HANGUP">> # <<"Gone">>
  OBVIOUS
<1>2. <<"Stop", "Run">> # <<"Gone">> /\ <<"EXIT", "Stop">> # <<"Gone">>
  <2>1. Len(<<"Stop", "Run">>) = 2 /\ Len(<<"EXIT", "Stop">>) = 2 /\ Len(<<"Gone">>) = 1
    OBVIOUS
  <2> QED BY <2>1
<1>3. <<"EXIT", "Stop", "Gone">> # <<"Gone">>
  <2>1. Len(<<"EXIT", "Stop", "Gone">>) = 3 /\ Len(<<"Gone">>) = 1
    OBVIOUS
  <2> QED BY <2>1
<1>4. <<>> # <<"Gone">>
  OBVIOUS
<1> QED
  BY <1>1, <1>2, <1>3, <1>4, Zenon

LEMMA DialogKeeps ==
  ASSUME IInv,
         HandlerStep \/ HandleMessage \/ Destructor \/ OnHandlePhone
           \/ (\E b \in Clicks : Click(b)) \/ (\E c \in Others : HelperGives(c))
  PROVE  IInv'
<1> USE DEF IInv
<1>1. CASE HandlerStep
  <2>1. ui' \in Handlers /\ ui' \in Seq(Steps)
    BY <1>1, HandlerTypes DEF HandlerStep
  <2>2. TypeOK'
    <3>1. CASE Head(ui) \in {"EXIT", "CALL", "HANGUP"} /\ Store(Head(ui))
               /\ UNCHANGED <<running, thread, x, peer, gone, logins>>
      BY <1>1, <2>1, <3>1 DEF HandlerStep, Store, TypeOK
    <3>2. CASE Stop
      BY <1>1, <2>1, <3>2 DEF HandlerStep, Stop, TypeOK, mailbox
    <3>3. CASE Run
      BY <1>1, <2>1, <3>3 DEF HandlerStep, Run, TypeOK, mailbox
    <3>4. CASE gone' = TRUE /\ UNCHANGED <<running, thread, x, peer, logins, mailbox>>
      BY <1>1, <2>1, <3>4 DEF HandlerStep, TypeOK, mailbox
    <3> QED BY <1>1, <3>1, <3>2, <3>3, <3>4 DEF HandlerStep
  <2>3. thread' = thread \/ thread' \in {"none", "started"}
    BY <1>1 DEF HandlerStep, Stop, Run
  <2>4. x' = x
    BY <1>1 DEF HandlerStep, Stop, Run
  <2>5. thread' \notin {"loop", "crashed"} => x'.worker # "running"
    BY <1>1, <2>4 DEF HandlerStep, Stop, Run
  <2>6. ~running' => thread' = "none"
    BY <1>1 DEF HandlerStep, Stop, Run
  <2>7. ui' = <<"Gone">> => thread' = "none"
    BY <1>1, HandlerHeads DEF HandlerStep, Stop
  <2>8. gone' => ui' = <<>> /\ thread' = "none"
    BY <1>1, HandlerHeads DEF HandlerStep, Stop, Run
  <2> QED BY <2>1, <2>2, <2>4, <2>5, <2>6, <2>7, <2>8 DEF Quiet
<1>2. CASE HandleMessage
  <2>1. Tail(uiQueue) \in Seq(Notices) /\ Head(uiQueue) \in Notices
    BY <1>2 DEF HandleMessage, TypeOK
  <2>2. buttons' \subseteq {"Login", "Logout", "Call", "Hangup"}
    BY <1>2, <2>1 DEF HandleMessage, Enabled, Notices, TypeOK
  <2>3. TypeOK'
    BY <1>2, <2>1, <2>2 DEF HandleMessage, TypeOK, mailbox
  <2> QED BY <1>2, <2>3 DEF HandleMessage, Quiet
<1>3. ASSUME ui' \in Handlers, UIFree, ui' = <<"Gone">> => ~running,
             UNCHANGED <<gone, running, buttons, logins, thread, x, peer, uiQueue, mailbox>>
      PROVE  IInv'
  <2>1. TypeOK'
    BY <1>3, HandlerTypes DEF TypeOK, mailbox
  <2> QED BY <1>3, <2>1 DEF UIFree, Quiet
<1>4. CASE Destructor
  <2>1. ui' \in Handlers /\ (ui' = <<"Gone">> => ~running)
    BY <1>4, OthersAreNotGone, Zenon DEF Destructor, Handlers
  <2> QED BY <1>3, <1>4, <2>1 DEF Destructor
<1>5. CASE OnHandlePhone
  BY <1>3, <1>5 DEF OnHandlePhone, Handlers
<1>6. ASSUME NEW b \in Clicks, Click(b) PROVE IInv'
  <2>1. ui' \in Handlers /\ ui' # <<"Gone">>
    <3>1. ui' \in {<<"Run">>, <<"Stop", "Run">>, <<>>, <<"EXIT", "Stop">>, <<"CALL">>,
                  <<"HANGUP">>}
      BY <1>6, Zenon DEF Click, OnBnClickedLogin, OnBnClickedLogout
    <3> QED BY <3>1, OthersAreNotGone, Zenon DEF Handlers
  <2> QED BY <1>3, <1>6, <2>1 DEF Click
<1>7. ASSUME NEW c \in Others, HelperGives(c) PROVE IInv'
  <2>1. TypeOK'
    BY <1>7 DEF HelperGives, Store, TypeOK, dialog
  <2> QED BY <1>7, <2>1 DEF HelperGives, dialog, Quiet
<1> QED
  BY <1>1, <1>2, <1>4, <1>5, <1>6, <1>7

THEOREM Invariance == Spec => []IInv
<1>1. Init => IInv
  BY InitIInv
<1>2. IInv /\ [Next]_vars => IInv'
  <2> SUFFICES ASSUME IInv, [Next]_vars PROVE IInv'
    OBVIOUS
  <2>1. CASE Next
    BY <2>1, SignallingKeeps, DialogKeeps DEF Next
  <2>2. CASE UNCHANGED vars
    BY <2>2 DEF vars, dialog, mailbox, IInv, TypeOK, Quiet
  <2> QED BY <2>1, <2>2
<1> QED
  BY <1>1, <1>2, PTL DEF Spec

(* Every variable of the login keeps its type.                             *)
THEOREM TypeCorrect == Spec => []TypeOK
BY Invariance, PTL DEF IInv

(* However logins are begun, broken off, lost and ended: the dialog never  *)
(* forgets a signalling thread, waits for it before it is destroyed, and   *)
(* no worker thread survives its signalling thread.                        *)
THEOREM NothingIsLeftBehind == Spec => []NothingOutlives
<1>1. IInv => NothingOutlives
  BY DEF IInv, NothingOutlives, TypeOK
<1> QED
  BY <1>1, Invariance, PTL

-----------------------------------------------------------------------------
(* What the dialog shows when it has been told all that is posted and all  *)
(* of q: the last notice decides.                                          *)
Saying(told, q) == IF q = <<>> THEN told ELSE Enabled(q[Len(q)], {})

Told == Saying(buttons, uiQueue)

(* What a stack calls for.                                                 *)
Due(y) ==
  IF y.closed \/ y.engine = "START" THEN {"Login"}
  ELSE IF y.engine = "OPENING" THEN {}
  ELSE IF y.call THEN {"Logout", "Hangup"} ELSE {"Logout", "Call"}

(* A stack whose states agree: nothing is connected before the client task *)
(* has run, a call needs the phone client and that an open engine, the     *)
(* loop is stopped exactly when the dialog was told of the end, and the    *)
(* pump has a message while there are stanzas to send.                     *)
Agrees(y) ==
  /\ y.task = "START" => y.engine = "START" /\ y.pump
  /\ y.closed <=> y.stopping
  /\ y.engine = "CLOSED" => y.closed
  /\ y.closed => y.engine \in {"START", "CLOSED"}
  /\ y.call => y.phone
  /\ y.phone => y.engine \in {"OPEN", "CLOSED"}
  /\ y.unsent # {} => y.pump /\ y.phone

(* The person called, of whom p is known, is or will be called, and is not *)
(* about to be told of an end.                                             *)
Owed(y, p) == (p = "called" \/ "INITIATE" \in y.unsent) /\ "TERMINATE" \notin y.unsent

(* ButtonsFit, with what is on its way to the dialog: what is due, or      *)
(* still Hangup for a call that was forgotten.                             *)
Shows(told, y, p) ==
  \/ Saying(told, y.posted) = Due(y)
  \/ /\ Saying(told, y.posted) = {"Logout", "Hangup"}
     /\ y.engine = "OPEN" /\ ~y.closed /\ Owed(y, p)

Fit(told, y, p) == Agrees(y) /\ (y.call => Owed(y, p)) /\ Shows(told, y, p)

BInv ==
  /\ TypeOK
  /\ thread \in {"none", "started", "ended"} => Told = {"Login"}
  /\ thread = "loop" => Fit(Told, x, peer)

(* The last notice decides, whatever was posted before it.                 *)
LEMMA SayingLast ==
  ASSUME NEW q \in Seq(Notices), NEW n \in Notices, NEW t
  PROVE  Saying(t, Append(q, n)) = Enabled(n, {})
<1>1. Append(q, n) # <<>> /\ Append(q, n)[Len(Append(q, n))] = n
  OBVIOUS
<1> QED
  BY <1>1 DEF Saying

LEMMA SayingJoined ==
  ASSUME NEW q \in Seq(Notices), NEW r \in Seq(Notices), NEW t
  PROVE  Saying(t, q \o r) = Saying(Saying(t, q), r)
<1>1. CASE r = <<>>
  <2>1. q \o r = q
    BY <1>1
  <2> QED BY <1>1, <2>1 DEF Saying
<1>2. CASE r # <<>>
  <2>1. q \o r # <<>> /\ (q \o r)[Len(q \o r)] = r[Len(r)]
    BY <1>2
  <2> QED BY <1>2, <2>1 DEF Saying
<1> QED BY <1>1, <1>2

LEMMA PostSays ==
  ASSUME NEW y \in Frames, NEW n \in Notices, NEW t
  PROVE  /\ Post(y, n) \in Frames
         /\ Saying(t, Post(y, n).posted) = Enabled(n, {})
         /\ Post(y, n).task = y.task /\ Post(y, n).engine = y.engine
         /\ Post(y, n).pump = y.pump /\ Post(y, n).closed = y.closed
         /\ Post(y, n).stopping = y.stopping /\ Post(y, n).call = y.call
         /\ Post(y, n).phone = y.phone /\ Post(y, n).unsent = y.unsent
<1> DEFINE q == Append(y.posted, n)
<1>1. Post(y, n) = [y EXCEPT !.posted = q]
  BY DEF Post
<1>2. Saying(t, q) = Enabled(n, {})
  <2>1. y.posted \in Seq(Notices)
    BY DEF Frames
  <2> QED BY <2>1, SayingLast
<1>3. Post(y, n) \in Frames
  BY PostKeeps
<1> HIDE DEF q
<1>4. Post(y, n).posted = q
  BY <1>1 DEF Frames
<1> QED
  BY <1>1, <1>2, <1>3, <1>4 DEF Frames

(* The end of a login, from a loop that was not told to stop.              *)
LEMMA ClosingFits ==
  ASSUME NEW y \in Frames, NEW t, NEW p, ~y.closed, y.engine \in {"START", "CLOSED"},
         y.engine = "START" => ~y.phone /\ ~y.call /\ y.task # "START",
         y.task = "START" => y.engine = "START", y.call => y.phone /\ Owed(y, p),
         y.unsent # {} => y.pump /\ y.phone
  PROVE  EnsureClosed(y) \in Frames /\ Fit(t, EnsureClosed(y), p)
<1> DEFINE z == Post([y EXCEPT !.closed = TRUE], "DISCONNECT")
<1>1. [y EXCEPT !.closed = TRUE] \in Frames
  BY DEF Frames
<1>2. /\ z \in Frames /\ Saying(t, z.posted) = Enabled("DISCONNECT", {})
      /\ z.task = y.task /\ z.engine = y.engine /\ z.pump = y.pump /\ z.closed
      /\ z.call = y.call /\ z.phone = y.phone /\ z.unsent = y.unsent
  <2> DEFINE w == [y EXCEPT !.closed = TRUE]
  <2>1. /\ w.task = y.task /\ w.engine = y.engine /\ w.pump = y.pump /\ w.closed
        /\ w.call = y.call /\ w.phone = y.phone /\ w.unsent = y.unsent
    BY DEF Frames
  <2>2. w \in Frames /\ z = Post(w, "DISCONNECT")
    BY <1>1
  <2> HIDE DEF w, z
  <2> QED BY <2>1, <2>2, PostSays DEF Notices
<1>3. EnsureClosed(y) =
        [z EXCEPT !.worker = IF @ = "running" THEN "stopped" ELSE @, !.stopping = TRUE]
  BY DEF EnsureClosed, OnStateChange
<1> HIDE DEF z
<1>4. EnsureClosed(y) \in Frames
  BY <1>2, <1>3, ZenonT(60) DEF Frames
<1>5. /\ EnsureClosed(y).task = y.task /\ EnsureClosed(y).engine = y.engine
      /\ EnsureClosed(y).closed /\ EnsureClosed(y).call = y.call
      /\ EnsureClosed(y).phone = y.phone /\ EnsureClosed(y).stopping
      /\ EnsureClosed(y).posted = z.posted /\ EnsureClosed(y).unsent = y.unsent
      /\ EnsureClosed(y).pump = y.pump
  BY <1>2, <1>3 DEF Frames
<1>6. Saying(t, EnsureClosed(y).posted) = {"Login"}
  BY <1>2, <1>5 DEF Enabled
<1> QED
  BY <1>4, <1>5, <1>6 DEF Fit, Shows, Owed, Agrees, Due

LEMMA PumpFits ==
  ASSUME NEW y \in Frames, NEW t, NEW p, Fit(t, y, p)
  PROVE  [y EXCEPT !.pump = TRUE] \in Frames /\ Fit(t, [y EXCEPT !.pump = TRUE], p)
<1> DEFINE z == [y EXCEPT !.pump = TRUE]
<1>1. z \in Frames
  BY DEF Frames
<1>2. /\ z.task = y.task /\ z.engine = y.engine /\ z.pump
      /\ z.closed = y.closed /\ z.call = y.call /\ z.phone = y.phone
      /\ z.stopping = y.stopping /\ z.posted = y.posted /\ z.unsent = y.unsent
  BY DEF Frames
<1> HIDE DEF z
<1>3. Fit(t, z, p)
  BY <1>2 DEF Fit, Shows, Owed, Agrees, Due
<1> QED BY <1>1, <1>3 DEF z

(* A stack in the loop, its client task at work.                           *)
Working(y) == y \in Frames /\ ~y.stopping /\ y.task # "START"

LEMMA SignalErrorFits ==
  ASSUME NEW y, Working(y), NEW t, NEW p, Fit(t, y, p), NEW e \in {"NONE", "STREAM"}
  PROVE  SignalError(y, e) \in Frames /\ Fit(t, SignalError(y, e), p)
<1> DEFINE w == [y EXCEPT !.error = e,
                          !.socket = IF @ = "connected" THEN "closed" ELSE @]
           z == [w EXCEPT !.engine = "CLOSED"]
<1>1. y \in Frames /\ y.engine # "CLOSED" /\ ~y.closed
  BY DEF Working, Fit, Shows, Owed, Agrees
<1>2. /\ w \in Frames /\ z \in Frames
      /\ z.engine = "CLOSED" /\ z.closed = y.closed /\ z.task = y.task
      /\ z.call = y.call /\ z.phone = y.phone /\ z.unsent = y.unsent /\ z.pump = y.pump
  <2>1. /\ w \in Frames /\ w.closed = y.closed /\ w.task = y.task
        /\ w.call = y.call /\ w.phone = y.phone /\ w.unsent = y.unsent /\ w.pump = y.pump
    BY <1>1 DEF Frames
  <2> HIDE DEF w
  <2> QED BY <2>1 DEF Frames
<1>3. SignalError(y, e) = [EnsureClosed(z) EXCEPT !.pump = TRUE]
  BY <1>1 DEF SignalError, Entered
<1> HIDE DEF w, z
<1>4. EnsureClosed(z) \in Frames /\ Fit(t, EnsureClosed(z), p)
  BY <1>1, <1>2, ClosingFits DEF Working, Fit, Shows, Owed, Agrees
<1> QED
  BY <1>3, <1>4, PumpFits

LEMMA OpeningFits ==
  ASSUME NEW y, Working(y), NEW t, NEW p, Fit(t, y, p), y.engine = "START"
  PROVE  Entered(y, "OPENING") \in Frames /\ Fit(t, Entered(y, "OPENING"), p)
<1> DEFINE w == [y EXCEPT !.engine = "OPENING"]
           z == Post(w, "LOGGINGIN")
<1>1. /\ w \in Frames
      /\ w.engine = "OPENING" /\ w.closed = y.closed /\ w.task = y.task
      /\ w.call = y.call /\ w.phone = y.phone /\ w.stopping = y.stopping
      /\ w.unsent = y.unsent
  BY DEF Working, Frames
<1>2. Entered(y, "OPENING") = [z EXCEPT !.pump = TRUE]
  BY DEF Entered, OnStateChange
<1>3. /\ z \in Frames /\ Saying(t, z.posted) = Enabled("LOGGINGIN", {})
      /\ z.task = w.task /\ z.engine = w.engine /\ z.closed = w.closed
      /\ z.call = w.call /\ z.phone = w.phone /\ z.stopping = w.stopping
      /\ z.unsent = w.unsent /\ z.pump = w.pump
  <2> HIDE DEF w
  <2> QED BY <1>1, PostSays DEF Notices
<1> HIDE DEF w, z
<1>4. Fit(t, z, p)
  BY <1>1, <1>3 DEF Working, Fit, Shows, Owed, Agrees, Due, Enabled
<1> QED
  BY <1>2, <1>3, <1>4, PumpFits

LEMMA OpenFits ==
  ASSUME NEW y, Working(y), NEW t, NEW p, Fit(t, y, p), y.engine = "OPENING"
  PROVE  Entered(y, "OPEN") \in Frames /\ Fit(t, Entered(y, "OPEN"), p)
<1> DEFINE v == [y EXCEPT !.engine = "OPEN"]
           w == [v EXCEPT !.worker = "running", !.phone = TRUE, !.pump = TRUE]
           z == Post(w, "LOGGEDIN")
<1>1. /\ v \in Frames
      /\ v.engine = "OPEN" /\ v.closed = y.closed /\ v.task = y.task
      /\ v.call = y.call /\ v.stopping = y.stopping /\ v.unsent = y.unsent
  BY DEF Working, Frames
<1>2. /\ w \in Frames
      /\ w.engine = "OPEN" /\ w.closed = y.closed /\ w.task = y.task
      /\ w.call = y.call /\ w.phone /\ w.stopping = y.stopping
      /\ w.unsent = y.unsent /\ w.pump
  <2> HIDE DEF v
  <2> QED BY <1>1 DEF Frames
<1>3. Entered(y, "OPEN") = [z EXCEPT !.pump = TRUE]
  BY DEF Entered, OnStateChange
<1>4. /\ z \in Frames /\ Saying(t, z.posted) = Enabled("LOGGEDIN", {})
      /\ z.task = w.task /\ z.engine = w.engine /\ z.closed = w.closed
      /\ z.call = w.call /\ z.phone = w.phone /\ z.stopping = w.stopping
      /\ z.unsent = w.unsent /\ z.pump = w.pump
  <2> HIDE DEF w
  <2>1. w \in Frames /\ "LOGGEDIN" \in Notices
    BY <1>2 DEF Notices
  <2> QED BY <2>1, PostSays
<1> HIDE DEF v, w, z
<1>5. Fit(t, z, p)
  BY <1>2, <1>4 DEF Working, Fit, Shows, Owed, Agrees, Due, Enabled
<1> QED
  BY <1>3, <1>4, <1>5, PumpFits

LEMMA TerminatedFits ==
  ASSUME NEW y, Working(y), NEW t, NEW p, Fit(t, y, p), y.call
  PROVE  Working(Terminated(y)) /\ Fit(t, Terminated(y), p)
<1> DEFINE z == Post(y, "ENDED")
<1>1. Terminated(y) = [z EXCEPT !.call = FALSE, !.unsent = @ \cup {"TERMINATE"},
                                !.pump = TRUE]
  BY DEF Terminated
<1>2. /\ z \in Frames /\ Saying(t, z.posted) = Enabled("ENDED", {})
      /\ z.task = y.task /\ z.engine = y.engine /\ z.closed = y.closed
      /\ z.call = y.call /\ z.phone = y.phone /\ z.stopping = y.stopping
  <2>1. y \in Frames /\ "ENDED" \in Notices
    BY DEF Working, Notices
  <2> QED BY <2>1, PostSays, ZenonT(60)
<1>3. y.engine = "OPEN" /\ ~y.closed
  BY DEF Working, Fit, Shows, Owed, Agrees
<1> HIDE DEF z
<1> DEFINE u == Terminated(y)
<1>4. u \in Frames
  BY <1>1, <1>2, ZenonT(60) DEF Frames
<1>5. /\ u.task = z.task /\ u.engine = z.engine /\ u.closed = z.closed /\ ~u.call
      /\ u.phone = z.phone /\ u.stopping = z.stopping /\ u.posted = z.posted /\ u.pump
  BY <1>1, <1>2 DEF Frames
<1> HIDE DEF u
<1>6. Working(u) /\ Fit(t, u, p)
  BY <1>2, <1>3, <1>4, <1>5 DEF Working, Fit, Shows, Owed, Agrees, Due, Enabled
<1> QED BY <1>6 DEF u

LEMMA CallingFits ==
  ASSUME NEW y, Working(y), NEW t, NEW p, Fit(t, y, p), ~y.call, y.phone, y.unsent = {}, NEW z,
         z = [Post(y, "CALLING") EXCEPT !.call = TRUE, !.unsent = @ \cup {"INITIATE"},
                                        !.pump = TRUE]
  PROVE  z \in Frames /\ Fit(t, z, p)
<1> DEFINE w == Post(y, "CALLING")
<1>1. /\ w \in Frames /\ Saying(t, w.posted) = Enabled("CALLING", {})
      /\ w.task = y.task /\ w.engine = y.engine /\ w.closed = y.closed
      /\ w.phone = y.phone /\ w.stopping = y.stopping /\ w.unsent = y.unsent
  <2>1. y \in Frames /\ "CALLING" \in Notices
    BY DEF Working, Notices
  <2> QED BY <2>1, PostSays, ZenonT(60)
<1>2. y.engine = "OPEN" /\ ~y.closed
  BY DEF Working, Fit, Shows, Owed, Agrees
<1>3. z = [w EXCEPT !.call = TRUE, !.unsent = @ \cup {"INITIATE"}, !.pump = TRUE]
  OBVIOUS
<1> HIDE DEF w
<1>4. z \in Frames
  BY <1>1, <1>3, ZenonT(60) DEF Frames
<1>5. /\ z.task = w.task /\ z.engine = w.engine /\ z.closed = w.closed /\ z.call
      /\ z.phone = w.phone /\ z.stopping = w.stopping /\ z.posted = w.posted
      /\ z.unsent = {"INITIATE"} /\ z.pump
  BY <1>1, <1>3 DEF Frames
<1> QED
  BY <1>1, <1>2, <1>4, <1>5 DEF Working, Fit, Shows, Owed, Agrees, Due, Enabled

LEMMA ExecutedFits ==
  ASSUME NEW y, Working(y), NEW t, NEW p, Fit(t, y, p), NEW c,
         c = "CALL" => y.phone, y.unsent = {}
  PROVE  Executed(y, c) \in Frames /\ Fit(t, Executed(y, c), p)
<1>1. y \in Frames /\ Fit(t, y, p)
  BY DEF Working
<1>2. CASE c = "CALL" /\ ~y.call
  BY <1>2, CallingFits DEF Executed
<1>3. CASE c = "HANGUP" /\ y.call
  <2>1. Executed(y, c) = Terminated(y)
    BY <1>3 DEF Executed
  <2> QED BY <1>3, <2>1, TerminatedFits DEF Working
<1>4. CASE c = "EXIT"
  <2>1. Executed(y, c) = SignalError(IF y.call THEN Terminated(y) ELSE y, "NONE")
    BY <1>4 DEF Executed, Exit
  <2>2. CASE y.call
    BY <2>1, <2>2, TerminatedFits, SignalErrorFits
  <2>3. CASE ~y.call
    BY <2>1, <2>3, SignalErrorFits
  <2> QED BY <2>2, <2>3
<1>5. CASE ~(c = "CALL" /\ ~y.call) /\ ~(c = "HANGUP" /\ y.call) /\ c \notin {"EXIT", "REJECT_CALL"}
  <2>1. Executed(y, c) = y
    BY <1>5 DEF Executed
  <2> QED BY <1>1, <2>1
<1>6. CASE c = "REJECT_CALL"
  <2> DEFINE z == [y EXCEPT !.call = FALSE]
  <2>1. Executed(y, c) = z
    BY <1>6 DEF Executed
  <2>2. /\ z \in Frames
        /\ z.task = y.task /\ z.engine = y.engine /\ z.pump = y.pump /\ z.closed = y.closed
        /\ z.stopping = y.stopping /\ z.phone = y.phone /\ z.unsent = y.unsent
        /\ z.posted = y.posted /\ ~z.call
    BY <1>1 DEF Frames
  <2> HIDE DEF z
  <2>3. Fit(t, z, p)
    BY <1>1, <2>2 DEF Fit, Shows, Owed, Agrees, Due
  <2> QED BY <2>1, <2>2, <2>3
<1> QED BY <1>2, <1>3, <1>4, <1>5, <1>6

LEMMA BecomesFits ==
  ASSUME TypeOK, NEW y \in Frames, Fit(Told, y, peer'), Becomes(y), UNCHANGED buttons
  PROVE  Fit(Told, x, peer)'
<1>1. Told' = Saying(Told, y.posted)
  <2>1. uiQueue \in Seq(Notices) /\ y.posted \in Seq(Notices)
    BY DEF TypeOK, Frames
  <2>2. uiQueue' = uiQueue \o y.posted
    BY DEF Becomes
  <2> QED BY <2>1, <2>2, SayingJoined DEF Told
<1>2. x'.posted = <<>> /\ Saying(Told', x'.posted) = Told'
  BY DEF Becomes, Frames, Saying
<1>3. /\ x'.task = y.task /\ x'.engine = y.engine /\ x'.closed = y.closed
      /\ x'.call = y.call /\ x'.phone = y.phone /\ x'.stopping = y.stopping
      /\ x'.pump = y.pump /\ x'.unsent = y.unsent
  BY DEF Becomes, Frames
<1> QED
  BY <1>1, <1>2, <1>3 DEF Fit, Shows, Owed, Agrees, Due

(* Every step of the signalling thread leaves, once all is told, the       *)
(* buttons its stack calls for.                                            *)
LEMMA SignallingFits ==
  ASSUME BInv, TypeOK',
         SvcLoop \/ RunTasks \/ TakeCommand \/ LoopReturns \/ Network
  PROVE  BInv'
<1>0. TypeOK /\ x \in Frames /\ uiQueue \in Seq(Notices)
  BY StackIsFrame DEF BInv, TypeOK
<1>1. CASE SvcLoop
  <2>1. Told' = Told /\ Told = {"Login"} /\ x' = Fresh /\ thread' = "loop" /\ peer' = peer
    BY <1>1 DEF SvcLoop, BInv, Told, dialog
  <2>2. Fit({"Login"}, Fresh, peer)
    BY DEF Fit, Shows, Owed, Agrees, Due, Saying, Fresh
  <2> QED BY <2>1, <2>2 DEF BInv
<1>2. CASE RunTasks
  <2> DEFINE y == [x EXCEPT !.pump = FALSE]
             c == [y EXCEPT !.task = "RESPONSE", !.socket = "connecting"]
             e == [y EXCEPT !.task = "ERROR"]
             u == [y EXCEPT !.unsent = {}]
  <2>1. thread = "loop" /\ thread' = "loop" /\ Fit(Told, x, peer) /\ ~x.stopping /\ ~x.closed
        /\ UNCHANGED buttons
    BY <1>2 DEF RunTasks, InLoop, BInv, Fit, Shows, Owed, Agrees, dialog
  <2>2. c \in Frames /\ e \in Frames /\ u \in Frames
    BY <1>0 DEF Frames
  <2>3. CASE x.task = "START" /\ Becomes(Connects(y)) /\ UNCHANGED peer
    <3>1. Fit(Told, c, peer)
      BY <1>0, <2>1, <2>3 DEF Fit, Shows, Owed, Agrees, Due, Frames
    <3>2. Becomes(c)
      BY <2>3 DEF Connects
    <3> HIDE DEF c
    <3> QED BY <1>0, <2>1, <2>2, <2>3, <3>1, <3>2, BecomesFits DEF BInv
  <2>4. CASE x.task = "START" /\ Becomes(EnsureClosed(e)) /\ UNCHANGED peer
    <3>1. e.engine = "START" /\ ~e.closed /\ ~e.call /\ ~e.phone /\ e.task = "ERROR"
          /\ e.unsent = {}
      BY <1>0, <2>1, <2>4 DEF Fit, Shows, Owed, Agrees, Frames
    <3> HIDE DEF e
    <3>2. EnsureClosed(e) \in Frames /\ Fit(Told, EnsureClosed(e), peer)
      BY <2>2, <3>1, ClosingFits
    <3> QED BY <1>0, <2>1, <2>4, <3>2, BecomesFits DEF BInv
  <2>5. CASE x.task = "RESPONSE" /\ Becomes(u)
    <3>0. peer' = IF "TERMINATE" \in x.unsent THEN "ended"
                  ELSE IF "INITIATE" \in x.unsent THEN "called" ELSE peer
      BY <1>2, <2>5 DEF RunTasks
    <3>1. Fit(Told, u, peer')
      BY <1>0, <2>1, <2>5, <3>0 DEF Fit, Shows, Owed, Agrees, Due, Frames
    <3> HIDE DEF u
    <3> QED BY <1>0, <2>1, <2>2, <2>5, <3>1, BecomesFits DEF BInv
  <2> QED BY <1>2, <2>3, <2>4, <2>5 DEF RunTasks
<1>3. ASSUME Idle, thread = "loop"
      PROVE  Working(x) /\ Fit(Told, x, peer)
  BY <1>0, <1>3 DEF Idle, InLoop, BInv, Working, Fit, Shows, Owed, Agrees
<1>4. CASE TakeCommand
  <2>1. Working(x) /\ Fit(Told, x, peer)
    BY <1>3, <1>4 DEF TakeCommand, Idle, InLoop
  <2>2. CASE thread' = "crashed"
    BY <2>2 DEF BInv
  <2>3. CASE thread' # "crashed"
    <3>1. Becomes(Executed(x, command)) /\ (command = "CALL" => x.phone)
          /\ thread' = "loop" /\ UNCHANGED <<buttons, peer>>
      BY <1>4, <2>3 DEF TakeCommand, Idle, InLoop, dialog
    <3>2. x.unsent = {}
      BY <1>4, <2>1 DEF TakeCommand, Idle, Fit, Agrees
    <3>3. Executed(x, command) \in Frames /\ Fit(Told, Executed(x, command), peer)
      BY <2>1, <3>1, <3>2, ExecutedFits
    <3> QED BY <1>0, <3>1, <3>3, BecomesFits DEF BInv
  <2> QED BY <2>2, <2>3
<1>5. CASE LoopReturns
  <2>1. Told' = Told /\ x' = x /\ thread' = "ended"
    BY <1>5 DEF LoopReturns, Told, dialog
  <2>2. Told = {"Login"}
    <3>1. Fit(Told, x, peer) /\ x.closed /\ x.posted = <<>>
      BY <1>0, <1>5 DEF LoopReturns, BInv, Fit, Shows, Owed, Agrees, TypeOK, Stacks
    <3> QED BY <3>1 DEF Fit, Shows, Owed, Due, Saying
  <2> QED BY <2>1, <2>2 DEF BInv
<1>6. ASSUME NEW y \in Frames, Fit(Told, y, peer), Idle, SocketEvent(y) PROVE BInv'
  <2>1. thread' = "loop" /\ UNCHANGED <<buttons, peer>> /\ Becomes(y)
    BY <1>6 DEF SocketEvent, Idle, InLoop, dialog
  <2> QED BY <1>0, <1>6, <2>1, BecomesFits DEF BInv
<1>7. CASE OnSocketConnected
  <2> DEFINE y == [x EXCEPT !.socket = "connected"]
  <2>1. Working(x) /\ Fit(Told, x, peer)
    BY <1>3, <1>7 DEF OnSocketConnected, Idle, InLoop
  <2>2. Working(y) /\ Fit(Told, y, peer) /\ y.engine = "START"
    BY <1>7, <2>1 DEF OnSocketConnected, Working, Fit, Shows, Owed, Agrees, Due, Frames
  <2>3. Entered(y, "OPENING") \in Frames /\ Fit(Told, Entered(y, "OPENING"), peer)
    <3> HIDE DEF y
    <3> QED BY <2>2, OpeningFits
  <2> QED BY <1>6, <1>7, <2>3 DEF OnSocketConnected
<1>8. CASE SignalBound
  <2>1. Working(x) /\ Fit(Told, x, peer) /\ x.engine = "OPENING"
    BY <1>3, <1>8 DEF SignalBound, Idle, InLoop
  <2>2. Entered(x, "OPEN") \in Frames /\ Fit(Told, Entered(x, "OPEN"), peer)
    BY <2>1, OpenFits
  <2> QED BY <1>6, <1>8, <2>2 DEF SignalBound
<1>9. CASE StreamEnds
  <2>1. Working(x) /\ Fit(Told, x, peer)
    BY <1>3, <1>9 DEF StreamEnds, Idle, InLoop
  <2>2. SignalError(x, "STREAM") \in Frames /\ Fit(Told, SignalError(x, "STREAM"), peer)
    BY <2>1, SignalErrorFits
  <2> QED BY <1>6, <1>9, <2>2 DEF StreamEnds
<1>10. CASE SocketFails
  <2>1. Told' = Told /\ thread' = "loop" /\ Fit(Told, x, peer) /\ peer' = peer
    BY <1>10 DEF SocketFails, Told, BInv, dialog
  <2>2. Fit(Told, x', peer)
    BY <1>0, <1>10, <2>1 DEF SocketFails, Fit, Shows, Owed, Agrees, Due, Frames
  <2> QED BY <2>1, <2>2 DEF BInv
<1> QED
  BY <1>1, <1>2, <1>4, <1>5, <1>7, <1>8, <1>9, <1>10 DEF Network

LEMMA TailLast ==
  ASSUME NEW S, NEW q \in Seq(S), q # <<>>, Len(q) # 1
  PROVE  Tail(q) # <<>> /\ Tail(q)[Len(Tail(q))] = q[Len(q)]
<1>1. Len(q) \in Nat \ {0}
  BY EmptySeq
<1>2. Tail(q) \in Seq(S)
  BY HeadTailProperties
<1>3. Len(Tail(q)) = Len(q) - 1
  BY HeadTailProperties
<1>4. Tail(q) # <<>>
  <2>1. Len(<<>>) = 0
    BY EmptySeq
  <2>2. Len(q) - 1 # 0
    BY <1>1
  <2>3. Len(Tail(q)) # 0
    BY <1>3, <2>2
  <2> HIDE <1>3
  <2> QED BY <2>1, <2>3, Zenon
<1>5. \A i \in 1..Len(Tail(q)) : Tail(q)[i] = q[i + 1]
  BY HeadTailProperties
<1>6. ASSUME NEW l, l = Len(q) - 1 PROVE Tail(q)[l] = q[l + 1] /\ l + 1 = Len(q)
  BY <1>1, <1>3, <1>5, <1>6
<1> QED BY <1>3, <1>4, <1>6

(* A handler starts a thread when none is left, and waits for one that has *)
(* ended; a message is taken off the queue and shown.                      *)
LEMMA DialogFits ==
  ASSUME BInv, TypeOK',
         HandlerStep \/ HandleMessage \/ Destructor \/ OnHandlePhone
           \/ (\E b \in Clicks : Click(b)) \/ (\E c \in Others : HelperGives(c))
  PROVE  BInv'
<1>1. CASE HandleMessage
  <2>1. Told' = Told
    <3>1. uiQueue \in Seq(Notices) /\ uiQueue # <<>> /\ uiQueue' = Tail(uiQueue)
          /\ buttons' = Enabled(Head(uiQueue), buttons)
      BY <1>1 DEF HandleMessage, BInv, TypeOK
    <3>2. Enabled(Head(uiQueue), buttons) = Enabled(Head(uiQueue), {})
      BY DEF Enabled
    <3>3. CASE Len(uiQueue) = 1
      <4>1. Tail(uiQueue) = <<>> /\ Head(uiQueue) = uiQueue[Len(uiQueue)]
        BY <3>1, <3>3
      <4> QED BY <3>1, <3>2, <4>1 DEF Told, Saying
    <3>4. CASE Len(uiQueue) # 1
      <4>1. Tail(uiQueue) # <<>> /\ Tail(uiQueue)[Len(Tail(uiQueue))] = uiQueue[Len(uiQueue)]
        BY <3>1, <3>4, TailLast
      <4> QED BY <3>1, <4>1 DEF Told, Saying
    <3> QED BY <3>3, <3>4
  <2> QED BY <1>1, <2>1 DEF HandleMessage, BInv
<1>2. CASE HandlerStep
  <2>1. Told' = Told /\ x' = x
    BY <1>2 DEF HandlerStep, Stop, Run, Told
  <2>2. \/ thread' = thread /\ peer' = peer
        \/ thread \in {"none", "ended"} /\ thread' \in {"none", "started"}
    BY <1>2 DEF HandlerStep, Stop, Run
  <2> QED BY <2>1, <2>2 DEF BInv
<1>3. CASE Destructor \/ OnHandlePhone \/ (\E b \in Clicks : Click(b))
           \/ (\E c \in Others : HelperGives(c))
  <2>1. UNCHANGED <<buttons, uiQueue, thread, x, peer>>
    BY <1>3 DEF Destructor, OnHandlePhone, Click, HelperGives, dialog
  <2> QED BY <2>1 DEF BInv, Told
<1> QED
  BY <1>1, <1>2, <1>3

(* When all is told, the dialog offers Login after a login has ended, and  *)
(* Logout while one lasts; it offers Hangup in every call the call client  *)
(* is in, and else only while one goes on that it has forgotten: for any   *)
(* faults, logins and commands.                                            *)
THEOREM ButtonsTellTheState == Spec => []ButtonsFit
<1>1. Init => BInv
  <2> SUFFICES ASSUME Init PROVE BInv
    OBVIOUS
  <2>1. TypeOK
    BY InitIInv DEF IInv
  <2> QED BY <2>1 DEF Init, BInv, Told, Saying
<1>2. BInv /\ TypeOK' /\ [Next]_vars => BInv'
  <2> SUFFICES ASSUME BInv, TypeOK', [Next]_vars PROVE BInv'
    OBVIOUS
  <2>1. CASE Next
    BY <2>1, SignallingFits, DialogFits DEF Next
  <2>2. CASE UNCHANGED vars
    BY <2>2 DEF vars, dialog, BInv, Told
  <2> QED BY <2>1, <2>2
<1>3. BInv => ButtonsFit
  <2> SUFFICES ASSUME BInv, UIFree, uiQueue = <<>> PROVE
        /\ thread \in {"none", "ended"} => buttons = {"Login"}
        /\ thread = "loop" /\ x.engine = "OPEN" =>
             /\ "Logout" \in buttons
             /\ x.call => "Hangup" \in buttons
             /\ "Hangup" \in buttons => x.call \/ Forgotten
    BY DEF ButtonsFit
  <2>1. Told = buttons /\ x.posted = <<>>
    BY DEF Told, Saying, BInv, TypeOK, Stacks
  <2>2. ASSUME thread = "loop", x.engine = "OPEN"
        PROVE  \/ buttons = IF x.call THEN {"Logout", "Hangup"} ELSE {"Logout", "Call"}
               \/ buttons = {"Logout", "Hangup"} /\ Owed(x, peer)
    BY <2>1, <2>2 DEF BInv, Fit, Shows, Agrees, Due, Saying
  <2>3. thread \in {"none", "ended"} => buttons = {"Login"}
    BY <2>1 DEF BInv
  <2> QED BY <2>2, <2>3 DEF Forgotten, Owed
<1> QED
  BY <1>1, <1>2, <1>3, TypeCorrect, PTL DEF Spec
=============================================================================

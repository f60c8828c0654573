------------------------------- MODULE Threads -------------------------------
(***************************************************************************)
(* The threads of libjingle (talk/base/thread.cc, messagequeue.cc) and the *)
(* wait of their socket servers (physicalsocketserver.cc).  A thread takes *)
(* messages from its own queue; others post to it, or send to it, which    *)
(* lasts until the thread has handled what was sent.  Who waits for an     *)
(* answer handles what is sent to it meanwhile.                            *)
(*                                                                         *)
(* The loop of a thread is pc; above it stands a stack of the calls that   *)
(* have not returned, the last on top.  What handlers and the callbacks of *)
(* sockets do with the threads is a list of operations, data of the        *)
(* instance.  Time is abstracted: a delay is a place in the order in which *)
(* delayed messages fall due, and any of them may be due when one looks.   *)
(***************************************************************************)
EXTENDS Naturals, Sequences, SequencesExt

CONSTANTS
  Threads,
  Messages,
  Does,       \* message -> the operations its handler executes
  Workloads   \* each: thread -> what the events of its sockets execute, in order

Ops ==
  [op : {"Send", "Post", "PostDelayed"}, to : Threads, msg : Messages]
    \cup [op : {"Clear"}, to : Threads, what : SUBSET Messages]
    \cup [op : {"delete"}, to : Threads]

ASSUME ThreadsConstants ==
  /\ Does \in [Messages -> Seq(Ops)]
  /\ Workloads \subseteq [Threads -> Seq(Seq(Ops))]

VARIABLES
  use,        \* the workload of this behaviour
  events,     \* what the sockets of a thread have yet to report
  pc,         \* where the loop of a thread is
  stack,      \* the calls above it that have not returned
  timed,      \* the loop waits until a delayed message falls due
  fWait,      \* the wait of the loop has not been woken
  wakeup,     \* the event of the socket server, signalled
  fStop,
  msgq, dmsgq, sendlist, has_sends

loopVars  == <<pc, timed, fWait, wakeup>>
queues    == <<msgq, dmsgq, sendlist, has_sends>>
vars      == <<use, events, loopVars, stack, fStop, queues>>

(* A sent message: where `ready' is, the frame of the sender's call.       *)
SendMessage == [msg : Messages, thread : Threads, frame : Nat \ {0}]

Frame ==
  [fn : {"OnMessage"}, todo : Seq(Ops)]
    \cup [fn : {"Send"}, at : {"wake", "check", "wait"}, to : Threads, ready : BOOLEAN]
    \cup [fn : {"ReceiveSends"}, at : {"next", "answer", "wake"},
          smsg : SUBSET SendMessage]
    \cup [fn : {"Stop"}, at : {"wake", "join"}, to : Threads]
    \cup [fn : {"Clear"}, to : Threads, what : SUBSET Messages]

OnMessage(todo) == [fn |-> "OnMessage", todo |-> todo]
Sending(u)      == [fn |-> "Send", at |-> "wake", to |-> u, ready |-> FALSE]
Serving         == [fn |-> "ReceiveSends", at |-> "next", smsg |-> {}]
Stopping(u)     == [fn |-> "Stop", at |-> "wake", to |-> u]
Clearing(u, ms) == [fn |-> "Clear", to |-> u, what |-> ms]

In(t, fn) == stack[t] # <<>> /\ Last(stack[t]).fn = fn
At(t, fn, at) == In(t, fn) /\ Last(stack[t]).at = at

(* The top frame of t changes, frames are put on top of it, it returns.    *)
Top(t, frame)          == [stack EXCEPT ![t] = Append(Front(@), frame)]
TopWith(t, frame, new) == [stack EXCEPT ![t] = Append(Append(Front(@), frame), new)]
Push(t, frame)         == [stack EXCEPT ![t] = Append(@, frame)]
Return(t)              == [stack EXCEPT ![t] = Front(@)]

(* crit_ of u is taken: u is between *smsg.ready = true and the wake-up,   *)
(* or its queues are being cleared.                                        *)
Locked(u) ==
  \/ At(u, "ReceiveSends", "wake")
  \/ \E t \in Threads : In(t, "Clear") /\ Last(stack[t]).to = u

-----------------------------------------------------------------------------
(* MessageQueue::Get of a loop that waits without end.                     *)
Get(t) ==
  /\ pc[t] = "get" /\ stack[t] = <<>>
  /\ pc' = [pc EXCEPT ![t] = IF fStop[t] THEN "ended" ELSE "queue"]
  /\ stack' = IF ~fStop[t] /\ has_sends[t] THEN Push(t, Serving) ELSE stack
  /\ UNCHANGED <<use, events, timed, fWait, wakeup, fStop, queues>>

(* The delayed messages that are due go behind the posted ones; the first  *)
(* of all is dispatched.                                                   *)
GetPosted(t) ==
  /\ pc[t] = "queue" /\ stack[t] = <<>> /\ ~Locked(t)
  /\ \E n \in 0 .. Len(dmsgq[t]) :
       LET q == msgq[t] \o SubSeq(dmsgq[t], 1, n)
           d == SubSeq(dmsgq[t], n + 1, Len(dmsgq[t]))
       IN /\ dmsgq' = [dmsgq EXCEPT ![t] = d]
          /\ IF q # <<>>
             THEN /\ msgq' = [msgq EXCEPT ![t] = Tail(q)]
                  /\ pc' = [pc EXCEPT ![t] = "get"]
                  /\ stack' = Push(t, OnMessage(Does[Head(q)]))
                  /\ UNCHANGED <<timed, fWait>>
             ELSE /\ pc' = [pc EXCEPT ![t] = "wait"]
                  /\ timed' = [timed EXCEPT ![t] = d # <<>>]
                  /\ fWait' = [fWait EXCEPT ![t] = TRUE]
                  /\ UNCHANGED <<msgq, stack>>
  /\ UNCHANGED <<use, events, wakeup, fStop, sendlist, has_sends>>

(* PhysicalSocketServer::Wait of the loop returns: it is woken, or was     *)
(* while a callback of a socket waited, or a delayed message is due.       *)
Waits(t) == pc[t] = "wait" /\ stack[t] = <<>>

Woken(t) ==
  /\ Waits(t) /\ (fWait[t] => wakeup[t])
  /\ pc' = [pc EXCEPT ![t] = "get"]
  /\ wakeup' = [wakeup EXCEPT ![t] = @ /\ ~fWait[t]]
  /\ fWait' = [fWait EXCEPT ![t] = FALSE]
  /\ UNCHANGED <<use, events, timed, stack, fStop, queues>>

Due(t) ==
  /\ Waits(t) /\ fWait[t] /\ timed[t]
  /\ pc' = [pc EXCEPT ![t] = "get"]
  /\ UNCHANGED <<use, events, timed, fWait, wakeup, stack, fStop, queues>>

(* A socket reports an event; others may before the wait is over, even if  *)
(* it was woken while a callback waited.                                   *)
OnEvent(t) ==
  /\ Waits(t) /\ events[t] # <<>>
  /\ stack' = Push(t, OnMessage(Head(events[t])))
  /\ events' = [events EXCEPT ![t] = Tail(@)]
  /\ UNCHANGED <<use, loopVars, fStop, queues>>

-----------------------------------------------------------------------------
(* The operations.  Each is one critical section of the queue of `to'.     *)
Todo(t) == Last(stack[t]).todo
Next1(t) == Head(Todo(t))
Done(t)  == OnMessage(Tail(Todo(t)))
Doing(t, op) == In(t, "OnMessage") /\ Todo(t) # <<>> /\ Next1(t).op = op

OnMessageReturns(t) ==
  /\ In(t, "OnMessage") /\ Todo(t) = <<>>
  /\ stack' = Return(t)
  /\ UNCHANGED <<use, events, loopVars, fStop, queues>>

Post(t) ==
  /\ Doing(t, "Post")
  /\ LET o == Next1(t)
     IN /\ ~Locked(o.to)
        /\ msgq' = [msgq EXCEPT ![o.to] = Append(@, o.msg)]
        /\ wakeup' = [wakeup EXCEPT ![o.to] = TRUE]
  /\ stack' = Top(t, Done(t))
  /\ UNCHANGED <<use, events, pc, timed, fWait, fStop, dmsgq, sendlist, has_sends>>

PostDelayed(t) ==
  /\ Doing(t, "PostDelayed")
  /\ LET o == Next1(t)
     IN /\ ~Locked(o.to)
        /\ \E i \in 1 .. Len(dmsgq[o.to]) + 1 :
             dmsgq' = [dmsgq EXCEPT ![o.to] = InsertAt(@, i, o.msg)]
        /\ wakeup' = [wakeup EXCEPT ![o.to] = TRUE]
  /\ stack' = Top(t, Done(t))
  /\ UNCHANGED <<use, events, pc, timed, fWait, fStop, msgq, sendlist, has_sends>>

(* Thread::Send to one's own thread is a call.                             *)
SendToSelf(t) ==
  /\ Doing(t, "Send") /\ Next1(t).to = t
  /\ stack' = TopWith(t, Done(t), OnMessage(Does[Next1(t).msg]))
  /\ UNCHANGED <<use, events, loopVars, fStop, queues>>

Send(t) ==
  /\ Doing(t, "Send") /\ Next1(t).to # t
  /\ LET o == Next1(t)
         s == [msg |-> o.msg, thread |-> t, frame |-> Len(stack[t]) + 1]
     IN /\ ~Locked(o.to)
        /\ sendlist' = [sendlist EXCEPT ![o.to] = Append(@, s)]
        /\ has_sends' = [has_sends EXCEPT ![o.to] = TRUE]
        /\ stack' = TopWith(t, Done(t), Sending(o.to))
  /\ UNCHANGED <<use, events, loopVars, fStop, msgq, dmsgq>>

SendWakes(t) ==
  /\ At(t, "Send", "wake")
  /\ wakeup' = [wakeup EXCEPT ![Last(stack[t]).to] = TRUE]
  /\ stack' = Top(t, [Last(stack[t]) EXCEPT !.at = "check"])
  /\ UNCHANGED <<use, events, pc, timed, fWait, fStop, queues>>

(* Mutated: what is sent to a thread that waits is not handled.            *)
SendChecksReady(t) ==
  /\ At(t, "Send", "check")
  /\ LET f == Last(stack[t])
     IN stack' = IF f.ready THEN Return(t) ELSE Top(t, [f EXCEPT !.at = "wait"])
  /\ UNCHANGED <<use, events, loopVars, fStop, queues>>

(* while (!ready): what was sent to this thread is handled, and then it    *)
(* waits; no other message and no event of a socket is handled.            *)
SendChecks(t) ==
  /\ At(t, "Send", "check")
  /\ LET f == Last(stack[t])
     IN stack' = IF f.ready THEN Return(t)
                 ELSE IF has_sends[t] THEN TopWith(t, [f EXCEPT !.at = "wait"], Serving)
                 ELSE Top(t, [f EXCEPT !.at = "wait"])
  /\ UNCHANGED <<use, events, loopVars, fStop, queues>>

(* Mutated: `if' instead of `while': who is woken takes that for an answer. *)
SendWokenReturns(t) ==
  /\ At(t, "Send", "wait") /\ wakeup[t]
  /\ wakeup' = [wakeup EXCEPT ![t] = FALSE]
  /\ fWait' = [fWait EXCEPT ![t] = FALSE]
  /\ stack' = Return(t)
  /\ UNCHANGED <<use, events, pc, timed, fStop, queues>>

(* Mutated: a wait inside a callback keeps to itself that it was woken.    *)
SendWokenAlone(t) ==
  /\ At(t, "Send", "wait") /\ wakeup[t]
  /\ wakeup' = [wakeup EXCEPT ![t] = FALSE]
  /\ stack' = Top(t, [Last(stack[t]) EXCEPT !.at = "check"])
  /\ UNCHANGED <<use, events, pc, timed, fWait, fStop, queues>>

SendWoken(t) ==
  /\ At(t, "Send", "wait") /\ wakeup[t]
  /\ wakeup' = [wakeup EXCEPT ![t] = FALSE]
  /\ fWait' = [fWait EXCEPT ![t] = FALSE]
  /\ stack' = Top(t, [Last(stack[t]) EXCEPT !.at = "check"])
  /\ UNCHANGED <<use, events, pc, timed, fStop, queues>>

(* Thread::ReceiveSends, in the sender's place.                            *)
ReceiveNext(t) ==
  /\ At(t, "ReceiveSends", "next") /\ ~Locked(t)
  /\ IF sendlist[t] = <<>>
     THEN /\ has_sends' = [has_sends EXCEPT ![t] = FALSE]
          /\ stack' = Return(t)
          /\ UNCHANGED sendlist
     ELSE LET s == Head(sendlist[t])
          IN /\ sendlist' = [sendlist EXCEPT ![t] = Tail(@)]
             /\ stack' = TopWith(t, [Serving EXCEPT !.at = "answer", !.smsg = {s}],
                                 OnMessage(Does[s.msg]))
             /\ UNCHANGED has_sends
  /\ UNCHANGED <<use, events, loopVars, fStop, msgq, dmsgq>>

(* The senders of the messages S go on.                                    *)
Ready(stk, S) ==
  [u \in Threads |->
    [i \in DOMAIN stk[u] |->
      IF \E s \in S : s.thread = u /\ s.frame = i
      THEN [stk[u][i] EXCEPT !.ready = TRUE] ELSE stk[u][i]]]

Answer(t) ==
  /\ At(t, "ReceiveSends", "answer") /\ ~Locked(t)
  /\ LET f == Last(stack[t])
     IN stack' = Ready(Top(t, [f EXCEPT !.at = "wake"]), f.smsg)
  /\ UNCHANGED <<use, events, loopVars, fStop, queues>>

AnswerWakes(t) ==
  /\ At(t, "ReceiveSends", "wake")
  /\ LET f == Last(stack[t])
     IN /\ wakeup' = [u \in Threads |-> wakeup[u] \/ \E s \in f.smsg : s.thread = u]
        /\ stack' = Top(t, Serving)
  /\ UNCHANGED <<use, events, pc, timed, fWait, fStop, queues>>

(* Thread::Clear: what goes to a handler that is no more is dropped, one   *)
(* message after the other; who sent it is told that it is done.           *)
Clear(t) ==
  /\ Doing(t, "Clear") /\ ~Locked(Next1(t).to)
  /\ stack' = TopWith(t, Done(t), Clearing(Next1(t).to, Next1(t).what))
  /\ UNCHANGED <<use, events, loopVars, fStop, queues>>

ClearSent(t) ==
  /\ In(t, "Clear")
  /\ LET u == Last(stack[t]).to
     IN \E i \in DOMAIN sendlist[u] :
          /\ sendlist[u][i].msg \in Last(stack[t]).what
          /\ sendlist' = [sendlist EXCEPT ![u] = RemoveAt(@, i)]
          /\ stack' = Ready(stack, {sendlist[u][i]})
          /\ wakeup' = [wakeup EXCEPT ![sendlist[u][i].thread] = TRUE]
  /\ UNCHANGED <<use, events, pc, timed, fWait, fStop, msgq, dmsgq, has_sends>>

ClearPosted(t) ==
  /\ In(t, "Clear")
  /\ LET u == Last(stack[t]).to
         Cleared(q) == {RemoveAt(q, i) : i \in {j \in DOMAIN q : q[j] \in Last(stack[t]).what}}
     IN \/ /\ \E q \in Cleared(msgq[u]) : msgq' = [msgq EXCEPT ![u] = q]
           /\ UNCHANGED dmsgq
        \/ /\ \E q \in Cleared(dmsgq[u]) : dmsgq' = [dmsgq EXCEPT ![u] = q]
           /\ UNCHANGED msgq
  /\ UNCHANGED <<use, events, loopVars, stack, fStop, sendlist, has_sends>>

ClearReturns(t) ==
  /\ In(t, "Clear")
  /\ LET f == Last(stack[t])
     IN /\ \A i \in DOMAIN sendlist[f.to] : sendlist[f.to][i].msg \notin f.what
        /\ ToSet(msgq[f.to] \o dmsgq[f.to]) \cap f.what = {}
  /\ stack' = Return(t)
  /\ UNCHANGED <<use, events, loopVars, fStop, queues>>

(* delete thread: Stop, which waits for the end of the loop, and then      *)
(* nothing of what is still to be handled is left.                         *)
Delete(t) ==
  /\ Doing(t, "delete")
  /\ fStop' = [fStop EXCEPT ![Next1(t).to] = TRUE]
  /\ stack' = TopWith(t, Done(t), Stopping(Next1(t).to))
  /\ UNCHANGED <<use, events, loopVars, queues>>

StopWakes(t) ==
  /\ At(t, "Stop", "wake")
  /\ wakeup' = [wakeup EXCEPT ![Last(stack[t]).to] = TRUE]
  /\ stack' = Top(t, [Last(stack[t]) EXCEPT !.at = "join"])
  /\ UNCHANGED <<use, events, pc, timed, fWait, fStop, queues>>

Joined(t) ==
  /\ At(t, "Stop", "join")
  /\ LET u == Last(stack[t]).to
     IN /\ pc[u] = "ended" /\ ~Locked(u)
        /\ stack' = Top(t, Clearing(u, Messages))
  /\ UNCHANGED <<use, events, loopVars, fStop, queues>>

-----------------------------------------------------------------------------
Init ==
  /\ use \in Workloads
  /\ events = use
  /\ pc = [t \in Threads |-> "get"]
  /\ stack = [t \in Threads |-> <<>>]
  /\ timed = [t \in Threads |-> FALSE]
  /\ fWait = [t \in Threads |-> FALSE]
  /\ wakeup = [t \in Threads |-> FALSE]
  /\ fStop = [t \in Threads |-> FALSE]
  /\ msgq = [t \in Threads |-> <<>>]
  /\ dmsgq = [t \in Threads |-> <<>>]
  /\ sendlist = [t \in Threads |-> <<>>]
  /\ has_sends = [t \in Threads |-> FALSE]

Runs(t) ==
  \/ Get(t) \/ GetPosted(t) \/ Woken(t)
  \/ OnMessageReturns(t) \/ Post(t) \/ PostDelayed(t) \/ SendToSelf(t)
  \/ Send(t) \/ SendWakes(t) \/ SendChecks(t) \/ SendWoken(t)
  \/ ReceiveNext(t) \/ Answer(t) \/ AnswerWakes(t)
  \/ Clear(t) \/ ClearSent(t) \/ ClearPosted(t) \/ ClearReturns(t)
  \/ Delete(t) \/ StopWakes(t) \/ Joined(t)

Next == \E t \in Threads : Runs(t) \/ Due(t) \/ OnEvent(t)

Spec == Init /\ [][Next]_vars

(* Every thread runs; nothing is assumed of sockets and of time.           *)
FairSpec == Spec /\ \A t \in Threads : WF_vars(Runs(t))

-----------------------------------------------------------------------------
TypeOK ==
  /\ use \in Workloads /\ events \in [Threads -> Seq(Seq(Ops))]
  /\ pc \in [Threads -> {"get", "queue", "wait", "ended"}]
  /\ stack \in [Threads -> Seq(Frame)]
  /\ timed \in [Threads -> BOOLEAN] /\ fWait \in [Threads -> BOOLEAN]
  /\ wakeup \in [Threads -> BOOLEAN] /\ fStop \in [Threads -> BOOLEAN]
  /\ msgq \in [Threads -> Seq(Messages)] /\ dmsgq \in [Threads -> Seq(Messages)]
  /\ sendlist \in [Threads -> Seq(SendMessage)] /\ has_sends \in [Threads -> BOOLEAN]

(* The messages sent to u that wait to be handled or are being handled.    *)
Unanswered(u) ==
  ToSet(sendlist[u]) \cup
    UNION {stack[u][i].smsg : i \in {j \in DOMAIN stack[u] :
             stack[u][j].fn = "ReceiveSends" /\ stack[u][j].at = "answer"}}

Waiting(t, i) == stack[t][i].fn = "Send" /\ ~stack[t][i].ready

(* A sender waits for its answer, whatever else it handles meanwhile: the  *)
(* `ready' that a message points to is alive until it is set, and who      *)
(* still waits has a message that will set it.                             *)
SendersWait ==
  /\ \A u \in Threads : \A s \in Unanswered(u) :
       /\ s.frame \in DOMAIN stack[s.thread]
       /\ Waiting(s.thread, s.frame) /\ stack[s.thread][s.frame].to = u
  /\ \A t \in Threads : \A i \in DOMAIN stack[t] :
       Waiting(t, i) =>
         \E s \in Unanswered(stack[t][i].to) : s.thread = t /\ s.frame = i

(* A thread that sleeps with something to handle is about to be woken: the *)
(* wake-ups that calls in between have used up are not missed.             *)
Asleep(t) == (Waits(t) /\ fWait[t]) \/ At(t, "Send", "wait")

Wakes(u, t) ==
  /\ At(u, "Send", "wake") \/ At(u, "Stop", "wake")
  /\ Last(stack[u]).to = t

NothingIsForgotten ==
  \A t \in Threads :
    /\ Asleep(t)
    /\ \/ sendlist[t] # <<>>
       \/ Waits(t) /\ (msgq[t] # <<>> \/ (dmsgq[t] # <<>> /\ ~timed[t]))
    => wakeup[t] \/ \E u \in Threads : Wakes(u, t)

(* No thread waits for ever for the answer to what it sent, or for the end *)
(* of a thread it stops, though threads send to one another.  That is so   *)
(* if the handlers of sent messages do not send themselves: a wait inside  *)
(* ReceiveSends uses up the wake-up that the wait below it, or the loop,   *)
(* is told with, and neither looks again before it waits.                  *)
SentBy(todo) == {o \in ToSet(todo) : o.op = "Send"}

Flat ==
  LET todos == UNION {ToSet(use[t]) : t \in Threads} \cup {Does[m] : m \in Messages}
  IN \A todo \in todos : \A o \in SentBy(todo) : SentBy(Does[o.msg]) = {}

CallsReturn == \A t \in Threads : (Flat /\ stack[t] # <<>>) ~> stack[t] = <<>>
=============================================================================

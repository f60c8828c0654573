---------------------------- MODULE ThreadsProofs ----------------------------
(***************************************************************************)
(* Proofs about Threads: no thread sleeps on what it has to handle, and    *)
(* who sends waits for an answer that is on its way, for any threads,      *)
(* handlers and events, nested as they may be.                             *)
(***************************************************************************)
EXTENDS Threads, TLAPS, SequenceTheorems

(* What stands on a Send is the ReceiveSends it called, and what stands on *)
(* a loop that has looked at its sends is that look (atQueue).             *)
Nested(s, atQueue) ==
  /\ \A i \in 1 .. Len(s) - 1 : s[i].fn = "Send" => s[i + 1].fn = "ReceiveSends"
  /\ atQueue /\ s # <<>> => s[1].fn = "ReceiveSends"

(* Someone will wake t.                                                    *)
WillWake(t) == wakeup[t] \/ \E u \in Threads : Wakes(u, t)

(* t has something to handle that it will not look at before it sleeps.    *)
Overlooked(t) ==
  \/ pc[t] = "queue" /\ stack[t] = <<>> /\ sendlist[t] # <<>>
  \/ /\ pc[t] = "wait" /\ fWait[t]
     /\ sendlist[t] # <<>> \/ msgq[t] # <<>> \/ (dmsgq[t] # <<>> /\ ~timed[t])
  \/ At(t, "Send", "wait") /\ sendlist[t] # <<>>

Safe == \A t \in Threads : Overlooked(t) => WillWake(t)

IInv ==
  /\ TypeOK
  /\ \A t \in Threads : sendlist[t] # <<>> => has_sends[t]
  /\ \A t \in Threads : Nested(stack[t], pc[t] = "queue")
  /\ Safe

-----------------------------------------------------------------------------
(* A stack whose top is replaced, that grows, and that shrinks.            *)
LEMMA Prefix ==
  ASSUME NEW S, NEW s \in Seq(S), NEW n \in Nat, n <= Len(s)
  PROVE  /\ SubSeq(s, 1, n) \in Seq(S) /\ Len(SubSeq(s, 1, n)) = n
         /\ \A i \in 1 .. n : SubSeq(s, 1, n)[i] = s[i]
         /\ (SubSeq(s, 1, n) = <<>>) = (n = 0)
<1>1. \A i \in 1 .. n : s[i] \in S
  OBVIOUS
<1>2. SubSeq(s, 1, n) \in Seq(S)
  BY <1>1
<1>6. Len(SubSeq(s, 1, n)) = n
  OBVIOUS
<1>7. \A i \in 1 .. n : SubSeq(s, 1, n)[i] = s[i]
  OBVIOUS
<1> DEFINE z == SubSeq(s, 1, n)
<1>3. n = 0 => z = <<>>
  BY SubSeqEmpty
<1> HIDE DEF z
<1>4. z \in Seq(S) /\ Len(z) = n /\ \A i \in 1 .. n : z[i] = s[i]
  BY <1>2, <1>6, <1>7 DEF z
<1>5. z = <<>> => n = 0
  BY <1>4, EmptySeq
<1> QED BY <1>3, <1>4, <1>5 DEF z

LEMMA Shrunk ==
  ASSUME NEW S, NEW s \in Seq(S), s # <<>>
  PROVE  LET z == Front(s)
         IN  /\ z \in Seq(S) /\ Len(z) = Len(s) - 1 /\ Len(s) \in Nat \ {0}
             /\ \A i \in 1 .. Len(s) - 1 : z[i] = s[i]
             /\ (z = <<>>) = (Len(s) = 1)
<1> DEFINE n == Len(s) - 1
<1>1. Len(s) \in Nat \ {0} /\ n \in Nat /\ n <= Len(s)
  OBVIOUS
<1>2. (n = 0) = (Len(s) = 1)
  BY <1>1
<1> HIDE DEF n
<1>3. /\ SubSeq(s, 1, n) \in Seq(S) /\ Len(SubSeq(s, 1, n)) = n
      /\ \A i \in 1 .. n : SubSeq(s, 1, n)[i] = s[i]
      /\ (SubSeq(s, 1, n) = <<>>) = (n = 0)
  BY <1>1, Prefix
<1>4. Front(s) = SubSeq(s, 1, n)
  BY DEF Front, n
<1>5. n = Len(s) - 1
  BY DEF n
<1> QED BY <1>1, <1>2, <1>3, <1>4, <1>5

LEMMA Grown ==
  ASSUME NEW S, NEW s \in Seq(S), NEW f \in S
  PROVE  LET z == Append(s, f)
         IN  /\ z \in Seq(S) /\ z # <<>> /\ Len(z) = Len(s) + 1 /\ Len(s) \in Nat
             /\ z[Len(s) + 1] = f /\ \A i \in 1 .. Len(s) : z[i] = s[i]
OBVIOUS

LEMMA Replaced ==
  ASSUME NEW S, NEW s \in Seq(S), s # <<>>, NEW f \in S
  PROVE  LET z == Append(Front(s), f)
         IN  /\ z \in Seq(S) /\ z # <<>> /\ Len(z) = Len(s) /\ Len(s) \in Nat \ {0}
             /\ z[Len(s)] = f /\ \A i \in 1 .. Len(s) - 1 : z[i] = s[i]
<1> DEFINE r == Front(s)
<1>1. /\ r \in Seq(S) /\ Len(r) = Len(s) - 1 /\ Len(s) \in Nat \ {0}
      /\ \A i \in 1 .. Len(s) - 1 : r[i] = s[i]
  BY Shrunk
<1> HIDE DEF r
<1> DEFINE z == Append(r, f)
<1>2. /\ z \in Seq(S) /\ z # <<>> /\ Len(z) = Len(r) + 1
      /\ z[Len(r) + 1] = f /\ \A i \in 1 .. Len(r) : z[i] = r[i]
  BY <1>1, Grown
<1> HIDE DEF z
<1> QED BY <1>1, <1>2 DEF r, z

(* The same for the frames of a thread.                                    *)
LEMMA TopShape ==
  ASSUME NEW s \in Seq(Frame), s # <<>>, NEW b \in BOOLEAN, Nested(s, b),
         NEW f \in Frame, Last(s).fn = "ReceiveSends" => f.fn = "ReceiveSends"
  PROVE  LET z == Append(Front(s), f)
         IN  z \in Seq(Frame) /\ z # <<>> /\ Last(z) = f /\ Nested(z, b)
<1> DEFINE z == Append(Front(s), f)
<1>1. /\ z \in Seq(Frame) /\ z # <<>> /\ Len(z) = Len(s) /\ Len(s) \in Nat \ {0}
      /\ z[Len(s)] = f /\ \A i \in 1 .. Len(s) - 1 : z[i] = s[i]
  BY Replaced
<1> HIDE DEF z
<1>2. Last(z) = f
  BY <1>1 DEF Last
<1>3. ASSUME NEW i \in 1 .. Len(z) - 1, z[i].fn = "Send"
      PROVE  z[i + 1].fn = "ReceiveSends"
  <2>1. s[i].fn = "Send" /\ s[i + 1].fn = "ReceiveSends"
    BY <1>1, <1>3 DEF Nested
  <2>2. CASE i + 1 = Len(s)
    BY <1>1, <2>1, <2>2 DEF Last
  <2>3. CASE i + 1 # Len(s)
    <3>1. i + 1 \in 1 .. Len(s) - 1
      BY <1>1, <2>3
    <3> QED BY <1>1, <2>1, <3>1
  <2> QED BY <2>2, <2>3
<1>4. b => z[1].fn = "ReceiveSends"
  <2>1. CASE Len(s) = 1
    BY <1>1, <2>1 DEF Nested, Last
  <2>2. CASE Len(s) # 1
    BY <1>1, <2>2 DEF Nested
  <2> QED BY <2>1, <2>2
<1> QED BY <1>1, <1>2, <1>3, <1>4 DEF Nested, z

LEMMA PushShape ==
  ASSUME NEW s \in Seq(Frame), NEW b \in BOOLEAN, Nested(s, b), NEW f \in Frame,
         s # <<>> /\ Last(s).fn = "Send" => f.fn = "ReceiveSends",
         s = <<>> /\ b => f.fn = "ReceiveSends"
  PROVE  LET z == Append(s, f)
         IN  z \in Seq(Frame) /\ z # <<>> /\ Last(z) = f /\ Nested(z, b)
<1> DEFINE z == Append(s, f)
<1>1. /\ z \in Seq(Frame) /\ z # <<>> /\ Len(z) = Len(s) + 1 /\ Len(s) \in Nat
      /\ z[Len(s) + 1] = f /\ \A i \in 1 .. Len(s) : z[i] = s[i]
  BY Grown
<1> HIDE DEF z
<1>2. Last(z) = f
  BY <1>1 DEF Last
<1>3. ASSUME NEW i \in 1 .. Len(z) - 1, z[i].fn = "Send"
      PROVE  z[i + 1].fn = "ReceiveSends"
  <2>1. CASE i = Len(s)
    BY <1>1, <1>3, <2>1 DEF Last
  <2>2. CASE i # Len(s)
    <3>1. i \in 1 .. Len(s) - 1 /\ i + 1 \in 1 .. Len(s)
      BY <1>1, <2>2
    <3> QED BY <1>1, <1>3, <3>1 DEF Nested
  <2> QED BY <2>1, <2>2
<1>4. b => z[1].fn = "ReceiveSends"
  <2>1. CASE s = <<>>
    BY <1>1, <2>1
  <2>2. CASE s # <<>>
    BY <1>1, <2>2 DEF Nested
  <2> QED BY <2>1, <2>2
<1> QED BY <1>1, <1>2, <1>3, <1>4 DEF Nested, z

(* What a call returns to: unless it is ReceiveSends, not to a Send.       *)
LEMMA ReturnShape ==
  ASSUME NEW s \in Seq(Frame), s # <<>>, NEW b \in BOOLEAN, Nested(s, b)
  PROVE  LET z == Front(s)
         IN  /\ z \in Seq(Frame) /\ Nested(z, b)
             /\ Last(s).fn # "ReceiveSends" =>
                  /\ z # <<>> => Last(z).fn # "Send"
                  /\ b => z # <<>>
<1> DEFINE z == Front(s)
<1>1. /\ z \in Seq(Frame) /\ Len(z) = Len(s) - 1 /\ Len(s) \in Nat \ {0}
      /\ \A i \in 1 .. Len(s) - 1 : z[i] = s[i]
      /\ (z = <<>>) = (Len(s) = 1)
  BY Shrunk
<1> HIDE DEF z
<1>2. Nested(z, b)
  BY <1>1 DEF Nested
<1>3. ASSUME Last(s).fn # "ReceiveSends", z # <<>>, Last(z).fn = "Send"
      PROVE  FALSE
  <2>1. Len(s) - 1 \in 1 .. Len(s) - 1
    BY <1>1, <1>3
  <2>2. s[Len(s) - 1].fn = "Send"
    BY <1>1, <1>3, <2>1 DEF Last
  <2> QED BY <1>1, <1>3, <2>1, <2>2 DEF Nested, Last
<1>4. ASSUME Last(s).fn # "ReceiveSends", b, z = <<>>
      PROVE  FALSE
  BY <1>1, <1>4 DEF Nested, Last
<1> QED BY <1>1, <1>2, <1>3, <1>4 DEF z

(* A sender that is told that it is ready stays where it is.               *)
LEMMA FrameReady ==
  ASSUME NEW f \in Frame
  PROVE  LET g == [f EXCEPT !.ready = TRUE]
         IN  g \in Frame /\ g.fn = f.fn /\ g.at = f.at /\ g.to = f.to
<1>1. CASE f.fn = "Send"
  BY <1>1 DEF Frame
<1>2. CASE f.fn # "Send"
  <2>1. [f EXCEPT !.ready = TRUE] = f
    BY <1>2 DEF Frame
  <2> QED BY <2>1
<1> QED BY <1>1, <1>2

LEMMA ReadyShape ==
  ASSUME NEW stk \in [Threads -> Seq(Frame)], NEW S
  PROVE  LET z == Ready(stk, S)
         IN  /\ z \in [Threads -> Seq(Frame)]
             /\ \A u \in Threads :
                  /\ Len(z[u]) = Len(stk[u]) /\ (z[u] = <<>>) = (stk[u] = <<>>)
                  /\ \A i \in 1 .. Len(stk[u]) :
                       /\ z[u][i].fn = stk[u][i].fn /\ z[u][i].at = stk[u][i].at
                       /\ z[u][i].to = stk[u][i].to
<1> DEFINE z == Ready(stk, S)
<1>1. ASSUME NEW u \in Threads
      PROVE  /\ z[u] \in Seq(Frame)
             /\ Len(z[u]) = Len(stk[u]) /\ (z[u] = <<>>) = (stk[u] = <<>>)
             /\ \A i \in 1 .. Len(stk[u]) :
                  /\ z[u][i].fn = stk[u][i].fn /\ z[u][i].at = stk[u][i].at
                  /\ z[u][i].to = stk[u][i].to
  <2> DEFINE g(i) == IF \E s \in S : s.thread = u /\ s.frame = i
                     THEN [stk[u][i] EXCEPT !.ready = TRUE] ELSE stk[u][i]
             n == Len(stk[u])
             q == [i \in 1 .. n |-> g(i)]
  <2>1. n \in Nat /\ DOMAIN stk[u] = 1 .. n
    OBVIOUS
  <2>2. z[u] = q
    BY <2>1 DEF Ready
  <2>3. ASSUME NEW i \in 1 .. n
        PROVE  /\ g(i) \in Frame /\ g(i).fn = stk[u][i].fn /\ g(i).at = stk[u][i].at
               /\ g(i).to = stk[u][i].to
    <3>1. stk[u][i] \in Frame
      BY <2>1
    <3> QED BY <3>1, FrameReady
  <2>6. (stk[u] = <<>>) = (n = 0)
    OBVIOUS
  <2> HIDE DEF g, n
  <2>4. q \in Seq(Frame) /\ Len(q) = n /\ \A i \in 1 .. n : q[i] = g(i)
    BY <2>1, <2>3
  <2>5. (q = <<>>) = (n = 0)
    BY <2>1, <2>4, EmptySeq
  <2> QED BY <2>2, <2>3, <2>4, <2>5, <2>6 DEF n
<1>2. z = [u \in Threads |-> z[u]]
  BY DEF Ready
<1> HIDE DEF z
<1> QED BY <1>1, <1>2 DEF z

-----------------------------------------------------------------------------
(* The stacks after a step of t, for the four ways in which it changes its *)
(* own.  b is whether the loop has looked at its sends.                    *)
Stacks == stack \in [Threads -> Seq(Frame)]

LEMMA Topped ==
  ASSUME Stacks, NEW t \in Threads, stack[t] # <<>>, NEW b \in BOOLEAN,
         Nested(stack[t], b), NEW f \in Frame, stack' = Top(t, f),
         Last(stack[t]).fn = "ReceiveSends" => f.fn = "ReceiveSends"
  PROVE  /\ stack' \in [Threads -> Seq(Frame)]
         /\ \A u \in Threads \ {t} : stack'[u] = stack[u]
         /\ stack'[t] # <<>> /\ Last(stack'[t]) = f /\ Nested(stack'[t], b)
<1> DEFINE z == Append(Front(stack[t]), f)
<1>1. z \in Seq(Frame) /\ z # <<>> /\ Last(z) = f /\ Nested(z, b)
  BY TopShape DEF Stacks
<1>2. stack' = [stack EXCEPT ![t] = z]
  BY DEF Top
<1> HIDE DEF z
<1> QED BY <1>1, <1>2 DEF Stacks

LEMMA Pushed ==
  ASSUME Stacks, NEW t \in Threads, NEW b \in BOOLEAN, Nested(stack[t], b), NEW f \in Frame,
         stack' = Push(t, f),
         stack[t] # <<>> /\ Last(stack[t]).fn = "Send" => f.fn = "ReceiveSends",
         stack[t] = <<>> /\ b => f.fn = "ReceiveSends"
  PROVE  /\ stack' \in [Threads -> Seq(Frame)]
         /\ \A u \in Threads \ {t} : stack'[u] = stack[u]
         /\ stack'[t] # <<>> /\ Last(stack'[t]) = f /\ Nested(stack'[t], b)
<1> DEFINE z == Append(stack[t], f)
<1>1. z \in Seq(Frame) /\ z # <<>> /\ Last(z) = f /\ Nested(z, b)
  BY PushShape DEF Stacks
<1>2. stack' = [stack EXCEPT ![t] = z]
  BY DEF Push
<1> HIDE DEF z
<1> QED BY <1>1, <1>2 DEF Stacks

LEMMA ToppedAndPushed ==
  ASSUME Stacks, NEW t \in Threads, stack[t] # <<>>, NEW b \in BOOLEAN,
         Nested(stack[t], b), NEW f \in Frame, NEW g \in Frame, stack' = TopWith(t, f, g),
         Last(stack[t]).fn = "ReceiveSends" => f.fn = "ReceiveSends",
         f.fn = "Send" => g.fn = "ReceiveSends"
  PROVE  /\ stack' \in [Threads -> Seq(Frame)]
         /\ \A u \in Threads \ {t} : stack'[u] = stack[u]
         /\ stack'[t] # <<>> /\ Last(stack'[t]) = g /\ Nested(stack'[t], b)
<1> DEFINE y == Append(Front(stack[t]), f)
           z == Append(y, g)
<1>1. y \in Seq(Frame) /\ y # <<>> /\ Last(y) = f /\ Nested(y, b)
  BY TopShape DEF Stacks
<1>2. stack' = [stack EXCEPT ![t] = z]
  BY DEF TopWith
<1> HIDE DEF y
<1>3. z \in Seq(Frame) /\ z # <<>> /\ Last(z) = g /\ Nested(z, b)
  BY <1>1, PushShape
<1> HIDE DEF z
<1> QED BY <1>2, <1>3 DEF Stacks

LEMMA Returned ==
  ASSUME Stacks, NEW t \in Threads, stack[t] # <<>>, NEW b \in BOOLEAN,
         Nested(stack[t], b), stack' = Return(t)
  PROVE  /\ stack' \in [Threads -> Seq(Frame)]
         /\ \A u \in Threads \ {t} : stack'[u] = stack[u]
         /\ Nested(stack'[t], b)
         /\ Last(stack[t]).fn # "ReceiveSends" =>
              /\ stack'[t] # <<>> => Last(stack'[t]).fn # "Send"
              /\ b => stack'[t] # <<>>
<1> DEFINE z == Front(stack[t])
<1>1. /\ z \in Seq(Frame) /\ Nested(z, b)
      /\ Last(stack[t]).fn # "ReceiveSends" =>
           /\ z # <<>> => Last(z).fn # "Send"
           /\ b => z # <<>>
  BY ReturnShape DEF Stacks
<1>2. stack' = [stack EXCEPT ![t] = z]
  BY DEF Return
<1> HIDE DEF z
<1> QED BY <1>1, <1>2 DEF Stacks

(* The top frames after senders were told, and how stacks stand then.      *)
LEMMA Told ==
  ASSUME NEW stk \in [Threads -> Seq(Frame)], NEW S, stack' = Ready(stk, S)
  PROVE  /\ stack' \in [Threads -> Seq(Frame)]
         /\ \A u \in Threads :
              /\ (stack'[u] = <<>>) = (stk[u] = <<>>)
              /\ stk[u] # <<>> =>
                   /\ Last(stack'[u]).fn = Last(stk[u]).fn
                   /\ Last(stack'[u]).at = Last(stk[u]).at
                   /\ Last(stack'[u]).to = Last(stk[u]).to
              /\ \A b \in BOOLEAN : Nested(stk[u], b) => Nested(stack'[u], b)
<1>1. /\ stack' \in [Threads -> Seq(Frame)]
      /\ \A u \in Threads :
           /\ Len(stack'[u]) = Len(stk[u]) /\ (stack'[u] = <<>>) = (stk[u] = <<>>)
           /\ \A i \in 1 .. Len(stk[u]) :
                /\ stack'[u][i].fn = stk[u][i].fn /\ stack'[u][i].at = stk[u][i].at
                /\ stack'[u][i].to = stk[u][i].to
  BY ReadyShape
<1>2. ASSUME NEW u \in Threads
      PROVE  /\ stk[u] # <<>> =>
                   /\ Last(stack'[u]).fn = Last(stk[u]).fn
                   /\ Last(stack'[u]).at = Last(stk[u]).at
                   /\ Last(stack'[u]).to = Last(stk[u]).to
             /\ \A b \in BOOLEAN : Nested(stk[u], b) => Nested(stack'[u], b)
  <2>1. Len(stk[u]) \in Nat /\ (stk[u] # <<>> => Len(stk[u]) \in 1 .. Len(stk[u]))
    OBVIOUS
  <2>2. stk[u] # <<>> =>
          /\ Last(stack'[u]).fn = Last(stk[u]).fn
          /\ Last(stack'[u]).at = Last(stk[u]).at
          /\ Last(stack'[u]).to = Last(stk[u]).to
    BY <1>1, <2>1 DEF Last
  <2>3. ASSUME NEW b \in BOOLEAN, Nested(stk[u], b)
        PROVE  Nested(stack'[u], b)
    BY <1>1, <2>1, <2>3 DEF Nested
  <2> QED BY <2>2, <2>3
<1> QED BY <1>1, <1>2

-----------------------------------------------------------------------------
(* The operation a handler is at.                                          *)
LEMMA NextOp ==
  ASSUME Stacks, NEW t \in Threads, NEW op, Doing(t, op)
  PROVE  /\ stack[t] # <<>> /\ Last(stack[t]).fn = "OnMessage"
         /\ Next1(t) \in Ops /\ Next1(t).op = op
         /\ Done(t) \in Frame /\ Done(t).fn = "OnMessage"
<1> DEFINE f == Last(stack[t])
<1>1. stack[t] # <<>> /\ f.fn = "OnMessage" /\ f.todo # <<>>
  BY DEF Doing, In, Todo
<1>2. f \in Frame
  BY <1>1 DEF Stacks, Last
<1>3. f.todo \in Seq(Ops)
  BY <1>1, <1>2 DEF Frame
<1> DEFINE q == f.todo
<1>4. Head(q) \in Ops /\ Tail(q) \in Seq(Ops)
  BY <1>1, <1>3
<1>5. Next1(t) = Head(q) /\ Done(t) = OnMessage(Tail(q))
  BY DEF Next1, Done, Todo
<1>6. OnMessage(Tail(q)) \in Frame /\ OnMessage(Tail(q)).fn = "OnMessage"
  <2> HIDE DEF q
  <2> QED BY <1>4 DEF OnMessage, Frame
<1> QED BY <1>1, <1>4, <1>5, <1>6 DEF Doing

LEMMA NewFrames ==
  ASSUME NEW u \in Threads, NEW m \in Messages, NEW ms \in SUBSET Messages
  PROVE  /\ OnMessage(Does[m]) \in Frame /\ Sending(u) \in Frame /\ Serving \in Frame
         /\ Stopping(u) \in Frame /\ Clearing(u, ms) \in Frame
BY ThreadsConstants DEF OnMessage, Sending, Serving, Stopping, Clearing, Frame

(* A step that takes away no wake-up and leaves no thread with something   *)
(* to handle that it overlooks.                                            *)
LEMMA StaysSafe ==
  ASSUME Safe,
         \A u, v \in Threads : Wakes(u, v) => Wakes(u, v)' \/ wakeup'[v],
         \A v \in Threads : Overlooked(v)' => Overlooked(v) \/ WillWake(v)',
         \A v \in Threads : wakeup[v] /\ Overlooked(v)' => WillWake(v)'
  PROVE  Safe'
BY DEF Safe, WillWake

(* The tops of the other threads' stacks are what they were.               *)
OthersStand(t) ==
  \A u \in Threads \ {t} :
    /\ (stack'[u] = <<>>) = (stack[u] = <<>>)
    /\ stack[u] # <<>> =>
         /\ Last(stack'[u]).fn = Last(stack[u]).fn
         /\ Last(stack'[u]).at = Last(stack[u]).at
         /\ Last(stack'[u]).to = Last(stack[u]).to

(* A step of t in which no wait begins or ends: what comes in is followed  *)
(* by a wake-up, and t does not go to sleep on something.                  *)
LEMMA StepIsSafe ==
  ASSUME Safe, NEW t \in Threads, OthersStand(t), UNCHANGED <<pc, fWait, timed>>,
         \A v \in Threads : Wakes(t, v) => wakeup'[v],
         \A v \in Threads : wakeup[v] => wakeup'[v],
         \A v \in Threads :
           \/ WillWake(v)'
           \/ /\ sendlist'[v] # <<>> => sendlist[v] # <<>>
              /\ msgq'[v] # <<>> => msgq[v] # <<>>
              /\ dmsgq'[v] # <<>> => dmsgq[v] # <<>>,
         pc[t] = "queue" /\ stack'[t] = <<>> => stack[t] = <<>> \/ sendlist'[t] = <<>>,
         At(t, "Send", "wait")' => At(t, "Send", "wait") \/ sendlist'[t] = <<>>
  PROVE  Safe'
<1>1. ASSUME NEW u \in Threads, NEW v \in Threads, Wakes(u, v)
      PROVE  Wakes(u, v)' \/ wakeup'[v]
  <2>1. CASE u = t
    BY <1>1, <2>1
  <2>2. CASE u # t
    BY <1>1, <2>2 DEF Wakes, At, In, OthersStand
  <2> QED BY <2>1, <2>2
<1>2. ASSUME NEW v \in Threads, Overlooked(v)', ~WillWake(v)'
      PROVE  Overlooked(v)
  <2>1. /\ sendlist'[v] # <<>> => sendlist[v] # <<>>
        /\ msgq'[v] # <<>> => msgq[v] # <<>>
        /\ dmsgq'[v] # <<>> => dmsgq[v] # <<>>
    BY <1>2
  <2>2. CASE v = t
    BY <1>2, <2>1, <2>2 DEF Overlooked
  <2>3. CASE v # t
    BY <1>2, <2>1, <2>3 DEF Overlooked, At, In, OthersStand
  <2> QED BY <2>2, <2>3
<1>3. ASSUME NEW v \in Threads, wakeup[v]
      PROVE  WillWake(v)'
  BY <1>3 DEF WillWake
<1> QED BY <1>1, <1>2, <1>3, StaysSafe

(* The invariant but for what is overlooked.                               *)
Shape ==
  /\ TypeOK
  /\ \A t \in Threads : sendlist[t] # <<>> => has_sends[t]
  /\ \A t \in Threads : Nested(stack[t], pc[t] = "queue")

(* A step that changes stacks only, and wakes threads.                     *)
LEMMA StackStep ==
  ASSUME Shape, NEW t \in Threads, stack' \in [Threads -> Seq(Frame)],
         \A u \in Threads \ {t} : stack'[u] = stack[u],
         Nested(stack'[t], pc[t] = "queue"),
         UNCHANGED <<use, pc, timed, fWait, fStop, queues>>,
         wakeup' \in [Threads -> BOOLEAN], events' \in [Threads -> Seq(Seq(Ops))]
  PROVE  Shape'
BY DEF Shape, TypeOK, queues

LEMMA Alike ==
  ASSUME NEW t \in Threads, \A u \in Threads \ {t} : stack'[u] = stack[u]
  PROVE  OthersStand(t)
BY DEF OthersStand

-----------------------------------------------------------------------------
(* The operations of handlers.                                             *)
LEMMA ReturnKeeps ==
  ASSUME IInv, NEW t \in Threads, OnMessageReturns(t)
  PROVE  IInv'
<1>1. Shape /\ Stacks /\ Safe
  BY DEF IInv, Shape, Stacks, TypeOK
<1>2. stack[t] # <<>> /\ Last(stack[t]).fn = "OnMessage" /\ Nested(stack[t], pc[t] = "queue")
  BY DEF OnMessageReturns, In, IInv
<1>3. /\ stack' \in [Threads -> Seq(Frame)]
      /\ \A u \in Threads \ {t} : stack'[u] = stack[u]
      /\ Nested(stack'[t], pc[t] = "queue")
      /\ stack'[t] # <<>> => Last(stack'[t]).fn # "Send"
      /\ pc[t] = "queue" => stack'[t] # <<>>
  BY <1>1, <1>2, Returned DEF OnMessageReturns
<1>4. UNCHANGED <<use, events, pc, timed, fWait, wakeup, fStop, queues>>
  BY DEF OnMessageReturns, loopVars
<1>5. Shape'
  BY <1>1, <1>3, <1>4, StackStep DEF Shape, TypeOK
<1>6. Safe'
  <2>1. \A v \in Threads : ~Wakes(t, v)
    BY <1>2 DEF Wakes, At, In
  <2>2. ~At(t, "Send", "wait")'
    BY <1>3 DEF At, In
  <2>3. OthersStand(t)
    BY <1>3, Alike
  <2> QED BY <1>1, <1>3, <1>4, <2>1, <2>2, <2>3, StepIsSafe DEF queues
<1> QED BY <1>5, <1>6 DEF IInv, Shape

LEMMA OpShape ==
  ASSUME IInv, NEW t \in Threads, NEW op, Doing(t, op),
         \/ stack' = Top(t, Done(t))
         \/ \E g \in Frame : /\ stack' = TopWith(t, Done(t), g)
                             /\ g.fn = "Send" => g.at = "wake"
  PROVE  /\ stack' \in [Threads -> Seq(Frame)]
         /\ \A u \in Threads \ {t} : stack'[u] = stack[u]
         /\ Nested(stack'[t], pc[t] = "queue") /\ stack'[t] # <<>>
         /\ \A g \in Frame : stack' = TopWith(t, Done(t), g) => Last(stack'[t]) = g
         /\ OthersStand(t) /\ ~At(t, "Send", "wait")' /\ \A v \in Threads : ~Wakes(t, v)
<1>1. Stacks /\ Nested(stack[t], pc[t] = "queue")
  BY DEF IInv, Stacks, TypeOK
<1>2. /\ stack[t] # <<>> /\ Last(stack[t]).fn = "OnMessage"
      /\ Done(t) \in Frame /\ Done(t).fn = "OnMessage"
  BY <1>1, NextOp
<1>3. \A v \in Threads : ~Wakes(t, v)
  BY <1>2 DEF Wakes, At, In
<1>4. CASE stack' = Top(t, Done(t)) /\ \A g \in Frame : stack' # TopWith(t, Done(t), g)
  <2>1. /\ stack' \in [Threads -> Seq(Frame)]
        /\ \A u \in Threads \ {t} : stack'[u] = stack[u]
        /\ stack'[t] # <<>> /\ Last(stack'[t]) = Done(t) /\ Nested(stack'[t], pc[t] = "queue")
    BY <1>1, <1>2, <1>4, Topped
  <2> QED BY <1>2, <1>3, <1>4, <2>1, Alike DEF At, In
<1>5. ASSUME NEW g \in Frame, stack' = TopWith(t, Done(t), g)
      PROVE  /\ stack' \in [Threads -> Seq(Frame)]
             /\ \A u \in Threads \ {t} : stack'[u] = stack[u]
             /\ stack'[t] # <<>> /\ Last(stack'[t]) = g /\ Nested(stack'[t], pc[t] = "queue")
  BY <1>1, <1>2, <1>5, ToppedAndPushed
<1>6. ASSUME NEW g \in Frame, stack' = TopWith(t, Done(t), g), g.fn = "Send" => g.at = "wake"
      PROVE  ~At(t, "Send", "wait")'
  BY <1>5, <1>6 DEF At, In
<1>7. CASE \E g \in Frame : stack' = TopWith(t, Done(t), g)
  <2>1. /\ stack' \in [Threads -> Seq(Frame)]
        /\ \A u \in Threads \ {t} : stack'[u] = stack[u]
        /\ stack'[t] # <<>> /\ Nested(stack'[t], pc[t] = "queue")
        /\ \A g \in Frame : stack' = TopWith(t, Done(t), g) => Last(stack'[t]) = g
    BY <1>5, <1>7
  <2>2. ~At(t, "Send", "wait")'
    <3>1. CASE stack' = Top(t, Done(t))
      <4>1. Last(stack'[t]) = Done(t)
        BY <1>1, <1>2, <3>1, Topped
      <4> QED BY <1>2, <4>1 DEF At, In
    <3>2. CASE stack' # Top(t, Done(t))
      BY <1>6, <3>2
    <3> QED BY <3>1, <3>2
  <2> QED BY <1>3, <2>1, <2>2, Alike
<1> QED BY <1>4, <1>7

LEMMA PostKeeps ==
  ASSUME IInv, NEW t \in Threads, Post(t)
  PROVE  IInv'
<1> DEFINE o == Next1(t)
<1>1. Shape /\ Stacks /\ Safe
  BY DEF IInv, Shape, Stacks, TypeOK
<1>2. Doing(t, "Post") /\ stack' = Top(t, Done(t))
  BY DEF Post
<1>3. /\ stack' \in [Threads -> Seq(Frame)]
      /\ \A u \in Threads \ {t} : stack'[u] = stack[u]
      /\ Nested(stack'[t], pc[t] = "queue") /\ stack'[t] # <<>>
      /\ OthersStand(t) /\ ~At(t, "Send", "wait")' /\ \A v \in Threads : ~Wakes(t, v)
  BY <1>2, OpShape
<1>4. o.to \in Threads /\ o.msg \in Messages
  <2>1. o \in Ops /\ o.op = "Post"
    BY <1>1, <1>2, NextOp
  <2> HIDE DEF o
  <2> QED BY <2>1 DEF Ops
<1> HIDE DEF o
<1>5. /\ msgq' = [msgq EXCEPT ![o.to] = Append(@, o.msg)]
      /\ wakeup' = [wakeup EXCEPT ![o.to] = TRUE]
      /\ UNCHANGED <<use, events, pc, timed, fWait, fStop, dmsgq, sendlist, has_sends>>
  BY DEF Post, o
<1>6. msgq' \in [Threads -> Seq(Messages)] /\ wakeup' \in [Threads -> BOOLEAN]
  BY <1>1, <1>4, <1>5 DEF Shape, TypeOK
<1>7. Shape'
  BY <1>1, <1>3, <1>5, <1>6 DEF Shape, TypeOK
<1>8. Safe'
  <2>1. \A v \in Threads : wakeup[v] => wakeup'[v]
    BY <1>1, <1>4, <1>5 DEF Shape, TypeOK
  <2>2. \A v \in Threads : WillWake(v)' \/ msgq'[v] = msgq[v]
    BY <1>1, <1>4, <1>5 DEF WillWake, Shape, TypeOK
  <2> QED BY <1>1, <1>3, <1>5, <2>1, <2>2, StepIsSafe
<1> QED BY <1>7, <1>8 DEF IInv, Shape

LEMMA Inserted ==
  ASSUME NEW S, NEW q \in Seq(S), NEW m \in S, NEW i \in 1 .. Len(q) + 1
  PROVE  InsertAt(q, i, m) \in Seq(S)
<1>1. i - 1 \in Nat /\ i - 1 <= Len(q) /\ Len(q) \in Nat
  OBVIOUS
<1>2. SubSeq(q, 1, i - 1) \in Seq(S)
  BY <1>1, Prefix
<1>3. SubSeq(q, i, Len(q)) \in Seq(S)
  <2>1. \A k \in i .. Len(q) : q[k] \in S
    OBVIOUS
  <2> QED BY <1>1, <2>1
<1> QED BY <1>2, <1>3 DEF InsertAt

LEMMA PostDelayedKeeps ==
  ASSUME IInv, NEW t \in Threads, PostDelayed(t)
  PROVE  IInv'
<1> DEFINE o == Next1(t)
<1>1. Shape /\ Stacks /\ Safe
  BY DEF IInv, Shape, Stacks, TypeOK
<1>2. Doing(t, "PostDelayed") /\ stack' = Top(t, Done(t))
  BY DEF PostDelayed
<1>3. /\ stack' \in [Threads -> Seq(Frame)]
      /\ \A u \in Threads \ {t} : stack'[u] = stack[u]
      /\ Nested(stack'[t], pc[t] = "queue") /\ stack'[t] # <<>>
      /\ OthersStand(t) /\ ~At(t, "Send", "wait")' /\ \A v \in Threads : ~Wakes(t, v)
  BY <1>2, OpShape
<1>4. o.to \in Threads /\ o.msg \in Messages
  <2>1. o \in Ops /\ o.op = "PostDelayed"
    BY <1>1, <1>2, NextOp
  <2> HIDE DEF o
  <2> QED BY <2>1 DEF Ops
<1> HIDE DEF o
<1>5. PICK i \in 1 .. Len(dmsgq[o.to]) + 1 :
        /\ dmsgq' = [dmsgq EXCEPT ![o.to] = InsertAt(@, i, o.msg)]
        /\ wakeup' = [wakeup EXCEPT ![o.to] = TRUE]
        /\ UNCHANGED <<use, events, pc, timed, fWait, fStop, msgq, sendlist, has_sends>>
  BY DEF PostDelayed, o
<1>6. dmsgq' \in [Threads -> Seq(Messages)] /\ wakeup' \in [Threads -> BOOLEAN]
  <2>1. InsertAt(dmsgq[o.to], i, o.msg) \in Seq(Messages)
    BY <1>1, <1>4, Inserted DEF Shape, TypeOK
  <2> QED BY <1>1, <1>4, <1>5, <2>1 DEF Shape, TypeOK
<1>7. Shape'
  BY <1>1, <1>3, <1>5, <1>6 DEF Shape, TypeOK
<1>8. Safe'
  <2>1. \A v \in Threads : wakeup[v] => wakeup'[v]
    BY <1>1, <1>4, <1>5 DEF Shape, TypeOK
  <2>2. \A v \in Threads : WillWake(v)' \/ dmsgq'[v] = dmsgq[v]
    BY <1>1, <1>4, <1>5 DEF WillWake, Shape, TypeOK
  <2> QED BY <1>1, <1>3, <1>5, <2>1, <2>2, StepIsSafe
<1> QED BY <1>7, <1>8 DEF IInv, Shape

LEMMA SendKeeps ==
  ASSUME IInv, NEW t \in Threads, Send(t)
  PROVE  IInv'
<1> DEFINE o == Next1(t)
           s == [msg |-> o.msg, thread |-> t, frame |-> Len(stack[t]) + 1]
<1>1. Shape /\ Stacks /\ Safe
  BY DEF IInv, Shape, Stacks, TypeOK
<1>2. Doing(t, "Send")
  BY DEF Send
<1>3. o \in Ops /\ o.op = "Send"
  BY <1>1, <1>2, NextOp
<1>4. o.to \in Threads /\ o.msg \in Messages
  <2> HIDE DEF o
  <2> QED BY <1>3 DEF Ops
<1>5. Sending(o.to) \in Frame /\ Sending(o.to).at = "wake" /\ Sending(o.to).fn = "Send"
      /\ Sending(o.to).to = o.to
  <2> HIDE DEF o
  <2> QED BY <1>4 DEF Sending, Frame
<1>6. stack' = TopWith(t, Done(t), Sending(o.to))
  BY DEF Send
<1>7. /\ stack' \in [Threads -> Seq(Frame)]
      /\ \A u \in Threads \ {t} : stack'[u] = stack[u]
      /\ Nested(stack'[t], pc[t] = "queue") /\ stack'[t] # <<>>
      /\ Last(stack'[t]) = Sending(o.to)
      /\ OthersStand(t) /\ ~At(t, "Send", "wait")' /\ \A v \in Threads : ~Wakes(t, v)
  BY <1>2, <1>5, <1>6, OpShape
<1>8. /\ sendlist' = [sendlist EXCEPT ![o.to] = Append(@, s)]
      /\ has_sends' = [has_sends EXCEPT ![o.to] = TRUE]
      /\ UNCHANGED <<use, events, pc, timed, fWait, wakeup, fStop, msgq, dmsgq>>
  BY DEF Send, loopVars
<1>9. s \in SendMessage
  <2>1. Len(stack[t]) + 1 \in Nat \ {0}
    BY <1>1 DEF Stacks
  <2> QED BY <1>4, <2>1 DEF SendMessage
<1> HIDE DEF o, s
<1>10. sendlist' \in [Threads -> Seq(SendMessage)]
  BY <1>1, <1>4, <1>8, <1>9 DEF Shape, TypeOK
<1>11. Shape'
  <2>1. has_sends' \in [Threads -> BOOLEAN]
        /\ \A v \in Threads : sendlist'[v] # <<>> => has_sends'[v]
    BY <1>1, <1>4, <1>8 DEF Shape, TypeOK
  <2> QED BY <1>1, <1>7, <1>8, <1>10, <2>1 DEF Shape, TypeOK
<1>12. Safe'
  <2>1. ASSUME NEW v \in Threads, v = o.to
        PROVE  WillWake(v)'
    <3>1. Wakes(t, v)'
      BY <1>5, <1>7, <2>1 DEF Wakes, At, In
    <3> QED BY <3>1 DEF WillWake
  <2>2. \A v \in Threads : v # o.to => sendlist'[v] = sendlist[v]
    BY <1>1, <1>8 DEF Shape, TypeOK
  <2>3. \A v \in Threads : WillWake(v)' \/ sendlist'[v] = sendlist[v]
    BY <2>1, <2>2
  <2> QED BY <1>1, <1>7, <1>8, <2>3, StepIsSafe
<1> QED BY <1>11, <1>12 DEF IInv, Shape

(* The operations that only put a call on the stack.                       *)
LEMMA CallKeeps ==
  ASSUME IInv, NEW t \in Threads, NEW op, Doing(t, op), NEW g \in Frame,
         g.fn # "Send", stack' = TopWith(t, Done(t), g),
         UNCHANGED <<use, events, loopVars, queues>>, fStop' \in [Threads -> BOOLEAN]
  PROVE  IInv'
<1>1. Shape /\ Stacks /\ Safe
  BY DEF IInv, Shape, Stacks, TypeOK
<1>2. /\ stack' \in [Threads -> Seq(Frame)]
      /\ \A u \in Threads \ {t} : stack'[u] = stack[u]
      /\ Nested(stack'[t], pc[t] = "queue") /\ stack'[t] # <<>>
      /\ OthersStand(t) /\ ~At(t, "Send", "wait")' /\ \A v \in Threads : ~Wakes(t, v)
  BY OpShape
<1>3. Shape'
  BY <1>1, <1>2 DEF Shape, TypeOK, loopVars, queues
<1>4. Safe'
  BY <1>1, <1>2, StepIsSafe DEF loopVars, queues
<1> QED BY <1>3, <1>4 DEF IInv, Shape

LEMMA CallsKeep ==
  ASSUME IInv, NEW t \in Threads, SendToSelf(t) \/ Clear(t) \/ Delete(t)
  PROVE  IInv'
<1> DEFINE o == Next1(t)
<1>1. Stacks
  BY DEF IInv, Stacks, TypeOK
<1>2. fStop \in [Threads -> BOOLEAN]
  BY DEF IInv, TypeOK
<1>3. CASE SendToSelf(t)
  <2>1. Doing(t, "Send") /\ stack' = TopWith(t, Done(t), OnMessage(Does[o.msg]))
        /\ UNCHANGED <<use, events, loopVars, fStop, queues>>
    BY <1>3 DEF SendToSelf
  <2>2. o \in Ops /\ o.op = "Send"
    BY <1>1, <2>1, NextOp
  <2> HIDE DEF o
  <2>3. o.to \in Threads /\ o.msg \in Messages
    BY <2>2 DEF Ops
  <2>4. OnMessage(Does[o.msg]) \in Frame /\ OnMessage(Does[o.msg]).fn # "Send"
    BY <2>3, NewFrames DEF OnMessage
  <2> QED BY <1>2, <2>1, <2>4, CallKeeps
<1>4. CASE Clear(t)
  <2>1. Doing(t, "Clear") /\ stack' = TopWith(t, Done(t), Clearing(o.to, o.what))
        /\ UNCHANGED <<use, events, loopVars, fStop, queues>>
    BY <1>4 DEF Clear
  <2>2. o \in Ops /\ o.op = "Clear"
    BY <1>1, <2>1, NextOp
  <2> HIDE DEF o
  <2>3. o.to \in Threads /\ o.what \in SUBSET Messages
    BY <2>2 DEF Ops
  <2>4. Clearing(o.to, o.what) \in Frame /\ Clearing(o.to, o.what).fn # "Send"
    BY <2>3 DEF Clearing, Frame
  <2> QED BY <1>2, <2>1, <2>4, CallKeeps
<1>5. CASE Delete(t)
  <2>1. Doing(t, "delete") /\ stack' = TopWith(t, Done(t), Stopping(o.to))
        /\ fStop' = [fStop EXCEPT ![o.to] = TRUE]
        /\ UNCHANGED <<use, events, loopVars, queues>>
    BY <1>5 DEF Delete
  <2>2. o \in Ops /\ o.op = "delete"
    BY <1>1, <2>1, NextOp
  <2> HIDE DEF o
  <2>3. o.to \in Threads
    BY <2>2 DEF Ops
  <2>4. Stopping(o.to) \in Frame /\ Stopping(o.to).fn # "Send"
    BY <2>3 DEF Stopping, Frame
  <2>5. fStop' \in [Threads -> BOOLEAN]
    BY <1>2, <2>1, <2>3
  <2> QED BY <2>1, <2>4, <2>5, CallKeeps
<1> QED BY <1>3, <1>4, <1>5

-----------------------------------------------------------------------------
(* The calls.                                                              *)
LEMMA FrameTypes ==
  ASSUME Stacks, NEW t \in Threads, stack[t] # <<>>
  PROVE  LET f == Last(stack[t])
         IN  /\ f \in Frame
             /\ f.fn \in {"Send", "Stop", "Clear"} => f.to \in Threads
             /\ f.fn = "Send" => f.ready \in BOOLEAN
             /\ f.fn \in {"Send", "Stop"} =>
                  \A a \in {"check", "wait", "join"} :
                    (f.fn = "Send") = (a # "join") =>
                      /\ [f EXCEPT !.at = a] \in Frame
                      /\ [f EXCEPT !.at = a].fn = f.fn /\ [f EXCEPT !.at = a].at = a
             /\ f.fn = "ReceiveSends" =>
                  /\ f.smsg \in SUBSET SendMessage
                  /\ [f EXCEPT !.at = "wake"] \in Frame
                  /\ [f EXCEPT !.at = "wake"].fn = "ReceiveSends"
                  /\ [f EXCEPT !.at = "wake"].at = "wake"
<1> DEFINE f == Last(stack[t])
<1>1. f \in Frame
  BY DEF Stacks, Last
<1> HIDE DEF f
<1>2. f.fn \in {"Send", "Stop", "Clear"} => f.to \in Threads
  BY <1>1 DEF Frame
<1>3. f.fn = "Send" => f.ready \in BOOLEAN
  BY <1>1 DEF Frame
<1>4. f.fn = "Send" => \A a \in {"check", "wait"} :
        /\ [f EXCEPT !.at = a] \in Frame
        /\ [f EXCEPT !.at = a].fn = f.fn /\ [f EXCEPT !.at = a].at = a
  BY <1>1 DEF Frame
<1>5. f.fn = "Stop" =>
        /\ [f EXCEPT !.at = "join"] \in Frame
        /\ [f EXCEPT !.at = "join"].fn = f.fn /\ [f EXCEPT !.at = "join"].at = "join"
  BY <1>1 DEF Frame
<1>6. f.fn = "ReceiveSends" =>
        /\ f.smsg \in SUBSET SendMessage
        /\ [f EXCEPT !.at = "wake"] \in Frame
        /\ [f EXCEPT !.at = "wake"].fn = "ReceiveSends"
        /\ [f EXCEPT !.at = "wake"].at = "wake"
  BY <1>1 DEF Frame
<1> QED BY <1>1, <1>2, <1>3, <1>4, <1>5, <1>6 DEF f

(* The wake-up that Send and Stop owe.                                     *)
LEMMA WakesKeep ==
  ASSUME IInv, NEW t \in Threads, SendWakes(t) \/ StopWakes(t)
  PROVE  IInv'
<1> DEFINE f == Last(stack[t])
           a == IF SendWakes(t) THEN "check" ELSE "join"
<1>1. Shape /\ Stacks /\ Safe /\ Nested(stack[t], pc[t] = "queue")
  BY DEF IInv, Shape, Stacks, TypeOK
<1>2. /\ stack[t] # <<>> /\ f.fn \in {"Send", "Stop"} /\ (f.fn = "Send") = (a # "join")
      /\ a \in {"check", "join"}
      /\ wakeup' = [wakeup EXCEPT ![f.to] = TRUE]
      /\ stack' = Top(t, [f EXCEPT !.at = a])
      /\ UNCHANGED <<use, events, pc, timed, fWait, fStop, queues>>
  BY DEF SendWakes, StopWakes, At, In
<1>3. /\ [f EXCEPT !.at = a] \in Frame /\ f.to \in Threads
      /\ [f EXCEPT !.at = a].fn = f.fn /\ [f EXCEPT !.at = a].at = a
  BY <1>1, <1>2, FrameTypes, ZenonT(60)
<1>4. /\ stack' \in [Threads -> Seq(Frame)]
      /\ \A u \in Threads \ {t} : stack'[u] = stack[u]
      /\ stack'[t] # <<>> /\ Last(stack'[t]) = [f EXCEPT !.at = a]
      /\ Nested(stack'[t], pc[t] = "queue")
  BY <1>1, <1>2, <1>3, Topped
<1>5. a # "wait"
  BY <1>2
<1>6. \A v \in Threads : Wakes(t, v) => v = f.to
  BY DEF Wakes
<1>7. ~At(t, "Send", "wait")'
  BY <1>3, <1>4, <1>5 DEF At, In
<1> HIDE DEF f, a
<1>8. /\ wakeup' \in [Threads -> BOOLEAN]
      /\ \A v \in Threads : wakeup[v] => wakeup'[v]
      /\ \A v \in Threads : Wakes(t, v) => wakeup'[v]
  BY <1>1, <1>2, <1>3, <1>6 DEF Shape, TypeOK
<1>9. Shape'
  BY <1>1, <1>2, <1>4, <1>8, StackStep DEF Shape, TypeOK
<1>10. Safe'
  BY <1>1, <1>2, <1>4, <1>7, <1>8, Alike, StepIsSafe DEF queues
<1> QED BY <1>9, <1>10 DEF IInv, Shape

(* Send goes on to wait only when nothing is left that was sent to it, or  *)
(* has ReceiveSends look at it first.                                      *)
LEMMA SendChecksKeeps ==
  ASSUME IInv, NEW t \in Threads, SendChecks(t)
  PROVE  IInv'
<1> DEFINE f == Last(stack[t])
           g == [f EXCEPT !.at = "wait"]
<1>1. Shape /\ Stacks /\ Safe /\ Nested(stack[t], pc[t] = "queue")
  BY DEF IInv, Shape, Stacks, TypeOK
<1>2. stack[t] # <<>> /\ f.fn = "Send" /\ f.at = "check"
      /\ UNCHANGED <<use, events, loopVars, fStop, queues>>
  BY DEF SendChecks, At, In
<1>3. g \in Frame /\ g.fn = "Send" /\ g.at = "wait"
  BY <1>1, <1>2, FrameTypes
<1>4. \A v \in Threads : ~Wakes(t, v)
  BY <1>2 DEF Wakes, At, In
<1>5. CASE stack' = Return(t)
  <2>1. /\ stack' \in [Threads -> Seq(Frame)]
        /\ \A u \in Threads \ {t} : stack'[u] = stack[u]
        /\ Nested(stack'[t], pc[t] = "queue")
        /\ stack'[t] # <<>> => Last(stack'[t]).fn # "Send"
        /\ pc[t] = "queue" => stack'[t] # <<>>
    BY <1>1, <1>2, <1>5, Returned
  <2>2. Shape'
    BY <1>1, <1>2, <2>1, StackStep DEF Shape, TypeOK, loopVars
  <2>3. ~At(t, "Send", "wait")'
    BY <2>1 DEF At, In
  <2>4. Safe'
    BY <1>1, <1>2, <1>4, <2>1, <2>3, Alike, StepIsSafe DEF loopVars, queues
  <2> QED BY <2>2, <2>4 DEF IInv, Shape
<1>6. CASE has_sends[t] /\ stack' = TopWith(t, g, Serving)
  <2>1. Serving \in Frame /\ Serving.fn = "ReceiveSends"
    BY DEF Serving, Frame
  <2>2. /\ stack' \in [Threads -> Seq(Frame)]
        /\ \A u \in Threads \ {t} : stack'[u] = stack[u]
        /\ stack'[t] # <<>> /\ Last(stack'[t]) = Serving
        /\ Nested(stack'[t], pc[t] = "queue")
    BY <1>1, <1>2, <1>3, <1>6, <2>1, ToppedAndPushed
  <2>3. Shape'
    BY <1>1, <1>2, <2>2, StackStep DEF Shape, TypeOK, loopVars
  <2>4. ~At(t, "Send", "wait")'
    BY <2>1, <2>2 DEF At, In
  <2>5. Safe'
    BY <1>1, <1>2, <1>4, <2>2, <2>4, Alike, StepIsSafe DEF loopVars, queues
  <2> QED BY <2>3, <2>5 DEF IInv, Shape
<1>7. CASE ~has_sends[t] /\ stack' = Top(t, g)
  <2>1. /\ stack' \in [Threads -> Seq(Frame)]
        /\ \A u \in Threads \ {t} : stack'[u] = stack[u]
        /\ stack'[t] # <<>> /\ Nested(stack'[t], pc[t] = "queue")
    BY <1>1, <1>2, <1>3, <1>7, Topped
  <2>2. Shape'
    BY <1>1, <1>2, <2>1, StackStep DEF Shape, TypeOK, loopVars
  <2>3. sendlist'[t] = <<>>
    BY <1>1, <1>2, <1>7 DEF Shape, queues
  <2>4. Safe'
    BY <1>1, <1>2, <1>4, <2>1, <2>3, Alike, StepIsSafe DEF loopVars, queues
  <2> QED BY <2>2, <2>4 DEF IInv, Shape
<1> QED BY <1>5, <1>6, <1>7 DEF SendChecks

LEMMA ReceiveNextKeeps ==
  ASSUME IInv, NEW t \in Threads, ReceiveNext(t)
  PROVE  IInv'
<1> DEFINE f == Last(stack[t])
<1>1. Shape /\ Stacks /\ Safe /\ Nested(stack[t], pc[t] = "queue")
  BY DEF IInv, Shape, Stacks, TypeOK
<1>2. stack[t] # <<>> /\ f.fn = "ReceiveSends" /\ f.at = "next"
      /\ UNCHANGED <<use, events, loopVars, fStop, msgq, dmsgq>>
  BY DEF ReceiveNext, At, In
<1>3. \A v \in Threads : ~Wakes(t, v)
  BY <1>2 DEF Wakes, At, In
<1>4. CASE sendlist[t] = <<>>
  <2>1. /\ has_sends' = [has_sends EXCEPT ![t] = FALSE]
        /\ stack' = Return(t) /\ sendlist' = sendlist
    BY <1>4 DEF ReceiveNext
  <2>2. /\ stack' \in [Threads -> Seq(Frame)]
        /\ \A u \in Threads \ {t} : stack'[u] = stack[u]
        /\ Nested(stack'[t], pc[t] = "queue")
    BY <1>1, <1>2, <2>1, Returned
  <2>3. Shape'
    BY <1>1, <1>2, <1>4, <2>1, <2>2 DEF Shape, TypeOK, loopVars
  <2>4. Safe'
    BY <1>1, <1>2, <1>3, <1>4, <2>1, <2>2, Alike, StepIsSafe DEF loopVars
  <2> QED BY <2>3, <2>4 DEF IInv, Shape
<1>5. CASE sendlist[t] # <<>>
  <2> DEFINE s == Head(sendlist[t])
             g == [Serving EXCEPT !.at = "answer", !.smsg = {s}]
             h == OnMessage(Does[s.msg])
  <2>1. /\ sendlist' = [sendlist EXCEPT ![t] = Tail(@)]
        /\ stack' = TopWith(t, g, h) /\ has_sends' = has_sends
    BY <1>5 DEF ReceiveNext
  <2>2. s \in SendMessage /\ Tail(sendlist[t]) \in Seq(SendMessage)
    BY <1>1, <1>5 DEF Shape, TypeOK
  <2>3. g \in Frame /\ g.fn = "ReceiveSends"
    <3> HIDE DEF s
    <3> QED BY <2>2 DEF Serving, Frame
  <2>4. h \in Frame /\ h.fn = "OnMessage"
    <3> HIDE DEF s
    <3>1. s.msg \in Messages
      BY <2>2 DEF SendMessage
    <3> QED BY <3>1, NewFrames DEF OnMessage
  <2> HIDE DEF g, h
  <2>5. /\ stack' \in [Threads -> Seq(Frame)]
        /\ \A u \in Threads \ {t} : stack'[u] = stack[u]
        /\ stack'[t] # <<>> /\ Last(stack'[t]) = h
        /\ Nested(stack'[t], pc[t] = "queue")
    BY <1>1, <1>2, <2>1, <2>3, <2>4, ToppedAndPushed
  <2>6. sendlist' \in [Threads -> Seq(SendMessage)]
        /\ \A v \in Threads : sendlist'[v] # <<>> => sendlist[v] # <<>>
    BY <1>1, <1>5, <2>1, <2>2 DEF Shape, TypeOK
  <2>7. Shape'
    BY <1>1, <1>2, <2>1, <2>5, <2>6 DEF Shape, TypeOK, loopVars
  <2>8. ~At(t, "Send", "wait")'
    BY <2>4, <2>5 DEF At, In
  <2>9. Safe'
    BY <1>1, <1>2, <1>3, <2>5, <2>6, <2>8, Alike, StepIsSafe DEF loopVars
  <2> QED BY <2>7, <2>9 DEF IInv, Shape
<1> QED BY <1>4, <1>5

(* What is answered leaves the list before the sender is told: only tops   *)
(* that wait for nothing change.                                           *)
LEMMA AnswerKeeps ==
  ASSUME IInv, NEW t \in Threads, Answer(t)
  PROVE  IInv'
<1> DEFINE f == Last(stack[t])
           g == [f EXCEPT !.at = "wake"]
           z == Append(Front(stack[t]), g)
           stk == [stack EXCEPT ![t] = z]
           b == pc[t] = "queue"
<1>1. Shape /\ Stacks /\ Safe /\ Nested(stack[t], b)
  BY DEF IInv, Shape, Stacks, TypeOK
<1>2. stack[t] # <<>> /\ f.fn = "ReceiveSends" /\ f.at = "answer"
      /\ stack' = Ready(stk, f.smsg)
      /\ UNCHANGED <<use, events, loopVars, fStop, queues>>
  BY DEF Answer, At, In, Top
<1>3. g \in Frame /\ g.fn = "ReceiveSends" /\ g.at = "wake"
  BY <1>1, <1>2, FrameTypes
<1>4. \A v \in Threads : ~Wakes(t, v)
  BY <1>2 DEF Wakes, At, In
<1> HIDE DEF f, g
<1>5. z \in Seq(Frame) /\ z # <<>> /\ Last(z) = g /\ Nested(z, b)
  BY <1>1, <1>2, <1>3, TopShape DEF Stacks
<1> HIDE DEF z
<1>6. /\ stk \in [Threads -> Seq(Frame)] /\ stk[t] = z
      /\ \A u \in Threads \ {t} : stk[u] = stack[u]
  BY <1>1, <1>5 DEF Stacks
<1> HIDE DEF stk
<1>7. /\ stack' \in [Threads -> Seq(Frame)]
      /\ \A u \in Threads :
           /\ (stack'[u] = <<>>) = (stk[u] = <<>>)
           /\ stk[u] # <<>> =>
                /\ Last(stack'[u]).fn = Last(stk[u]).fn
                /\ Last(stack'[u]).at = Last(stk[u]).at
                /\ Last(stack'[u]).to = Last(stk[u]).to
           /\ \A c \in BOOLEAN : Nested(stk[u], c) => Nested(stack'[u], c)
  BY <1>2, <1>6, Told
<1>8. OthersStand(t)
  BY <1>6, <1>7 DEF OthersStand
<1>9. \A u \in Threads : Nested(stack'[u], pc[u] = "queue")
  BY <1>1, <1>5, <1>6, <1>7 DEF Shape
<1>10. stack'[t] # <<>> /\ Last(stack'[t]).fn = "ReceiveSends"
  BY <1>3, <1>5, <1>6, <1>7
<1>11. Shape'
  BY <1>1, <1>2, <1>7, <1>9 DEF Shape, TypeOK, loopVars, queues
<1>12. ~At(t, "Send", "wait")'
  BY <1>10 DEF At, In
<1>13. Safe'
  BY <1>1, <1>2, <1>4, <1>8, <1>10, <1>12, StepIsSafe DEF loopVars, queues
<1> QED BY <1>11, <1>13 DEF IInv, Shape

LEMMA AnswerWakesKeeps ==
  ASSUME IInv, NEW t \in Threads, AnswerWakes(t)
  PROVE  IInv'
<1> DEFINE f == Last(stack[t])
<1>1. Shape /\ Stacks /\ Safe /\ Nested(stack[t], pc[t] = "queue")
  BY DEF IInv, Shape, Stacks, TypeOK
<1>2. /\ stack[t] # <<>> /\ f.fn = "ReceiveSends" /\ f.at = "wake"
      /\ wakeup' = [u \in Threads |-> wakeup[u] \/ \E s \in f.smsg : s.thread = u]
      /\ stack' = Top(t, Serving)
      /\ UNCHANGED <<use, events, pc, timed, fWait, fStop, queues>>
  BY DEF AnswerWakes, At, In
<1>3. Serving \in Frame /\ Serving.fn = "ReceiveSends"
  BY DEF Serving, Frame
<1>4. \A v \in Threads : ~Wakes(t, v)
  BY <1>2 DEF Wakes, At, In
<1>5. /\ stack' \in [Threads -> Seq(Frame)]
      /\ \A u \in Threads \ {t} : stack'[u] = stack[u]
      /\ stack'[t] # <<>> /\ Last(stack'[t]) = Serving
      /\ Nested(stack'[t], pc[t] = "queue")
  BY <1>1, <1>2, <1>3, Topped
<1>6. /\ wakeup' \in [Threads -> BOOLEAN]
      /\ \A v \in Threads : wakeup[v] => wakeup'[v]
  <2>1. \A v \in Threads : wakeup[v] \in BOOLEAN
    BY <1>1 DEF Shape, TypeOK
  <2> HIDE DEF f
  <2> QED BY <1>2, <2>1, Zenon
<1>7. Shape'
  BY <1>1, <1>2, <1>5, <1>6, StackStep DEF Shape, TypeOK
<1>8. ~At(t, "Send", "wait")'
  BY <1>3, <1>5 DEF At, In
<1>9. Safe'
  BY <1>1, <1>2, <1>4, <1>5, <1>6, <1>8, Alike, StepIsSafe DEF queues
<1> QED BY <1>7, <1>9 DEF IInv, Shape

-----------------------------------------------------------------------------
(* Clear.                                                                  *)
LEMMA Removed ==
  ASSUME NEW S, NEW q \in Seq(S), NEW i \in DOMAIN q
  PROVE  RemoveAt(q, i) \in Seq(S) /\ q # <<>> /\ q[i] \in S
<1>1. i \in 1 .. Len(q) /\ Len(q) \in Nat
  OBVIOUS
<1>2. SubSeq(q, 1, i - 1) \in Seq(S)
  BY <1>1, Prefix
<1>3. SubSeq(q, i + 1, Len(q)) \in Seq(S)
  <2>1. \A k \in i + 1 .. Len(q) : q[k] \in S
    BY <1>1
  <2> QED BY <1>1, <2>1
<1>4. q # <<>> /\ q[i] \in S
  BY <1>1
<1> QED BY <1>2, <1>3, <1>4 DEF RemoveAt

LEMMA ClearSentKeeps ==
  ASSUME IInv, NEW t \in Threads, ClearSent(t)
  PROVE  IInv'
<1>1. Shape /\ Stacks /\ Safe
  BY DEF IInv, Shape, Stacks, TypeOK
<1>2. stack[t] # <<>> /\ Last(stack[t]).fn = "Clear"
  BY DEF ClearSent, In
<1>3. PICK u : u = Last(stack[t]).to
  OBVIOUS
<1>4. u \in Threads
  BY <1>1, <1>2, <1>3, FrameTypes
<1>5. PICK i \in DOMAIN sendlist[u] :
        /\ sendlist' = [sendlist EXCEPT ![u] = RemoveAt(@, i)]
        /\ stack' = Ready(stack, {sendlist[u][i]})
        /\ wakeup' = [wakeup EXCEPT ![sendlist[u][i].thread] = TRUE]
        /\ UNCHANGED <<use, events, pc, timed, fWait, fStop, msgq, dmsgq, has_sends>>
  BY <1>3 DEF ClearSent
<1>6. /\ RemoveAt(sendlist[u], i) \in Seq(SendMessage) /\ sendlist[u] # <<>>
      /\ sendlist[u][i] \in SendMessage
  BY <1>1, <1>4, Removed DEF Shape, TypeOK
<1>7. PICK s \in SendMessage : s = sendlist[u][i]
  BY <1>6
<1>8. s.thread \in Threads
  BY DEF SendMessage
<1>9. /\ stack' \in [Threads -> Seq(Frame)]
      /\ \A v \in Threads :
           /\ (stack'[v] = <<>>) = (stack[v] = <<>>)
           /\ stack[v] # <<>> =>
                /\ Last(stack'[v]).fn = Last(stack[v]).fn
                /\ Last(stack'[v]).at = Last(stack[v]).at
                /\ Last(stack'[v]).to = Last(stack[v]).to
           /\ \A c \in BOOLEAN : Nested(stack[v], c) => Nested(stack'[v], c)
  BY <1>1, <1>5, Told DEF Stacks
<1>10. wakeup' = [wakeup EXCEPT ![s.thread] = TRUE]
  BY <1>5, <1>7
<1>11. /\ wakeup' \in [Threads -> BOOLEAN]
       /\ \A v \in Threads : wakeup[v] => wakeup'[v]
  BY <1>1, <1>8, <1>10 DEF Shape, TypeOK
<1>12. /\ sendlist' \in [Threads -> Seq(SendMessage)]
       /\ \A v \in Threads : sendlist'[v] # <<>> => sendlist[v] # <<>>
  BY <1>1, <1>4, <1>5, <1>6 DEF Shape, TypeOK
<1>13. \A v \in Threads : Nested(stack'[v], pc[v] = "queue")
  BY <1>1, <1>9 DEF Shape
<1>14. Shape'
  BY <1>1, <1>5, <1>9, <1>11, <1>12, <1>13 DEF Shape, TypeOK
<1>15. stack'[t] # <<>> /\ Last(stack'[t]).fn = "Clear"
  BY <1>2, <1>9
<1>16. OthersStand(t)
  BY <1>9 DEF OthersStand
<1>17. ~At(t, "Send", "wait")' /\ \A v \in Threads : ~Wakes(t, v)
  BY <1>2, <1>15 DEF Wakes, At, In
<1>18. Safe'
  BY <1>1, <1>5, <1>11, <1>12, <1>15, <1>16, <1>17, StepIsSafe
<1> QED BY <1>14, <1>18 DEF IInv, Shape

LEMMA ClearPostedKeeps ==
  ASSUME IInv, NEW t \in Threads, ClearPosted(t)
  PROVE  IInv'
<1>1. Shape /\ Stacks /\ Safe
  BY DEF IInv, Shape, Stacks, TypeOK
<1>2. stack[t] # <<>> /\ Last(stack[t]).fn = "Clear"
      /\ UNCHANGED <<use, events, loopVars, stack, fStop, sendlist, has_sends>>
  BY DEF ClearPosted, In
<1>3. PICK u : u = Last(stack[t]).to
  OBVIOUS
<1>4. u \in Threads
  BY <1>1, <1>2, <1>3, FrameTypes
<1>5. \/ /\ \E i \in DOMAIN msgq[u] : msgq' = [msgq EXCEPT ![u] = RemoveAt(msgq[u], i)]
         /\ dmsgq' = dmsgq
      \/ /\ \E i \in DOMAIN dmsgq[u] : dmsgq' = [dmsgq EXCEPT ![u] = RemoveAt(dmsgq[u], i)]
         /\ msgq' = msgq
  BY <1>3 DEF ClearPosted
<1>6. ASSUME NEW q, q \in [Threads -> Seq(Messages)], NEW i \in DOMAIN q[u], NEW r,
             r = [q EXCEPT ![u] = RemoveAt(q[u], i)]
      PROVE  /\ r \in [Threads -> Seq(Messages)]
             /\ \A v \in Threads : r[v] # <<>> => q[v] # <<>>
  <2>1. RemoveAt(q[u], i) \in Seq(Messages) /\ q[u] # <<>>
    BY <1>4, <1>6, Removed
  <2> QED BY <1>4, <1>6, <2>1
<1>7. msgq \in [Threads -> Seq(Messages)] /\ dmsgq \in [Threads -> Seq(Messages)]
  BY <1>1 DEF Shape, TypeOK
<1>8. /\ msgq' \in [Threads -> Seq(Messages)] /\ dmsgq' \in [Threads -> Seq(Messages)]
      /\ \A v \in Threads : msgq'[v] # <<>> => msgq[v] # <<>>
      /\ \A v \in Threads : dmsgq'[v] # <<>> => dmsgq[v] # <<>>
  <2>1. CASE dmsgq' = dmsgq /\ \E i \in DOMAIN msgq[u] :
               msgq' = [msgq EXCEPT ![u] = RemoveAt(msgq[u], i)]
    BY <1>6, <1>7, <2>1
  <2>2. CASE msgq' = msgq /\ \E i \in DOMAIN dmsgq[u] :
               dmsgq' = [dmsgq EXCEPT ![u] = RemoveAt(dmsgq[u], i)]
    BY <1>6, <1>7, <2>2
  <2> QED BY <1>5, <2>1, <2>2
<1>9. Shape'
  BY <1>1, <1>2, <1>8 DEF Shape, TypeOK, loopVars
<1>10. OthersStand(t) /\ \A v \in Threads : ~Wakes(t, v)
  BY <1>2 DEF OthersStand, Wakes, At, In
<1>11. ~At(t, "Send", "wait")'
  BY <1>2 DEF At, In
<1>12. Safe'
  BY <1>1, <1>2, <1>8, <1>10, <1>11, StepIsSafe DEF loopVars
<1> QED BY <1>9, <1>12 DEF IInv, Shape

LEMMA ClearReturnsKeeps ==
  ASSUME IInv, NEW t \in Threads, ClearReturns(t)
  PROVE  IInv'
<1>1. Shape /\ Stacks /\ Safe /\ Nested(stack[t], pc[t] = "queue")
  BY DEF IInv, Shape, Stacks, TypeOK
<1>2. stack[t] # <<>> /\ Last(stack[t]).fn = "Clear" /\ stack' = Return(t)
      /\ UNCHANGED <<use, events, loopVars, fStop, queues>>
  BY DEF ClearReturns, In
<1>3. /\ stack' \in [Threads -> Seq(Frame)]
      /\ \A u \in Threads \ {t} : stack'[u] = stack[u]
      /\ Nested(stack'[t], pc[t] = "queue")
      /\ stack'[t] # <<>> => Last(stack'[t]).fn # "Send"
      /\ pc[t] = "queue" => stack'[t] # <<>>
  BY <1>1, <1>2, Returned
<1>4. Shape'
  BY <1>1, <1>2, <1>3, StackStep DEF Shape, TypeOK, loopVars
<1>5. ~At(t, "Send", "wait")' /\ \A v \in Threads : ~Wakes(t, v)
  BY <1>2, <1>3 DEF Wakes, At, In
<1>6. Safe'
  BY <1>1, <1>2, <1>3, <1>5, Alike, StepIsSafe DEF loopVars, queues
<1> QED BY <1>4, <1>6 DEF IInv, Shape

LEMMA JoinedKeeps ==
  ASSUME IInv, NEW t \in Threads, Joined(t)
  PROVE  IInv'
<1> DEFINE u == Last(stack[t]).to
           g == Clearing(u, Messages)
<1>1. Shape /\ Stacks /\ Safe /\ Nested(stack[t], pc[t] = "queue")
  BY DEF IInv, Shape, Stacks, TypeOK
<1>2. stack[t] # <<>> /\ Last(stack[t]).fn = "Stop" /\ Last(stack[t]).at = "join"
      /\ stack' = Top(t, g) /\ UNCHANGED <<use, events, loopVars, fStop, queues>>
  BY DEF Joined, At, In
<1>3. g \in Frame /\ g.fn = "Clear"
  <2>1. u \in Threads
    BY <1>1, <1>2, FrameTypes
  <2> HIDE DEF u
  <2> QED BY <2>1 DEF Clearing, Frame
<1> HIDE DEF g
<1>4. /\ stack' \in [Threads -> Seq(Frame)]
      /\ \A v \in Threads \ {t} : stack'[v] = stack[v]
      /\ stack'[t] # <<>> /\ Last(stack'[t]) = g
      /\ Nested(stack'[t], pc[t] = "queue")
  BY <1>1, <1>2, <1>3, Topped
<1>5. Shape'
  BY <1>1, <1>2, <1>4, StackStep DEF Shape, TypeOK, loopVars
<1>6. ~At(t, "Send", "wait")' /\ \A v \in Threads : ~Wakes(t, v)
  BY <1>2, <1>3, <1>4 DEF Wakes, At, In
<1>7. Safe'
  BY <1>1, <1>2, <1>4, <1>6, Alike, StepIsSafe DEF loopVars, queues
<1> QED BY <1>5, <1>7 DEF IInv, Shape

-----------------------------------------------------------------------------
(* The loop, and the waits.                                                *)
LEMMA OwnStepIsSafe ==
  ASSUME Safe, NEW t \in Threads, \A v \in Threads : ~Wakes(t, v),
         \A u \in Threads \ {t} :
           /\ stack'[u] = stack[u] /\ pc'[u] = pc[u] /\ fWait'[u] = fWait[u]
           /\ timed'[u] = timed[u] /\ wakeup'[u] = wakeup[u]
           /\ sendlist'[u] = sendlist[u] /\ msgq'[u] = msgq[u] /\ dmsgq'[u] = dmsgq[u],
         Overlooked(t)' => Overlooked(t) /\ wakeup'[t] = wakeup[t]
  PROVE  Safe'
<1>1. ASSUME NEW u \in Threads, NEW v \in Threads, Wakes(u, v)
      PROVE  Wakes(u, v)'
  <2>1. u # t
    BY <1>1
  <2> QED BY <1>1, <2>1 DEF Wakes, At, In
<1>2. ASSUME NEW v \in Threads, Overlooked(v)'
      PROVE  Overlooked(v) /\ wakeup'[v] = wakeup[v]
  <2>1. CASE v = t
    BY <1>2, <2>1
  <2>2. CASE v # t
    BY <1>2, <2>2 DEF Overlooked, At, In
  <2> QED BY <2>1, <2>2
<1>3. \A v \in Threads : wakeup[v] /\ Overlooked(v)' => WillWake(v)'
  BY <1>2 DEF WillWake
<1> QED BY <1>1, <1>2, <1>3, StaysSafe

LEMMA GetKeeps ==
  ASSUME IInv, NEW t \in Threads, Get(t)
  PROVE  IInv'
<1>1. Shape /\ Stacks /\ Safe
  BY DEF IInv, Shape, Stacks, TypeOK
<1>2. /\ pc[t] = "get" /\ stack[t] = <<>>
      /\ pc' = [pc EXCEPT ![t] = IF fStop[t] THEN "ended" ELSE "queue"]
      /\ stack' = IF ~fStop[t] /\ has_sends[t] THEN Push(t, Serving) ELSE stack
      /\ UNCHANGED <<use, events, timed, fWait, wakeup, fStop, queues>>
  BY DEF Get
<1>3. Serving \in Frame /\ Serving.fn = "ReceiveSends"
  BY DEF Serving, Frame
<1>4. \A b \in BOOLEAN : Nested(stack[t], b)
  <2>1. Len(stack[t]) = 0
    BY <1>2
  <2> QED BY <1>2, <2>1 DEF Nested
<1>5. pc' \in [Threads -> {"get", "queue", "wait", "ended"}]
      /\ \A u \in Threads \ {t} : pc'[u] = pc[u]
  BY <1>1, <1>2 DEF Shape, TypeOK
<1>6. CASE stack' = Push(t, Serving)
  <2>1. /\ stack' \in [Threads -> Seq(Frame)]
        /\ \A u \in Threads \ {t} : stack'[u] = stack[u]
        /\ stack'[t] # <<>> /\ Last(stack'[t]) = Serving
    BY <1>1, <1>2, <1>3, <1>4, <1>6, Pushed
  <2>2. Nested(stack'[t], TRUE) /\ Nested(stack'[t], FALSE)
    BY <1>1, <1>2, <1>3, <1>4, <1>6, Pushed
  <2>3. Shape'
    BY <1>1, <1>2, <1>5, <2>1, <2>2 DEF Shape, TypeOK, queues
  <2>4. ~Overlooked(t)'
    <3>1. pc'[t] # "wait"
      BY <1>1, <1>2 DEF Shape, TypeOK
    <3> QED BY <1>3, <2>1, <3>1 DEF Overlooked, At, In
  <2>5. Safe'
    BY <1>1, <1>2, <1>5, <2>1, <2>4, OwnStepIsSafe DEF queues, Wakes, At, In
  <2> QED BY <2>3, <2>5 DEF IInv, Shape
<1>7. CASE stack' = stack /\ (fStop[t] \/ ~has_sends[t])
  <2>1. Shape'
    BY <1>1, <1>2, <1>4, <1>5, <1>7 DEF Shape, TypeOK, queues
  <2>2. ~Overlooked(t)'
    <3>1. pc'[t] # "wait" /\ (fStop[t] => pc'[t] # "queue")
      BY <1>1, <1>2 DEF Shape, TypeOK
    <3>2. ~has_sends[t] => sendlist'[t] = <<>>
      BY <1>1, <1>2 DEF Shape, queues
    <3> QED BY <1>2, <1>7, <3>1, <3>2 DEF Overlooked, At, In
  <2>3. Safe'
    BY <1>1, <1>2, <1>5, <1>7, <2>2, OwnStepIsSafe DEF queues, Wakes, At, In
  <2> QED BY <2>1, <2>3 DEF IInv, Shape
<1> QED BY <1>2, <1>6, <1>7

(* The posted messages with the delayed ones behind them.                  *)
LEMMA DueSplit ==
  ASSUME NEW p \in Seq(Messages), NEW d \in Seq(Messages), NEW n \in 0 .. Len(d)
  PROVE  LET q == p \o SubSeq(d, 1, n)
         IN  /\ q \in Seq(Messages) /\ SubSeq(d, n + 1, Len(d)) \in Seq(Messages)
             /\ q # <<>> => Head(q) \in Messages /\ Tail(q) \in Seq(Messages)
             /\ q = <<>> => p = <<>>
<1> DEFINE a == SubSeq(d, 1, n)
           q == p \o a
<1>1. n \in Nat /\ n <= Len(d) /\ Len(d) \in Nat
  OBVIOUS
<1>2. a \in Seq(Messages)
  BY <1>1, Prefix
<1>3. SubSeq(d, n + 1, Len(d)) \in Seq(Messages)
  <2>1. \A k \in n + 1 .. Len(d) : d[k] \in Messages
    BY <1>1
  <2> QED BY <1>1, <2>1
<1> HIDE DEF a
<1>4. q \in Seq(Messages) /\ Len(q) = Len(p) + Len(a)
  BY <1>2
<1>5. q = <<>> => p = <<>>
  <2>1. ASSUME q = <<>> PROVE Len(p) = 0
    <3>1. Len(q) = 0 /\ Len(p) \in Nat /\ Len(a) \in Nat
      BY <1>2, <2>1
    <3> QED BY <1>4, <3>1
  <2> QED BY <2>1, EmptySeq
<1> HIDE DEF q
<1>6. q # <<>> => Head(q) \in Messages /\ Tail(q) \in Seq(Messages)
  BY <1>4
<1> QED BY <1>3, <1>4, <1>5, <1>6 DEF q, a

LEMMA GetPostedKeeps ==
  ASSUME IInv, NEW t \in Threads, GetPosted(t)
  PROVE  IInv'
<1>1. Shape /\ Stacks /\ Safe
  BY DEF IInv, Shape, Stacks, TypeOK
<1>2. /\ pc[t] = "queue" /\ stack[t] = <<>>
      /\ UNCHANGED <<use, events, wakeup, fStop, sendlist, has_sends>>
  BY DEF GetPosted
<1> DEFINE late(n) == msgq[t] \o SubSeq(dmsgq[t], 1, n)
           left(n) == SubSeq(dmsgq[t], n + 1, Len(dmsgq[t]))
           step(q, d) ==
             /\ dmsgq' = [dmsgq EXCEPT ![t] = d]
             /\ IF q # <<>>
                THEN /\ msgq' = [msgq EXCEPT ![t] = Tail(q)]
                     /\ pc' = [pc EXCEPT ![t] = "get"]
                     /\ stack' = Push(t, OnMessage(Does[Head(q)]))
                     /\ UNCHANGED <<timed, fWait>>
                ELSE /\ pc' = [pc EXCEPT ![t] = "wait"]
                     /\ timed' = [timed EXCEPT ![t] = d # <<>>]
                     /\ fWait' = [fWait EXCEPT ![t] = TRUE]
                     /\ UNCHANGED <<msgq, stack>>
<1>10. PICK n \in 0 .. Len(dmsgq[t]) : step(late(n), left(n))
  BY Zenon DEF GetPosted
<1> HIDE DEF step
<1>11. PICK q : q = late(n)
  OBVIOUS
<1>12. PICK d : d = left(n)
  OBVIOUS
<1>3. /\ dmsgq' = [dmsgq EXCEPT ![t] = d]
      /\ IF q # <<>>
         THEN /\ msgq' = [msgq EXCEPT ![t] = Tail(q)]
              /\ pc' = [pc EXCEPT ![t] = "get"]
              /\ stack' = Push(t, OnMessage(Does[Head(q)]))
              /\ UNCHANGED <<timed, fWait>>
         ELSE /\ pc' = [pc EXCEPT ![t] = "wait"]
              /\ timed' = [timed EXCEPT ![t] = d # <<>>]
              /\ fWait' = [fWait EXCEPT ![t] = TRUE]
              /\ UNCHANGED <<msgq, stack>>
  BY <1>10, <1>11, <1>12, Zenon DEF step
<1>4. /\ q \in Seq(Messages) /\ d \in Seq(Messages)
      /\ q # <<>> => Head(q) \in Messages /\ Tail(q) \in Seq(Messages)
      /\ q = <<>> => msgq[t] = <<>>
  BY <1>1, <1>11, <1>12, DueSplit DEF Shape, TypeOK
<1>5. /\ dmsgq' \in [Threads -> Seq(Messages)] /\ dmsgq'[t] = d
      /\ \A u \in Threads \ {t} : dmsgq'[u] = dmsgq[u]
  BY <1>1, <1>3, <1>4 DEF Shape, TypeOK
<1>6. Nested(stack[t], FALSE)
  BY <1>2 DEF Nested
<1>7. \A v \in Threads : ~Wakes(t, v)
  BY <1>2 DEF Wakes, At, In
<1>8. CASE q # <<>>
  <2> DEFINE h == OnMessage(Does[Head(q)])
  <2>1. h \in Frame /\ h.fn = "OnMessage"
    BY <1>4, <1>8, NewFrames DEF OnMessage
  <2>2. /\ msgq' = [msgq EXCEPT ![t] = Tail(q)] /\ pc' = [pc EXCEPT ![t] = "get"]
        /\ stack' = Push(t, h) /\ UNCHANGED <<timed, fWait>>
    BY <1>3, <1>8
  <2> HIDE DEF h
  <2>3. /\ stack' \in [Threads -> Seq(Frame)]
        /\ \A u \in Threads \ {t} : stack'[u] = stack[u]
        /\ stack'[t] # <<>> /\ Last(stack'[t]) = h /\ Nested(stack'[t], FALSE)
    BY <1>1, <1>2, <1>6, <2>1, <2>2, Pushed
  <2>4. /\ msgq' \in [Threads -> Seq(Messages)]
        /\ \A u \in Threads \ {t} : msgq'[u] = msgq[u]
    BY <1>1, <1>4, <1>8, <2>2 DEF Shape, TypeOK
  <2>5. /\ pc' \in [Threads -> {"get", "queue", "wait", "ended"}] /\ pc'[t] = "get"
        /\ \A u \in Threads \ {t} : pc'[u] = pc[u]
    BY <1>1, <2>2 DEF Shape, TypeOK
  <2>6. Shape'
    BY <1>1, <1>2, <1>5, <2>2, <2>3, <2>4, <2>5 DEF Shape, TypeOK
  <2>7. ~Overlooked(t)'
    BY <2>1, <2>3, <2>5 DEF Overlooked, At, In
  <2>8. Safe'
    BY <1>1, <1>2, <1>5, <1>7, <2>2, <2>3, <2>4, <2>5, <2>7, OwnStepIsSafe
  <2> QED BY <2>6, <2>8 DEF IInv, Shape
<1>9. CASE q = <<>>
  <2>1. /\ pc' = [pc EXCEPT ![t] = "wait"] /\ timed' = [timed EXCEPT ![t] = d # <<>>]
        /\ fWait' = [fWait EXCEPT ![t] = TRUE] /\ msgq' = msgq /\ stack' = stack
    BY <1>3, <1>9
  <2>2. /\ pc' \in [Threads -> {"get", "queue", "wait", "ended"}] /\ pc'[t] = "wait"
        /\ timed' \in [Threads -> BOOLEAN] /\ timed'[t] = (d # <<>>)
        /\ fWait' \in [Threads -> BOOLEAN]
        /\ \A u \in Threads \ {t} :
             pc'[u] = pc[u] /\ timed'[u] = timed[u] /\ fWait'[u] = fWait[u]
    BY <1>1, <2>1 DEF Shape, TypeOK
  <2>3. Shape'
    BY <1>1, <1>2, <1>5, <1>6, <2>1, <2>2 DEF Shape, TypeOK
  <2>4. Overlooked(t)' => Overlooked(t)
    BY <1>2, <1>4, <1>5, <1>9, <2>1, <2>2 DEF Overlooked, At, In
  <2>5. Safe'
    BY <1>1, <1>2, <1>5, <1>7, <2>1, <2>2, <2>4, OwnStepIsSafe
  <2> QED BY <2>3, <2>5 DEF IInv, Shape
<1> QED BY <1>8, <1>9

LEMMA WaitEnds ==
  ASSUME IInv, NEW t \in Threads, Woken(t) \/ Due(t)
  PROVE  IInv'
<1>1. Shape /\ Stacks /\ Safe
  BY DEF IInv, Shape, Stacks, TypeOK
<1>2. /\ pc[t] = "wait" /\ stack[t] = <<>> /\ pc' = [pc EXCEPT ![t] = "get"]
      /\ UNCHANGED <<use, events, timed, stack, fStop, queues>>
      /\ wakeup' \in [Threads -> BOOLEAN] /\ fWait' \in [Threads -> BOOLEAN]
      /\ \A u \in Threads \ {t} : wakeup'[u] = wakeup[u] /\ fWait'[u] = fWait[u]
  BY <1>1 DEF Woken, Due, Waits, Shape, TypeOK
<1>3. /\ pc' \in [Threads -> {"get", "queue", "wait", "ended"}] /\ pc'[t] = "get"
      /\ \A u \in Threads \ {t} : pc'[u] = pc[u]
  BY <1>1, <1>2 DEF Shape, TypeOK
<1>4. \A b \in BOOLEAN : Nested(stack[t], b) <=> Nested(<<>>, b)
  BY <1>2
<1>5. Nested(stack[t], FALSE)
  BY <1>1, <1>2 DEF Nested
<1>6. Shape'
  BY <1>1, <1>2, <1>3, <1>5 DEF Shape, TypeOK, queues
<1>7. ~Overlooked(t)'
  BY <1>2, <1>3 DEF Overlooked, At, In
<1>8. Safe'
  BY <1>1, <1>2, <1>3, <1>7, OwnStepIsSafe DEF queues, Wakes, At, In
<1> QED BY <1>6, <1>8 DEF IInv, Shape

LEMMA OnEventKeeps ==
  ASSUME IInv, NEW t \in Threads, OnEvent(t)
  PROVE  IInv'
<1> DEFINE q == events[t]
           h == OnMessage(Head(q))
<1>1. Shape /\ Stacks /\ Safe
  BY DEF IInv, Shape, Stacks, TypeOK
<1>2. /\ pc[t] = "wait" /\ stack[t] = <<>> /\ q # <<>> /\ stack' = Push(t, h)
      /\ events' = [events EXCEPT ![t] = Tail(q)] /\ UNCHANGED <<use, loopVars, fStop, queues>>
  BY DEF OnEvent, Waits
<1>3. q \in Seq(Seq(Ops))
  BY <1>1 DEF Shape, TypeOK
<1>4. Head(q) \in Seq(Ops) /\ Tail(q) \in Seq(Seq(Ops))
  BY <1>2, <1>3
<1>5. events' \in [Threads -> Seq(Seq(Ops))]
  BY <1>1, <1>2, <1>4 DEF Shape, TypeOK
<1>6. h \in Frame /\ h.fn = "OnMessage"
  <2> HIDE DEF q
  <2> QED BY <1>4 DEF OnMessage, Frame
<1> HIDE DEF h
<1>7. Nested(stack[t], FALSE)
  BY <1>2 DEF Nested
<1>8. /\ stack' \in [Threads -> Seq(Frame)]
      /\ \A u \in Threads \ {t} : stack'[u] = stack[u]
      /\ stack'[t] # <<>> /\ Last(stack'[t]) = h /\ Nested(stack'[t], FALSE)
  BY <1>1, <1>2, <1>6, <1>7, Pushed
<1>9. Shape'
  BY <1>1, <1>2, <1>5, <1>8, StackStep DEF Shape, TypeOK, loopVars
<1>10. ~At(t, "Send", "wait")' /\ \A v \in Threads : ~Wakes(t, v)
  BY <1>2, <1>6, <1>8 DEF Wakes, At, In
<1>11. Safe'
  BY <1>1, <1>2, <1>8, <1>10, Alike, StepIsSafe DEF loopVars, queues
<1> QED BY <1>9, <1>11 DEF IInv, Shape

(* A wait of Send that is woken tells the wait below it.                   *)
LEMMA SendWokenKeeps ==
  ASSUME IInv, NEW t \in Threads, SendWoken(t)
  PROVE  IInv'
<1> DEFINE f == Last(stack[t])
           g == [f EXCEPT !.at = "check"]
<1>1. Shape /\ Stacks /\ Safe /\ Nested(stack[t], pc[t] = "queue")
  BY DEF IInv, Shape, Stacks, TypeOK
<1>2. /\ stack[t] # <<>> /\ f.fn = "Send" /\ f.at = "wait" /\ stack' = Top(t, g)
      /\ wakeup' = [wakeup EXCEPT ![t] = FALSE] /\ fWait' = [fWait EXCEPT ![t] = FALSE]
      /\ UNCHANGED <<use, events, pc, timed, fStop, queues>>
  BY DEF SendWoken, At, In
<1>3. g \in Frame /\ g.fn = "Send" /\ g.at = "check"
  BY <1>1, <1>2, FrameTypes
<1>4. \A v \in Threads : ~Wakes(t, v)
  BY <1>2 DEF Wakes, At, In
<1> HIDE DEF f, g
<1>5. /\ stack' \in [Threads -> Seq(Frame)]
      /\ \A u \in Threads \ {t} : stack'[u] = stack[u]
      /\ stack'[t] # <<>> /\ Last(stack'[t]) = g /\ Nested(stack'[t], pc[t] = "queue")
  BY <1>1, <1>2, <1>3, Topped DEF f
<1>6. /\ wakeup' \in [Threads -> BOOLEAN]
      /\ fWait' \in [Threads -> BOOLEAN] /\ ~fWait'[t]
      /\ \A u \in Threads \ {t} : wakeup'[u] = wakeup[u] /\ fWait'[u] = fWait[u]
  BY <1>1, <1>2 DEF Shape, TypeOK
<1>7. Shape'
  BY <1>1, <1>2, <1>5, <1>6 DEF Shape, TypeOK, queues
<1>8. ~Overlooked(t)'
  BY <1>3, <1>5, <1>6 DEF Overlooked, At, In
<1>9. Safe'
  BY <1>1, <1>2, <1>4, <1>5, <1>6, <1>8, OwnStepIsSafe DEF queues
<1> QED BY <1>7, <1>9 DEF IInv, Shape

-----------------------------------------------------------------------------
LEMMA InitIInv ==
  ASSUME Init
  PROVE  IInv
<1>1. events \in [Threads -> Seq(Seq(Ops))]
  BY ThreadsConstants DEF Init
<1>2. TypeOK
  BY <1>1 DEF Init, TypeOK
<1>3. \A t \in Threads : stack[t] = <<>> /\ pc[t] = "get" /\ sendlist[t] = <<>>
  BY DEF Init
<1>4. \A t \in Threads : Nested(stack[t], pc[t] = "queue")
  BY <1>3 DEF Nested
<1>5. Safe
  BY <1>3 DEF Safe, Overlooked, At, In
<1> QED BY <1>2, <1>3, <1>4, <1>5 DEF IInv

LEMMA Inductive ==
  ASSUME IInv, [Next]_vars
  PROVE  IInv'
<1>1. ASSUME NEW t \in Threads, Runs(t) \/ Due(t) \/ OnEvent(t)
      PROVE  IInv'
  BY <1>1, GetKeeps, GetPostedKeeps, WaitEnds, ReturnKeeps, PostKeeps, PostDelayedKeeps,
     CallsKeep, SendKeeps, WakesKeep, SendChecksKeeps, SendWokenKeeps, ReceiveNextKeeps,
     AnswerKeeps, AnswerWakesKeeps, ClearSentKeeps, ClearPostedKeeps, ClearReturnsKeeps,
     JoinedKeeps, OnEventKeeps DEF Runs
<1>2. CASE UNCHANGED vars
  <2>1. TypeOK'
    BY <1>2 DEF IInv, TypeOK, vars, loopVars, queues
  <2>2. (\A t \in Threads : sendlist[t] # <<>> => has_sends[t])'
        /\ (\A t \in Threads : Nested(stack[t], pc[t] = "queue"))'
    BY <1>2 DEF IInv, vars, loopVars, queues
  <2>3. Safe'
    BY <1>2 DEF IInv, Safe, Overlooked, WillWake, Wakes, At, In, vars, loopVars, queues
  <2> QED BY <2>1, <2>2, <2>3 DEF IInv
<1> QED BY <1>1, <1>2 DEF Next

LEMMA AlwaysIInv == Spec => []IInv
<1>1. Init => IInv
  BY InitIInv
<1>2. IInv /\ [Next]_vars => IInv'
  BY Inductive
<1> QED BY <1>1, <1>2, PTL DEF Spec

(* Every variable keeps its type: what stands on a thread's stack are the  *)
(* calls of Send, ReceiveSends, Stop, Clear and of handlers, and what its  *)
(* lists hold are messages (thread.cc, messagequeue.cc).                   *)
THEOREM TypeCorrect == Spec => []TypeOK
<1>1. IInv => TypeOK
  BY DEF IInv
<1> QED BY <1>1, AlwaysIInv, PTL

(* No thread sleeps on what it has to handle unless it is about to be      *)
(* woken: neither the reset of has_sends_ without the lock, nor a wait of  *)
(* Send inside a handler or a callback of a socket, which takes the        *)
(* wake-up of the loop below it, makes the loop overlook a message         *)
(* (thread.cc:203-217, messagequeue.cc:141-201, physicalsocketserver.cc).  *)
THEOREM NothingIsOverlooked == Spec => []NothingIsForgotten
<1>1. IInv => NothingIsForgotten
  <2> SUFFICES ASSUME IInv, NEW t \in Threads, Asleep(t),
                      \/ sendlist[t] # <<>>
                      \/ Waits(t) /\ (msgq[t] # <<>> \/ (dmsgq[t] # <<>> /\ ~timed[t]))
               PROVE  WillWake(t)
    BY DEF NothingIsForgotten, WillWake
  <2>1. CASE Waits(t) /\ fWait[t]
    BY <2>1 DEF IInv, Safe, Overlooked, Waits, At, In
  <2>2. CASE At(t, "Send", "wait")
    BY <2>2 DEF IInv, Safe, Overlooked, Waits, At, In
  <2> QED BY <2>1, <2>2 DEF Asleep
<1> QED BY <1>1, AlwaysIInv, PTL

-----------------------------------------------------------------------------
(* Senders and answers.  A frame of Send that is not ready wants an answer *)
(* of u; a message asks u for it, from a place of the sendlist of u or as  *)
(* what a frame of u answers.                                              *)
WantsOf(f, u) == f.fn = "Send" /\ ~f.ready /\ f.to = u
Holds(f, s)   == f.fn = "ReceiveSends" /\ f.at = "answer" /\ s \in f.smsg

Wants(stk, t, i, u) == i \in DOMAIN stk[t] /\ WantsOf(stk[t][i], u)

Asks(stk, sl, u, place, n, s) ==
  \/ place = "sendlist" /\ n \in DOMAIN sl[u] /\ s = sl[u][n]
  \/ place = "frame" /\ n \in DOMAIN stk[u] /\ Holds(stk[u][n], s)

(* Every message points to a sender that waits for it.                     *)
PointsToSender(stk, sl) ==
  \A u \in Threads : \A p, n, s :
    Asks(stk, sl, u, p, n, s) => s.thread \in Threads /\ Wants(stk, s.thread, s.frame, u)

(* Every sender that waits has a message.                                  *)
IsAsked(stk, sl) ==
  \A t, u \in Threads : \A i :
    Wants(stk, t, i, u) =>
      \E p, n, s : Asks(stk, sl, u, p, n, s) /\ s.thread = t /\ s.frame = i

(* No two messages are of one sender.                                      *)
AskedOnce(stk, sl) ==
  \A u \in Threads : \A p, n, s, q, m, r :
    /\ Asks(stk, sl, u, p, n, s) /\ Asks(stk, sl, u, q, m, r)
    /\ s.thread = r.thread /\ s.frame = r.frame
    => p = q /\ n = m

AnswersInv(stk, sl) ==
  PointsToSender(stk, sl) /\ IsAsked(stk, sl) /\ AskedOnce(stk, sl)

SInv == IInv /\ AnswersInv(stack, sendlist)

-----------------------------------------------------------------------------
(* Frames that play no part, and frames and stacks that play the same.     *)
Idle(f) == (\A u : ~WantsOf(f, u)) /\ (\A s : ~Holds(f, s))

SameRole(f, g) ==
  (\A u : WantsOf(f, u) <=> WantsOf(g, u)) /\ (\A s : Holds(f, s) <=> Holds(g, s))

SameRoles(a, z) ==
  \A i : /\ \A u : (i \in DOMAIN a /\ WantsOf(a[i], u)) <=> (i \in DOMAIN z /\ WantsOf(z[i], u))
         /\ \A s : (i \in DOMAIN a /\ Holds(a[i], s)) <=> (i \in DOMAIN z /\ Holds(z[i], s))

LEMMA RolesOfTop ==
  ASSUME NEW a \in Seq(Frame), a # <<>>, NEW f \in Frame, SameRole(Last(a), f)
  PROVE  SameRoles(a, Append(Front(a), f))
<1> DEFINE z == Append(Front(a), f)
<1>1. /\ z \in Seq(Frame) /\ Len(z) = Len(a) /\ Len(a) \in Nat \ {0}
      /\ z[Len(a)] = f /\ \A i \in 1 .. Len(a) - 1 : z[i] = a[i]
  BY Replaced
<1> HIDE DEF z
<1>2. DOMAIN z = 1 .. Len(a) /\ DOMAIN a = 1 .. Len(a)
  BY <1>1
<1>3. SameRole(a[Len(a)], z[Len(a)])
  BY <1>1 DEF Last
<1>4. \A i \in 1 .. Len(a) : SameRole(a[i], z[i])
  <2>1. \A i \in 1 .. Len(a) : i = Len(a) \/ i \in 1 .. Len(a) - 1
    BY <1>1
  <2>2. \A i \in 1 .. Len(a) - 1 : SameRole(a[i], z[i])
    BY <1>1 DEF SameRole
  <2> QED BY <1>3, <2>1, <2>2
<1> QED BY <1>2, <1>4, Zenon DEF SameRoles, SameRole, z

LEMMA RolesOfPush ==
  ASSUME NEW a \in Seq(Frame), NEW f \in Frame, Idle(f)
  PROVE  SameRoles(a, Append(a, f))
<1> DEFINE z == Append(a, f)
<1>1. /\ z \in Seq(Frame) /\ Len(z) = Len(a) + 1 /\ Len(a) \in Nat
      /\ z[Len(a) + 1] = f /\ \A i \in 1 .. Len(a) : z[i] = a[i]
  BY Grown
<1> HIDE DEF z
<1>2. DOMAIN z = 1 .. Len(a) + 1 /\ DOMAIN a = 1 .. Len(a)
  BY <1>1
<1>3. Idle(z[Len(a) + 1])
  BY <1>1
<1>4. \A i : i \in DOMAIN z => i \in DOMAIN a \/ i = Len(a) + 1
  BY <1>1, <1>2
<1>5. \A i : i \in DOMAIN a => i \in DOMAIN z /\ z[i] = a[i]
  BY <1>1, <1>2
<1> QED BY <1>3, <1>4, <1>5, Zenon DEF SameRoles, Idle, z

LEMMA RolesOfReturn ==
  ASSUME NEW a \in Seq(Frame), a # <<>>, Idle(Last(a))
  PROVE  SameRoles(a, Front(a))
<1> DEFINE z == Front(a)
<1>1. /\ z \in Seq(Frame) /\ Len(z) = Len(a) - 1 /\ Len(a) \in Nat \ {0}
      /\ \A i \in 1 .. Len(a) - 1 : z[i] = a[i]
  BY Shrunk
<1> HIDE DEF z
<1>2. DOMAIN z = 1 .. Len(a) - 1 /\ DOMAIN a = 1 .. Len(a)
  BY <1>1
<1>3. Idle(a[Len(a)])
  BY <1>1 DEF Last
<1>4. \A i : i \in DOMAIN a => i \in DOMAIN z \/ i = Len(a)
  BY <1>1, <1>2
<1>5. \A i : i \in DOMAIN z => i \in DOMAIN a /\ z[i] = a[i]
  BY <1>1, <1>2
<1> QED BY <1>3, <1>4, <1>5, Zenon DEF SameRoles, Idle, z

LEMMA RolesOfTopWith ==
  ASSUME NEW a \in Seq(Frame), a # <<>>, NEW f \in Frame, SameRole(Last(a), f),
         NEW g \in Frame, Idle(g)
  PROVE  SameRoles(a, Append(Append(Front(a), f), g))
<1> DEFINE y == Append(Front(a), f)
<1>1. SameRoles(a, y)
  BY RolesOfTop
<1>2. y \in Seq(Frame)
  BY Replaced
<1> HIDE DEF y
<1> DEFINE z == Append(y, g)
<1>3. SameRoles(y, z)
  BY <1>2, RolesOfPush
<1> HIDE DEF z
<1>4. SameRoles(a, z)
  BY <1>1, <1>3, Zenon DEF SameRoles
<1> QED BY <1>4 DEF y, z

(* Stacks that play the same roles keep the invariant.                     *)
LEMMA RolesKeep ==
  ASSUME NEW stk, NEW sl, AnswersInv(stk, sl), NEW z, \A u \in Threads : SameRoles(stk[u], z[u])
  PROVE  AnswersInv(z, sl)
<1>1. \A t \in Threads : \A i, u : Wants(stk, t, i, u) <=> Wants(z, t, i, u)
  BY Zenon DEF SameRoles, Wants
<1>2. \A u \in Threads : \A p, n, s : Asks(stk, sl, u, p, n, s) <=> Asks(z, sl, u, p, n, s)
  BY Zenon DEF SameRoles, Asks
<1>3. PointsToSender(z, sl)
  BY <1>1, <1>2, Zenon DEF AnswersInv, PointsToSender
<1>4. ASSUME NEW t \in Threads, NEW u \in Threads, NEW i, Wants(z, t, i, u)
      PROVE  \E p, n, s : Asks(z, sl, u, p, n, s) /\ s.thread = t /\ s.frame = i
  <2>1. Wants(stk, t, i, u)
    BY <1>1, <1>4
  <2>2. PICK p, n, s : Asks(stk, sl, u, p, n, s) /\ s.thread = t /\ s.frame = i
    <3>1. IsAsked(stk, sl)
      BY DEF AnswersInv
    <3> QED BY <2>1, <3>1 DEF IsAsked
  <2> QED BY <1>2, <2>2
<1>5. ASSUME NEW u \in Threads, NEW p, NEW n, NEW s, NEW q, NEW m, NEW r,
             Asks(z, sl, u, p, n, s), Asks(z, sl, u, q, m, r),
             s.thread = r.thread, s.frame = r.frame
      PROVE  p = q /\ n = m
  <2>1. Asks(stk, sl, u, p, n, s) /\ Asks(stk, sl, u, q, m, r)
    BY <1>2, <1>5
  <2> QED BY <1>5, <2>1, Zenon DEF AnswersInv, AskedOnce
<1>6. IsAsked(z, sl)
  BY <1>4, Zenon DEF IsAsked
<1>7. AskedOnce(z, sl)
  BY <1>5, Zenon DEF AskedOnce
<1> QED BY <1>3, <1>6, <1>7 DEF AnswersInv

(* A step of t in which its frames keep their roles.                       *)
LEMMA QuietStep ==
  ASSUME SInv, NEW t \in Threads, NEW z, stack' = [stack EXCEPT ![t] = z],
         SameRoles(stack[t], z), sendlist' = sendlist
  PROVE  AnswersInv(stack', sendlist')
<1>1. stack \in [Threads -> Seq(Frame)]
  BY DEF SInv, IInv, TypeOK
<1>2. \A u \in Threads : SameRoles(stack[u], stack'[u])
  <2>1. \A a : SameRoles(a, a)
    BY DEF SameRoles
  <2>2. \A u \in Threads : (u = t /\ stack'[u] = z) \/ stack'[u] = stack[u]
    BY <1>1
  <2> QED BY <2>1, <2>2
<1>3. AnswersInv(stack, sendlist)
  BY DEF SInv
<1>4. AnswersInv(stack', sendlist)
  BY <1>2, <1>3, RolesKeep
<1> QED BY <1>4

LEMMA QuietTop ==
  ASSUME SInv, NEW t \in Threads, stack[t] # <<>>, NEW f \in Frame,
         SameRole(Last(stack[t]), f), stack' = Top(t, f), sendlist' = sendlist
  PROVE  AnswersInv(stack', sendlist')
<1>1. stack[t] \in Seq(Frame)
  BY DEF SInv, IInv, TypeOK
<1>2. SameRoles(stack[t], Append(Front(stack[t]), f))
  BY <1>1, RolesOfTop
<1>3. stack' = [stack EXCEPT ![t] = Append(Front(stack[t]), f)]
  BY DEF Top
<1> QED BY <1>2, <1>3, QuietStep

LEMMA QuietPush ==
  ASSUME SInv, NEW t \in Threads, NEW f \in Frame, Idle(f),
         stack' = Push(t, f), sendlist' = sendlist
  PROVE  AnswersInv(stack', sendlist')
<1>1. stack[t] \in Seq(Frame)
  BY DEF SInv, IInv, TypeOK
<1>2. SameRoles(stack[t], Append(stack[t], f))
  BY <1>1, RolesOfPush
<1>3. stack' = [stack EXCEPT ![t] = Append(stack[t], f)]
  BY DEF Push
<1> QED BY <1>2, <1>3, QuietStep

LEMMA QuietTopWith ==
  ASSUME SInv, NEW t \in Threads, stack[t] # <<>>, NEW f \in Frame,
         SameRole(Last(stack[t]), f), NEW g \in Frame, Idle(g),
         stack' = TopWith(t, f, g), sendlist' = sendlist
  PROVE  AnswersInv(stack', sendlist')
<1>1. stack[t] \in Seq(Frame)
  BY DEF SInv, IInv, TypeOK
<1>2. SameRoles(stack[t], Append(Append(Front(stack[t]), f), g))
  BY <1>1, RolesOfTopWith
<1>3. stack' = [stack EXCEPT ![t] = Append(Append(Front(stack[t]), f), g)]
  BY DEF TopWith
<1> QED BY <1>2, <1>3, QuietStep

LEMMA QuietReturn ==
  ASSUME SInv, NEW t \in Threads, stack[t] # <<>>, Idle(Last(stack[t])),
         stack' = Return(t), sendlist' = sendlist
  PROVE  AnswersInv(stack', sendlist')
<1>1. stack[t] \in Seq(Frame)
  BY DEF SInv, IInv, TypeOK
<1>2. SameRoles(stack[t], Front(stack[t]))
  BY <1>1, RolesOfReturn
<1>3. stack' = [stack EXCEPT ![t] = Front(stack[t])]
  BY DEF Return
<1> QED BY <1>2, <1>3, QuietStep

(* The calls that neither wait for an answer nor owe one.                  *)
LEMMA IdleFrames ==
  /\ \A f : f.fn \notin {"Send", "ReceiveSends"} => Idle(f)
  /\ \A f : f.fn = "Send" /\ f.ready => Idle(f)
  /\ \A f : f.fn = "ReceiveSends" /\ f.at # "answer" => Idle(f)
  /\ \A f, g : Idle(f) /\ Idle(g) => SameRole(f, g)
  /\ \A todo : OnMessage(todo).fn = "OnMessage"
  /\ \A u : Stopping(u).fn = "Stop" /\ \A ms : Clearing(u, ms).fn = "Clear"
  /\ Serving.fn = "ReceiveSends" /\ Serving.at = "next"
BY DEF Idle, SameRole, WantsOf, Holds, OnMessage, Stopping, Clearing, Serving

LEMMA SameAnswers ==
  ASSUME SInv, stack' = stack, sendlist' = sendlist
  PROVE  AnswersInv(stack', sendlist')
BY DEF SInv

(* The loop, and what its sockets report.                                  *)
LEMMA LoopAnswers ==
  ASSUME SInv, NEW t \in Threads,
         Get(t) \/ GetPosted(t) \/ Woken(t) \/ Due(t) \/ OnEvent(t) \/ ClearPosted(t)
  PROVE  AnswersInv(stack', sendlist')
<1>1. Stacks /\ Shape
  BY DEF SInv, IInv, Stacks, TypeOK, Shape
<1>2. CASE Get(t)
  <2>1. sendlist' = sendlist /\ (stack' = stack \/ stack' = Push(t, Serving))
    BY <1>2 DEF Get, queues
  <2>2. Serving \in Frame /\ Idle(Serving)
    BY IdleFrames DEF Serving, Frame
  <2> QED BY <2>1, <2>2, QuietPush, SameAnswers
<1>3. CASE GetPosted(t)
  <2>1. /\ sendlist' = sendlist
        /\ stack' = stack \/ \E m \in Messages : stack' = Push(t, OnMessage(Does[m]))
    <3>1. PICK n \in 0 .. Len(dmsgq[t]) :
            LET q == msgq[t] \o SubSeq(dmsgq[t], 1, n)
            IN  stack' = stack \/ (q # <<>> /\ stack' = Push(t, OnMessage(Does[Head(q)])))
      BY <1>3, Zenon DEF GetPosted
    <3>2. LET q == msgq[t] \o SubSeq(dmsgq[t], 1, n)
          IN  q # <<>> => Head(q) \in Messages
      BY <1>1, DueSplit DEF Shape, TypeOK
    <3>3. sendlist' = sendlist
      BY <1>3 DEF GetPosted
    <3> QED BY <3>1, <3>2, <3>3, Zenon
  <2>2. ASSUME NEW m \in Messages
        PROVE  OnMessage(Does[m]) \in Frame /\ Idle(OnMessage(Does[m]))
    <3>1. OnMessage(Does[m]).fn \notin {"Send", "ReceiveSends"}
      BY IdleFrames
    <3> QED BY <3>1, NewFrames, IdleFrames
  <2> QED BY <2>1, <2>2, QuietPush, SameAnswers
<1>4. CASE OnEvent(t)
  <2> DEFINE q == events[t]
             h == OnMessage(Head(q))
  <2>1. q # <<>> /\ stack' = Push(t, h) /\ sendlist' = sendlist
    BY <1>4 DEF OnEvent, queues
  <2>2. q \in Seq(Seq(Ops))
    BY <1>1 DEF Shape, TypeOK
  <2>3. Head(q) \in Seq(Ops)
    BY <2>1, <2>2
  <2>4. h \in Frame /\ h.fn = "OnMessage"
    <3> HIDE DEF q
    <3> QED BY <2>3 DEF OnMessage, Frame
  <2>5. Idle(h)
    <3> HIDE DEF h
    <3> QED BY <2>4, IdleFrames
  <2> HIDE DEF h
  <2> QED BY <2>1, <2>4, <2>5, QuietPush
<1>5. CASE Woken(t) \/ Due(t) \/ ClearPosted(t)
  <2>1. stack' = stack /\ sendlist' = sendlist
    BY <1>5 DEF Woken, Due, ClearPosted, queues
  <2> QED BY <2>1, SameAnswers
<1> QED BY <1>2, <1>3, <1>4, <1>5

(* The operations of handlers but Send to another thread.                  *)
LEMMA OperationAnswers ==
  ASSUME SInv, NEW t \in Threads,
         \/ OnMessageReturns(t) \/ Post(t) \/ PostDelayed(t) \/ SendToSelf(t)
         \/ Clear(t) \/ Delete(t)
  PROVE  AnswersInv(stack', sendlist')
<1> DEFINE o == Next1(t)
<1>1. Stacks
  BY DEF SInv, IInv, Stacks, TypeOK
<1>2. CASE OnMessageReturns(t)
  <2>1. /\ stack[t] # <<>> /\ Last(stack[t]).fn = "OnMessage"
        /\ stack' = Return(t) /\ sendlist' = sendlist
    BY <1>2 DEF OnMessageReturns, In, queues
  <2> QED BY <2>1, IdleFrames, QuietReturn
<1>3. ASSUME NEW op, Doing(t, op)
      PROVE  /\ stack[t] # <<>> /\ o \in Ops /\ o.op = op /\ Done(t) \in Frame
             /\ SameRole(Last(stack[t]), Done(t))
  <2>1. /\ stack[t] # <<>> /\ Last(stack[t]).fn = "OnMessage"
        /\ o \in Ops /\ o.op = op /\ Done(t) \in Frame /\ Done(t).fn = "OnMessage"
    BY <1>1, <1>3, NextOp
  <2>2. Idle(Last(stack[t])) /\ Idle(Done(t))
    BY <2>1, IdleFrames
  <2> QED BY <2>1, <2>2, IdleFrames
<1>4. CASE Post(t) \/ PostDelayed(t)
  <2>1. stack' = Top(t, Done(t)) /\ sendlist' = sendlist
    BY <1>4 DEF Post, PostDelayed
  <2>2. stack[t] # <<>> /\ Done(t) \in Frame /\ SameRole(Last(stack[t]), Done(t))
    BY <1>3, <1>4 DEF Post, PostDelayed
  <2> QED BY <2>1, <2>2, QuietTop
<1>5. CASE SendToSelf(t) \/ Clear(t) \/ Delete(t)
  <2>1. PICK g : /\ stack' = TopWith(t, Done(t), g) /\ sendlist' = sendlist
                 /\ \/ Doing(t, "Send") /\ g = OnMessage(Does[o.msg])
                    \/ Doing(t, "Clear") /\ g = Clearing(o.to, o.what)
                    \/ Doing(t, "delete") /\ g = Stopping(o.to)
    BY <1>5 DEF SendToSelf, Clear, Delete, queues
  <2>2. /\ stack[t] # <<>> /\ Done(t) \in Frame /\ SameRole(Last(stack[t]), Done(t))
        /\ o \in Ops
        /\ \/ o.op = "Send" /\ g = OnMessage(Does[o.msg])
           \/ o.op = "Clear" /\ g = Clearing(o.to, o.what)
           \/ o.op = "delete" /\ g = Stopping(o.to)
    BY <1>3, <2>1
  <2> HIDE DEF o
  <2>3. g \in Frame
    <3>1. CASE o.op = "Send" /\ g = OnMessage(Does[o.msg])
      <4>1. o.msg \in Messages
        BY <2>2, <3>1 DEF Ops
      <4> QED BY <3>1, <4>1, NewFrames
    <3>2. CASE o.op = "Clear" /\ g = Clearing(o.to, o.what)
      <4>1. o.to \in Threads /\ o.what \in SUBSET Messages
        BY <2>2, <3>2 DEF Ops
      <4> QED BY <3>2, <4>1 DEF Clearing, Frame
    <3>3. CASE o.op = "delete" /\ g = Stopping(o.to)
      <4>1. o.to \in Threads
        BY <2>2, <3>3 DEF Ops
      <4> QED BY <3>3, <4>1 DEF Stopping, Frame
    <3> QED BY <2>2, <3>1, <3>2, <3>3
  <2>4. Idle(g)
    <3>1. g.fn \in {"OnMessage", "Clear", "Stop"}
      BY <2>2, IdleFrames
    <3> QED BY <3>1, IdleFrames
  <2> QED BY <2>1, <2>2, <2>3, <2>4, QuietTopWith
<1> QED BY <1>2, <1>4, <1>5

(* The calls, where nobody is told: a sender looks, waits or is woken, and *)
(* what has been answered goes.                                            *)
LEMMA MovedFrame ==
  ASSUME Stacks, NEW t \in Threads, stack[t] # <<>>, NEW a \in {"check", "wait", "join"},
         Last(stack[t]).fn = IF a = "join" THEN "Stop" ELSE "Send"
  PROVE  LET f == Last(stack[t])
             g == [f EXCEPT !.at = a]
         IN  g \in Frame /\ SameRole(f, g)
<1> DEFINE f == Last(stack[t])
           g == [f EXCEPT !.at = a]
<1>1. f \in Frame /\ g \in Frame /\ g.fn = f.fn
  BY FrameTypes
<1>2. CASE f.fn = "Stop"
  <2> HIDE DEF f, g
  <2>1. Idle(f) /\ Idle(g)
    BY <1>1, <1>2, IdleFrames
  <2> QED BY <1>1, <2>1, IdleFrames DEF f, g
<1>3. CASE f.fn = "Send"
  <2>1. g.ready = f.ready /\ g.to = f.to
    <3> HIDE DEF f
    <3>1. f \in [fn : {"Send"}, at : {"wake", "check", "wait"}, to : Threads, ready : BOOLEAN]
      BY <1>1, <1>3 DEF Frame
    <3> QED BY <3>1
  <2> HIDE DEF f, g
  <2> QED BY <1>1, <1>3, <2>1 DEF SameRole, WantsOf, Holds, f, g
<1> QED BY <1>2, <1>3

LEMMA CallAnswers ==
  ASSUME SInv, NEW t \in Threads,
         \/ SendWakes(t) \/ SendChecks(t) \/ SendWoken(t) \/ StopWakes(t) \/ Joined(t)
         \/ AnswerWakes(t) \/ ClearReturns(t)
         \/ ReceiveNext(t) /\ sendlist[t] = <<>>
  PROVE  AnswersInv(stack', sendlist')
<1> DEFINE f == Last(stack[t])
           g(a) == [f EXCEPT !.at = a]
<1>1. Stacks
  BY DEF SInv, IInv, Stacks, TypeOK
<1>2. CASE SendWakes(t) \/ SendWoken(t) \/ StopWakes(t)
  <2>1. \E a \in {"check", "wait", "join"} :
          /\ stack[t] # <<>> /\ f.fn = IF a = "join" THEN "Stop" ELSE "Send"
          /\ stack' = Top(t, g(a)) /\ sendlist' = sendlist
    BY <1>2 DEF SendWakes, SendWoken, StopWakes, At, In, queues
  <2> QED BY <1>1, <2>1, MovedFrame, QuietTop
<1>3. CASE SendChecks(t)
  <2>1. /\ stack[t] # <<>> /\ f.fn = "Send" /\ sendlist' = sendlist
        /\ \/ f.ready /\ stack' = Return(t)
           \/ stack' = TopWith(t, g("wait"), Serving)
           \/ stack' = Top(t, g("wait"))
    BY <1>3 DEF SendChecks, At, In, queues
  <2>2. g("wait") \in Frame /\ SameRole(f, g("wait"))
    BY <1>1, <2>1, MovedFrame
  <2>3. Serving \in Frame /\ Idle(Serving)
    BY IdleFrames DEF Serving, Frame
  <2>4. f.ready => Idle(f)
    BY <2>1, IdleFrames
  <2> HIDE DEF g
  <2> QED BY <2>1, <2>2, <2>3, <2>4, QuietTop, QuietTopWith, QuietReturn
<1>4. CASE Joined(t)
  <2>1. /\ stack[t] # <<>> /\ f.fn = "Stop" /\ sendlist' = sendlist
        /\ stack' = Top(t, Clearing(f.to, Messages))
    BY <1>4 DEF Joined, At, In, queues
  <2>2. f.to \in Threads
    BY <1>1, <2>1, FrameTypes
  <2>3. Clearing(f.to, Messages) \in Frame
    <3> HIDE DEF f
    <3> QED BY <2>2 DEF Clearing, Frame
  <2>4. Idle(f) /\ Idle(Clearing(f.to, Messages))
    BY <2>1, IdleFrames
  <2>5. SameRole(f, Clearing(f.to, Messages))
    BY <2>4, IdleFrames
  <2> QED BY <2>1, <2>3, <2>5, QuietTop
<1>5. CASE AnswerWakes(t)
  <2>1. /\ stack[t] # <<>> /\ f.fn = "ReceiveSends" /\ f.at = "wake"
        /\ sendlist' = sendlist /\ stack' = Top(t, Serving)
    BY <1>5 DEF AnswerWakes, At, In, queues
  <2>2. Serving \in Frame
    BY DEF Serving, Frame
  <2>3. Idle(f) /\ Idle(Serving)
    BY <2>1, IdleFrames
  <2>4. SameRole(f, Serving)
    BY <2>3, IdleFrames
  <2> QED BY <2>1, <2>2, <2>4, QuietTop
<1>6. CASE ClearReturns(t) \/ (ReceiveNext(t) /\ sendlist[t] = <<>>)
  <2>1. /\ stack[t] # <<>>
        /\ f.fn = "Clear" \/ (f.fn = "ReceiveSends" /\ f.at = "next")
        /\ sendlist' = sendlist /\ stack' = Return(t)
    BY <1>6 DEF ClearReturns, ReceiveNext, At, In, queues
  <2>2. Idle(f)
    BY <2>1, IdleFrames
  <2> QED BY <2>1, <2>2, QuietReturn
<1> QED BY <1>2, <1>3, <1>4, <1>5, <1>6

-----------------------------------------------------------------------------
(* Steps that move messages, or tell senders.                              *)
Tells(S, t, i) == \E s \in S : s.thread = t /\ s.frame = i

(* The senders of S are told, and the other messages are kept.             *)
LEMMA AnswersKept ==
  ASSUME NEW stk, NEW sl, AnswersInv(stk, sl), NEW z, NEW y, NEW S,
         \A t, u \in Threads : \A i :
           Wants(z, t, i, u) <=> Wants(stk, t, i, u) /\ ~Tells(S, t, i),
         \A u \in Threads : \A p, n, s :
           Asks(z, y, u, p, n, s) =>
             ~Tells(S, s.thread, s.frame) /\ \E q, m : Asks(stk, sl, u, q, m, s),
         \A u \in Threads : \A p, n, s :
           Asks(stk, sl, u, p, n, s) =>
             Tells(S, s.thread, s.frame) \/ \E q, m : Asks(z, y, u, q, m, s),
         AskedOnce(z, y)
  PROVE  AnswersInv(z, y)
<1>1. PointsToSender(stk, sl) /\ IsAsked(stk, sl)
  BY DEF AnswersInv
<1>2. ASSUME NEW u \in Threads, NEW p, NEW n, NEW s, Asks(z, y, u, p, n, s)
      PROVE  s.thread \in Threads /\ Wants(z, s.thread, s.frame, u)
  <2>1. PICK q, m : Asks(stk, sl, u, q, m, s)
    BY <1>2
  <2>2. s.thread \in Threads /\ Wants(stk, s.thread, s.frame, u)
    BY <1>1, <2>1 DEF PointsToSender
  <2>3. ~Tells(S, s.thread, s.frame)
    BY <1>2
  <2> QED BY <2>2, <2>3
<1>3. ASSUME NEW t \in Threads, NEW u \in Threads, NEW i, Wants(z, t, i, u)
      PROVE  \E p, n, s : Asks(z, y, u, p, n, s) /\ s.thread = t /\ s.frame = i
  <2>1. Wants(stk, t, i, u) /\ ~Tells(S, t, i)
    BY <1>3
  <2>2. PICK p, n, s : Asks(stk, sl, u, p, n, s) /\ s.thread = t /\ s.frame = i
    BY <1>1, <2>1 DEF IsAsked
  <2>3. PICK q, m : Asks(z, y, u, q, m, s)
    BY <2>1, <2>2
  <2> QED BY <2>2, <2>3
<1>4. PointsToSender(z, y)
  BY <1>2, Zenon DEF PointsToSender
<1>5. IsAsked(z, y)
  BY <1>3, Zenon DEF IsAsked
<1> QED BY <1>4, <1>5 DEF AnswersInv

(* A message at another place than those of S is of another sender.        *)
LEMMA NotTold ==
  ASSUME NEW stk, NEW sl, AnswersInv(stk, sl), NEW u \in Threads, NEW p, NEW n, NEW S,
         \A s \in S : Asks(stk, sl, u, p, n, s)
  PROVE  \A v \in Threads : \A q, m, r :
           Asks(stk, sl, v, q, m, r) /\ ~(v = u /\ q = p /\ m = n)
           => ~Tells(S, r.thread, r.frame)
<1> SUFFICES ASSUME NEW v \in Threads, NEW q, NEW m, NEW r, Asks(stk, sl, v, q, m, r),
                    ~(v = u /\ q = p /\ m = n),
                    NEW s \in S, s.thread = r.thread, s.frame = r.frame
             PROVE  FALSE
  BY DEF Tells
<1>1. PointsToSender(stk, sl) /\ AskedOnce(stk, sl)
  BY DEF AnswersInv
<1>2. Wants(stk, r.thread, r.frame, v) /\ Wants(stk, s.thread, s.frame, u)
  BY <1>1 DEF PointsToSender
<1>3. v = u
  BY <1>2 DEF Wants, WantsOf
<1>4. Asks(stk, sl, u, p, n, s) /\ Asks(stk, sl, u, q, m, r)
  BY <1>3
<1>5. p = q /\ n = m
  BY <1>1, <1>4, Zenon DEF AskedOnce
<1> QED BY <1>3, <1>5

(* A sender that is told wants nothing more; no other role changes.        *)
LEMMA FrameTold ==
  ASSUME NEW f \in Frame
  PROVE  LET g == [f EXCEPT !.ready = TRUE]
         IN  (\A u : ~WantsOf(g, u)) /\ (\A s : Holds(f, s) <=> Holds(g, s))
<1>1. CASE f.fn = "Send"
  <2>1. f \in [fn : {"Send"}, at : {"wake", "check", "wait"}, to : Threads, ready : BOOLEAN]
    BY <1>1 DEF Frame
  <2> DEFINE g == [f EXCEPT !.ready = TRUE]
  <2>2. g.fn = "Send" /\ g.ready
    BY <2>1
  <2> HIDE DEF g
  <2>3. (\A u : ~WantsOf(g, u)) /\ (\A s : Holds(f, s) <=> Holds(g, s))
    BY <1>1, <2>2 DEF WantsOf, Holds
  <2> QED BY <2>3 DEF g
<1>2. CASE f.fn # "Send"
  <2>1. [f EXCEPT !.ready = TRUE] = f
    BY <1>2 DEF Frame
  <2> QED BY <1>2, <2>1 DEF WantsOf, Holds
<1> QED BY <1>1, <1>2

LEMMA RolesOfReady ==
  ASSUME NEW stk \in [Threads -> Seq(Frame)], NEW S, NEW u \in Threads
  PROVE  LET z == Ready(stk, S)
         IN  \A i : /\ \A v : (i \in DOMAIN z[u] /\ WantsOf(z[u][i], v)) <=>
                              (i \in DOMAIN stk[u] /\ WantsOf(stk[u][i], v) /\ ~Tells(S, u, i))
                    /\ \A s : (i \in DOMAIN z[u] /\ Holds(z[u][i], s)) <=>
                              (i \in DOMAIN stk[u] /\ Holds(stk[u][i], s))
<1> DEFINE z == Ready(stk, S)
<1>1. /\ DOMAIN z[u] = DOMAIN stk[u]
      /\ \A i \in DOMAIN stk[u] :
           z[u][i] = IF Tells(S, u, i) THEN [stk[u][i] EXCEPT !.ready = TRUE] ELSE stk[u][i]
  BY DEF Ready, Tells
<1>2. \A i \in DOMAIN stk[u] : stk[u][i] \in Frame
  OBVIOUS
<1> HIDE DEF z
<1>3. ASSUME NEW i \in DOMAIN stk[u]
      PROVE  /\ \A v : WantsOf(z[u][i], v) <=> WantsOf(stk[u][i], v) /\ ~Tells(S, u, i)
             /\ \A s : Holds(z[u][i], s) <=> Holds(stk[u][i], s)
  <2>1. CASE Tells(S, u, i)
    <3>1. z[u][i] = [stk[u][i] EXCEPT !.ready = TRUE]
      BY <1>1, <2>1
    <3> QED BY <1>2, <2>1, <3>1, FrameTold
  <2>2. CASE ~Tells(S, u, i)
    BY <1>1, <2>2
  <2> QED BY <2>1, <2>2
<1> QED BY <1>1, <1>3, Zenon DEF z

(* The top of a stack is replaced: the roles of its frames.                *)
LEMMA RolesBelow ==
  ASSUME NEW a \in Seq(Frame), a # <<>>, NEW f \in Frame
  PROVE  LET z == Append(Front(a), f)
         IN  /\ Len(a) \in Nat \ {0} /\ z \in Seq(Frame) /\ Len(z) = Len(a)
             /\ \A i : /\ \A v : (i \in DOMAIN z /\ WantsOf(z[i], v)) <=>
                                 \/ i \in DOMAIN a /\ i # Len(a) /\ WantsOf(a[i], v)
                                 \/ i = Len(a) /\ WantsOf(f, v)
                       /\ \A s : (i \in DOMAIN z /\ Holds(z[i], s)) <=>
                                 \/ i \in DOMAIN a /\ i # Len(a) /\ Holds(a[i], s)
                                 \/ i = Len(a) /\ Holds(f, s)
<1> DEFINE z == Append(Front(a), f)
<1>1. /\ z \in Seq(Frame) /\ Len(z) = Len(a) /\ Len(a) \in Nat \ {0}
      /\ z[Len(a)] = f /\ \A i \in 1 .. Len(a) - 1 : z[i] = a[i]
  BY Replaced
<1> HIDE DEF z
<1>2. DOMAIN z = 1 .. Len(a) /\ DOMAIN a = 1 .. Len(a)
  BY <1>1
<1>3. Len(a) \in DOMAIN z /\ z[Len(a)] = f
  BY <1>1, <1>2
<1>4. \A i : i \in DOMAIN z /\ i # Len(a) => z[i] = a[i]
  <2>1. \A i \in 1 .. Len(a) : i # Len(a) => i \in 1 .. Len(a) - 1
    BY <1>1
  <2> QED BY <1>1, <1>2, <2>1
<1>5. \A i : i \in DOMAIN z <=> i \in DOMAIN a
  BY <1>2
<1>6. \A i : /\ \A v : (i \in DOMAIN z /\ WantsOf(z[i], v)) <=>
                          \/ i \in DOMAIN a /\ i # Len(a) /\ WantsOf(a[i], v)
                          \/ i = Len(a) /\ WantsOf(f, v)
             /\ \A s : (i \in DOMAIN z /\ Holds(z[i], s)) <=>
                          \/ i \in DOMAIN a /\ i # Len(a) /\ Holds(a[i], s)
                          \/ i = Len(a) /\ Holds(f, s)
  BY <1>3, <1>4, <1>5, Zenon
<1> QED BY <1>1, <1>6 DEF z

LEMMA GrownPlaces ==
  ASSUME NEW S, NEW q \in Seq(S), NEW x \in S
  PROVE  LET y == Append(q, x)
             M == Len(q) + 1
         IN  /\ DOMAIN y = DOMAIN q \cup {M} /\ M \notin DOMAIN q /\ y[M] = x
             /\ \A i \in DOMAIN q : y[i] = q[i]
<1> DEFINE y == Append(q, x)
           M == Len(q) + 1
<1>1. /\ y \in Seq(S) /\ Len(y) = M /\ y[M] = x /\ Len(q) \in Nat
      /\ \A i \in 1 .. Len(q) : y[i] = q[i]
  BY Grown
<1> HIDE DEF y
<1>2. DOMAIN q = 1 .. Len(q) /\ DOMAIN y = 1 .. M
  BY <1>1
<1>3. 1 .. M = 1 .. Len(q) \cup {M} /\ M \notin 1 .. Len(q)
  BY <1>1
<1> QED BY <1>1, <1>2, <1>3 DEF y

LEMMA SendAnswers ==
  ASSUME SInv, NEW t \in Threads, Send(t)
  PROVE  AnswersInv(stack', sendlist')
<1> DEFINE a == stack[t]
           L == Len(a)
           o == Next1(t)
           u == o.to
           s == [msg |-> o.msg, thread |-> t, frame |-> L + 1]
           b == Append(Front(a), Done(t))
           z == Append(b, Sending(u))
           y == Append(sendlist[u], s)
<1>1. Stacks /\ sendlist \in [Threads -> Seq(SendMessage)] /\ AnswersInv(stack, sendlist)
  BY DEF SInv, IInv, Stacks, TypeOK
<1>2. /\ Doing(t, "Send")
      /\ sendlist' = [sendlist EXCEPT ![u] = y]
      /\ stack' = [stack EXCEPT ![t] = z]
  BY DEF Send, TopWith
<1>3. /\ a # <<>> /\ Last(a).fn = "OnMessage"
      /\ o \in Ops /\ o.op = "Send" /\ Done(t) \in Frame /\ Done(t).fn = "OnMessage"
  BY <1>1, <1>2, NextOp
<1>4. u \in Threads /\ o.msg \in Messages
  <2> HIDE DEF o
  <2> QED BY <1>3 DEF Ops
<1>5. SameRoles(a, b)
  <2>1. Idle(Last(a)) /\ Idle(Done(t))
    BY <1>3, IdleFrames
  <2>2. SameRole(Last(a), Done(t))
    BY <2>1, IdleFrames
  <2>3. a \in Seq(Frame)
    BY <1>1 DEF Stacks
  <2> QED BY <1>3, <2>2, <2>3, RolesOfTop
<1>6. L \in Nat \ {0} /\ b \in Seq(Frame) /\ Len(b) = L /\ DOMAIN a = 1 .. L
  BY <1>1, <1>3, Replaced DEF Stacks
<1>7. /\ Sending(u) \in Frame /\ \A v : WantsOf(Sending(u), v) <=> v = u
      /\ \A r : ~Holds(Sending(u), r)
  <2> HIDE DEF u
  <2> QED BY <1>4 DEF Sending, Frame, WantsOf, Holds
<1>8. s.thread = t /\ s.frame = L + 1 /\ s \in SendMessage
  <2> HIDE DEF L, o
  <2> QED BY <1>4, <1>6 DEF SendMessage
<1>9. /\ DOMAIN z = DOMAIN b \cup {L + 1} /\ L + 1 \notin DOMAIN b /\ z[L + 1] = Sending(u)
      /\ \A i \in DOMAIN b : z[i] = b[i]
  <2> HIDE DEF b, u, L
  <2> QED BY <1>6, <1>7, GrownPlaces
<1> DEFINE M == Len(sendlist[u]) + 1
<1>10. /\ DOMAIN y = DOMAIN sendlist[u] \cup {M} /\ M \notin DOMAIN sendlist[u] /\ y[M] = s
       /\ \A i \in DOMAIN sendlist[u] : y[i] = sendlist[u][i]
  <2> HIDE DEF u, s
  <2>1. sendlist[u] \in Seq(SendMessage)
    BY <1>1, <1>4
  <2> QED BY <1>8, <2>1, GrownPlaces
<1>11. /\ stack'[t] = z /\ \A v \in Threads : v # t => stack'[v] = stack[v]
       /\ sendlist'[u] = y /\ \A v \in Threads : v # u => sendlist'[v] = sendlist[v]
  <2> HIDE DEF z, y, u
  <2> QED BY <1>1, <1>2, <1>4 DEF Stacks
<1> HIDE DEF a, b, z, y, s, u, o, L, M
<1>12. \A v \in Threads : \A i, x :
         Wants(stack', v, i, x) <=> Wants(stack, v, i, x) \/ (v = t /\ i = L + 1 /\ x = u)
  <2>1. ASSUME NEW i, NEW x
        PROVE  (i \in DOMAIN z /\ WantsOf(z[i], x)) <=>
                 (i \in DOMAIN a /\ WantsOf(a[i], x)) \/ (i = L + 1 /\ x = u)
    <3>1. (i \in DOMAIN b /\ WantsOf(b[i], x)) <=> (i \in DOMAIN a /\ WantsOf(a[i], x))
      BY <1>5 DEF SameRoles
    <3> QED BY <1>7, <1>9, <3>1
  <2> QED BY <1>11, <2>1, Zenon DEF Wants, a
<1>13. \A v \in Threads : \A p, n, r :
         Asks(stack', sendlist', v, p, n, r) <=>
           \/ Asks(stack, sendlist, v, p, n, r)
           \/ v = u /\ p = "sendlist" /\ n = M /\ r = s
  <2>1. ASSUME NEW n, NEW r
        PROVE  (n \in DOMAIN z /\ Holds(z[n], r)) <=> (n \in DOMAIN a /\ Holds(a[n], r))
    <3>1. (n \in DOMAIN b /\ Holds(b[n], r)) <=> (n \in DOMAIN a /\ Holds(a[n], r))
      BY <1>5 DEF SameRoles
    <3> QED BY <1>7, <1>9, <3>1
  <2>2. \A v \in Threads : \A n, r :
          (n \in DOMAIN stack'[v] /\ Holds(stack'[v][n], r)) <=>
            (n \in DOMAIN stack[v] /\ Holds(stack[v][n], r))
    BY <1>11, <2>1, Zenon DEF a
  <2>3. \A v \in Threads : \A n, r :
          (n \in DOMAIN sendlist'[v] /\ r = sendlist'[v][n]) <=>
            \/ n \in DOMAIN sendlist[v] /\ r = sendlist[v][n]
            \/ v = u /\ n = M /\ r = s
    BY <1>10, <1>11
  <2> SUFFICES ASSUME NEW v \in Threads, NEW p, NEW n, NEW r
               PROVE  Asks(stack', sendlist', v, p, n, r) <=>
                        \/ Asks(stack, sendlist, v, p, n, r)
                        \/ v = u /\ p = "sendlist" /\ n = M /\ r = s
    OBVIOUS
  <2>4. CASE p = "sendlist"
    BY <2>3, <2>4 DEF Asks
  <2>5. CASE p = "frame"
    BY <2>2, <2>5 DEF Asks
  <2>6. CASE p \notin {"sendlist", "frame"}
    BY <2>6 DEF Asks
  <2> QED BY <2>4, <2>5, <2>6
<1>14. \A x : ~Wants(stack, t, L + 1, x)
  BY <1>6 DEF Wants, a
<1>15. \A r : ~Asks(stack, sendlist, u, "sendlist", M, r)
  BY <1>10 DEF Asks
<1>16. PointsToSender(stack', sendlist')
  <2> SUFFICES ASSUME NEW v \in Threads, NEW p, NEW n, NEW r,
                      Asks(stack', sendlist', v, p, n, r)
               PROVE  r.thread \in Threads /\ Wants(stack', r.thread, r.frame, v)
    BY Zenon DEF PointsToSender
  <2>1. CASE Asks(stack, sendlist, v, p, n, r)
    BY <1>1, <1>12, <2>1 DEF AnswersInv, PointsToSender
  <2>2. CASE v = u /\ r = s
    BY <1>8, <1>12, <2>2
  <2> QED BY <1>13, <2>1, <2>2
<1>17. ASSUME NEW v \in Threads, NEW x \in Threads, NEW i, Wants(stack', v, i, x)
       PROVE  \E p, n, r : Asks(stack', sendlist', x, p, n, r) /\ r.thread = v /\ r.frame = i
  <2>1. CASE Wants(stack, v, i, x)
    <3>1. PICK p, n, r : Asks(stack, sendlist, x, p, n, r) /\ r.thread = v /\ r.frame = i
      BY <1>1, <2>1 DEF AnswersInv, IsAsked
    <3> QED BY <1>13, <3>1
  <2>2. CASE v = t /\ i = L + 1 /\ x = u
    BY <1>8, <1>13, <2>2
  <2> QED BY <1>12, <1>17, <2>1, <2>2
<1>18. AskedOnce(stack', sendlist')
  <2> SUFFICES ASSUME NEW v \in Threads, NEW p, NEW n, NEW r, NEW q, NEW m, NEW w,
                      Asks(stack', sendlist', v, p, n, r), Asks(stack', sendlist', v, q, m, w),
                      r.thread = w.thread, r.frame = w.frame
               PROVE  p = q /\ n = m
    BY Zenon DEF AskedOnce
  <2>1. ASSUME NEW l, NEW k, Asks(stack, sendlist, v, l, k, s)
        PROVE  FALSE
    BY <1>1, <1>8, <1>14, <2>1 DEF AnswersInv, PointsToSender
  <2>2. ASSUME NEW l, NEW k, NEW j, Asks(stack, sendlist, v, l, k, j)
        PROVE  ~(j.thread = t /\ j.frame = L + 1)
    BY <1>1, <1>14, <2>2 DEF AnswersInv, PointsToSender
  <2>3. CASE Asks(stack, sendlist, v, p, n, r) /\ Asks(stack, sendlist, v, q, m, w)
    BY <1>1, <2>3, Zenon DEF AnswersInv, AskedOnce
  <2>4. CASE ~Asks(stack, sendlist, v, p, n, r)
    <3>1. p = "sendlist" /\ n = M /\ r = s
      BY <1>13, <2>4
    <3>2. w.thread = t /\ w.frame = L + 1
      BY <1>8, <3>1
    <3>3. q = "sendlist" /\ m = M
      BY <1>13, <2>2, <3>2
    <3> QED BY <3>1, <3>3
  <2>5. CASE ~Asks(stack, sendlist, v, q, m, w)
    <3>1. q = "sendlist" /\ m = M /\ w = s
      BY <1>13, <2>5
    <3>2. r.thread = t /\ r.frame = L + 1
      BY <1>8, <3>1
    <3>3. p = "sendlist" /\ n = M
      BY <1>13, <2>2, <3>2
    <3> QED BY <3>1, <3>3
  <2> QED BY <2>3, <2>4, <2>5
<1>19. IsAsked(stack', sendlist')
  BY <1>17, Zenon DEF IsAsked
<1> QED BY <1>16, <1>18, <1>19 DEF AnswersInv

(* Answer: the senders of what was handled go on.                          *)
LEMMA AnswerAnswers ==
  ASSUME SInv, NEW t \in Threads, Answer(t)
  PROVE  AnswersInv(stack', sendlist')
<1> DEFINE a == stack[t]
           L == Len(a)
           f == Last(a)
           S == f.smsg
           g == [f EXCEPT !.at = "wake"]
           b == Append(Front(a), g)
           stk == [stack EXCEPT ![t] = b]
<1>1. Stacks /\ AnswersInv(stack, sendlist)
  BY DEF SInv, IInv, Stacks, TypeOK
<1>2. /\ a # <<>> /\ f.fn = "ReceiveSends" /\ f.at = "answer"
      /\ stack' = Ready(stk, S) /\ sendlist' = sendlist
  BY DEF Answer, At, In, Top, queues
<1>3. f \in Frame /\ g \in Frame /\ Idle(g)
  <2>1. f \in Frame /\ g \in Frame /\ g.fn = "ReceiveSends" /\ g.at = "wake"
    BY <1>1, <1>2, FrameTypes
  <2> QED BY <2>1, IdleFrames
<1>4. a \in Seq(Frame)
  BY <1>1 DEF Stacks
<1> HIDE DEF g
<1>5. /\ L \in Nat \ {0} /\ b \in Seq(Frame)
      /\ \A i : /\ \A v : (i \in DOMAIN b /\ WantsOf(b[i], v)) <=>
                          i \in DOMAIN a /\ i # L /\ WantsOf(a[i], v)
                /\ \A s : (i \in DOMAIN b /\ Holds(b[i], s)) <=>
                          i \in DOMAIN a /\ i # L /\ Holds(a[i], s)
  <2>1. \A i : /\ \A v : (i \in DOMAIN b /\ WantsOf(b[i], v)) <=>
                          \/ i \in DOMAIN a /\ i # L /\ WantsOf(a[i], v)
                          \/ i = L /\ WantsOf(g, v)
               /\ \A s : (i \in DOMAIN b /\ Holds(b[i], s)) <=>
                          \/ i \in DOMAIN a /\ i # L /\ Holds(a[i], s)
                          \/ i = L /\ Holds(g, s)
    BY <1>2, <1>3, <1>4, RolesBelow
  <2>2. L \in Nat \ {0} /\ b \in Seq(Frame)
    BY <1>2, <1>3, <1>4, RolesBelow
  <2> HIDE DEF b, L, a, f
  <2> QED BY <1>3, <2>1, <2>2, Zenon DEF Idle
<1>6. L \in DOMAIN a /\ a[L] = f
  BY <1>4, <1>5 DEF Last
<1>7. stk \in [Threads -> Seq(Frame)] /\ stk[t] = b
      /\ \A v \in Threads : v # t => stk[v] = stack[v]
  <2> HIDE DEF b
  <2> QED BY <1>1, <1>5 DEF Stacks
<1> HIDE DEF stk, b, f, L, S
<1>8. \A u \in Threads : \A i :
        /\ \A v : (i \in DOMAIN stack'[u] /\ WantsOf(stack'[u][i], v)) <=>
                  (i \in DOMAIN stk[u] /\ WantsOf(stk[u][i], v) /\ ~Tells(S, u, i))
        /\ \A s : (i \in DOMAIN stack'[u] /\ Holds(stack'[u][i], s)) <=>
                  (i \in DOMAIN stk[u] /\ Holds(stk[u][i], s))
  BY <1>2, <1>7, RolesOfReady
<1>9. \A u \in Threads : \A i :
        /\ \A v : (i \in DOMAIN stk[u] /\ WantsOf(stk[u][i], v)) <=>
                  (i \in DOMAIN stack[u] /\ WantsOf(stack[u][i], v))
        /\ \A s : (i \in DOMAIN stk[u] /\ Holds(stk[u][i], s)) <=>
                  /\ i \in DOMAIN stack[u] /\ Holds(stack[u][i], s)
                  /\ ~(u = t /\ i = L)
  <2>1. \A v : ~WantsOf(a[L], v)
    BY <1>2, <1>6 DEF WantsOf
  <2>2. ASSUME NEW u \in Threads, u # t
        PROVE  stk[u] = stack[u]
    BY <1>7, <2>2
  <2> QED BY <1>5, <1>7, <2>1, <2>2, Zenon
<1>10. \A u, v \in Threads : \A i :
         Wants(stack', u, i, v) <=> Wants(stack, u, i, v) /\ ~Tells(S, u, i)
  BY <1>8, <1>9, Zenon DEF Wants
<1>11. \A u \in Threads : \A p, n, s :
         Asks(stack', sendlist', u, p, n, s) <=>
           Asks(stack, sendlist, u, p, n, s) /\ ~(u = t /\ p = "frame" /\ n = L)
  <2> SUFFICES ASSUME NEW u \in Threads, NEW p, NEW n, NEW s
               PROVE  Asks(stack', sendlist', u, p, n, s) <=>
                        Asks(stack, sendlist, u, p, n, s) /\ ~(u = t /\ p = "frame" /\ n = L)
    OBVIOUS
  <2>1. CASE p = "sendlist"
    BY <1>2, <2>1 DEF Asks
  <2>2. CASE p = "frame"
    BY <1>8, <1>9, <2>2 DEF Asks
  <2>3. CASE p \notin {"sendlist", "frame"}
    BY <2>3 DEF Asks
  <2> QED BY <2>1, <2>2, <2>3
<1>12. \A s : s \in S <=> Asks(stack, sendlist, t, "frame", L, s)
  BY <1>2, <1>6 DEF Asks, Holds, S
<1>13. \A s \in S : Asks(stack, sendlist, t, "frame", L, s)
  BY <1>12
<1>14. \A v \in Threads : \A q, m, r :
         Asks(stack, sendlist, v, q, m, r) /\ ~(v = t /\ q = "frame" /\ m = L)
         => ~Tells(S, r.thread, r.frame)
  BY <1>1, <1>13, NotTold
<1>15. \A u \in Threads : \A p, n, s :
         Asks(stack', sendlist', u, p, n, s) =>
           ~Tells(S, s.thread, s.frame) /\ \E q, m : Asks(stack, sendlist, u, q, m, s)
  <2> SUFFICES ASSUME NEW u \in Threads, NEW p, NEW n, NEW s,
                      Asks(stack', sendlist', u, p, n, s)
               PROVE  ~Tells(S, s.thread, s.frame) /\ Asks(stack, sendlist, u, p, n, s)
    BY Zenon
  <2>1. Asks(stack, sendlist, u, p, n, s) /\ ~(u = t /\ p = "frame" /\ n = L)
    BY <1>11
  <2> QED BY <1>14, <2>1
<1>16. \A u \in Threads : \A p, n, s :
         Asks(stack, sendlist, u, p, n, s) =>
           Tells(S, s.thread, s.frame) \/ \E q, m : Asks(stack', sendlist', u, q, m, s)
  BY <1>11, <1>12, Zenon DEF Tells
<1>17. AskedOnce(stack', sendlist')
  <2> SUFFICES ASSUME NEW v \in Threads, NEW p, NEW n, NEW r, NEW q, NEW m, NEW w,
                      Asks(stack', sendlist', v, p, n, r), Asks(stack', sendlist', v, q, m, w),
                      r.thread = w.thread, r.frame = w.frame
               PROVE  p = q /\ n = m
    BY Zenon DEF AskedOnce
  <2>1. Asks(stack, sendlist, v, p, n, r) /\ Asks(stack, sendlist, v, q, m, w)
    BY <1>11
  <2> QED BY <1>1, <2>1, Zenon DEF AnswersInv, AskedOnce
<1> QED BY <1>1, <1>10, <1>15, <1>16, <1>17, AnswersKept

(* Clear drops what was sent and tells its sender.                         *)
LEMMA RemovedPlaces ==
  ASSUME NEW S, NEW q \in Seq(S), NEW i \in DOMAIN q
  PROVE  LET y == RemoveAt(q, i)
         IN  /\ DOMAIN q \subseteq Nat /\ DOMAIN y \subseteq Nat
             /\ \A k \in DOMAIN y : LET m == IF k < i THEN k ELSE k + 1
                                    IN  m \in DOMAIN q /\ m # i /\ y[k] = q[m]
             /\ \A m \in DOMAIN q : m # i => \E k \in DOMAIN y : y[k] = q[m]
<1> DEFINE a == SubSeq(q, 1, i - 1)
           b == SubSeq(q, i + 1, Len(q))
           y == a \o b
<1>1. i \in 1 .. Len(q) /\ Len(q) \in Nat /\ DOMAIN q = 1 .. Len(q)
  OBVIOUS
<1>2. a \in Seq(S) /\ Len(a) = i - 1 /\ \A k \in 1 .. i - 1 : a[k] = q[k]
  BY <1>1, Prefix
<1>3. b \in Seq(S) /\ Len(b) = Len(q) - i /\ \A k \in 1 .. Len(q) - i : b[k] = q[i + k]
  <2>1. \A k \in i + 1 .. Len(q) : q[k] \in S
    BY <1>1
  <2> QED BY <1>1, <2>1
<1> HIDE DEF a, b
<1>4. /\ y \in Seq(S) /\ Len(y) = Len(q) - 1
      /\ \A k \in 1 .. Len(q) - 1 : y[k] = IF k < i THEN a[k] ELSE b[k - (i - 1)]
  <2>1. Len(a) + Len(b) = Len(q) - 1
    BY <1>1, <1>2, <1>3
  <2>2. y \in Seq(S) /\ Len(y) = Len(a) + Len(b)
    BY <1>2, <1>3, ConcatProperties
  <2>3. \A k \in 1 .. Len(a) + Len(b) : y[k] = IF k <= Len(a) THEN a[k] ELSE b[k - Len(a)]
    BY <1>2, <1>3, ConcatProperties
  <2>4. \A k \in 1 .. Len(q) - 1 : (k < i) = (k <= i - 1)
    BY <1>1
  <2> QED BY <1>2, <2>1, <2>2, <2>3, <2>4
<1>5. y = RemoveAt(q, i)
  BY DEF RemoveAt, a, b
<1> HIDE DEF y
<1>6. DOMAIN y = 1 .. Len(q) - 1
  BY <1>4
<1>7. ASSUME NEW k \in 1 .. Len(q) - 1
      PROVE  LET m == IF k < i THEN k ELSE k + 1
             IN  m \in 1 .. Len(q) /\ m # i /\ y[k] = q[m]
  <2>1. CASE k < i
    <3>1. k \in 1 .. i - 1 /\ k \in 1 .. Len(q) /\ k # i
      BY <1>1, <2>1
    <3> QED BY <1>2, <1>4, <2>1, <3>1
  <2>2. CASE ~(k < i)
    <3>1. k - (i - 1) \in 1 .. Len(q) - i /\ i + (k - (i - 1)) = k + 1
          /\ k + 1 \in 1 .. Len(q) /\ k + 1 # i
      BY <1>1, <2>2
    <3>2. y[k] = b[k - (i - 1)]
      BY <1>4, <2>2
    <3>3. b[k - (i - 1)] = q[k + 1]
      BY <1>3, <3>1
    <3> QED BY <2>2, <3>1, <3>2, <3>3
  <2> QED BY <2>1, <2>2
<1>8. ASSUME NEW m \in 1 .. Len(q), m # i
      PROVE  \E k \in 1 .. Len(q) - 1 : y[k] = q[m]
  <2>1. CASE m < i
    <3>1. m \in 1 .. Len(q) - 1 /\ y[m] = q[m]
      BY <1>1, <1>7, <2>1
    <3> QED BY <3>1
  <2>2. CASE ~(m < i)
    <3>1. m - 1 \in 1 .. Len(q) - 1 /\ ~(m - 1 < i) /\ (m - 1) + 1 = m
      BY <1>1, <1>8, <2>2
    <3>2. y[m - 1] = q[m]
      BY <1>7, <3>1
    <3> QED BY <3>1, <3>2
  <2> QED BY <2>1, <2>2
<1>9. DOMAIN q \subseteq Nat /\ DOMAIN y \subseteq Nat
  BY <1>1, <1>6
<1> QED BY <1>1, <1>5, <1>6, <1>7, <1>8, <1>9

LEMMA ClearSentAnswers ==
  ASSUME SInv, NEW t \in Threads, ClearSent(t)
  PROVE  AnswersInv(stack', sendlist')
<1>1. Stacks /\ sendlist \in [Threads -> Seq(SendMessage)] /\ AnswersInv(stack, sendlist)
  BY DEF SInv, IInv, Stacks, TypeOK
<1>2. stack[t] # <<>> /\ Last(stack[t]).fn = "Clear"
  BY DEF ClearSent, In
<1>3. PICK u : u = Last(stack[t]).to
  OBVIOUS
<1>4. u \in Threads
  BY <1>1, <1>2, <1>3, FrameTypes
<1>5. PICK i \in DOMAIN sendlist[u] :
        /\ sendlist' = [sendlist EXCEPT ![u] = RemoveAt(@, i)]
        /\ stack' = Ready(stack, {sendlist[u][i]})
  BY <1>3 DEF ClearSent
<1> DEFINE q == sendlist[u]
           y == RemoveAt(q, i)
           S == {q[i]}
           from(n) == IF n < i THEN n ELSE n + 1
<1>6. /\ i \in DOMAIN q /\ DOMAIN q \subseteq Nat /\ DOMAIN y \subseteq Nat
      /\ \A k \in DOMAIN y : from(k) \in DOMAIN q /\ from(k) # i /\ y[k] = q[from(k)]
      /\ \A m \in DOMAIN q : m # i => \E k \in DOMAIN y : y[k] = q[m]
  <2>1. q \in Seq(SendMessage)
    BY <1>1, <1>4
  <2> HIDE DEF q
  <2>2. i \in DOMAIN q
    BY DEF q
  <2> QED BY <2>1, <2>2, RemovedPlaces
<1>7. /\ sendlist'[u] = y /\ \A v \in Threads : v # u => sendlist'[v] = sendlist[v]
      /\ stack' = Ready(stack, S)
  <2>1. sendlist' = [sendlist EXCEPT ![u] = y] /\ stack' = Ready(stack, S)
    BY <1>5
  <2> HIDE DEF y, S
  <2> QED BY <1>1, <1>4, <2>1
<1> HIDE DEF S, y, from
<1>8. \A v \in Threads : \A j :
        /\ \A x : (j \in DOMAIN stack'[v] /\ WantsOf(stack'[v][j], x)) <=>
                  (j \in DOMAIN stack[v] /\ WantsOf(stack[v][j], x) /\ ~Tells(S, v, j))
        /\ \A s : (j \in DOMAIN stack'[v] /\ Holds(stack'[v][j], s)) <=>
                  (j \in DOMAIN stack[v] /\ Holds(stack[v][j], s))
  BY <1>1, <1>7, RolesOfReady DEF Stacks
<1>9. \A v, x \in Threads : \A j :
        Wants(stack', v, j, x) <=> Wants(stack, v, j, x) /\ ~Tells(S, v, j)
  BY <1>8, Zenon DEF Wants
(* The place a message had.                                                *)
<1> DEFINE gone(v, p, n) == v = u /\ p = "sendlist" /\ n = i
           moved(v, p)   == v = u /\ p = "sendlist"
<1>10. ASSUME NEW v \in Threads, NEW p, NEW n, NEW r, Asks(stack', sendlist', v, p, n, r)
       PROVE  \E m : /\ Asks(stack, sendlist, v, p, m, r) /\ ~gone(v, p, m)
                     /\ IF moved(v, p) THEN n \in Nat /\ m = from(n) ELSE m = n
  <2>1. CASE moved(v, p)
    <3>1. n \in DOMAIN y /\ r = y[n]
      BY <1>7, <1>10, <2>1 DEF Asks
    <3>2. from(n) \in DOMAIN q /\ from(n) # i /\ r = q[from(n)] /\ n \in Nat
      BY <1>6, <3>1
    <3>3. Asks(stack, sendlist, v, p, from(n), r)
      BY <2>1, <3>2 DEF Asks
    <3> QED BY <2>1, <3>2, <3>3
  <2>2. CASE ~moved(v, p)
    <3>1. Asks(stack, sendlist, v, p, n, r)
      BY <1>7, <1>8, <1>10, <2>2 DEF Asks
    <3> QED BY <2>2, <3>1
  <2> QED BY <2>1, <2>2
<1>11. ASSUME NEW v \in Threads, NEW p, NEW n, NEW r, Asks(stack, sendlist, v, p, n, r)
       PROVE  Tells(S, r.thread, r.frame) \/ \E m : Asks(stack', sendlist', v, p, m, r)
  <2>1. CASE gone(v, p, n)
    <3>1. r = q[i]
      BY <1>11, <2>1 DEF Asks
    <3> QED BY <3>1 DEF Tells, S
  <2>2. CASE moved(v, p) /\ n # i
    <3>1. n \in DOMAIN q /\ r = q[n]
      BY <1>11, <2>2 DEF Asks
    <3>2. PICK k \in DOMAIN y : y[k] = q[n]
      BY <1>6, <2>2, <3>1
    <3>3. Asks(stack', sendlist', v, p, k, r)
      BY <1>7, <2>2, <3>1, <3>2 DEF Asks
    <3> QED BY <3>3
  <2>3. CASE ~moved(v, p)
    <3>1. Asks(stack', sendlist', v, p, n, r)
      BY <1>7, <1>8, <1>11, <2>3 DEF Asks
    <3> QED BY <3>1
  <2> QED BY <2>1, <2>2, <2>3
<1>12. \A s \in S : Asks(stack, sendlist, u, "sendlist", i, s)
  BY <1>6 DEF Asks, S
<1>13. \A v \in Threads : \A p, n, r :
         Asks(stack, sendlist, v, p, n, r) /\ ~(v = u /\ p = "sendlist" /\ n = i)
         => ~Tells(S, r.thread, r.frame)
  BY <1>1, <1>4, <1>12, NotTold
<1>14. \A v \in Threads : \A p, n, r :
         Asks(stack', sendlist', v, p, n, r) =>
           ~Tells(S, r.thread, r.frame) /\ \E l, m : Asks(stack, sendlist, v, l, m, r)
  BY <1>10, <1>13, Zenon
<1>15. \A v \in Threads : \A p, n, r :
         Asks(stack, sendlist, v, p, n, r) =>
           Tells(S, r.thread, r.frame) \/ \E l, m : Asks(stack', sendlist', v, l, m, r)
  BY <1>11, Zenon
<1>16. ASSUME NEW v \in Threads, NEW p, NEW n, NEW r, Asks(stack', sendlist', v, p, n, r)
       PROVE  \E j : /\ Asks(stack, sendlist, v, p, j, r)
                     /\ moved(v, p) => n \in Nat /\ j = from(n)
                     /\ ~moved(v, p) => j = n
  BY <1>10, <1>16
<1> HIDE DEF gone, moved
<1>17. AskedOnce(stack', sendlist')
  <2> SUFFICES ASSUME NEW v \in Threads, NEW p, NEW n, NEW r, NEW l, NEW m, NEW w,
                      Asks(stack', sendlist', v, p, n, r), Asks(stack', sendlist', v, l, m, w),
                      r.thread = w.thread, r.frame = w.frame
               PROVE  p = l /\ n = m
    BY Zenon DEF AskedOnce
  <2>1. PICK j : /\ Asks(stack, sendlist, v, p, j, r)
                 /\ moved(v, p) => n \in Nat /\ j = from(n)
                 /\ ~moved(v, p) => j = n
    BY <1>16
  <2>2. PICK k : /\ Asks(stack, sendlist, v, l, k, w)
                 /\ moved(v, l) => m \in Nat /\ k = from(m)
                 /\ ~moved(v, l) => k = m
    BY <1>16
  <2>3. p = l /\ j = k
    BY <1>1, <2>1, <2>2, Zenon DEF AnswersInv, AskedOnce
  <2>4. CASE moved(v, p)
    <3>1. n \in Nat /\ m \in Nat /\ from(n) = from(m)
      BY <2>1, <2>2, <2>3, <2>4
    <3>2. i \in Nat
      BY <1>6
    <3> QED BY <2>3, <3>1, <3>2 DEF from
  <2>5. CASE ~moved(v, p)
    BY <2>1, <2>2, <2>3, <2>5
  <2> QED BY <2>4, <2>5
<1> QED BY <1>1, <1>9, <1>14, <1>15, <1>17, AnswersKept

(* ReceiveSends takes the next message: it asks from another place.        *)
LEMMA TailPlaces ==
  ASSUME NEW S, NEW q \in Seq(S), q # <<>>
  PROVE  /\ 1 \in DOMAIN q /\ Head(q) = q[1] /\ DOMAIN q \subseteq Nat
         /\ DOMAIN Tail(q) \subseteq Nat
         /\ \A k \in DOMAIN Tail(q) : k + 1 \in DOMAIN q /\ k + 1 # 1 /\ Tail(q)[k] = q[k + 1]
         /\ \A m \in DOMAIN q : m # 1 => m - 1 \in DOMAIN Tail(q) /\ Tail(q)[m - 1] = q[m]
<1>1. Len(q) \in Nat \ {0} /\ DOMAIN q = 1 .. Len(q) /\ Head(q) = q[1]
  OBVIOUS
<1> DEFINE y == Tail(q)
<1>2. y \in Seq(S) /\ Len(y) = Len(q) - 1 /\ \A k \in 1 .. Len(q) - 1 : y[k] = q[k + 1]
  OBVIOUS
<1> HIDE DEF y
<1>3. DOMAIN y = 1 .. Len(q) - 1
  BY <1>1, <1>2
<1>4. \A k \in 1 .. Len(q) - 1 : k + 1 \in 1 .. Len(q) /\ k + 1 # 1
  BY <1>1
<1>5. \A m \in 1 .. Len(q) : m # 1 => m - 1 \in 1 .. Len(q) - 1 /\ (m - 1) + 1 = m
  BY <1>1
<1>6. \A m \in 1 .. Len(q) : m # 1 => y[m - 1] = q[m]
  BY <1>2, <1>5
<1> QED BY <1>1, <1>2, <1>3, <1>4, <1>5, <1>6 DEF y

LEMMA ReceiveAnswers ==
  ASSUME SInv, NEW t \in Threads, ReceiveNext(t), sendlist[t] # <<>>
  PROVE  AnswersInv(stack', sendlist')
<1> DEFINE a == stack[t]
           L == Len(a)
           q == sendlist[t]
           s == Head(q)
           y == Tail(q)
           g == [Serving EXCEPT !.at = "answer", !.smsg = {s}]
           h == OnMessage(Does[s.msg])
           b == Append(Front(a), g)
           z == Append(b, h)
<1>1. Stacks /\ sendlist \in [Threads -> Seq(SendMessage)] /\ AnswersInv(stack, sendlist)
  BY DEF SInv, IInv, Stacks, TypeOK
<1>2. /\ a # <<>> /\ Last(a).fn = "ReceiveSends" /\ Last(a).at = "next" /\ q # <<>>
      /\ stack' = [stack EXCEPT ![t] = z] /\ sendlist' = [sendlist EXCEPT ![t] = y]
  BY DEF ReceiveNext, At, In, TopWith
<1>3. a \in Seq(Frame) /\ q \in Seq(SendMessage) /\ s \in SendMessage
  BY <1>1, <1>2 DEF Stacks
<1>4. /\ g \in Frame /\ \A v : ~WantsOf(g, v)
      /\ \A r : Holds(g, r) <=> r = s
  <2> HIDE DEF s
  <2>1. g \in Frame
    BY <1>3 DEF Serving, Frame
  <2>2. g.fn = "ReceiveSends" /\ g.at = "answer" /\ g.smsg = {s}
    BY DEF Serving
  <2> HIDE DEF g
  <2> QED BY <2>1, <2>2 DEF WantsOf, Holds
<1>5. h \in Frame /\ Idle(h)
  <2> HIDE DEF s
  <2>1. s.msg \in Messages
    BY <1>3 DEF SendMessage
  <2>2. h \in Frame /\ h.fn = "OnMessage"
    BY <2>1, NewFrames DEF OnMessage
  <2> QED BY <2>2, IdleFrames
<1>6. Idle(Last(a))
  BY <1>2, IdleFrames
<1>7. /\ 1 \in DOMAIN q /\ s = q[1] /\ DOMAIN q \subseteq Nat /\ DOMAIN y \subseteq Nat
      /\ \A k \in DOMAIN y : k + 1 \in DOMAIN q /\ k + 1 # 1 /\ y[k] = q[k + 1]
      /\ \A m \in DOMAIN q : m # 1 => m - 1 \in DOMAIN y /\ y[m - 1] = q[m]
  <2> HIDE DEF q
  <2> QED BY <1>2, <1>3, TailPlaces
<1> HIDE DEF g, h, s, y
<1>8. /\ L \in Nat \ {0} /\ b \in Seq(Frame)
      /\ \A i : /\ \A v : (i \in DOMAIN b /\ WantsOf(b[i], v)) <=>
                          \/ i \in DOMAIN a /\ i # L /\ WantsOf(a[i], v)
                          \/ i = L /\ WantsOf(g, v)
                /\ \A r : (i \in DOMAIN b /\ Holds(b[i], r)) <=>
                          \/ i \in DOMAIN a /\ i # L /\ Holds(a[i], r)
                          \/ i = L /\ Holds(g, r)
  BY <1>2, <1>3, <1>4, RolesBelow
<1>9. L \in DOMAIN a /\ Idle(a[L])
  BY <1>3, <1>6, <1>8 DEF Last
<1>10. SameRoles(b, z)
  <2> HIDE DEF b
  <2> QED BY <1>5, <1>8, RolesOfPush
<1>11. /\ stack'[t] = z /\ \A v \in Threads : v # t => stack'[v] = stack[v]
       /\ sendlist'[t] = y /\ \A v \in Threads : v # t => sendlist'[v] = sendlist[v]
  <2> HIDE DEF z
  <2> QED BY <1>1, <1>2 DEF Stacks
<1> HIDE DEF z, b, L, q
<1>12. \A i : /\ \A v : (i \in DOMAIN z /\ WantsOf(z[i], v)) <=>
                        (i \in DOMAIN a /\ WantsOf(a[i], v))
              /\ \A r : (i \in DOMAIN z /\ Holds(z[i], r)) <=>
                        (i \in DOMAIN a /\ Holds(a[i], r)) \/ (i = L /\ r = s)
  <2>1. \A i : /\ \A v : (i \in DOMAIN b /\ WantsOf(b[i], v)) <=>
                         (i \in DOMAIN a /\ WantsOf(a[i], v))
               /\ \A r : (i \in DOMAIN b /\ Holds(b[i], r)) <=>
                         (i \in DOMAIN a /\ Holds(a[i], r)) \/ (i = L /\ r = s)
    BY <1>4, <1>8, <1>9, Zenon DEF Idle
  <2> QED BY <1>10, <2>1, Zenon DEF SameRoles
<1>13. \A v, x \in Threads : \A i : Wants(stack', v, i, x) <=> Wants(stack, v, i, x)
  BY <1>11, <1>12, Zenon DEF Wants
(* The place a message had.                                                *)
<1> DEFINE taken(v, p, n) == v = t /\ p = "frame" /\ n = L
           moved(v, p)    == v = t /\ p = "sendlist"
<1>14. ASSUME NEW v \in Threads, NEW p, NEW n, NEW r, Asks(stack', sendlist', v, p, n, r)
       PROVE  \/ taken(v, p, n) /\ Asks(stack, sendlist, v, "sendlist", 1, r)
              \/ /\ moved(v, p) /\ n \in Nat /\ n # 0
                 /\ Asks(stack, sendlist, v, p, n + 1, r)
              \/ ~taken(v, p, n) /\ ~moved(v, p) /\ Asks(stack, sendlist, v, p, n, r)
  <2>1. CASE taken(v, p, n)
    <3>1. Holds(z[L], r) /\ L \in DOMAIN z
      BY <1>11, <1>14, <2>1 DEF Asks
    <3>2. r = s
      BY <1>9, <1>12, <3>1 DEF Idle
    <3>3. Asks(stack, sendlist, v, "sendlist", 1, r)
      BY <1>7, <2>1, <3>2 DEF Asks, q
    <3> QED BY <2>1, <3>3
  <2>2. CASE moved(v, p)
    <3>1. n \in DOMAIN y /\ r = y[n]
      BY <1>11, <1>14, <2>2 DEF Asks
    <3>2. n + 1 \in DOMAIN q /\ n + 1 # 1 /\ r = q[n + 1] /\ n \in Nat
      BY <1>7, <3>1
    <3>3. Asks(stack, sendlist, v, p, n + 1, r) /\ n # 0
      BY <2>2, <3>2 DEF Asks, q
    <3> QED BY <2>2, <3>2, <3>3
  <2>3. CASE ~taken(v, p, n) /\ ~moved(v, p)
    <3>1. CASE v # t
      BY <1>11, <1>14, <2>3, <3>1 DEF Asks
    <3>2. CASE v = t
      <4>1. p = "frame" /\ n # L /\ n \in DOMAIN z /\ Holds(z[n], r)
        BY <1>11, <1>14, <2>3, <3>2 DEF Asks
      <4>2. n \in DOMAIN a /\ Holds(a[n], r)
        BY <1>12, <4>1
      <4> QED BY <2>3, <3>2, <4>1, <4>2 DEF Asks
    <3> QED BY <3>1, <3>2
  <2> QED BY <2>1, <2>2, <2>3
<1>15. ASSUME NEW v \in Threads, NEW p, NEW n, NEW r, Asks(stack, sendlist, v, p, n, r)
       PROVE  \E l, m : Asks(stack', sendlist', v, l, m, r)
  <2>1. CASE moved(v, p) /\ n = 1
    <3>1. r = s
      BY <1>7, <1>15, <2>1 DEF Asks, q
    <3>2. L \in DOMAIN z /\ Holds(z[L], r)
      BY <1>12, <3>1
    <3>3. Asks(stack', sendlist', v, "frame", L, r)
      BY <1>11, <2>1, <3>2 DEF Asks
    <3> QED BY <3>3
  <2>2. CASE moved(v, p) /\ n # 1
    <3>1. n \in DOMAIN q /\ r = q[n]
      BY <1>15, <2>2 DEF Asks, q
    <3>2. n - 1 \in DOMAIN y /\ y[n - 1] = r
      BY <1>7, <2>2, <3>1
    <3>3. Asks(stack', sendlist', v, p, n - 1, r)
      BY <1>11, <2>2, <3>2 DEF Asks
    <3> QED BY <3>3
  <2>3. CASE ~moved(v, p)
    <3>1. CASE v # t
      <4>1. Asks(stack', sendlist', v, p, n, r)
        BY <1>11, <1>15, <3>1 DEF Asks
      <4> QED BY <4>1
    <3>2. CASE v = t
      <4>1. p = "frame" /\ n \in DOMAIN a /\ Holds(a[n], r)
        BY <1>15, <2>3, <3>2 DEF Asks
      <4>2. n \in DOMAIN z /\ Holds(z[n], r)
        BY <1>12, <4>1
      <4>3. Asks(stack', sendlist', v, p, n, r)
        BY <1>11, <3>2, <4>1, <4>2 DEF Asks
      <4> QED BY <4>3
    <3> QED BY <3>1, <3>2
  <2> QED BY <2>1, <2>2, <2>3
<1>16. AskedOnce(stack', sendlist')
  <2> SUFFICES ASSUME NEW v \in Threads, NEW p, NEW n, NEW r, NEW l, NEW m, NEW w,
                      Asks(stack', sendlist', v, p, n, r), Asks(stack', sendlist', v, l, m, w),
                      r.thread = w.thread, r.frame = w.frame
               PROVE  p = l /\ n = m
    BY Zenon DEF AskedOnce
  <2>1. \/ taken(v, p, n) /\ Asks(stack, sendlist, v, "sendlist", 1, r)
        \/ /\ moved(v, p) /\ n \in Nat /\ n # 0
           /\ Asks(stack, sendlist, v, p, n + 1, r)
        \/ ~taken(v, p, n) /\ ~moved(v, p) /\ Asks(stack, sendlist, v, p, n, r)
    BY <1>14
  <2>2. \/ taken(v, l, m) /\ Asks(stack, sendlist, v, "sendlist", 1, w)
        \/ /\ moved(v, l) /\ m \in Nat /\ m # 0
           /\ Asks(stack, sendlist, v, l, m + 1, w)
        \/ ~taken(v, l, m) /\ ~moved(v, l) /\ Asks(stack, sendlist, v, l, m, w)
    BY <1>14
  <2>3. ASSUME NEW i, NEW j, NEW d, NEW e,
               Asks(stack, sendlist, v, i, d, r), Asks(stack, sendlist, v, j, e, w)
        PROVE  i = j /\ d = e
    BY <1>1, <2>3, Zenon DEF AnswersInv, AskedOnce
  <2>4. CASE taken(v, p, n)
    <3>1. Asks(stack, sendlist, v, "sendlist", 1, r) /\ v = t
      BY <2>1, <2>4
    <3>2. CASE taken(v, l, m)
      BY <2>4, <3>2
    <3>3. CASE moved(v, l)
      BY <2>2, <2>3, <3>1, <3>3
    <3>4. CASE ~taken(v, l, m) /\ ~moved(v, l)
      BY <2>2, <2>3, <3>1, <3>4
    <3> QED BY <3>2, <3>3, <3>4
  <2>5. CASE moved(v, p)
    <3>1. Asks(stack, sendlist, v, "sendlist", n + 1, r) /\ n \in Nat /\ n # 0 /\ v = t
      BY <2>1, <2>5
    <3>2. CASE taken(v, l, m)
      BY <2>2, <2>3, <3>1, <3>2
    <3>3. CASE moved(v, l)
      <4>1. Asks(stack, sendlist, v, l, m + 1, w) /\ m \in Nat
        BY <2>2, <3>3
      <4>2. n + 1 = m + 1
        BY <2>3, <3>1, <4>1
      <4> QED BY <2>5, <3>1, <3>3, <4>1, <4>2
    <3>4. CASE ~taken(v, l, m) /\ ~moved(v, l)
      BY <2>2, <2>3, <3>1, <3>4
    <3> QED BY <3>2, <3>3, <3>4
  <2>6. CASE ~taken(v, p, n) /\ ~moved(v, p)
    <3>1. Asks(stack, sendlist, v, p, n, r)
      BY <2>1, <2>6
    <3>2. CASE taken(v, l, m)
      BY <2>2, <2>3, <2>6, <3>1, <3>2
    <3>3. CASE moved(v, l)
      BY <2>2, <2>3, <2>6, <3>1, <3>3
    <3>4. CASE ~taken(v, l, m) /\ ~moved(v, l)
      BY <2>2, <2>3, <3>1, <3>4
    <3> QED BY <3>2, <3>3, <3>4
  <2> QED BY <2>4, <2>5, <2>6
<1>17. \A v, x : ~Tells({}, v, x)
  BY DEF Tells
<1>18. \A v, x \in Threads : \A i :
         Wants(stack', v, i, x) <=> Wants(stack, v, i, x) /\ ~Tells({}, v, i)
  BY <1>13, <1>17
<1>19. \A v \in Threads : \A p, n, r :
         Asks(stack', sendlist', v, p, n, r) =>
           ~Tells({}, r.thread, r.frame) /\ \E l, m : Asks(stack, sendlist, v, l, m, r)
  BY <1>14, <1>17, Zenon
<1>20. \A v \in Threads : \A p, n, r :
         Asks(stack, sendlist, v, p, n, r) =>
           Tells({}, r.thread, r.frame) \/ \E l, m : Asks(stack', sendlist', v, l, m, r)
  BY <1>15, Zenon
<1> QED BY <1>1, <1>16, <1>18, <1>19, <1>20, AnswersKept

LEMMA AnswersInductive ==
  ASSUME SInv, [Next]_vars
  PROVE  SInv'
<1>1. ASSUME NEW t \in Threads, Runs(t) \/ Due(t) \/ OnEvent(t)
      PROVE  AnswersInv(stack', sendlist')
  BY <1>1, LoopAnswers, OperationAnswers, CallAnswers, SendAnswers, ReceiveAnswers,
     AnswerAnswers, ClearSentAnswers DEF Runs
<1>2. ASSUME UNCHANGED vars
      PROVE  AnswersInv(stack', sendlist')
  BY <1>2, SameAnswers DEF vars, queues
<1>3. AnswersInv(stack', sendlist')
  BY <1>1, <1>2 DEF Next
<1>4. IInv'
  BY Inductive DEF SInv
<1> QED BY <1>3, <1>4 DEF SInv

LEMMA InitAnswers ==
  ASSUME Init
  PROVE  SInv
<1>1. \A t \in Threads : DOMAIN stack[t] = {} /\ DOMAIN sendlist[t] = {}
  BY DEF Init
<1>2. \A u \in Threads : \A p, n, s : ~Asks(stack, sendlist, u, p, n, s)
  BY <1>1 DEF Asks
<1>3. \A t, u \in Threads : \A i : ~Wants(stack, t, i, u)
  BY <1>1 DEF Wants
<1>4. PointsToSender(stack, sendlist) /\ IsAsked(stack, sendlist) /\ AskedOnce(stack, sendlist)
  BY <1>2, <1>3 DEF PointsToSender, IsAsked, AskedOnce
<1> QED BY <1>4, InitIInv DEF SInv, AnswersInv

(* A Send lasts until its message was handled or dropped: the flag that a  *)
(* message in a sendlist or in a ReceiveSends points to is the one of a    *)
(* Send that waits, of that thread and to this one, however deep it stands *)
(* under what its thread handles meanwhile, and no Send waits that no      *)
(* message answers (thread.cc:186-266, Clear at thread.cc:268-282).        *)
THEOREM SendersAreAnswered == Spec => []SendersWait
<1>1. SInv => SendersWait
  <2> SUFFICES ASSUME SInv
               PROVE  SendersWait
    OBVIOUS
  <2>1. /\ stack \in [Threads -> Seq(Frame)] /\ sendlist \in [Threads -> Seq(SendMessage)]
        /\ PointsToSender(stack, sendlist) /\ IsAsked(stack, sendlist)
    BY DEF SInv, AnswersInv, IInv, TypeOK
  <2>2. ASSUME NEW u \in Threads
        PROVE  \A s : s \in Unanswered(u) <=> \E p, n : Asks(stack, sendlist, u, p, n, s)
    <3>1. \A s : s \in ToSet(sendlist[u]) <=>
                   \E n : n \in DOMAIN sendlist[u] /\ s = sendlist[u][n]
      BY DEF ToSet
    <3>2. \A s : s \in Unanswered(u) <=>
                   \/ s \in ToSet(sendlist[u])
                   \/ \E n : n \in DOMAIN stack[u] /\ Holds(stack[u][n], s)
      BY Zenon DEF Unanswered, Holds
    <3>3. \A s : (\E p, n : Asks(stack, sendlist, u, p, n, s)) <=>
                   \/ \E n : n \in DOMAIN sendlist[u] /\ s = sendlist[u][n]
                   \/ \E n : n \in DOMAIN stack[u] /\ Holds(stack[u][n], s)
      BY DEF Asks
    <3> QED BY <3>1, <3>2, <3>3
  <2>3. ASSUME NEW u \in Threads, NEW s \in Unanswered(u)
        PROVE  /\ s.frame \in DOMAIN stack[s.thread]
               /\ Waiting(s.thread, s.frame) /\ stack[s.thread][s.frame].to = u
    <3>1. Wants(stack, s.thread, s.frame, u)
      BY <2>1, <2>2 DEF PointsToSender
    <3> QED BY <3>1 DEF Wants, WantsOf, Waiting
  <2>4. ASSUME NEW t \in Threads, NEW i \in DOMAIN stack[t], Waiting(t, i)
        PROVE  \E s \in Unanswered(stack[t][i].to) : s.thread = t /\ s.frame = i
    <3>1. stack[t][i] \in Frame /\ stack[t][i].fn = "Send"
      BY <2>1, <2>4 DEF Waiting
    <3>2. stack[t][i].to \in Threads
      BY <3>1 DEF Frame
    <3>3. PICK u \in Threads : u = stack[t][i].to
      BY <3>2
    <3>4. Wants(stack, t, i, u)
      BY <2>4, <3>3 DEF Wants, WantsOf, Waiting
    <3>5. PICK p, n, s : Asks(stack, sendlist, u, p, n, s) /\ s.thread = t /\ s.frame = i
      BY <2>1, <3>4 DEF IsAsked
    <3> QED BY <2>2, <3>3, <3>5
  <2> QED BY <2>3, <2>4 DEF SendersWait
<1>2. Init => SInv
  BY InitAnswers
<1>3. SInv /\ [Next]_vars => SInv'
  BY AnswersInductive
<1> QED BY <1>1, <1>2, <1>3, PTL DEF Spec
=============================================================================

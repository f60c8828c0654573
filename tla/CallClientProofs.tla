--------------------------- MODULE CallClientProofs ---------------------------
(***************************************************************************)
(* Proofs about CallClient, for any set of sessions and of commands.       *)
(*                                                                         *)
(* A handler is a composition of state functions, so the proof is about    *)
(* the functions: Whole says of one client record what must hold between   *)
(* any two of them, and each lemma says that a function keeps it.  Between *)
(* Enter(.., "RECEIVEDREJECT") and the callback that ends the call, call_  *)
(* does point at a session that is over; that is why Whole asks only that  *)
(* the session exists, and the invariant of the steps asks for more.       *)
(*                                                                         *)
(* The first part proves that no pointer dangles.  The second is about the *)
(* order of things: which messages the signalling thread still has for a   *)
(* session, and what the session's state then is.  It needs it to rule out *)
(* a second terminate and an end that the dialog is not told of; OInv is   *)
(* its invariant, Does what a function called for one session may change,  *)
(* and Moved what a step may.  The third, Informs, is what the dialog      *)
(* learns of a step; MyJingleProofs uses it.                               *)
(***************************************************************************)
EXTENDS MCCallClient, SequenceTheorems, TLAPS

Alive(state, s) == state[s] \notin {"absent", "destroyed"}

(* Posted messages belong to sessions that exist; a call asks whether it   *)
(* is empty only when its session is gone.                                 *)
QueueOK(queue, state) ==
  \A i \in DOMAIN queue :
    /\ queue[i].id \in {"STATE", "ERROR", "TIMEOUT"} =>
         queue[i].sess \in Sessions /\ Alive(state, queue[i].sess)
    /\ queue[i].id = "AUTODESTROY" =>
         queue[i].sess \in Sessions /\ state[queue[i].sess] = "destroyed"

TimerOK(timer, state) == \A s \in Sessions : timer[s] => Alive(state, s)
CallsOK(calls, state) == \A s \in Sessions : Alive(state, s) => s \in calls
FocusOK(focus, calls) == focus # None => focus \in calls
CallOK(call, state)   == call # None => Alive(state, call)

Whole(c) ==
  /\ c \in Objects
  /\ QueueOK(c.queue, c.state)
  /\ TimerOK(c.timer, c.state)
  /\ CallsOK(c.calls, c.state)
  /\ FocusOK(c.focus, c.calls)
  /\ CallOK(c.call, c.state)

(* The same sessions are absent, and the same are destroyed.               *)
SameObjects(c, d) ==
  \A s \in Sessions : /\ d.state[s] = "absent" <=> c.state[s] = "absent"
                      /\ d.state[s] = "destroyed" <=> c.state[s] = "destroyed"

(* Between two steps call_ also points at a session that is not over.      *)
Current(c) == c.call # None => c.state[c.call] \in Live \cup {"SENTREJECT"}

LEMMA EnterWhole ==
  ASSUME NEW c, Whole(c), NEW s \in Sessions, Alive(c.state, s), NEW st \in Live \cup Over
  PROVE  LET d == Enter(c, s, st)
         IN  /\ Whole(d)
             /\ SameObjects(c, d)
             /\ d.state = [c.state EXCEPT ![s] = st]
             /\ d.call = c.call
<1> DEFINE d == Enter(c, s, st)
<1>1. /\ c \in Objects
      /\ st \in States \ {"absent", "destroyed"}
  BY DEF Whole, States, Live, Ringing, Talking, Over
<1>2. /\ d \in Objects
      /\ d.state = [c.state EXCEPT ![s] = st]
      /\ d.queue = c.queue /\ d.timer = c.timer /\ d.calls = c.calls
      /\ d.focus = c.focus /\ d.call = c.call
  BY <1>1 DEF Enter, Objects
<1>3. \A t \in Sessions : /\ Alive(d.state, t) <=> Alive(c.state, t)
                          /\ d.state[t] = "absent" <=> c.state[t] = "absent"
                          /\ d.state[t] = "destroyed" <=> c.state[t] = "destroyed"
  BY <1>1, <1>2 DEF Alive, Objects
<1>4. c.call \in Sessions \cup {None}
  BY <1>1 DEF Objects
<1> HIDE DEF d
<1> QED
  BY <1>2, <1>3, <1>4 DEF Whole, QueueOK, TimerOK, CallsOK, FocusOK, CallOK, SameObjects, d

LEMMA TransmitWhole ==
  ASSUME NEW c, Whole(c), NEW s \in Sessions, NEW st \in Stanzas
  PROVE  LET d == Transmit(c, s, st)
         IN  /\ Whole(d)
             /\ SameObjects(c, d)
             /\ d.state = c.state /\ d.call = c.call
<1> DEFINE d == Transmit(c, s, st)
<1>1. c \in Objects /\ c.sent \in Seq(Stanzas \X Sessions)
  BY DEF Whole, Objects
<1>2. Append(c.sent, <<st, s>>) \in Seq(Stanzas \X Sessions)
  BY <1>1
<1>3. /\ d \in Objects
      /\ d.queue = c.queue /\ d.state = c.state /\ d.timer = c.timer
      /\ d.calls = c.calls /\ d.focus = c.focus /\ d.call = c.call
  BY <1>1, <1>2 DEF Transmit, Objects
<1> QED
  BY <1>3 DEF Whole, SameObjects

LEMMA NotifyWhole ==
  ASSUME NEW c, Whole(c), NEW n \in Notices
  PROVE  LET d == Notify(c, n)
         IN  /\ Whole(d)
             /\ SameObjects(c, d)
             /\ d.state = c.state /\ d.call = c.call
<1> DEFINE d == Notify(c, n)
<1>1. c \in Objects /\ c.posted \in Seq(Notices)
  BY DEF Whole, Objects
<1>2. Append(c.posted, n) \in Seq(Notices)
  BY <1>1
<1>3. /\ d \in Objects
      /\ d.queue = c.queue /\ d.state = c.state /\ d.timer = c.timer
      /\ d.calls = c.calls /\ d.focus = c.focus /\ d.call = c.call
  BY <1>1, <1>2 DEF Notify, Objects
<1> QED
  BY <1>3 DEF Whole, SameObjects

LEMMA EnqueueWhole ==
  ASSUME NEW c, Whole(c), NEW s \in Sessions,
         NEW id \in {"STATE", "ERROR", "TIMEOUT", "AUTODESTROY"},
         id = "AUTODESTROY" => c.state[s] = "destroyed",
         id # "AUTODESTROY" => Alive(c.state, s)
  PROVE  LET d == Enqueue(c, id, s)
         IN  /\ Whole(d)
             /\ SameObjects(c, d)
             /\ d.state = c.state /\ d.call = c.call
<1> DEFINE m == [id |-> id, sess |-> s]
           d == Enqueue(c, id, s)
<1>1. m \in Messages /\ c \in Objects /\ c.queue \in Seq(Messages)
  BY DEF Messages, Whole, Objects
<1>a. Append(c.queue, m) \in Seq(Messages)
  BY <1>1
<1>2. /\ d \in Objects
      /\ d.queue = Append(c.queue, m)
      /\ d.state = c.state /\ d.timer = c.timer /\ d.calls = c.calls
      /\ d.focus = c.focus /\ d.call = c.call
  BY <1>1, <1>a DEF Enqueue, Objects
<1>3. \A i \in DOMAIN d.queue :
        (i \in DOMAIN c.queue /\ d.queue[i] = c.queue[i]) \/ d.queue[i] = m
  BY <1>1, <1>2
<1>4. m.id = id /\ m.sess = s
  OBVIOUS
<1>5. QueueOK(d.queue, d.state)
  <2> SUFFICES ASSUME NEW i \in DOMAIN d.queue
               PROVE  /\ d.queue[i].id \in {"STATE", "ERROR", "TIMEOUT"} =>
                           d.queue[i].sess \in Sessions /\ Alive(d.state, d.queue[i].sess)
                      /\ d.queue[i].id = "AUTODESTROY" =>
                           d.queue[i].sess \in Sessions /\ d.state[d.queue[i].sess] = "destroyed"
    BY DEF QueueOK
  <2> QED
    BY <1>2, <1>3, <1>4 DEF Whole, QueueOK
<1> QED
  BY <1>2, <1>5 DEF Whole, SameObjects

LEMMA OnSentTerminateWhole ==
  ASSUME NEW c, Whole(c), NEW s \in Sessions
  PROVE  LET d == OnSentTerminate(c, s)
         IN  /\ Whole(d)
             /\ SameObjects(c, d)
             /\ d.state = c.state
             /\ d.call = IF c.call = s THEN None ELSE c.call
<1> DEFINE k == [c EXCEPT !.call = IF @ = s THEN None ELSE @]
<1>1. c \in Objects
  BY DEF Whole
<1>2. /\ k \in Objects
      /\ k.queue = c.queue /\ k.state = c.state /\ k.timer = c.timer
      /\ k.calls = c.calls /\ k.focus = c.focus
      /\ k.call = IF c.call = s THEN None ELSE c.call
  BY <1>1 DEF Objects
<1>3. Whole(k)
  BY <1>2 DEF Whole, CallOK
<1>4. OnSentTerminate(c, s) = Notify(k, "SENTTERMINATE")
  BY DEF OnSentTerminate
<1> HIDE DEF k
<1> QED
  BY <1>2, <1>3, <1>4, NotifyWhole DEF SameObjects, Notices

-----------------------------------------------------------------------------
(* Handlers of one session: the record stays whole, the objects stay the   *)
(* same and no other session changes its state.                            *)
Keeps(c, d, s) ==
  /\ Whole(d)
  /\ SameObjects(c, d)
  /\ \A t \in Sessions \ {s} : d.state[t] = c.state[t]

LEMMA TerminateKeeps ==
  ASSUME NEW c, Whole(c), NEW s \in Sessions, Alive(c.state, s)
  PROVE  LET d == Terminate(c, s)
         IN  /\ Keeps(c, d, s)
             /\ d.state[s] = "SENTTERMINATE"
             /\ d.call = IF c.call = s /\ c.state[s] # "SENTTERMINATE" THEN None ELSE c.call
<1>1. c.state \in [Sessions -> States]
  BY DEF Whole, Objects
<1>2. CASE c.state[s] = "SENTTERMINATE"
  BY <1>2 DEF Terminate, Keeps, SameObjects
<1>3. CASE c.state[s] # "SENTTERMINATE"
  <2> DEFINE c1 == Transmit(c, s, "TERMINATE")
             c2 == Enter(c1, s, "SENTTERMINATE")
             c3 == OnSentTerminate(c2, s)
             c4 == Enqueue(c3, "STATE", s)
  <2>1. Whole(c1) /\ SameObjects(c, c1) /\ c1.state = c.state /\ c1.call = c.call
    BY TransmitWhole DEF Stanzas
  <2> HIDE DEF c1
  <2>2. /\ Whole(c2) /\ SameObjects(c1, c2) /\ c2.call = c1.call
        /\ c2.state = [c1.state EXCEPT ![s] = "SENTTERMINATE"]
    BY <2>1, EnterWhole DEF Over
  <2> HIDE DEF c2
  <2>3. /\ Whole(c3) /\ SameObjects(c2, c3) /\ c3.state = c2.state
        /\ c3.call = IF c2.call = s THEN None ELSE c2.call
    BY <2>2, OnSentTerminateWhole
  <2> HIDE DEF c3
  <2>4. Alive(c3.state, s)
    BY <1>1, <2>1, <2>2, <2>3 DEF Alive
  <2>5. Whole(c4) /\ SameObjects(c3, c4) /\ c4.state = c3.state /\ c4.call = c3.call
    BY <2>3, <2>4, EnqueueWhole
  <2>6. Terminate(c, s) = c4
    BY <1>3 DEF Terminate, c1, c2, c3
  <2> HIDE DEF c4
  <2> QED
    BY <1>1, <1>3, <2>1, <2>2, <2>3, <2>5, <2>6 DEF Keeps, SameObjects
<1> QED
  BY <1>2, <1>3

LEMMA EndMineKeeps ==
  ASSUME NEW c, Whole(c), NEW s \in Sessions, Alive(c.state, s)
  PROVE  LET d == EndMine(c, s)
         IN  /\ Keeps(c, d, s)
             /\ d.call = IF c.call = s THEN None ELSE c.call
<1>1. CASE c.call # s
  BY <1>1 DEF EndMine, Keeps, SameObjects
<1>2. CASE c.call = s
  <2> DEFINE t == Terminate(c, s)
             d == [t EXCEPT !.call = None]
  <2>1. Keeps(c, t, s)
    BY TerminateKeeps
  <2> HIDE DEF t
  <2>2. t \in Objects
    BY <2>1 DEF Keeps, Whole
  <2>3. /\ d \in Objects
        /\ d.queue = t.queue /\ d.state = t.state /\ d.timer = t.timer
        /\ d.calls = t.calls /\ d.focus = t.focus /\ d.call = None
    BY <2>2 DEF Objects
  <2>4. EndMine(c, s) = d
    BY <1>2 DEF EndMine, t
  <2> HIDE DEF d
  <2> QED
    BY <1>2, <2>1, <2>3, <2>4 DEF Keeps, Whole, CallOK, SameObjects
<1> QED
  BY <1>1, <1>2

(* Reject and Accept have the same shape: a stanza, a state that is not    *)
(* final, a message to the dialog.                                         *)
LEMMA AnswerKeeps ==
  ASSUME NEW c, Whole(c), NEW s \in Sessions, Alive(c.state, s),
         NEW stanza \in Stanzas, NEW st \in Live \cup {"SENTREJECT"}
  PROVE  LET d == Enqueue(Notify(Enter(Transmit(c, s, stanza), s, st), "UNSET"), "STATE", s)
         IN  /\ Keeps(c, d, s)
             /\ d.state[s] = st
             /\ d.call = c.call
<1> DEFINE c1 == Transmit(c, s, stanza)
           c2 == Enter(c1, s, st)
           c3 == Notify(c2, "UNSET")
           c4 == Enqueue(c3, "STATE", s)
<1>1. c.state \in [Sessions -> States] /\ st \in Live \cup Over
  BY DEF Whole, Objects, Over
<1>2. Whole(c1) /\ SameObjects(c, c1) /\ c1.state = c.state /\ c1.call = c.call
  BY TransmitWhole
<1> HIDE DEF c1
<1>3. /\ Whole(c2) /\ SameObjects(c1, c2) /\ c2.call = c1.call
      /\ c2.state = [c1.state EXCEPT ![s] = st]
  BY <1>1, <1>2, EnterWhole
<1> HIDE DEF c2
<1>4. Whole(c3) /\ SameObjects(c2, c3) /\ c3.state = c2.state /\ c3.call = c2.call
  BY <1>3, NotifyWhole DEF Notices
<1> HIDE DEF c3
<1>5. Alive(c3.state, s)
  BY <1>1, <1>2, <1>3, <1>4 DEF Alive, Live, Over, Ringing, Talking
<1>6. Whole(c4) /\ SameObjects(c3, c4) /\ c4.state = c3.state /\ c4.call = c3.call
  BY <1>4, <1>5, EnqueueWhole
<1> HIDE DEF c4
<1>7. Keeps(c, c4, s) /\ c4.state[s] = st /\ c4.call = c.call
  BY <1>1, <1>2, <1>3, <1>4, <1>6 DEF Keeps, SameObjects
<1> QED
  BY <1>7 DEF c1, c2, c3, c4

LEMMA RejectKeeps ==
  ASSUME NEW c, Whole(c), NEW s \in Sessions, Alive(c.state, s)
  PROVE  LET d == Reject(c, s)
         IN  /\ Keeps(c, d, s)
             /\ d.call = c.call
             /\ d.state[s] \in {c.state[s], "SENTREJECT"}
<1>1. CASE c.state[s] = "RECEIVEDINITIATE"
  BY <1>1, AnswerKeeps DEF Reject, Stanzas
<1>2. CASE c.state[s] # "RECEIVEDINITIATE"
  BY <1>2 DEF Reject, Keeps, SameObjects
<1> QED
  BY <1>1, <1>2

LEMMA AcceptKeeps ==
  ASSUME NEW c, Whole(c), NEW s \in Sessions, Alive(c.state, s)
  PROVE  LET d == Accept(c, s)
         IN  /\ Keeps(c, d, s)
             /\ d.call = c.call
             /\ d.state[s] \in {c.state[s], "SENTACCEPT"}
<1>1. CASE c.state[s] = "RECEIVEDINITIATE"
  BY <1>1, AnswerKeeps DEF Accept, Stanzas, Live, Talking
<1>2. CASE c.state[s] # "RECEIVEDINITIATE"
  BY <1>2 DEF Accept, Keeps, SameObjects
<1> QED
  BY <1>1, <1>2

LEMMA SetErrorKeeps ==
  ASSUME NEW c, Whole(c), NEW s \in Sessions, Alive(c.state, s),
         NEW error \in {"TIME", "RESPONSE"}
  PROVE  LET d == SetError(c, s, error)
         IN  Whole(d) /\ d.state = c.state /\ d.call = c.call
<1> DEFINE k == [c EXCEPT !.error[s] = error]
<1>1. /\ k \in Objects
      /\ k.queue = c.queue /\ k.state = c.state /\ k.timer = c.timer
      /\ k.calls = c.calls /\ k.focus = c.focus /\ k.call = c.call
  BY DEF Whole, Objects
<1>2. Whole(k)
  BY <1>1 DEF Whole
<1>3. SetError(c, s, error) \in {c, Enqueue(k, "ERROR", s)}
  BY DEF SetError
<1> HIDE DEF k
<1> QED
  BY <1>1, <1>2, <1>3, EnqueueWhole

-----------------------------------------------------------------------------
(* Stanzas.  A record that is whole and current stays so; only the session *)
(* of the stanza changes, and only an initiate makes a session exist.      *)
Handled(c, d, s) ==
  /\ Whole(d)
  /\ Current(d)
  /\ \A t \in Sessions \ {s} : d.state[t] = c.state[t]

LEMMA CreateWhole ==
  ASSUME NEW c, Whole(c), NEW s \in Sessions, c.state[s] = "absent"
  PROVE  LET d == Enter([c EXCEPT !.calls = @ \cup {s}], s, "RECEIVEDINITIATE")
         IN  /\ Whole(d)
             /\ d.state = [c.state EXCEPT ![s] = "RECEIVEDINITIATE"]
             /\ d.call = c.call
<1> DEFINE d == Enter([c EXCEPT !.calls = @ \cup {s}], s, "RECEIVEDINITIATE")
<1>1. c \in Objects /\ "RECEIVEDINITIATE" \in States
  BY DEF Whole, States, Live, Ringing
<1>2. /\ d \in Objects
      /\ d.state = [c.state EXCEPT ![s] = "RECEIVEDINITIATE"]
      /\ d.calls = c.calls \cup {s}
      /\ d.queue = c.queue /\ d.timer = c.timer /\ d.focus = c.focus /\ d.call = c.call
  BY <1>1 DEF Enter, Objects
<1>3. \A t \in Sessions : /\ Alive(d.state, t) <=> Alive(c.state, t) \/ t = s
                          /\ d.state[t] = "destroyed" <=> c.state[t] = "destroyed"
  BY <1>1, <1>2 DEF Alive, Objects
<1>4. c.call \in Sessions \cup {None}
  BY <1>1 DEF Objects
<1> HIDE DEF d
<1>5. QueueOK(d.queue, d.state) /\ TimerOK(d.timer, d.state)
  BY <1>2, <1>3 DEF Whole, QueueOK, TimerOK
<1>6. CallsOK(d.calls, d.state) /\ FocusOK(d.focus, d.calls) /\ CallOK(d.call, d.state)
  BY <1>2, <1>3, <1>4 DEF Whole, CallsOK, FocusOK, CallOK
<1>7. Whole(d) /\ d.state = [c.state EXCEPT ![s] = "RECEIVEDINITIATE"] /\ d.call = c.call
  BY <1>2, <1>5, <1>6 DEF Whole
<1> QED
  BY <1>7 DEF d

LEMMA AnnounceHandled ==
  ASSUME NEW c, Whole(c), NEW s \in Sessions,
         c.state[s] \in {"RECEIVEDINITIATE", "SENTREJECT"},
         c.call # None => c.call # s /\ c.state[c.call] \in Live \cup {"SENTREJECT"}
  PROVE  LET d == Announce(c, s)
         IN  /\ Handled(c, d, s)
             /\ SameObjects(c, d)
<1>1. c \in Objects /\ Alive(c.state, s) /\ None \notin Sessions
  BY CallClientConstants DEF Whole, Alive
<1>2. CASE c.call = None
  <2> DEFINE k == [c EXCEPT !.call = s]
             d == Notify(k, "INCOMING")
  <2>1. /\ k \in Objects
        /\ k.queue = c.queue /\ k.state = c.state /\ k.timer = c.timer
        /\ k.calls = c.calls /\ k.focus = c.focus /\ k.call = s
    BY <1>1 DEF Objects
  <2>2. Whole(k)
    BY <1>1, <2>1 DEF Whole, CallOK
  <2>3. Announce(c, s) = d
    BY <1>2 DEF Announce
  <2> HIDE DEF k
  <2>4. Whole(d) /\ SameObjects(k, d) /\ d.state = k.state /\ d.call = k.call
    BY <2>2, NotifyWhole DEF Notices
  <2> HIDE DEF d
  <2> QED
    BY <2>1, <2>3, <2>4 DEF Handled, Current, SameObjects, Live, Ringing
<1>3. CASE c.call # None
  <2> DEFINE k == Reject(c, s)
             d == Notify(k, "UNSET")
  <2>1. Keeps(c, k, s) /\ k.call = c.call
    BY <1>1, RejectKeeps
  <2>2. Announce(c, s) = d
    BY <1>3 DEF Announce
  <2> HIDE DEF k
  <2>3. Whole(d) /\ SameObjects(k, d) /\ d.state = k.state /\ d.call = k.call
    BY <2>1, NotifyWhole DEF Notices, Keeps
  <2>4. c.call \in Sessions
    BY <1>1, <1>3 DEF Objects
  <2> HIDE DEF d
  <2> QED
    BY <1>3, <2>1, <2>2, <2>3, <2>4 DEF Keeps, Handled, Current, SameObjects
<1> QED
  BY <1>2, <1>3

LEMMA OnInitiateHandled ==
  ASSUME NEW c, Whole(c), Current(c), NEW s \in Sessions, c.state[s] = "absent",
         NEW codecs \in BOOLEAN
  PROVE  Handled(c, OnInitiate(c, s, codecs), s)
<1> DEFINE c1 == Enter([c EXCEPT !.calls = @ \cup {s}], s, "RECEIVEDINITIATE")
           c2 == IF codecs THEN c1 ELSE Reject(c1, s)
           c3 == Announce(c2, s)
           c4 == Enqueue(c3, "STATE", s)
<1>1. c.state \in [Sessions -> States] /\ c.call \in Sessions \cup {None}
  BY DEF Whole, Objects
<1>2. c.call # s
  BY CallClientConstants DEF Whole, CallOK, Alive
<1>3. /\ Whole(c1) /\ c1.call = c.call
      /\ c1.state = [c.state EXCEPT ![s] = "RECEIVEDINITIATE"]
  BY CreateWhole
<1> HIDE DEF c1
<1>4. Alive(c1.state, s) /\ c1.state[s] = "RECEIVEDINITIATE"
  BY <1>1, <1>3 DEF Alive
<1>5. /\ Whole(c2) /\ c2.call = c.call
      /\ c2.state[s] \in {"RECEIVEDINITIATE", "SENTREJECT"}
      /\ \A t \in Sessions \ {s} : c2.state[t] = c1.state[t]
  <2>1. CASE codecs
    <3>1. c2 = c1
      BY <2>1
    <3> HIDE DEF c2
    <3> QED
      BY <1>3, <1>4, <3>1
  <2>2. CASE ~codecs
    <3>1. c2 = Reject(c1, s)
      BY <2>2
    <3>2. /\ Keeps(c1, Reject(c1, s), s)
          /\ Reject(c1, s).call = c1.call
          /\ Reject(c1, s).state[s] \in {c1.state[s], "SENTREJECT"}
      BY <1>3, <1>4, RejectKeeps
    <3> HIDE DEF c2
    <3> QED
      BY <1>3, <1>4, <3>1, <3>2 DEF Keeps
  <2> QED
    BY <2>1, <2>2
<1>6. c2.call # None => c2.call # s /\ c2.state[c2.call] \in Live \cup {"SENTREJECT"}
  BY <1>1, <1>2, <1>3, <1>5 DEF Current
<1> HIDE DEF c2
<1>7. Handled(c2, c3, s) /\ SameObjects(c2, c3)
  BY <1>5, <1>6, AnnounceHandled
<1> HIDE DEF c3
<1>8. Alive(c3.state, s)
  BY <1>5, <1>7 DEF SameObjects, Alive
<1>9. Whole(c4) /\ SameObjects(c3, c4) /\ c4.state = c3.state /\ c4.call = c3.call
  BY <1>7, <1>8, EnqueueWhole DEF Handled
<1>10. OnInitiate(c, s, codecs) = c4
  BY DEF OnInitiate, c1, c2, c3
<1> HIDE DEF c4
<1> QED
  BY <1>1, <1>3, <1>5, <1>7, <1>9, <1>10 DEF Handled, Current

(* The other stanzas: a state is entered, the call client may end its call, *)
(* the dialog is told.                                                     *)
LEMMA ReceivedHandled ==
  ASSUME NEW c, Whole(c), Current(c), NEW s \in Sessions, Alive(c.state, s),
         NEW st \in {"RECEIVEDREJECT", "RECEIVEDTERMINATE"}, NEW n \in Notices
  PROVE  LET d == Enqueue(Notify(EndMine(Enter(c, s, st), s), n), "STATE", s)
         IN  Handled(c, d, s) /\ SameObjects(c, d)
<1> DEFINE c1 == Enter(c, s, st)
           c2 == EndMine(c1, s)
           c3 == Notify(c2, n)
           c4 == Enqueue(c3, "STATE", s)
<1>1. c.state \in [Sessions -> States] /\ c.call \in Sessions \cup {None} /\ st \in Over
  BY DEF Whole, Objects, Over
<1>2. /\ Whole(c1) /\ SameObjects(c, c1) /\ c1.call = c.call
      /\ c1.state = [c.state EXCEPT ![s] = st]
  BY <1>1, EnterWhole
<1> HIDE DEF c1
<1>3. Alive(c1.state, s)
  BY <1>2 DEF SameObjects, Alive
<1>4. Keeps(c1, c2, s) /\ c2.call = IF c1.call = s THEN None ELSE c1.call
  BY <1>2, <1>3, EndMineKeeps
<1> HIDE DEF c2
<1>5. Whole(c3) /\ SameObjects(c2, c3) /\ c3.state = c2.state /\ c3.call = c2.call
  BY <1>4, NotifyWhole DEF Keeps
<1> HIDE DEF c3
<1>6. Alive(c3.state, s)
  BY <1>3, <1>4, <1>5 DEF Keeps, SameObjects, Alive
<1>7. Whole(c4) /\ SameObjects(c3, c4) /\ c4.state = c3.state /\ c4.call = c3.call
  BY <1>5, <1>6, EnqueueWhole
<1> HIDE DEF c4
<1>8. Handled(c, c4, s) /\ SameObjects(c, c4)
  BY <1>1, <1>2, <1>4, <1>5, <1>7 DEF Keeps, Handled, Current, SameObjects
<1> QED
  BY <1>8 DEF c1, c2, c3, c4

LEMMA OnAcceptHandled ==
  ASSUME NEW c, Whole(c), Current(c), NEW s \in Sessions, Alive(c.state, s)
  PROVE  Handled(c, OnAccept(c, s), s) /\ SameObjects(c, OnAccept(c, s))
<1>1. CASE c.state[s] = "RECEIVEDACCEPT"
  BY <1>1 DEF OnAccept, Handled, SameObjects
<1>2. CASE c.state[s] # "RECEIVEDACCEPT"
  <2> DEFINE c1 == Enter(c, s, "RECEIVEDACCEPT")
             c2 == Notify(c1, "ANSWERED")
             c3 == Enqueue(c2, "STATE", s)
  <2>1. c.state \in [Sessions -> States] /\ c.call \in Sessions \cup {None}
    BY DEF Whole, Objects
  <2>2. /\ Whole(c1) /\ SameObjects(c, c1) /\ c1.call = c.call
        /\ c1.state = [c.state EXCEPT ![s] = "RECEIVEDACCEPT"]
    BY EnterWhole DEF Live, Talking
  <2> HIDE DEF c1
  <2>3. Whole(c2) /\ SameObjects(c1, c2) /\ c2.state = c1.state /\ c2.call = c1.call
    BY <2>2, NotifyWhole DEF Notices
  <2> HIDE DEF c2
  <2>4. Alive(c2.state, s)
    BY <2>2, <2>3 DEF SameObjects, Alive
  <2>5. Whole(c3) /\ SameObjects(c2, c3) /\ c3.state = c2.state /\ c3.call = c2.call
    BY <2>3, <2>4, EnqueueWhole
  <2>6. OnAccept(c, s) = c3
    BY <1>2 DEF OnAccept, c1, c2
  <2> HIDE DEF c3
  <2> QED
    BY <2>1, <2>2, <2>3, <2>5, <2>6 DEF Handled, Current, SameObjects, Live, Talking
<1> QED
  BY <1>1, <1>2

LEMMA StanzaHandled ==
  ASSUME NEW c, Whole(c), Current(c), NEW m \in Incoming,
         m.type = "INITIATE" => c.state[m.sess] = "absent"
  PROVE  LET d == OnIncomingMessage(c, m)
         IN  /\ Handled(c, d, m.sess)
             /\ m.type # "INITIATE" => SameObjects(c, d)
<1>1. m.sess \in Sessions /\ m.codecs \in BOOLEAN
  BY DEF Incoming
<1>2. CASE m.type = "INITIATE"
  BY <1>1, <1>2, OnInitiateHandled DEF OnIncomingMessage
<1>3. CASE m.type # "INITIATE" /\ ~Exists(c, m.sess)
  BY <1>3 DEF OnIncomingMessage, Handled, SameObjects
<1>4. CASE m.type # "INITIATE" /\ Exists(c, m.sess)
  <2>1. Alive(c.state, m.sess)
    BY <1>4 DEF Exists, Alive
  <2>2. CASE m.type = "ACCEPT"
    BY <1>1, <1>4, <2>1, <2>2, OnAcceptHandled DEF OnIncomingMessage
  <2>3. CASE m.type = "REJECT"
    BY <1>1, <1>4, <2>1, <2>3, ReceivedHandled
       DEF OnIncomingMessage, OnReject, Notices, Handled, SameObjects
  <2>4. CASE m.type = "TERMINATE"
    BY <1>1, <1>4, <2>1, <2>4, ReceivedHandled
       DEF OnIncomingMessage, OnTerminate, Notices, Handled, SameObjects
  <2>5. CASE m.type \notin {"ACCEPT", "REJECT", "TERMINATE"}
    <3>1. OnIncomingMessage(c, m) = SetError(c, m.sess, "RESPONSE")
      BY <1>4, <2>5 DEF OnIncomingMessage
    <3> QED
      BY <1>1, <2>1, <3>1, SetErrorKeeps DEF Handled, Current, SameObjects
  <2> QED
    BY <2>2, <2>3, <2>4, <2>5
<1> QED
  BY <1>2, <1>3, <1>4

-----------------------------------------------------------------------------
(* Posted messages.                                                        *)

(* Erasing messages and stopping a timer leaves the record whole.          *)
LEMMA ClearWhole ==
  ASSUME NEW c, Whole(c), NEW s \in Sessions, NEW ids
  PROVE  LET d == Clear(c, s, ids)
         IN  /\ Whole(d)
             /\ d.state = c.state /\ d.call = c.call
<1> DEFINE cleared == [id |-> "CLEARED", sess |-> None]
           q == [i \in DOMAIN c.queue |->
                   IF c.queue[i].sess = s /\ c.queue[i].id \in ids
                   THEN cleared ELSE c.queue[i]]
           stop == c.timer[s] /\ "TIMEOUT" \notin ids
           d == [c EXCEPT !.queue = q, !.timer[s] = stop]
<1>1. c \in Objects /\ c.queue \in Seq(Messages) /\ c.timer \in [Sessions -> BOOLEAN]
  BY DEF Whole, Objects
<1>2. cleared \in Messages /\ cleared.id = "CLEARED"
  BY DEF Messages
<1> HIDE DEF cleared
<1>3. q \in Seq(Messages)
  BY <1>1, <1>2
<1>4. \A i \in DOMAIN q : i \in DOMAIN c.queue /\ q[i] \in {c.queue[i], cleared}
  OBVIOUS
<1>5. stop \in BOOLEAN /\ (stop => c.timer[s])
  BY <1>1
<1> HIDE DEF q, stop
<1>6. /\ d \in Objects
      /\ d.queue = q /\ d.timer = [c.timer EXCEPT ![s] = stop]
      /\ d.state = c.state /\ d.calls = c.calls /\ d.focus = c.focus /\ d.call = c.call
  BY <1>1, <1>3, <1>5 DEF Objects
<1>7. Clear(c, s, ids) = d
  BY DEF Clear, q, stop, cleared
<1> HIDE DEF d
<1>8. QueueOK(d.queue, d.state)
  BY <1>2, <1>4, <1>6 DEF Whole, QueueOK
<1>9. TimerOK(d.timer, d.state)
  BY <1>1, <1>5, <1>6 DEF Whole, TimerOK
<1> QED
  BY <1>6, <1>7, <1>8, <1>9 DEF Whole

LEMMA DestroySessionWhole ==
  ASSUME NEW c, Whole(c), NEW s \in Sessions, Alive(c.state, s), c.call # s
  PROVE  LET d == DestroySession(c, s)
         IN  /\ Whole(d)
             /\ d.state = [c.state EXCEPT ![s] = "destroyed"]
             /\ d.call = c.call
<1> DEFINE ids == {"STATE", "ERROR", "TIMEOUT"}
           gone == [Enter(c, s, "destroyed") EXCEPT !.error[s] = "NONE"]
           c1 == Clear(gone, s, ids)
           c2 == Enqueue(c1, "AUTODESTROY", s)
<1>1. /\ c \in Objects /\ c.queue \in Seq(Messages) /\ c.timer \in [Sessions -> BOOLEAN]
      /\ c.call \in Sessions \cup {None} /\ c.state \in [Sessions -> States]
      /\ c.calls \in SUBSET Sessions
  BY DEF Whole, Objects
<1>2. /\ gone \in Objects
      /\ gone.state = [c.state EXCEPT ![s] = "destroyed"]
      /\ gone.queue = c.queue /\ gone.timer = c.timer /\ gone.calls = c.calls
      /\ gone.focus = c.focus /\ gone.call = c.call
  BY <1>1 DEF Enter, Objects, States
<1>3. \A t \in Sessions : /\ t # s => gone.state[t] = c.state[t]
                          /\ gone.state[s] = "destroyed"
  BY <1>1, <1>2
<1> HIDE DEF gone
<1> DEFINE cleared == [id |-> "CLEARED", sess |-> None]
           q == [i \in DOMAIN gone.queue |->
                   IF gone.queue[i].sess = s /\ gone.queue[i].id \in ids
                   THEN cleared ELSE gone.queue[i]]
           stop == gone.timer[s] /\ "TIMEOUT" \notin ids
           d == [gone EXCEPT !.queue = q, !.timer[s] = stop]
<1>4. cleared \in Messages /\ cleared.id = "CLEARED"
  BY DEF Messages
<1> HIDE DEF cleared
<1>5. q \in Seq(Messages)
  BY <1>1, <1>2, <1>4
<1>6. \A i \in DOMAIN q :
        \/ q[i] = cleared
        \/ /\ i \in DOMAIN c.queue /\ q[i] = c.queue[i]
           /\ ~(c.queue[i].sess = s /\ c.queue[i].id \in ids)
  BY <1>2
<1>7. stop = FALSE
  OBVIOUS
<1> HIDE DEF q, stop
<1>8. /\ d \in Objects
      /\ d.queue = q /\ d.timer = [c.timer EXCEPT ![s] = FALSE]
      /\ d.state = gone.state /\ d.calls = c.calls /\ d.focus = c.focus /\ d.call = c.call
  BY <1>1, <1>2, <1>5, <1>7 DEF Objects
<1>9. c1 = d
  BY DEF Clear, q, stop, cleared
<1> HIDE DEF d, c1
<1>10. QueueOK(d.queue, d.state)
  <2>1. QueueOK(c.queue, c.state)
    BY DEF Whole
  <2> QED
    BY <2>1, <1>3, <1>4, <1>6, <1>8 DEF QueueOK, Alive
<1>11. TimerOK(d.timer, d.state)
  BY <1>1, <1>3, <1>8 DEF Whole, TimerOK, Alive
<1>12. CallsOK(d.calls, d.state)
  BY <1>3, <1>8 DEF Whole, CallsOK, Alive
<1>13. CallOK(d.call, d.state)
  BY <1>1, <1>3, <1>8 DEF Whole, CallOK, Alive
<1>14. Whole(c1)
  BY <1>8, <1>9, <1>10, <1>11, <1>12, <1>13 DEF Whole
<1>15. Whole(c2) /\ c2.state = c1.state /\ c2.call = c1.call
  BY <1>3, <1>8, <1>9, <1>14, EnqueueWhole
<1>16. DestroySession(c, s) = c2
  BY DEF DestroySession, c1, gone
<1> HIDE DEF c2
<1> QED
  BY <1>2, <1>8, <1>9, <1>15, <1>16

LEMMA DestroyCallWhole ==
  ASSUME NEW c, Whole(c), NEW s \in Sessions, c.state[s] = "destroyed"
  PROVE  LET d == DestroyCall(c, s)
         IN  Whole(d) /\ d.state = c.state /\ d.call = c.call
<1> DEFINE d == DestroyCall(c, s)
<1>1. c \in Objects
  BY DEF Whole
<1>2. /\ d \in Objects
      /\ d.calls = c.calls \ {s}
      /\ d.focus = IF c.focus = s THEN None ELSE c.focus
      /\ d.queue = c.queue /\ d.state = c.state /\ d.timer = c.timer /\ d.call = c.call
  BY <1>1 DEF DestroyCall, Objects
<1> HIDE DEF d
<1>3. CallsOK(d.calls, d.state) /\ FocusOK(d.focus, d.calls)
  BY <1>2 DEF Whole, CallsOK, FocusOK, Alive
<1>4. Whole(d) /\ d.state = c.state /\ d.call = c.call
  BY <1>2, <1>3 DEF Whole
<1> QED
  BY <1>4 DEF d

LEMMA ProgressHandled ==
  ASSUME NEW c, Whole(c), Current(c), NEW s \in Sessions,
         c.state[s] \in {"SENTACCEPT", "RECEIVEDACCEPT"}, NEW writable \in BOOLEAN
  PROVE  LET d == Progress(c, s, writable)
         IN  /\ Handled(c, d, s)
             /\ SameObjects(c, d)
<1> DEFINE c1 == Enter(c, s, "INPROGRESS")
           c2 == [c1 EXCEPT !.focus = c.call]
           c3 == Notify(c2, "IN_PROGRESS")
           c4 == Enqueue(c3, "STATE", s)
           c5 == Clear(c4, s, {"TIMEOUT"})
           c6 == [c5 EXCEPT !.timer[s] = ~writable]
<1>1. /\ c.state \in [Sessions -> States] /\ c.call \in Sessions \cup {None}
      /\ Alive(c.state, s)
  BY DEF Whole, Objects, Alive
<1>2. /\ Whole(c1) /\ SameObjects(c, c1) /\ c1.call = c.call
      /\ c1.state = [c.state EXCEPT ![s] = "INPROGRESS"]
  BY <1>1, EnterWhole DEF Live, Talking
<1> HIDE DEF c1
<1>3. /\ c2 \in Objects /\ c2.focus = c.call
      /\ c2.state = c1.state /\ c2.queue = c1.queue /\ c2.timer = c1.timer
      /\ c2.calls = c1.calls /\ c2.call = c1.call
  BY <1>1, <1>2 DEF Whole, Objects
<1>4. FocusOK(c2.focus, c2.calls)
  BY <1>1, <1>2, <1>3 DEF Whole, FocusOK, CallOK, CallsOK
<1>5. Whole(c2)
  BY <1>2, <1>3, <1>4 DEF Whole
<1> HIDE DEF c2
<1>6. Whole(c3) /\ SameObjects(c2, c3) /\ c3.state = c2.state /\ c3.call = c2.call
  BY <1>5, NotifyWhole DEF Notices
<1> HIDE DEF c3
<1>7. Alive(c3.state, s)
  BY <1>1, <1>2, <1>3, <1>6 DEF Alive
<1>8. Whole(c4) /\ SameObjects(c3, c4) /\ c4.state = c3.state /\ c4.call = c3.call
  BY <1>6, <1>7, EnqueueWhole
<1> HIDE DEF c4
<1>9. Whole(c5) /\ c5.state = c4.state /\ c5.call = c4.call
  BY <1>8, ClearWhole
<1> HIDE DEF c5
<1>10. /\ c6 \in Objects
       /\ \A t \in Sessions : c6.timer[t] => c5.timer[t] \/ t = s
       /\ c6.state = c5.state /\ c6.queue = c5.queue /\ c6.calls = c5.calls
       /\ c6.focus = c5.focus /\ c6.call = c5.call
  BY <1>9 DEF Whole, Objects
<1> HIDE DEF c6
<1>11. TimerOK(c6.timer, c6.state)
  BY <1>7, <1>8, <1>9, <1>10 DEF Whole, TimerOK
<1>12. Whole(c6)
  BY <1>9, <1>10, <1>11 DEF Whole
<1>13. Progress(c, s, writable) = c6
  BY DEF Progress, c1, c2, c3, c4, c5, c6
<1>14. c6.state = [c.state EXCEPT ![s] = "INPROGRESS"] /\ c6.call = c.call
  BY <1>2, <1>3, <1>6, <1>8, <1>9, <1>10
<1> QED
  BY <1>1, <1>12, <1>13, <1>14 DEF Handled, Current, SameObjects, Live, Talking

LEMMA PostedHandled ==
  ASSUME NEW c, Whole(c), Current(c), NEW m \in Messages, NEW writable \in BOOLEAN,
         m.id \in {"STATE", "ERROR", "TIMEOUT"} => m.sess \in Sessions /\ Alive(c.state, m.sess),
         m.id = "AUTODESTROY" => m.sess \in Sessions /\ c.state[m.sess] = "destroyed"
  PROVE  LET d == OnPosted(c, m, writable)
         IN  /\ Whole(d)
             /\ Current(d)
             /\ \A t \in Sessions : d.state[t] = "absent" <=> c.state[t] = "absent"
<1> DEFINE d == OnPosted(c, m, writable)
           s == m.sess
<1> SUFFICES /\ Whole(d)
             /\ Current(d)
             /\ \A t \in Sessions : d.state[t] = "absent" <=> c.state[t] = "absent"
  OBVIOUS
<1>0. d = OnPosted(c, m, writable)
  OBVIOUS
<1>s. s = m.sess
  OBVIOUS
<1> HIDE DEF d, s
<1>1. c.state \in [Sessions -> States] /\ c.call \in Sessions \cup {None}
  BY DEF Whole, Objects
<1>2. CASE m.id = "STATE"
  <2>1. s \in Sessions /\ Alive(c.state, s)
    BY <1>2, <1>s
  <2>2. d = OnState(c, s, writable)
    BY <1>0, <1>s, <1>2 DEF OnPosted
  <2>3. CASE c.state[s] \in {"SENTACCEPT", "RECEIVEDACCEPT"}
    <3>1. d = Progress(c, s, writable)
      BY <2>2, <2>3 DEF OnState
    <3> QED
      BY <2>1, <2>3, <3>1, ProgressHandled DEF Handled, SameObjects
  <2>4. CASE c.state[s] \in {"SENTREJECT", "RECEIVEDREJECT"}
    <3>1. d = Terminate(c, s)
      BY <2>2, <2>4 DEF OnState
    <3>2. Keeps(c, d, s) /\ d.call = IF c.call = s THEN None ELSE c.call
      BY <2>1, <2>4, <3>1, TerminateKeeps
    <3> QED
      BY <1>1, <3>2 DEF Keeps, SameObjects, Current
  <2>5. CASE c.state[s] \in {"SENTTERMINATE", "RECEIVEDTERMINATE"}
    <3>1. d = DestroySession(c, s)
      BY <2>2, <2>5 DEF OnState
    <3>2. c.call # s
      BY <2>1, <2>5, CallClientConstants DEF Current, Live, Ringing, Talking
    <3>3. /\ Whole(d) /\ d.call = c.call
          /\ d.state = [c.state EXCEPT ![s] = "destroyed"]
      BY <2>1, <3>1, <3>2, DestroySessionWhole
    <3> QED
      BY <1>1, <2>1, <2>5, <3>2, <3>3 DEF Current
  <2>6. CASE c.state[s] \notin {"SENTACCEPT", "RECEIVEDACCEPT", "SENTREJECT",
                               "RECEIVEDREJECT", "SENTTERMINATE", "RECEIVEDTERMINATE"}
    BY <2>2, <2>6 DEF OnState
  <2> QED
    BY <2>3, <2>4, <2>5, <2>6
<1>3. CASE m.id = "TIMEOUT"
  <2>1. d = SetError(c, s, "TIME")
    BY <1>0, <1>s, <1>3 DEF OnPosted
  <2>2. Whole(d) /\ d.state = c.state /\ d.call = c.call
    BY <1>3, <1>s, <2>1, SetErrorKeeps
  <2> QED
    BY <2>2 DEF Current
<1>4. CASE m.id = "ERROR"
  <2>1. d = Terminate(c, s)
    BY <1>0, <1>s, <1>4 DEF OnPosted
  <2>2. Alive(c.state, s) /\ s \in Sessions
    BY <1>4, <1>s
  <2>3. /\ Keeps(c, d, s)
        /\ d.call = IF c.call = s /\ c.state[s] # "SENTTERMINATE" THEN None ELSE c.call
    BY <2>1, <2>2, TerminateKeeps
  <2>4. Current(d)
    BY <1>1, <2>2, <2>3, CallClientConstants DEF Keeps, Current, Live, Ringing, Talking
  <2> QED
    BY <2>3, <2>4 DEF Keeps, SameObjects
<1>5. CASE m.id = "AUTODESTROY"
  <2>1. d = DestroyCall(c, s)
    BY <1>0, <1>s, <1>5 DEF OnPosted
  <2>2. Whole(d) /\ d.state = c.state /\ d.call = c.call
    BY <1>5, <1>s, <2>1, DestroyCallWhole
  <2> QED
    BY <2>2 DEF Current
<1>6. CASE m.id \notin {"STATE", "TIMEOUT", "ERROR", "AUTODESTROY"}
  BY <1>0, <1>6 DEF OnPosted
<1> QED
  BY <1>2, <1>3, <1>4, <1>5, <1>6

-----------------------------------------------------------------------------
(* Commands.                                                               *)
LEMMA InitiateWhole ==
  ASSUME NEW c, Whole(c), NEW s \in Sessions, c.state[s] = "absent"
  PROVE  LET d == Initiate(c, s)
         IN  /\ Handled(c, d, s)
             /\ d.state = [c.state EXCEPT ![s] = "SENTINITIATE"]
<1> DEFINE c0 == [c EXCEPT !.calls = @ \cup {s}, !.call = s]
           c1 == Transmit(c0, s, "INITIATE")
           c2 == Enter(c1, s, "SENTINITIATE")
           c3 == Notify(c2, "CALLING")
           c4 == Enqueue(c3, "STATE", s)
           c5 == [c4 EXCEPT !.timer[s] = TRUE]
<1>1. /\ c \in Objects /\ c.state \in [Sessions -> States]
      /\ "SENTINITIATE" \in States
  BY DEF Whole, Objects, States, Live, Ringing
<1>2. /\ c0 \in Objects /\ c0.call = s /\ c0.calls = c.calls \cup {s}
      /\ c0.state = c.state /\ c0.queue = c.queue /\ c0.timer = c.timer
      /\ c0.focus = c.focus /\ c0.sent \in Seq(Stanzas \X Sessions)
  BY <1>1 DEF Objects
<1> HIDE DEF c0
<1>3. Append(c0.sent, <<"INITIATE", s>>) \in Seq(Stanzas \X Sessions)
  BY <1>2 DEF Stanzas
<1>4. /\ c1 \in Objects /\ c1.call = s /\ c1.calls = c.calls \cup {s}
      /\ c1.state = c.state /\ c1.queue = c.queue /\ c1.timer = c.timer
      /\ c1.focus = c.focus
  BY <1>2, <1>3 DEF Objects, Transmit
<1> HIDE DEF c1
<1>5. /\ c2 \in Objects /\ c2.call = s /\ c2.calls = c.calls \cup {s}
      /\ c2.state = [c.state EXCEPT ![s] = "SENTINITIATE"]
      /\ c2.queue = c.queue /\ c2.timer = c.timer /\ c2.focus = c.focus
  BY <1>1, <1>4 DEF Objects, Enter
<1> HIDE DEF c2
<1>6. \A t \in Sessions : /\ Alive(c2.state, t) <=> Alive(c.state, t) \/ t = s
                          /\ c2.state[t] = "destroyed" <=> c.state[t] = "destroyed"
  BY <1>1, <1>5 DEF Alive
<1>7. QueueOK(c2.queue, c2.state) /\ TimerOK(c2.timer, c2.state)
  BY <1>5, <1>6 DEF Whole, QueueOK, TimerOK
<1>8. CallsOK(c2.calls, c2.state) /\ FocusOK(c2.focus, c2.calls) /\ CallOK(c2.call, c2.state)
  BY <1>5, <1>6 DEF Whole, CallsOK, FocusOK, CallOK
<1>9. Whole(c2)
  BY <1>5, <1>7, <1>8 DEF Whole
<1>10. Whole(c3) /\ c3.state = c2.state /\ c3.call = c2.call
  BY <1>9, NotifyWhole DEF Notices
<1> HIDE DEF c3
<1>11. Alive(c3.state, s)
  BY <1>6, <1>10
<1>12. Whole(c4) /\ c4.state = c3.state /\ c4.call = c3.call
  BY <1>10, <1>11, EnqueueWhole
<1> HIDE DEF c4
<1>13. /\ c5 \in Objects
       /\ \A t \in Sessions : c5.timer[t] => c4.timer[t] \/ t = s
       /\ c5.state = c4.state /\ c5.queue = c4.queue /\ c5.calls = c4.calls
       /\ c5.focus = c4.focus /\ c5.call = c4.call
  BY <1>12 DEF Whole, Objects
<1>14. Initiate(c, s) = c5
  BY DEF Initiate, c0, c1, c2, c3, c4
<1> HIDE DEF c5
<1>15. TimerOK(c5.timer, c5.state)
  BY <1>11, <1>12, <1>13 DEF Whole, TimerOK
<1>16. Whole(c5)
  BY <1>12, <1>13, <1>15 DEF Whole
<1> QED
  BY <1>1, <1>5, <1>10, <1>12, <1>13, <1>14, <1>16
     DEF Handled, Current, Live, Ringing

LEMMA CommandHandled ==
  ASSUME NEW c, Whole(c), Current(c), NEW command,
         ~(command = "CALL" /\ c.call = None)
  PROVE  LET d == OnCommand(c, command, None)
         IN  /\ Whole(d)
             /\ Current(d)
             /\ SameObjects(c, d)
<1> DEFINE d == OnCommand(c, command, None)
           s == c.call
<1>1. c.state \in [Sessions -> States] /\ c.call \in Sessions \cup {None}
  BY DEF Whole, Objects
<1>2. CASE command = "HANGUP" /\ c.call # None
  <2>1. d = EndMine(c, s) /\ s \in Sessions /\ Alive(c.state, s)
    BY <1>1, <1>2 DEF OnCommand, Whole, CallOK
  <2> HIDE DEF d
  <2>2. Keeps(c, d, s) /\ d.call = None
    BY <2>1, EndMineKeeps
  <2> QED
    BY <2>2 DEF Keeps, Current, d
<1>3. CASE command = "ACCEPT_CALL" /\ c.call # None
  <2>1. d = Accept(c, s) /\ s \in Sessions /\ Alive(c.state, s)
    BY <1>1, <1>3 DEF OnCommand, Whole, CallOK
  <2> HIDE DEF d
  <2>2. /\ Keeps(c, d, s) /\ d.call = c.call
        /\ d.state[s] \in {c.state[s], "SENTACCEPT"}
    BY <2>1, AcceptKeeps
  <2>3. Current(d)
    BY <2>2 DEF Current, Live, Talking
  <2> QED
    BY <2>2, <2>3 DEF Keeps, d
<1>4. CASE command = "REJECT_CALL" /\ c.call # None
  <2> DEFINE r == Reject(c, s)
  <2>1. d = [r EXCEPT !.call = None] /\ s \in Sessions /\ Alive(c.state, s)
    BY <1>1, <1>4 DEF OnCommand, Whole, CallOK
  <2>2. Keeps(c, r, s)
    BY <2>1, RejectKeeps
  <2> HIDE DEF d, r
  <2>3. /\ d \in Objects
        /\ d.queue = r.queue /\ d.state = r.state /\ d.timer = r.timer
        /\ d.calls = r.calls /\ d.focus = r.focus /\ d.call = None
    BY <2>1, <2>2 DEF Keeps, Whole, Objects
  <2>4. Whole(d) /\ Current(d)
    BY <2>2, <2>3 DEF Keeps, Whole, CallOK, Current
  <2>5. SameObjects(c, d)
    BY <2>2, <2>3 DEF Keeps, SameObjects
  <2> QED
    BY <2>4, <2>5 DEF d
<1>5. CASE ~(command \in {"HANGUP", "ACCEPT_CALL", "REJECT_CALL"} /\ c.call # None)
  BY <1>5 DEF OnCommand, SameObjects
<1> QED
  BY <1>2, <1>3, <1>4, <1>5

-----------------------------------------------------------------------------
(* The steps.                                                              *)

(* A queued INITIATE names a session that does not exist yet, that the     *)
(* user cannot take for a call of his own, and that no other one names.    *)
InboxOK ==
  \A i \in DOMAIN inbox : inbox[i].type = "INITIATE" =>
    /\ client.state[inbox[i].sess] = "absent"
    /\ peer[inbox[i].sess] # "idle"
    /\ \A j \in DOMAIN inbox :
         inbox[j].type = "INITIATE" /\ inbox[j].sess = inbox[i].sess => j = i

IInv == TypeOK /\ Whole(client) /\ Current(client) /\ InboxOK

LEMMA IdleWhole ==
  ASSUME Whole(client), Current(client)
  PROVE  /\ Whole(Idle) /\ Current(Idle)
         /\ Idle.state = client.state /\ Idle.call = client.call
         /\ Idle.queue = client.queue
<1>1. client \in Objects
  BY DEF Whole
<1>2. <<>> \in Seq(Notices) /\ <<>> \in Seq(Stanzas \X Sessions)
  OBVIOUS
<1>3. /\ Idle \in Objects
      /\ Idle.queue = client.queue /\ Idle.state = client.state
      /\ Idle.timer = client.timer /\ Idle.calls = client.calls
      /\ Idle.focus = client.focus /\ Idle.call = client.call
  BY <1>1, <1>2 DEF Idle, Objects
<1> QED
  BY <1>3 DEF Whole, Current

LEMMA PoppedWhole ==
  ASSUME Whole(client), Current(client), client.queue # <<>>
  PROVE  /\ Whole(Popped) /\ Current(Popped)
         /\ Popped.state = client.state /\ Popped.call = client.call
<1>1. Whole(Idle) /\ Current(Idle) /\ Idle \in Objects
      /\ Idle.state = client.state /\ Idle.call = client.call
      /\ Idle.queue = client.queue
  BY IdleWhole DEF Whole
<1>2. Idle.queue \in Seq(Messages) /\ Tail(Idle.queue) \in Seq(Messages)
  BY <1>1 DEF Objects
<1>3. /\ Popped \in Objects
      /\ Popped.queue = Tail(Idle.queue) /\ Popped.state = Idle.state
      /\ Popped.timer = Idle.timer /\ Popped.calls = Idle.calls
      /\ Popped.focus = Idle.focus /\ Popped.call = Idle.call
  BY <1>1, <1>2 DEF Popped, Objects
<1>4. \A i \in DOMAIN Tail(Idle.queue) :
        i + 1 \in DOMAIN Idle.queue /\ Tail(Idle.queue)[i] = Idle.queue[i + 1]
  BY <1>1, <1>2
<1>5. QueueOK(Popped.queue, Popped.state)
  BY <1>1, <1>3, <1>4 DEF Whole, QueueOK
<1> QED
  BY <1>1, <1>3, <1>5 DEF Whole, Current

LEMMA InitInvariant == Init => IInv
<1> SUFFICES ASSUME Init PROVE IInv
  OBVIOUS
<1>1. TypeOK
  BY DEF Init, TypeOK, Objects, States, Live, Ringing, Over
<1>2. QueueOK(client.queue, client.state)
  BY DEF Init, QueueOK
<1>3. Whole(client)
  BY <1>1, <1>2, CallClientConstants
     DEF Init, TypeOK, Whole, TimerOK, CallsOK, FocusOK, CallOK, Alive
<1>4. Current(client) /\ InboxOK
  BY DEF Init, Current, InboxOK
<1> QED
  BY <1>1, <1>3, <1>4 DEF IInv

LEMMA InboxSessions ==
  ASSUME IInv
  PROVE  \A i \in DOMAIN inbox : inbox[i].sess \in Sessions
<1>1. inbox \in Seq(Incoming)
  BY DEF IInv, TypeOK
<1>2. \A i \in DOMAIN inbox : inbox[i] \in Incoming
  BY <1>1
<1>3. \A m \in Incoming : m.sess \in Sessions
  BY DEF Incoming
<1> QED
  BY <1>2, <1>3

LEMMA InboxKept ==
  ASSUME IInv, inbox' = inbox,
         \A s \in Sessions : client.state[s] = "absent" /\ peer[s] # "idle"
                               => client'.state[s] = "absent" /\ peer'[s] # "idle"
  PROVE  InboxOK'
  BY InboxSessions DEF IInv, InboxOK

LEMMA CommandInvariant ==
  ASSUME IInv, NEW command, Command(command)
  PROVE  IInv'
<1>1. /\ Whole(Idle) /\ Current(Idle)
      /\ Idle.state = client.state /\ Idle.call = client.call
  BY IdleWhole DEF IInv
<1>2. UNCHANGED <<inbox, waiting>> /\ client \in Objects
      /\ peer \in [Sessions -> {"idle", "invited", "joined", "done"}]
  BY DEF Command, IInv, TypeOK
<1>3. CASE command = "CALL" /\ client.call = None
  <2>1. PICK s \in Fresh : /\ client' = OnCommand(Idle, command, s)
                           /\ peer' = [peer EXCEPT ![s] = "invited"]
    BY <1>3 DEF Command
  <2>2. s \in Sessions /\ Idle.state[s] = "absent" /\ peer[s] = "idle"
    BY <1>1, <2>1 DEF Fresh
  <2>3. client' = Initiate(Idle, s)
    BY <1>1, <1>3, <2>1 DEF OnCommand
  <2>4. /\ Whole(client') /\ Current(client')
        /\ client'.state = [client.state EXCEPT ![s] = "SENTINITIATE"]
    BY <1>1, <2>2, <2>3, InitiateWhole DEF Handled
  <2>5. InboxOK'
    <3>1. \A t \in Sessions : client.state[t] = "absent" /\ peer[t] # "idle"
                                => client'.state[t] = "absent" /\ peer'[t] # "idle"
      BY <1>2, <2>1, <2>2, <2>4 DEF Objects
    <3> QED
      BY <1>2, <3>1, InboxKept
  <2> QED
    BY <1>2, <2>1, <2>4, <2>5 DEF IInv, TypeOK, Whole
<1>4. CASE ~(command = "CALL" /\ client.call = None)
  <2>1. client' = OnCommand(Idle, command, None) /\ peer' = peer
    BY <1>4 DEF Command
  <2>2. Whole(client') /\ Current(client') /\ SameObjects(Idle, client')
    BY <1>1, <1>4, <2>1, CommandHandled
  <2>3. InboxOK'
    BY <1>1, <1>2, <2>1, <2>2, InboxKept DEF SameObjects
  <2> QED
    BY <1>2, <2>1, <2>2, <2>3 DEF IInv, TypeOK, Whole
<1> QED
  BY <1>3, <1>4

LEMMA ArriveInvariant ==
  ASSUME IInv, NEW m \in Incoming, Arrive(m)
  PROVE  IInv'
<1> DEFINE q == Append(Idle.queue, Pump)
           c == [Idle EXCEPT !.queue = q]
<1>1. /\ Whole(Idle) /\ Current(Idle) /\ Idle \in Objects
      /\ Idle.state = client.state /\ Idle.call = client.call
      /\ inbox \in Seq(Incoming) /\ waiting' = waiting /\ waiting \in BOOLEAN
      /\ inbox' = Append(inbox, m) /\ m.sess \in Sessions
      /\ peer \in [Sessions -> {"idle", "invited", "joined", "done"}]
  BY IdleWhole DEF IInv, Arrive, Incoming, TypeOK, Whole
<1>2. /\ peer' \in [Sessions -> {"idle", "invited", "joined", "done"}]
      /\ peer'[m.sess] # "idle"
      /\ \A s \in Sessions : peer[s] # "idle" => peer'[s] # "idle"
  BY <1>1 DEF Arrive, PeerAfter
<1>3. Whole(c) /\ Current(c) /\ c.state = client.state
  <2>1. Pump \in Messages /\ Idle.queue \in Seq(Messages)
    BY <1>1 DEF Objects, Pump, Messages
  <2>2. q \in Seq(Messages)
    BY <2>1
  <2>3. QueueOK(q, Idle.state)
    <3>1. \A i \in DOMAIN q :
            (i \in DOMAIN Idle.queue /\ q[i] = Idle.queue[i]) \/ q[i] = Pump
      BY <2>1
    <3>2. Pump.id = "PUMP"
      BY DEF Pump
    <3>3. QueueOK(Idle.queue, Idle.state)
      BY <1>1 DEF Whole
    <3> HIDE DEF q
    <3> QED
      BY <3>1, <3>2, <3>3 DEF QueueOK
  <2> HIDE DEF q
  <2>4. /\ c \in Objects /\ c.queue = q /\ c.state = Idle.state
        /\ c.timer = Idle.timer /\ c.calls = Idle.calls
        /\ c.focus = Idle.focus /\ c.call = Idle.call
    BY <1>1, <2>2 DEF Objects
  <2> QED
    BY <1>1, <2>3, <2>4 DEF Whole, Current
<1>4. client' = Idle \/ client' = c
  BY DEF Arrive
<1> HIDE DEF c
<1>5. Whole(client') /\ Current(client') /\ client'.state = client.state
  BY <1>1, <1>3, <1>4
<1>6. InboxOK'
  <2>1. m.type = "INITIATE" => client.state[m.sess] = "absent" /\ peer[m.sess] = "idle"
    BY DEF Arrive, PeerMay, Fresh
  <2>2. \A i \in DOMAIN inbox : inbox[i].type = "INITIATE" =>
          inbox[i].sess \in Sessions /\ peer[inbox[i].sess] # "idle"
    BY InboxSessions DEF IInv, InboxOK
  <2>3. \A i \in DOMAIN inbox' :
          (i \in DOMAIN inbox /\ inbox'[i] = inbox[i])
            \/ (i = Len(inbox) + 1 /\ inbox'[i] = m)
    BY <1>1
  <2> QED
    BY <1>1, <1>2, <1>5, <2>1, <2>2, <2>3 DEF IInv, InboxOK
<1>7. inbox' \in Seq(Incoming)
  BY <1>1
<1> QED
  BY <1>1, <1>2, <1>5, <1>6, <1>7 DEF IInv, TypeOK, Whole

LEMMA TimerInvariant ==
  ASSUME IInv, NEW s \in Sessions, TimerFires(s)
  PROVE  IInv'
<1> DEFINE c == [Idle EXCEPT !.timer[s] = FALSE]
<1>1. /\ Whole(Idle) /\ Current(Idle) /\ Idle \in Objects
      /\ Idle.state = client.state /\ Idle.call = client.call
  BY IdleWhole DEF IInv, Whole
<1>2. /\ c \in Objects /\ c.queue = Idle.queue /\ c.state = Idle.state
      /\ \A t \in Sessions : c.timer[t] => Idle.timer[t]
      /\ c.calls = Idle.calls /\ c.focus = Idle.focus /\ c.call = Idle.call
  BY <1>1 DEF Objects
<1>3. Alive(client.state, s)
  BY DEF TimerFires, IInv, Whole, TimerOK
<1>4. client' = Enqueue(c, "TIMEOUT", s) /\ UNCHANGED <<inbox, peer>> /\ waiting' = FALSE
  BY DEF TimerFires
<1> HIDE DEF c
<1>5. Whole(c) /\ Current(c)
  BY <1>1, <1>2 DEF Whole, TimerOK, Current
<1>6. Whole(client') /\ client'.state = c.state /\ client'.call = c.call
  <2>1. Alive(c.state, s)
    BY <1>1, <1>2, <1>3
  <2>2. /\ Whole(Enqueue(c, "TIMEOUT", s))
        /\ Enqueue(c, "TIMEOUT", s).state = c.state
        /\ Enqueue(c, "TIMEOUT", s).call = c.call
    BY <1>5, <2>1, EnqueueWhole
  <2> QED
    BY <1>4, <2>2
<1>7. Current(client') /\ client'.state = client.state
  BY <1>1, <1>2, <1>5, <1>6 DEF Current
<1>8. InboxOK'
  BY <1>4, <1>7, InboxKept
<1> QED
  BY <1>4, <1>6, <1>7, <1>8 DEF IInv, TypeOK, Whole

LEMMA DispatchInvariant ==
  ASSUME IInv, Dispatch
  PROVE  IInv'
<1> DEFINE m == Head(client.queue)
<1>1. PICK writable \in BOOLEAN : client' = OnPosted(Popped, m, writable)
  BY DEF Dispatch
<1>2. /\ Whole(Popped) /\ Current(Popped)
      /\ Popped.state = client.state /\ Popped.call = client.call
  BY PoppedWhole DEF IInv, Dispatch
<1>3. client.queue \in Seq(Messages) /\ client.queue # <<>>
  BY DEF Dispatch, IInv, TypeOK, Objects
<1>4. 1 \in DOMAIN client.queue /\ m = client.queue[1] /\ m \in Messages
  BY <1>3
<1>5. /\ m.id \in {"STATE", "ERROR", "TIMEOUT"} =>
           m.sess \in Sessions /\ Alive(client.state, m.sess)
      /\ m.id = "AUTODESTROY" => m.sess \in Sessions /\ client.state[m.sess] = "destroyed"
  BY <1>4 DEF IInv, Whole, QueueOK
<1> HIDE DEF m
<1>6. /\ Whole(client') /\ Current(client')
      /\ \A t \in Sessions : client'.state[t] = "absent" <=> client.state[t] = "absent"
  BY <1>1, <1>2, <1>4, <1>5, PostedHandled
<1>7. UNCHANGED <<inbox, peer>> /\ waiting' \in BOOLEAN
  BY DEF Dispatch, WaitsIfIdle
<1>8. InboxOK'
  BY <1>6, <1>7, InboxKept
<1> QED
  BY <1>6, <1>7, <1>8 DEF IInv, TypeOK, Whole

LEMMA StanzaInvariant ==
  ASSUME IInv, HandleStanza
  PROVE  IInv'
<1> DEFINE m == Head(inbox)
           c == IF Len(inbox) = 1 THEN Popped ELSE Idle
<1>1. client' = OnIncomingMessage(c, m)
  BY DEF HandleStanza
<1>2. Whole(c) /\ Current(c) /\ c.state = client.state
  BY PoppedWhole, IdleWhole DEF IInv, HandleStanza
<1>3. /\ inbox \in Seq(Incoming) /\ inbox # <<>> /\ inbox' = Tail(inbox) /\ peer' = peer
      /\ peer \in [Sessions -> {"idle", "invited", "joined", "done"}]
      /\ waiting' \in BOOLEAN
  BY DEF HandleStanza, IInv, TypeOK, WaitsIfIdle
<1>4. /\ 1 \in DOMAIN inbox /\ m = inbox[1] /\ m \in Incoming
      /\ inbox' \in Seq(Incoming)
      /\ \A i \in DOMAIN inbox' : i + 1 \in DOMAIN inbox /\ i + 1 # 1
                                    /\ inbox'[i] = inbox[i + 1]
  BY <1>3
<1>5. m.type = "INITIATE" => client.state[m.sess] = "absent"
  BY <1>4 DEF IInv, InboxOK
<1> HIDE DEF m, c
<1>6. Handled(c, client', m.sess) /\ (m.type # "INITIATE" => SameObjects(c, client'))
  BY <1>1, <1>2, <1>4, <1>5, StanzaHandled
<1>7. Whole(client') /\ Current(client')
  BY <1>6 DEF Handled
<1>8. \A i \in DOMAIN inbox' : inbox'[i].type = "INITIATE" =>
        /\ inbox'[i].sess \in Sessions
        /\ client.state[inbox'[i].sess] = "absent"
        /\ m.type = "INITIATE" => inbox'[i].sess # m.sess
  BY <1>3, <1>4, InboxSessions DEF IInv, InboxOK
<1>9. \A i \in DOMAIN inbox' : inbox'[i].type = "INITIATE" =>
        client'.state[inbox'[i].sess] = "absent"
  BY <1>2, <1>6, <1>8 DEF Handled, SameObjects
<1>10. \A i \in DOMAIN inbox' : inbox'[i].type = "INITIATE" =>
         /\ peer'[inbox'[i].sess] # "idle"
         /\ \A j \in DOMAIN inbox' :
              inbox'[j].type = "INITIATE" /\ inbox'[j].sess = inbox'[i].sess => j = i
  <2>1. \A i, j \in DOMAIN inbox' : i + 1 = j + 1 => i = j
    BY <1>4
  <2> QED
    BY <1>3, <1>4, <2>1 DEF IInv, InboxOK
<1>11. InboxOK'
  BY <1>9, <1>10 DEF InboxOK
<1> QED
  BY <1>3, <1>4, <1>7, <1>11 DEF IInv, TypeOK, Whole

LEMMA SocketInvariant ==
  ASSUME IInv, NEW s \in Sessions, NEW writable \in BOOLEAN, OnSocketState(s, writable)
  PROVE  IInv'
<1> DEFINE c == [Idle EXCEPT !.timer[s] = TRUE]
<1>1. /\ Whole(Idle) /\ Current(Idle) /\ Idle \in Objects
      /\ Idle.state = client.state /\ Idle.call = client.call
  BY IdleWhole DEF IInv, Whole
<1>2. /\ c \in Objects /\ c.queue = Idle.queue /\ c.state = Idle.state
      /\ \A t \in Sessions : c.timer[t] => Idle.timer[t] \/ t = s
      /\ c.calls = Idle.calls /\ c.focus = Idle.focus /\ c.call = Idle.call
  BY <1>1 DEF Objects
<1>3. Alive(client.state, s)
  BY DEF OnSocketState, Alive
<1>4. client' = Clear(Idle, s, {"TIMEOUT"}) \/ client' = c
  BY DEF OnSocketState
<1> HIDE DEF c
<1>5. Whole(c)
  BY <1>1, <1>2, <1>3 DEF Whole, TimerOK
<1>6. Whole(client') /\ client'.state = client.state /\ client'.call = client.call
  BY <1>1, <1>2, <1>4, <1>5, ClearWhole
<1>7. Current(client') /\ UNCHANGED <<inbox, peer, waiting>>
  BY <1>1, <1>6 DEF Current, OnSocketState, IInv
<1>8. InboxOK'
  BY <1>6, <1>7, InboxKept
<1> QED
  BY <1>6, <1>7, <1>8 DEF IInv, TypeOK, Whole

LEMMA StepInvariant ==
  ASSUME IInv, NEW commands,
         \/ SignallingThread
         \/ \E m \in Incoming : Arrive(m)
         \/ \E command \in commands : Command(command)
  PROVE  IInv'
<1>1. ASSUME NEW command \in commands, Command(command) PROVE IInv'
  BY <1>1, CommandInvariant
<1>2. ASSUME NEW m \in Incoming, Arrive(m) PROVE IInv'
  BY <1>2, ArriveInvariant
<1>3. ASSUME NEW s \in Sessions, TimerFires(s) PROVE IInv'
  BY <1>3, TimerInvariant
<1>4. CASE Dispatch
  BY <1>4, DispatchInvariant
<1>5. CASE HandleStanza
  BY <1>5, StanzaInvariant
<1>6. ASSUME NEW s \in Sessions, NEW writable \in BOOLEAN, OnSocketState(s, writable)
      PROVE  IInv'
  BY <1>6, SocketInvariant
<1> QED
  BY <1>1, <1>2, <1>3, <1>4, <1>5, <1>6 DEF SignallingThread

LEMMA NextInvariant == IInv /\ [Next]_vars => IInv'
<1> SUFFICES ASSUME IInv, [Next]_vars PROVE IInv'
  OBVIOUS
<1>1. CASE Next
  BY <1>1, StepInvariant DEF Next
<1>2. CASE UNCHANGED vars
  BY <1>2 DEF vars, IInv, TypeOK, InboxOK
<1> QED
  BY <1>1, <1>2

LEMMA InvariantHolds == Spec => []IInv
  BY InitInvariant, NextInvariant, PTL DEF Spec

-----------------------------------------------------------------------------
(* Every variable of the signalling thread keeps its type, whatever        *)
(* commands, stanzas and timers come in whatever order.                    *)
THEOREM TypeCorrect == Spec => []TypeOK
<1>1. IInv => TypeOK
  BY DEF IInv
<1> QED
  BY <1>1, InvariantHolds, PTL

(* call_ and session_ of the call client always point at a session that    *)
(* exists and at its Call.                                                 *)
THEOREM CallNeverDangles == Spec => []NoDanglingCall
<1>1. IInv => NoDanglingCall
  <2> SUFFICES ASSUME IInv, client.call # None PROVE NoDanglingCall
    BY DEF NoDanglingCall
  <2>1. client.call \in Sessions /\ Alive(client.state, client.call)
    BY DEF IInv, Whole, Objects, CallOK
  <2> QED
    BY <2>1 DEF IInv, Whole, Current, CallsOK, NoDanglingCall
<1> QED
  BY <1>1, InvariantHolds, PTL

(* The call that has the focus of the phone client exists.                 *)
THEOREM FocusNeverDangles == Spec => []FocusExists
<1>1. IInv => FocusExists
  BY DEF IInv, Whole, FocusOK, FocusExists
<1> QED
  BY <1>1, InvariantHolds, PTL

(* No Call is deleted while its session exists.                            *)
THEOREM SessionsKeepTheirCall == Spec => []SessionHasCall
<1>1. IInv => SessionHasCall
  BY DEF IInv, Whole, CallsOK, Alive, Exists, SessionHasCall
<1> QED
  BY <1>1, InvariantHolds, PTL
-----------------------------------------------------------------------------
(* What a handler makes of each field of the record.                       *)
Msg(id, s) == [id |-> id, sess |-> s]

LEMMA EnterIs ==
  ASSUME NEW c \in Objects, NEW s \in Sessions, NEW st \in States
  PROVE  LET d == Enter(c, s, st)
         IN  /\ d \in Objects /\ d.state = [c.state EXCEPT ![s] = st]
             /\ d.call = c.call /\ d.queue = c.queue
             /\ d.sent = c.sent /\ d.posted = c.posted
BY DEF Enter, Objects

LEMMA TransmitIs ==
  ASSUME NEW c \in Objects, NEW s \in Sessions, NEW st \in Stanzas
  PROVE  LET d == Transmit(c, s, st)
         IN  /\ d \in Objects /\ d.state = c.state
             /\ d.call = c.call /\ d.queue = c.queue
             /\ d.sent = Append(c.sent, <<st, s>>) /\ d.posted = c.posted
<1> DEFINE q == Append(c.sent, <<st, s>>)
<1>1. q \in Seq(Stanzas \X Sessions)
  <2>1. c.sent \in Seq(Stanzas \X Sessions)
    BY DEF Objects
  <2> QED BY <2>1
<1>2. Transmit(c, s, st) = [c EXCEPT !.sent = q]
  BY DEF Transmit
<1> HIDE DEF q
<1>3. LET d == Transmit(c, s, st)
      IN  /\ d \in Objects /\ d.state = c.state
          /\ d.call = c.call /\ d.queue = c.queue
          /\ d.sent = q /\ d.posted = c.posted
  BY <1>1, <1>2 DEF Objects
<1> QED BY <1>3 DEF q

LEMMA NotifyIs ==
  ASSUME NEW c \in Objects, NEW n \in Notices
  PROVE  LET d == Notify(c, n)
         IN  /\ d \in Objects /\ d.state = c.state
             /\ d.call = c.call /\ d.queue = c.queue
             /\ d.sent = c.sent /\ d.posted = Append(c.posted, n)
<1> DEFINE q == Append(c.posted, n)
<1>1. q \in Seq(Notices)
  <2>1. c.posted \in Seq(Notices)
    BY DEF Objects
  <2> QED BY <2>1
<1>2. Notify(c, n) = [c EXCEPT !.posted = q]
  BY DEF Notify
<1> HIDE DEF q
<1>3. LET d == Notify(c, n)
      IN  /\ d \in Objects /\ d.state = c.state
          /\ d.call = c.call /\ d.queue = c.queue
          /\ d.sent = c.sent /\ d.posted = q
  BY <1>1, <1>2 DEF Objects
<1> QED BY <1>3 DEF q

LEMMA EnqueueIs ==
  ASSUME NEW c \in Objects, NEW s \in Sessions,
         NEW id \in {"STATE", "ERROR", "TIMEOUT", "AUTODESTROY"}
  PROVE  LET d == Enqueue(c, id, s)
         IN  /\ d \in Objects /\ d.state = c.state
             /\ d.call = c.call /\ d.queue = Append(c.queue, Msg(id, s))
             /\ d.sent = c.sent /\ d.posted = c.posted
<1> DEFINE q == Append(c.queue, Msg(id, s))
<1>1. q \in Seq(Messages)
  <2>1. c.queue \in Seq(Messages) /\ Msg(id, s) \in Messages
    BY DEF Objects, Msg, Messages
  <2> QED BY <2>1
<1>2. Enqueue(c, id, s) = [c EXCEPT !.queue = q]
  BY DEF Enqueue, Msg
<1> HIDE DEF q
<1>3. LET d == Enqueue(c, id, s)
      IN  /\ d \in Objects /\ d.state = c.state
          /\ d.call = c.call /\ d.queue = q
          /\ d.sent = c.sent /\ d.posted = c.posted
  BY <1>1, <1>2 DEF Objects
<1> QED BY <1>3 DEF q

LEMMA CallIs ==
  ASSUME NEW c \in Objects, NEW s \in Sessions \cup {None}
  PROVE  LET d == [c EXCEPT !.call = s]
         IN  /\ d \in Objects /\ d.state = c.state
             /\ d.call = s /\ d.queue = c.queue
             /\ d.sent = c.sent /\ d.posted = c.posted
BY DEF Objects

LEMMA TerminateIs ==
  ASSUME NEW c \in Objects, NEW s \in Sessions, c.state[s] # "SENTTERMINATE"
  PROVE  LET d == Terminate(c, s)
         IN  /\ d \in Objects /\ d.state = [c.state EXCEPT ![s] = "SENTTERMINATE"]
             /\ d.call = (IF c.call = s THEN None ELSE c.call)
             /\ d.queue = Append(c.queue, Msg("STATE", s))
             /\ d.sent = Append(c.sent, <<"TERMINATE", s>>)
             /\ d.posted = Append(c.posted, "SENTTERMINATE")
<1> DEFINE c1 == Transmit(c, s, "TERMINATE")
           c2 == Enter(c1, s, "SENTTERMINATE")
           n == IF c2.call = s THEN None ELSE c2.call
           c3 == [c2 EXCEPT !.call = n]
           c4 == Notify(c3, "SENTTERMINATE")
           c5 == Enqueue(c4, "STATE", s)
<1>1. /\ c1 \in Objects /\ c1.state = c.state /\ c1.call = c.call /\ c1.queue = c.queue
      /\ c1.sent = Append(c.sent, <<"TERMINATE", s>>) /\ c1.posted = c.posted
  BY TransmitIs DEF Stanzas
<1> HIDE DEF c1
<1>2. /\ c2 \in Objects /\ c2.state = [c1.state EXCEPT ![s] = "SENTTERMINATE"]
      /\ c2.call = c1.call /\ c2.queue = c1.queue
      /\ c2.sent = c1.sent /\ c2.posted = c1.posted
  BY <1>1, EnterIs DEF States, Over
<1> HIDE DEF c2
<1>3. n \in Sessions \cup {None}
  BY <1>2 DEF Objects
<1>4. /\ c3 \in Objects /\ c3.state = c2.state /\ c3.call = n /\ c3.queue = c2.queue
      /\ c3.sent = c2.sent /\ c3.posted = c2.posted
  <2> HIDE DEF n
  <2> QED BY <1>2, <1>3, CallIs
<1> HIDE DEF c3
<1>5. /\ c4 \in Objects /\ c4.state = c3.state /\ c4.call = c3.call /\ c4.queue = c3.queue
      /\ c4.sent = c3.sent /\ c4.posted = Append(c3.posted, "SENTTERMINATE")
  BY <1>4, NotifyIs DEF Notices
<1> HIDE DEF c4
<1>6. /\ c5 \in Objects /\ c5.state = c4.state /\ c5.call = c4.call
      /\ c5.queue = Append(c4.queue, Msg("STATE", s))
      /\ c5.sent = c4.sent /\ c5.posted = c4.posted
  BY <1>5, EnqueueIs
<1>7. Terminate(c, s) = c5
  BY DEF Terminate, OnSentTerminate, c1, c2, c3, c4
<1> HIDE DEF c5
<1> QED
  BY <1>1, <1>2, <1>4, <1>5, <1>6, <1>7

LEMMA AnswerIs ==
  ASSUME NEW c \in Objects, NEW s \in Sessions, NEW stanza \in Stanzas, NEW st \in States
  PROVE  LET d == Enqueue(Notify(Enter(Transmit(c, s, stanza), s, st), "UNSET"), "STATE", s)
         IN  /\ d \in Objects /\ d.state = [c.state EXCEPT ![s] = st]
             /\ d.call = c.call
             /\ d.queue = Append(c.queue, Msg("STATE", s))
             /\ d.sent = Append(c.sent, <<stanza, s>>)
             /\ d.posted = Append(c.posted, "UNSET")
<1> DEFINE c1 == Transmit(c, s, stanza)
           c2 == Enter(c1, s, st)
           c3 == Notify(c2, "UNSET")
           c4 == Enqueue(c3, "STATE", s)
<1>1. /\ c1 \in Objects /\ c1.state = c.state /\ c1.call = c.call /\ c1.queue = c.queue
      /\ c1.sent = Append(c.sent, <<stanza, s>>) /\ c1.posted = c.posted
  BY TransmitIs
<1> HIDE DEF c1
<1>2. /\ c2 \in Objects /\ c2.state = [c1.state EXCEPT ![s] = st]
      /\ c2.call = c1.call /\ c2.queue = c1.queue
      /\ c2.sent = c1.sent /\ c2.posted = c1.posted
  BY <1>1, EnterIs
<1> HIDE DEF c2
<1>3. /\ c3 \in Objects /\ c3.state = c2.state /\ c3.call = c2.call /\ c3.queue = c2.queue
      /\ c3.sent = c2.sent /\ c3.posted = Append(c2.posted, "UNSET")
  BY <1>2, NotifyIs DEF Notices
<1> HIDE DEF c3
<1>4. /\ c4 \in Objects /\ c4.state = c3.state /\ c4.call = c3.call
      /\ c4.queue = Append(c3.queue, Msg("STATE", s))
      /\ c4.sent = c3.sent /\ c4.posted = c3.posted
  BY <1>3, EnqueueIs
<1> HIDE DEF c4
<1>5. /\ c4 \in Objects /\ c4.state = [c.state EXCEPT ![s] = st] /\ c4.call = c.call
      /\ c4.queue = Append(c.queue, Msg("STATE", s))
      /\ c4.sent = Append(c.sent, <<stanza, s>>) /\ c4.posted = Append(c.posted, "UNSET")
  BY <1>1, <1>2, <1>3, <1>4
<1> QED
  BY <1>5 DEF c1, c2, c3, c4

(* A received reject or terminate, for the call client's own call and for  *)
(* another session.                                                        *)
Received(c, s, st, n) ==
  Enqueue(Notify(EndMine(Enter(c, s, st), s), n), "STATE", s)

Both(q, m, n) == Append(Append(q, m), n)

BecomesReceived(c, s, st, n, d) ==
  /\ d \in Objects
  /\ c.call # s =>
       /\ d.state = [c.state EXCEPT ![s] = st]
       /\ d.call = c.call
       /\ d.queue = Append(c.queue, Msg("STATE", s))
       /\ d.sent = c.sent
       /\ d.posted = Append(c.posted, n)
  /\ c.call = s =>
       /\ d.state = [c.state EXCEPT ![s] = "SENTTERMINATE"]
       /\ d.call = None
       /\ d.queue = Both(c.queue, Msg("STATE", s), Msg("STATE", s))
       /\ d.sent = Append(c.sent, <<"TERMINATE", s>>)
       /\ d.posted = Both(c.posted, "SENTTERMINATE", n)

LEMMA ReceivedIs ==
  ASSUME NEW c \in Objects, NEW s \in Sessions, NEW n \in Notices,
         NEW st \in States, st # "SENTTERMINATE"
  PROVE  BecomesReceived(c, s, st, n, Received(c, s, st, n))
<1> DEFINE c1 == Enter(c, s, st)
           c2 == EndMine(c1, s)
           c3 == Notify(c2, n)
           c4 == Enqueue(c3, "STATE", s)
<1>0. c.state \in [Sessions -> States]
  BY DEF Objects
<1>1. /\ c1 \in Objects /\ c1.state = [c.state EXCEPT ![s] = st]
      /\ c1.call = c.call /\ c1.queue = c.queue
      /\ c1.sent = c.sent /\ c1.posted = c.posted
  BY EnterIs
<1> HIDE DEF c1
<1>2. ASSUME c.call = s
      PROVE  /\ c2 \in Objects /\ c2.state = [c.state EXCEPT ![s] = "SENTTERMINATE"]
             /\ c2.call = None /\ c2.queue = Append(c.queue, Msg("STATE", s))
             /\ c2.sent = Append(c.sent, <<"TERMINATE", s>>)
             /\ c2.posted = Append(c.posted, "SENTTERMINATE")
  <2> DEFINE t == Terminate(c1, s)
  <2>1. c1.state[s] # "SENTTERMINATE"
    BY <1>0, <1>1
  <2>2. /\ t \in Objects /\ t.state = [c1.state EXCEPT ![s] = "SENTTERMINATE"]
        /\ t.queue = Append(c1.queue, Msg("STATE", s))
        /\ t.sent = Append(c1.sent, <<"TERMINATE", s>>)
        /\ t.posted = Append(c1.posted, "SENTTERMINATE")
    BY <1>1, <2>1, TerminateIs
  <2>3. c2 = [t EXCEPT !.call = None]
    BY <1>1, <1>2 DEF EndMine
  <2> HIDE DEF t
  <2>4. /\ c2 \in Objects /\ c2.state = t.state /\ c2.call = None /\ c2.queue = t.queue
        /\ c2.sent = t.sent /\ c2.posted = t.posted
    <3> HIDE DEF c2
    <3> QED BY <2>2, <2>3, CallIs
  <2>5. t.state = [c.state EXCEPT ![s] = "SENTTERMINATE"]
    BY <1>0, <1>1, <2>2
  <2> HIDE DEF c2
  <2> QED BY <1>1, <2>2, <2>4, <2>5
<1>3. c.call # s => c2 = c1
  BY <1>1 DEF EndMine
<1>4. c2 \in Objects
  <2> HIDE DEF c2
  <2> QED BY <1>1, <1>2, <1>3
<1> HIDE DEF c2
<1>5. /\ c3 \in Objects /\ c3.state = c2.state /\ c3.call = c2.call /\ c3.queue = c2.queue
      /\ c3.sent = c2.sent /\ c3.posted = Append(c2.posted, n)
  BY <1>4, NotifyIs
<1> HIDE DEF c3
<1>6. /\ c4 \in Objects /\ c4.state = c3.state /\ c4.call = c3.call
      /\ c4.queue = Append(c3.queue, Msg("STATE", s))
      /\ c4.sent = c3.sent /\ c4.posted = c3.posted
  BY <1>5, EnqueueIs
<1>7. Received(c, s, st, n) = c4
  BY DEF Received, c1, c2, c3
<1> HIDE DEF c4
<1>8. c.call # s =>
        /\ c4.state = [c.state EXCEPT ![s] = st]
        /\ c4.call = c.call
        /\ c4.queue = Append(c.queue, Msg("STATE", s))
        /\ c4.sent = c.sent
        /\ c4.posted = Append(c.posted, n)
  BY <1>1, <1>3, <1>5, <1>6
<1>9. c.call = s =>
        /\ c4.state = [c.state EXCEPT ![s] = "SENTTERMINATE"]
        /\ c4.call = None
        /\ c4.queue = Both(c.queue, Msg("STATE", s), Msg("STATE", s))
        /\ c4.sent = Append(c.sent, <<"TERMINATE", s>>)
        /\ c4.posted = Both(c.posted, "SENTTERMINATE", n)
  BY <1>2, <1>5, <1>6 DEF Both
<1>10. BecomesReceived(c, s, st, n, c4)
  BY <1>6, <1>8, <1>9 DEF BecomesReceived
<1> QED
  BY <1>7, <1>10

LEMMA OnAcceptIs ==
  ASSUME NEW c \in Objects, NEW s \in Sessions, c.state[s] # "RECEIVEDACCEPT"
  PROVE  LET d == OnAccept(c, s)
         IN  /\ d \in Objects /\ d.state = [c.state EXCEPT ![s] = "RECEIVEDACCEPT"]
             /\ d.call = c.call
             /\ d.queue = Append(c.queue, Msg("STATE", s))
             /\ d.sent = c.sent
             /\ d.posted = Append(c.posted, "ANSWERED")
<1> DEFINE c1 == Enter(c, s, "RECEIVEDACCEPT")
           c2 == Notify(c1, "ANSWERED")
           c3 == Enqueue(c2, "STATE", s)
<1>1. /\ c1 \in Objects /\ c1.state = [c.state EXCEPT ![s] = "RECEIVEDACCEPT"]
      /\ c1.call = c.call /\ c1.queue = c.queue
      /\ c1.sent = c.sent /\ c1.posted = c.posted
  BY EnterIs DEF States, Live, Talking
<1> HIDE DEF c1
<1>2. /\ c2 \in Objects /\ c2.state = c1.state /\ c2.call = c1.call /\ c2.queue = c1.queue
      /\ c2.sent = c1.sent /\ c2.posted = Append(c1.posted, "ANSWERED")
  BY <1>1, NotifyIs DEF Notices
<1> HIDE DEF c2
<1>3. /\ c3 \in Objects /\ c3.state = c2.state /\ c3.call = c2.call
      /\ c3.queue = Append(c2.queue, Msg("STATE", s))
      /\ c3.sent = c2.sent /\ c3.posted = c2.posted
  BY <1>2, EnqueueIs
<1>4. OnAccept(c, s) = c3
  BY DEF OnAccept, c1, c2
<1> HIDE DEF c3
<1> QED
  BY <1>1, <1>2, <1>3, <1>4
-----------------------------------------------------------------------------
(* What a handler of one session does with a record that nothing was sent  *)
(* or posted from yet.                                                     *)

(* The message for the state of the session is still to be dispatched.     *)
Pending(c, s) == \E i \in DOMAIN c.queue : c.queue[i] = Msg("STATE", s)

(* Messages for the session's state are added, its timeouts may go.        *)
Longer(q, r, s) ==
  /\ DOMAIN q \subseteq DOMAIN r
  /\ \A i \in DOMAIN q :
       r[i] = q[i] \/ (q[i] = Msg("TIMEOUT", s) /\ r[i] = Msg("CLEARED", None))
  /\ \A i \in DOMAIN r \ DOMAIN q : r[i] = Msg("STATE", s)

(* A session moves forward.                                                *)
Forward(a, b) ==
  \/ PhaseOf(a) = PhaseOf(b)
  \/ a = "absent" /\ b \in Ringing \cup Over
  \/ a \in Ringing /\ b \in Talking
  \/ a \in Live /\ b \in Over
  \/ a \in Over /\ b = "destroyed"

Tells(d) == \E i \in DOMAIN d.posted : d.posted[i] \in Closing
Sends(d, s) == \E i \in DOMAIN d.sent : d.sent[i] = <<"TERMINATE", s>>

Clean(c) == c \in Objects /\ c.sent = <<>> /\ c.posted = <<>>

(* The step's part that the dialog and the peers see.                      *)
Shows(c, d, s) ==
  /\ \A t \in Sessions \ {s} : d.state[t] = c.state[t]
  /\ Forward(c.state[s], d.state[s])
  /\ c.state[s] \in Live /\ d.state[s] \in Over \ {"SENTREJECT"} => Tells(d)
  /\ \A t \in Sessions :
       Sends(d, t) => t = s /\ c.state[s] \notin {"SENTTERMINATE", "RECEIVEDTERMINATE"}

(* A new state is told to the session's own handler.                       *)
Does(c, d, s) ==
  /\ d \in Objects
  /\ Shows(c, d, s)
  /\ Longer(c.queue, d.queue, s)
  /\ d.state[s] = c.state[s] \/ Pending(d, s)

(* The call client knows every session that is alive.                      *)
Owned(c) == \A t \in Sessions : c.state[t] \in Live => c.call = t

(* What becomes of a call that its peer was asked for and has not answered. *)
Unanswered == {"SENTINITIATE", "SENTTERMINATE", "destroyed"}

LEMMA LongerSelf ==
  ASSUME NEW q, NEW s
  PROVE  Longer(q, q, s)
BY DEF Longer

LEMMA LongerOnce ==
  ASSUME NEW q \in Seq(Messages), NEW s \in Sessions,
         NEW r, r = Append(q, Msg("STATE", s))
  PROVE  /\ Longer(q, r, s)
         /\ \E i \in DOMAIN r : r[i] = Msg("STATE", s)
<1>1. DOMAIN q = 1..Len(q) /\ DOMAIN r = 1..(Len(q) + 1) /\ Len(q) \in Nat
  OBVIOUS
<1>2. (\A i \in DOMAIN q : r[i] = q[i]) /\ r[Len(q) + 1] = Msg("STATE", s)
  BY <1>1
<1> QED BY <1>1, <1>2 DEF Longer

LEMMA LongerTwice ==
  ASSUME NEW q \in Seq(Messages), NEW s \in Sessions,
         NEW r, r = Append(Append(q, Msg("STATE", s)), Msg("STATE", s))
  PROVE  /\ Longer(q, r, s)
         /\ \E i \in DOMAIN r : r[i] = Msg("STATE", s)
<1> DEFINE p == Append(q, Msg("STATE", s))
<1>0. p \in Seq(Messages)
  <2>1. Msg("STATE", s) \in Messages
    BY DEF Msg, Messages
  <2> QED BY <2>1
<1>1. Longer(q, p, s) /\ \E i \in DOMAIN p : p[i] = Msg("STATE", s)
  BY LongerOnce
<1>2. r = Append(p, Msg("STATE", s))
  OBVIOUS
<1> HIDE DEF p
<1>3. DOMAIN p \subseteq DOMAIN r /\ (\A i \in DOMAIN p : r[i] = p[i])
      /\ \A i \in DOMAIN r \ DOMAIN p : r[i] = Msg("STATE", s)
  <2>1. DOMAIN p = 1..Len(p) /\ DOMAIN r = 1..(Len(p) + 1) /\ Len(p) \in Nat
    BY <1>0, <1>2
  <2>2. (\A i \in DOMAIN p : r[i] = p[i]) /\ r[Len(p) + 1] = Msg("STATE", s)
    BY <1>0, <1>2, <2>1
  <2> QED BY <2>1, <2>2
<1> QED BY <1>1, <1>3 DEF Longer

LEMMA First ==
  ASSUME NEW x
  PROVE  /\ \A i \in DOMAIN Append(<<>>, x) : Append(<<>>, x)[i] = x
         /\ 1 \in DOMAIN Append(<<>>, x) /\ Append(<<>>, x)[1] = x
OBVIOUS

LEMMA OneSent ==
  ASSUME NEW d, NEW st, NEW s \in Sessions, d.sent = Append(<<>>, <<st, s>>)
  PROVE  \A t \in Sessions : Sends(d, t) => t = s /\ st = "TERMINATE"
<1> SUFFICES ASSUME NEW t \in Sessions, NEW i \in DOMAIN d.sent, d.sent[i] = <<"TERMINATE", t>>
             PROVE  t = s /\ st = "TERMINATE"
  BY DEF Sends
<1>1. d.sent[i] = <<st, s>>
  BY First
<1> QED BY <1>1

LEMMA NothingSent ==
  ASSUME NEW d, d.sent = <<>>
  PROVE  \A t : ~Sends(d, t)
<1>1. DOMAIN <<>> = {}
  OBVIOUS
<1> QED BY <1>1 DEF Sends

LEMMA OnePosted ==
  ASSUME NEW d, NEW n, d.posted = Append(<<>>, n)
  PROVE  n \in Closing => Tells(d)
BY First DEF Tells

LEMMA TwoPosted ==
  ASSUME NEW d, NEW m \in Notices, NEW n \in Notices, d.posted = Append(Append(<<>>, m), n)
  PROVE  m \in Closing => Tells(d)
<1>1. 1 \in DOMAIN Append(Append(<<>>, m), n) /\ Append(Append(<<>>, m), n)[1] = m
  OBVIOUS
<1> QED BY <1>1 DEF Tells

LEMMA OneQueued ==
  ASSUME NEW c \in Objects, NEW d, NEW s \in Sessions,
         d.queue = Append(c.queue, Msg("STATE", s))
  PROVE  Longer(c.queue, d.queue, s) /\ Pending(d, s)
<1>1. c.queue \in Seq(Messages)
  BY DEF Objects
<1> QED BY <1>1, LongerOnce DEF Pending

LEMMA TwoQueued ==
  ASSUME NEW c \in Objects, NEW d, NEW s \in Sessions,
         d.queue = Append(Append(c.queue, Msg("STATE", s)), Msg("STATE", s))
  PROVE  Longer(c.queue, d.queue, s) /\ Pending(d, s)
<1>1. c.queue \in Seq(Messages)
  BY DEF Objects
<1> QED BY <1>1, LongerTwice DEF Pending

LEMMA NothingDone ==
  ASSUME NEW c, Clean(c), NEW s \in Sessions
  PROVE  Does(c, c, s)
<1>1. Longer(c.queue, c.queue, s)
  BY LongerSelf
<1>2. \A t : ~Sends(c, t)
  BY NothingSent DEF Clean
<1>3. c \in Objects
  BY DEF Clean
<1>4. ~(c.state[s] \in Live /\ c.state[s] \in Over \ {"SENTREJECT"})
  BY DEF Live, Ringing, Talking, Over
<1>5. Forward(c.state[s], c.state[s])
  BY DEF Forward
<1> QED BY <1>1, <1>2, <1>3, <1>4, <1>5 DEF Does, Shows

LEMMA TerminateDoes ==
  ASSUME NEW c, Clean(c), NEW s \in Sessions,
         c.state[s] \in Live \cup (Over \ {"RECEIVEDTERMINATE"})
  PROVE  LET d == Terminate(c, s)
         IN  /\ Does(c, d, s)
             /\ d.state[s] = "SENTTERMINATE"
             /\ Owned(c) => Owned(d)
             /\ d.queue \in {c.queue, Append(c.queue, Msg("STATE", s))}
             /\ d.call = c.call \/ d.call = None
<1> DEFINE d == Terminate(c, s)
<1>0. c \in Objects /\ c.state \in [Sessions -> States] /\ c.queue \in Seq(Messages)
  BY DEF Clean, Objects
<1>1. CASE c.state[s] = "SENTTERMINATE"
  BY <1>1, NothingDone DEF Terminate
<1>2. CASE c.state[s] # "SENTTERMINATE"
  <2>1. /\ d \in Objects /\ d.state = [c.state EXCEPT ![s] = "SENTTERMINATE"]
        /\ d.call = (IF c.call = s THEN None ELSE c.call)
        /\ d.queue = Append(c.queue, Msg("STATE", s))
        /\ d.sent = Append(c.sent, <<"TERMINATE", s>>)
        /\ d.posted = Append(c.posted, "SENTTERMINATE")
    BY <1>0, <1>2, TerminateIs
  <2> HIDE DEF d
  <2>2. d.state[s] = "SENTTERMINATE" /\ \A t \in Sessions \ {s} : d.state[t] = c.state[t]
    BY <1>0, <2>1
  <2>3. Tells(d)
    BY <2>1, OnePosted DEF Clean, Closing
  <2>4. \A t \in Sessions : Sends(d, t) => t = s
    BY <2>1, OneSent DEF Clean
  <2>5. Longer(c.queue, d.queue, s) /\ Pending(d, s)
    BY <1>0, <2>1, OneQueued
  <2>6. Forward(c.state[s], "SENTTERMINATE")
    BY <1>2 DEF Forward, PhaseOf, Live, Ringing, Talking, Over
  <2>7. c.state[s] \notin {"SENTTERMINATE", "RECEIVEDTERMINATE"}
    BY <1>2 DEF Live, Ringing, Talking, Over
  <2>8. Owned(c) => Owned(d)
    BY <2>1, <2>2 DEF Owned, Live, Ringing, Talking
  <2> QED
    BY <2>1, <2>2, <2>3, <2>4, <2>5, <2>6, <2>7, <2>8 DEF Does, Shows, d
<1> QED BY <1>1, <1>2

LEMMA AnswerDoes ==
  ASSUME NEW c, Clean(c), NEW s \in Sessions, c.state[s] = "RECEIVEDINITIATE",
         NEW stanza \in {"ACCEPT", "REJECT"}, NEW st \in {"SENTACCEPT", "SENTREJECT"}
  PROVE  LET d == Enqueue(Notify(Enter(Transmit(c, s, stanza), s, st), "UNSET"), "STATE", s)
         IN  /\ Does(c, d, s)
             /\ d.state[s] = st
             /\ Owned(c) => Owned(d)
             /\ d.queue = Append(c.queue, Msg("STATE", s))
             /\ d.call = c.call
<1> DEFINE d == Enqueue(Notify(Enter(Transmit(c, s, stanza), s, st), "UNSET"), "STATE", s)
<1>0. c \in Objects /\ c.state \in [Sessions -> States] /\ c.queue \in Seq(Messages)
  BY DEF Clean, Objects
<1>1. /\ d \in Objects /\ d.state = [c.state EXCEPT ![s] = st]
      /\ d.call = c.call
      /\ d.queue = Append(c.queue, Msg("STATE", s))
      /\ d.sent = Append(c.sent, <<stanza, s>>)
  <2>1. stanza \in Stanzas /\ st \in States
    BY DEF Stanzas, States, Live, Talking, Over
  <2> QED BY <1>0, <2>1, AnswerIs
<1> HIDE DEF d
<1>2. d.state[s] = st /\ \A t \in Sessions \ {s} : d.state[t] = c.state[t]
  BY <1>0, <1>1
<1>3. \A t \in Sessions : ~Sends(d, t)
  BY <1>1, OneSent DEF Clean
<1>4. Longer(c.queue, d.queue, s) /\ Pending(d, s)
  BY <1>0, <1>1, OneQueued
<1>5. Forward(c.state[s], st) /\ st \notin Over \ {"SENTREJECT"}
  BY DEF Forward, PhaseOf, Live, Ringing, Talking, Over
<1>6. Owned(c) => Owned(d)
  BY <1>1, <1>2 DEF Owned, Live, Ringing, Talking
<1>7. Does(c, d, s)
  BY <1>1, <1>2, <1>3, <1>4, <1>5 DEF Does, Shows
<1> QED
  BY <1>1, <1>2, <1>6, <1>7 DEF d

LEMMA RejectDoes ==
  ASSUME NEW c, Clean(c), NEW s \in Sessions
  PROVE  LET d == Reject(c, s)
         IN  /\ Does(c, d, s)
             /\ d.state[s] = (IF c.state[s] = "RECEIVEDINITIATE" THEN "SENTREJECT"
                              ELSE c.state[s])
             /\ Owned(c) => Owned(d)
             /\ d.queue \in {c.queue, Append(c.queue, Msg("STATE", s))}
             /\ d.call = c.call
<1>1. CASE c.state[s] = "RECEIVEDINITIATE"
  BY <1>1, AnswerDoes DEF Reject
<1>2. CASE c.state[s] # "RECEIVEDINITIATE"
  BY <1>2, NothingDone DEF Reject
<1> QED BY <1>1, <1>2

LEMMA AcceptDoes ==
  ASSUME NEW c, Clean(c), NEW s \in Sessions
  PROVE  LET d == Accept(c, s)
         IN  /\ Does(c, d, s)
             /\ d.state[s] = (IF c.state[s] = "RECEIVEDINITIATE" THEN "SENTACCEPT"
                              ELSE c.state[s])
             /\ Owned(c) => Owned(d)
             /\ d.queue \in {c.queue, Append(c.queue, Msg("STATE", s))}
             /\ d.call = c.call
<1>1. CASE c.state[s] = "RECEIVEDINITIATE"
  BY <1>1, AnswerDoes DEF Accept
<1>2. CASE c.state[s] # "RECEIVEDINITIATE"
  BY <1>2, NothingDone DEF Accept
<1> QED BY <1>1, <1>2

LEMMA EndMineDoes ==
  ASSUME NEW c, Clean(c), Current(c), NEW s \in Sessions, c.call = s
  PROVE  LET d == EndMine(c, s)
         IN  /\ Does(c, d, s)
             /\ d.state[s] = "SENTTERMINATE"
             /\ Owned(c) => Owned(d)
             /\ d.queue \in {c.queue, Append(c.queue, Msg("STATE", s))}
<1> DEFINE t == Terminate(c, s)
           d == [t EXCEPT !.call = None]
<1>1. s # None /\ c.state[s] \in Live \cup {"SENTREJECT"}
  BY CallClientConstants DEF Current
<1>2. c.state[s] \in Live \cup (Over \ {"RECEIVEDTERMINATE"}) /\ c.state[s] # "SENTTERMINATE"
  BY <1>1 DEF Over, Live, Ringing, Talking
<1>3. c \in Objects
  BY DEF Clean
<1>4. /\ Does(c, t, s) /\ t.state[s] = "SENTTERMINATE" /\ (Owned(c) => Owned(t))
      /\ t.queue \in {c.queue, Append(c.queue, Msg("STATE", s))}
  BY <1>2, TerminateDoes
<1>5. t.call = None /\ t \in Objects
  BY <1>2, <1>3, TerminateIs
<1>6. /\ d \in Objects /\ d.call = t.call
      /\ d.state = t.state /\ d.queue = t.queue /\ d.sent = t.sent /\ d.posted = t.posted
  <2> HIDE DEF t
  <2> QED BY <1>5, CallIs
<1>7. EndMine(c, s) = d
  BY DEF EndMine
<1> HIDE DEF t, d
<1>8. Does(c, d, s)
  BY <1>4, <1>6 DEF Does, Shows, Tells, Sends, Pending
<1> QED BY <1>4, <1>6, <1>7, <1>8 DEF Owned

LEMMA OnAcceptDoes ==
  ASSUME NEW c, Clean(c), NEW s \in Sessions, c.state[s] \in Live
  PROVE  LET d == OnAccept(c, s)
         IN  Does(c, d, s) /\ (Owned(c) => Owned(d))
<1> DEFINE d == OnAccept(c, s)
<1>0. c \in Objects /\ c.state \in [Sessions -> States]
  BY DEF Clean, Objects
<1>1. CASE c.state[s] = "RECEIVEDACCEPT"
  BY <1>1, NothingDone DEF OnAccept
<1>2. CASE c.state[s] # "RECEIVEDACCEPT"
  <2>1. /\ d \in Objects /\ d.state = [c.state EXCEPT ![s] = "RECEIVEDACCEPT"]
        /\ d.call = c.call
        /\ d.queue = Append(c.queue, Msg("STATE", s))
        /\ d.sent = c.sent
    BY <1>0, <1>2, OnAcceptIs
  <2> HIDE DEF d
  <2>2. d.state[s] = "RECEIVEDACCEPT" /\ \A t \in Sessions \ {s} : d.state[t] = c.state[t]
    BY <1>0, <2>1
  <2>3. \A t : ~Sends(d, t)
    BY <2>1, NothingSent DEF Clean
  <2>4. Longer(c.queue, d.queue, s) /\ Pending(d, s)
    BY <1>0, <2>1, OneQueued
  <2>5. Forward(c.state[s], "RECEIVEDACCEPT") /\ "RECEIVEDACCEPT" \notin Over
    BY DEF Forward, PhaseOf, Live, Ringing, Talking, Over
  <2>6. Owned(c) => Owned(d)
    BY <2>1, <2>2 DEF Owned
  <2> QED
    BY <2>1, <2>2, <2>3, <2>4, <2>5, <2>6 DEF Does, Shows, d
<1> QED BY <1>1, <1>2

LEMMA ReceivedDoes ==
  ASSUME NEW c, Clean(c), Current(c), NEW s \in Sessions, Alive(c.state, s),
         NEW n \in Closing, NEW st \in {"RECEIVEDREJECT", "RECEIVEDTERMINATE"}
  PROVE  LET d == Received(c, s, st, n)
         IN  Does(c, d, s) /\ (Owned(c) => Owned(d))
<1> DEFINE d == Received(c, s, st, n)
<1>d. d = Received(c, s, st, n)
  OBVIOUS
<1> HIDE DEF d
<1>0. /\ c \in Objects /\ c.state \in [Sessions -> States] /\ n \in Notices /\ s # None
      /\ st \in Over /\ "SENTTERMINATE" \in Over
      /\ c.state[s] \in Live \cup Over
  BY CallClientConstants DEF Clean, Objects, Closing, Notices, Over, States, Alive
<1>1. /\ d \in Objects
      /\ c.call # s =>
           /\ d.state = [c.state EXCEPT ![s] = st]
           /\ d.call = c.call
           /\ d.queue = Append(c.queue, Msg("STATE", s))
           /\ d.sent = c.sent
           /\ d.posted = Append(c.posted, n)
      /\ c.call = s =>
           /\ d.state = [c.state EXCEPT ![s] = "SENTTERMINATE"]
           /\ d.call = None
           /\ d.queue = Both(c.queue, Msg("STATE", s), Msg("STATE", s))
           /\ d.sent = Append(c.sent, <<"TERMINATE", s>>)
           /\ d.posted = Both(c.posted, "SENTTERMINATE", n)
  <2>1. c \in Objects /\ n \in Notices /\ st \in States /\ st # "SENTTERMINATE"
    BY <1>0 DEF States, Over
  <2>2. BecomesReceived(c, s, st, n, d)
    BY <1>d, <2>1, ReceivedIs
  <2> QED BY <2>2 DEF BecomesReceived
<1> HIDE DEF d
<1>2. d.state[s] \in Over /\ \A t \in Sessions \ {s} : d.state[t] = c.state[t]
  BY <1>0, <1>1
<1>3. Tells(d)
  <2>1. CASE c.call # s
    BY <1>1, <2>1, OnePosted DEF Clean
  <2>2. CASE c.call = s
    <3>1. "SENTTERMINATE" \in Notices /\ "SENTTERMINATE" \in Closing
      BY DEF Notices, Closing
    <3> QED BY <1>0, <1>1, <2>2, <3>1, TwoPosted DEF Clean, Both
  <2> QED BY <2>1, <2>2
<1>4. \A t \in Sessions :
        Sends(d, t) => t = s /\ c.state[s] \notin {"SENTTERMINATE", "RECEIVEDTERMINATE"}
  <2>1. CASE c.call # s
    BY <1>1, <2>1, NothingSent DEF Clean
  <2>2. CASE c.call = s
    <3>1. c.state[s] \notin {"SENTTERMINATE", "RECEIVEDTERMINATE"}
      BY <1>0, <2>2 DEF Current, Live, Ringing, Talking
    <3> QED BY <1>1, <2>2, <3>1, OneSent DEF Clean
  <2> QED BY <2>1, <2>2
<1>5. Longer(c.queue, d.queue, s) /\ Pending(d, s)
  <2>1. CASE c.call # s
    BY <1>0, <1>1, <2>1, OneQueued
  <2>2. CASE c.call = s
    BY <1>0, <1>1, <2>2, TwoQueued DEF Both
  <2> QED BY <2>1, <2>2
<1>6. Forward(c.state[s], d.state[s])
  BY <1>0, <1>2 DEF Forward, PhaseOf, Live, Ringing, Talking, Over
<1>7. Owned(c) => Owned(d)
  BY <1>1, <1>2 DEF Owned, Live, Ringing, Talking, Over
<1>8. Does(c, d, s)
  BY <1>1, <1>2, <1>3, <1>4, <1>5, <1>6 DEF Does, Shows
<1> QED
  BY <1>7, <1>8 DEF d

LEMMA CreatedIs ==
  ASSUME NEW c \in Objects, NEW s \in Sessions
  PROVE  LET d == Enter([c EXCEPT !.calls = @ \cup {s}], s, "RECEIVEDINITIATE")
         IN  /\ d \in Objects /\ d.state = [c.state EXCEPT ![s] = "RECEIVEDINITIATE"]
             /\ d.call = c.call /\ d.queue = c.queue
             /\ d.sent = c.sent /\ d.posted = c.posted
<1> DEFINE k == [c EXCEPT !.calls = @ \cup {s}]
<1>1. /\ k \in Objects /\ k.state = c.state /\ k.call = c.call /\ k.queue = c.queue
      /\ k.sent = c.sent /\ k.posted = c.posted
  BY DEF Objects
<1> HIDE DEF k
<1>2. LET d == Enter(k, s, "RECEIVEDINITIATE")
      IN  /\ d \in Objects /\ d.state = [c.state EXCEPT ![s] = "RECEIVEDINITIATE"]
          /\ d.call = c.call /\ d.queue = c.queue
          /\ d.sent = c.sent /\ d.posted = c.posted
  BY <1>1, EnterIs DEF States, Live, Ringing
<1> QED BY <1>2 DEF k

LEMMA RejectIs ==
  ASSUME NEW c \in Objects, NEW s \in Sessions
  PROVE  LET d == Reject(c, s)
         IN  /\ d \in Objects /\ d.call = c.call
             /\ c.state[s] # "RECEIVEDINITIATE" => d = c
             /\ c.state[s] = "RECEIVEDINITIATE" =>
                  /\ d.state = [c.state EXCEPT ![s] = "SENTREJECT"]
                  /\ d.queue = Append(c.queue, Msg("STATE", s))
                  /\ d.sent = Append(c.sent, <<"REJECT", s>>)
<1>1. CASE c.state[s] = "RECEIVEDINITIATE"
  BY <1>1, AnswerIs DEF Reject, Stanzas, States, Over
<1>2. CASE c.state[s] # "RECEIVEDINITIATE"
  BY <1>2 DEF Reject
<1> QED BY <1>1, <1>2

LEMMA AnnounceIs ==
  ASSUME NEW c \in Objects, NEW s \in Sessions
  PROVE  LET d == Announce(c, s)
         IN  /\ d \in Objects
             /\ c.call = None =>
                  /\ d.state = c.state /\ d.call = s
                  /\ d.queue = c.queue /\ d.sent = c.sent
                  /\ d.posted = Append(c.posted, "INCOMING")
             /\ c.call # None =>
                  /\ d.state = Reject(c, s).state /\ d.call = c.call
                  /\ d.queue = Reject(c, s).queue /\ d.sent = Reject(c, s).sent
<1>1. CASE c.call = None
  <2> DEFINE k == [c EXCEPT !.call = s]
  <2>1. /\ k \in Objects /\ k.state = c.state /\ k.call = s /\ k.queue = c.queue
        /\ k.sent = c.sent /\ k.posted = c.posted
    BY CallIs
  <2>2. Announce(c, s) = Notify(k, "INCOMING")
    BY <1>1 DEF Announce
  <2> HIDE DEF k
  <2> QED BY <1>1, <2>1, <2>2, NotifyIs DEF Notices
<1>2. CASE c.call # None
  <2> DEFINE k == Reject(c, s)
  <2>1. k \in Objects /\ k.call = c.call
    BY RejectIs
  <2>2. Announce(c, s) = Notify(k, "UNSET")
    BY <1>2 DEF Announce
  <2> HIDE DEF k
  <2>3. LET d == Notify(k, "UNSET")
        IN  /\ d \in Objects /\ d.state = k.state /\ d.call = k.call
            /\ d.queue = k.queue /\ d.sent = k.sent
    BY <2>1, NotifyIs DEF Notices
  <2>4. LET d == Announce(c, s)
        IN  /\ d \in Objects /\ d.state = k.state /\ d.call = c.call
            /\ d.queue = k.queue /\ d.sent = k.sent
    BY <2>1, <2>2, <2>3
  <2> QED BY <1>2, <2>4 DEF k
<1> QED BY <1>1, <1>2

LEMMA OnInitiateDoes ==
  ASSUME NEW c, Clean(c), NEW s \in Sessions, c.state[s] = "absent", NEW codecs \in BOOLEAN
  PROVE  LET d == OnInitiate(c, s, codecs)
         IN  /\ Does(c, d, s)
             /\ Owned(c) => Owned(d)
             /\ d.state[s] \in {"RECEIVEDINITIATE", "SENTREJECT"}
             /\ d.state[s] = "RECEIVEDINITIATE" =>
                  c.call = None /\ d.call = s /\ d.posted = Append(<<>>, "INCOMING")
             /\ d.call = c.call \/ c.call = None
<1> DEFINE c1 == Enter([c EXCEPT !.calls = @ \cup {s}], s, "RECEIVEDINITIATE")
           c2 == IF codecs THEN c1 ELSE Reject(c1, s)
           r2 == Reject(c2, s)
           c3 == Announce(c2, s)
           c4 == Enqueue(c3, "STATE", s)
           one == Append(c.queue, Msg("STATE", s))
           sent == Append(c.sent, <<"REJECT", s>>)
<1>0. c \in Objects /\ c.state \in [Sessions -> States]
  BY DEF Clean, Objects
<1>1. /\ c1 \in Objects /\ c1.state = [c.state EXCEPT ![s] = "RECEIVEDINITIATE"]
      /\ c1.call = c.call /\ c1.queue = c.queue /\ c1.sent = c.sent
      /\ c1.posted = c.posted
  BY <1>0, CreatedIs
<1> HIDE DEF c1
<1>2. c1.state[s] = "RECEIVEDINITIATE"
  BY <1>0, <1>1
<1>3. /\ c2 \in Objects /\ c2.call = c.call
      /\ \/ /\ c2.state = [c.state EXCEPT ![s] = "RECEIVEDINITIATE"]
            /\ c2.queue = c.queue /\ c2.sent = c.sent /\ c2.posted = c.posted
         \/ /\ c2.state = [c.state EXCEPT ![s] = "SENTREJECT"]
            /\ c2.queue = one /\ c2.sent = sent
  <2>1. CASE codecs
    BY <1>1, <2>1
  <2>2. CASE ~codecs
    <3>1. c2 = Reject(c1, s)
      BY <2>2
    <3> HIDE DEF c2
    <3>2. /\ c2 \in Objects /\ c2.call = c1.call
          /\ c2.state = [c1.state EXCEPT ![s] = "SENTREJECT"]
          /\ c2.queue = Append(c1.queue, Msg("STATE", s))
          /\ c2.sent = Append(c1.sent, <<"REJECT", s>>)
      BY <1>1, <1>2, <3>1, RejectIs
    <3>3. [c1.state EXCEPT ![s] = "SENTREJECT"] = [c.state EXCEPT ![s] = "SENTREJECT"]
      BY <1>0, <1>1
    <3> QED BY <1>1, <3>2, <3>3
  <2> QED BY <2>1, <2>2
<1> HIDE DEF c2
<1>4. /\ r2.call = c.call
      /\ r2.state = [c.state EXCEPT ![s] = "SENTREJECT"]
      /\ r2.queue = one /\ r2.sent = sent
  <2>1. CASE c2.state = [c.state EXCEPT ![s] = "RECEIVEDINITIATE"]
             /\ c2.queue = c.queue /\ c2.sent = c.sent
    <3>1. c2.state[s] = "RECEIVEDINITIATE"
      BY <1>0, <2>1
    <3>2. [c2.state EXCEPT ![s] = "SENTREJECT"] = [c.state EXCEPT ![s] = "SENTREJECT"]
      BY <1>0, <2>1
    <3> QED BY <1>3, <2>1, <3>1, <3>2, RejectIs
  <2>2. CASE c2.state = [c.state EXCEPT ![s] = "SENTREJECT"]
             /\ c2.queue = one /\ c2.sent = sent
    <3>1. c2.state[s] = "SENTREJECT"
      BY <1>0, <2>2
    <3> HIDE DEF one, sent
    <3> QED BY <1>3, <2>2, <3>1, RejectIs
  <2> QED BY <1>3, <2>1, <2>2
<1>5. /\ c3 \in Objects
      /\ \/ /\ c3.state = [c.state EXCEPT ![s] = "RECEIVEDINITIATE"]
            /\ c3.queue = c.queue /\ c3.sent = c.sent
            /\ c.call = None /\ c3.call = s
            /\ c3.posted = Append(c.posted, "INCOMING")
         \/ /\ c3.state = [c.state EXCEPT ![s] = "SENTREJECT"]
            /\ c3.queue = one /\ c3.sent = sent
            /\ c3.call = c.call \/ c.call = None
  <2>1. /\ c3 \in Objects
        /\ c2.call = None =>
             /\ c3.state = c2.state /\ c3.call = s
             /\ c3.queue = c2.queue /\ c3.sent = c2.sent
             /\ c3.posted = Append(c2.posted, "INCOMING")
        /\ c2.call # None =>
             /\ c3.state = r2.state /\ c3.call = c2.call
             /\ c3.queue = r2.queue /\ c3.sent = r2.sent
    BY <1>3, AnnounceIs
  <2> HIDE DEF c3, r2, one, sent
  <2>2. CASE c2.call = None
    BY <1>3, <2>1, <2>2
  <2>3. CASE c2.call # None
    BY <1>3, <1>4, <2>1, <2>3
  <2> QED BY <2>2, <2>3
<1> HIDE DEF c3, r2
<1>6. /\ c4 \in Objects /\ c4.state = c3.state /\ c4.call = c3.call
      /\ c4.queue = Append(c3.queue, Msg("STATE", s)) /\ c4.sent = c3.sent
      /\ c4.posted = c3.posted
  BY <1>5, EnqueueIs
<1>7. OnInitiate(c, s, codecs) = c4
  BY DEF OnInitiate, c1, c2, c3
<1> HIDE DEF c4
<1>p. c.posted = <<>>
  BY DEF Clean
<1>8. /\ c4.state[s] \in {"RECEIVEDINITIATE", "SENTREJECT"}
      /\ c4.state[s] = "RECEIVEDINITIATE" =>
           c.call = None /\ c4.call = s /\ c4.posted = Append(c.posted, "INCOMING")
      /\ c4.call = c.call \/ c.call = None
      /\ \A t \in Sessions \ {s} : c4.state[t] = c.state[t]
  BY <1>0, <1>5, <1>6
<1>9. \A t \in Sessions : ~Sends(c4, t)
  <2>1. CASE c4.sent = c.sent
    BY <2>1, NothingSent DEF Clean
  <2>2. CASE c4.sent = sent
    BY <2>2, OneSent DEF Clean
  <2> HIDE DEF one, sent
  <2> QED BY <1>5, <1>6, <2>1, <2>2
<1>10. Longer(c.queue, c4.queue, s) /\ Pending(c4, s)
  <2>1. c4.queue = Append(c.queue, Msg("STATE", s))
          \/ c4.queue = Append(Append(c.queue, Msg("STATE", s)), Msg("STATE", s))
    <3> HIDE DEF sent
    <3> QED BY <1>5, <1>6
  <2> QED BY <1>0, <2>1, OneQueued, TwoQueued
<1>11. Forward("absent", c4.state[s]) /\ "absent" \notin Live
  BY <1>8 DEF Forward, Live, Ringing, Talking, Over
<1>12. Owned(c) => Owned(c4)
  <2> SUFFICES ASSUME Owned(c), NEW t \in Sessions, c4.state[t] \in Live PROVE c4.call = t
    BY DEF Owned
  <2>1. CASE t = s
    BY <1>8, <2>1 DEF Live, Ringing, Talking
  <2>2. CASE t # s
    <3>1. c.call = t
      BY <1>8, <2>2 DEF Owned
    <3> QED BY <1>8, <3>1, CallClientConstants
  <2> QED BY <2>1, <2>2
<1>13. Does(c, c4, s)
  BY <1>6, <1>8, <1>9, <1>10, <1>11 DEF Does, Shows
<1>14. c4.state[s] = "RECEIVEDINITIATE" => c4.posted = Append(<<>>, "INCOMING")
  BY <1>8, <1>p
<1> QED BY <1>7, <1>8, <1>12, <1>13, <1>14

-----------------------------------------------------------------------------
(* The handlers that also erase messages, or add others than a state.      *)

LEMMA TimerIs ==
  ASSUME NEW c \in Objects, NEW s \in Sessions, NEW b \in BOOLEAN
  PROVE  LET d == [c EXCEPT !.timer[s] = b]
         IN  /\ d \in Objects /\ d.state = c.state
             /\ d.call = c.call /\ d.queue = c.queue
             /\ d.sent = c.sent /\ d.posted = c.posted
BY DEF Objects

LEMMA FocusIs ==
  ASSUME NEW c \in Objects, NEW s \in Sessions \cup {None}
  PROVE  LET d == [c EXCEPT !.focus = s]
         IN  /\ d \in Objects /\ d.state = c.state
             /\ d.call = c.call /\ d.queue = c.queue
             /\ d.sent = c.sent /\ d.posted = c.posted
BY DEF Objects

LEMMA ErrorIs ==
  ASSUME NEW c \in Objects, NEW s \in Sessions, NEW e \in {"NONE", "TIME", "RESPONSE"}
  PROVE  LET d == [c EXCEPT !.error[s] = e]
         IN  /\ d \in Objects /\ d.state = c.state
             /\ d.call = c.call /\ d.queue = c.queue
             /\ d.sent = c.sent /\ d.posted = c.posted
BY DEF Objects

Erased(q, s, ids) ==
  [i \in DOMAIN q |-> IF q[i].sess = s /\ q[i].id \in ids THEN Msg("CLEARED", None) ELSE q[i]]

LEMMA ClearIs ==
  ASSUME NEW c \in Objects, NEW s \in Sessions, NEW ids
  PROVE  LET d == Clear(c, s, ids)
         IN  /\ d \in Objects /\ d.state = c.state
             /\ d.call = c.call /\ d.queue = Erased(c.queue, s, ids)
             /\ d.sent = c.sent /\ d.posted = c.posted
<1> DEFINE q == Erased(c.queue, s, ids)
           stop == c.timer[s] /\ "TIMEOUT" \notin ids
           d == [c EXCEPT !.queue = q, !.timer[s] = stop]
<1>1. c.queue \in Seq(Messages) /\ c.timer \in [Sessions -> BOOLEAN]
  BY DEF Objects
<1>2. Msg("CLEARED", None) \in Messages
  BY DEF Messages, Msg
<1>3. q \in Seq(Messages)
  BY <1>1, <1>2 DEF Erased
<1>4. stop \in BOOLEAN
  BY <1>1
<1> HIDE DEF q, stop
<1>5. /\ d \in Objects /\ d.queue = q /\ d.state = c.state /\ d.call = c.call
      /\ d.sent = c.sent /\ d.posted = c.posted
  BY <1>1, <1>3, <1>4 DEF Objects
<1>6. Clear(c, s, ids) = d
  BY DEF Clear, q, stop, Erased, Msg
<1> HIDE DEF d
<1> QED BY <1>5, <1>6 DEF q

LEMMA ProgressDoes ==
  ASSUME NEW c, Clean(c), NEW s \in Sessions,
         c.state[s] \in {"SENTACCEPT", "RECEIVEDACCEPT"}, NEW writable \in BOOLEAN
  PROVE  LET d == Progress(c, s, writable)
         IN  /\ Does(c, d, s)
             /\ d.state[s] = "INPROGRESS"
             /\ d.call = c.call
             /\ Owned(c) => Owned(d)
<1> DEFINE c1 == Enter(c, s, "INPROGRESS")
           c2 == [c1 EXCEPT !.focus = c.call]
           c3 == Notify(c2, "IN_PROGRESS")
           c4 == Enqueue(c3, "STATE", s)
           c5 == Clear(c4, s, {"TIMEOUT"})
           b == ~writable
           c6 == [c5 EXCEPT !.timer[s] = b]
<1>0. /\ c \in Objects /\ c.state \in [Sessions -> States] /\ c.queue \in Seq(Messages)
      /\ c.call \in Sessions \cup {None}
  BY DEF Clean, Objects
<1>b. b \in BOOLEAN
  OBVIOUS
<1> HIDE DEF b
<1>a. "INPROGRESS" \in States
  BY DEF States, Live, Talking
<1>1. /\ c1 \in Objects /\ c1.state = [c.state EXCEPT ![s] = "INPROGRESS"]
      /\ c1.call = c.call /\ c1.queue = c.queue /\ c1.sent = c.sent
  BY <1>0, <1>a, EnterIs
<1> HIDE DEF c1
<1>2. /\ c2 \in Objects /\ c2.state = c1.state /\ c2.call = c1.call
      /\ c2.queue = c1.queue /\ c2.sent = c1.sent
  BY <1>0, <1>1, FocusIs
<1> HIDE DEF c2
<1>3. /\ c3 \in Objects /\ c3.state = c2.state /\ c3.call = c2.call
      /\ c3.queue = c2.queue /\ c3.sent = c2.sent
  BY <1>2, NotifyIs DEF Notices
<1> HIDE DEF c3
<1>4. /\ c4 \in Objects /\ c4.state = c3.state /\ c4.call = c3.call
      /\ c4.queue = Append(c3.queue, Msg("STATE", s)) /\ c4.sent = c3.sent
  BY <1>3, EnqueueIs
<1> HIDE DEF c4
<1>5. /\ c5 \in Objects /\ c5.state = c4.state /\ c5.call = c4.call
      /\ c5.queue = Erased(c4.queue, s, {"TIMEOUT"}) /\ c5.sent = c4.sent
  BY <1>4, ClearIs
<1> HIDE DEF c5
<1>6. /\ c6 \in Objects /\ c6.state = c5.state /\ c6.call = c5.call
      /\ c6.queue = c5.queue /\ c6.sent = c5.sent
  BY <1>5, <1>b, TimerIs
<1>7. Progress(c, s, writable) = c6
  BY DEF Progress, b, c1, c2, c3, c4, c5, c6
<1> HIDE DEF c6
<1>8. c6.state = [c.state EXCEPT ![s] = "INPROGRESS"] /\ c6.call = c.call
      /\ c6.sent = c.sent /\ c6.queue = Erased(c4.queue, s, {"TIMEOUT"})
      /\ c4.queue = Append(c.queue, Msg("STATE", s))
  BY <1>1, <1>2, <1>3, <1>4, <1>5, <1>6
<1>9. c6.state[s] = "INPROGRESS" /\ \A t \in Sessions \ {s} : c6.state[t] = c.state[t]
  BY <1>0, <1>8
<1>10. \A t : ~Sends(c6, t)
  BY <1>8, NothingSent DEF Clean
<1>11. Longer(c.queue, c6.queue, s) /\ Pending(c6, s)
  <2>1. DOMAIN c4.queue = 1..(Len(c.queue) + 1) /\ DOMAIN c.queue = 1..Len(c.queue)
        /\ Len(c.queue) \in Nat
    BY <1>0, <1>8
  <2>2. (\A i \in DOMAIN c.queue : c4.queue[i] = c.queue[i])
        /\ c4.queue[Len(c.queue) + 1] = Msg("STATE", s)
    BY <1>0, <1>8, <2>1
  <2>3. \A i \in DOMAIN c.queue : c.queue[i] \in Messages
    BY <1>0
  <2>4. \A m \in Messages : m.sess = s /\ m.id = "TIMEOUT" => m = Msg("TIMEOUT", s)
    BY CallClientConstants DEF Messages, Msg
  <2>5. ~(Msg("STATE", s).sess = s /\ Msg("STATE", s).id \in {"TIMEOUT"})
    BY DEF Msg
  <2>6. DOMAIN c6.queue = DOMAIN c4.queue
    BY <1>8 DEF Erased
  <2>7. c6.queue[Len(c.queue) + 1] = Msg("STATE", s)
    BY <1>8, <2>1, <2>2, <2>5 DEF Erased
  <2>8. \A i \in DOMAIN c.queue :
          c6.queue[i] = c.queue[i]
            \/ (c.queue[i] = Msg("TIMEOUT", s) /\ c6.queue[i] = Msg("CLEARED", None))
    BY <1>8, <2>1, <2>2, <2>3, <2>4 DEF Erased
  <2> QED
    BY <2>1, <2>6, <2>7, <2>8 DEF Longer, Pending
<1>12. Forward(c.state[s], "INPROGRESS") /\ "INPROGRESS" \notin Over
  BY DEF Forward, PhaseOf, Live, Ringing, Talking, Over
<1>13. Owned(c) => Owned(c6)
  BY <1>8, <1>9 DEF Owned, Live, Talking
<1>14. Does(c, c6, s)
  BY <1>6, <1>9, <1>10, <1>11, <1>12 DEF Does, Shows
<1> QED BY <1>7, <1>8, <1>9, <1>13, <1>14

LEMMA InitiateDoes ==
  ASSUME NEW c, Clean(c), NEW s \in Sessions, c.state[s] = "absent", c.call = None
  PROVE  LET d == Initiate(c, s)
         IN  /\ Does(c, d, s)
             /\ d.state[s] = "SENTINITIATE"
             /\ Owned(c) => Owned(d)
             /\ d.queue = Append(c.queue, Msg("STATE", s))
<1> DEFINE c0 == [c EXCEPT !.calls = @ \cup {s}, !.call = s]
           c1 == Transmit(c0, s, "INITIATE")
           c2 == Enter(c1, s, "SENTINITIATE")
           c3 == Notify(c2, "CALLING")
           c4 == Enqueue(c3, "STATE", s)
           c5 == [c4 EXCEPT !.timer[s] = TRUE]
<1>0. c \in Objects /\ c.state \in [Sessions -> States] /\ c.queue \in Seq(Messages)
  BY DEF Clean, Objects
<1>1. /\ c0 \in Objects /\ c0.state = c.state /\ c0.call = s
      /\ c0.queue = c.queue /\ c0.sent = c.sent
  BY <1>0 DEF Objects
<1> HIDE DEF c0
<1>2. /\ c1 \in Objects /\ c1.state = c0.state /\ c1.call = c0.call
      /\ c1.queue = c0.queue /\ c1.sent = Append(c0.sent, <<"INITIATE", s>>)
  BY <1>1, TransmitIs DEF Stanzas
<1> HIDE DEF c1
<1>3. /\ c2 \in Objects /\ c2.state = [c1.state EXCEPT ![s] = "SENTINITIATE"]
      /\ c2.call = c1.call /\ c2.queue = c1.queue /\ c2.sent = c1.sent
  BY <1>2, EnterIs DEF States, Live, Ringing
<1> HIDE DEF c2
<1>4. /\ c3 \in Objects /\ c3.state = c2.state /\ c3.call = c2.call
      /\ c3.queue = c2.queue /\ c3.sent = c2.sent
  BY <1>3, NotifyIs DEF Notices
<1> HIDE DEF c3
<1>5. /\ c4 \in Objects /\ c4.state = c3.state /\ c4.call = c3.call
      /\ c4.queue = Append(c3.queue, Msg("STATE", s)) /\ c4.sent = c3.sent
  BY <1>4, EnqueueIs
<1> HIDE DEF c4
<1>6. /\ c5 \in Objects /\ c5.state = c4.state /\ c5.call = c4.call
      /\ c5.queue = c4.queue /\ c5.sent = c4.sent
  BY <1>5, TimerIs
<1>7. Initiate(c, s) = c5
  BY DEF Initiate, c0, c1, c2, c3, c4, c5
<1> HIDE DEF c5
<1>8. c5.state = [c.state EXCEPT ![s] = "SENTINITIATE"] /\ c5.call = s
      /\ c5.queue = Append(c.queue, Msg("STATE", s))
      /\ c5.sent = Append(c.sent, <<"INITIATE", s>>)
  BY <1>1, <1>2, <1>3, <1>4, <1>5, <1>6
<1>9. c5.state[s] = "SENTINITIATE" /\ \A t \in Sessions \ {s} : c5.state[t] = c.state[t]
  BY <1>0, <1>8
<1>10. \A t \in Sessions : ~Sends(c5, t)
  BY <1>8, OneSent DEF Clean
<1>11. Longer(c.queue, c5.queue, s) /\ Pending(c5, s)
  BY <1>0, <1>8, OneQueued
<1>12. Forward("absent", "SENTINITIATE") /\ "SENTINITIATE" \notin Over
  BY DEF Forward, Ringing, Over
<1>13. Owned(c) => Owned(c5)
  <2> SUFFICES ASSUME Owned(c), NEW t \in Sessions, c5.state[t] \in Live PROVE c5.call = t
    BY DEF Owned
  <2> QED BY <1>8, <1>9, CallClientConstants DEF Owned
<1>14. Does(c, c5, s)
  BY <1>6, <1>9, <1>10, <1>11, <1>12 DEF Does, Shows
<1> QED BY <1>7, <1>8, <1>9, <1>13, <1>14

(* What any handler of a session does with the queue: the messages of the  *)
(* other sessions and the pump's stay, those that are added are its own.   *)
Grows(q, r, s) ==
  /\ DOMAIN q \subseteq DOMAIN r
  /\ \A i \in DOMAIN q :
       r[i] = q[i] \/ (q[i].sess = s /\ r[i] = Msg("CLEARED", None))
  /\ \A i \in DOMAIN r \ DOMAIN q : r[i].sess = s

Acts(c, d, s) == d \in Objects /\ Shows(c, d, s) /\ Grows(c.queue, d.queue, s)

(* No message for an error of a session is added.                          *)
NoNewError(q, r) ==
  \A i \in DOMAIN r : r[i].id = "ERROR" => i \in DOMAIN q /\ q[i] = r[i]

LEMMA DoesActs ==
  ASSUME NEW c, NEW d, NEW s, Does(c, d, s)
  PROVE  Acts(c, d, s) /\ NoNewError(c.queue, d.queue)
<1>1. Msg("STATE", s).sess = s /\ Msg("TIMEOUT", s).sess = s
      /\ Msg("STATE", s).id = "STATE" /\ Msg("CLEARED", None).id = "CLEARED"
  BY DEF Msg
<1>2. Longer(c.queue, d.queue, s)
  BY DEF Does
<1>3. Grows(c.queue, d.queue, s)
  BY <1>1, <1>2 DEF Longer, Grows
<1>4. NoNewError(c.queue, d.queue)
  BY <1>1, <1>2 DEF Longer, NoNewError
<1> QED BY <1>3, <1>4 DEF Does, Acts

(* The same record but for the fields that nothing here is about.          *)
LEMMA SameActs ==
  ASSUME NEW c, Clean(c), NEW s \in Sessions, NEW d \in Objects,
         d.state = c.state, d.sent = c.sent, Grows(c.queue, d.queue, s)
  PROVE  Acts(c, d, s)
<1>1. \A t : ~Sends(d, t)
  BY NothingSent DEF Clean
<1>2. ~(c.state[s] \in Live /\ c.state[s] \in Over \ {"SENTREJECT"})
  BY DEF Live, Ringing, Talking, Over
<1>3. Forward(c.state[s], c.state[s])
  BY DEF Forward
<1> QED BY <1>1, <1>2, <1>3 DEF Acts, Shows

LEMMA SetErrorActs ==
  ASSUME NEW c, Clean(c), NEW s \in Sessions, NEW error \in {"TIME", "RESPONSE"}
  PROVE  LET d == SetError(c, s, error)
         IN  /\ Acts(c, d, s)
             /\ d.state = c.state /\ d.call = c.call /\ d.posted = c.posted
             /\ d.queue \in {c.queue, Append(c.queue, Msg("ERROR", s))}
<1> DEFINE k == [c EXCEPT !.error[s] = error]
           d == SetError(c, s, error)
<1>0. c \in Objects /\ c.queue \in Seq(Messages)
  BY DEF Clean, Objects
<1>1. CASE c.error[s] = error
  <2>1. d = c
    BY <1>1 DEF SetError
  <2>2. Acts(c, c, s)
    BY NothingDone, DoesActs
  <2> QED BY <2>1, <2>2
<1>2. CASE c.error[s] # error
  <2>0. error \in {"NONE", "TIME", "RESPONSE"}
    OBVIOUS
  <2>1. /\ k \in Objects /\ k.state = c.state /\ k.call = c.call
        /\ k.queue = c.queue /\ k.sent = c.sent /\ k.posted = c.posted
    BY <1>0, <2>0, ErrorIs
  <2>2. d = Enqueue(k, "ERROR", s)
    BY <1>2 DEF SetError
  <2> HIDE DEF k, d
  <2>a. /\ d \in Objects /\ d.state = k.state /\ d.call = k.call
        /\ d.queue = Append(k.queue, Msg("ERROR", s)) /\ d.sent = k.sent
        /\ d.posted = k.posted
    BY <2>1, <2>2, EnqueueIs
  <2>3. /\ d \in Objects /\ d.state = c.state /\ d.call = c.call
        /\ d.queue = Append(c.queue, Msg("ERROR", s)) /\ d.sent = c.sent
        /\ d.posted = c.posted
    BY <2>1, <2>a
  <2>4. Grows(c.queue, d.queue, s)
    <3>1. DOMAIN d.queue = 1..(Len(c.queue) + 1) /\ DOMAIN c.queue = 1..Len(c.queue)
          /\ Len(c.queue) \in Nat
      BY <1>0, <2>3
    <3>2. (\A i \in DOMAIN c.queue : d.queue[i] = c.queue[i])
          /\ d.queue[Len(c.queue) + 1] = Msg("ERROR", s)
      BY <1>0, <2>3, <3>1
    <3>3. Msg("ERROR", s).sess = s
      BY DEF Msg
    <3> QED BY <3>1, <3>2, <3>3 DEF Grows
  <2>5. Acts(c, d, s)
    BY <2>3, <2>4, SameActs
  <2> QED BY <2>3, <2>5 DEF d
<1> QED BY <1>1, <1>2

LEMMA DestroyCallActs ==
  ASSUME NEW c, Clean(c), NEW s \in Sessions
  PROVE  LET d == DestroyCall(c, s)
         IN  /\ Acts(c, d, s)
             /\ d.state = c.state /\ d.call = c.call /\ d.queue = c.queue
             /\ d.posted = c.posted
<1> DEFINE d == DestroyCall(c, s)
<1>0. c \in Objects
  BY DEF Clean
<1>1. /\ d \in Objects /\ d.state = c.state /\ d.call = c.call
      /\ d.queue = c.queue /\ d.sent = c.sent /\ d.posted = c.posted
  BY <1>0 DEF Objects, DestroyCall
<1> HIDE DEF d
<1>2. Grows(c.queue, d.queue, s)
  BY <1>1 DEF Grows
<1>3. Acts(c, d, s)
  BY <1>1, <1>2, SameActs
<1> QED BY <1>1, <1>3 DEF d

LEMMA DestroySessionActs ==
  ASSUME NEW c, Clean(c), NEW s \in Sessions, c.state[s] \in Over
  PROVE  LET d == DestroySession(c, s)
         IN  /\ Acts(c, d, s) /\ NoNewError(c.queue, d.queue)
             /\ d.state[s] = "destroyed" /\ d.call = c.call /\ d.posted = <<>>
<1> DEFINE ids == {"STATE", "ERROR", "TIMEOUT"}
           c1 == Enter(c, s, "destroyed")
           c2 == [c1 EXCEPT !.error[s] = "NONE"]
           c3 == Clear(c2, s, ids)
           c4 == Enqueue(c3, "AUTODESTROY", s)
<1>0. c \in Objects /\ c.state \in [Sessions -> States] /\ c.queue \in Seq(Messages)
  BY DEF Clean, Objects
<1>a. "destroyed" \in States
  BY DEF States
<1>1. /\ c1 \in Objects /\ c1.state = [c.state EXCEPT ![s] = "destroyed"]
      /\ c1.call = c.call /\ c1.queue = c.queue /\ c1.sent = c.sent
      /\ c1.posted = c.posted
  BY <1>0, <1>a, EnterIs
<1> HIDE DEF c1
<1>2. /\ c2 \in Objects /\ c2.state = c1.state /\ c2.call = c1.call
      /\ c2.queue = c1.queue /\ c2.sent = c1.sent /\ c2.posted = c1.posted
  BY <1>1, ErrorIs
<1> HIDE DEF c2
<1>3. /\ c3 \in Objects /\ c3.state = c2.state /\ c3.call = c2.call
      /\ c3.queue = Erased(c2.queue, s, ids) /\ c3.sent = c2.sent
      /\ c3.posted = c2.posted
  BY <1>2, ClearIs
<1> HIDE DEF c3
<1>4. /\ c4 \in Objects /\ c4.state = c3.state /\ c4.call = c3.call
      /\ c4.queue = Append(c3.queue, Msg("AUTODESTROY", s)) /\ c4.sent = c3.sent
      /\ c4.posted = c3.posted
  BY <1>3, EnqueueIs
<1>5. DestroySession(c, s) = c4
  BY DEF DestroySession, c1, c2, c3
<1> HIDE DEF c4
<1>6. /\ c4.state = [c.state EXCEPT ![s] = "destroyed"] /\ c4.call = c.call
      /\ c4.sent = c.sent /\ c3.queue = Erased(c.queue, s, ids)
      /\ c4.queue = Append(c3.queue, Msg("AUTODESTROY", s)) /\ c3.queue \in Seq(Messages)
  BY <1>1, <1>2, <1>3, <1>4 DEF Objects
<1>p. c4.posted = <<>>
  BY <1>1, <1>2, <1>3, <1>4 DEF Clean
<1>7. c4.state[s] = "destroyed" /\ \A t \in Sessions \ {s} : c4.state[t] = c.state[t]
  BY <1>0, <1>6
<1>8. /\ DOMAIN c3.queue = DOMAIN c.queue
      /\ \A i \in DOMAIN c.queue :
           c3.queue[i] = c.queue[i]
             \/ (c.queue[i].sess = s /\ c3.queue[i] = Msg("CLEARED", None))
  BY <1>6 DEF Erased
<1>9. /\ DOMAIN c4.queue = 1..(Len(c3.queue) + 1) /\ DOMAIN c3.queue = 1..Len(c3.queue)
      /\ Len(c3.queue) \in Nat
  BY <1>6
<1>10. /\ \A i \in DOMAIN c3.queue : c4.queue[i] = c3.queue[i]
       /\ c4.queue[Len(c3.queue) + 1] = Msg("AUTODESTROY", s)
  BY <1>6, <1>9
<1>11. Msg("AUTODESTROY", s).sess = s /\ Msg("AUTODESTROY", s).id = "AUTODESTROY"
       /\ Msg("CLEARED", None).id = "CLEARED"
  BY DEF Msg
<1>12. Grows(c.queue, c4.queue, s)
  BY <1>8, <1>9, <1>10, <1>11 DEF Grows
<1>13. NoNewError(c.queue, c4.queue)
  BY <1>8, <1>9, <1>10, <1>11 DEF NoNewError
<1>14. \A t : ~Sends(c4, t)
  BY <1>6, NothingSent DEF Clean
<1>15. Forward(c.state[s], "destroyed") /\ "destroyed" \notin Over
  BY DEF Forward, Over
<1>16. Shows(c, c4, s)
  BY <1>7, <1>14, <1>15 DEF Shows
<1> QED BY <1>4, <1>5, <1>6, <1>7, <1>12, <1>13, <1>16, <1>p DEF Acts

LEMMA StateActs ==
  ASSUME NEW c, Clean(c), NEW s \in Sessions, NEW writable \in BOOLEAN
  PROVE  LET d == OnState(c, s, writable)
         IN  /\ Acts(c, d, s) /\ NoNewError(c.queue, d.queue)
             /\ Owned(c) => Owned(d)
             /\ d.state[s] # "RECEIVEDTERMINATE"
             /\ d.state[s] \in Over =>
                  Pending(d, s) /\ c.state[s] \in {"SENTREJECT", "RECEIVEDREJECT"}
             /\ c.state[s] \in Unanswered => d.state[s] \in Unanswered
<1> DEFINE d == OnState(c, s, writable)
           Goal(e) == /\ Acts(c, e, s) /\ NoNewError(c.queue, e.queue)
                      /\ Owned(c) => Owned(e)
                      /\ e.state[s] # "RECEIVEDTERMINATE"
                      /\ e.state[s] \in Over =>
                           Pending(e, s) /\ c.state[s] \in {"SENTREJECT", "RECEIVEDREJECT"}
                      /\ c.state[s] \in Unanswered => e.state[s] \in Unanswered
<1>1. CASE c.state[s] \in {"SENTACCEPT", "RECEIVEDACCEPT"}
  <2>1. d = Progress(c, s, writable)
    BY <1>1 DEF OnState
  <2> HIDE DEF d
  <2>2. Does(c, d, s) /\ d.state[s] = "INPROGRESS" /\ (Owned(c) => Owned(d))
    BY <1>1, <2>1, ProgressDoes
  <2>3. Goal(d)
    BY <1>1, <2>2, DoesActs DEF Over, Unanswered
  <2> QED BY <2>3 DEF d
<1>2. CASE c.state[s] \in {"SENTREJECT", "RECEIVEDREJECT"}
  <2>0. c.state[s] \in Live \cup (Over \ {"RECEIVEDTERMINATE"})
    BY <1>2 DEF Over
  <2>1. d = Terminate(c, s)
    BY <1>2 DEF OnState
  <2> HIDE DEF d
  <2>2. Does(c, d, s) /\ d.state[s] = "SENTTERMINATE" /\ (Owned(c) => Owned(d))
    BY <2>0, <2>1, TerminateDoes
  <2>3. Pending(d, s)
    BY <1>2, <2>2 DEF Does
  <2>4. Goal(d)
    BY <1>2, <2>2, <2>3, DoesActs DEF Unanswered
  <2> QED BY <2>4 DEF d
<1>3. CASE c.state[s] \in {"SENTTERMINATE", "RECEIVEDTERMINATE"}
  <2>0. c.state[s] \in Over /\ c \in Objects /\ c.state \in [Sessions -> States]
    BY <1>3 DEF Over, Clean, Objects
  <2>1. d = DestroySession(c, s)
    BY <1>3 DEF OnState
  <2> HIDE DEF d
  <2>2. Acts(c, d, s) /\ NoNewError(c.queue, d.queue)
        /\ d.state[s] = "destroyed" /\ d.call = c.call
    BY <2>0, <2>1, DestroySessionActs
  <2>3. Owned(c) => Owned(d)
    <3> SUFFICES ASSUME Owned(c), NEW t \in Sessions, d.state[t] \in Live PROVE d.call = t
      BY DEF Owned
    <3>1. t # s
      BY <2>2 DEF Live, Ringing, Talking
    <3>2. d.state[t] = c.state[t]
      BY <2>2, <3>1 DEF Acts, Shows
    <3> QED BY <2>2, <3>2 DEF Owned
  <2>4. Goal(d)
    BY <2>2, <2>3 DEF Over, Unanswered
  <2> QED BY <2>4 DEF d
<1>4. CASE c.state[s] \notin {"SENTACCEPT", "RECEIVEDACCEPT", "SENTREJECT",
                              "RECEIVEDREJECT", "SENTTERMINATE", "RECEIVEDTERMINATE"}
  <2>1. d = c
    BY <1>4 DEF OnState
  <2> HIDE DEF d
  <2>2. Acts(c, c, s) /\ NoNewError(c.queue, c.queue)
    BY NothingDone, DoesActs
  <2>3. c.state[s] \notin Over /\ c.state[s] # "RECEIVEDTERMINATE"
    BY <1>4 DEF Over
  <2>4. Goal(d)
    BY <2>1, <2>2, <2>3
  <2> QED BY <2>4 DEF d
<1> QED BY <1>1, <1>2, <1>3, <1>4

(* A message that is not one for a state, and its session.                 *)
PostedActsAs(c, m, s, d) ==
  /\ Acts(c, d, s)
  /\ Owned(c) => Owned(d)
  /\ m.id = "ERROR" => Does(c, d, s) /\ d.state[s] = "SENTTERMINATE"
  /\ m.id # "ERROR" =>
       /\ d.state = c.state
       /\ d.queue \in {c.queue, Append(c.queue, Msg("ERROR", s))}
  /\ c.state[s] \in Unanswered => d.state[s] \in Unanswered

LEMMA PostedActs ==
  ASSUME NEW c, Clean(c), NEW s \in Sessions, NEW m, m.sess = s,
         m.id \in {"ERROR", "TIMEOUT", "AUTODESTROY"},
         m.id = "ERROR" => c.state[s] \in Live \cup (Over \ {"RECEIVEDTERMINATE"}),
         NEW writable \in BOOLEAN
  PROVE  PostedActsAs(c, m, s, OnPosted(c, m, writable))
<1> DEFINE d == OnPosted(c, m, writable)
<1>1. CASE m.id = "ERROR"
  <2>1. d = Terminate(c, s)
    BY <1>1 DEF OnPosted
  <2> HIDE DEF d
  <2>2. Does(c, d, s) /\ d.state[s] = "SENTTERMINATE" /\ (Owned(c) => Owned(d))
    BY <1>1, <2>1, TerminateDoes
  <2>3. Acts(c, d, s)
    BY <2>2, DoesActs
  <2> QED BY <1>1, <2>2, <2>3 DEF d, Unanswered, PostedActsAs
<1>2. CASE m.id = "TIMEOUT"
  <2>1. d = SetError(c, s, "TIME")
    BY <1>2 DEF OnPosted
  <2> HIDE DEF d
  <2>2. /\ Acts(c, d, s) /\ d.state = c.state /\ d.call = c.call
        /\ d.queue \in {c.queue, Append(c.queue, Msg("ERROR", s))}
    BY <2>1, SetErrorActs
  <2>3. Owned(c) => Owned(d)
    BY <2>2 DEF Owned
  <2> QED BY <1>2, <2>2, <2>3 DEF d, PostedActsAs
<1>3. CASE m.id = "AUTODESTROY"
  <2>1. d = DestroyCall(c, s)
    BY <1>3 DEF OnPosted
  <2> HIDE DEF d
  <2>2. /\ Acts(c, d, s) /\ d.state = c.state /\ d.call = c.call /\ d.queue = c.queue
    BY <2>1, DestroyCallActs
  <2>3. Owned(c) => Owned(d)
    BY <2>2 DEF Owned
  <2> QED BY <1>3, <2>2, <2>3 DEF d, PostedActsAs
<1> QED BY <1>1, <1>2, <1>3

(* A stanza; an accept comes for a session that is alive.                  *)
IncomingActsAs(c, m, s, d) ==
  /\ Acts(c, d, s)
  /\ Owned(c) => Owned(d)
  /\ m.type # "ERROR" => Does(c, d, s)
  /\ m.type = "ERROR" =>
       /\ d.state = c.state
       /\ d.queue \in {c.queue, Append(c.queue, Msg("ERROR", s))}

LEMMA IncomingActs ==
  ASSUME NEW c, Clean(c), Current(c), NEW m \in Incoming,
         m.type = "INITIATE" => c.state[m.sess] = "absent",
         m.type = "ACCEPT" => c.state[m.sess] \notin Over
  PROVE  IncomingActsAs(c, m, m.sess, OnIncomingMessage(c, m))
<1> DEFINE d == OnIncomingMessage(c, m)
           s == m.sess
<1>0. /\ s \in Sessions /\ m.codecs \in BOOLEAN
      /\ m.type \in {"INITIATE", "ACCEPT", "REJECT", "TERMINATE", "ERROR"}
      /\ c \in Objects /\ c.state[s] \in States
  BY DEF Incoming, Clean, Objects
<1>1. ASSUME m.type # "ERROR", Does(c, d, s), Owned(c) => Owned(d)
      PROVE  IncomingActsAs(c, m, m.sess, OnIncomingMessage(c, m))
  <2> HIDE DEF d, s
  <2>1. Acts(c, d, s)
    BY <1>1, DoesActs
  <2> QED BY <1>1, <2>1 DEF d, s, IncomingActsAs
<1>2. CASE m.type = "INITIATE"
  <2>1. d = OnInitiate(c, s, m.codecs)
    BY <1>2 DEF OnIncomingMessage
  <2>2. Does(c, d, s) /\ (Owned(c) => Owned(d))
    <3> HIDE DEF d, s
    <3> QED BY <1>0, <1>2, <2>1, OnInitiateDoes DEF s
  <2> QED BY <1>1, <1>2, <2>2
<1>3. CASE m.type # "INITIATE" /\ ~Exists(c, s)
  <2>1. d = c
    BY <1>3 DEF OnIncomingMessage
  <2>2. Does(c, c, s) /\ Acts(c, c, s)
    BY <1>0, NothingDone, DoesActs
  <2> HIDE DEF d
  <2>3. CASE m.type # "ERROR"
    BY <1>1, <2>1, <2>2, <2>3 DEF d
  <2>4. CASE m.type = "ERROR"
    BY <2>1, <2>2, <2>4 DEF d, IncomingActsAs
  <2> QED BY <2>3, <2>4
<1>4. CASE m.type = "ACCEPT" /\ Exists(c, s)
  <2>1. d = OnAccept(c, s)
    BY <1>4 DEF OnIncomingMessage
  <2>2. c.state[s] \in Live
    BY <1>0, <1>4 DEF Exists, States
  <2>3. Does(c, d, s) /\ (Owned(c) => Owned(d))
    <3> HIDE DEF d, s
    <3> QED BY <1>0, <2>1, <2>2, OnAcceptDoes
  <2> QED BY <1>1, <1>4, <2>3
<1>5. CASE m.type = "REJECT" /\ Exists(c, s)
  <2>1. d = OnReject(c, s)
    BY <1>5 DEF OnIncomingMessage
  <2> HIDE DEF d, s
  <2>2. Does(c, d, s) /\ (Owned(c) => Owned(d))
    <3>1. CASE c.state[s] = "RECEIVEDREJECT"
      BY <1>0, <2>1, <3>1, NothingDone DEF OnReject
    <3>2. CASE c.state[s] # "RECEIVEDREJECT"
      <4>1. d = Received(c, s, "RECEIVEDREJECT", "NOT_ANSWERED")
        BY <2>1, <3>2 DEF OnReject, Received
      <4>2. Alive(c.state, s) /\ "NOT_ANSWERED" \in Closing
        BY <1>5 DEF Alive, Exists, Closing
      <4> QED BY <1>0, <4>1, <4>2, ReceivedDoes
    <3> QED BY <3>1, <3>2
  <2> QED BY <1>1, <1>5, <2>2 DEF d, s
<1>6. CASE m.type = "TERMINATE" /\ Exists(c, s)
  <2>1. d = OnTerminate(c, s)
    BY <1>6 DEF OnIncomingMessage
  <2> HIDE DEF d, s
  <2>2. Does(c, d, s) /\ (Owned(c) => Owned(d))
    <3>1. CASE c.state[s] = "RECEIVEDTERMINATE"
      BY <1>0, <2>1, <3>1, NothingDone DEF OnTerminate
    <3>2. CASE c.state[s] # "RECEIVEDTERMINATE"
      <4>1. d = Received(c, s, "RECEIVEDTERMINATE", "TERMINATE")
        BY <2>1, <3>2 DEF OnTerminate, Received
      <4>2. Alive(c.state, s) /\ "TERMINATE" \in Closing
        BY <1>6 DEF Alive, Exists, Closing
      <4> QED BY <1>0, <4>1, <4>2, ReceivedDoes
    <3> QED BY <3>1, <3>2
  <2> QED BY <1>1, <1>6, <2>2 DEF d, s
<1>7. CASE m.type = "ERROR" /\ Exists(c, s)
  <2>1. d = SetError(c, s, "RESPONSE")
    BY <1>7 DEF OnIncomingMessage
  <2> HIDE DEF d, s
  <2>2. /\ Acts(c, d, s) /\ d.state = c.state /\ d.call = c.call
        /\ d.queue \in {c.queue, Append(c.queue, Msg("ERROR", s))}
    BY <1>0, <2>1, SetErrorActs
  <2>3. Owned(c) => Owned(d)
    BY <2>2 DEF Owned
  <2> QED BY <1>7, <2>2, <2>3 DEF d, s, IncomingActsAs
<1> QED BY <1>0, <1>2, <1>3, <1>4, <1>5, <1>6, <1>7

(* A command other than one that makes a call.                             *)
LEMMA CommandActs ==
  ASSUME NEW c, Clean(c), Current(c), NEW command,
         ~(command = "CALL" /\ c.call = None)
  PROVE  LET d == OnCommand(c, command, None)
             s == c.call
         IN  /\ s = None => d = c
             /\ s # None =>
                  /\ s \in Sessions
                  /\ Does(c, d, s)
                  /\ command # "REJECT_CALL" /\ Owned(c) => Owned(d)
                  /\ d.queue \in {c.queue, Append(c.queue, Msg("STATE", s))}
                  /\ c.state[s] \in Unanswered => d.state[s] \in Unanswered
<1> DEFINE d == OnCommand(c, command, None)
           s == c.call
<1>0. c \in Objects /\ s \in Sessions \cup {None}
  BY DEF Clean, Objects
<1>1. CASE s = None
  BY <1>1 DEF OnCommand
<1>2. CASE s # None /\ command \notin {"HANGUP", "ACCEPT_CALL", "REJECT_CALL"}
  <2>1. d = c
    BY <1>2 DEF OnCommand
  <2>2. Does(c, c, s) /\ s \in Sessions
    BY <1>0, <1>2, NothingDone
  <2> HIDE DEF d
  <2> QED BY <1>2, <2>1, <2>2 DEF d
<1>3. CASE s # None /\ command = "HANGUP"
  <2>1. d = EndMine(c, s) /\ s \in Sessions
    BY <1>0, <1>3 DEF OnCommand
  <2> HIDE DEF d, s
  <2>2. /\ Does(c, d, s) /\ d.state[s] = "SENTTERMINATE" /\ (Owned(c) => Owned(d))
        /\ d.queue \in {c.queue, Append(c.queue, Msg("STATE", s))}
    BY <2>1, EndMineDoes DEF s
  <2> QED BY <1>3, <2>1, <2>2 DEF d, s, Unanswered
<1>4. CASE s # None /\ command = "ACCEPT_CALL"
  <2>1. d = Accept(c, s) /\ s \in Sessions
    BY <1>0, <1>4 DEF OnCommand
  <2> HIDE DEF d, s
  <2>2. /\ Does(c, d, s) /\ (Owned(c) => Owned(d))
        /\ d.state[s] = (IF c.state[s] = "RECEIVEDINITIATE" THEN "SENTACCEPT" ELSE c.state[s])
        /\ d.queue \in {c.queue, Append(c.queue, Msg("STATE", s))}
    BY <2>1, AcceptDoes
  <2> QED BY <1>4, <2>1, <2>2 DEF d, s, Unanswered
<1>5. CASE s # None /\ command = "REJECT_CALL"
  <2> DEFINE r == Reject(c, s)
  <2>1. d = [r EXCEPT !.call = None] /\ s \in Sessions
    BY <1>0, <1>5 DEF OnCommand
  <2> HIDE DEF d, s
  <2>2. /\ Does(c, r, s)
        /\ r.state[s] = (IF c.state[s] = "RECEIVEDINITIATE" THEN "SENTREJECT" ELSE c.state[s])
        /\ r.queue \in {c.queue, Append(c.queue, Msg("STATE", s))}
    BY <2>1, RejectDoes
  <2> HIDE DEF r
  <2>3. /\ d \in Objects /\ d.state = r.state /\ d.queue = r.queue
        /\ d.sent = r.sent /\ d.posted = r.posted
    <3>1. r \in Objects
      BY <2>2 DEF Does
    <3> QED BY <2>1, <3>1, CallIs
  <2>4. Does(c, d, s)
    BY <2>2, <2>3 DEF Does, Shows, Tells, Sends, Pending
  <2> QED BY <1>5, <2>1, <2>2, <2>3, <2>4 DEF d, s, Unanswered
<1> QED BY <1>1, <1>2, <1>3, <1>4, <1>5

-----------------------------------------------------------------------------
(* In which order the messages and the stanzas of a session come.          *)

HasError(c, s) == \E i \in DOMAIN c.queue : c.queue[i] = Msg("ERROR", s)

(* Nobody will dispose of the session.                                     *)
Lost(c, s) == c.state[s] \in Over /\ ~Pending(c, s)

(* An error would be handled before the terminate that was received.       *)
ErrorFirst(c, s) ==
  /\ c.state[s] = "RECEIVEDTERMINATE"
  /\ \E i \in DOMAIN c.queue :
       /\ c.queue[i] = Msg("ERROR", s)
       /\ \A j \in 1..(i - 1) : c.queue[j] # Msg("STATE", s)

Kept(c, s) == ~Lost(c, s) /\ ~ErrorFirst(c, s)

LEMMA QueueIs ==
  ASSUME NEW c \in Objects
  PROVE  /\ c.queue \in Seq(Messages) /\ Len(c.queue) \in Nat
         /\ DOMAIN c.queue = 1..Len(c.queue)
         /\ c.state \in [Sessions -> States]
  BY DEF Objects

(* The handler of one session does not disturb another.                    *)
LEMMA OthersKept ==
  ASSUME NEW c \in Objects, NEW d \in Objects, NEW s \in Sessions, NEW t \in Sessions \ {s},
         Grows(c.queue, d.queue, s), d.state[t] = c.state[t]
  PROVE  /\ Kept(c, t) => Kept(d, t)
         /\ HasError(d, t) => HasError(c, t)
<1>1. Msg("ERROR", t).sess = t /\ Msg("STATE", t).sess = t /\ Msg("CLEARED", None).sess = None
      /\ t # None
  BY CallClientConstants DEF Msg
<1>2. ASSUME NEW m, m.sess = t, NEW i \in DOMAIN d.queue, d.queue[i] = m
      PROVE  i \in DOMAIN c.queue /\ c.queue[i] = m
  BY <1>1, <1>2 DEF Grows
<1>3. ASSUME NEW m, m.sess = t, NEW i \in DOMAIN c.queue, c.queue[i] = m
      PROVE  i \in DOMAIN d.queue /\ d.queue[i] = m
  BY <1>3 DEF Grows
<1>4. Pending(c, t) => Pending(d, t)
  BY <1>1, <1>3 DEF Pending
<1>5. HasError(d, t) => HasError(c, t)
  BY <1>1, <1>2 DEF HasError
<1>6. ASSUME ErrorFirst(d, t) PROVE ErrorFirst(c, t)
  <2>1. PICK i \in DOMAIN d.queue :
          /\ d.queue[i] = Msg("ERROR", t)
          /\ \A j \in 1..(i - 1) : d.queue[j] # Msg("STATE", t)
    BY <1>6 DEF ErrorFirst
  <2>2. i \in DOMAIN c.queue /\ c.queue[i] = Msg("ERROR", t)
    BY <1>1, <1>2, <2>1
  <2>3. \A j \in 1..(i - 1) : j \in DOMAIN c.queue
    BY <2>2, QueueIs
  <2>4. \A j \in 1..(i - 1) : c.queue[j] # Msg("STATE", t)
    BY <1>1, <1>3, <2>1, <2>3
  <2> QED BY <1>6, <2>2, <2>4 DEF ErrorFirst
<1> QED BY <1>4, <1>5, <1>6 DEF Kept, Lost

(* Nor the pump's message.                                                 *)
LEMMA PumpKept ==
  ASSUME NEW q, NEW r, NEW s \in Sessions, Grows(q, r, s), NEW i \in DOMAIN q, q[i] = Pump
  PROVE  i \in DOMAIN r /\ r[i] = Pump
BY CallClientConstants DEF Grows, Pump

(* A new state is pending.                                                 *)
LEMMA DoesKeeps ==
  ASSUME NEW c \in Objects, NEW d \in Objects, NEW s \in Sessions,
         ~Lost(c, s), d.state[s] = c.state[s] \/ Pending(d, s),
         Longer(c.queue, d.queue, s)
  PROVE  ~Lost(d, s)
<1>1. Pending(c, s) => Pending(d, s)
  <2>1. Msg("STATE", s) # Msg("TIMEOUT", s)
    BY DEF Msg
  <2> QED BY <2>1 DEF Pending, Longer
<1> QED BY <1>1 DEF Lost

LEMMA NoErrorKept ==
  ASSUME NEW c, NEW d, NEW s, NoNewError(c.queue, d.queue), ~HasError(c, s)
  PROVE  ~HasError(d, s) /\ ~ErrorFirst(d, s)
<1>1. Msg("ERROR", s).id = "ERROR"
  BY DEF Msg
<1>2. ~HasError(d, s)
  BY <1>1 DEF HasError, NoNewError
<1> QED BY <1>2 DEF HasError, ErrorFirst

(* An error that is added comes after whatever is there.                   *)
LEMMA ErrorAdded ==
  ASSUME NEW c \in Objects, NEW d \in Objects, NEW s \in Sessions, Kept(c, s),
         d.state = c.state, d.queue \in {c.queue, Append(c.queue, Msg("ERROR", s))}
  PROVE  Kept(d, s)
<1> DEFINE n == Len(c.queue)
<1>0. c.queue \in Seq(Messages) /\ n \in Nat /\ DOMAIN c.queue = 1..n
  BY QueueIs
<1>1. CASE d.queue = c.queue
  BY <1>1 DEF Kept, Lost, ErrorFirst, Pending
<1>2. CASE d.queue = Append(c.queue, Msg("ERROR", s))
  <2>1. /\ DOMAIN d.queue = 1..(n + 1)
        /\ \A i \in 1..n : d.queue[i] = c.queue[i]
        /\ d.queue[n + 1] = Msg("ERROR", s)
    BY <1>0, <1>2
  <2> HIDE DEF n
  <2>2. Pending(c, s) => Pending(d, s)
    BY <1>0, <2>1 DEF Pending
  <2>3. ASSUME ErrorFirst(d, s) PROVE FALSE
    <3>1. PICK i \in DOMAIN d.queue :
            /\ d.queue[i] = Msg("ERROR", s)
            /\ \A j \in 1..(i - 1) : d.queue[j] # Msg("STATE", s)
      BY <2>3 DEF ErrorFirst
    <3>2. c.state[s] = "RECEIVEDTERMINATE" /\ Pending(c, s)
      BY <2>3 DEF ErrorFirst, Kept, Lost, Over
    <3>3. CASE i = n + 1
      BY <1>0, <2>1, <3>1, <3>2, <3>3 DEF Pending
    <3>4. CASE i # n + 1
      <4>1. i \in 1..n
        BY <1>0, <2>1, <3>4
      <4>0. \A j \in 1..(i - 1) : j \in 1..n
        BY <1>0, <4>1
      <4>2. c.queue[i] = Msg("ERROR", s) /\ \A j \in 1..(i - 1) : c.queue[j] # Msg("STATE", s)
        BY <2>1, <3>1, <4>0, <4>1, Zenon
      <4> QED BY <1>0, <3>2, <4>1, <4>2 DEF ErrorFirst, Kept
    <3> QED BY <3>3, <3>4
  <2> QED BY <2>2, <2>3 DEF Kept, Lost
<1> QED BY <1>1, <1>2

LEMMA IdleClean ==
  ASSUME IInv
  PROVE  /\ Clean(Idle) /\ Current(Idle) /\ client \in Objects
         /\ Idle.state = client.state /\ Idle.call = client.call
         /\ Idle.queue = client.queue
<1>1. client \in Objects
  BY DEF IInv, Whole
<1>2. Idle.sent = <<>> /\ Idle.posted = <<>>
  BY <1>1 DEF Idle, Objects
<1> QED BY <1>1, <1>2, IdleWhole DEF IInv, Whole, Clean

LEMMA PoppedClean ==
  ASSUME IInv, client.queue # <<>>
  PROVE  /\ Clean(Popped) /\ Current(Popped)
         /\ Popped.state = client.state /\ Popped.call = client.call
         /\ Popped.queue = Tail(client.queue)
<1>1. Popped \in Objects /\ Idle \in Objects
  BY PoppedWhole, IdleWhole DEF IInv, Whole
<1>2. Idle.sent = <<>> /\ Idle.posted = <<>> /\ Idle.queue = client.queue
  BY IdleClean DEF Clean
<1>3. Popped.sent = <<>> /\ Popped.posted = <<>> /\ Popped.queue = Tail(Idle.queue)
  BY <1>1, <1>2 DEF Popped, Objects
<1> QED BY <1>1, <1>2, <1>3, PoppedWhole DEF IInv, Clean

(* Taking a message that is not for the state of a session.                *)
LEMMA PoppedKept ==
  ASSUME IInv, client.queue # <<>>, NEW s \in Sessions
  PROVE  /\ HasError(Popped, s) => HasError(client, s)
         /\ Head(client.queue) # Msg("STATE", s) /\ Kept(client, s) => Kept(Popped, s)
<1> DEFINE q == client.queue
           r == Popped.queue
<1>1. /\ q \in Seq(Messages) /\ Len(q) \in Nat /\ DOMAIN q = 1..Len(q) /\ Len(q) # 0
  BY QueueIs, IdleClean
<1>2. /\ r = Tail(q) /\ Popped.state = client.state
  BY PoppedClean
<1>3. /\ DOMAIN r = 1..(Len(q) - 1) /\ q[1] = Head(q)
      /\ \A i \in 1..(Len(q) - 1) : r[i] = q[i + 1]
  BY <1>1, <1>2
<1> HIDE DEF q, r
<1>4. ASSUME HasError(Popped, s) PROVE HasError(client, s)
  BY <1>1, <1>3, <1>4 DEF HasError, q, r
<1>5. ASSUME Head(q) # Msg("STATE", s), Kept(client, s) PROVE Kept(Popped, s)
  <2>1. ASSUME Pending(client, s) PROVE Pending(Popped, s)
    <3>1. PICK i \in DOMAIN q : q[i] = Msg("STATE", s)
      BY <2>1 DEF Pending, q
    <3>2. i - 1 \in 1..(Len(q) - 1) /\ q[(i - 1) + 1] = q[i]
      BY <1>1, <1>3, <1>5, <3>1
    <3>3. r[i - 1] = Msg("STATE", s)
      BY <1>3, <3>1, <3>2
    <3> QED BY <1>3, <3>2, <3>3 DEF Pending, r
  <2>2. ASSUME ErrorFirst(Popped, s) PROVE FALSE
    <3>1. PICK i \in DOMAIN r :
            /\ r[i] = Msg("ERROR", s)
            /\ \A j \in 1..(i - 1) : r[j] # Msg("STATE", s)
      BY <2>2 DEF ErrorFirst, r
    <3>2. i + 1 \in DOMAIN q /\ q[i + 1] = Msg("ERROR", s)
      BY <1>1, <1>3, <3>1
    <3>3. ASSUME NEW j \in 1..((i + 1) - 1) PROVE q[j] # Msg("STATE", s)
      <4>1. CASE j = 1
        BY <1>3, <1>5, <4>1
      <4>2. CASE j # 1
        <5>1. j - 1 \in 1..(i - 1) /\ j - 1 \in 1..(Len(q) - 1) /\ (j - 1) + 1 = j
          BY <1>1, <1>3, <3>1, <4>2
        <5> QED BY <1>3, <3>1, <5>1
      <4> QED BY <4>1, <4>2
    <3>4. ErrorFirst(client, s)
      <4> DEFINE k == i + 1
      <4>1. k \in DOMAIN q /\ q[k] = Msg("ERROR", s)
            /\ \A j \in 1..(k - 1) : q[j] # Msg("STATE", s)
        BY <3>2, <3>3
      <4> HIDE DEF k
      <4> QED BY <1>2, <2>2, <4>1 DEF ErrorFirst, q
    <3> QED BY <1>5, <3>4 DEF Kept
  <2> QED BY <1>2, <1>5, <2>1, <2>2 DEF Kept, Lost
<1> QED BY <1>4, <1>5 DEF q

(* The pump's message is the next one, or comes after what one command     *)
(* has posted.                                                             *)
Pumping(q) ==
  /\ q # <<>>
  /\ q[1] = Pump \/ (q[1].id = "STATE" /\ Len(q) > 1 /\ q[2] = Pump)

(* While the thread waits, one command's message and the pump's are queued. *)
Waits ==
  waiting => \A i \in DOMAIN client.queue :
    \/ i = 1 /\ client.queue[i].id = "STATE"
    \/ inbox # <<>> /\ client.queue[i] = Pump

(* Nothing follows an error, and an accept is the first of its session.    *)
InboxOrder ==
  /\ \A i \in DOMAIN inbox :
       /\ peer[inbox[i].sess] \in {"joined", "done"}
       /\ inbox[i].type = "ERROR" => peer[inbox[i].sess] = "done"
  /\ \A i, j \in DOMAIN inbox :
       i < j /\ inbox[i].sess = inbox[j].sess =>
         inbox[j].type # "ACCEPT" /\ inbox[i].type # "ERROR"

(* An accept of a call that is over is handled after its own side's        *)
(* terminate was dispatched, and then there is no session to accept it.    *)
Ordered(s) ==
  /\ Kept(client, s)
  /\ peer[s] = "invited" => client.state[s] \in Unanswered
  /\ \A i \in DOMAIN inbox :
       inbox[i].sess = s =>
         /\ ~HasError(client, s)
         /\ inbox[i].type = "ACCEPT" /\ client.state[s] \in Over =>
              client.queue[1] = Msg("STATE", s) /\ client.state[s] = "SENTTERMINATE"

OInv ==
  /\ inbox # <<>> => Pumping(client.queue)
  /\ Waits
  /\ InboxOrder
  /\ \A s \in Sessions : Ordered(s)

LEMMA InitOrder == Init => OInv
<1> SUFFICES ASSUME Init PROVE OInv
  OBVIOUS
<1>1. inbox = <<>> /\ client.queue = <<>> /\ DOMAIN <<>> = {}
  BY DEF Init
<1>2. ASSUME NEW s \in Sessions PROVE client.state[s] = "absent" /\ peer[s] = "idle"
  BY DEF Init
<1>3. ASSUME NEW s \in Sessions PROVE Ordered(s)
  BY <1>1, <1>2 DEF Ordered, Kept, Lost, ErrorFirst, Over
<1> QED BY <1>1, <1>3 DEF OInv, Waits, InboxOrder

(* A step that leaves the inbox and the peers alone.                       *)
LEMMA SameInbox ==
  ASSUME IInv, OInv, inbox' = inbox, peer' = peer,
         inbox # <<>> => Pumping(client'.queue),
         Waits',
         NEW D, D = client',
         \A s \in Sessions :
           /\ Kept(D, s)
           /\ client.state[s] \in Unanswered => D.state[s] \in Unanswered
           /\ inbox # <<>> /\ HasError(D, s) => HasError(client, s)
           /\ inbox # <<>> /\ D.state[s] \in Over =>
                \/ /\ client.queue[1] = Msg("STATE", s) => D.queue[1] = Msg("STATE", s)
                   /\ D.state[s] = client.state[s]
                \/ client.state[s] \in Over \ {"SENTTERMINATE"}
  PROVE  OInv'
<1>1. InboxOrder'
  BY DEF OInv, InboxOrder
<1>2. ASSUME NEW s \in Sessions PROVE Ordered(s)'
  <2>1. Ordered(s)
    BY DEF OInv
  <2>2. peer'[s] = "invited" => D.state[s] \in Unanswered
    BY <2>1 DEF Ordered
  <2>3. ASSUME NEW i \in DOMAIN inbox, inbox[i].sess = s
        PROVE  /\ ~HasError(D, s)
               /\ inbox[i].type = "ACCEPT" /\ D.state[s] \in Over =>
                    D.queue[1] = Msg("STATE", s) /\ D.state[s] = "SENTTERMINATE"
    <3>1. inbox # <<>>
      OBVIOUS
    <3> QED BY <2>1, <2>3, <3>1 DEF Ordered
  <2>4. Kept(D, s)
    OBVIOUS
  <2> QED BY <2>2, <2>3, <2>4 DEF Ordered
<1> QED BY <1>1, <1>2 DEF OInv

LEMMA TimerOrder ==
  ASSUME IInv, OInv, NEW s \in Sessions, TimerFires(s)
  PROVE  OInv' /\ client'.state = client.state /\ client'.call = client.call /\ client'.sent = <<>>
<1> DEFINE c == [Idle EXCEPT !.timer[s] = FALSE]
           m == Msg("TIMEOUT", s)
<1>1. /\ c \in Objects /\ c.state = client.state /\ c.call = client.call
      /\ c.queue = client.queue /\ c.sent = <<>>
  BY IdleClean, TimerIs DEF Clean
<1>2. client' = Enqueue(c, "TIMEOUT", s) /\ inbox' = inbox /\ peer' = peer /\ waiting' = FALSE
  BY DEF TimerFires
<1> HIDE DEF c
<1>a. LET e == Enqueue(c, "TIMEOUT", s)
      IN  e \in Objects /\ e.state = c.state /\ e.call = c.call
          /\ e.queue = Append(c.queue, m) /\ e.sent = c.sent
  BY <1>1, EnqueueIs
<1>3. /\ client' \in Objects /\ client'.state = client.state /\ client'.call = client.call
      /\ client'.queue = Append(client.queue, m) /\ client'.sent = <<>>
  BY <1>1, <1>2, <1>a
<1>4. /\ client.queue \in Seq(Messages) /\ Len(client.queue) \in Nat
      /\ DOMAIN client.queue = 1..Len(client.queue)
  BY IdleClean, QueueIs
<1>5. /\ Len(client'.queue) = Len(client.queue) + 1
      /\ DOMAIN client'.queue = 1..(Len(client.queue) + 1)
      /\ \A i \in DOMAIN client.queue : client'.queue[i] = client.queue[i]
      /\ client'.queue[Len(client.queue) + 1] = m
  BY <1>3, <1>4
<1>6. m # Msg("STATE", s) /\ \A t \in Sessions : m # Msg("ERROR", t) /\ m # Msg("STATE", t)
  BY DEF Msg
<1> HIDE DEF m
<1>7. inbox # <<>> => Pumping(client'.queue)
  <2>1. SUFFICES ASSUME Pumping(client.queue) PROVE Pumping(client'.queue)
    BY DEF OInv
  <2>2. client.queue # <<>> => Len(client.queue) > 0
    BY <1>4
  <2> QED BY <1>4, <1>5, <2>1, <2>2 DEF Pumping
<1>8. Waits'
  BY <1>2 DEF Waits
<1> DEFINE D == client'
<1>9. D = client' /\ D.state = client.state
  BY <1>3
<1>10. /\ DOMAIN D.queue = 1..(Len(client.queue) + 1)
       /\ \A i \in 1..Len(client.queue) : D.queue[i] = client.queue[i]
       /\ D.queue[Len(client.queue) + 1] = m
  BY <1>4, <1>5
<1> HIDE DEF D
<1>11. ASSUME NEW t \in Sessions
       PROVE  /\ Pending(client, t) => Pending(D, t)
              /\ HasError(D, t) => HasError(client, t)
              /\ ErrorFirst(D, t) => ErrorFirst(client, t)
  <2>1. Pending(client, t) => Pending(D, t)
    BY <1>4, <1>10 DEF Pending
  <2>2. HasError(D, t) => HasError(client, t)
    BY <1>4, <1>6, <1>10 DEF HasError
  <2>3. ASSUME ErrorFirst(D, t) PROVE ErrorFirst(client, t)
    <3>1. PICK i \in DOMAIN D.queue :
            /\ D.queue[i] = Msg("ERROR", t)
            /\ \A j \in 1..(i - 1) : D.queue[j] # Msg("STATE", t)
      BY <2>3 DEF ErrorFirst
    <3>2. i \in 1..Len(client.queue)
      BY <1>4, <1>6, <1>10, <3>1
    <3>3. client.queue[i] = Msg("ERROR", t)
          /\ \A j \in 1..(i - 1) : client.queue[j] # Msg("STATE", t)
      <4>1. \A j \in 1..(i - 1) : j \in 1..Len(client.queue)
        BY <1>4, <3>2
      <4> HIDE DEF m
      <4> QED BY <1>10, <3>1, <3>2, <4>1
    <3> QED BY <1>4, <1>9, <2>3, <3>2, <3>3 DEF ErrorFirst
  <2> QED BY <2>1, <2>2, <2>3
<1>12. \A t \in Sessions : Kept(D, t)
  BY <1>9, <1>11 DEF OInv, Ordered, Kept, Lost
<1>13. inbox # <<>> => D.queue[1] = client.queue[1]
  <2>1. client.queue # <<>> => 1 \in 1..Len(client.queue)
    BY <1>4
  <2> QED BY <1>10, <2>1 DEF OInv, Pumping
<1>14. OInv'
  BY <1>2, <1>7, <1>8, <1>9, <1>11, <1>12, <1>13, SameInbox
<1> QED BY <1>3, <1>14

(* What a step may do to the sessions, and must tell about it.             *)
Moved(c, d) ==
  /\ \A s \in Sessions :
       /\ Forward(c.state[s], d.state[s])
       /\ c.state[s] \in Live /\ d.state[s] \in Over \ {"SENTREJECT"} => Tells(d)
       /\ Sends(d, s) => c.state[s] \notin {"SENTTERMINATE", "RECEIVEDTERMINATE"}
  /\ \A s, t \in Sessions :
       d.state[s] # c.state[s] /\ d.state[t] # c.state[t] => s = t

LEMMA ShowsMoved ==
  ASSUME NEW c, NEW d, NEW s \in Sessions, Shows(c, d, s)
  PROVE  Moved(c, d)
<1>1. \A t \in Sessions \ {s} : d.state[t] = c.state[t]
  BY DEF Shows
<1>2. \A t \in Sessions \ {s} : ~(c.state[t] \in Live /\ d.state[t] \in Over \ {"SENTREJECT"})
  BY <1>1 DEF Live, Ringing, Talking, Over
<1>3. \A t \in Sessions \ {s} : Forward(c.state[t], d.state[t])
  BY <1>1 DEF Forward
<1> QED BY <1>1, <1>2, <1>3 DEF Shows, Moved

LEMMA SameMoved ==
  ASSUME NEW c, NEW d, d.state = c.state, d.sent = <<>>
  PROVE  Moved(c, d)
<1>1. \A t : ~Sends(d, t)
  BY NothingSent
<1>2. \A t : Forward(c.state[t], c.state[t])
  BY DEF Forward
<1>3. \A t : ~(c.state[t] \in Live /\ c.state[t] \in Over \ {"SENTREJECT"})
  BY DEF Live, Ringing, Talking, Over
<1> QED BY <1>1, <1>2, <1>3 DEF Moved

LEMMA DispatchOrder ==
  ASSUME IInv, OInv, Dispatch
  PROVE  /\ OInv'
         /\ Moved(client, client')
         /\ Owned(client) => Owned(client')
<1> DEFINE m == Head(client.queue)
           s == m.sess
           c == Popped
           D == client'
<1>1. PICK writable \in BOOLEAN : D = OnPosted(c, m, writable)
  BY DEF Dispatch
<1>2. /\ client.queue # <<>> /\ m.id # "PUMP" /\ UNCHANGED <<inbox, peer>>
      /\ waiting' = (D.queue = <<>>)
  BY DEF Dispatch, WaitsIfIdle
<1>3. /\ Clean(c) /\ c \in Objects /\ c.state = client.state /\ c.call = client.call
      /\ c.queue = Tail(client.queue) /\ client \in Objects
  BY <1>2, PoppedClean, IdleClean DEF Clean
<1>4. /\ client.queue \in Seq(Messages) /\ Len(client.queue) \in Nat
      /\ DOMAIN client.queue = 1..Len(client.queue)
      /\ 1 \in DOMAIN client.queue /\ m = client.queue[1] /\ m \in Messages
  BY <1>2, <1>3, QueueIs
<1>5. /\ m.id \in {"STATE", "ERROR", "TIMEOUT"} => s \in Sessions /\ Alive(client.state, s)
      /\ m.id = "AUTODESTROY" => s \in Sessions
      /\ m.id \in {"STATE", "ERROR", "TIMEOUT", "AUTODESTROY", "CLEARED"}
  BY <1>2, <1>4 DEF IInv, Whole, QueueOK, Messages
<1>m. \A t : Msg("STATE", t).id = "STATE" /\ Msg("STATE", t).sess = t /\ Msg("ERROR", t).id = "ERROR"
             /\ Msg("ERROR", t).sess = t
  BY DEF Msg
<1>6. inbox # <<>> => /\ m.id = "STATE" /\ 1 \in DOMAIN c.queue /\ c.queue[1] = Pump
  <2>1. ASSUME inbox # <<>>
        PROVE  m.id = "STATE" /\ Len(client.queue) > 1 /\ client.queue[2] = Pump
    BY <1>2, <1>4, <2>1 DEF OInv, Pumping, Pump
  <2>2. Len(client.queue) > 1 => 1 \in DOMAIN c.queue /\ c.queue[1] = client.queue[2]
    BY <1>3, <1>4
  <2> QED BY <2>1, <2>2
<1>7. waiting' => DOMAIN D.queue = {}
  <2>1. D.queue = <<>> => DOMAIN D.queue = {}
    OBVIOUS
  <2> HIDE DEF D
  <2> QED BY <1>2, <2>1
<1>8. Waits'
  BY <1>7 DEF Waits
<1>9. \A t \in Sessions : /\ HasError(c, t) => HasError(client, t)
                          /\ m # Msg("STATE", t) => Kept(c, t)
                          /\ Kept(client, t)
  BY <1>2, PoppedKept DEF OInv, Ordered
<1> HIDE DEF m, c, D, s
<1>d. D = client'
  BY DEF D
<1>10. CASE m.id = "CLEARED"
  <2>1. D = c
    BY <1>1, <1>10 DEF OnPosted
  <2>2. inbox = <<>>
    BY <1>6, <1>10
  <2>3. \A t \in Sessions : Kept(D, t)
    BY <1>9, <1>10, <1>m, <2>1
  <2>4. OInv'
    BY <1>2, <1>3, <1>8, <1>d, <2>1, <2>2, <2>3, SameInbox
  <2>5. Moved(client, D)
    BY <1>3, <2>1, SameMoved DEF Clean
  <2>6. Owned(client) => Owned(D)
    BY <1>3, <2>1 DEF Owned
  <2> QED BY <1>d, <2>4, <2>5, <2>6
(* Every other message is for a session.                                   *)
<1>11. ASSUME s \in Sessions, Acts(c, D, s), Kept(D, s),
              client.state[s] \in Unanswered => D.state[s] \in Unanswered,
              inbox # <<>> => NoNewError(c.queue, D.queue),
              inbox # <<>> /\ D.state[s] \in Over => client.state[s] \in Over \ {"SENTTERMINATE"},
              Owned(c) => Owned(D)
       PROVE  /\ OInv' /\ Moved(client, client') /\ (Owned(client) => Owned(client'))
  <2>1. D \in Objects /\ Shows(c, D, s) /\ Grows(c.queue, D.queue, s)
        /\ \A t \in Sessions \ {s} : D.state[t] = client.state[t]
    BY <1>3, <1>11 DEF Acts, Shows
  <2>2. ASSUME NEW t \in Sessions \ {s}
        PROVE  Kept(D, t) /\ D.state[t] = client.state[t] /\ (HasError(D, t) => HasError(c, t))
    <3>1. m # Msg("STATE", t)
      BY <1>m, <2>2 DEF s
    <3> QED BY <1>3, <1>9, <1>11, <2>1, <3>1, OthersKept
  <2>3. inbox # <<>> => Pumping(D.queue) /\ D.queue[1] = Pump
    <3>1. inbox # <<>> => 1 \in DOMAIN D.queue /\ D.queue[1] = Pump
      BY <1>6, <1>11, <2>1, PumpKept
    <3> QED BY <3>1 DEF Pumping
  <2>5. ASSUME inbox # <<>>, HasError(D, s) PROVE HasError(client, s)
    BY <1>9, <1>11, <2>5, NoErrorKept
  <2>6. ASSUME NEW t \in Sessions
        PROVE  /\ Kept(D, t)
               /\ client.state[t] \in Unanswered => D.state[t] \in Unanswered
               /\ inbox # <<>> /\ HasError(D, t) => HasError(client, t)
               /\ inbox # <<>> /\ D.state[t] \in Over =>
                    \/ /\ client.queue[1] = Msg("STATE", t) => D.queue[1] = Msg("STATE", t)
                       /\ D.state[t] = client.state[t]
                    \/ client.state[t] \in Over \ {"SENTTERMINATE"}
    <3>1. CASE t = s
      BY <1>11, <2>5, <3>1
    <3>2. CASE t # s
      <4>1. client.queue[1] # Msg("STATE", t)
        BY <1>4, <1>m, <3>2 DEF s
      <4> QED BY <1>9, <2>2, <3>2, <4>1
    <3> QED BY <3>1, <3>2
  <2>7. OInv'
    BY <1>2, <1>8, <1>d, <2>3, <2>6, SameInbox
  <2>8. Moved(c, D)
    BY <1>11, <2>1, ShowsMoved
  <2>9. Moved(client, D)
    BY <1>3, <2>8 DEF Moved
  <2>10. Owned(client) => Owned(D)
    BY <1>3, <1>11 DEF Owned
  <2> QED BY <1>d, <2>7, <2>9, <2>10
<1>12. CASE m.id = "STATE"
  <2>1. D = OnState(c, s, writable) /\ s \in Sessions
    BY <1>1, <1>5, <1>12 DEF OnPosted, s
  <2>2. /\ Acts(c, D, s) /\ NoNewError(c.queue, D.queue)
        /\ Owned(c) => Owned(D)
        /\ D.state[s] # "RECEIVEDTERMINATE"
        /\ D.state[s] \in Over =>
             Pending(D, s) /\ c.state[s] \in {"SENTREJECT", "RECEIVEDREJECT"}
        /\ c.state[s] \in Unanswered => D.state[s] \in Unanswered
    BY <1>3, <2>1, StateActs
  <2>3. Kept(D, s)
    BY <2>2 DEF Kept, Lost, ErrorFirst
  <2>4. D.state[s] \in Over => client.state[s] \in Over \ {"SENTTERMINATE"}
    BY <1>3, <2>2 DEF Over
  <2> QED BY <1>3, <1>11, <2>1, <2>2, <2>3, <2>4
<1>13. CASE m.id \in {"ERROR", "TIMEOUT", "AUTODESTROY"}
  <2>1. inbox = <<>> /\ s \in Sessions
    BY <1>5, <1>6, <1>13
  <2>2. Kept(c, s)
    BY <1>9, <1>13, <1>m, <2>1
  <2>a. m.sess = s
    BY DEF s
  <2>3. m.id = "ERROR" => c.state[s] \in Live \cup (Over \ {"RECEIVEDTERMINATE"})
    <3> SUFFICES ASSUME m.id = "ERROR"
                 PROVE  c.state[s] \in Live \cup (Over \ {"RECEIVEDTERMINATE"})
      OBVIOUS
    <3>1. client.state[s] \in Live \cup Over
      BY <1>3, <1>5, QueueIs DEF Alive, States
    <3>2. m = Msg("ERROR", s)
      BY <1>4, CallClientConstants DEF Messages, Msg, s
    <3>3. client.state[s] # "RECEIVEDTERMINATE"
      <4>1. ~ErrorFirst(client, s)
        BY <1>9, <2>1 DEF Kept
      <4>2. \A j \in 1..(1 - 1) : client.queue[j] # Msg("STATE", s)
        OBVIOUS
      <4> QED BY <1>4, <3>2, <4>1, <4>2 DEF ErrorFirst
    <3> QED BY <1>3, <3>1, <3>3
  <2>4. /\ Acts(c, D, s)
        /\ Owned(c) => Owned(D)
        /\ m.id = "ERROR" => Does(c, D, s) /\ D.state[s] = "SENTTERMINATE"
        /\ m.id # "ERROR" =>
             D.state = c.state /\ D.queue \in {c.queue, Append(c.queue, Msg("ERROR", s))}
        /\ c.state[s] \in Unanswered => D.state[s] \in Unanswered
    <3>1. PostedActsAs(c, m, s, D)
      BY <1>1, <1>3, <1>13, <2>1, <2>a, <2>3, PostedActs
    <3> QED BY <3>1 DEF PostedActsAs
  <2>5. Kept(D, s)
    <3>1. D \in Objects /\ Grows(c.queue, D.queue, s)
      BY <2>4 DEF Acts
    <3>2. CASE m.id = "ERROR"
      <4>1. ~Lost(D, s)
        BY <1>3, <2>1, <2>2, <2>4, <3>1, <3>2, DoesKeeps DEF Kept, Does
      <4> QED BY <2>4, <3>2, <4>1 DEF Kept, ErrorFirst
    <3>3. CASE m.id # "ERROR"
      BY <1>3, <2>1, <2>2, <2>4, <3>1, <3>3, ErrorAdded
    <3> QED BY <3>2, <3>3
  <2> QED BY <1>3, <1>11, <2>1, <2>4, <2>5
<1> QED BY <1>5, <1>10, <1>12, <1>13

LEMMA StanzaOrder ==
  ASSUME IInv, OInv, HandleStanza
  PROVE  /\ OInv'
         /\ Moved(client, client')
         /\ Owned(client) => Owned(client')
<1> DEFINE m == Head(inbox)
           s == m.sess
           c == IF Len(inbox) = 1 THEN Popped ELSE Idle
           D == client'
<1>1. /\ D = OnIncomingMessage(c, m) /\ client.queue # <<>> /\ inbox # <<>>
      /\ Head(client.queue).id = "PUMP" /\ inbox' = Tail(inbox) /\ peer' = peer
      /\ waiting' = (D.queue = <<>>)
  BY DEF HandleStanza, WaitsIfIdle
<1>2. /\ Clean(c) /\ Current(c) /\ c \in Objects
      /\ c.state = client.state /\ c.call = client.call
      /\ client \in Objects
  BY <1>1, PoppedClean, IdleClean DEF Clean
<1>3. /\ inbox \in Seq(Incoming) /\ Len(inbox) \in Nat /\ DOMAIN inbox = 1..Len(inbox)
      /\ m = inbox[1] /\ 1 \in DOMAIN inbox /\ m \in Incoming /\ s \in Sessions
  <2>1. inbox \in Seq(Incoming)
    BY DEF IInv, TypeOK
  <2>2. m = inbox[1] /\ 1 \in DOMAIN inbox /\ m \in Incoming
    BY <1>1, <2>1
  <2>3. \A x \in Incoming : x.sess \in Sessions
    BY DEF Incoming
  <2>4. Len(inbox) \in Nat /\ DOMAIN inbox = 1..Len(inbox)
    BY <2>1
  <2> QED BY <2>1, <2>2, <2>3, <2>4
<1>4. /\ inbox' # <<>> => c = Idle
      /\ \A i \in DOMAIN inbox' : i \in Nat /\ i + 1 \in DOMAIN inbox /\ inbox'[i] = inbox[i + 1]
                                    /\ i \in 1..Len(inbox) /\ 1 < i + 1
      /\ inbox' = <<>> => DOMAIN inbox' = {}
  BY <1>1, <1>3
<1>5. Head(client.queue) = Pump /\ client.queue[1] = Pump /\ 1 \in DOMAIN client.queue
  <2>1. /\ client.queue \in Seq(Messages) /\ Head(client.queue) = client.queue[1]
        /\ 1 \in DOMAIN client.queue
    BY <1>1, <1>2, QueueIs
  <2>2. client.queue[1] \in Messages /\ \A x \in Messages : x.id = "PUMP" => x = Pump
    BY <2>1 DEF Messages, Pump
  <2> QED BY <1>1, <2>1, <2>2
<1>m. \A t : Msg("STATE", t) # Pump
  BY DEF Msg, Pump
<1>6. \A t \in Sessions : /\ HasError(c, t) => HasError(client, t)
                          /\ Kept(c, t)
  <2>1. ASSUME NEW t \in Sessions PROVE Kept(client, t)
    BY DEF OInv, Ordered
  <2>2. ASSUME NEW t \in Sessions
        PROVE  (HasError(Popped, t) => HasError(client, t)) /\ Kept(Popped, t)
    BY <1>1, <1>5, <1>m, <2>1, PoppedKept
  <2>3. ASSUME NEW t \in Sessions
        PROVE  (HasError(Idle, t) => HasError(client, t)) /\ Kept(Idle, t)
    BY <2>1, IdleClean DEF HasError, Kept, Lost, ErrorFirst, Pending
  <2> QED BY <2>2, <2>3
<1>7. waiting' => DOMAIN D.queue = {}
  <2>1. D.queue = <<>> => DOMAIN D.queue = {}
    OBVIOUS
  <2> HIDE DEF D
  <2> QED BY <1>1, <2>1
<1>8. Waits'
  BY <1>7 DEF Waits
<1>9. InboxOrder'
  <2>1. \A i \in DOMAIN inbox' :
          /\ peer'[inbox'[i].sess] \in {"joined", "done"}
          /\ inbox'[i].type = "ERROR" => peer'[inbox'[i].sess] = "done"
    BY <1>1, <1>4 DEF OInv, InboxOrder
  <2>2. ASSUME NEW i \in DOMAIN inbox', NEW j \in DOMAIN inbox', i < j,
               inbox'[i].sess = inbox'[j].sess
        PROVE  inbox'[j].type # "ACCEPT" /\ inbox'[i].type # "ERROR"
    <3>1. /\ i + 1 \in DOMAIN inbox /\ j + 1 \in DOMAIN inbox
          /\ inbox'[i] = inbox[i + 1] /\ inbox'[j] = inbox[j + 1] /\ i + 1 < j + 1
      BY <1>4, <2>2
    <3> QED BY <2>2, <3>1 DEF OInv, InboxOrder
  <2> QED BY <2>1, <2>2 DEF InboxOrder
<1>10. \A i \in DOMAIN inbox' :
         inbox'[i].sess = s => inbox'[i].type # "ACCEPT" /\ m.type # "ERROR"
  BY <1>3, <1>4 DEF OInv, InboxOrder
<1> HIDE DEF m, D, c
<1>d. D = client'
  BY DEF D
<1>11. ~HasError(client, s) /\ ~HasError(c, s) /\ peer[s] \in {"joined", "done"}
  <2>1. Ordered(s) /\ inbox[1].sess = s
    BY <1>3 DEF OInv
  <2> QED BY <1>3, <1>6, <2>1 DEF Ordered, OInv, InboxOrder
<1>12. IncomingActsAs(c, m, s, D)
  <2>1. m.type = "INITIATE" => c.state[m.sess] = "absent"
    BY <1>2, <1>3 DEF IInv, InboxOK
  <2>2. m.type = "ACCEPT" => c.state[m.sess] \notin Over
    <3>1. Ordered(s) /\ inbox[1].sess = s
      BY <1>3 DEF OInv
    <3> QED BY <1>2, <1>3, <1>5, <1>m, <3>1 DEF Ordered
  <2> QED BY <1>1, <1>2, <1>3, <2>1, <2>2, IncomingActs
<1>13. /\ Acts(c, D, s) /\ D \in Objects /\ Shows(c, D, s) /\ Grows(c.queue, D.queue, s)
       /\ \A t \in Sessions \ {s} : D.state[t] = client.state[t]
  BY <1>2, <1>12 DEF IncomingActsAs, Acts, Shows
<1> HIDE DEF s
<1>14. Kept(D, s) /\ (m.type # "ERROR" => ~HasError(D, s))
  <2>1. CASE m.type = "ERROR"
    BY <1>2, <1>3, <1>6, <1>12, <1>13, <2>1, ErrorAdded DEF IncomingActsAs
  <2>2. CASE m.type # "ERROR"
    <3>1. Does(c, D, s)
      BY <1>12, <2>2 DEF IncomingActsAs
    <3>2. ~HasError(D, s) /\ ~ErrorFirst(D, s)
      BY <1>11, <3>1, DoesActs, NoErrorKept
    <3>3. ~Lost(D, s)
      BY <1>2, <1>3, <1>6, <1>13, <3>1, DoesKeeps DEF Does, Kept
    <3> QED BY <3>2, <3>3 DEF Kept
  <2> QED BY <2>1, <2>2
<1>15. ASSUME NEW t \in Sessions \ {s} PROVE Kept(D, t) /\ (HasError(D, t) => HasError(client, t))
  BY <1>2, <1>3, <1>6, <1>13, OthersKept
<1>16. ASSUME NEW t \in Sessions PROVE Ordered(t)'
  <2>o. Ordered(t)
    BY DEF OInv
  <2>1. Kept(D, t)
    BY <1>14, <1>15
  <2>2. peer'[t] = "invited" => D.state[t] \in Unanswered
    <3>1. CASE t = s
      BY <1>1, <1>11, <3>1
    <3>2. CASE t # s
      BY <1>1, <1>13, <2>o, <3>2 DEF Ordered
    <3> QED BY <3>1, <3>2
  <2>3. ASSUME NEW i \in DOMAIN inbox', inbox'[i].sess = t
        PROVE  /\ ~HasError(D, t)
               /\ inbox'[i].type = "ACCEPT" /\ D.state[t] \in Over =>
                    D.queue[1] = Msg("STATE", t) /\ D.state[t] = "SENTTERMINATE"
    <3>1. CASE t = s
      BY <1>10, <1>14, <2>3, <3>1
    <3>2. CASE t # s
      <4>1. i + 1 \in DOMAIN inbox /\ inbox'[i] = inbox[i + 1]
        BY <1>4
      <4>2. ~HasError(client, t) /\ ~(inbox[i + 1].type = "ACCEPT" /\ client.state[t] \in Over)
        BY <1>5, <1>m, <2>o, <2>3, <4>1 DEF Ordered
      <4> QED BY <1>13, <1>15, <3>2, <4>1, <4>2
    <3> QED BY <3>1, <3>2
  <2> QED BY <1>d, <2>1, <2>2, <2>3 DEF Ordered
<1>17. inbox' # <<>> => Pumping(D.queue)
  <2>1. inbox' # <<>> => 1 \in DOMAIN c.queue /\ c.queue[1] = Pump
    BY <1>4, <1>5, IdleClean
  <2>2. inbox' # <<>> => 1 \in DOMAIN D.queue /\ D.queue[1] = Pump
    BY <1>3, <1>13, <2>1, PumpKept
  <2> QED BY <2>2 DEF Pumping
<1>18. Moved(client, D)
  <2>1. Moved(c, D)
    BY <1>3, <1>13, ShowsMoved
  <2> QED BY <1>2, <2>1 DEF Moved
<1>19. Owned(client) => Owned(D)
  BY <1>2, <1>12 DEF Owned, IncomingActsAs
<1> QED BY <1>8, <1>9, <1>16, <1>17, <1>18, <1>19, <1>d DEF OInv

LEMMA CommandOrder ==
  ASSUME IInv, OInv, NEW command, Command(command)
  PROVE  /\ OInv'
         /\ Moved(client, client')
         /\ command # "REJECT_CALL" /\ Owned(client) => Owned(client')
<1> DEFINE c == Idle
           D == client'
<1>1. /\ Clean(c) /\ Current(c) /\ c \in Objects /\ c.queue = client.queue
      /\ c.state = client.state /\ c.call = client.call
  BY IdleClean DEF Clean
<1>2. waiting /\ client.queue = <<>> /\ UNCHANGED <<inbox, waiting>> /\ DOMAIN <<>> = {}
  BY DEF Command
<1>3. inbox = <<>> /\ DOMAIN inbox = {}
  BY <1>2 DEF OInv, Pumping
<1>4. \A t \in Sessions : ~Pending(c, t) /\ ~HasError(c, t) /\ ~Lost(c, t) /\ Kept(c, t)
  <2>1. \A t \in Sessions : Kept(client, t)
    BY DEF OInv, Ordered
  <2>2. \A t \in Sessions : Kept(c, t)
    BY <1>1, <2>1 DEF Kept, Lost, ErrorFirst, Pending
  <2> QED BY <1>1, <1>2, <2>2 DEF Pending, HasError, Kept
<1>o. \A t \in Sessions : peer[t] = "invited" => client.state[t] \in Unanswered
  BY DEF OInv, Ordered
<1> HIDE DEF c, D
<1>d. c = Idle /\ D = client'
  BY DEF c, D
(* The session that the command is for, if there is one.                   *)
<1>5. ASSUME NEW s \in Sessions, Does(c, D, s),
             D.queue \in {c.queue, Append(c.queue, Msg("STATE", s))},
             peer'[s] = "invited" => D.state[s] \in Unanswered,
             \A t \in Sessions \ {s} : peer'[t] = peer[t]
      PROVE  OInv' /\ Moved(client, client')
  <2>1. /\ Acts(c, D, s) /\ D \in Objects /\ Shows(c, D, s) /\ Grows(c.queue, D.queue, s)
        /\ \A t \in Sessions \ {s} : D.state[t] = c.state[t]
    BY <1>5, DoesActs DEF Acts, Shows
  <2>2. Kept(D, s)
    <3>1. ~ErrorFirst(D, s)
      BY <1>4, <1>5, DoesActs, NoErrorKept
    <3>2. ~Lost(D, s)
      BY <1>1, <1>4, <1>5, <2>1, DoesKeeps DEF Does
    <3> QED BY <3>1, <3>2 DEF Kept
  <2>3. \A t \in Sessions \ {s} : Kept(D, t)
    BY <1>1, <1>4, <2>1, OthersKept
  <2>4. ASSUME NEW t \in Sessions PROVE Ordered(t)'
    <3>1. Kept(D, t)
      BY <2>2, <2>3
    <3>2. peer'[t] = "invited" => D.state[t] \in Unanswered
      BY <1>1, <1>5, <1>o, <2>1
    <3> QED BY <1>2, <1>3, <1>d, <3>1, <3>2 DEF Ordered
  <2>5. \A i \in DOMAIN D.queue : i = 1 /\ D.queue[i].id = "STATE"
    <3>1. CASE D.queue = c.queue
      BY <1>1, <1>2, <3>1
    <3>2. CASE D.queue = Append(c.queue, Msg("STATE", s))
      <4>1. DOMAIN D.queue = {1} /\ D.queue[1] = Msg("STATE", s)
        BY <1>1, <1>2, <3>2
      <4> QED BY <4>1 DEF Msg
    <3> QED BY <1>5, <3>1, <3>2
  <2>6. Waits'
    BY <1>d, <2>5 DEF Waits
  <2>7. InboxOrder'
    BY <1>2, <1>3 DEF InboxOrder
  <2>8. Moved(c, D)
    BY <2>1, ShowsMoved
  <2>9. Moved(client, client')
    BY <1>1, <1>d, <2>8 DEF Moved
  <2> QED BY <1>2, <1>3, <2>4, <2>6, <2>7, <2>9 DEF OInv
<1>6. CASE command = "CALL" /\ client.call = None
  <2>1. PICK s \in Fresh : D = OnCommand(c, command, s) /\ peer' = [peer EXCEPT ![s] = "invited"]
    BY <1>6, <1>d DEF Command
  <2>2. s \in Sessions /\ c.state[s] = "absent"
    BY <1>1, <2>1 DEF Fresh
  <2>3. D = Initiate(c, s)
    BY <1>1, <1>6, <2>1 DEF OnCommand
  <2>4. /\ Does(c, D, s) /\ D.state[s] = "SENTINITIATE" /\ (Owned(c) => Owned(D))
        /\ D.queue = Append(c.queue, Msg("STATE", s))
    BY <1>1, <1>6, <2>2, <2>3, InitiateDoes
  <2>5. peer \in [Sessions -> {"idle", "invited", "joined", "done"}]
    BY DEF IInv, TypeOK
  <2>6. \A t \in Sessions \ {s} : peer'[t] = peer[t]
    BY <2>1, <2>5
  <2>7. OInv' /\ Moved(client, client')
    BY <1>5, <2>2, <2>4, <2>6 DEF Unanswered
  <2> QED BY <1>1, <1>d, <2>4, <2>7 DEF Owned
<1>7. CASE ~(command = "CALL" /\ client.call = None)
  <2>1. D = OnCommand(c, command, None) /\ peer' = peer
    BY <1>7, <1>d DEF Command
  <2> DEFINE s == c.call
  <2>2. /\ s = None => D = c
        /\ s # None =>
             /\ s \in Sessions
             /\ Does(c, D, s)
             /\ command # "REJECT_CALL" /\ Owned(c) => Owned(D)
             /\ D.queue \in {c.queue, Append(c.queue, Msg("STATE", s))}
             /\ c.state[s] \in Unanswered => D.state[s] \in Unanswered
    BY <1>1, <1>7, <2>1, CommandActs
  <2> HIDE DEF s
  <2>3. CASE s # None
    <3>1. peer'[s] = "invited" => D.state[s] \in Unanswered
      BY <1>1, <1>o, <2>1, <2>2, <2>3
    <3>2. OInv' /\ Moved(client, client')
      BY <1>5, <2>1, <2>2, <2>3, <3>1
    <3> QED BY <1>1, <1>d, <2>2, <2>3, <3>2 DEF Owned
  <2>4. CASE s = None
    <3>1. D = c
      BY <2>2, <2>4
    <3>2. Moved(client, client')
      BY <1>1, <1>d, <3>1, SameMoved DEF Clean
    <3>3. OInv'
      <4>1. Waits'
        BY <1>1, <1>2, <1>d, <3>1 DEF Waits
      <4>2. ASSUME NEW t \in Sessions
            PROVE  /\ Kept(D, t)
                   /\ client.state[t] \in Unanswered => D.state[t] \in Unanswered
        BY <1>1, <1>4, <3>1
      <4> QED BY <1>2, <1>3, <1>d, <2>1, <4>1, <4>2, SameInbox
    <3>4. Owned(client) => Owned(D)
      BY <1>1, <3>1 DEF Owned
    <3> QED BY <1>d, <3>2, <3>3, <3>4
  <2> QED BY <2>3, <2>4
<1> QED BY <1>6, <1>7

LEMMA SocketOrder ==
  ASSUME IInv, OInv, NEW s \in Sessions, NEW writable \in BOOLEAN, OnSocketState(s, writable)
  PROVE  OInv' /\ client'.state = client.state /\ client'.call = client.call /\ client'.sent = <<>>
<1> DEFINE D == client'
           e == [Idle EXCEPT !.timer[s] = TRUE]
           k == Clear(Idle, s, {"TIMEOUT"})
<1>1. waiting /\ client.queue = <<>> /\ UNCHANGED <<inbox, peer, waiting>> /\ D \in {e, k}
      /\ DOMAIN <<>> = {}
  BY DEF OnSocketState
<1>2. Idle \in Objects /\ Idle.state = client.state /\ Idle.call = client.call
      /\ Idle.queue = <<>> /\ Idle.sent = <<>>
  BY <1>1, IdleClean DEF Clean
<1>3. e.state = Idle.state /\ e.call = Idle.call /\ e.queue = Idle.queue /\ e.sent = Idle.sent
  BY <1>2, TimerIs
<1>4. /\ k.state = Idle.state /\ k.call = Idle.call /\ k.sent = Idle.sent
      /\ DOMAIN k.queue = {}
  <2>1. k.queue = Erased(Idle.queue, s, {"TIMEOUT"})
        /\ k.state = Idle.state /\ k.call = Idle.call /\ k.sent = Idle.sent
    BY <1>2, ClearIs
  <2> HIDE DEF k
  <2> QED BY <1>1, <1>2, <2>1 DEF Erased
<1> HIDE DEF e, k, D
<1>d. D = client'
  BY DEF D
<1>5. /\ D.state = client.state /\ D.call = client.call /\ D.sent = <<>>
      /\ DOMAIN D.queue = {}
  BY <1>1, <1>2, <1>3, <1>4
<1>6. inbox = <<>>
  BY <1>1 DEF OInv, Pumping
<1>7. \A t \in Sessions : Kept(D, t)
  <2>1. \A t \in Sessions : Kept(client, t)
    BY DEF OInv, Ordered
  <2> QED BY <1>1, <1>5, <2>1 DEF Kept, Lost, ErrorFirst, Pending
<1>8. Waits'
  BY <1>5, <1>d DEF Waits
<1>9. OInv'
  BY <1>1, <1>5, <1>6, <1>7, <1>8, <1>d, SameInbox
<1> QED BY <1>5, <1>9, <1>d

LEMMA ArriveOrder ==
  ASSUME IInv, OInv, NEW m \in Incoming, Arrive(m)
  PROVE  OInv' /\ client'.state = client.state /\ client'.call = client.call /\ client'.sent = <<>>
<1> DEFINE q == Append(Idle.queue, Pump)
           e == [Idle EXCEPT !.queue = q]
           D == client'
           s == m.sess
           n == Len(inbox)
<1>1. /\ waiting /\ waiting' = waiting /\ PeerMay(m.type, s)
      /\ inbox' = Append(inbox, m) /\ D = (IF inbox = <<>> THEN e ELSE Idle)
      /\ peer' = PeerAfter(m)
  BY DEF Arrive
<1>2. /\ Idle \in Objects /\ Idle.state = client.state /\ Idle.call = client.call
      /\ Idle.queue = client.queue /\ Idle.sent = <<>> /\ Idle.posted = <<>>
      /\ client.queue \in Seq(Messages) /\ Len(client.queue) \in Nat
      /\ DOMAIN client.queue = 1..Len(client.queue)
  BY IdleClean, QueueIs DEF Clean
<1>3. q = Append(client.queue, Pump) /\ q \in Seq(Messages)
  <2>1. Pump \in Messages
    BY DEF Pump, Messages
  <2> QED BY <1>2, <2>1
<1>4. /\ Len(q) = Len(client.queue) + 1 /\ DOMAIN q = 1..(Len(client.queue) + 1)
      /\ \A i \in 1..Len(client.queue) : q[i] = client.queue[i]
      /\ q[Len(client.queue) + 1] = Pump
  BY <1>2, <1>3
<1> HIDE DEF q
<1>5. /\ e.state = client.state /\ e.call = client.call
      /\ e.queue = q /\ e.sent = <<>>
  BY <1>2, <1>3 DEF Objects
<1> HIDE DEF e, D
<1>d. D = client'
  BY DEF D
<1>6. D.state = client.state /\ D.call = client.call /\ D.sent = <<>>
      /\ D.queue = IF inbox = <<>> THEN q ELSE client.queue
  BY <1>1, <1>2, <1>5
<1>7. /\ inbox \in Seq(Incoming) /\ n \in Nat /\ DOMAIN inbox = 1..n
      /\ s \in Sessions /\ peer \in [Sessions -> {"idle", "invited", "joined", "done"}]
      /\ inbox = <<>> => n = 0
      /\ DOMAIN inbox' = 1..(n + 1) /\ inbox'[n + 1] = m /\ inbox' # <<>>
      /\ \A i \in 1..n : inbox'[i] = inbox[i]
  <2>1. inbox \in Seq(Incoming) /\ peer \in [Sessions -> {"idle", "invited", "joined", "done"}]
    BY DEF IInv, TypeOK
  <2>2. s \in Sessions
    BY DEF Incoming
  <2>3. n \in Nat /\ DOMAIN inbox = 1..n /\ (inbox = <<>> => n = 0)
    BY <2>1
  <2>4. /\ DOMAIN inbox' = 1..(n + 1) /\ inbox'[n + 1] = m
        /\ \A i \in 1..n : inbox'[i] = inbox[i]
    BY <1>1, <2>1
  <2>5. inbox' # <<>>
    BY <1>1, <2>1
  <2> QED BY <2>1, <2>2, <2>3, <2>4, <2>5
<1>8. /\ peer'[s] \in {"joined", "done"}
      /\ m.type = "ERROR" => peer'[s] = "done"
      /\ \A t \in Sessions \ {s} : peer'[t] = peer[t]
  BY <1>1, <1>7 DEF PeerAfter
<1>9. \A i \in 1..n : inbox[i].sess \in Sessions
  BY <1>7, InboxSessions
<1>10. /\ peer[s] # "done"
       /\ m.type = "ACCEPT" => peer[s] = "invited"
  BY <1>1 DEF PeerMay, Fresh
<1> HIDE DEF n, s
<1>s. m.sess = s
  BY DEF s
<1>11. \A i \in DOMAIN client.queue :
         \/ i = 1 /\ client.queue[i].id = "STATE"
         \/ inbox # <<>> /\ client.queue[i] = Pump
  BY <1>1 DEF OInv, Waits
<1>12. Waits'
  <2>1. \A i \in DOMAIN D.queue : (i = 1 /\ D.queue[i].id = "STATE") \/ D.queue[i] = Pump
    BY <1>2, <1>4, <1>6, <1>11
  <2> QED BY <1>7, <1>d, <2>1 DEF Waits
<1>13. Pumping(D.queue)
  <2>1. CASE inbox # <<>>
    BY <1>6, <2>1 DEF OInv
  <2>2. CASE inbox = <<>>
    <3>1. \A i \in 1..Len(client.queue) : i = 1 /\ client.queue[i].id = "STATE"
      BY <1>2, <1>11, <2>2
    <3>2. Len(client.queue) \in {0, 1}
      <4> DEFINE l == Len(client.queue)
      <4>1. l \in Nat
        BY <1>2
      <4>2. 2 \notin 1..l
        BY <3>1
      <4> HIDE DEF l
      <4>3. l \in {0, 1}
        BY <4>1, <4>2
      <4> QED BY <4>3 DEF l
    <3>3. CASE Len(client.queue) = 0
      <4>1. q[1] = Pump /\ 1 \in DOMAIN q
        BY <1>4, <3>3
      <4> QED BY <1>6, <2>2, <4>1 DEF Pumping
    <3>4. CASE Len(client.queue) = 1
      <4>1. q[1].id = "STATE" /\ q[2] = Pump /\ Len(q) > 1 /\ 1 \in DOMAIN q
        BY <1>4, <3>1, <3>4
      <4> QED BY <1>6, <2>2, <4>1 DEF Pumping
    <3> QED BY <3>2, <3>3, <3>4
  <2> QED BY <2>1, <2>2
<1>14. InboxOrder'
  <2>1. ASSUME NEW i \in DOMAIN inbox'
        PROVE  /\ peer'[inbox'[i].sess] \in {"joined", "done"}
               /\ inbox'[i].type = "ERROR" => peer'[inbox'[i].sess] = "done"
    <3>1. CASE i = n + 1
      BY <1>7, <1>8, <1>s, <3>1
    <3>2. CASE i # n + 1
      <4>1. i \in 1..n /\ i \in DOMAIN inbox
        BY <1>7, <3>2
      <4>2. /\ inbox'[i] = inbox[i] /\ inbox[i].sess \in Sessions
            /\ peer[inbox[i].sess] \in {"joined", "done"}
            /\ inbox[i].type = "ERROR" => peer[inbox[i].sess] = "done"
        BY <1>7, <1>9, <4>1 DEF OInv, InboxOrder
      <4> QED BY <1>8, <1>10, <4>2
    <3> QED BY <3>1, <3>2
  <2>2. ASSUME NEW i \in DOMAIN inbox', NEW j \in DOMAIN inbox', i < j,
               inbox'[i].sess = inbox'[j].sess
        PROVE  inbox'[j].type # "ACCEPT" /\ inbox'[i].type # "ERROR"
    <3>1. i \in 1..n /\ i \in DOMAIN inbox /\ inbox'[i] = inbox[i]
      BY <1>7, <2>2
    <3>2. CASE j = n + 1
      <4>1. /\ inbox[i].sess = s
            /\ peer[inbox[i].sess] \in {"joined", "done"}
            /\ inbox[i].type = "ERROR" => peer[inbox[i].sess] = "done"
        BY <1>7, <1>s, <2>2, <3>1, <3>2 DEF OInv, InboxOrder
      <4> QED BY <1>7, <1>10, <3>1, <3>2, <4>1
    <3>3. CASE j # n + 1
      <4>1. j \in 1..n /\ j \in DOMAIN inbox /\ inbox'[j] = inbox[j]
        BY <1>7, <3>3
      <4> QED BY <2>2, <3>1, <4>1 DEF OInv, InboxOrder
    <3> QED BY <3>2, <3>3
  <2> QED BY <2>1, <2>2 DEF InboxOrder
<1>p. /\ \A t : Msg("STATE", t) # Pump /\ Msg("ERROR", t) # Pump
      /\ \A t : Msg("STATE", t).id = "STATE" /\ Msg("ERROR", t).id = "ERROR"
  BY DEF Msg, Pump
<1>15. ASSUME NEW t \in Sessions PROVE Ordered(t)'
  <2>o. Ordered(t)
    BY DEF OInv
  <2>1. ~HasError(D, t) /\ ~HasError(client, t)
    BY <1>4, <1>6, <1>11, <1>2, <1>p DEF HasError
  <2>2. Pending(client, t) => Pending(D, t)
    BY <1>2, <1>4, <1>6 DEF Pending
  <2>3. Kept(D, t)
    BY <1>6, <2>o, <2>1, <2>2 DEF Ordered, Kept, Lost, ErrorFirst, HasError
  <2>4. peer'[t] = "invited" => D.state[t] \in Unanswered
    BY <1>6, <1>8, <2>o DEF Ordered
  <2>5. client.queue # <<>> => D.queue[1] = client.queue[1]
    <3>1. client.queue # <<>> => 1 \in 1..Len(client.queue)
      BY <1>2
    <3> QED BY <1>4, <1>6, <3>1
  <2>6. ASSUME NEW i \in DOMAIN inbox', inbox'[i].sess = t, inbox'[i].type = "ACCEPT",
               D.state[t] \in Over
        PROVE  D.queue[1] = Msg("STATE", t) /\ D.state[t] = "SENTTERMINATE"
    <3>1. CASE i = n + 1
      <4>1. t = s /\ peer[t] = "invited" /\ client.state[t] \in Unanswered
        BY <1>7, <1>10, <1>s, <2>6, <2>o, <3>1 DEF Ordered
      <4>2. client.state[t] = "SENTTERMINATE" /\ Pending(client, t)
        BY <1>6, <2>6, <2>o, <4>1 DEF Unanswered, Over, Ordered, Kept, Lost
      <4>3. PICK k \in DOMAIN client.queue : client.queue[k] = Msg("STATE", t)
        BY <4>2 DEF Pending
      <4>4. k = 1 /\ client.queue # <<>>
        BY <1>2, <1>11, <1>p, <4>3
      <4> QED BY <1>6, <2>5, <4>2, <4>3, <4>4
    <3>2. CASE i # n + 1
      <4>1. i \in DOMAIN inbox /\ inbox'[i] = inbox[i] /\ inbox # <<>>
        BY <1>7, <3>2
      <4>2. client.queue[1] = Msg("STATE", t) /\ client.state[t] = "SENTTERMINATE"
        BY <1>6, <2>6, <2>o, <4>1 DEF Ordered
      <4>3. client.queue # <<>>
        BY <4>1 DEF OInv, Pumping
      <4> QED BY <1>6, <2>5, <4>2, <4>3
    <3> QED BY <3>1, <3>2
  <2> QED BY <1>d, <2>1, <2>3, <2>4, <2>6 DEF Ordered
<1>16. OInv'
  BY <1>7, <1>12, <1>13, <1>14, <1>15, <1>d DEF OInv
<1> QED BY <1>6, <1>16, <1>d

-----------------------------------------------------------------------------
(* Every step keeps the order, and shows what it does.                     *)
LEMMA StepOrder ==
  ASSUME IInv, OInv, NEW commands, 
         \/ SignallingThread
         \/ \E m \in Incoming : Arrive(m)
         \/ \E command \in commands : Command(command)
  PROVE  /\ OInv'
         /\ Moved(client, client')
         /\ "REJECT_CALL" \notin commands /\ Owned(client) => Owned(client')
<1>1. ASSUME NEW D, D = client', OInv', D.state = client.state, D.call = client.call,
             D.sent = <<>>
      PROVE  OInv' /\ Moved(client, client') /\ (Owned(client) => Owned(client'))
  <2>1. Moved(client, D)
    BY <1>1, SameMoved
  <2>2. Owned(client) => Owned(D)
    BY <1>1 DEF Owned
  <2> QED BY <1>1, <2>1, <2>2
<1>2. CASE Dispatch
  BY <1>2, DispatchOrder
<1>3. CASE HandleStanza
  BY <1>3, StanzaOrder
<1>4. ASSUME NEW s \in Sessions, TimerFires(s)
      PROVE  OInv' /\ Moved(client, client') /\ (Owned(client) => Owned(client'))
  BY <1>1, <1>4, TimerOrder
<1>5. ASSUME NEW s \in Sessions, NEW writable \in BOOLEAN, OnSocketState(s, writable)
      PROVE  OInv' /\ Moved(client, client') /\ (Owned(client) => Owned(client'))
  BY <1>1, <1>5, SocketOrder
<1>6. ASSUME NEW m \in Incoming, Arrive(m)
      PROVE  OInv' /\ Moved(client, client') /\ (Owned(client) => Owned(client'))
  BY <1>1, <1>6, ArriveOrder
<1>7. ASSUME NEW command \in commands, Command(command)
      PROVE  /\ OInv' /\ Moved(client, client')
             /\ "REJECT_CALL" \notin commands /\ Owned(client) => Owned(client')
  BY <1>7, CommandOrder
<1> QED BY <1>2, <1>3, <1>4, <1>5, <1>6, <1>7 DEF SignallingThread

LEMMA OrderHolds == Spec => [](IInv /\ OInv)
<1>1. IInv /\ OInv /\ [Next]_vars => OInv'
  <2> SUFFICES ASSUME IInv, OInv, [Next]_vars PROVE OInv'
    OBVIOUS
  <2>1. CASE Next
    BY <2>1, StepOrder DEF Next
  <2>2. CASE UNCHANGED vars
    BY <2>2 DEF vars, OInv, Waits, InboxOrder, Ordered
  <2> QED BY <2>1, <2>2
<1> QED BY <1>1, InitOrder, InvariantHolds, PTL DEF Spec

LEMMA NextMoves ==
  ASSUME IInv, OInv, Next
  PROVE  Moved(client, client')
BY StepOrder DEF Next

(* The step that ends a call, whoever ends it, posts a closing message to  *)
(* the dialog: by a hangup, a timeout, an error, a reject or a terminate   *)
(* of the peer.  An error that comes before a terminate is handled before  *)
(* it was received, so no session that received a terminate is terminated  *)
(* once more.                                                              *)
THEOREM EndsAreTold == Spec => EndIsAnnounced
<1>1. ASSUME IInv, OInv, [Next]_vars
      PROVE  [\A s \in Sessions :
                client.state[s] \in Live /\ client'.state[s] \in Over \ {"SENTREJECT"}
                  => \E i \in DOMAIN client'.posted : client'.posted[i] \in Closing]_vars
  <2>1. CASE Next
    <3>1. Moved(client, client')
      BY <1>1, <2>1, NextMoves
    <3> QED BY <3>1 DEF Moved, Tells
  <2>2. CASE UNCHANGED vars
    BY <2>2
  <2> QED BY <1>1, <2>1, <2>2
<1> QED BY <1>1, OrderHolds, PTL DEF Spec, EndIsAnnounced

(* A session that has sent or received a terminate sends none: the error   *)
(* that Session::Terminate's guard would let through never comes.          *)
THEOREM OneTerminate == Spec => TerminateSentOnce
<1>1. ASSUME IInv, OInv, [Next]_vars
      PROVE  [\A s \in Sessions :
                client.state[s] \in {"SENTTERMINATE", "RECEIVEDTERMINATE"}
                  => \A i \in DOMAIN client'.sent : client'.sent[i] # <<"TERMINATE", s>>]_vars
  <2>1. CASE Next
    <3>1. Moved(client, client')
      BY <1>1, <2>1, NextMoves
    <3> QED BY <3>1 DEF Moved, Sends
  <2>2. CASE UNCHANGED vars
    BY <2>2
  <2> QED BY <1>1, <2>1, <2>2
<1> QED BY <1>1, OrderHolds, PTL DEF Spec, TerminateSentOnce

(* Every step of the client is a step of the abstract lifecycle or leaves  *)
(* it alone: one session at a time moves, and only forward.                *)
THEOREM FollowsLifecycle ==
  Spec => /\ Lifecycle!Init
          /\ [][Lifecycle!Next]_[s \in Sessions |-> PhaseOf(client.state[s])]
<1> DEFINE Phase == [s \in Sessions |-> PhaseOf(client.state[s])]
<1>1. Init => Lifecycle!Init
  <2> SUFFICES ASSUME Init PROVE Phase = [s \in Sessions |-> "none"]
    BY DEF Lifecycle!Init
  <2>1. \A s \in Sessions : client.state[s] = "absent"
    BY DEF Init
  <2> QED BY <2>1 DEF PhaseOf
<1>2. ASSUME IInv, OInv, [Next]_vars PROVE [Lifecycle!Next]_Phase
  <2>1. CASE UNCHANGED vars
    BY <2>1 DEF vars
  <2>2. CASE Next
    <3>1. Moved(client, client')
      BY <1>2, <2>2, NextMoves
    <3> DEFINE D == client'
               P == [s \in Sessions |-> PhaseOf(D.state[s])]
    <3>2. CASE \E s \in Sessions : D.state[s] # client.state[s]
      <4>1. PICK s \in Sessions : D.state[s] # client.state[s]
        BY <3>2
      <4>2. \A t \in Sessions \ {s} : D.state[t] = client.state[t]
        BY <3>1, <4>1 DEF Moved
      <4>3. P = [Phase EXCEPT ![s] = PhaseOf(D.state[s])]
        BY <4>2
      <4>4. Phase[s] = PhaseOf(client.state[s])
        OBVIOUS
      <4>5. Forward(client.state[s], D.state[s])
        BY <3>1 DEF Moved
      <4>6. \/ PhaseOf(D.state[s]) = Phase[s]
            \/ Phase[s] = "none" /\ PhaseOf(D.state[s]) \in {"ringing", "over"}
            \/ Phase[s] = "ringing" /\ PhaseOf(D.state[s]) \in {"talking", "over"}
            \/ Phase[s] = "talking" /\ PhaseOf(D.state[s]) = "over"
            \/ Phase[s] = "over" /\ PhaseOf(D.state[s]) = "gone"
        BY <4>5 DEF Forward, PhaseOf, Live, Ringing, Talking, Over
      <4>7. CASE PhaseOf(D.state[s]) = Phase[s]
        BY <4>3, <4>7
      <4>8. CASE PhaseOf(D.state[s]) # Phase[s]
        <5> DEFINE p == PhaseOf(D.state[s])
        <5>1. P = [Phase EXCEPT ![s] = p] /\ Phase' = P
          BY <4>3
        <5> HIDE DEF P, p, D
        <5>2. CASE Phase[s] = "none" /\ p = "ringing"
          BY <5>1, <5>2 DEF Lifecycle!Next, Lifecycle!Ring, Lifecycle!Move
        <5>3. CASE Phase[s] \in {"none", "ringing", "talking"} /\ p = "over"
          BY <5>1, <5>3 DEF Lifecycle!Next, Lifecycle!End, Lifecycle!Move
        <5>4. CASE Phase[s] = "ringing" /\ p = "talking"
          BY <5>1, <5>4 DEF Lifecycle!Next, Lifecycle!Answer, Lifecycle!Move
        <5>5. CASE Phase[s] = "over" /\ p = "gone"
          BY <5>1, <5>5 DEF Lifecycle!Next, Lifecycle!Dispose, Lifecycle!Move
        <5> QED BY <4>6, <4>8, <5>2, <5>3, <5>4, <5>5 DEF p
      <4> QED BY <4>7, <4>8
    <3>3. CASE \A s \in Sessions : D.state[s] = client.state[s]
      BY <3>3
    <3> QED BY <3>2, <3>3
  <2> QED BY <1>2, <2>1, <2>2
<1> QED BY <1>1, <1>2, OrderHolds, PTL DEF Spec

(* In a behaviour whose commands, chosen at its start, leave REJECT_CALL    *)
(* out the call client knows of every session that is alive, so that there *)
(* is only one: it makes or announces no second call while it has one, and *)
(* forgets none that has not ended.                                        *)
THEOREM OneCallHolds == MCSpec => []OneCall
<1> DEFINE One == "REJECT_CALL" \notin given => Owned(client)
           MCInv == IInv /\ OInv /\ One
<1>1. MCInit => MCInv
  <2>1. Init => Owned(client)
    BY DEF Init, Owned, Live, Ringing, Talking
  <2> QED BY <2>1, InitInvariant, InitOrder DEF MCInit
<1>2. MCInv /\ [MCNext]_<<vars, given>> => MCInv'
  <2> SUFFICES ASSUME MCInv, [MCNext]_<<vars, given>> PROVE MCInv'
    OBVIOUS
  <2>1. CASE MCNext
    <3>1. /\ \/ SignallingThread
             \/ \E m \in Incoming : Arrive(m)
             \/ \E command \in given : Command(command)
          /\ given' = given
      BY <2>1 DEF MCNext
    <3>2. IInv'
      BY <3>1, StepInvariant
    <3>3. OInv' /\ ("REJECT_CALL" \notin given /\ Owned(client) => Owned(client'))
      BY <3>1, StepOrder
    <3> QED BY <3>1, <3>2, <3>3
  <2>2. CASE UNCHANGED <<vars, given>>
    <3>1. IInv' /\ OInv'
      <4>1. UNCHANGED vars
        BY <2>2
      <4> QED BY <4>1, NextInvariant DEF vars, OInv, Waits, InboxOrder, Ordered
    <3> QED BY <2>2, <3>1 DEF vars
  <2> QED BY <2>1, <2>2
<1>3. MCInv => OneCall
  BY DEF OneCall, Owned, OneCallAtATime
<1> QED BY <1>1, <1>2, <1>3, PTL DEF MCSpec
-----------------------------------------------------------------------------
(* What the dialog is told of.  A step that ends the last call says so     *)
(* last; a call that rings is the call client's own and was announced.     *)

Ended == {"absent", "destroyed", "SENTTERMINATE", "RECEIVEDTERMINATE"}

Announces(d) == d.posted # <<>> /\ d.posted[Len(d.posted)] \in Closing

LastWord(c, d) ==
  \/ \E t \in Sessions : d.state[t] \notin Ended
  \/ Announces(d)
  \/ d.posted = <<>> /\ \A t \in Sessions : c.state[t] \in Ended

Rung(c) == \A t \in Sessions : c.state[t] = "RECEIVEDINITIATE" => c.call = t

NewlyRings(c, d, t) == d.state[t] = "RECEIVEDINITIATE" /\ c.state[t] # "RECEIVEDINITIATE"

Informs(c, d) ==
  /\ LastWord(c, d)
  /\ Rung(c) => Rung(d)
  /\ \A t \in Sessions :
       NewlyRings(c, d, t) => \E i \in DOMAIN d.posted : d.posted[i] = "INCOMING"

LEMMA LastIs ==
  ASSUME NEW q \in Seq(Notices), NEW n \in Notices
  PROVE  Append(q, n) # <<>> /\ Append(q, n)[Len(Append(q, n))] = n
<1> DEFINE S == Notices
<1> HIDE DEF S
<1>1. q \in Seq(S) /\ n \in S => Append(q, n) # <<>> /\ Append(q, n)[Len(Append(q, n))] = n
  OBVIOUS
<1> QED BY <1>1 DEF S

(* Nothing is told and nothing is changed that matters here.               *)
LEMMA SilentInforms ==
  ASSUME NEW c, NEW d, d.posted = <<>>, d.call = c.call, d.state = c.state
  PROVE  Informs(c, d)
BY DEF Informs, LastWord, Rung, NewlyRings

(* A session comes to a state in which it neither rings nor is over.       *)
LEMMA LiveInforms ==
  ASSUME NEW c, NEW d, NEW s \in Sessions,
         d.call = c.call, d.state[s] \notin Ended \cup {"RECEIVEDINITIATE"},
         \A t \in Sessions \ {s} : d.state[t] = c.state[t]
  PROVE  Informs(c, d)
BY DEF Informs, LastWord, Rung, NewlyRings

(* A session is over, and the last that is told says so.                   *)
LEMMA OverInforms ==
  ASSUME NEW c, NEW d, NEW s \in Sessions, Announces(d),
         d.call = c.call \/ c.call = s,
         d.state[s] # "RECEIVEDINITIATE",
         \A t \in Sessions \ {s} : d.state[t] = c.state[t]
  PROVE  Informs(c, d)
BY DEF Informs, LastWord, Rung, NewlyRings

LEMMA TerminateInforms ==
  ASSUME NEW c, Clean(c), NEW s \in Sessions
  PROVE  /\ Informs(c, Terminate(c, s))
         /\ Terminate(c, s).state[s] = "SENTTERMINATE"
         /\ \A t \in Sessions \ {s} : Terminate(c, s).state[t] = c.state[t]
         /\ Terminate(c, s) \in Objects
         /\ c.state[s] # "SENTTERMINATE" => Announces(Terminate(c, s))
<1> DEFINE d == Terminate(c, s)
<1>0. c \in Objects /\ c.posted = <<>> /\ c.state \in [Sessions -> States]
      /\ c.posted \in Seq(Notices) /\ "SENTTERMINATE" \in Notices
  BY DEF Clean, Objects, Notices
<1>1. CASE c.state[s] = "SENTTERMINATE"
  <2>1. d = c
    BY <1>1 DEF Terminate
  <2> HIDE DEF d
  <2> QED BY <1>0, <1>1, <2>1, SilentInforms DEF d
<1>2. CASE c.state[s] # "SENTTERMINATE"
  <2>1. /\ d.state = [c.state EXCEPT ![s] = "SENTTERMINATE"]
        /\ d.call = (IF c.call = s THEN None ELSE c.call)
        /\ d.posted = Append(c.posted, "SENTTERMINATE") /\ d \in Objects
    BY <1>0, <1>2, TerminateIs
  <2> HIDE DEF d
  <2>2. Announces(d)
    BY <1>0, <2>1, LastIs DEF Announces, Closing
  <2>3. d.state[s] = "SENTTERMINATE" /\ \A t \in Sessions \ {s} : d.state[t] = c.state[t]
    BY <1>0, <2>1
  <2>4. Informs(c, d)
    BY <2>1, <2>2, <2>3, OverInforms
  <2> QED BY <2>1, <2>2, <2>3, <2>4 DEF d
<1> QED BY <1>1, <1>2

LEMMA EndMineInforms ==
  ASSUME NEW c, Clean(c), NEW s \in Sessions, c.call = s, c.state[s] # "SENTTERMINATE"
  PROVE  /\ Informs(c, EndMine(c, s))
         /\ Rung(c) => \A t \in Sessions : EndMine(c, s).state[t] # "RECEIVEDINITIATE"
<1> DEFINE k == Terminate(c, s)
           d == [k EXCEPT !.call = None]
<1>1. /\ k.state[s] = "SENTTERMINATE" /\ Announces(k) /\ k \in Objects
      /\ \A t \in Sessions \ {s} : k.state[t] = c.state[t]
  BY TerminateInforms
<1>2. EndMine(c, s) = d
  BY DEF EndMine
<1> HIDE DEF k
<1>3. d.state = k.state /\ d.posted = k.posted
  BY <1>1, CallIs
<1> HIDE DEF d
<1>4. Announces(d) /\ d.state[s] = "SENTTERMINATE"
      /\ \A t \in Sessions \ {s} : d.state[t] = c.state[t]
  BY <1>1, <1>3 DEF Announces
<1>5. Informs(c, d)
  BY <1>4, OverInforms
<1> QED BY <1>2, <1>4, <1>5 DEF Rung

LEMMA OnAcceptInforms ==
  ASSUME NEW c, Clean(c), NEW s \in Sessions
  PROVE  Informs(c, OnAccept(c, s))
<1> DEFINE d == OnAccept(c, s)
<1>0. c \in Objects /\ c.state \in [Sessions -> States] /\ c.posted = <<>>
  BY DEF Clean, Objects
<1>1. CASE c.state[s] = "RECEIVEDACCEPT"
  BY <1>0, <1>1, SilentInforms DEF OnAccept
<1>2. CASE c.state[s] # "RECEIVEDACCEPT"
  <2>1. d.state = [c.state EXCEPT ![s] = "RECEIVEDACCEPT"] /\ d.call = c.call
    BY <1>0, <1>2, OnAcceptIs
  <2> HIDE DEF d
  <2>2. /\ d.state[s] = "RECEIVEDACCEPT" /\ d.call = c.call
        /\ \A t \in Sessions \ {s} : d.state[t] = c.state[t]
    BY <1>0, <2>1
  <2>3. d.state[s] \notin Ended \cup {"RECEIVEDINITIATE"}
    BY <2>2 DEF Ended
  <2>4. Informs(c, d)
    BY <2>2, <2>3, LiveInforms
  <2> QED BY <2>4 DEF d
<1> QED BY <1>1, <1>2

LEMMA ReceivedInforms ==
  ASSUME NEW c, Clean(c), NEW s \in Sessions,
         NEW n \in Closing, NEW st \in {"RECEIVEDREJECT", "RECEIVEDTERMINATE"}
  PROVE  Informs(c, Received(c, s, st, n))
<1> DEFINE d == Received(c, s, st, n)
<1>0. /\ c \in Objects /\ c.state \in [Sessions -> States] /\ n \in Notices
      /\ st \in States /\ st # "SENTTERMINATE" /\ "SENTTERMINATE" \in Notices
      /\ c.posted \in Seq(Notices)
  BY DEF Clean, Objects, Closing, Notices, Over, States
<1>1. BecomesReceived(c, s, st, n, d)
  BY <1>0, ReceivedIs
<1> HIDE DEF d
<1>2. CASE c.call # s
  <2>1. d.state = [c.state EXCEPT ![s] = st] /\ d.call = c.call /\ d.posted = Append(c.posted, n)
    BY <1>1, <1>2 DEF BecomesReceived
  <2>2. d.state[s] # "RECEIVEDINITIATE" /\ \A t \in Sessions \ {s} : d.state[t] = c.state[t]
    BY <1>0, <2>1
  <2>3. Announces(d)
    BY <1>0, <2>1, LastIs DEF Announces
  <2> QED BY <2>1, <2>2, <2>3, OverInforms DEF d
<1>3. CASE c.call = s
  <2> DEFINE q == Append(c.posted, "SENTTERMINATE")
  <2>0. q \in Seq(Notices)
    BY <1>0
  <2> HIDE DEF q
  <2>1. d.state = [c.state EXCEPT ![s] = "SENTTERMINATE"] /\ d.posted = Append(q, n)
    BY <1>1, <1>3 DEF BecomesReceived, Both, q
  <2>2. d.state[s] # "RECEIVEDINITIATE" /\ \A t \in Sessions \ {s} : d.state[t] = c.state[t]
    BY <1>0, <2>1
  <2>3. Announces(d)
    BY <1>0, <2>0, <2>1, LastIs DEF Announces
  <2> QED BY <1>3, <2>2, <2>3, OverInforms DEF d
<1> QED BY <1>2, <1>3

(* Reject and Accept end the ringing of the call client's own call.        *)
LEMMA AnswerInforms ==
  ASSUME NEW c, Clean(c), NEW s \in Sessions, NEW d,
         d \in {Accept(c, s), Reject(c, s)}
  PROVE  /\ Informs(c, d)
         /\ c.call = s /\ Rung(c) => \A t \in Sessions : d.state[t] # "RECEIVEDINITIATE"
         /\ d \in Objects /\ d.call = c.call
<1>0. c \in Objects /\ c.posted = <<>>
  BY DEF Clean
<1>1. CASE c.state[s] = "RECEIVEDINITIATE"
  <2>1. /\ Does(c, d, s) /\ d.state[s] \in {"SENTACCEPT", "SENTREJECT"} /\ d.call = c.call
    BY <1>1, AcceptDoes, RejectDoes
  <2>2. d \in Objects /\ \A t \in Sessions \ {s} : d.state[t] = c.state[t]
    BY <2>1 DEF Does, Shows
  <2>3. Informs(c, d)
    BY <2>1, <2>2, LiveInforms DEF Ended
  <2> QED BY <2>1, <2>2, <2>3 DEF Rung
<1>2. CASE c.state[s] # "RECEIVEDINITIATE"
  <2>1. d = c
    BY <1>2 DEF Accept, Reject
  <2>2. Informs(c, c)
    BY <1>0, SilentInforms
  <2> QED BY <1>0, <1>2, <2>1, <2>2 DEF Rung
<1> QED BY <1>1, <1>2

LEMMA OnInitiateInforms ==
  ASSUME NEW c, Clean(c), NEW s \in Sessions, c.state[s] = "absent", NEW codecs \in BOOLEAN
  PROVE  Informs(c, OnInitiate(c, s, codecs))
<1> DEFINE d == OnInitiate(c, s, codecs)
<1>1. /\ Does(c, d, s)
      /\ d.state[s] \in {"RECEIVEDINITIATE", "SENTREJECT"}
      /\ d.state[s] = "RECEIVEDINITIATE" =>
           c.call = None /\ d.call = s /\ d.posted = Append(<<>>, "INCOMING")
      /\ d.call = c.call \/ c.call = None
  BY OnInitiateDoes
<1> HIDE DEF d
<1>2. \A t \in Sessions \ {s} : d.state[t] = c.state[t]
  BY <1>1 DEF Does, Shows
<1>3. LastWord(c, d)
  BY <1>1 DEF LastWord, Ended
<1>4. Rung(c) => Rung(d)
  BY <1>1, <1>2, CallClientConstants DEF Rung
<1>5. ASSUME NEW t \in Sessions, NewlyRings(c, d, t)
      PROVE  \E i \in DOMAIN d.posted : d.posted[i] = "INCOMING"
  <2>1. t = s
    BY <1>2, <1>5 DEF NewlyRings
  <2>2. d.posted = Append(<<>>, "INCOMING")
    BY <1>1, <1>5, <2>1 DEF NewlyRings
  <2> QED BY <2>2, First
<1> QED BY <1>3, <1>4, <1>5 DEF Informs, d

LEMMA StateInforms ==
  ASSUME NEW c, Clean(c), NEW s \in Sessions, NEW writable \in BOOLEAN
  PROVE  /\ Informs(c, OnState(c, s, writable))
         /\ \A t \in Sessions : ~NewlyRings(c, OnState(c, s, writable), t)
<1> DEFINE d == OnState(c, s, writable)
<1>0. c \in Objects /\ c.state \in [Sessions -> States] /\ c.posted = <<>>
  BY DEF Clean, Objects
<1>1. CASE c.state[s] \in {"SENTACCEPT", "RECEIVEDACCEPT"}
  <2>1. d = Progress(c, s, writable)
    BY <1>1 DEF OnState
  <2> HIDE DEF d
  <2>2. Does(c, d, s) /\ d.state[s] = "INPROGRESS" /\ d.call = c.call
    BY <1>1, <2>1, ProgressDoes
  <2>3. \A t \in Sessions \ {s} : d.state[t] = c.state[t]
    BY <2>2 DEF Does, Shows
  <2>4. d.state[s] \notin Ended \cup {"RECEIVEDINITIATE"}
    BY <2>2 DEF Ended
  <2>5. Informs(c, d)
    BY <2>2, <2>3, <2>4, LiveInforms
  <2> QED BY <2>2, <2>3, <2>5 DEF d, NewlyRings
<1>2. CASE c.state[s] \in {"SENTREJECT", "RECEIVEDREJECT"}
  <2>1. d = Terminate(c, s)
    BY <1>2 DEF OnState
  <2> QED BY <2>1, TerminateInforms DEF NewlyRings
<1>3. CASE c.state[s] \in {"SENTTERMINATE", "RECEIVEDTERMINATE"}
  <2>0. c.state[s] \in Over
    BY <1>3 DEF Over
  <2>1. d = DestroySession(c, s)
    BY <1>3 DEF OnState
  <2> HIDE DEF d
  <2>2. Acts(c, d, s) /\ d.state[s] = "destroyed" /\ d.call = c.call /\ d.posted = <<>>
    BY <2>0, <2>1, DestroySessionActs
  <2>3. \A t \in Sessions \ {s} : d.state[t] = c.state[t]
    BY <2>2 DEF Acts, Shows
  <2>4. LastWord(c, d)
    BY <1>3, <2>2, <2>3 DEF LastWord, Ended
  <2>5. Informs(c, d)
    BY <2>2, <2>3, <2>4 DEF Informs, Rung, NewlyRings
  <2> QED BY <2>2, <2>3, <2>5 DEF d, NewlyRings
<1>4. CASE c.state[s] \notin {"SENTACCEPT", "RECEIVEDACCEPT", "SENTREJECT",
                              "RECEIVEDREJECT", "SENTTERMINATE", "RECEIVEDTERMINATE"}
  <2>1. d = c
    BY <1>4 DEF OnState
  <2> HIDE DEF d
  <2> QED BY <1>0, <2>1, SilentInforms DEF d, NewlyRings
<1> QED BY <1>1, <1>2, <1>3, <1>4

LEMMA PostedInforms ==
  ASSUME NEW c, Clean(c), NEW m \in Messages, NEW writable \in BOOLEAN
  PROVE  /\ Informs(c, OnPosted(c, m, writable))
         /\ \A t \in Sessions : ~NewlyRings(c, OnPosted(c, m, writable), t)
<1> DEFINE d == OnPosted(c, m, writable)
<1>0. /\ c \in Objects /\ c.posted = <<>>
      /\ m.id \in {"STATE", "ERROR", "TIMEOUT", "AUTODESTROY"} => m.sess \in Sessions
      /\ m.id \in {"STATE", "ERROR", "TIMEOUT", "AUTODESTROY", "PUMP", "CLEARED"}
  BY DEF Clean, Messages
<1>1. CASE m.id = "STATE"
  <2>1. d = OnState(c, m.sess, writable)
    BY <1>1 DEF OnPosted
  <2> QED BY <1>0, <1>1, <2>1, StateInforms
<1>2. CASE m.id = "ERROR"
  <2>1. d = Terminate(c, m.sess)
    BY <1>2 DEF OnPosted
  <2> QED BY <1>0, <1>2, <2>1, TerminateInforms DEF NewlyRings
<1>3. CASE m.id = "TIMEOUT"
  <2>1. d = SetError(c, m.sess, "TIME")
    BY <1>3 DEF OnPosted
  <2> HIDE DEF d
  <2>2. d.state = c.state /\ d.call = c.call /\ d.posted = c.posted
    BY <1>0, <1>3, <2>1, SetErrorActs
  <2> QED BY <1>0, <2>2, SilentInforms DEF d, NewlyRings
<1>4. CASE m.id = "AUTODESTROY"
  <2>1. d = DestroyCall(c, m.sess)
    BY <1>4 DEF OnPosted
  <2> HIDE DEF d
  <2>2. d.state = c.state /\ d.call = c.call /\ d.posted = c.posted
    BY <1>0, <1>4, <2>1, DestroyCallActs
  <2> QED BY <1>0, <2>2, SilentInforms DEF d, NewlyRings
<1>5. CASE m.id \in {"PUMP", "CLEARED"}
  <2>1. d = c
    BY <1>5 DEF OnPosted
  <2> HIDE DEF d
  <2> QED BY <1>0, <2>1, SilentInforms DEF d, NewlyRings
<1> QED BY <1>0, <1>1, <1>2, <1>3, <1>4, <1>5

LEMMA IncomingInforms ==
  ASSUME NEW c, Clean(c), NEW m \in Incoming,
         m.type = "INITIATE" => c.state[m.sess] = "absent"
  PROVE  /\ Informs(c, OnIncomingMessage(c, m))
         /\ m.type # "INITIATE" =>
              \A t \in Sessions : ~NewlyRings(c, OnIncomingMessage(c, m), t)
<1> DEFINE d == OnIncomingMessage(c, m)
           s == m.sess
           Goal(e) == /\ Informs(c, e)
                      /\ m.type # "INITIATE" => \A t \in Sessions : ~NewlyRings(c, e, t)
<1>0. /\ s \in Sessions /\ m.codecs \in BOOLEAN
      /\ m.type \in {"INITIATE", "ACCEPT", "REJECT", "TERMINATE", "ERROR"}
      /\ c \in Objects /\ c.posted = <<>> /\ c.state \in [Sessions -> States]
  BY DEF Incoming, Clean, Objects
<1>1. CASE m.type = "INITIATE"
  <2>1. d = OnInitiate(c, s, m.codecs)
    BY <1>1 DEF OnIncomingMessage
  <2> HIDE DEF d, s
  <2>2. Informs(c, d)
    BY <1>0, <1>1, <2>1, OnInitiateInforms DEF s
  <2> QED BY <1>1, <2>2 DEF d
<1>2. CASE m.type = "ACCEPT" /\ Exists(c, s)
  <2>1. d = OnAccept(c, s)
    BY <1>2 DEF OnIncomingMessage
  <2> HIDE DEF d, s
  <2>2. Informs(c, d)
    BY <1>0, <2>1, OnAcceptInforms
  <2>3. \A t \in Sessions : ~NewlyRings(c, d, t)
    <3>1. CASE c.state[s] = "RECEIVEDACCEPT"
      BY <2>1, <3>1 DEF OnAccept, NewlyRings
    <3>2. CASE c.state[s] # "RECEIVEDACCEPT"
      <4>1. d.state = [c.state EXCEPT ![s] = "RECEIVEDACCEPT"]
        BY <1>0, <2>1, <3>2, OnAcceptIs
      <4> QED BY <1>0, <4>1 DEF NewlyRings
    <3> QED BY <3>1, <3>2
  <2> QED BY <2>2, <2>3 DEF d
<1>3. ASSUME NEW n \in Closing, NEW st \in {"RECEIVEDREJECT", "RECEIVEDTERMINATE"},
             NEW e, e = Received(c, s, st, n)
      PROVE  Goal(e)
  <2> HIDE DEF s
  <2>1. Informs(c, e)
    BY <1>0, <1>3, ReceivedInforms
  <2>2. BecomesReceived(c, s, st, n, e)
    <3>1. n \in Notices /\ st \in States /\ st # "SENTTERMINATE"
      BY <1>3 DEF Closing, Notices, States, Over
    <3> QED BY <1>0, <1>3, <3>1, ReceivedIs
  <2>3. e.state = [c.state EXCEPT ![s] = st] \/ e.state = [c.state EXCEPT ![s] = "SENTTERMINATE"]
    BY <2>2 DEF BecomesReceived
  <2>4. \A t \in Sessions : ~NewlyRings(c, e, t)
    BY <1>0, <2>3 DEF NewlyRings
  <2> QED BY <2>1, <2>4
<1>s. Goal(c)
  BY <1>0, SilentInforms DEF NewlyRings
<1>4. CASE m.type = "REJECT" /\ Exists(c, s)
  <2>1. d = OnReject(c, s)
    BY <1>4 DEF OnIncomingMessage
  <2> HIDE DEF d, s, Goal
  <2>2. d = c \/ d = Received(c, s, "RECEIVEDREJECT", "NOT_ANSWERED")
    BY <2>1 DEF OnReject, Received
  <2>3. "NOT_ANSWERED" \in Closing
    BY DEF Closing
  <2>4. Goal(d)
    BY <1>s, <1>3, <2>2, <2>3
  <2> QED BY <2>4 DEF d, Goal
<1>5. CASE m.type = "TERMINATE" /\ Exists(c, s)
  <2>1. d = OnTerminate(c, s)
    BY <1>5 DEF OnIncomingMessage
  <2> HIDE DEF d, s, Goal
  <2>2. d = c \/ d = Received(c, s, "RECEIVEDTERMINATE", "TERMINATE")
    BY <2>1 DEF OnTerminate, Received
  <2>3. "TERMINATE" \in Closing
    BY DEF Closing
  <2>4. Goal(d)
    BY <1>s, <1>3, <2>2, <2>3
  <2> QED BY <2>4 DEF d, Goal
<1>6. CASE m.type = "ERROR" /\ Exists(c, s)
  <2>1. d = SetError(c, s, "RESPONSE")
    BY <1>6 DEF OnIncomingMessage
  <2> HIDE DEF d, s
  <2>2. d.state = c.state /\ d.call = c.call /\ d.posted = c.posted
    BY <1>0, <2>1, SetErrorActs
  <2> QED BY <1>0, <2>2, SilentInforms DEF d, NewlyRings
<1>7. CASE m.type # "INITIATE" /\ ~Exists(c, s)
  <2>1. d = c
    BY <1>7 DEF OnIncomingMessage
  <2> HIDE DEF d, Goal
  <2>2. Goal(d)
    BY <1>s, <2>1
  <2> QED BY <2>2 DEF d, Goal
<1> QED BY <1>0, <1>1, <1>2, <1>4, <1>5, <1>6, <1>7

LEMMA CommandInforms ==
  ASSUME NEW c, Clean(c), Current(c), NEW command, NEW s,
         command = "CALL" /\ c.call = None => s \in Sessions /\ c.state[s] = "absent"
  PROVE  LET d == OnCommand(c, command, s)
         IN  /\ Informs(c, d)
             /\ \A t \in Sessions : ~NewlyRings(c, d, t)
             /\ command \in {"HANGUP", "ACCEPT_CALL", "REJECT_CALL"} /\ Rung(c) =>
                  \A t \in Sessions : d.state[t] # "RECEIVEDINITIATE"
<1> DEFINE d == OnCommand(c, command, s)
           k == c.call
<1>0. /\ c \in Objects /\ c.posted = <<>> /\ k \in Sessions \cup {None}
      /\ \A t \in Sessions : t # None
  BY CallClientConstants DEF Clean, Objects
<1>1. CASE command = "CALL" /\ k = None
  <2>1. d = Initiate(c, s)
    BY <1>1 DEF OnCommand
  <2> HIDE DEF d
  <2>2. Does(c, d, s) /\ d.state[s] = "SENTINITIATE" /\ s \in Sessions
    BY <1>1, <2>1, InitiateDoes
  <2>3. \A t \in Sessions \ {s} : d.state[t] = c.state[t]
    BY <2>2 DEF Does, Shows
  <2>4. LastWord(c, d)
    BY <2>2 DEF LastWord, Ended
  <2>5. \A t \in Sessions : ~NewlyRings(c, d, t)
    BY <2>2, <2>3 DEF NewlyRings
  <2>6. Rung(c) => Rung(d)
    BY <1>0, <1>1, <2>2, <2>3 DEF Rung
  <2> QED BY <1>1, <2>4, <2>5, <2>6 DEF d, Informs
<1>2. CASE command = "HANGUP" /\ k # None
  <2>0. k \in Sessions /\ c.state[k] # "SENTTERMINATE"
    BY <1>0, <1>2 DEF Current, Live, Ringing, Talking
  <2>1. d = EndMine(c, k)
    BY <1>2 DEF OnCommand
  <2>2. Informs(c, d) /\ (Rung(c) => \A t \in Sessions : d.state[t] # "RECEIVEDINITIATE")
    <3> HIDE DEF d
    <3> QED BY <2>0, <2>1, EndMineInforms
  <2> HIDE DEF d
  <2>3. \A t \in Sessions : ~NewlyRings(c, d, t)
    <3>1. Does(c, d, k) /\ d.state[k] = "SENTTERMINATE"
      BY <2>0, <2>1, EndMineDoes
    <3> QED BY <3>1 DEF NewlyRings, Does, Shows
  <2> QED BY <2>2, <2>3 DEF d
<1>3. CASE command = "ACCEPT_CALL" /\ k # None
  <2>0. k \in Sessions
    BY <1>0, <1>3
  <2>1. d = Accept(c, k)
    BY <1>3 DEF OnCommand
  <2> HIDE DEF d
  <2>2. Informs(c, d) /\ (Rung(c) => \A t \in Sessions : d.state[t] # "RECEIVEDINITIATE")
    BY <2>0, <2>1, AnswerInforms
  <2>3. Does(c, d, k) /\ (d.state[k] = "SENTACCEPT" \/ d.state[k] = c.state[k])
    BY <2>0, <2>1, AcceptDoes
  <2>4. \A t \in Sessions : ~NewlyRings(c, d, t)
    BY <2>3 DEF NewlyRings, Does, Shows
  <2> QED BY <2>2, <2>4 DEF d
<1>4. CASE command = "REJECT_CALL" /\ k # None
  <2> DEFINE r == Reject(c, k)
  <2>0. k \in Sessions
    BY <1>0, <1>4
  <2>1. d = [r EXCEPT !.call = None]
    BY <1>4 DEF OnCommand
  <2>2. /\ Informs(c, r) /\ r \in Objects /\ r.call = c.call
        /\ Rung(c) => \A t \in Sessions : r.state[t] # "RECEIVEDINITIATE"
    BY <2>0, AnswerInforms
  <2>3. Does(c, r, k) /\ (r.state[k] = "SENTREJECT" \/ r.state[k] = c.state[k])
    BY <2>0, RejectDoes
  <2>4. \A t \in Sessions : ~NewlyRings(c, r, t)
    BY <2>3 DEF NewlyRings, Does, Shows
  <2> HIDE DEF d, r
  <2>5. d.state = r.state /\ d.posted = r.posted
    BY <2>1, <2>2, CallIs
  <2>6. LastWord(c, d)
    BY <2>2, <2>5 DEF Informs, LastWord, Announces
  <2>7. \A t \in Sessions : ~NewlyRings(c, d, t)
    BY <2>4, <2>5 DEF NewlyRings
  <2>8. Rung(c) => \A t \in Sessions : d.state[t] # "RECEIVEDINITIATE"
    BY <2>2, <2>5
  <2>9. Informs(c, d)
    BY <2>6, <2>7, <2>8 DEF Informs, Rung
  <2> QED BY <2>7, <2>8, <2>9 DEF d
<1>5. CASE /\ ~(command = "CALL" /\ k = None)
           /\ command \notin {"HANGUP", "ACCEPT_CALL", "REJECT_CALL"} \/ k = None
  <2>1. d = c
    BY <1>5 DEF OnCommand
  <2> HIDE DEF d
  <2>2. k = None /\ Rung(c) => \A t \in Sessions : d.state[t] # "RECEIVEDINITIATE"
    BY <1>0, <2>1 DEF Rung
  <2> QED BY <1>0, <1>5, <2>1, <2>2, SilentInforms DEF d, NewlyRings
<1> QED BY <1>1, <1>2, <1>3, <1>4, <1>5

(* What is said of a record that a handler starts from holds of the        *)
(* client: they differ in the queue and in what the last step said.        *)
LEMMA InformsFrom ==
  ASSUME NEW c, NEW d, NEW e, c.state = e.state, c.call = e.call, Informs(c, d)
  PROVE  Informs(e, d) /\ \A t : NewlyRings(c, d, t) <=> NewlyRings(e, d, t)
BY DEF Informs, LastWord, Rung, NewlyRings

(* A step of the signalling thread.  A call that begins to ring comes from *)
(* an initiate that was first in the inbox.                                *)
LEMMA StepInforms ==
  ASSUME IInv, SignallingThread \/ \E m \in Incoming : Arrive(m)
  PROVE  /\ Informs(client, client')
         /\ \A t \in Sessions :
              NewlyRings(client, client', t) => inbox # <<>> /\ Head(inbox).type = "INITIATE"
<1> DEFINE D == client'
           Goal == /\ Informs(client, D)
                   /\ \A t \in Sessions :
                        NewlyRings(client, D, t) => inbox # <<>> /\ Head(inbox).type = "INITIATE"
<1>d. D = client'
  OBVIOUS
<1> HIDE DEF D
<1>0. Clean(Idle) /\ Idle.state = client.state /\ Idle.call = client.call /\ Idle \in Objects
      /\ Idle.posted = <<>> /\ client.queue = Idle.queue
  BY IdleClean DEF Clean
<1>1. ASSUME D.state = client.state, D.call = client.call, D.posted = <<>>
      PROVE  Goal
  BY <1>1, SilentInforms DEF NewlyRings
<1>2. ASSUME Dispatch PROVE Goal
  <2>1. PICK writable \in BOOLEAN : D = OnPosted(Popped, Head(client.queue), writable)
    BY <1>2, <1>d DEF Dispatch
  <2>2. client.queue # <<>> /\ Head(client.queue).id # "PUMP"
    BY <1>2 DEF Dispatch
  <2>3. Clean(Popped) /\ Popped.state = client.state /\ Popped.call = client.call
    BY <2>2, PoppedClean
  <2>4. Head(client.queue) \in Messages
    <3>1. client.queue \in Seq(Messages)
      BY IdleClean, QueueIs
    <3> QED BY <2>2, <3>1
  <2>5. Informs(Popped, D) /\ \A t \in Sessions : ~NewlyRings(Popped, D, t)
    BY <2>1, <2>3, <2>4, PostedInforms
  <2> QED BY <2>3, <2>5, InformsFrom
<1>3. ASSUME HandleStanza PROVE Goal
  <2> DEFINE c == IF Len(inbox) = 1 THEN Popped ELSE Idle
             m == Head(inbox)
  <2>1. D = OnIncomingMessage(c, m) /\ client.queue # <<>> /\ inbox # <<>>
    BY <1>3, <1>d DEF HandleStanza
  <2>2. Clean(c) /\ c.state = client.state /\ c.call = client.call
    BY <1>0, <2>1, PoppedClean
  <2>3. m \in Incoming /\ m = inbox[1] /\ 1 \in DOMAIN inbox
    <3>1. inbox \in Seq(Incoming)
      BY DEF IInv, TypeOK
    <3> QED BY <2>1, <3>1
  <2>4. m.type = "INITIATE" => c.state[m.sess] = "absent"
    BY <2>2, <2>3 DEF IInv, InboxOK
  <2> HIDE DEF c, m
  <2>5. /\ Informs(c, D)
        /\ m.type # "INITIATE" => \A t \in Sessions : ~NewlyRings(c, D, t)
    BY <2>1, <2>2, <2>3, <2>4, IncomingInforms
  <2> QED BY <2>1, <2>2, <2>5, InformsFrom DEF m
<1>4. ASSUME NEW s \in Sessions, TimerFires(s) PROVE Goal
  <2> DEFINE c == [Idle EXCEPT !.timer[s] = FALSE]
  <2>1. /\ c \in Objects /\ c.state = client.state /\ c.call = client.call
        /\ c.posted = <<>>
    BY <1>0, TimerIs
  <2>2. D = Enqueue(c, "TIMEOUT", s)
    BY <1>4, <1>d DEF TimerFires
  <2> HIDE DEF c
  <2>3. D.state = c.state /\ D.call = c.call /\ D.posted = c.posted
    BY <2>1, <2>2, EnqueueIs
  <2> QED BY <1>1, <2>1, <2>3
<1>5. ASSUME NEW s \in Sessions, NEW writable \in BOOLEAN, OnSocketState(s, writable)
      PROVE  Goal
  <2>1. D = Clear(Idle, s, {"TIMEOUT"}) \/ D = [Idle EXCEPT !.timer[s] = TRUE]
    BY <1>5, <1>d DEF OnSocketState
  <2>2. D.state = client.state /\ D.call = client.call /\ D.posted = <<>>
    <3>1. CASE D = Clear(Idle, s, {"TIMEOUT"})
      BY <1>0, <3>1, ClearIs
    <3>2. CASE D = [Idle EXCEPT !.timer[s] = TRUE]
      BY <1>0, <3>2, TimerIs
    <3> QED BY <2>1, <3>1, <3>2
  <2> QED BY <1>1, <2>2
<1>6. ASSUME NEW m \in Incoming, Arrive(m) PROVE Goal
  <2> DEFINE q == Append(Idle.queue, Pump)
  <2>1. D = [Idle EXCEPT !.queue = q] \/ D = Idle
    BY <1>6, <1>d DEF Arrive
  <2> HIDE DEF q
  <2>2. D.state = client.state /\ D.call = client.call /\ D.posted = <<>>
    BY <1>0, <2>1 DEF Objects
  <2> QED BY <1>1, <2>2
<1>7. Goal
  BY <1>2, <1>3, <1>4, <1>5, <1>6 DEF SignallingThread
<1> QED BY <1>7, <1>d

(* A command never makes a call ring here, and ends the ringing of the     *)
(* call client's own.                                                      *)
LEMMA CommandStepInforms ==
  ASSUME IInv, NEW command, Command(command)
  PROVE  /\ Informs(client, client')
         /\ \A t \in Sessions : ~NewlyRings(client, client', t)
         /\ command \in {"HANGUP", "ACCEPT_CALL", "REJECT_CALL"} /\ Rung(client) =>
              \A t \in Sessions : client'.state[t] # "RECEIVEDINITIATE"
<1> DEFINE D == client'
<1>d. D = client'
  OBVIOUS
<1> HIDE DEF D
<1>1. Clean(Idle) /\ Current(Idle) /\ Idle.state = client.state /\ Idle.call = client.call
  BY IdleClean
<1>2. PICK s : /\ D = OnCommand(Idle, command, s)
               /\ command = "CALL" /\ Idle.call = None =>
                    s \in Sessions /\ Idle.state[s] = "absent"
  <2>1. CASE command = "CALL" /\ client.call = None
    <3>1. PICK s \in Fresh : D = OnCommand(Idle, command, s)
      BY <1>d, <2>1 DEF Command
    <3>2. s \in Sessions /\ Idle.state[s] = "absent"
      BY <1>1, <3>1 DEF Fresh
    <3> QED BY <3>1, <3>2
  <2>2. CASE ~(command = "CALL" /\ client.call = None)
    <3>1. D = OnCommand(Idle, command, None)
      BY <1>d, <2>2 DEF Command
    <3> QED BY <1>1, <2>2, <3>1
  <2> QED BY <2>1, <2>2
<1>3. /\ Informs(Idle, D)
      /\ \A t \in Sessions : ~NewlyRings(Idle, D, t)
      /\ command \in {"HANGUP", "ACCEPT_CALL", "REJECT_CALL"} /\ Rung(Idle) =>
           \A t \in Sessions : D.state[t] # "RECEIVEDINITIATE"
  BY <1>1, <1>2, CommandInforms
<1>4. Rung(client) => Rung(Idle)
  BY <1>1 DEF Rung
<1>5. Informs(client, D) /\ \A t \in Sessions : ~NewlyRings(client, D, t)
  BY <1>1, <1>3, InformsFrom
<1> QED BY <1>3, <1>4, <1>5, <1>d
=============================================================================

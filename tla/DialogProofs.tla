------------------------------ MODULE DialogProofs ------------------------------
(***************************************************************************)
(* Theorems about the dialog and their proofs, for any number of helper    *)
(* threads and any signalling thread: the types, and that a ringing dialog *)
(* is looked after.                                                        *)
(***************************************************************************)
EXTENDS Dialog, TLAPS

(* A helper thread that runs has a step to take.                           *)
Busy == \A h \in Helpers : helper[h].kind # "none" => helper[h].todo # <<>>

IInv == TypeOK /\ Busy

-----------------------------------------------------------------------------
(* What a helper has to do after its wait is one of these four lists.      *)
LEMMA Plans ==
  ASSUME NEW kind \in {"none", "dial", "accept"}
  PROVE  /\ Answered(kind) \in Seq(Steps) /\ Answered(kind) # <<>>
         /\ NotAnswered(kind) \in Seq(Steps) /\ NotAnswered(kind) # <<>>
<1>1. CASE kind = "dial"
  <2>1. <<"ONLINE", "ResetAnswer">> \in Seq(Steps)
    BY DEF Steps
  <2>2. <<"ResetHangup", "INITIAL">> \in Seq(Steps)
    BY DEF Steps
  <2> QED BY <1>1, <2>1, <2>2 DEF Answered, NotAnswered
<1>2. CASE kind # "dial"
  <2>1. <<"ResetAnswer", "ONLINE", "ACCEPT_CALL", "SetEvent">> \in Seq(Steps)
    BY DEF Steps
  <2>2. <<"REJECT_CALL", "SetEvent", "ResetHangup", "INITIAL">> \in Seq(Steps)
    BY DEF Steps
  <2> QED BY <1>2, <2>1, <2>2 DEF Answered, NotAnswered
<1> QED BY <1>1, <1>2

(* A plan begins or ends with a step that sets the status.                 *)
LEMMA PlansSettle ==
  ASSUME NEW kind \in {"none", "dial", "accept"}
  PROVE  /\ \E i \in DOMAIN Answered(kind) : Answered(kind)[i] = "ONLINE"
         /\ \E i \in DOMAIN NotAnswered(kind) : NotAnswered(kind)[i] = "INITIAL"
<1>1. CASE kind = "dial"
  <2>1. 1 \in DOMAIN Answered(kind) /\ Answered(kind)[1] = "ONLINE"
    BY <1>1 DEF Answered
  <2>2. 2 \in DOMAIN NotAnswered(kind) /\ NotAnswered(kind)[2] = "INITIAL"
    BY <1>1 DEF NotAnswered
  <2> QED BY <2>1, <2>2
<1>2. CASE kind # "dial"
  <2>1. 2 \in DOMAIN Answered(kind) /\ Answered(kind)[2] = "ONLINE"
    BY <1>2 DEF Answered
  <2>2. 4 \in DOMAIN NotAnswered(kind) /\ NotAnswered(kind)[4] = "INITIAL"
    BY <1>2 DEF NotAnswered
  <2> QED BY <2>1, <2>2
<1> QED BY <1>1, <1>2

(* The window's messages keep their type when one is added or taken.       *)
LEMMA QueueTypes ==
  ASSUME NEW q \in Seq(Posted)
  PROVE  /\ \A m \in Posted : Append(q, m) \in Seq(Posted)
         /\ q # <<>> => Head(q) \in Posted /\ Tail(q) \in Seq(Posted)
<1> DEFINE S == Posted
<1> HIDE DEF S
<1>1. q \in Seq(S) => /\ \A m \in S : Append(q, m) \in Seq(S)
                      /\ q # <<>> => Head(q) \in S /\ Tail(q) \in Seq(S)
  OBVIOUS
<1> QED BY <1>1 DEF S

LEMMA TodoTypes ==
  ASSUME NEW q \in Seq(Steps), q # <<>>
  PROVE  Head(q) \in Steps /\ Tail(q) \in Seq(Steps)
<1> DEFINE S == Steps
<1> HIDE DEF S
<1>1. q \in Seq(S) => Head(q) \in S /\ Tail(q) \in Seq(S)
  OBVIOUS
<1> QED BY <1>1 DEF S

-----------------------------------------------------------------------------
LEMMA WaitEndsInductive ==
  ASSUME IInv, NEW h \in Helpers, WaitEnds(h)
  PROVE  IInv'
<1> DEFINE kind == helper[h].kind
           plan == IF "answer" \in Events(kind) THEN Answered(kind) ELSE NotAnswered(kind)
<1>1. kind \in {"none", "dial", "accept"}
  BY DEF IInv, TypeOK
<1>2. plan \in Seq(Steps) /\ plan # <<>>
  BY <1>1, Plans
<1>3. helper' = [helper EXCEPT ![h].todo = plan]
  BY DEF WaitEnds
<1>4. uiQueue' \in Seq(Posted)
  BY QueueTypes DEF IInv, TypeOK, WaitEnds, Posted
<1> HIDE DEF plan
<1>5. /\ helper' \in [Helpers -> [kind : {"none", "dial", "accept"}, todo : Seq(Steps)]]
      /\ Busy'
  BY <1>2, <1>3 DEF IInv, TypeOK, Busy
<1> QED BY <1>4, <1>5 DEF IInv, TypeOK, WaitEnds, mail

LEMMA HelperStepsInductive ==
  ASSUME IInv, NEW h \in Helpers, HelperSteps(h)
  PROVE  IInv'
<1> DEFINE step == Head(helper[h].todo)
           rest == Tail(helper[h].todo)
<1>1. helper[h].todo \in Seq(Steps) /\ helper[h].todo # <<>>
  BY DEF IInv, TypeOK, Busy, HelperSteps
<1>2. step \in Steps /\ rest \in Seq(Steps)
  BY <1>1, TodoTypes
<1>3. helper' = [helper EXCEPT ![h] =
                   IF rest = <<>> THEN NoHelper ELSE [@ EXCEPT !.todo = rest]]
  BY DEF HelperSteps
<1>4. /\ m_callStatus' \in {"INITIAL", "DIALING", "ACCEPTING", "ONLINE"}
      /\ dialEvents' \subseteq {"answer", "hangup"}
      /\ acceptEvents' \subseteq {"answer", "hangup"}
      /\ command' \in {"UNKNOWN", "CALL", "HANGUP", "ACCEPT_CALL", "REJECT_CALL", "STR_CHAT"}
      /\ wake' \in BOOLEAN
  <2>1. /\ m_callStatus' = IF step \in {"ONLINE", "INITIAL"} THEN step ELSE m_callStatus
        /\ dialEvents' = Reset(helper[h].kind, "dial", dialEvents, step)
        /\ acceptEvents' = Reset(helper[h].kind, "accept", acceptEvents, step)
        /\ command' = IF step \in {"ACCEPT_CALL", "REJECT_CALL"} THEN step ELSE command
        /\ wake' = (wake \/ step = "SetEvent")
    BY DEF HelperSteps
  <2> HIDE DEF step
  <2> QED BY <2>1 DEF IInv, TypeOK, Reset
<1> HIDE DEF step, rest
<1>5. /\ helper' \in [Helpers -> [kind : {"none", "dial", "accept"}, todo : Seq(Steps)]]
      /\ Busy'
  BY <1>2, <1>3 DEF IInv, TypeOK, Busy, NoHelper
<1> QED BY <1>4, <1>5 DEF IInv, TypeOK, HelperSteps

(* A call that begins to ring.                                             *)
LEMMA RingTypes ==
  ASSUME IInv,
         NEW status \in {"DIALING", "ACCEPTING"},
         NEW kind \in {"dial", "accept"},
         NEW sound \in {"dialing", "incoming"},
         Ring(status, kind, sound)
  PROVE  /\ m_callStatus' \in {"INITIAL", "DIALING", "ACCEPTING", "ONLINE"}
         /\ helper' \in [Helpers -> [kind : {"none", "dial", "accept"}, todo : Seq(Steps)]]
         /\ bell' \in {"silent", "dialing", "incoming", "busy"}
         /\ Busy'
<1>1. PICK h \in Helpers : helper' = [helper EXCEPT ![h] = [kind |-> kind, todo |-> <<"Wait">>]]
  BY DEF Ring, Idle
<1>2. <<"Wait">> \in Seq(Steps) /\ <<"Wait">> # <<>>
  BY DEF Steps
<1> QED BY <1>1, <1>2 DEF Ring, IInv, TypeOK, Busy

LEMMA CallInductive ==
  ASSUME IInv, OnBnClickedCall
  PROVE  IInv'
<1>1. Ring("DIALING", "dial", "dialing")
  BY DEF OnBnClickedCall
<1> QED BY <1>1, RingTypes DEF OnBnClickedCall, Give, IInv, TypeOK

LEMMA ClickInductive ==
  ASSUME IInv, NEW b \in Clicks, Click(b)
  PROVE  IInv'
<1>1. CASE OnBnClickedCall
  BY <1>1, CallInductive
<1>2. CASE OnBnClickedHangup
  BY <1>2 DEF OnBnClickedHangup, Give, IInv, TypeOK, Busy
<1>3. CASE OnBnClickedSendmsg
  BY <1>3 DEF OnBnClickedSendmsg, Give, IInv, TypeOK, Busy, ui
<1> QED BY <1>1, <1>2, <1>3 DEF Click

LEMMA PhoneInductive ==
  ASSUME IInv, NEW k \in Keys, OnHandlePhone(k)
  PROVE  IInv'
<1>1. CASE OnBnClickedCall
  BY <1>1, CallInductive
<1>2. CASE OnBnClickedHangup
  BY <1>2 DEF OnBnClickedHangup, Give, IInv, TypeOK, Busy
<1>3. CASE m_callStatus \in {"DIALING", "ACCEPTING"} /\ k = "RIGHT_KEY"
  BY <1>3 DEF OnHandlePhone, OnBnClickedHangup, IInv, TypeOK, Busy, mail
<1> QED BY <1>1, <1>2, <1>3 DEF OnHandlePhone

(* Every case of CCallChangeMessage::Handle.                               *)
LEMMA HandleTypes ==
  ASSUME IInv, NEW type \in (Notices \ {"UNSET"}) \cup {"UNKNOWN"}, HandleType(type)
  PROVE  /\ m_callStatus' \in {"INITIAL", "DIALING", "ACCEPTING", "ONLINE"}
         /\ dialEvents' \subseteq {"answer", "hangup"}
         /\ acceptEvents' \subseteq {"answer", "hangup"}
         /\ helper' \in [Helpers -> [kind : {"none", "dial", "accept"}, todo : Seq(Steps)]]
         /\ buttons' \in {{"Call"}, {"Hangup"}}
         /\ bell' \in {"silent", "dialing", "incoming", "busy"}
         /\ Busy'
<1>1. CASE type \in OnCall
  BY <1>1 DEF HandleType, Engaged, Set, IInv, TypeOK, Busy, OnCall, Closing
<1>2. CASE type \in Closing
  BY <1>2 DEF HandleType, Closed, Set, IInv, TypeOK, Busy, OnCall, Closing
<1>3. CASE type = "INCOMING"
  <2>1. Ring("ACCEPTING", "accept", "incoming")
    BY <1>3 DEF HandleType, OnCall, Closing
  <2> QED BY <1>3, <2>1, RingTypes DEF HandleType, IInv, TypeOK, OnCall, Closing
<1>4. CASE type = "UNKNOWN"
  BY <1>4 DEF HandleType, ui, IInv, TypeOK, Busy, OnCall, Closing
<1> QED BY <1>1, <1>2, <1>3, <1>4 DEF Notices

LEMMA HandleMessageInductive ==
  ASSUME IInv, HandleMessage
  PROVE  IInv'
<1> DEFINE m == Head(uiQueue)
<1>1. uiQueue' \in Seq(Posted) /\ m \in Posted
  BY QueueTypes DEF IInv, TypeOK, HandleMessage
<1>2. CASE \E type \in (Notices \ {"UNSET"}) \cup {"UNKNOWN"} : HandleType(type)
  <2>1. PICK type \in (Notices \ {"UNSET"}) \cup {"UNKNOWN"} : HandleType(type)
    BY <1>2
  <2> QED BY <1>1, <2>1, HandleTypes DEF IInv, TypeOK, HandleMessage, mail
<1>3. CASE m = "WM_STOPMUSIC" /\ bell' = "silent"
           /\ UNCHANGED <<m_callStatus, dialEvents, acceptEvents, helper, buttons>>
  BY <1>1, <1>3 DEF IInv, TypeOK, Busy, HandleMessage, mail
<1>4. CASE m = "MM_MCINOTIFY" /\ bell' = BellFor(m_callStatus)
           /\ UNCHANGED <<m_callStatus, dialEvents, acceptEvents, helper, buttons>>
  BY <1>1, <1>4 DEF IInv, TypeOK, Busy, HandleMessage, mail, BellFor
<1> QED BY <1>2, <1>3, <1>4 DEF HandleMessage

THEOREM Inductive == IInv /\ [Next]_vars => IInv'
<1> SUFFICES ASSUME IInv, [Next]_vars PROVE IInv'
  OBVIOUS
<1>1. ASSUME NEW h \in Helpers, WaitEnds(h) PROVE IInv'
  BY <1>1, WaitEndsInductive
<1>2. ASSUME NEW h \in Helpers, HelperSteps(h) PROVE IInv'
  BY <1>2, HelperStepsInductive
<1>3. CASE HandleMessage
  BY <1>3, HandleMessageInductive
<1>4. CASE SetEventAdapter
  BY <1>4 DEF SetEventAdapter, IInv, TypeOK, Busy, ui
<1>5. ASSUME NEW b \in Clicks, Click(b) PROVE IInv'
  BY <1>5, ClickInductive
<1>6. ASSUME NEW k \in Keys, OnHandlePhone(k) PROVE IInv'
  BY <1>6, PhoneInductive
<1>7. CASE BellEnds
  <2>1. uiQueue' \in Seq(Posted)
    BY <1>7, QueueTypes DEF BellEnds, IInv, TypeOK, Posted
  <2> QED BY <1>7, <2>1 DEF BellEnds, IInv, TypeOK, Busy, mail
<1>8. CASE Take
  BY <1>8 DEF Take, IInv, TypeOK, Busy, ui
<1>9. ASSUME NEW n \in Notices, Post(n) PROVE IInv'
  <2>1. uiQueue' \in Seq(Posted)
    BY <1>9, QueueTypes DEF Post, IInv, TypeOK, Posted
  <2> QED BY <1>9, <2>1 DEF Post, IInv, TypeOK, Busy, ui, mail
<1>10. CASE UNCHANGED vars
  BY <1>10 DEF vars, ui, mail, IInv, TypeOK, Busy
<1> QED
  BY <1>1, <1>2, <1>3, <1>4, <1>5, <1>6, <1>7, <1>8, <1>9, <1>10
  DEF Next, HelperThreads, UIThread

LEMMA InitInv == Init => IInv
<1> SUFFICES ASSUME Init PROVE IInv
  OBVIOUS
<1>1. <<>> \in Seq(Steps) /\ <<>> \in Seq(Posted)
  OBVIOUS
<1>2. helper \in [Helpers -> [kind : {"none", "dial", "accept"}, todo : Seq(Steps)]]
  BY <1>1 DEF Init, NoHelper
<1>3. Busy
  BY DEF Init, NoHelper, Busy
<1> QED BY <1>1, <1>2, <1>3 DEF Init, IInv, TypeOK

LEMMA AlwaysIInv == Spec => []IInv
<1>1. Init => IInv
  BY InitInv
<1>2. IInv /\ [Next]_vars => IInv'
  BY Inductive
<1> QED BY <1>1, <1>2, PTL DEF Spec

(* Every variable of the dialog keeps its type.                            *)
THEOREM TypeCorrect == Spec => []TypeOK
<1>1. IInv => TypeOK
  BY DEF IInv
<1> QED BY <1>1, AlwaysIInv, PTL

-----------------------------------------------------------------------------
(* RingingHasHelper is kept by every step.  A helper gives up the duty to  *)
(* set the status only in the step that sets it, and then nothing rings.   *)
Attended(kind) == \E h \in Helpers : helper[h].kind = kind /\ WillSettle(h)

LEMMA WaitEndsKeeps ==
  ASSUME IInv, NEW h \in Helpers, WaitEnds(h),
         NEW own \in {"dial", "accept"}, Attended(own)
  PROVE  Attended(own)'
<1>1. PICK g \in Helpers : helper[g].kind = own /\ WillSettle(g)
  BY DEF Attended
<1>2. CASE g # h
  <2>1. helper'[g] = helper[g]
    BY <1>2 DEF WaitEnds, IInv, TypeOK
  <2> QED BY <1>1, <2>1 DEF Attended, WillSettle
<1>3. CASE g = h
  <2> DEFINE kind == helper[h].kind
             plan == IF "answer" \in Events(kind) THEN Answered(kind) ELSE NotAnswered(kind)
  <2>1. kind \in {"none", "dial", "accept"}
    BY DEF IInv, TypeOK
  <2>2. \E i \in DOMAIN plan : plan[i] \in {"Wait", "ONLINE", "INITIAL"}
    BY <2>1, PlansSettle
  <2>3. helper' = [helper EXCEPT ![h].todo = plan]
    BY DEF WaitEnds
  <2> HIDE DEF plan
  <2>4. helper'[h].kind = own /\ helper'[h].todo = plan
    BY <1>1, <1>3, <2>3 DEF IInv, TypeOK
  <2> QED BY <2>2, <2>4 DEF Attended, WillSettle
<1> QED BY <1>2, <1>3

(* After a step that does not set the status, the step that does is still  *)
(* to come.                                                                *)
LEMMA DutyRemains ==
  ASSUME NEW q \in Seq(Steps),
         NEW i \in DOMAIN q, q[i] \in {"Wait", "ONLINE", "INITIAL"},
         Head(q) \notin {"Wait", "ONLINE", "INITIAL"}
  PROVE  /\ Tail(q) # <<>>
         /\ \E j \in DOMAIN Tail(q) : Tail(q)[j] \in {"Wait", "ONLINE", "INITIAL"}
<1> DEFINE S == Steps
<1> HIDE DEF S
<1>1. q \in Seq(S)
  BY DEF S
<1>2. i # 1 /\ i \in 1..Len(q)
  BY <1>1
<1>3. i - 1 \in 1..Len(Tail(q)) /\ Tail(q)[i - 1] = q[i]
  BY <1>1, <1>2
<1>4. DOMAIN Tail(q) = 1..Len(Tail(q))
  BY <1>1, <1>2
<1>5. Tail(q) # <<>>
  BY <1>1, <1>2, <1>3
<1> QED BY <1>3, <1>4, <1>5

LEMMA HelperStepsKeeps ==
  ASSUME IInv, NEW h \in Helpers, HelperSteps(h),
         m_callStatus' \notin {"ONLINE", "INITIAL"},
         NEW own \in {"dial", "accept"}, Attended(own)
  PROVE  Attended(own)'
<1>1. PICK g \in Helpers : helper[g].kind = own /\ WillSettle(g)
  BY DEF Attended
<1>2. CASE g # h
  <2>1. helper'[g] = helper[g]
    BY <1>2 DEF HelperSteps, IInv, TypeOK
  <2> QED BY <1>1, <2>1 DEF Attended, WillSettle
<1>3. CASE g = h
  <2> DEFINE todo == helper[h].todo
  <2>1. todo \in Seq(Steps)
    BY DEF IInv, TypeOK
  <2>2. Head(todo) \notin {"Wait", "ONLINE", "INITIAL"}
    BY DEF HelperSteps
  <2>3. PICK i \in DOMAIN todo : todo[i] \in {"Wait", "ONLINE", "INITIAL"}
    BY <1>1, <1>3 DEF WillSettle
  <2>4. helper' = [helper EXCEPT ![h] =
                     IF Tail(todo) = <<>> THEN NoHelper ELSE [@ EXCEPT !.todo = Tail(todo)]]
    BY DEF HelperSteps
  <2> HIDE DEF todo
  <2>5. /\ Tail(todo) # <<>>
        /\ \E j \in DOMAIN Tail(todo) : Tail(todo)[j] \in {"Wait", "ONLINE", "INITIAL"}
    BY <2>1, <2>2, <2>3, DutyRemains
  <2>6. helper'[h].kind = own /\ helper'[h].todo = Tail(todo)
    BY <1>1, <1>3, <2>4, <2>5 DEF IInv, TypeOK
  <2> QED BY <2>5, <2>6 DEF Attended, WillSettle
<1> QED BY <1>2, <1>3

(* Ring starts the helper that looks after the call; it takes an idle one, *)
(* and only of the kind that rings is one needed.                          *)
LEMMA RingAttends ==
  ASSUME IInv, NEW status, NEW kind, NEW sound, Ring(status, kind, sound)
  PROVE  Attended(kind)' /\ m_callStatus' = status
<1>1. PICK h \in Helpers : helper' = [helper EXCEPT ![h] = [kind |-> kind, todo |-> <<"Wait">>]]
  BY DEF Ring, Idle
<1>2. helper'[h] = [kind |-> kind, todo |-> <<"Wait">>]
  BY <1>1 DEF IInv, TypeOK
<1>3. 1 \in DOMAIN helper'[h].todo /\ helper'[h].todo[1] = "Wait"
  BY <1>2
<1> QED BY <1>2, <1>3 DEF Attended, WillSettle, Ring

LEMMA RingingInductive ==
  ASSUME IInv, RingingHasHelper, [Next]_vars
  PROVE  RingingHasHelper'
<1> SUFFICES ASSUME NEW status \in {"DIALING", "ACCEPTING"}, m_callStatus' = status
             PROVE  Attended(IF status = "DIALING" THEN "dial" ELSE "accept")'
  BY DEF RingingHasHelper, Attended
<1> DEFINE own == IF status = "DIALING" THEN "dial" ELSE "accept"
<1>1. m_callStatus = status => Attended(own)
  BY DEF RingingHasHelper, Attended
<1>2. ASSUME NEW h \in Helpers, WaitEnds(h) PROVE Attended(own)'
  <2>1. m_callStatus = status
    BY <1>2 DEF WaitEnds
  <2> QED BY <1>1, <1>2, <2>1, WaitEndsKeeps
<1>3. ASSUME NEW h \in Helpers, HelperSteps(h) PROVE Attended(own)'
  <2>1. m_callStatus = status
    BY <1>3 DEF HelperSteps
  <2> QED BY <1>1, <1>3, <2>1, HelperStepsKeeps
<1>4. CASE OnBnClickedCall
  <2>1. Ring("DIALING", "dial", "dialing")
    BY <1>4 DEF OnBnClickedCall
  <2> QED BY <2>1, RingAttends
<1>5. CASE UNCHANGED <<m_callStatus, helper>>
  BY <1>1, <1>5 DEF Attended, WillSettle
<1>6. CASE HandleMessage
  <2>1. ASSUME NEW type \in (Notices \ {"UNSET"}) \cup {"UNKNOWN"}, HandleType(type)
        PROVE  Attended(own)'
    <3>1. CASE Ring("ACCEPTING", "accept", "incoming")
      BY <3>1, RingAttends
    <3> QED BY <1>5, <2>1, <3>1 DEF HandleType, Engaged, Closed, ui
  <2> QED BY <1>5, <1>6, <2>1 DEF HandleMessage
<1>7. CASE m_callStatus' = "INITIAL"
  BY <1>7
<1>8. ASSUME NEW b \in Clicks, Click(b) PROVE Attended(own)'
  BY <1>4, <1>5, <1>7, <1>8 DEF Click, OnBnClickedHangup, OnBnClickedSendmsg, ui
<1>9. ASSUME NEW k \in Keys, OnHandlePhone(k) PROVE Attended(own)'
  BY <1>4, <1>7, <1>9 DEF OnHandlePhone, OnBnClickedHangup
<1> QED
  BY <1>2, <1>3, <1>5, <1>6, <1>8, <1>9
  DEF Next, HelperThreads, UIThread, SetEventAdapter, BellEnds, Take, Post, vars, ui

(* A ringing dialog is looked after, whatever the user, the call box and   *)
(* the signalling thread do, and however many helper threads there are.    *)
THEOREM RingingIsLookedAfter == Spec => []RingingHasHelper
<1>1. Init => RingingHasHelper
  BY DEF Init, RingingHasHelper
<1>2. IInv /\ RingingHasHelper /\ [Next]_vars => RingingHasHelper'
  BY RingingInductive
<1> QED BY <1>1, <1>2, AlwaysIInv, PTL DEF Spec
=============================================================================

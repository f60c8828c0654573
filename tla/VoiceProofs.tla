------------------------------ MODULE VoiceProofs ------------------------------
(***************************************************************************)
(* Proofs about Voice, for any calls: a message finds its channel, only    *)
(* the call in focus is heard, and a sound thread at work has its media.   *)
(***************************************************************************)
EXTENDS Voice, TLAPS, SequenceTheorems

(* What the signalling thread waits for and where the worker is agree with *)
(* the call and with what there is of its channel.                         *)
Handshake ==
  /\ sent.msg \in {"create", "created"} => call[sent.call] = "none"
  /\ sent.msg = "created" => voice[sent.call] = "live" /\ media[sent.call] = "live"
  /\ sent.msg \in {"destroy", "destroyed"} => call[sent.call] = "removed"
  /\ worker # Idle => sent = [msg |-> "destroy", call |-> worker.call]
                      /\ media[worker.call] = "live"
  /\ worker.at = "clear" => voice[worker.call] = "live" /\ ~enabled[worker.call]
  /\ sent.msg = "destroy" /\ worker = Idle =>
       voice[sent.call] = "live" /\ media[sent.call] = "live"
  /\ \A c \in Calls : call[c] = "added" => voice[c] = "live" /\ media[c] = "live"
  /\ focus # None => call[focus] \in {"added", "removed"}

(* The channels that there are, and the messages on their way to them.     *)
Destroying(c) ==
  sent = [msg |-> "destroy", call |-> c] /\ (worker = Idle \/ worker.at = "clear")

Addressed ==
  /\ \A c \in Calls : voice[c] = "live" =>
       \/ call[c] = "added" \/ Destroying(c)
       \/ sent = [msg |-> "created", call |-> c]
  /\ \A c \in Calls : enabled[c] => voice[c] = "live"
  /\ \A i \in DOMAIN posted :
       posted[i] # Cleared =>
         call[posted[i].call] = "added" \/ Destroying(posted[i].call)

AtRest(c, k) == thread[c][k] \in {"none", "ended"}

(* The threads of a channel end one after the other before its media.      *)
Ended ==
  /\ \A c \in Calls : \A k \in Sounds :
       media[c] # "live" /\ ready[c] => AtRest(c, k)
  /\ worker.sound = "capture" => AtRest(worker.call, "play")
  /\ worker.at = "delete" =>
       \A k \in Sounds : ready[worker.call] => AtRest(worker.call, k)

IInv == TypeOK /\ Handshake /\ Addressed /\ Ended

-----------------------------------------------------------------------------
(* What the steps of the signalling thread, of the worker and of the sound *)
(* threads do to the types.                                                *)
LEMMA OnType ==
  ASSUME TypeOK, NEW c \in Calls, NEW wanted \in BOOLEAN, ChangeState(c, wanted)
  PROVE  on' \in [Calls -> [Sounds -> BOOLEAN]]
BY DEF TypeOK, ChangeState

LEMMA TurnsType ==
  ASSUME TypeOK, NEW c \in Calls, NEW k \in Sounds,
         NEW at \in {"none", "loop", "wait", "work", "send", "ended"}, Turns(c, k, at)
  PROVE  thread' \in
           [Calls -> [Sounds -> {"none", "loop", "wait", "work", "send", "ended"}]]
BY DEF TypeOK, Turns

(* Messages put at the end of the queue.                                   *)
LEMMA PostedType ==
  ASSUME NEW S, NEW q \in Seq(S), NEW s \in Seq(S)
  PROVE  /\ q \o s \in Seq(S) /\ Len(q \o s) = Len(q) + Len(s)
         /\ \A i \in 1 .. Len(q) : (q \o s)[i] = q[i]
         /\ \A i \in 1 .. Len(s) : (q \o s)[Len(q) + i] = s[i]
OBVIOUS

LEMMA FocusMessagesType ==
  ASSUME TypeOK, NEW c \in Calls
  PROVE  /\ FocusMessages(c) \in Seq(Posted)
         /\ \A i \in 1 .. Len(FocusMessages(c)) : call[FocusMessages(c)[i].call] = "added"
<1> DEFINE E(d, f) == << [call |-> d, id |-> IF f THEN "enable" ELSE "disable"] >>
<1>1. \A d \in Calls, f \in BOOLEAN : E(d, f) \in Seq(Posted)
  BY DEF Posted
<1>2. <<>> \in Seq(Posted)
  OBVIOUS
<1>3. \A d \in Calls, f \in BOOLEAN :
        /\ Enable(d, f) \in Seq(Posted)
        /\ \A i \in 1 .. Len(Enable(d, f)) : call[Enable(d, f)[i].call] = "added"
  <2> SUFFICES ASSUME NEW d \in Calls, NEW f \in BOOLEAN
               PROVE  /\ Enable(d, f) \in Seq(Posted)
                      /\ \A i \in 1 .. Len(Enable(d, f)) : call[Enable(d, f)[i].call] = "added"
    OBVIOUS
  <2>1. CASE call[d] = "added"
    <3>1. Enable(d, f) = E(d, f) /\ Len(E(d, f)) = 1 /\ E(d, f)[1].call = d
      BY <2>1 DEF Enable
    <3> QED BY <3>1, <1>1, <2>1
  <2>2. CASE call[d] # "added"
    <3>1. Enable(d, f) = <<>>
      BY <2>2 DEF Enable
    <3> QED BY <3>1, <1>2
  <2> QED BY <2>1, <2>2
<1> DEFINE s == IF focus = None THEN <<>> ELSE Enable(focus, FALSE)
           t == Enable(c, TRUE)
<1>4. /\ s \in Seq(Posted)
      /\ \A i \in 1 .. Len(s) : call[s[i].call] = "added"
  <2>1. CASE focus = None
    BY <2>1, <1>2
  <2>2. CASE focus # None
    <3>1. s = Enable(focus, FALSE) /\ focus \in Calls
      BY <2>2 DEF TypeOK
    <3> QED BY <3>1, <1>3
  <2> QED BY <2>1, <2>2
<1>5. /\ t \in Seq(Posted)
      /\ \A i \in 1 .. Len(t) : call[t[i].call] = "added"
  BY <1>3
<1>6. FocusMessages(c) = s \o t
  BY DEF FocusMessages
<1> HIDE DEF s, t
<1>7. /\ s \o t \in Seq(Posted) /\ Len(s \o t) = Len(s) + Len(t)
      /\ \A i \in 1 .. Len(s) : (s \o t)[i] = s[i]
      /\ \A i \in 1 .. Len(t) : (s \o t)[Len(s) + i] = t[i]
  BY <1>4, <1>5, PostedType
<1>8. \A i \in 1 .. Len(s \o t) : call[(s \o t)[i].call] = "added"
  <2> SUFFICES ASSUME NEW i \in 1 .. Len(s \o t)
               PROVE  call[(s \o t)[i].call] = "added"
    OBVIOUS
  <2>1. CASE i <= Len(s)
    BY <2>1, <1>4, <1>7
  <2>2. CASE i > Len(s)
    <3>1. i - Len(s) \in 1 .. Len(t) /\ i = Len(s) + (i - Len(s))
      BY <2>2, <1>4, <1>5, <1>7
    <3> QED BY <3>1, <1>5, <1>7
  <2> QED BY <2>1, <2>2, <1>4
<1> QED BY <1>6, <1>7, <1>8

(* The queue after each step that changes it.                              *)
LEMMA QueueType ==
  ASSUME TypeOK
  PROVE  /\ \A c \in Calls : SetFocus(c) \/ OnSessionState(c) =>
              posted' \in Seq(Posted \cup {Cleared})
         /\ SessionAdded \/ OnMessage \/ DestroySocket =>
              posted' \in Seq(Posted \cup {Cleared})
<1> DEFINE S == Posted \cup {Cleared}
<1>0. posted \in Seq(S)
  BY DEF TypeOK
<1>1. ASSUME NEW m \in Posted PROVE Append(posted, m) \in Seq(S)
  BY <1>0
<1>2. ASSUME NEW c \in Calls, SetFocus(c) PROVE posted' \in Seq(S)
  <2>1. FocusMessages(c) \in Seq(Posted)
    BY FocusMessagesType
  <2>2. FocusMessages(c) \in Seq(S)
    <3> DEFINE s == FocusMessages(c)
    <3>1. s \in Seq(Posted)
      BY <2>1
    <3> HIDE DEF s
    <3>2. s \in Seq(S)
      BY <3>1
    <3> QED BY <3>2 DEF s
  <2> QED BY <1>0, <1>2, <2>2, PostedType DEF SetFocus
<1>3. ASSUME NEW c \in Calls, OnSessionState(c) PROVE posted' \in Seq(S)
  <2>1. [call |-> c, id |-> "codec"] \in Posted
    BY DEF Posted
  <2> QED BY <1>1, <1>3, <2>1 DEF OnSessionState
<1>4. ASSUME SessionAdded PROVE posted' \in Seq(S)
  <2>1. focus = sent.call => [call |-> focus, id |-> "enable"] \in Posted
    BY <1>4 DEF SessionAdded, Posted, TypeOK, Free
  <2> QED BY <1>0, <1>1, <1>4, <2>1 DEF SessionAdded
<1>5. ASSUME OnMessage PROVE posted' \in Seq(S)
  BY <1>0, <1>5 DEF OnMessage
<1>6. ASSUME DestroySocket PROVE posted' \in Seq(S)
  <2>1. posted' = Clear(worker.call)
    BY <1>6 DEF DestroySocket
  <2>2. \A i \in 1 .. Len(posted) : posted[i] \in S
    BY <1>0
  <2>3. Clear(worker.call) \in [1 .. Len(posted) -> S] /\ Len(posted) \in Nat
    BY <1>0, <2>2 DEF Clear
  <2> QED BY <2>1, <2>3
<1> QED BY <1>2, <1>3, <1>4, <1>5, <1>6

LEMMA TypeSignalling ==
  ASSUME TypeOK, Signalling
  PROVE  TypeOK'
<1> USE DEF signalled, channels, sound, Free
<1>1. ASSUME NEW c \in Calls, AddSession(c) PROVE TypeOK'
  BY <1>1 DEF TypeOK, AddSession
<1>2. ASSUME NEW c \in Calls, SetFocus(c) PROVE TypeOK'
  BY <1>2, QueueType DEF TypeOK, SetFocus
<1>3. ASSUME NEW c \in Calls, OnSessionState(c) PROVE TypeOK'
  BY <1>3, QueueType DEF TypeOK, OnSessionState
<1>4. ASSUME NEW c \in Calls, RemoveSession(c) PROVE TypeOK'
  BY <1>4 DEF TypeOK, RemoveSession
<1>5. ASSUME NEW c \in Calls, DestroyCall(c) PROVE TypeOK'
  BY <1>5 DEF TypeOK, DestroyCall
<1>6. ASSUME SessionAdded PROVE TypeOK'
  BY <1>6, QueueType DEF TypeOK, SessionAdded
<1>7. ASSUME SessionRemoved PROVE TypeOK'
  BY <1>7 DEF TypeOK, SessionRemoved
<1> QED BY <1>1, <1>2, <1>3, <1>4, <1>5, <1>6, <1>7 DEF Signalling

LEMMA Flagged ==
  ASSUME NEW f \in [Calls -> [Sounds -> BOOLEAN]], NEW c, NEW k, NEW flag \in BOOLEAN
  PROVE  [f EXCEPT ![c][k] = flag] \in [Calls -> [Sounds -> BOOLEAN]]
OBVIOUS

(* Where the worker is once it destroys a channel.                         *)
LEMMA WorkerAt ==
  ASSUME TypeOK, worker.at \in {"clear", "exit", "event", "join", "delete"}
  PROVE  /\ worker # Idle /\ worker.call \in Calls
         /\ worker.at \in {"exit", "event", "join"} => worker.sound \in Sounds
         /\ worker.at \in {"clear", "delete"} => worker.sound = "none"
         /\ worker = [at |-> worker.at, call |-> worker.call, sound |-> worker.sound]
BY DEF TypeOK, Idle

LEMMA GoesType ==
  ASSUME TypeOK, worker.at \in {"clear", "exit", "event", "join", "delete"},
         NEW at, NEW k, Goes(at, k),
         \/ at = "delete" /\ k = "none"
         \/ at \in {"exit", "event", "join"} /\ k \in Sounds
  PROVE  /\ worker' = [at |-> at, call |-> worker.call, sound |-> k]
         /\ worker' \in [at : {"clear", "delete"}, call : Calls, sound : {"none"}] \cup
                       [at : {"exit", "event", "join"}, call : Calls, sound : Sounds]
<1>1. worker' = [at |-> at, call |-> worker.call, sound |-> k]
  <2>1. worker = [at |-> worker.at, call |-> worker.call, sound |-> worker.sound]
    BY WorkerAt
  <2> QED BY <2>1 DEF Goes
<1> QED BY <1>1, WorkerAt

LEMMA TypeWorker ==
  ASSUME TypeOK, Handshake, Worker \/ \E c \in Calls : OnSocketState(c)
  PROVE  TypeOK'
<1> USE DEF signalled, channels, sound, Idle, Free
<1>1. ASSUME CreateVoiceChannel_w PROVE TypeOK'
  <2>1. sent.call \in Calls
    BY <1>1 DEF TypeOK, CreateVoiceChannel_w
  <2>2. sent' \in [msg : {"create", "created", "destroy", "destroyed"}, call : Calls]
    BY <1>1, <2>1 DEF TypeOK, CreateVoiceChannel_w
  <2>3. voice' \in [Calls -> {"none", "live", "gone"}]
        /\ media' \in [Calls -> {"none", "live", "gone"}]
    BY <1>1, <2>1 DEF TypeOK, CreateVoiceChannel_w
  <2>4. PICK reached \in BOOLEAN, plays \in BOOLEAN :
          /\ ready' = [ready EXCEPT ![sent.call] = reached]
          /\ thread' = [thread EXCEPT ![sent.call] =
               [k \in Sounds |-> IF k = "capture" \/ plays THEN "loop" ELSE "none"]]
    BY <1>1 DEF CreateVoiceChannel_w
  <2>5. ready' \in [Calls -> BOOLEAN]
    BY <2>4 DEF TypeOK
  <2>6. thread' \in
          [Calls -> [Sounds -> {"none", "loop", "wait", "work", "send", "ended"}]]
    BY <2>4 DEF TypeOK
  <2> QED BY <1>1, <2>2, <2>3, <2>5, <2>6 DEF TypeOK, CreateVoiceChannel_w
<1>2. ASSUME OnMessage PROVE TypeOK'
  <2> DEFINE m == Head(posted)
  <2>1. m \in Posted \cup {Cleared}
    BY <1>2 DEF TypeOK, OnMessage
  <2>2. CASE m.id \in {"enable", "disable"} /\ enabled[m.call] # (m.id = "enable")
    <3>1. m.call \in Calls
      BY <2>1, <2>2 DEF Posted, Cleared
    <3>2. enabled' = [enabled EXCEPT ![m.call] = m.id = "enable"]
          /\ ChangeState(m.call, m.id = "enable" /\ writable[m.call])
      BY <1>2, <2>2 DEF OnMessage
    <3>3. enabled' \in [Calls -> BOOLEAN] /\ writable[m.call] \in BOOLEAN
      BY <3>1, <3>2 DEF TypeOK
    <3>4. on' \in [Calls -> [Sounds -> BOOLEAN]]
      BY <3>1, <3>2, <3>3, OnType
    <3> QED BY <1>2, <3>3, <3>4, QueueType DEF TypeOK, OnMessage
  <2>3. CASE ~(m.id \in {"enable", "disable"} /\ enabled[m.call] # (m.id = "enable"))
    <3>1. UNCHANGED <<enabled, on>>
      BY <1>2, <2>3 DEF OnMessage
    <3> QED BY <1>2, <3>1, QueueType DEF TypeOK, OnMessage
  <2> QED BY <2>2, <2>3
<1>3. ASSUME DestroyVoiceChannel_w PROVE TypeOK'
  <2>0. sent.call \in Calls
    BY <1>3 DEF TypeOK, DestroyVoiceChannel_w
  <2>1. sent.call \in Calls /\ ChangeState(sent.call, FALSE)
    BY <1>3, <2>0 DEF DestroyVoiceChannel_w
  <2>2. on' \in [Calls -> [Sounds -> BOOLEAN]]
    BY <2>1, OnType
  <2>3. /\ worker' = [at |-> "clear", call |-> sent.call, sound |-> "none"]
        /\ enabled' = [enabled EXCEPT ![sent.call] = FALSE]
        /\ UNCHANGED <<signalled, posted, voice, media, writable, ready, made, sound>>
    BY <1>3 DEF DestroyVoiceChannel_w
  <2> QED BY <2>1, <2>2, <2>3 DEF TypeOK
<1>4. ASSUME DestroySocket PROVE TypeOK'
  <2>1. worker.call \in Calls /\ worker.at = "clear"
    BY <1>4, WorkerAt DEF DestroySocket
  <2>2. Goes("exit", "play") \/ Goes("delete", "none")
    BY <1>4 DEF DestroySocket
  <2>3. worker' \in [at : {"clear", "delete"}, call : Calls, sound : {"none"}] \cup
                   [at : {"exit", "event", "join"}, call : Calls, sound : Sounds]
    BY <2>1, <2>2, GoesType DEF Sounds
  <2>4. /\ voice' = [voice EXCEPT ![worker.call] = "gone"]
        /\ writable' = [writable EXCEPT ![worker.call] = FALSE]
        /\ UNCHANGED <<call, focus, sent, media, enabled, on, ready, made, stop, event,
                       thread>>
    BY <1>4 DEF DestroySocket
  <2>5. voice' \in [Calls -> {"none", "live", "gone"}] /\ writable' \in [Calls -> BOOLEAN]
    BY <2>4 DEF TypeOK
  <2> QED BY <1>4, <2>3, <2>4, <2>5, QueueType DEF TypeOK
<1>5. ASSUME Exit \/ ExitSignals \/ Stop PROVE TypeOK'
  <2>1. worker.call \in Calls /\ worker.at \in {"exit", "event", "join"}
        /\ worker.sound \in Sounds
    BY <1>5, WorkerAt DEF Exit, ExitSignals, Stop
  <2>2. \/ Goes("event", worker.sound) \/ Goes("join", worker.sound)
        \/ Goes("exit", "capture") \/ Goes("delete", "none")
    BY <1>5 DEF Exit, ExitSignals, Stop
  <2>3. worker' \in [at : {"clear", "delete"}, call : Calls, sound : {"none"}] \cup
                   [at : {"exit", "event", "join"}, call : Calls, sound : Sounds]
    BY <2>1, <2>2, GoesType DEF Sounds
  <2>4. /\ UNCHANGED <<call, focus, sent, posted, voice, media, enabled, writable, on,
                       ready, made, thread>>
        /\ UNCHANGED stop \/ stop' = [stop EXCEPT ![worker.call][worker.sound] = TRUE]
        /\ \/ UNCHANGED event
           \/ \E flag \in BOOLEAN :
                event' = [event EXCEPT ![worker.call][worker.sound] = flag]
    BY <1>5 DEF Exit, ExitSignals, Stop
  <2>0. stop \in [Calls -> [Sounds -> BOOLEAN]] /\ event \in [Calls -> [Sounds -> BOOLEAN]]
    BY DEF TypeOK
  <2>5. stop' \in [Calls -> [Sounds -> BOOLEAN]]
    <3>1. [stop EXCEPT ![worker.call][worker.sound] = TRUE] \in [Calls -> [Sounds -> BOOLEAN]]
      BY <2>0, Flagged
    <3> QED BY <2>0, <2>4, <3>1
  <2>6. event' \in [Calls -> [Sounds -> BOOLEAN]]
    <3>1. \A flag \in BOOLEAN :
            [event EXCEPT ![worker.call][worker.sound] = flag] \in [Calls -> [Sounds -> BOOLEAN]]
      BY <2>0, Flagged
    <3> QED BY <2>0, <2>4, <3>1
  <2> QED BY <2>3, <2>4, <2>5, <2>6 DEF TypeOK
<1>8. ASSUME Delete PROVE TypeOK'
  <2>1. worker.call \in Calls /\ sent = [msg |-> "destroy", call |-> worker.call]
    BY <1>8 DEF TypeOK, Delete, Handshake
  <2> QED BY <1>8, <2>1 DEF TypeOK, Delete
<1>9. ASSUME NEW c \in Calls, OnSocketState(c) PROVE TypeOK'
  <2>1. ChangeState(c, ~writable[c] /\ enabled[c]) /\ enabled[c] \in BOOLEAN
    BY <1>9 DEF TypeOK, OnSocketState
  <2>2. on' \in [Calls -> [Sounds -> BOOLEAN]]
    BY <2>1, OnType
  <2> QED BY <1>9, <2>2 DEF TypeOK, OnSocketState
<1> QED BY <1>1, <1>2, <1>3, <1>4, <1>5, <1>8, <1>9 DEF Worker

(* A sound thread turns only while it runs, and only itself.               *)
LEMMA SoundTurns ==
  ASSUME TypeOK, NEW c \in Calls, NEW k \in Sounds, SoundThread(c, k) \/ Notified(c, k)
  PROVE  /\ TypeOK' /\ ~AtRest(c, k)
         /\ \A d \in Calls, l \in Sounds :
              <<d, l>> # <<c, k>> => thread'[d][l] = thread[d][l]
         /\ UNCHANGED <<signalled, posted, worker, channels>>
<1> USE DEF channels, signalled
<1>1. ASSUME NEW at \in {"loop", "wait", "work", "send", "ended"}, Turns(c, k, at)
      PROVE  /\ thread' \in
                  [Calls -> [Sounds -> {"none", "loop", "wait", "work", "send", "ended"}]]
             /\ \A d \in Calls, l \in Sounds :
                  <<d, l>> # <<c, k>> => thread'[d][l] = thread[d][l]
  BY <1>1 DEF TypeOK, Turns
<1>2. /\ ~AtRest(c, k)
      /\ UNCHANGED <<signalled, posted, worker, channels, stop>>
      /\ UNCHANGED event \/ event' = [event EXCEPT ![c][k] = FALSE]
      /\ \E at \in {"loop", "wait", "work", "send", "ended"} : Turns(c, k, at)
  BY DEF SoundThread, SvcLoop, Svc, Notified, Awake, Play, CompressFrame, SendPacket,
         AtRest
<1>3. event' \in [Calls -> [Sounds -> BOOLEAN]]
  <2>1. event \in [Calls -> [Sounds -> BOOLEAN]]
    BY DEF TypeOK
  <2>2. [event EXCEPT ![c][k] = FALSE] \in [Calls -> [Sounds -> BOOLEAN]]
    BY <2>1, Flagged
  <2> QED BY <1>2, <2>1, <2>2
<1> QED BY <1>1, <1>2, <1>3 DEF TypeOK

-----------------------------------------------------------------------------
(* The steps keep the handshake and the addressing.                        *)
LEMMA AddressedQueue ==
  ASSUME TypeOK, NEW s \in Seq(Posted), posted' = posted \o s,
         \A i \in 1 .. Len(s) : call[s[i].call] = "added",
         Addressed, UNCHANGED <<call, sent, worker, voice, enabled>>
  PROVE  Addressed'
<1>1. \A i \in DOMAIN posted' :
        posted'[i] # Cleared =>
          call[posted'[i].call] = "added" \/ Destroying(posted'[i].call)
  <2> SUFFICES ASSUME NEW i \in DOMAIN posted', posted'[i] # Cleared
               PROVE  call[posted'[i].call] = "added" \/ Destroying(posted'[i].call)
    OBVIOUS
  <2> DEFINE S == Posted \cup {Cleared}
  <2>0. s \in Seq(S)
    OBVIOUS
  <2>1. /\ posted \in Seq(S) /\ Len(posted) \in Nat /\ Len(s) \in Nat
        /\ posted' \in Seq(S) /\ Len(posted') = Len(posted) + Len(s)
        /\ \A j \in 1 .. Len(posted) : posted'[j] = posted[j]
        /\ \A j \in 1 .. Len(s) : posted'[Len(posted) + j] = s[j]
    BY <2>0, PostedType DEF TypeOK
  <2> HIDE DEF S
  <2>2. i \in 1 .. Len(posted) + Len(s)
    BY <2>1
  <2>3. CASE i <= Len(posted)
    <3>1. i \in DOMAIN posted /\ posted'[i] = posted[i]
      BY <2>1, <2>2, <2>3
    <3> QED BY <3>1 DEF Addressed
  <2>4. CASE i > Len(posted)
    <3>1. i - Len(posted) \in 1 .. Len(s) /\ i = Len(posted) + (i - Len(posted))
      BY <2>1, <2>2, <2>4
    <3> QED BY <2>1, <3>1
  <2> QED BY <2>1, <2>2, <2>3, <2>4
<1> QED BY <1>1 DEF Addressed, Destroying

LEMMA SignallingKeeps ==
  ASSUME TypeOK, Handshake, Addressed, Signalling
  PROVE  Handshake' /\ Addressed'
<1> USE DEF signalled, channels, sound, Free, Idle
<1>1. ASSUME NEW c \in Calls, AddSession(c) PROVE Handshake' /\ Addressed'
  BY <1>1 DEF TypeOK, Handshake, Addressed, Destroying, AddSession
<1>2. ASSUME NEW c \in Calls, SetFocus(c) PROVE Handshake' /\ Addressed'
  <2>1. Handshake'
    BY <1>2 DEF TypeOK, Handshake, SetFocus
  <2>2. Addressed'
    BY <1>2, FocusMessagesType, AddressedQueue DEF SetFocus
  <2> QED BY <2>1, <2>2
<1>3. ASSUME NEW c \in Calls, OnSessionState(c) PROVE Handshake' /\ Addressed'
  <2>1. Handshake'
    BY <1>3 DEF TypeOK, Handshake, OnSessionState
  <2> DEFINE s == << [call |-> c, id |-> "codec"] >>
  <2>2. s \in Seq(Posted) /\ Len(s) = 1 /\ s[1].call = c
    BY DEF Posted
  <2>3. posted' = posted \o s
    BY <1>3 DEF OnSessionState, TypeOK
  <2>4. \A i \in 1 .. Len(s) : call[s[i].call] = "added"
    BY <1>3, <2>2 DEF OnSessionState
  <2> HIDE DEF s
  <2>5. Addressed'
    BY <1>3, <2>2, <2>3, <2>4, AddressedQueue DEF OnSessionState
  <2> QED BY <2>1, <2>5
<1>4. ASSUME NEW c \in Calls, RemoveSession(c) PROVE Handshake' /\ Addressed'
  <2>1. Handshake'
    BY <1>4 DEF TypeOK, Handshake, RemoveSession
  <2>2. worker = Idle
    BY <1>4 DEF Handshake, RemoveSession
  <2>3. Destroying(c)' /\ \A d \in Calls : call[d] = "added" => call'[d] = "added" \/ d = c
    BY <1>4, <2>2 DEF RemoveSession, Destroying, TypeOK
  <2>4. \A i \in DOMAIN posted : posted[i] # Cleared => posted[i].call \in Calls
    BY DEF TypeOK, Posted
  <2>5. \A d \in Calls : ~Destroying(d)
    BY <1>4 DEF RemoveSession, Destroying
  <2>6. UNCHANGED <<posted, voice, enabled>> /\ sent = Free
    BY <1>4 DEF RemoveSession
  <2>7. Addressed'
    BY <2>3, <2>4, <2>5, <2>6 DEF Addressed
  <2> QED BY <2>1, <2>7
<1>5. ASSUME NEW c \in Calls, DestroyCall(c) PROVE Handshake' /\ Addressed'
  <2>1. Handshake'
    BY <1>5 DEF TypeOK, Handshake, DestroyCall
  <2>2. \A d \in Calls : call[d] = "added" => call'[d] = "added"
    BY <1>5 DEF DestroyCall, TypeOK
  <2>3. \A i \in DOMAIN posted : posted[i] # Cleared => posted[i].call \in Calls
    BY DEF TypeOK, Posted
  <2>4. UNCHANGED <<posted, voice, enabled, sent, worker>>
    BY <1>5 DEF DestroyCall
  <2>5. Addressed'
    BY <2>2, <2>3, <2>4 DEF Addressed, Destroying
  <2> QED BY <2>1, <2>5
<1>6. ASSUME SessionAdded PROVE Handshake' /\ Addressed'
  <2>1. sent.call \in Calls /\ call[sent.call] = "none"
    BY <1>6 DEF TypeOK, SessionAdded, Handshake
  <2>2. focus # sent.call
    BY <2>1, VoiceConstants DEF Handshake
  <2>3. Handshake'
    BY <1>6, <2>1 DEF TypeOK, Handshake, SessionAdded
  <2>4. \A d \in Calls : call[d] = "added" \/ d = sent.call => call'[d] = "added"
    BY <1>6 DEF SessionAdded, TypeOK
  <2>5. \A i \in DOMAIN posted : posted[i] # Cleared => posted[i].call \in Calls
    BY DEF TypeOK, Posted
  <2>6. UNCHANGED <<posted, voice, enabled, worker>> /\ \A d \in Calls : ~Destroying(d)
    BY <1>6, <2>2 DEF SessionAdded, Destroying
  <2>7. Addressed'
    BY <2>4, <2>5, <2>6 DEF Addressed
  <2> QED BY <2>3, <2>7
<1>7. ASSUME SessionRemoved PROVE Handshake' /\ Addressed'
  <2>1. Handshake'
    BY <1>7 DEF TypeOK, Handshake, SessionRemoved
  <2>2. Addressed'
    BY <1>7 DEF Addressed, Destroying, SessionRemoved
  <2> QED BY <2>1, <2>2
<1> QED BY <1>1, <1>2, <1>3, <1>4, <1>5, <1>6, <1>7 DEF Signalling

LEMMA WorkerKeeps ==
  ASSUME TypeOK, Handshake, Addressed, Worker \/ \E c \in Calls : OnSocketState(c)
  PROVE  Handshake' /\ Addressed'
<1> USE DEF signalled, channels, sound, Free, Idle
<1>0. \A i \in DOMAIN posted : posted[i] # Cleared => posted[i].call \in Calls
  BY DEF TypeOK, Posted
<1>1. ASSUME CreateVoiceChannel_w PROVE Handshake' /\ Addressed'
  <2>1. sent.call \in Calls /\ sent = [msg |-> "create", call |-> sent.call]
    BY <1>1 DEF TypeOK, CreateVoiceChannel_w
  <2>2. /\ sent' = [msg |-> "created", call |-> sent.call]
        /\ voice' = [voice EXCEPT ![sent.call] = "live"]
        /\ media' = [media EXCEPT ![sent.call] = "live"]
        /\ worker = Idle
        /\ UNCHANGED <<call, focus, posted, worker, enabled>>
    BY <1>1, <2>1 DEF CreateVoiceChannel_w
  <2>3. Handshake'
    BY <2>1, <2>2 DEF TypeOK, Handshake
  <2>4. Addressed'
    BY <2>1, <2>2, <1>0 DEF TypeOK, Addressed, Destroying
  <2> QED BY <2>3, <2>4
<1>2. ASSUME OnMessage PROVE Handshake' /\ Addressed'
  <2> DEFINE m == Head(posted)
  <2>1. /\ m \in Posted \cup {Cleared} /\ m = posted[1] /\ 1 \in DOMAIN posted
        /\ \A i \in DOMAIN posted' : i + 1 \in DOMAIN posted /\ posted'[i] = posted[i + 1]
    BY <1>2 DEF TypeOK, OnMessage
  <2>2. /\ worker = Idle
        /\ UNCHANGED <<call, focus, sent, worker, voice, media, writable, ready>>
    BY <1>2 DEF OnMessage
  <2>3. Handshake'
    BY <2>2 DEF Handshake
  <2>4. \A c \in Calls : enabled'[c] => enabled[c] \/ (m.call = c /\ m # Cleared)
    BY <1>2 DEF OnMessage, TypeOK, Cleared
  <2>5. m # Cleared => voice[m.call] = "live"
    BY <2>1, <2>2, <1>0 DEF Addressed, Destroying, Handshake
  <2>6. Addressed'
    BY <2>1, <2>2, <2>4, <2>5, <1>0 DEF Addressed, Destroying
  <2> QED BY <2>3, <2>6
<1>3. ASSUME DestroyVoiceChannel_w PROVE Handshake' /\ Addressed'
  <2>1. sent.call \in Calls /\ sent = [msg |-> "destroy", call |-> sent.call]
    BY <1>3 DEF TypeOK, DestroyVoiceChannel_w
  <2>2. /\ worker = Idle
        /\ worker' = [at |-> "clear", call |-> sent.call, sound |-> "none"]
        /\ enabled' = [enabled EXCEPT ![sent.call] = FALSE]
        /\ UNCHANGED <<call, focus, sent, posted, voice, media>>
    BY <1>3 DEF DestroyVoiceChannel_w
  <2>3. Handshake'
    BY <2>1, <2>2 DEF TypeOK, Handshake
  <2>4. Addressed'
    BY <2>1, <2>2, <1>0 DEF TypeOK, Addressed, Destroying
  <2> QED BY <2>3, <2>4
<1>4. ASSUME DestroySocket PROVE Handshake' /\ Addressed'
  <2> DEFINE c == worker.call
  <2>1. c \in Calls /\ worker.at = "clear" /\ sent = [msg |-> "destroy", call |-> c]
    BY <1>4, WorkerAt DEF DestroySocket, Handshake
  <2>2. Goes("exit", "play") \/ Goes("delete", "none")
    BY <1>4 DEF DestroySocket
  <2>3. worker'.call = c /\ worker'.at \in {"exit", "delete"}
    BY <2>1, <2>2, GoesType DEF Sounds
  <2>4. /\ posted' = Clear(c)
        /\ voice' = [voice EXCEPT ![c] = "gone"]
        /\ UNCHANGED <<call, focus, sent, media, enabled>>
    BY <1>4 DEF DestroySocket
  <2>5. call[c] = "removed" /\ ~enabled[c] /\ media[c] = "live"
    BY <2>1 DEF Handshake
  <2>6. Handshake'
    BY <2>1, <2>3, <2>4, <2>5 DEF TypeOK, Handshake
  <2>7. \A i \in DOMAIN posted' :
          /\ i \in DOMAIN posted
          /\ posted'[i] # Cleared => posted'[i] = posted[i] /\ posted[i].call # c
    BY <2>4 DEF Clear
  <2>8. \A d \in Calls : Destroying(d) => d = c
    BY <2>1 DEF Destroying
  <2>9. \A d \in Calls : d # c => voice'[d] = voice[d]
    BY <2>4 DEF TypeOK
  <2>10. voice'[c] # "live"
    BY <2>1, <2>4 DEF TypeOK
  <2>11. Addressed'
    BY <2>1, <2>4, <2>5, <2>7, <2>8, <2>9, <2>10, <1>0 DEF Addressed
  <2> QED BY <2>6, <2>11
<1>5. ASSUME Exit \/ ExitSignals \/ Stop PROVE Handshake' /\ Addressed'
  <2>1. worker.call \in Calls /\ worker.at \in {"exit", "event", "join"}
        /\ worker.sound \in Sounds /\ worker # Idle
    BY <1>5, WorkerAt DEF Exit, ExitSignals, Stop
  <2>2. \/ Goes("event", worker.sound) \/ Goes("join", worker.sound)
        \/ Goes("exit", "capture") \/ Goes("delete", "none")
    BY <1>5 DEF Exit, ExitSignals, Stop
  <2>3. worker'.call = worker.call /\ worker'.at \in {"event", "join", "exit", "delete"}
    BY <2>1, <2>2, GoesType DEF Sounds
  <2>4. UNCHANGED <<call, focus, sent, posted, voice, media, enabled>>
    BY <1>5 DEF Exit, ExitSignals, Stop
  <2>5. Handshake'
    BY <2>1, <2>3, <2>4 DEF Handshake
  <2>6. \A d \in Calls : ~Destroying(d)
    BY <2>1 DEF Destroying
  <2>7. Addressed'
    BY <2>4, <2>6, <1>0 DEF Addressed
  <2> QED BY <2>5, <2>7
<1>6. ASSUME Delete PROVE Handshake' /\ Addressed'
  <2>1. /\ worker.call \in Calls /\ worker.at = "delete"
        /\ sent = [msg |-> "destroy", call |-> worker.call]
    BY <1>6, WorkerAt DEF Delete, Handshake
  <2>2. /\ media' = [media EXCEPT ![worker.call] = "gone"]
        /\ sent' = [msg |-> "destroyed", call |-> worker.call]
        /\ worker' = Idle
        /\ UNCHANGED <<call, focus, posted, voice, enabled>>
    BY <1>6, <2>1 DEF Delete
  <2>3. Handshake'
    BY <2>1, <2>2 DEF TypeOK, Handshake
  <2>4. \A d \in Calls : ~Destroying(d)
    BY <2>1 DEF Destroying
  <2>5. Addressed'
    BY <2>1, <2>2, <2>4, <1>0 DEF Addressed
  <2> QED BY <2>3, <2>5
<1>7. ASSUME NEW c \in Calls, OnSocketState(c) PROVE Handshake' /\ Addressed'
  <2>1. UNCHANGED <<call, focus, sent, posted, worker, voice, media, enabled>>
    BY <1>7 DEF OnSocketState
  <2> QED BY <2>1 DEF Handshake, Addressed, Destroying
<1> QED BY <1>1, <1>2, <1>3, <1>4, <1>5, <1>6, <1>7 DEF Worker

(* The sound threads end before their media channel does.                  *)
LEMMA EndedKept ==
  ASSUME TypeOK, Handshake, Ended, [Next]_vars
  PROVE  Ended'
<1> USE DEF signalled, channels, sound, AtRest
<1>1. ASSUME UNCHANGED <<media, ready, worker, thread>> PROVE Ended'
  BY <1>1 DEF Ended
<1>2. ASSUME UNCHANGED vars \/ Signalling PROVE Ended'
  BY <1>1, <1>2 DEF vars, Signalling, AddSession, SetFocus, OnSessionState, RemoveSession,
     DestroyCall, SessionAdded, SessionRemoved
<1>3. ASSUME OnMessage \/ \E c \in Calls : OnSocketState(c) PROVE Ended'
  BY <1>1, <1>3 DEF OnMessage, OnSocketState
<1>4. ASSUME CreateVoiceChannel_w PROVE Ended'
  <2>1. sent.call \in Calls /\ worker = Idle
    BY <1>4 DEF TypeOK, CreateVoiceChannel_w, Free
  <2>2. /\ worker' = Idle
        /\ media' = [media EXCEPT ![sent.call] = "live"]
        /\ \E r \in BOOLEAN : ready' = [ready EXCEPT ![sent.call] = r]
        /\ \E t : thread' = [thread EXCEPT ![sent.call] = t]
    BY <1>4 DEF CreateVoiceChannel_w
  <2>3. media'[sent.call] = "live"
    BY <2>1, <2>2 DEF TypeOK
  <2>4. \A c \in Calls : c # sent.call =>
          media'[c] = media[c] /\ ready'[c] = ready[c] /\ thread'[c] = thread[c]
    BY <2>2 DEF TypeOK
  <2> QED BY <2>2, <2>3, <2>4 DEF Ended, Idle
<1>5. ASSUME DestroyVoiceChannel_w PROVE Ended'
  <2>1. worker'.at = "clear" /\ worker'.sound = "none" /\ UNCHANGED <<media, ready, thread>>
    BY <1>5 DEF DestroyVoiceChannel_w
  <2> QED BY <2>1 DEF Ended
<1>6. ASSUME DestroySocket PROVE Ended'
  <2>1. worker.at = "clear" /\ UNCHANGED <<media, ready, thread>>
        /\ IF ready[worker.call] THEN Goes("exit", "play") ELSE Goes("delete", "none")
    BY <1>6 DEF DestroySocket
  <2>2. CASE ready[worker.call]
    <3>1. worker'.at = "exit" /\ worker'.sound = "play"
      BY <2>1, <2>2, GoesType DEF Sounds
    <3> QED BY <2>1, <3>1 DEF Ended
  <2>3. CASE ~ready[worker.call]
    <3>1. worker'.at = "delete" /\ worker'.sound = "none" /\ worker'.call = worker.call
      BY <2>1, <2>3, GoesType
    <3> QED BY <2>1, <2>3, <3>1 DEF Ended
  <2> QED BY <2>2, <2>3
<1>7. ASSUME Exit \/ ExitSignals PROVE Ended'
  <2>1. /\ worker.at \in {"exit", "event"} /\ UNCHANGED <<media, ready, thread>>
        /\ Goes("event", worker.sound) \/ Goes("join", worker.sound)
    BY <1>7 DEF Exit, ExitSignals
  <2>2. /\ worker'.at \in {"event", "join"} /\ worker'.sound = worker.sound
        /\ worker'.call = worker.call
    BY <2>1, GoesType, WorkerAt
  <2> QED BY <2>1, <2>2 DEF Ended
<1>8. ASSUME Stop PROVE Ended'
  <2>1. /\ worker.at = "join" /\ UNCHANGED <<media, ready, thread>>
        /\ AtRest(worker.call, worker.sound)
        /\ IF worker.sound = "play" THEN Goes("exit", "capture") ELSE Goes("delete", "none")
    BY <1>8 DEF Stop
  <2>2. worker.sound \in Sounds
    BY <2>1, WorkerAt
  <2>3. CASE worker.sound = "play"
    <3>1. worker'.at = "exit" /\ worker'.call = worker.call
      BY <2>1, <2>3, GoesType DEF Sounds
    <3> QED BY <2>1, <2>3, <3>1 DEF Ended
  <2>4. CASE worker.sound = "capture"
    <3>1. worker'.at = "delete" /\ worker'.sound = "none" /\ worker'.call = worker.call
      BY <2>1, <2>4, GoesType
    <3> QED BY <2>1, <2>4, <3>1 DEF Ended, Sounds
  <2> QED BY <2>2, <2>3, <2>4 DEF Sounds
<1>9. ASSUME Delete PROVE Ended'
  <2>1. /\ worker.at = "delete" /\ worker' = Idle
        /\ media' = [media EXCEPT ![worker.call] = "gone"] /\ UNCHANGED <<ready, thread>>
    BY <1>9 DEF Delete
  <2>2. \A c \in Calls : media'[c] = media[c] \/ c = worker.call
    BY <2>1 DEF TypeOK
  <2> QED BY <2>1, <2>2 DEF Ended, Idle
<1>10. ASSUME NEW c \in Calls, NEW k \in Sounds, SoundThread(c, k) \/ Notified(c, k)
       PROVE  Ended'
  <2>1. /\ ~AtRest(c, k)
        /\ \A d \in Calls, l \in Sounds :
             <<d, l>> # <<c, k>> => thread'[d][l] = thread[d][l]
        /\ UNCHANGED <<media, ready, worker>>
    BY <1>10, SoundTurns
  <2>2. \A d \in Calls, l \in Sounds : AtRest(d, l) => AtRest(d, l)'
    BY <2>1
  <2>3. worker.sound = "capture" => worker.call \in Calls
    BY DEF TypeOK, Idle
  <2>4. worker.at = "delete" => worker.call \in Calls
    BY WorkerAt
  <2> QED BY <2>1, <2>2, <2>3, <2>4 DEF Ended, Sounds
<1> QED BY <1>2, <1>3, <1>4, <1>5, <1>6, <1>7, <1>8, <1>9, <1>10 DEF Next, Worker

THEOREM InductiveInvariant == Spec => []IInv
<1>1. Init => IInv
  <2> SUFFICES ASSUME Init PROVE IInv
    OBVIOUS
  <2>1. TypeOK
    BY DEF Init, TypeOK, Idle, Free
  <2>2. Handshake /\ Addressed /\ Ended
    BY DEF Init, Handshake, Addressed, Ended, AtRest, Idle, Free
  <2> QED BY <2>1, <2>2 DEF IInv
<1>2. IInv /\ [Next]_vars => IInv'
  <2> SUFFICES ASSUME IInv, [Next]_vars PROVE IInv'
    OBVIOUS
  <2> USE DEF IInv
  <2>1. Ended'
    BY EndedKept
  <2>2. CASE Signalling
    BY <2>1, <2>2, TypeSignalling, SignallingKeeps
  <2>3. CASE Worker \/ \E c \in Calls : OnSocketState(c)
    BY <2>1, <2>3, TypeWorker, WorkerKeeps
  <2>4. ASSUME NEW c \in Calls, NEW k \in Sounds, SoundThread(c, k) \/ Notified(c, k)
        PROVE  IInv'
    <3>1. TypeOK' /\ UNCHANGED <<signalled, posted, worker, channels>>
      BY <2>4, SoundTurns
    <3>2. Handshake' /\ Addressed'
      BY <3>1 DEF Handshake, Addressed, Destroying, signalled, channels
    <3> QED BY <2>1, <3>1, <3>2
  <2>5. CASE UNCHANGED vars
    <3>1. TypeOK' /\ Handshake' /\ Addressed'
      BY <2>5 DEF vars, signalled, channels, sound, TypeOK, Handshake, Addressed, Destroying
    <3> QED BY <2>1, <3>1
  <2> QED BY <2>2, <2>3, <2>4, <2>5 DEF Next
<1> QED BY <1>1, <1>2, PTL DEF Spec

(* Every variable has its type. *)
THEOREM TypeCorrect == Spec => []TypeOK
<1>1. IInv => TypeOK
  BY DEF IInv
<1> QED BY <1>1, InductiveInvariant, PTL

(* What is posted to a voice channel finds it alive, for any calls.        *)
THEOREM MessagesFind == Spec => []MessagesFindTheirChannel
<1>1. IInv => MessagesFindTheirChannel
  <2> SUFFICES ASSUME IInv, NEW i \in DOMAIN posted, posted[i] # Cleared
               PROVE  voice[posted[i].call] = "live"
    BY DEF MessagesFindTheirChannel
  <2>1. posted[i].call \in Calls
    BY DEF IInv, TypeOK, Posted
  <2> QED BY <2>1 DEF IInv, Addressed, Handshake, Destroying, Idle
<1> QED BY <1>1, InductiveInvariant, PTL

(* A sound thread at work has its media channel, for any calls.            *)
THEOREM ThreadsEndFirst == Spec => []SoundThreadsEndFirst
<1>1. IInv => SoundThreadsEndFirst
  BY DEF IInv, Ended, SoundThreadsEndFirst, AtRest
<1> QED BY <1>1, InductiveInvariant, PTL

-----------------------------------------------------------------------------
(* Which channels are enabled after the first n messages of a queue.       *)
Order(q, i, c) == q[i].call = c /\ q[i].id # "codec"

After(q, en, n, c) ==
  \/ en[c] /\ \A j \in 1 .. n : ~Order(q, j, c)
  \/ \E i \in 1 .. n :
       Order(q, i, c) /\ q[i].id = "enable" /\ \A j \in 1 .. n : Order(q, j, c) => j <= i

OneAtATime ==
  \A n \in 0 .. Len(posted) : \A c, d \in Calls :
    After(posted, enabled, n, c) /\ After(posted, enabled, n, d) => c = d

Will(c) == After(posted, enabled, Len(posted), c)

Focused ==
  /\ OneAtATime
  /\ \A c \in Calls : call[c] = "added" /\ focus = c => Will(c)
  /\ \A c \in Calls : Will(c) => focus = c
  /\ \A c \in Calls : \A k \in Sounds : on[c][k] => enabled[c] /\ writable[c]

LEMMA WillIs ==
  ASSUME TypeOK, NEW c \in Calls
  PROVE  WillBeEnabled(c) <=> Will(c)
<1>1. DOMAIN posted = 1 .. Len(posted)
  BY DEF TypeOK
<1> QED BY <1>1 DEF WillBeEnabled, Will, After, Orders, Order

(* A queue that grows by one message.                                      *)
LEMMA Grown ==
  ASSUME NEW q, NEW z, NEW en, NEW n \in Nat, NEW l, l = n + 1, NEW c,
         \A i \in 1 .. n : z[i] = q[i]
  PROVE  /\ \A m \in 0 .. n : After(z, en, m, c) <=> After(q, en, m, c)
         /\ Order(z, l, c) => (After(z, en, l, c) <=> z[l].id = "enable")
         /\ ~Order(z, l, c) => (After(z, en, l, c) <=> After(q, en, n, c))
<1>1. \A i \in 1 .. n : Order(z, i, c) <=> Order(q, i, c)
  BY DEF Order
<1>2. \A m \in 0 .. n : After(z, en, m, c) <=> After(q, en, m, c)
  BY <1>1 DEF After
<1>3. /\ \A i \in 1 .. l : i \in 1 .. n \/ i = l
      /\ \A i \in 1 .. n : i \in 1 .. l /\ i <= l /\ ~(l <= i)
      /\ l \in 1 .. l /\ l <= l
  OBVIOUS
<1>4. ASSUME Order(z, l, c)
      PROVE  After(z, en, l, c) <=> z[l].id = "enable"
  BY <1>3, <1>4 DEF After
<1>5. ASSUME ~Order(z, l, c)
      PROVE  After(z, en, l, c) <=> After(q, en, n, c)
  BY <1>1, <1>3, <1>5 DEF After
<1> QED BY <1>2, <1>4, <1>5

(* The first message is handled: en becomes what it is after that.         *)
LEMMA Handled ==
  ASSUME NEW q, NEW z, NEW en, NEW ez, NEW n \in Nat, NEW c,
         \A i \in 1 .. n : z[i] = q[i + 1],
         ez[c] <=> IF Order(q, 1, c) THEN q[1].id = "enable" ELSE en[c]
  PROVE  After(z, ez, n, c) <=> After(q, en, n + 1, c)
<1>1. \A i \in 1 .. n : Order(z, i, c) <=> Order(q, i + 1, c)
  BY DEF Order
<1>2. /\ \A i \in 1 .. n + 1 : i = 1 \/ (i - 1 \in 1 .. n /\ i = (i - 1) + 1)
      /\ \A i \in 1 .. n : i + 1 \in 1 .. n + 1 /\ ~(i + 1 <= 1)
      /\ \A i, j \in 1 .. n : i <= j <=> i + 1 <= j + 1
      /\ 1 \in 1 .. n + 1 /\ \A i \in 1 .. n + 1 : 1 <= i
  OBVIOUS
<1>3. ASSUME \A i \in 1 .. n : ~Order(z, i, c)
      PROVE  After(z, ez, n, c) <=> After(q, en, n + 1, c)
  <2>1. \A i \in 1 .. n + 1 : Order(q, i, c) => i = 1
    BY <1>1, <1>2, <1>3
  <2>2. After(z, ez, n, c) <=> ez[c]
    BY <1>3 DEF After
  <2>3. CASE Order(q, 1, c)
    <3>1. After(q, en, n + 1, c) <=> q[1].id = "enable"
      BY <1>2, <2>1, <2>3 DEF After
    <3> QED BY <2>2, <2>3, <3>1
  <2>4. CASE ~Order(q, 1, c)
    <3>1. \A i \in 1 .. n + 1 : ~Order(q, i, c)
      BY <2>1, <2>4
    <3>2. After(q, en, n + 1, c) <=> en[c]
      BY <3>1 DEF After
    <3> QED BY <2>2, <2>4, <3>2
  <2> QED BY <2>3, <2>4
<1>4. ASSUME NEW l \in 1 .. n, Order(z, l, c)
      PROVE  After(z, ez, n, c) <=> After(q, en, n + 1, c)
  <2>1. Order(q, l + 1, c) /\ l + 1 \in 1 .. n + 1
    BY <1>1, <1>2, <1>4
  <2>2. ASSUME NEW i \in 1 .. n, Order(z, i, c), z[i].id = "enable",
               \A j \in 1 .. n : Order(z, j, c) => j <= i
        PROVE  After(q, en, n + 1, c)
    <3>1. i + 1 \in 1 .. n + 1 /\ Order(q, i + 1, c) /\ q[i + 1].id = "enable"
      BY <1>1, <1>2, <2>2
    <3>2. \A j \in 1 .. n + 1 : Order(q, j, c) => j <= i + 1
      BY <1>1, <1>2, <2>2, <3>1
    <3> QED BY <3>1, <3>2 DEF After
  <2>3. ASSUME NEW i \in 1 .. n + 1, Order(q, i, c), q[i].id = "enable",
               \A j \in 1 .. n + 1 : Order(q, j, c) => j <= i
        PROVE  After(z, ez, n, c)
    <3>1. i # 1 /\ i - 1 \in 1 .. n /\ i = (i - 1) + 1
      BY <1>2, <1>4, <2>1, <2>3
    <3>2. Order(z, i - 1, c) /\ z[i - 1].id = "enable"
      BY <1>1, <2>3, <3>1
    <3>3. \A j \in 1 .. n : Order(z, j, c) => j <= i - 1
      BY <1>1, <1>2, <2>3, <3>1
    <3> QED BY <3>1, <3>2, <3>3 DEF After
  <2> QED BY <1>4, <2>1, <2>2, <2>3 DEF After
<1> QED BY <1>3, <1>4

(* A channel that is enabled, or will be, is alive.                        *)
LEMMA WillLives ==
  ASSUME IInv, NEW c \in Calls, Will(c)
  PROVE  voice[c] = "live" /\ (sent = Free => call[c] = "added")
<1>1. enabled[c] \/ \E i \in DOMAIN posted : Order(posted, i, c)
  BY DEF Will, After, IInv, TypeOK
<1>2. \A i \in DOMAIN posted : Order(posted, i, c) => posted[i] # Cleared
  BY VoiceConstants DEF Order, Cleared
<1>3. voice[c] = "live"
  BY <1>1, <1>2 DEF IInv, Addressed, Handshake, Destroying, Order, Idle
<1>4. sent = Free => call[c] = "added"
  <2>1. sent = Free => sent.msg \notin {"created", "destroy"}
    BY DEF Free
  <2>2. \/ call[c] = "added" \/ sent = [msg |-> "destroy", call |-> c]
        \/ sent = [msg |-> "created", call |-> c]
    BY <1>3 DEF IInv, Addressed, Destroying
  <2> QED BY <2>1, <2>2
<1> QED BY <1>3, <1>4

(* The messages with which the focus goes to c.                            *)
LEMMA FocusMessagesAre ==
  ASSUME TypeOK, NEW c \in Calls, call[c] = "added", focus # c
  PROVE  LET F == FocusMessages(c)
             loses == focus # None /\ call[focus] = "added"
         IN  /\ F \in Seq(Posted) /\ Len(F) = IF loses THEN 2 ELSE 1
             /\ loses => F[1].call = focus /\ F[1].id = "disable"
             /\ F[Len(F)].call = c /\ F[Len(F)].id = "enable"
<1> DEFINE x == << [call |-> focus, id |-> "disable"] >>
           y == << [call |-> c, id |-> "enable"] >>
           e == <<>>
<1>1. /\ y \in Seq(Posted) /\ Len(y) = 1 /\ y[1].call = c /\ y[1].id = "enable"
      /\ e \in Seq(Posted) /\ Len(e) = 0
  BY DEF Posted
<1>2. Enable(c, TRUE) = y
  BY DEF Enable
<1>3. CASE focus # None /\ call[focus] = "added"
  <2>1. x \in Seq(Posted) /\ Len(x) = 1 /\ x[1].call = focus /\ x[1].id = "disable"
    BY <1>3 DEF Posted, TypeOK
  <2>2. FocusMessages(c) = x \o y
    BY <1>2, <1>3 DEF FocusMessages, Enable
  <2> HIDE DEF x, y
  <2>3. /\ x \o y \in Seq(Posted) /\ Len(x \o y) = 2
        /\ (x \o y)[1] = x[1] /\ (x \o y)[2] = y[1]
    BY <1>1, <2>1, PostedType
  <2> QED BY <1>1, <1>3, <2>1, <2>2, <2>3
<1>4. CASE ~(focus # None /\ call[focus] = "added")
  <2>1. FocusMessages(c) = e \o y
    BY <1>2, <1>4 DEF FocusMessages, Enable
  <2> HIDE DEF e, y
  <2>2. /\ e \o y \in Seq(Posted) /\ Len(e \o y) = 1 /\ (e \o y)[1] = y[1]
    BY <1>1, PostedType, SMTT(30)
  <2> QED BY <1>1, <1>4, <2>1, <2>2
<1> QED BY <1>3, <1>4

LEMMA FocusedSetFocus ==
  ASSUME IInv, Focused, NEW c \in Calls, SetFocus(c)
  PROVE  Focused'
<1> DEFINE F == FocusMessages(c)
           n == Len(posted)
           loses == focus # None /\ call[focus] = "added"
<1>1. /\ sent = Free /\ call[c] = "added" /\ focus # c /\ focus' = c
      /\ posted' = posted \o F
      /\ UNCHANGED <<call, enabled, on, writable>>
  BY DEF SetFocus, channels
<1>2. /\ F \in Seq(Posted) /\ Len(F) = IF loses THEN 2 ELSE 1
      /\ loses => F[1].call = focus /\ F[1].id = "disable"
      /\ F[Len(F)].call = c /\ F[Len(F)].id = "enable"
  BY <1>1, FocusMessagesAre DEF IInv
<1>3. posted \in Seq(Posted \cup {Cleared}) /\ F \in Seq(Posted \cup {Cleared})
  <2> HIDE DEF F
  <2> QED BY <1>2 DEF IInv, TypeOK
<1> HIDE DEF F
<1>4. /\ n \in Nat /\ Len(posted') = n + Len(F)
      /\ \A i \in 1 .. n : posted'[i] = posted[i]
      /\ \A i \in 1 .. Len(F) : posted'[n + i] = F[i]
  BY <1>1, <1>3, PostedType
<1>5. \A d \in Calls : Will(d) => loses /\ d = focus
  BY <1>1, WillLives, VoiceConstants DEF Focused
<1>6. \A d \in Calls : \A m \in 0 .. n :
        After(posted', enabled, m, d) <=> After(posted, enabled, m, d)
  BY <1>4, Grown, SMTT(30)
<1>7. CASE loses
  <2>1. Len(posted') = n + 2 /\ posted'[n + 1] = F[1] /\ posted'[n + 2] = F[2]
    BY <1>2, <1>4, <1>7
  <2>2. \A d \in Calls : ~After(posted', enabled, n + 1, d)
    <3> SUFFICES ASSUME NEW d \in Calls, NEW l, l = n + 1
                 PROVE  ~After(posted', enabled, l, d)
      OBVIOUS
    <3>1. Order(posted', l, d) <=> d = focus
      BY <1>2, <1>7, <2>1 DEF Order
    <3>2. CASE d = focus
      <4>1. Order(posted', l, d) /\ posted'[l].id # "enable"
        BY <1>2, <1>7, <2>1, <3>1, <3>2
      <4>2. l \in 1 .. l /\ \A i \in 1 .. l : l <= i => i = l
        BY <1>4
      <4> QED BY <4>1, <4>2 DEF After
    <3>3. CASE d # focus
      <4>1. ~After(posted, enabled, n, d)
        BY <1>5, <3>3 DEF Will
      <4> QED BY <1>4, <3>1, <3>3, <4>1, Grown
    <3> QED BY <3>2, <3>3
  <2>3. \A d \in Calls : After(posted', enabled, n + 2, d) <=> d = c
    <3> SUFFICES ASSUME NEW d \in Calls, NEW k, k = n + 1, NEW l, l = n + 2
                 PROVE  After(posted', enabled, l, d) <=> d = c
      OBVIOUS
    <3>1. k \in Nat /\ l = k + 1
      BY <1>4
    <3>2. (Order(posted', l, d) <=> d = c) /\ posted'[l].id = "enable"
      BY <1>2, <1>7, <2>1 DEF Order
    <3>3. ~After(posted', enabled, k, d)
      BY <2>2
    <3>4. \A i \in 1 .. k : posted'[i] = posted'[i]
      OBVIOUS
    <3> HIDE DEF n
    <3> QED BY <3>1, <3>2, <3>3, <3>4, Grown
  <2>4. \A m \in 0 .. n + 2 : m \in 0 .. n \/ m = n + 1 \/ m = n + 2
    BY <1>4
  <2> QED BY <1>1, <1>6, <2>1, <2>2, <2>3, <2>4 DEF Focused, OneAtATime, Will
<1>8. CASE ~loses
  <2>1. Len(posted') = n + 1 /\ posted'[n + 1] = F[1] /\ F[1].call = c /\ F[1].id = "enable"
    BY <1>2, <1>4, <1>8
  <2>2. \A d \in Calls : After(posted', enabled, n + 1, d) <=> d = c
    <3> SUFFICES ASSUME NEW d \in Calls PROVE After(posted', enabled, n + 1, d) <=> d = c
      OBVIOUS
    <3>1. Order(posted', n + 1, d) <=> d = c
      BY <2>1 DEF Order
    <3>2. ~After(posted, enabled, n, d)
      BY <1>5, <1>8 DEF Will
    <3>3. posted'[n + 1].id = "enable"
      BY <2>1
    <3> HIDE DEF n, loses
    <3> QED BY <1>4, <3>1, <3>2, <3>3, Grown
  <2>3. \A m \in 0 .. n + 1 : m \in 0 .. n \/ m = n + 1
    BY <1>4
  <2> QED BY <1>1, <1>6, <2>1, <2>2, <2>3 DEF Focused, OneAtATime, Will
<1> QED BY <1>7, <1>8

LEMMA FocusedOnMessage ==
  ASSUME IInv, Focused, OnMessage
  PROVE  Focused'
<1> DEFINE m == Head(posted)
           n == Len(posted')
<1>1. /\ m \in Posted \cup {Cleared} /\ m = posted[1]
      /\ n \in Nat /\ Len(posted) = n + 1 /\ posted' = Tail(posted)
      /\ \A i \in 1 .. n : posted'[i] = posted[i + 1]
  BY DEF IInv, TypeOK, OnMessage
<1>2. UNCHANGED <<call, focus, writable>>
  BY DEF OnMessage, signalled
<1>3. \A c \in Calls :
        enabled'[c] <=> IF Order(posted, 1, c) THEN m.id = "enable" ELSE enabled[c]
  <2>1. CASE m.id \in {"enable", "disable"} /\ enabled[m.call] # (m.id = "enable")
    <3>1. enabled' = [enabled EXCEPT ![m.call] = m.id = "enable"]
      BY <2>1 DEF OnMessage
    <3> QED BY <1>1, <2>1, <3>1 DEF IInv, TypeOK, Order
  <2>2. CASE ~(m.id \in {"enable", "disable"} /\ enabled[m.call] # (m.id = "enable"))
    <3>1. enabled' = enabled
      BY <2>2 DEF OnMessage
    <3>2. ASSUME NEW c \in Calls, Order(posted, 1, c)
          PROVE  m.id \in {"enable", "disable"} /\ enabled[c] = (m.id = "enable")
      <4>1. m # Cleared
        BY <1>1, <3>2, VoiceConstants DEF Order, Cleared
      <4> QED BY <1>1, <2>2, <3>2, <4>1 DEF Order, Posted
    <3> QED BY <3>1, <3>2
  <2> QED BY <2>1, <2>2
<1> HIDE DEF n
<1>4. \A c \in Calls : \A l \in 0 .. n :
        After(posted', enabled', l, c) <=> After(posted, enabled, l + 1, c)
  <2> SUFFICES ASSUME NEW c \in Calls, NEW l \in 0 .. n
               PROVE  After(posted', enabled', l, c) <=> After(posted, enabled, l + 1, c)
    OBVIOUS
  <2>1. l \in Nat /\ \A i \in 1 .. l : posted'[i] = posted[i + 1]
    BY <1>1
  <2>2. enabled'[c] <=> IF Order(posted, 1, c) THEN posted[1].id = "enable" ELSE enabled[c]
    BY <1>1, <1>3
  <2> QED BY <2>1, <2>2, Handled
<1>5. \A l \in 0 .. n : l + 1 \in 0 .. Len(posted)
  BY <1>1
<1>6. n \in 0 .. n
  BY <1>1
<1>7. OneAtATime'
  BY <1>4, <1>5 DEF Focused, OneAtATime, n
<1>8. \A c \in Calls : Will(c)' <=> Will(c)
  BY <1>1, <1>4, <1>6 DEF Will, n
<1>9. \A c \in Calls : \A k \in Sounds : on'[c][k] => enabled'[c] /\ writable[c]
  <2>1. CASE m.id \in {"enable", "disable"} /\ enabled[m.call] # (m.id = "enable")
    <3>1. /\ enabled' = [enabled EXCEPT ![m.call] = m.id = "enable"]
          /\ ChangeState(m.call, m.id = "enable" /\ writable[m.call])
      BY <2>1 DEF OnMessage
    <3>2. m.call \in Calls
      BY <1>1, <2>1 DEF Posted, Cleared
    <3> QED BY <3>1, <3>2 DEF IInv, TypeOK, ChangeState, Focused
  <2>2. CASE ~(m.id \in {"enable", "disable"} /\ enabled[m.call] # (m.id = "enable"))
    BY <2>2 DEF OnMessage, Focused
  <2> QED BY <2>1, <2>2
<1> QED BY <1>2, <1>7, <1>8, <1>9 DEF Focused

(* Every step keeps the voice with the focus.                              *)
LEMMA FocusedKept ==
  ASSUME IInv, Focused, [Next]_vars
  PROVE  Focused'
<1> USE DEF signalled, channels, sound
<1>0. posted \in Seq(Posted \cup {Cleared}) /\ TypeOK
  BY DEF IInv, TypeOK
<1>1. ASSUME UNCHANGED <<posted, enabled, writable, on>>, UNCHANGED <<call, focus>>
      PROVE  Focused'
  BY <1>1 DEF Focused, OneAtATime, Will
<1>2. ASSUME \/ UNCHANGED vars \/ \E c \in Calls : AddSession(c)
             \/ SessionRemoved \/ CreateVoiceChannel_w
             \/ Exit \/ ExitSignals \/ Stop \/ Delete
      PROVE  Focused'
  BY <1>1, <1>2 DEF vars, AddSession, SessionRemoved, CreateVoiceChannel_w, Exit,
     ExitSignals, Stop, Delete
<1>3. ASSUME NEW c \in Calls, NEW k \in Sounds, SoundThread(c, k) \/ Notified(c, k)
      PROVE  Focused'
  BY <1>0, <1>1, <1>3, SoundTurns
<1>4. ASSUME NEW c \in Calls, OnSessionState(c) PROVE Focused'
  <2> DEFINE n == Len(posted)
  <2>1. /\ n \in Nat /\ Len(posted') = n + 1
        /\ \A i \in 1 .. n : posted'[i] = posted[i]
        /\ posted'[n + 1].id = "codec"
        /\ UNCHANGED <<call, focus, enabled, writable, on>>
    BY <1>0, <1>4 DEF OnSessionState, Posted
  <2>2. \A d \in Calls : \A m \in 0 .. n :
          After(posted', enabled, m, d) <=> After(posted, enabled, m, d)
    BY <2>1, Grown
  <2>3. \A d \in Calls : After(posted', enabled, n + 1, d) <=> After(posted, enabled, n, d)
    <3> SUFFICES ASSUME NEW d \in Calls, NEW l, l = n + 1
                 PROVE  After(posted', enabled, l, d) <=> After(posted, enabled, n, d)
      OBVIOUS
    <3>1. ~Order(posted', l, d)
      BY <2>1 DEF Order
    <3> QED BY <2>1, <3>1, Grown
  <2>4. \A m \in 0 .. n + 1 : m \in 0 .. n \/ m = n + 1
    BY <2>1
  <2>5. n \in 0 .. n
    BY <2>1
  <2>6. OneAtATime'
    BY <2>1, <2>2, <2>3, <2>4, <2>5 DEF Focused, OneAtATime
  <2>7. \A d \in Calls : Will(d)' <=> Will(d)
    BY <2>1, <2>3 DEF Will
  <2> QED BY <2>1, <2>6, <2>7 DEF Focused
<1>5. ASSUME NEW c \in Calls, RemoveSession(c) PROVE Focused'
  <2>1. /\ UNCHANGED <<focus, posted, enabled, writable, on>>
        /\ \A d \in Calls : call'[d] = "added" => call[d] = "added"
    BY <1>0, <1>5 DEF RemoveSession, TypeOK
  <2> QED BY <2>1 DEF Focused, OneAtATime, Will
<1>6. ASSUME NEW c \in Calls, DestroyCall(c) PROVE Focused'
  <2>1. /\ UNCHANGED <<posted, enabled, writable, on>>
        /\ sent = Free /\ call[c] = "removed" /\ call'[c] = "destroyed"
        /\ \A d \in Calls : d # c => call'[d] = call[d]
        /\ \A d \in Calls : focus' = d <=> focus = d /\ d # c
    BY <1>0, <1>6, VoiceConstants DEF DestroyCall, TypeOK
  <2>2. ~Will(c)
    BY <2>1, WillLives
  <2> QED BY <2>1, <2>2 DEF Focused, OneAtATime, Will
<1>7. ASSUME SessionAdded PROVE Focused'
  <2>1. /\ UNCHANGED <<focus, enabled, writable, on>>
        /\ sent.call \in Calls /\ sent # Free
        /\ call' = [call EXCEPT ![sent.call] = "added"]
        /\ sent.msg = "created"
    BY <1>0, <1>7 DEF SessionAdded, TypeOK, Free
  <2>2. focus # sent.call
    BY <2>1, VoiceConstants DEF IInv, Handshake
  <2>3. posted' = posted
    BY <1>7, <2>2 DEF SessionAdded
  <2>4. \A d \in Calls : focus = d => call'[d] = call[d]
    BY <1>0, <2>1, <2>2 DEF TypeOK
  <2> QED BY <2>1, <2>3, <2>4 DEF Focused, OneAtATime, Will
<1>8. CASE OnMessage
  BY <1>8, FocusedOnMessage
<1>9. ASSUME NEW c \in Calls, SetFocus(c) PROVE Focused'
  BY <1>9, FocusedSetFocus
<1>10. ASSUME NEW c \in Calls, OnSocketState(c) PROVE Focused'
  <2>1. /\ UNCHANGED <<call, focus, posted, enabled>>
        /\ writable' = [writable EXCEPT ![c] = ~@]
        /\ ChangeState(c, ~writable[c] /\ enabled[c])
    BY <1>10 DEF OnSocketState
  <2>2. \A d \in Calls : \A k \in Sounds : on'[d][k] => enabled[d] /\ writable'[d]
    BY <1>0, <2>1 DEF TypeOK, ChangeState, Focused
  <2> QED BY <2>1, <2>2 DEF Focused, OneAtATime, Will
<1>11. ASSUME DestroyVoiceChannel_w PROVE Focused'
  <2>0. sent.call \in Calls /\ sent.msg = "destroy"
    BY <1>0, <1>11 DEF DestroyVoiceChannel_w, TypeOK, Free
  <2>1. /\ UNCHANGED <<call, focus, posted, writable>> /\ sent.call \in Calls
        /\ enabled' = [enabled EXCEPT ![sent.call] = FALSE]
        /\ ChangeState(sent.call, FALSE) /\ sent.msg = "destroy"
    BY <1>11, <2>0 DEF DestroyVoiceChannel_w
  <2>2. \A d \in Calls : enabled'[d] => enabled[d]
    BY <1>0, <2>1 DEF TypeOK
  <2>3. \A d \in Calls : \A m \in 0 .. Len(posted) :
          After(posted, enabled', m, d) => After(posted, enabled, m, d)
    BY <2>2 DEF After
  <2>4. Len(posted) \in 0 .. Len(posted)
    BY <1>0
  <2>5. \A d \in Calls : \A k \in Sounds : on'[d][k] => enabled'[d] /\ writable[d]
    BY <1>0, <2>1 DEF TypeOK, ChangeState, Focused
  <2>6. \A d \in Calls : d # sent.call =>
          (After(posted, enabled', Len(posted), d) <=> After(posted, enabled, Len(posted), d))
    BY <1>0, <2>1 DEF TypeOK, After
  <2>7. call[sent.call] # "added"
    BY <2>1 DEF IInv, Handshake
  <2> QED BY <2>1, <2>3, <2>4, <2>5, <2>6, <2>7 DEF Focused, OneAtATime, Will
<1>12. ASSUME DestroySocket PROVE Focused'
  <2> DEFINE n == Len(posted)
  <2>0. worker.at = "clear" /\ worker.call \in Calls
    BY <1>12, WorkerAt DEF DestroySocket, IInv
  <2> SUFFICES ASSUME NEW w \in Calls, w = worker.call PROVE Focused'
    BY <2>0
  <2>1. /\ UNCHANGED <<call, focus, enabled, on>>
        /\ posted' = Clear(w)
        /\ writable' = [writable EXCEPT ![w] = FALSE]
    BY <1>12 DEF DestroySocket
  <2>2. ~enabled[w] /\ call[w] # "added"
    <3>1. worker # Idle
      BY <2>0 DEF Idle
    <3>2. ~enabled[w] /\ sent = [msg |-> "destroy", call |-> w]
      BY <2>0, <3>1 DEF IInv, Handshake
    <3> QED BY <3>2 DEF IInv, Handshake
  <2>3. /\ n \in Nat /\ Len(posted') = n
        /\ \A i \in 1 .. n : posted'[i] = IF posted[i].call = w THEN Cleared ELSE posted[i]
    BY <1>0, <2>1 DEF Clear
  <2>4. \A d \in Calls : \A m \in 0 .. n : d # w =>
          (After(posted', enabled, m, d) <=> After(posted, enabled, m, d))
    <3>1. \A d \in Calls : \A i \in 1 .. n : d # w => 
            /\ Order(posted', i, d) <=> Order(posted, i, d)
            /\ Order(posted', i, d) => posted'[i] = posted[i]
      BY <2>3, VoiceConstants DEF Order, Cleared
    <3> QED BY <2>3, <3>1 DEF After
  <2>5. \A m \in 0 .. n : ~After(posted', enabled, m, w)
    <3>1. \A i \in 1 .. n : ~Order(posted', i, w)
      BY <2>1, <2>3, VoiceConstants DEF Order, Cleared
    <3> QED BY <2>2, <2>3, <3>1 DEF After
  <2>6. n \in 0 .. n
    BY <2>3
  <2>7. OneAtATime'
    BY <2>1, <2>3, <2>4, <2>5 DEF Focused, OneAtATime
  <2>8. \A d \in Calls : d # w => (Will(d)' <=> Will(d))
    BY <2>1, <2>3, <2>4, <2>6 DEF Will
  <2>9. ~Will(w)'
    BY <2>1, <2>3, <2>5, <2>6 DEF Will
  <2>10. \A d \in Calls : \A k \in Sounds : on[d][k] => enabled[d] /\ writable'[d]
    BY <1>0, <2>1, <2>2 DEF TypeOK, Focused
  <2> QED BY <2>1, <2>2, <2>7, <2>8, <2>9, <2>10 DEF Focused
<1> QED BY <1>2, <1>3, <1>4, <1>5, <1>6, <1>7, <1>8, <1>9, <1>10, <1>11, <1>12
        DEF Next, Signalling, Worker

(* The microphone is open for one call only, and the voice ends with the   *)
(* call in focus, for any calls and any number of posted messages.         *)
THEOREM VoiceFollows == Spec => []VoiceFollowsFocus
<1>1. Init => Focused
  <2> SUFFICES ASSUME Init PROVE Focused
    OBVIOUS
  <2>1. /\ posted = <<>> /\ Len(posted) = 0 /\ \A c \in Calls : ~enabled[c]
        /\ \A c \in Calls : call[c] = "none" /\ \A k \in Sounds : ~on[c][k]
    BY DEF Init
  <2>2. \A c \in Calls : \A n \in 0 .. 0 : ~After(posted, enabled, n, c)
    BY <2>1 DEF After
  <2> QED BY <2>1, <2>2 DEF Focused, OneAtATime, Will
<1>2. IInv /\ Focused /\ [Next]_vars => Focused'
  BY FocusedKept
<1>3. IInv /\ Focused => VoiceFollowsFocus
  <2> SUFFICES ASSUME IInv, Focused PROVE VoiceFollowsFocus
    OBVIOUS
  <2>1. \A c \in Calls : enabled[c] => After(posted, enabled, 0, c)
    BY DEF After
  <2>2. 0 \in 0 .. Len(posted)
    BY DEF IInv, TypeOK
  <2>3. \A c, d \in Calls : \A k, l \in Sounds : on[c][k] /\ on[d][l] => c = d
    BY <2>1, <2>2 DEF Focused, OneAtATime
  <2>4. \A c \in Calls : call[c] = "added" => (WillBeEnabled(c) <=> focus = c)
    BY WillIs DEF Focused, IInv
  <2> QED BY <2>3, <2>4 DEF Focused, VoiceFollowsFocus
<1> QED BY <1>1, <1>2, <1>3, InductiveInvariant, PTL DEF Spec
=============================================================================

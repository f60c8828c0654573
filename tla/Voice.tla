--------------------------------- MODULE Voice ---------------------------------
(***************************************************************************)
(* The voice of a call: its voice channel (talk/session/phone), the media  *)
(* channel of the application (BeatMediaChannel.cpp) and the two sound     *)
(* threads of that (beat/SoundPlay.cpp, SoundCapture.cpp).  The signalling *)
(* thread owns the calls and their focus; channels live on the worker      *)
(* thread.  The former makes and destroys a channel with Send, which waits *)
(* for the worker, and gives it everything else with Post.                 *)
(*                                                                         *)
(* A channel is named by its call, which has one session.  The program     *)
(* never mutes, pauses or joins calls.  Codecs, sound and the jitter       *)
(* buffer are data here.                                                   *)
(***************************************************************************)
EXTENDS Naturals, Sequences

CONSTANTS
  Calls,
  None,         \* the null pointer
  MaxPosted     \* bound: messages in the worker's queue when one is added

ASSUME VoiceConstants == None \notin Calls /\ MaxPosted \in Nat

Sounds == {"play", "capture"}   \* SoundPlayImpl and SoundCaptureImpl

VARIABLES
  call,       \* the Call object: "added" while it has its session
  focus,      \* focus_call_
  sent,       \* what the signalling thread waits for in Thread::Send
  posted,     \* msgq_ of the worker
  worker,     \* where the worker is in DestroyVoiceChannel_w
  voice,      \* the VoiceChannel: "none", "live" or "gone"
  media,      \* the BeatMediaChannel
  enabled, writable,   \* enabled_ and socket_writable_
  on,         \* m_Playing and m_Capturing
  ready,      \* SoundPlayImpl's mutex is initialised: its Init was reached
  made,       \* its m_Events are made: Init came past the locking of the buffer
  stop,       \* m_Stop of the sound threads
  event,      \* Exit has set an event that the thread waits for
  thread      \* where the sound threads are

signalled == <<call, focus, sent>>
channels  == <<voice, media, enabled, writable, on, ready, made>>
sound     == <<stop, event, thread>>
vars      == <<signalled, posted, worker, channels, sound>>

Posted  == [call : Calls, id : {"enable", "disable", "codec"}]
Cleared == [call |-> None, id |-> "cleared"]
Idle    == [at |-> "idle", call |-> None, sound |-> "none"]
Free    == [msg |-> "none", call |-> None]

-----------------------------------------------------------------------------
(* The signalling thread.                                                  *)
Enable(c, flag) ==
  IF call[c] = "added"
  THEN << [call |-> c, id |-> IF flag THEN "enable" ELSE "disable"] >>
  ELSE <<>>

Room == Len(posted) < MaxPosted

(* PhoneSessionClient::CreateCall and Call::AddSession.                    *)
AddSession(c) ==
  /\ sent = Free /\ call[c] = "none"
  /\ sent' = [msg |-> "create", call |-> c]
  /\ UNCHANGED <<call, focus, posted, worker, channels, sound>>

SessionAdded ==
  /\ sent.msg = "created"
  /\ call' = [call EXCEPT ![sent.call] = "added"]
  /\ sent' = Free
  /\ posted' = IF focus = sent.call
               THEN Append(posted, [call |-> focus, id |-> "enable"]) ELSE posted
  /\ UNCHANGED <<focus, worker, channels, sound>>

(* Mutated: the call that gets the focus is enabled first.                 *)
GainBeforeLoss(c) ==
  Enable(c, TRUE) \o (IF focus = None THEN <<>> ELSE Enable(focus, FALSE))

(* Call::EnableChannels for the call that loses the focus, and then for    *)
(* the one that gets it.                                                   *)
FocusMessages(c) ==
  (IF focus = None THEN <<>> ELSE Enable(focus, FALSE)) \o Enable(c, TRUE)

SetFocus(c) ==
  /\ sent = Free /\ Room /\ call[c] = "added" /\ focus # c
  /\ posted' = posted \o FocusMessages(c)
  /\ focus' = c
  /\ UNCHANGED <<call, sent, worker, channels, sound>>

(* VoiceChannel::OnSessionState: the session knows the other's codecs.     *)
OnSessionState(c) ==
  /\ sent = Free /\ Room /\ call[c] = "added"
  /\ posted' = Append(posted, [call |-> c, id |-> "codec"])
  /\ UNCHANGED <<signalled, worker, channels, sound>>

RemoveSession(c) ==
  /\ sent = Free /\ call[c] = "added"
  /\ call' = [call EXCEPT ![c] = "removed"]
  /\ sent' = [msg |-> "destroy", call |-> c]
  /\ UNCHANGED <<focus, posted, worker, channels, sound>>

SessionRemoved ==
  /\ sent.msg = "destroyed"
  /\ sent' = Free
  /\ UNCHANGED <<call, focus, posted, worker, channels, sound>>

(* A call without sessions destroys itself and has no channel to disable.  *)
DestroyCall(c) ==
  /\ sent = Free /\ call[c] = "removed"
  /\ call' = [call EXCEPT ![c] = "destroyed"]
  /\ focus' = IF focus = c THEN None ELSE focus
  /\ UNCHANGED <<sent, posted, worker, channels, sound>>

-----------------------------------------------------------------------------
(* The worker thread.  ChangeState switches both sounds on or off; a       *)
(* sound that cannot be started is logged and stays off.                   *)
ChangeState(c, wanted) ==
  \E switched \in [Sounds -> BOOLEAN] :
    /\ \A k \in Sounds :
         /\ switched[k] => wanted /\ (k = "play" => ready[c])
         /\ wanted /\ on[c][k] => switched[k]
    /\ on' = [on EXCEPT ![c] = switched]

(* The sound threads begin with the channel.  If the capture buffer gives  *)
(* no notifications the rest is skipped.  If the play buffer fails there   *)
(* is no play thread, and no events either if it cannot be locked.         *)
(* External: a sound device, with its two buffers, and threads are there.  *)
CreateVoiceChannel_w ==
  LET c == sent.call
  IN /\ worker = Idle /\ sent.msg = "create"
     /\ sent' = [sent EXCEPT !.msg = "created"]
     /\ voice' = [voice EXCEPT ![c] = "live"]
     /\ media' = [media EXCEPT ![c] = "live"]
     /\ \E reached, locked, plays \in BOOLEAN :
          /\ plays => locked
          /\ locked => reached
          /\ ready' = [ready EXCEPT ![c] = reached]
          /\ made' = [made EXCEPT ![c] = locked]
          /\ thread' = [thread EXCEPT ![c] =
               [k \in Sounds |-> IF k = "capture" \/ plays THEN "loop" ELSE "none"]]
     /\ UNCHANGED <<call, focus, posted, worker, enabled, writable, on, stop, event>>

(* VoiceChannel::OnMessage.  A message that was cleared does nothing. *)
OnMessage ==
  LET m == Head(posted)
      flag == m.id = "enable"
  IN /\ worker = Idle /\ posted # <<>>
     /\ posted' = Tail(posted)
     /\ IF m.id \in {"enable", "disable"} /\ enabled[m.call] # flag
        THEN /\ enabled' = [enabled EXCEPT ![m.call] = flag]
             /\ ChangeState(m.call, flag /\ writable[m.call])
        ELSE UNCHANGED <<enabled, on>>
     /\ UNCHANGED <<signalled, worker, voice, media, writable, ready, made, sound>>

OnSocketState(c) ==
  /\ worker = Idle /\ voice[c] = "live"
  /\ writable' = [writable EXCEPT ![c] = ~@]
  /\ ChangeState(c, ~writable[c] /\ enabled[c])
  /\ UNCHANGED <<signalled, posted, worker, voice, media, enabled, ready, made, sound>>

(* DestroyVoiceChannel_w: first ~VoiceChannel, ... *)
DestroyVoiceChannel_w ==
  LET c == sent.call
  IN /\ worker = Idle /\ sent.msg = "destroy"
     /\ worker' = [at |-> "clear", call |-> c, sound |-> "none"]
     /\ enabled' = [enabled EXCEPT ![c] = FALSE]
     /\ ChangeState(c, FALSE)
     /\ UNCHANGED <<signalled, posted, voice, media, writable, ready, made, sound>>

Goes(at, k) == worker' = [worker EXCEPT !.at = at, !.sound = k]

(* Mutated: what is posted to the channel stays in the queue. *)
NotCleared(c) == posted

(* MessageQueue::Clear removes the messages; here they keep their place.   *)
Clear(c) ==
  [i \in DOMAIN posted |-> IF posted[i].call = c THEN Cleared ELSE posted[i]]

(* ... which drops the messages to the channel and destroys its socket;    *)
(* then ~BeatMediaChannel, which ends at once if Stop finds the mutex of   *)
(* SoundPlayImpl uninitialised.                                            *)
DestroySocket ==
  LET c == worker.call
  IN /\ worker.at = "clear"
     /\ posted' = Clear(c)
     /\ voice' = [voice EXCEPT ![c] = "gone"]
     /\ writable' = [writable EXCEPT ![c] = FALSE]
     /\ IF ready[c] THEN Goes("exit", "play") ELSE Goes("delete", "none")
     /\ UNCHANGED <<signalled, media, enabled, on, ready, made, sound>>

(* The process has crashed: SoundPlayImpl::Exit sets m_Events[0], and an   *)
(* Init that threw before it had made them left m_Events null.             *)
Crashed == worker.at = "event" /\ worker.sound = "play" /\ ~made[worker.call]

(* Mutated: the event is set before m_Stop. *)
ExitSignalsFirst ==
  /\ worker.at = "exit"
  /\ event' = [event EXCEPT ![worker.call][worker.sound] = TRUE]
  /\ Goes("event", worker.sound)
  /\ UNCHANGED <<signalled, posted, channels, stop, thread>>

(* SoundPlayImpl::Exit and SoundCaptureImpl::Exit: m_Stop, the event, the  *)
(* end of the thread.                                                      *)
Exit ==
  /\ worker.at = "exit"
  /\ stop' = [stop EXCEPT ![worker.call][worker.sound] = TRUE]
  /\ Goes("event", worker.sound)
  /\ UNCHANGED <<signalled, posted, channels, event, thread>>

ExitSignals ==
  /\ worker.at = "event"
  /\ event' = [event EXCEPT ![worker.call][worker.sound] = TRUE]
  /\ Goes("join", worker.sound)
  /\ UNCHANGED <<signalled, posted, channels, stop, thread>>

(* Mutated: Thread::Stop does not wait. *)
StopWithoutJoin ==
  /\ worker.at = "join"
  /\ stop' = [stop EXCEPT ![worker.call][worker.sound] = TRUE]
  /\ event' = [event EXCEPT ![worker.call][worker.sound] = FALSE]
  /\ IF worker.sound = "play" THEN Goes("exit", "capture") ELSE Goes("delete", "none")
  /\ UNCHANGED <<signalled, posted, channels, thread>>

(* Thread::Stop; without a thread there is nothing to wait for.  Then the  *)
(* events are deleted.                                                     *)
Stop ==
  /\ worker.at = "join"
  /\ stop' = [stop EXCEPT ![worker.call][worker.sound] = TRUE]
  /\ thread[worker.call][worker.sound] \in {"none", "ended"}
  /\ event' = [event EXCEPT ![worker.call][worker.sound] = FALSE]
  /\ IF worker.sound = "play" THEN Goes("exit", "capture") ELSE Goes("delete", "none")
  /\ UNCHANGED <<signalled, posted, channels, thread>>

(* The memory is released and the signalling thread answered. *)
Delete ==
  /\ worker.at = "delete"
  /\ media' = [media EXCEPT ![worker.call] = "gone"]
  /\ sent' = [sent EXCEPT !.msg = "destroyed"]
  /\ worker' = Idle
  /\ UNCHANGED <<call, focus, posted, voice, enabled, writable, on, ready, made, sound>>

-----------------------------------------------------------------------------
(* The sound threads.                                                      *)
Turns(c, k, at) == thread' = [thread EXCEPT ![c][k] = at]

SvcLoop(c, k) ==
  /\ thread[c][k] = "loop"
  /\ Turns(c, k, IF stop[c][k] THEN "ended" ELSE "wait")
  /\ UNCHANGED <<signalled, posted, worker, channels, stop, event>>

(* Svc after WaitForMultipleObjects.  The play thread also passes over the *)
(* periods of the first run through its buffer.                            *)
Awake(c, k) ==
  \/ ~stop[c][k] /\ on[c][k] /\ Turns(c, k, "work")
  \/ (~stop[c][k] /\ on[c][k] => k = "play") /\ Turns(c, k, "loop")

Svc(c, k) ==
  /\ thread[c][k] = "wait" /\ event[c][k]
  /\ event' = [event EXCEPT ![c][k] = FALSE]
  /\ Awake(c, k)
  /\ UNCHANGED <<signalled, posted, worker, channels, stop>>

(* The sound card may notify at any time. *)
Notified(c, k) ==
  /\ thread[c][k] = "wait"
  /\ Awake(c, k)
  /\ UNCHANGED <<signalled, posted, worker, channels, stop, event>>

(* A packet is taken from the jitter buffer and decoded. *)
Play(c) ==
  /\ thread[c]["play"] = "work"
  /\ Turns(c, "play", "loop")
  /\ UNCHANGED <<signalled, posted, worker, channels, stop, event>>

(* CompressFrame: the codec may need more before it makes a packet. *)
CompressFrame(c) ==
  /\ thread[c]["capture"] = "work"
  /\ Turns(c, "capture", "send") \/ Turns(c, "capture", "loop")
  /\ UNCHANGED <<signalled, posted, worker, channels, stop, event>>

SendPacket(c) ==
  /\ thread[c]["capture"] = "send"
  /\ Turns(c, "capture", "loop")
  /\ UNCHANGED <<signalled, posted, worker, channels, stop, event>>

-----------------------------------------------------------------------------
Init ==
  /\ call = [c \in Calls |-> "none"]
  /\ focus = None
  /\ sent = Free
  /\ posted = <<>>
  /\ worker = Idle
  /\ voice = [c \in Calls |-> "none"]
  /\ media = [c \in Calls |-> "none"]
  /\ enabled = [c \in Calls |-> FALSE]
  /\ writable = [c \in Calls |-> FALSE]
  /\ ready = [c \in Calls |-> FALSE]
  /\ made = [c \in Calls |-> FALSE]
  /\ on = [c \in Calls |-> [k \in Sounds |-> FALSE]]
  /\ stop = [c \in Calls |-> [k \in Sounds |-> FALSE]]
  /\ event = [c \in Calls |-> [k \in Sounds |-> FALSE]]
  /\ thread = [c \in Calls |-> [k \in Sounds |-> "none"]]

Signalling ==
  \/ \E c \in Calls :
       \/ AddSession(c) \/ SetFocus(c) \/ OnSessionState(c)
       \/ RemoveSession(c) \/ DestroyCall(c)
  \/ SessionAdded \/ SessionRemoved

Worker ==
  /\ ~Crashed
  /\ \/ CreateVoiceChannel_w \/ OnMessage
     \/ DestroyVoiceChannel_w \/ DestroySocket \/ Exit \/ ExitSignals \/ Stop \/ Delete

SoundThread(c, k) ==
  /\ ~Crashed
  /\ \/ SvcLoop(c, k) \/ Svc(c, k)
     \/ k = "play" /\ Play(c)
     \/ k = "capture" /\ (CompressFrame(c) \/ SendPacket(c))

Next ==
  /\ ~Crashed
  /\ \/ Signalling \/ Worker
     \/ \E c \in Calls :
          OnSocketState(c) \/ \E k \in Sounds : SoundThread(c, k) \/ Notified(c, k)

Spec == Init /\ [][Next]_vars

(* The threads run; nothing is assumed of the network and the sound card.  *)
FairSpec ==
  /\ Spec /\ WF_vars(Worker) /\ WF_vars(SessionAdded \/ SessionRemoved)
  /\ \A c \in Calls : \A k \in Sounds : WF_vars(SoundThread(c, k))

-----------------------------------------------------------------------------
TypeOK ==
  /\ call \in [Calls -> {"none", "added", "removed", "destroyed"}]
  /\ focus \in Calls \cup {None}
  /\ sent \in {Free} \cup
       [msg : {"create", "created", "destroy", "destroyed"}, call : Calls]
  /\ posted \in Seq(Posted \cup {Cleared})
  /\ worker \in {Idle} \cup
       [at : {"clear", "delete"}, call : Calls, sound : {"none"}] \cup
       [at : {"exit", "event", "join"}, call : Calls, sound : Sounds]
  /\ voice \in [Calls -> {"none", "live", "gone"}]
  /\ media \in [Calls -> {"none", "live", "gone"}]
  /\ enabled \in [Calls -> BOOLEAN] /\ writable \in [Calls -> BOOLEAN]
  /\ ready \in [Calls -> BOOLEAN] /\ made \in [Calls -> BOOLEAN]
  /\ on \in [Calls -> [Sounds -> BOOLEAN]]
  /\ stop \in [Calls -> [Sounds -> BOOLEAN]] /\ event \in [Calls -> [Sounds -> BOOLEAN]]
  /\ thread \in [Calls -> [Sounds -> {"none", "loop", "wait", "work", "send", "ended"}]]

(* What is posted to a voice channel finds it alive: the signalling thread *)
(* waits while the channel is destroyed, and so posts to it no more.       *)
MessagesFindTheirChannel ==
  \A i \in DOMAIN posted : posted[i] # Cleared => voice[posted[i].call] = "live"

(* Whether c will be enabled once the worker has handled everything.       *)
Orders(c) == {i \in DOMAIN posted : posted[i].call = c /\ posted[i].id # "codec"}

WillBeEnabled(c) ==
  \/ Orders(c) = {} /\ enabled[c]
  \/ \E i \in Orders(c) : posted[i].id = "enable" /\ \A j \in Orders(c) : j <= i

(* The microphone is open, and something is played, for one call only, and *)
(* whatever the worker has still to do, it ends with the call in focus.    *)
VoiceFollowsFocus ==
  /\ \A c, d \in Calls : \A k, l \in Sounds : on[c][k] /\ on[d][l] => c = d
  /\ \A c \in Calls : call[c] = "added" => (WillBeEnabled(c) <=> focus = c)
  /\ \A c \in Calls : \A k \in Sounds : on[c][k] => enabled[c] /\ writable[c]

(* A sound thread at work has its media channel: buffers, codec, jitter    *)
(* buffer.  This is so of a channel whose sound was set up; if the capture *)
(* buffer gave no notifications, ~BeatMediaChannel fails before it stops   *)
(* the capture thread, which is left behind.                               *)
SoundThreadsEndFirst ==
  \A c \in Calls : \A k \in Sounds :
    thread[c][k] \in {"work", "send"} /\ ready[c] => media[c] = "live"

(* Making and destroying a channel ends: the sound threads are told to     *)
(* stop in an order in which they do not miss it.  (The channel of a play  *)
(* that has no events crashes the process instead.)                        *)
HangupReturns == sent # Free ~> sent = Free \/ Crashed

(* A packet that the capture thread sends finds the channel and its        *)
(* socket: "The Send operation on the socket is special in that it can     *)
(* handle" a random thread (voicechannel.cc:164-165).                      *)
SocketOutlivesItsSender ==
  \A c \in Calls : thread[c]["capture"] = "send" => voice[c] = "live"
=============================================================================

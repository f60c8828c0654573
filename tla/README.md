# MyJingle: a verification project

MyJingle (`src/`) is a Windows client for Google Talk voice calls, extended for a call box with a USB key: the
person at the box presses a key and the front desk's telephone rings. This directory holds TLA+ models of its
core, the configurations that check them with TLC, and theorems proved with TLAPS.

## 1. The system

| Component | Source | State | Operations | What is hard | What makes it correct |
|---|---|---|---|---|---|
| Dialog | `LibJingle/LibJingleDlg.cpp`, `FromJingleMessage.cpp` | call status, four manual-reset events, which buttons are enabled, the bell | Call, Hangup, Sendmsg, the box's keys, notices of the signalling thread, end of a bell | every call has a helper thread that changes the status without a lock; notices come late | a dialog that rings is looked after and stops ringing; the buttons fit the call |
| Login and life of the signalling thread | `JingleMain.cpp`, `LibJingleDlg.cpp`, `Win32CallClient.cpp`, `talk/xmpp` | running, stack of the thread, buttons | Login, Logout, the destructor, EXIT, Stop, the connection's events | EXIT is one command in a mailbox of one; the UI waits for the thread | nothing outlives its login, the dialog does not hang |
| Command mailbox | `Win32JingleAdapter.cpp`, `ToJingleMessage.cpp` | one message, its mutex, one event | store, set the event, read | several writers, the jid is read without the mutex | the newest command is executed, its text whole |
| Call client | `Win32CallClient.cpp` | `call_`, `session_` | commands, `OnSessionState` | called back in the middle of `Session::set_state` | no dangling pointer, one call at a time, the dialog is told of every end |
| Session, session manager | `talk/p2p/base/session.cc`, `sessionmanager.cc` | state, error, timer | initiate, accept, reject, terminate, stanzas, timeouts | two or three MSG_STATE queued for one change | sessions only move forward, are destroyed, terminate once |
| Call, phone client | `talk/session/phone/call.cc`, `phonesessionclient.cc` | calls, `focus_call_` | create, focus, destroy | deletes itself by a posted message | focus never dangles, calls outlive sessions |
| Message queue, thread, sockets | `talk/base/messagequeue.cc`, `thread.cc`, `physicalsocketserver.cc` | queue, delayed and sent messages, wake-up event | Post, PostDelayed, Send, Clear, Get, Stop | Send between threads that serve each other meanwhile | no wake-up is lost, every Send is answered once |
| Voice channel, media channel, sound threads | `talk/session/phone/voicechannel.cc`, `channelmanager.cc`, `LibJingle/BeatMediaChannel.cpp`, `beat/SoundPlay.cpp`, `SoundCapture.cpp` | enabled, writable, playing, capturing, stop | create, enable, disable, destroy, Exit, Svc | four threads; what is posted is handled later | one call is heard, the one in focus; what a thread uses outlives it |
| Jitter buffer | `beat/JitterBuffer.cpp` | ring of 20 packets, head, silence | AddPacket, GetPacket | late, lost, reordered, wrapping numbers | no packet is shared or leaked, order, bounded latency |
| Tunnel and PseudoTcp | `talk/p2p/base/pseudotcp.cc`, `talk/session/tunnel` | control block | Connect, Send, Recv, Close, NotifyPacket, NotifyClock, NotifyMTU | loss, repetition, reordering, a shrinking MTU | the stream arrives as it was written |
| Tasks | `talk/base/task.cc`, `taskrunner.cc` | task states | run, wake, abort | timeouts that nobody polls | a woken task runs |
| Call box | `LibJingle/hardware/UsbDevice.cpp` | last report | decode a report | two keys told apart byte by byte | a key is taken for itself |

Presence, roster, chat task, configuration, database, passwords, the mouse hook, the call windows, the XML library,
the P2P transport, sockets and SSL, and the vendored Speex, Ogg, Expat and test tools are listed in
`PROJECT.json` with the reason why they are not modelled.

**How they interact.** The UI thread and the helper threads (`DialFunc`, `AcceptCallFunc`: one per call) store a
command in the one message of the mailbox and set its event. The signalling thread looks at that event when it has
nothing posted left to do, and executes whatever the message then holds. It answers with window messages. Stanzas
of the peers reach it through the socket, the Receiver task and the pump; its own sessions talk to it through its
message queue. It makes and destroys voice channels by sending to the worker thread, which waits for nobody but the
sound threads; everything else it posts. The worker adds packets to the jitter buffer, the play thread takes
them, the capture thread sends packets through the voice channel.

## 2. Modules

| Module | What it models |
|---|---|
| `Mailbox` | abstract: a one-item mailbox whose newest item is taken in the end, possibly twice |
| `JingleAdapter` | the command mailbox at the grain at which threads interrupt each other; implements `Mailbox` |
| `CallLifecycle` | abstract: a call only moves forward, never comes back to life and is disposed of |
| `CallClient` | the signalling thread: call client, sessions, calls, queue; implements `CallLifecycle` |
| `Dialog` | the UI thread and the helper threads, with any signalling thread |
| `MyJingle` | `Dialog` and `CallClient` composed through the mailbox and the window's queue |
| `Login` | how the signalling thread begins and ends: dialog, mailbox, XMPP client and engine, connection |
| `Threads` | posting, sending, clearing and stopping between any threads, with their waits and wake-ups |
| `Voice` | voice channels, media channels and sound threads of any calls, on the signalling and the worker thread |
| `JitterBuffer` | the ring of packets between the worker and the play thread |
| `PseudoTcp` | two ends of libjingle's TCP over a lossy network |
| `Adapter` | what the mailbox promises, stated once for TLC and for the proofs |
| `MC...` | instances for TLC |
| `...Proofs` | theorems and their proofs: `JitterBuffer`, `CallClient`, `Dialog`, `MyJingle` (with the mailbox), `Login`, `Threads`, `Voice`, `PseudoTcp` |

`CallClient`. All of its state lives on one thread, so a handler is one step. But handlers call back: `set_state`
signals the phone client and the call client, which may change the session again, before it posts MSG_STATE. A
handler is therefore written as a function from the client's record to the client's record, and a callback is
composition: `OnTerminate` is `Enter`, then `EndMine` (the callback), then `Enqueue`. `sent` and `posted` are what
the last step sent to the peers and to the window. `call_` and `session_` are assigned together everywhere and are
the one field `call`. A cleared message keeps its place in the queue and does nothing there. `waiting` says that
the thread is inside `Wait`: only there are the socket and the mailbox looked at, and only after everything posted
has been dispatched. What `OnSessionState` does not name (SENTACCEPT, SENTREJECT, a caller that is turned away) is
announced by a `CCallChangeMessage` whose `m_Type` was never initialised; it is the notice `UNSET`, and the dialog may
read it as any type.

`Dialog`. A helper thread is its kind and the list of the steps it has yet to take: `Wait`, then the steps of the
branch taken, in the order of the code. Each of its steps is one access to shared state. A handler of the UI thread
is one step, except that storing a command and setting the event are two (`signalling`). Windows serves sent
messages (the box's keys) before posted ones (notices, WM_STOPMUSIC, MM_MCINOTIFY) and those before the mouse, hence
`uiQueue = <<>>` in the guard of `Click`. The box's device decodes LEFT_KEY only; the handler of RIGHT_KEY is
modelled because it is there.

`MyJingle`. The mailbox is its content and the event, because `JingleAdapter` shows that nothing else matters for
which command is executed. `use` is drawn at the start: the buttons and keys that are pressed, which way calls are made and how many
helper threads overlap. `LibJingleDlg.h:173-174` names two uses: a client only calls, the front desk is only called. Whom a call is made to
is not modelled here.

`Login`. A handler of the UI thread is the list of its steps, because `Stop` waits for the signalling thread in the
middle of it. `x` is the stack of the signalling thread (`RunClient`): it is made anew by each login, while the
mailbox and the window's queue outlive it. What a connection does (it is refused, unreachable, lost, the server ends
the stream) is `Network`; the login's stanzas, TLS and SASL are the one step `SignalBound`.

`Threads`. `pc` is a thread's loop, `stack` the calls above it: a `Send` that waits serves `ReceiveSends`, whose
handler may send again. `use` says what the sockets' callbacks do, `Does` what handlers do: both are data. A critical
section is one step; `Clear` sets `ready` and wakes the sender in one step. Time is an order: any delayed message may
be due.

`Voice`. A channel is named by its call, which has one session. `sent` is the message that the signalling thread waits
for in `Thread::Send` (that the wait ends is what `Threads` is about), `posted` the worker's queue, `worker` how far the worker is in
destroying a channel: the two sound threads are told to stop, woken and joined one after the other. A sound thread is
at the head of its loop, in its wait, at work, or (the capture thread) about to send. The sound card is external:
it notifies at any time or never. A sound that cannot be started is logged and stays off; if the capture buffer gives no notifications the rest of the
media channel's constructor is skipped (`ready` is false). If the play buffer fails there is no play thread; if it could not even be locked,
`SoundPlayImpl::Init` has thrown before it made its events (`made` is false), and `Exit`, which asks only for `m_Initialized`, sets the first of them
through a null pointer (`SoundPlay.cpp:111-130`, `169`): the process has `Crashed` and nothing moves any more.

`PseudoTcp`. A handler is a function from the control block to the control block, with the packets it writes in `out`. `dup_acks` wraps
at 256, as the code's `uint8` does. An end that is DELETED does nothing more, whether its process lives (its tunnel's socket is gone and drops packets) or has
ended on a packet that came before that (`OnSocketRead` uses `tcp_` unasked, `tunnelsessionclient.cc:464`). The
congestion window is any value of at least one segment; a timer that runs may fire. `forced` remembers that the
retransmission timer sent new bytes beyond the window the peer had told: a write that blocked has started that timer, the
window has closed meanwhile, and `NotifyClock` does not look at it (`pseudotcp.cc:253-267`, `856-868`). The peer cuts such a segment to
what its buffer takes and acknowledges its middle (`765-775`); the sender shortens the segment without moving its number (`642-654`), so that
it later repeats bytes from the wrong place. The peer has those bytes already, hence the stream stays intact, but the connection may
end at the limit of retransmissions. `SegmentsAreTheBuffer` and `WindowIsKept` speak of an end until that happens to it;
the stream is intact in any case.

## 3. Runs

| Run | Question | Answer |
|---|---|---|
| `jitter` | any network: is a packet owned exactly once, does it move towards playout and leave; nothing lost or reordered: is the order kept, also on overflow? | yes |
| `client` | two calls, every command, every stanza: pointers, announcements, lifecycle, timers, deletion; one call at a time without REJECT_CALL | all hold |
| `adapter_any` | two writers: wake-ups, whole texts, the abstract mailbox | all hold |
| `dialog_any` | one helper thread at a time, every button and key, any notices: does the ringing end? | yes |
| `calls` | the front desk: is an incoming call looked after until it ends, across both threads? A caller: does Hangup end the call? Both: is Call offered again? | yes, unless CALL or STR_CHAT replaces the command in the mailbox |
| `second_caller` | can the call be hung up after a second caller was turned away? | no: Hangup is disabled |
| `login` | logins that fail, succeed, break off or are ended at any moment: is a thread left behind, do the buttons fit, does the dialog hang? | all hold, with the exceptions named in `ExitMissing` (hangs) and `Forgotten` (Hangup offered after a REJECT_CALL) |
| `logout_call` | does Logout end the call? | no: the peer is not told |
| `threads` | three threads that post to, send to and stop one another: wake-ups, answers, calls that return | all hold, if handlers of sent messages do not send |
| `voice` | two calls: do posted messages find their channel, is only the call in focus heard, do the sound threads end first, does hanging up return? | all hold, but where a sound could not be set up: `ready` in `SoundThreadsEndFirst`, `Crashed` in `HangupReturns` |
| `voice_send` | does the capture thread's packet find its socket? | no: the channel is deleted first |
| `tcp_stream` | a lossy network and a changing MTU: does the stream arrive intact, does it ever stall, are the segments the send buffer, does what is sent fit the peer's window? | all hold |

The three "no" are findings in `PROJECT.json`, each with the line it contradicts.

- **second_caller** (`Win32CallClient.cpp:298`): the end of the rejected session is announced as the end of the call.
- **logout_call** (`Win32CallClient.cpp:342`): EXIT terminates the call and disconnects in one handler; the terminate
  stanza is a task that would have run later.
- **voice_send** (`channelmanager.cc:132`): the voice channel and its socket are deleted before the thread that sends
  through them is joined.

What the properties of `calls` excuse is real. The mailbox holds one command. Sendmsg is enabled as long as one is logged in, also in a call and while one rings, and stores STR_CHAT in it
(`LibJingleDlg.cpp:907-908`, `FromJingleMessage.cpp:162`, `269`); a key of the box looks at the status, which is INITIAL as soon as Hangup was pressed, and stores
CALL. Either may take the place of a command that the signalling thread has not looked at yet: of the helper's ACCEPT_CALL or REJECT_CALL, after which a call
that comes in rings on with nobody to end it but its caller, or of a HANGUP, after which the call goes on. The run has both uses with all of this: the front desk has
Hangup, Sendmsg and RIGHT_KEY, a caller has the mouse (Call, Hangup, Sendmsg) or the box (LEFT_KEY, RIGHT_KEY). `RingingIsAttended` (an action property) says
that a ringing call ceases to be looked after in no other way, `IncomingCallEnds` and `HangupEndsCall` that calls end in every other case. In particular
the *button* Call never replaces a HANGUP, because it is disabled until the end of the call was announced; the mutant of `HangupEndsCall` breaks exactly that.
What is left of the uses: nobody calls from the front desk, nobody uses mouse and box in turn to call, and a caller is not called, as
the comment at `LibJingleDlg.h:173` has it. The theorems about the composition hold for any use, `second_caller` is a caller who is called.

Why `OneCall` leaves REJECT_CALL out: `Win32CallClient` forgets the call in whatever state it is
(`Win32CallClient.cpp:362-370`), and a second call may begin.

What `HandlerReturns` of `login` excuses is real: `Login` while the signalling thread still runs waits for it without giving it
EXIT, and a helper thread may store its command over the EXIT. In both cases the UI waits as long as the connection
lasts. A CALL left in the mailbox is executed by the next login before `InitPhone`: the thread is then `crashed`.

`ButtonsFit` of `login` holds with every command. A REJECT_CALL, which the helper of each unanswered call gives (`LibJingleDlg.cpp:495`), makes the
client forget a call that goes on (`Win32CallClient.cpp:362-370`): Hangup is then enabled although the client is in no call (`Forgotten`). That Hangup can be
wrong in the other direction, disabled in a call, takes two callers and is the finding of `second_caller`; `login` has no second session.

### Bounds, and why they are enough

- `jitter`: three slots, two empty reads to silence, five sequence numbers, five arrivals: the ring
  fills, overflows, empties and the numbers wrap.
- `client`: two sessions, one call in progress and one that comes in, ends, or is turned away; ids are used
  once. A behaviour has all commands, or all but REJECT_CALL and STR_CHAT. One session in `calls` (the interplay of one call with the dialog), two in the finding.
- `calls`: a user dials only while fewer WM_STOPMUSIC wait than there are helpers in use (`MyJingle`'s `Dialog`), with the button as with the key, for the reason
  given for `StopsPending`. Chats and hang-ups are not bounded.
- `Helpers`: one helper thread in `dialog_any` (the theorem `RingingIsLookedAfter` covers any number), two at the front desk of `calls`
  (a call that comes in while the helper of the one before still has steps to take), one for its caller.
- `MaxQueue` = 1 (Dialog): arbitrary notices are posted to an otherwise empty queue in `dialog_any`; the helpers and the bells add theirs.
  In `MyJingle` the queue is as long as it gets.
- `StopsPending` (Dialog): the Call handler waits while as many WM_STOPMUSIC are queued as there are helpers; one
  MM_MCINOTIFY and one MSG_TIMEOUT per session is queued at a time. Each says that the queue is served in the seconds
  a bell or the session timer takes.
- `login`: three logins (one that ends, one pressed while the old thread still runs, one after that), one call in each. `MaxQueue` = 4 (Login): the
  box's key is pressed only while fewer than four messages wait for the window; with the key and REJECT_CALL a client could call and forget without end while
  the window serves nothing.
- `threads`: three threads and three workloads: a call and the end of the worker; three threads that send in a ring; a tunnel made
  while the signalling thread uses the worker. `NothingIsForgotten` and `SendersWait` are proved for any.
- `voice`: two calls (the focus is lost by one and taken by the other); at most two messages in the worker's queue when one is added (a change of focus
  adds two, so up to three). The theorems cover any number of both.
- `tcp_stream`: four bytes from the initiator, buffers of two bytes, segments of one or two bytes, two packets on their
  way to the initiator and one to the responder, a socket that takes every packet or blocks at once: a buffer fills, a window closes and opens, segments are split, acknowledged in part, repeated
  and received early. Any packet may be lost when it is written, one that is not is delivered at any time, in any order; repetitions come from retransmission.
  A segment of an open connection is transmitted at most twice, the connection request once: the code's 15 and 30 only repeat
  what the second transmission shows, and the repetition of the handshake is left to the theorems, which hold for every limit.
- `Undisturbed` (MCMyJingle) cuts off bells that end by themselves and failing peers in `second_caller`
  only: it makes the search shorter; what is found is a behaviour of the full model.
- No run with liveness uses symmetry. `CHECK_DEADLOCK FALSE` where the system really stops: sessions, logins, calls, bytes
  and workloads are used up.

### Fairness

`CallClient!Fairness`: the signalling thread dispatches what is posted (`Thread::Loop`), the pump runs the tasks, and a
timer fires; nothing is assumed of peers or of the user. `Dialog!Fairness`: a helper's wait ends (it has a limit of
ten seconds) and its steps go on, the message loop serves the queue. `MyJingle` adds that the signalling thread looks
at a signalled event when it is idle (`Wait` returns for it). `JitterBuffer`: the play thread goes on reading, it is
woken by the sound card. `JingleAdapter`: threads in the middle of an operation go on; strong fairness for the reader's
mutex, which every writer releases. `Login`, `Threads`, `Voice`: the threads run; nothing is assumed of the network,
of time, of the sound card and of the user.

## 4. Proofs

All theorems hold for every value of the constants that satisfies the named assumptions (`...Constants`), which TLC
evaluates in the runs.

- `JitterBufferProofs`: `SharingNever`, `LeakNever` from `IInv` = types, freshness (every packet has an `id` of at most
  `arrived`), NoSharing and NoLeak. Freshness is needed because the next packet must differ from every one that is
  buffered, played or deleted. `LatencyBounded` is an action property: `Distance` modulo the ring's length either stays or
  goes down by one. `OrderKept` rests on `Lined`: while everything arrived in order, the buffered packets stand behind
  each other from the head on, up to the last that arrived. An order once broken stays broken (`OrderWas`), so a step need
  only be looked at from a state that is `Lined`.
- `CallClientProofs`: `TypeCorrect`, `CallNeverDangles`, `FocusNeverDangles`, `SessionsKeepTheirCall`. `IInv` adds to the
  types two statements about the record that every part of a handler keeps: `Whole` (a session that exists has its Call,
  `call_` points at an existing session, the focus is a Call that exists, and what is queued for a session or its timer fits the
  session's state) and `Current` (`call_` is a live session or one that was
  just rejected); `InboxOK` says that a queued INITIATE names a session that does not exist yet, and no other queued one names it. Each part has a lemma; a handler is the composition of its parts and its proof the composition of theirs.
  The other four look at what a step does to a session, so every part of a handler also has a lemma about `Moved`: a session only goes
  forward, its end is posted, and a terminate is written by a session that had none yet.
  - `EndsAreTold`, `OneTerminate` and `FollowsLifecycle` (the safety half of the refinement of `CallLifecycle`) need `OInv`, the order in
    which things are queued, since a message handled out of order would move an ended session again: `Pumping` and `Waits` (while
    stanzas wait, the next message but one at most is the pump's, so a MSG_STATE is dispatched before the stanza behind it), `InboxOrder` (a peer's accept
    comes before everything else it says of the session, nothing follows its error) and `Ordered` (no session has an accept to come that it is past, unless
    its own MSG_STATE stands first in the queue).
  - `OneCallHolds` rests on `Owned`: whatever is alive is `call_`. The property speaks of behaviours without REJECT_CALL (which forgets a live call, see
    section 3); the commands are any.
- `DialogProofs`: `TypeCorrect` and `RingingIsLookedAfter`. `IInv` = types and "a helper that runs has a step to take". The
  argument of the second: a helper gives up the duty to set the status only in the very step that sets it, and
  then nothing rings; every ring starts a helper of its own.
- `MyJingleProofs`, about the composition; nothing in it looks into a handler of the signalling thread, it cites what `CallClientProofs` and
  `DialogProofs` prove of their steps, above all `Informs`: a step that ends the last call posts a closing notice behind all others, and a step that
  makes a session ring posts INCOMING. `OffersCall` needs no hypothesis: `ButtonsInv` says that once no call is alive the
  buttons are right already or the last deciding notice still queued makes them so (`Settled`). `RingsAreAttended` follows from `RingInv`: for each ringing session
  the notice INCOMING is still in the window's queue, or a helper has yet to give its command, or a command that ends the ringing (ACCEPT_CALL,
  REJECT_CALL, HANGUP) is in the mailbox with its event set or about to be (`Attended`), and the steps a helper has left are those of one of the
  code's branches (`Planned`). No use is excluded: the action property `RingingIsAttended` names the one kind of step that ends the attendance, a CALL or STR_CHAT stored
  over the command (in `MCBoth` a user presses Call while the helper's ACCEPT waits, in `MCUses` the front desk chats), and the proof shows step by step that there is
  no other. A call may begin to ring in any step, and then is attended whatever was before.
  - The mailbox itself, at the grain at which threads interrupt each other: `MailboxTypeCorrect`, `WakeupNeverLost`, `TextAlwaysIntact` and the
    refinement `ImplementsMailbox` (its safety part: initial states and steps). The invariant says who holds the mutex, that a text is torn only
    under it, and that whoever set the event has stored a command first.
- `LoginProofs`: `TypeCorrect` and `NothingIsLeftBehind`. `IInv` adds that the UI thread is in one of the handlers' positions, that
  `running` is false only without a thread, and that a stack that is being left has nothing posted (`Quiet`). `ButtonsTellTheState`
  says of the buttons that they fit the thread at every moment at which everything posted was told; the invariant `BInv` says what they *will* show once it is
  (`Told`: the last notice decides) and relates that to engine, tasks and call (`Fit`). It holds for any commands: a REJECT_CALL drops the call
  without a notice, and what keeps Hangup enabled then is a call that was made and of which nobody told the peer the end (`Forgotten`).
- `ThreadsProofs`: `TypeCorrect`, `NothingIsOverlooked` and `SendersAreAnswered`, for any threads, handlers and callbacks. `IInv` adds the shape of the
  stacks (`Nested`: only a handler or a callback makes calls, only `Send` receives), "what is sent is flagged" (`has_sends`)
  and `Safe`, the strengthening that says of a thread about to sleep what the property says of one that sleeps. `SendersAreAnswered`
  adds `AnswersInv`: a message in a sendlist, or one that a `ReceiveSends` has taken and not answered, points to a frame that waits
  (`PointsToSender`), each frame that waits has one (`IsAsked`), and only one (`AskedOnce`). The last is what makes it inductive: were two
  messages of one sender about, the answer to the first would leave the second with a `ready` that is gone. The steps fall into those that keep
  what frames want and hold (`QuietStep`) and four that add, move or answer a message.
- `VoiceProofs`: `TypeCorrect`, `MessagesFind`, `ThreadsEndFirst`, `VoiceFollows`, for any calls and any queue. `Handshake` relates what the
  signalling thread waits for to the worker's position, `Addressed` says that a channel that is alive, enabled or written to belongs
  to a call with a session or to the one being destroyed, `Ended` that the threads already joined have ended. `VoiceFollows`
  needs `Focused` as well: at no prefix of the queue are two channels enabled (`After(posted, enabled, n, c)` is what the first n messages
  make of a channel), and the whole queue leaves the call in focus enabled. `Grown` and `Handled` say what a message appended and a message handled do to it.
- `PseudoTcpProofs`: `TypeCorrect`, `StreamSafe`, `WindowSafe`, `SegmentsSafe` and `StallsNever`, for any sizes of buffers and segments, any path and any loss.
  A handler is a composition of functions on the control block, and so is its proof: each function has a lemma that it
  keeps what holds of the block throughout a handler (`Good`, `Tight` for the windows, `Flows` and `Leaves` for what moves the stream) and one that says which
  fields it changes; `Held`, `Fits` and `Lives` say what is left when the handler is done, and `StepPreserves` draws the invariants from them.
  - `IInv` gives the first two. A byte's number is its value: the send buffer holds the numbers from `snd_una` up to the last one written
    (`Buffered`), the list of segments is as long as the buffer and `snd_nxt` lies behind those that were sent (`Listed`), what was received
    and what was saved out of order lie in `rbuf` where their numbers say (`Received`, `Saved`). Across the ends, nobody takes for acknowledged
    what the peer has not received (`EndOK`), and a packet holds the right bytes *from the first one on that its receiver still needs* (`Contents`). It may hold
    anything before: the segment of a forced end, whose number is too low, is read from before the buffer, and the stream survives only because
    `process()` drops what it has already.
  - `WInv`, inductive together with `IInv`, gives the next two: until an end was forced its segments lie without a gap, every packet ends
    where a segment does and is acknowledged there, and nothing sent or under way lies beyond the window. That packets are acknowledged whole and that
    windows are kept need each other: a window that shrank would cut a segment, and a cut segment moves the numbers.
  - `MInv`, inductive together with `IInv`, gives `NothingStalls`, with one condition for each field that starts a timer or asks for an event: what is
    under way has the retransmission timer (`Clocked`), a reader with bytes in his buffer was told of them (`Tells`), a writer who waits has
    asked for an event and has two thirds of a buffer unacknowledged (`Asked`), and an end that has bytes to send and did not fail has the timer or
    a closed window, whose probe it is (`Moving`). The last holds only between handlers, and is the reason why every handler that adds to or takes from the
    send buffer ends in `attemptSend()`: that leaves its loop only with something under way, with a closed window, or with a failure. It needs the
    congestion window to take a segment (`Wide`): with one below the segment size the silly-window test could hold data back with nothing under way.
    Across the ends, an end is deleted only after its peer has received all it wrote (`KeepsOn`).
  - Sums over the list (`Offsets`) and the largest of a set are the only inductions over data; they speak of sets of naturals, so
    the lemma `Induction` draws them from the well-foundedness of < without the library's theorems about predicates.

Only model-checked: liveness (`RingingEnds`, `IncomingCallEnds`, `HangupEndsCall`, `CallsAreDisposed` with its disposal part,
`UnansweredCallEnds`, `CallsAreDeleted`, `PacketsLeave`, `HandlerReturns`, `CallsReturn`, `HangupReturns`, the fairness of `NewestIsServed`), which the prover cannot express.
Every safety property and action property of the passing runs is a theorem, from no hypothesis but the assumptions on the constants.

## 5. What is abstracted

- `CallClient`, `Dialog`, `MyJingle` begin logged in; `Login` has one call as a flag. Redirect and modify (never sent by this program), candidates and the
  transport (a session sees `OnSocketState`), presence, roster and chat texts apart from STR_CHAT in the mailbox are left out. The checks SetAnswerEvent and SetRejectEvent make are one step
  with the SetEvent that follows. The mutex of the mailbox exists from the start.
- `JitterBuffer`: the running average, the frequency and the contents of packets.
- `Threads`: Peek, waits with a limit and Restart, which have no caller here.
- `Voice`: mute, pause, join and the monitors, which the program never uses. The sound device, its two
  buffers and the threads are taken to be there: `m_Audiodev->Init`, the capture buffer (`SoundCapture.cpp:113`) and `CreateThread` do not fail; what fails after that is modelled. Codecs are data. `SetFocus` is
  only given calls with a session, as `Win32CallClient` does.
- `PseudoTcp`: the window scale, the wrap of 32-bit numbers, and `WR_FAIL` in the run; the tunnel's own threads and its destruction.

## 6. Not modelled, and why

The map covers a small part of `src/`: most of it is vendored (Speex, Ogg, Expat, a sound test tool), a library whose other
half the program does not use, or input and output. Of the program's own code these are left out:

- P2P transport, STUN and relay: what a session sees of them is `OnSocketState` and lost packets; their algorithms (port
  allocation, pings, sorting of connections) deserve a project of their own.
- Tasks: their states appear in `CallClient` (the pump) and `Login`; `PollTasks` has no caller, so no task ever times out.
- XML, sockets, SSL, login stanzas: parsing and input or output.
- Presence, roster, chat task, windows, configuration, database, passwords: they write to widgets or read once at the start.
- Call box: its keys are actions of `Dialog` and `Login`; the decoding of a report compares it with two constants.
- Sound devices, mixer, codecs, jitter statistics: DirectSound and floating-point code.

## 7. Further disagreements met while modelling

Read from the code, without a run of their own.

- Calls: after a peer's hang-up the status stays ONLINE (`LibJingleDlg.cpp:726`); the dialog's ten-second timeout sends no
  HANGUP (`LibJingleDlg.cpp:758`); one hang-up is announced twice and the second notice may leave an event set for the next call
  (`LibJingleDlg.cpp:762`); a bell that ends as the call is answered starts the busy tone (`LibJingleDlg.cpp:288`); SetAnswerEvent and
  SetRejectEvent test and set without a lock (`LibJingleDlg.cpp:714`); the helper of a call that is over gives REJECT_CALL up to
  ten seconds later, to whatever call there then is (`LibJingleDlg.cpp:495`); a rejected session sends a terminate as well
  (`session.cc:250-252`); a call without a common codec is rejected before the call client hears of it, and the dialog rings
  (`phonesessionclient.cc:188`).
- Mailbox: the jid is read before the mutex is taken (`Win32CallClient.cpp:318`); the mutex is created by the first
  thread that wants it, without a lock (`ToJingleMessage.cpp:65`).
- Login: nothing is connected to the socket's `SignalCloseEvent` (`xmppsocket.cc:49`): a lost connection goes unnoticed.
- Threads: a Send made by a handler that `ReceiveSends` runs uses up the wake-up of the outer answer, which then waits with
  `ready` set (`thread.cc:206-209`), and the wake-up of a Stop; a tunnel does so (`tunnelsessionclient.cc:178`), although
  `thread.cc:219-220` says that Send must complete.
- Mailbox: STR_CHAT takes the place of a HANGUP, an ACCEPT_CALL or a REJECT_CALL that waits (`LibJingleDlg.cpp:907`), see section 3.
- Tunnel: `AdjustClock` deletes `tcp_` and sets it to NULL; a packet, a change of the connection or a clock message that comes before the tunnel is destroyed uses it
  (`tunnelsessionclient.cc:464-466`, `476-488`, `544-545`).
- Sound: `SoundPlayImpl::Exit` after an `Init` that threw before it made its events (`SoundPlay.cpp:169`); a packet that comes too late cannot be told from one far too early and evicts the next to be played
  (`JitterBuffer.cpp:75-90`); a packet that finds the head slot empty takes it, whatever is buffered behind it (`JitterBuffer.cpp:72`);
  if the capture buffer gives no notifications, `~BeatMediaChannel` fails before it stops the capture thread (hence `ready` in `SoundThreadsEndFirst`);
  if the device cannot be opened, `Start` uses a capture buffer that was never set, because `m_Initialized` is set first
  (`SoundCapture.cpp:111`); two calls share one DirectSound device, so a second channel takes over the notifications of the first and its Exit
  stops the shared buffer; Logout in a call leaves the channel and the capture thread running; `FindMediaCodec` returns after the first codec.
- Call box: a report that differs from the left key's is taken for the left key, and the left key's own for none
  (`UsbDevice.cpp:72-93`).

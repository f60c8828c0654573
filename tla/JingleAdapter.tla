----------------------------- MODULE JingleAdapter -----------------------------
(***************************************************************************)
(* How a command of the dialog reaches the signalling thread: one          *)
(* ToJingleMessage, filled in by any thread under its mutex, and one event *)
(* (src/LibJingle/Win32JingleAdapter.cpp, ToJingleMessage.cpp).  The       *)
(* writers are the UI thread and the helper threads of incoming calls; the *)
(* reader is the signalling thread.                                        *)
(*                                                                         *)
(* The steps are the ones the threads can be interrupted between: to take  *)
(* the mutex, to fill the message in, to set the event; to be woken, to    *)
(* read the jid (without the mutex), to read the rest (with it).  A string *)
(* that is being assigned has the value Torn.  The model starts when the   *)
(* mutex exists, after the first command.                                  *)
(***************************************************************************)
CONSTANTS Writers, Contacts, Texts, None, Torn

Types == {"CALL", "HANGUP", "ACCEPT_CALL", "REJECT_CALL", "EXIT", "STR_CHAT"}

Commands ==
  [type : {"CALL", "ACCEPT_CALL", "REJECT_CALL"}, jid : Contacts, text : {None}]
    \cup [type : {"HANGUP", "EXIT"}, jid : {None}, text : {None}]
    \cup [type : {"STR_CHAT"}, jid : Contacts, text : Texts]

VARIABLES
  m_Message,  \* the message: type, jid, text
  m_Mutex,    \* the writer that holds the mutex
  m_Event,    \* the event is set
  writer,     \* where each writer is, and the command it gives
  reader,     \* where the signalling thread is
  jid,        \* the jid OnMessage has read
  done,       \* the command OnMessage executed last
  fresh       \* history: the message has not been executed since it was stored

vars == <<m_Message, m_Mutex, m_Event, writer, reader, jid, done, fresh>>

Nothing == [type |-> "UNKNOWN", jid |-> None, text |-> None]

Init ==
  /\ m_Message = Nothing
  /\ m_Mutex = None
  /\ m_Event = FALSE
  /\ writer = [w \in Writers |-> [at |-> "idle", command |-> Nothing]]
  /\ reader = "waiting"
  /\ jid = None
  /\ done = Nothing
  /\ fresh = FALSE

-----------------------------------------------------------------------------
(* Type(), used for HANGUP and EXIT, assigns the type only; the jid of     *)
(* SetJidAndType and the strings of SetChatMsgAndType are assigned.        *)
Assigned(old, new) == IF new = None THEN old ELSE new

Lock(w, command) ==
  /\ writer[w].at = "idle"
  /\ m_Mutex = None
  /\ m_Mutex' = w
  /\ writer' = [writer EXCEPT ![w] = [at |-> "writing", command |-> command]]
  /\ m_Message' = [m_Message EXCEPT
                     !.jid  = IF command.jid = None THEN @ ELSE Torn,
                     !.text = IF command.text = None THEN @ ELSE Torn]
  /\ UNCHANGED <<m_Event, reader, jid, done, fresh>>

Store(w) ==
  /\ writer[w].at = "writing"
  /\ LET c == writer[w].command
     IN  m_Message' = [type |-> c.type,
                       jid  |-> Assigned(m_Message.jid, c.jid),
                       text |-> Assigned(m_Message.text, c.text)]
  /\ m_Mutex' = None
  /\ fresh' = TRUE
  /\ writer' = [writer EXCEPT ![w].at = "stored"]
  /\ UNCHANGED <<m_Event, reader, jid, done>>

SetEvent(w) ==
  /\ writer[w].at = "stored"
  /\ m_Event' = TRUE
  /\ writer' = [writer EXCEPT ![w] = [at |-> "idle", command |-> Nothing]]
  /\ UNCHANGED <<m_Message, m_Mutex, reader, jid, done, fresh>>

(* PhysicalSocketServer::Wait: the event is reset before it is served.     *)
OnPreEvent ==
  /\ reader = "waiting"
  /\ m_Event
  /\ m_Event' = FALSE
  /\ reader' = "woken"
  /\ UNCHANGED <<m_Message, m_Mutex, writer, jid, done, fresh>>

ReadJid ==
  /\ reader = "woken"
  /\ jid' = m_Message.jid
  /\ reader' = "reading"
  /\ UNCHANGED <<m_Message, m_Mutex, m_Event, writer, done, fresh>>

(* Mutated: jid and text are passed in the wrong order.                    *)
ExecutedSwapped == [type |-> m_Message.type, jid |-> m_Message.text, text |-> jid]

Executed == [type |-> m_Message.type, jid |-> jid, text |-> m_Message.text]

(* Mutated: the event is reset once more when the command was executed.    *)
OnMessageResets ==
  /\ \/ /\ reader = "reading"
        /\ m_Mutex = None
        /\ done' = Executed
        /\ jid' = None
        /\ fresh' = FALSE
        /\ reader' = "served"
        /\ UNCHANGED m_Event
     \/ /\ reader = "served"
        /\ m_Event' = FALSE
        /\ reader' = "waiting"
        /\ UNCHANGED <<jid, done, fresh>>
  /\ UNCHANGED <<m_Message, m_Mutex, writer>>

(* Mutated: the text and the type are read without the mutex as well.      *)
OnMessageUnlocked ==
  /\ reader = "reading"
  /\ done' = Executed
  /\ jid' = None
  /\ fresh' = FALSE
  /\ reader' = "waiting"
  /\ UNCHANGED <<m_Message, m_Mutex, m_Event, writer>>

OnMessage ==
  /\ reader = "reading"
  /\ m_Mutex = None
  /\ done' = Executed
  /\ jid' = None
  /\ fresh' = FALSE
  /\ reader' = "waiting"
  /\ UNCHANGED <<m_Message, m_Mutex, m_Event, writer>>

Next ==
  \/ \E w \in Writers : Store(w) \/ SetEvent(w) \/ \E c \in Commands : Lock(w, c)
  \/ OnPreEvent \/ ReadJid \/ OnMessage

Spec == Init /\ [][Next]_vars

(* A thread that has begun goes on; the mutex is free again and again, so  *)
(* a thread that wants it gets it in the end.                              *)
FairSpec ==
  /\ Spec
  /\ \A w \in Writers : WF_vars(Store(w)) /\ WF_vars(SetEvent(w))
  /\ WF_vars(OnPreEvent) /\ WF_vars(ReadJid) /\ SF_vars(OnMessage)

=============================================================================

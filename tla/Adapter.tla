-------------------------------- MODULE Adapter --------------------------------
(***************************************************************************)
(* What the mailbox of JingleAdapter promises.  The promises have a module *)
(* of their own, and names of their own, because the mailbox is the link   *)
(* between the two threads of MyJingle: MyJingleProofs extends both.       *)
(***************************************************************************)
CONSTANTS Writers, Contacts, Texts, Nobody, Torn

ASSUME AdapterConstants ==
  /\ Nobody \notin Writers \cup Contacts \cup Texts
  /\ Torn \notin Texts \cup Contacts \cup {Nobody}

VARIABLES m_Message, m_Mutex, m_Event, writer, reader, jid, done, fresh

Box == INSTANCE JingleAdapter WITH None <- Nobody

MailboxSpec == Box!FairSpec

MailboxTypeOK ==
  /\ m_Message \in [type : Box!Types \cup {"UNKNOWN"}, jid : Contacts \cup {Nobody, Torn},
                    text : Texts \cup {Nobody, Torn}]
  /\ m_Mutex \in Writers \cup {Nobody}
  /\ m_Event \in BOOLEAN
  /\ writer \in [Writers -> [at : {"idle", "writing", "stored"},
                             command : Box!Commands \cup {Box!Nothing}]]
  /\ reader \in {"waiting", "woken", "reading"}
  /\ jid \in Contacts \cup {Nobody, Torn}
  /\ done \in [type : Box!Types \cup {"UNKNOWN"}, jid : Contacts \cup {Nobody, Torn},
               text : Texts \cup {Nobody, Torn}]
  /\ fresh \in BOOLEAN

(* No lost wake-up: a message that has not been executed is about to be    *)
(* read, or the event is set, or a writer is about to set it.              *)
NoLostWakeup ==
  fresh => \/ m_Event
           \/ reader # "waiting"
           \/ \E w \in Writers : writer[w].at = "stored"

(* The text of a chat message is read whole (the mutex protects it).       *)
TextIntact == done.type = "STR_CHAT" => done.text \in Texts

(* The mailbox serves the newest command, whatever the interleaving.       *)
Abstract == INSTANCE Mailbox WITH
              Items <- Box!Types, Nothing <- "UNKNOWN",
              content <- m_Message.type, taken <- done.type, fresh <- fresh

NewestIsServed == Abstract!Spec
=============================================================================

------------------------------ MODULE MCThreads ------------------------------
(* Threads for TLC: the signalling thread, the worker and a thread with a  *)
(* stream, and what the session and the socket manager do with them.       *)
EXTENDS Threads

CONSTANTS signalling, worker, stream

Snd(u, m)     == [op |-> "Send", to |-> u, msg |-> m]
Pst(u, m)     == [op |-> "Post", to |-> u, msg |-> m]
Later(u, m)   == [op |-> "PostDelayed", to |-> u, msg |-> m]
Clr(u, what)  == [op |-> "Clear", to |-> u, what |-> what]
Del(u)        == [op |-> "delete", to |-> u]

MCMessages == {"create", "destroy", "candidates", "timeout", "ping", "tunnel"}

MCDoes ==
  [m \in MCMessages |->
     CASE m = "create"  -> <<Later(worker, "ping"), Pst(signalling, "candidates")>>
       [] m = "destroy" -> <<Clr(worker, {"ping"})>>
       [] m = "tunnel"  -> <<Snd(worker, "create")>>
       [] OTHER         -> <<>>]

Nothing == [t \in {signalling, worker, stream} |-> <<>>]

\* A tunnel is made while the signalling thread uses the worker.
MCTunnel ==
  [Nothing EXCEPT
     ![signalling] = << <<Snd(worker, "destroy"), Snd(signalling, "timeout")>> >>,
     ![worker]     = << <<Pst(signalling, "candidates")>> >>,
     ![stream]     = << <<Snd(signalling, "tunnel")>> >>]

MCWorkloads ==
  { \* a call is made and ends, and the worker with it
    [Nothing EXCEPT
       ![signalling] = << <<Later(signalling, "timeout"), Snd(worker, "create")>>,
                          <<Clr(signalling, {"timeout"}), Snd(worker, "destroy"),
                            Del(worker)>> >>],
    \* every thread sends to another one
    [Nothing EXCEPT
       ![signalling] = << <<Snd(worker, "destroy")>> >>,
       ![worker]     = << <<Snd(signalling, "candidates")>> >>,
       ![stream]     = << <<Snd(signalling, "timeout"), Clr(worker, {"destroy"})>> >>],
    MCTunnel }
=============================================================================

------------------------------- MODULE MCMyJingle -------------------------------
(* Instances of MyJingle for TLC. *)
EXTENDS MyJingle, TLC

\* the front desk rejects and hangs up, with the mouse or the box, and chats;
\* a caller has the mouse, and chats, or has the box
Desk    == [clicks |-> {"Hangup", "Sendmsg"}, keys |-> {"RIGHT_KEY"}, ways |-> {"in"},
            helpers |-> Helpers]
Caller  == [clicks |-> {"Call", "Hangup", "Sendmsg"}, keys |-> {}, ways |-> {"out"},
            helpers |-> {CHOOSE h \in Helpers : TRUE}]
BoxUser == [Caller EXCEPT !.clicks = {}, !.keys = BoxKeys]
MCUses  == {Desk, Caller, BoxUser}

\* a caller who is called
Both    == [clicks |-> {"Call"}, keys |-> {}, ways |-> {"in", "out"}, helpers |-> Helpers]
MCBoth  == {Both}

\* the threads, and the calls, are interchangeable
Symmetry == Permutations(Helpers) \cup Permutations(Sessions)

(* For the runs that look for one behaviour: bells do not end by           *)
(* themselves, peers do not fail.                                          *)
Undisturbed ==
  /\ \A i \in DOMAIN uiQueue : uiQueue[i] # "MM_MCINOTIFY"
  /\ \A i \in DOMAIN inbox : inbox[i].type # "ERROR"
  /\ \A s \in Sessions : client.error[s] = "NONE"
=============================================================================
